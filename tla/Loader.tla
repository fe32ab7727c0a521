-------------------------------- MODULE Loader --------------------------------
(***************************************************************************)
(* The module loader of crates/malus-loader/src/lib.rs: load_file calls    *)
(* itself for every import, with a cache of loaded files, a stack for      *)
(* cycle detection and a table of import aliases, and load flattens the    *)
(* files into one program.  The recursion is the stack "frames" of the     *)
(* calls that are open and the value the innermost has just returned.      *)
(* A file's definitions are abstracted to the file and what it exports.    *)
(***************************************************************************)
EXTENDS Integers, Sequences, SequencesExt, FiniteSets

CONSTANTS Files,            \* canonical paths
          NoFile,           \* what canonicalize fails with
          Paths,            \* paths that imports spell out
          Canonical(_),     \* canonicalize: path -> file or NoFile
          Alias(_),         \* last segment of a path
          Entry,            \* the path on the command line
          Names,            \* names of functions and kernels
          Projects          \* what may be on disk: file -> contents

Import == [kind : {"import", "from"}, path : Paths, names : SUBSET Names]
Source == [readable : BOOLEAN, parses : BOOLEAN, imports : Seq(Import),
           exports : SUBSET Names]

ASSUME ConstantsAssumption ==
    /\ NoFile \notin Files
    /\ \A p \in Paths : Canonical(p) \in Files \cup {NoFile}
    /\ Entry \in Paths
    /\ Projects \subseteq [Files -> Source]

VARIABLES project,          \* the contents of the files; nothing changes them
          loaded,           \* [file, id] in the order of insertion
          inProgress,       \* in_progress
          frames,           \* open load_file calls: [file, id, at], at the next import
          returned,         \* the FileId a call has just returned, or NoId
          nextFileId,
          sources,          \* FileId -> file
          aliases,          \* module_aliases: prefix -> exported names
          status,           \* "loading", "done" or the error
          cycle,            \* what CircularImport reports
          flat              \* the flattened program

vars == <<project, loaded, inProgress, frames, returned, nextFileId, sources,
          aliases, status, cycle, flat>>

NoId == -1

Init ==
    /\ project \in Projects
    /\ loaded = << >> /\ inProgress = << >> /\ frames = << >>
    /\ returned = NoId /\ nextFileId = 0
    /\ sources = << >> /\ aliases = << >>
    /\ status = "loading" /\ cycle = << >> /\ flat = << >>

LoadedFiles == {loaded[i].file : i \in DOMAIN loaded}
IdOf(f) == (CHOOSE e \in ToSet(loaded) : e.file = f).id

Top == frames[Len(frames)]
Imports(f) == project[f].imports
Current == Imports(Top.file)[Top.at]

(* What load_file is called with next: the entry, or the next import of the *)
(* innermost open call.                                                     *)
Calls(path) ==
    /\ status = "loading" /\ returned = NoId
    /\ IF frames = << >> THEN path = Entry
       ELSE Top.at <= Len(Imports(Top.file)) /\ path = Current.path

Fail(error) == status' = error

-----------------------------------------------------------------------------
(* load_file, as far as its loop over the imports.                          *)

(* canonicalize fails; only the error's name tells a missing file from one  *)
(* that cannot be reached.                                                  *)
NotFound(path) ==
    /\ Calls(path) /\ Canonical(path) = NoFile
    /\ Fail("file not found") \/ Fail("io error")
    /\ UNCHANGED <<project, loaded, inProgress, frames, returned, nextFileId,
                   sources, aliases, cycle, flat>>

Cached(path) ==
    /\ Calls(path) /\ Canonical(path) \in LoadedFiles
    /\ returned' = IdOf(Canonical(path))
    /\ UNCHANGED <<project, loaded, inProgress, frames, nextFileId, sources,
                   aliases, status, cycle, flat>>

Position(f) == CHOOSE i \in DOMAIN inProgress :
                   inProgress[i] = f /\ \A j \in 1..(i - 1) : inProgress[j] # f

CycleFromBottom(f) == inProgress \o <<f>>       \* mutant: the whole stack

CycleFrom(f) == SubSeq(inProgress, Position(f), Len(inProgress)) \o <<f>>

CircularAccepted(path) ==                        \* mutant: an open file is good enough
    /\ Calls(path) /\ Canonical(path) \notin LoadedFiles
    /\ \E fr \in ToSet(frames) : fr.file = Canonical(path) /\ returned' = fr.id
    /\ UNCHANGED <<project, loaded, inProgress, frames, nextFileId, sources,
                   aliases, status, cycle, flat>>

Circular(path) ==
    /\ Calls(path) /\ Canonical(path) \notin LoadedFiles
    /\ Canonical(path) \in ToSet(inProgress)
    /\ Fail("circular import")
    /\ cycle' = CycleFrom(Canonical(path))
    /\ UNCHANGED <<project, loaded, inProgress, frames, returned, nextFileId,
                   sources, aliases, flat>>

UnseenLoaded(f) == f \in Files \ LoadedFiles     \* mutant: open files are read again

Unseen(f) == f \in Files \ LoadedFiles /\ f \notin ToSet(inProgress)

(* A FileId is taken before the file is read, and the source is kept before *)
(* it is parsed.                                                            *)
Open(path) ==
    LET f == Canonical(path)
    IN  /\ Calls(path) /\ Unseen(f)
        /\ inProgress' = Append(inProgress, f)
        /\ nextFileId' = nextFileId + 1
        /\ sources' = IF project[f].readable
                      THEN [id \in DOMAIN sources \cup {nextFileId} |->
                               IF id = nextFileId THEN f ELSE sources[id]]
                      ELSE sources
        /\ \/ /\ ~project[f].readable /\ Fail("io error")
              /\ UNCHANGED frames
           \/ /\ project[f].readable /\ ~project[f].parses /\ Fail("parse error")
              /\ UNCHANGED frames
           \/ /\ project[f].readable /\ project[f].parses
              /\ frames' = Append(frames, [file |-> f, id |-> nextFileId, at |-> 1])
              /\ UNCHANGED status
        /\ UNCHANGED <<project, loaded, returned, aliases, cycle, flat>>

-----------------------------------------------------------------------------
(* The loop over the imports, its end, and the flattening.                  *)

ExportedAnywhere(id) ==                          \* mutant: names of any loaded file
    UNION {project[e.file].exports : e \in ToSet(loaded)}

(* exported_names; nothing if the file is not loaded.                       *)
ExportedNames(id) ==
    UNION {project[e.file].exports : e \in {e \in ToSet(loaded) : e.id = id}}

AdvanceNot == returned' = NoId /\ UNCHANGED frames   \* mutant: the same import again

Advance ==
    /\ frames' = [frames EXCEPT ![Len(frames)].at = @ + 1]
    /\ returned' = NoId

ResumeImport ==
    /\ status = "loading" /\ returned # NoId /\ frames # << >>
    /\ Current.kind = "import"
    /\ aliases' = [a \in DOMAIN aliases \cup {Alias(Current.path)} |->
                      IF a = Alias(Current.path) THEN ExportedNames(returned)
                      ELSE aliases[a]]
    /\ Advance
    /\ UNCHANGED <<project, loaded, inProgress, nextFileId, sources, status,
                   cycle, flat>>

ResumeFromImport ==
    /\ status = "loading" /\ returned # NoId /\ frames # << >>
    /\ Current.kind = "from"
    /\ \/ /\ Current.names \subseteq ExportedNames(returned)
          /\ Advance
          /\ UNCHANGED status
       \/ /\ ~ Current.names \subseteq ExportedNames(returned)
          /\ Fail("unresolved name")
          /\ UNCHANGED <<frames, returned>>
    /\ UNCHANGED <<project, loaded, inProgress, nextFileId, sources, aliases,
                   cycle, flat>>

CloseFile ==
    /\ status = "loading" /\ returned = NoId /\ frames # << >>
    /\ Top.at > Len(Imports(Top.file))
    /\ loaded' = Append(loaded, [file |-> Top.file, id |-> Top.id])
    /\ inProgress' = SubSeq(inProgress, 1, Len(inProgress) - 1)
    /\ frames' = SubSeq(frames, 1, Len(frames) - 1)
    /\ returned' = Top.id
    /\ UNCHANGED <<project, nextFileId, sources, aliases, status, cycle, flat>>

FlattenedTwice(others) ==                        \* mutant: the entry not left out
    <<Canonical(Entry)>> \o others \o <<Canonical(Entry)>>

Flattened(others) == others \o <<Canonical(Entry)>>

(* load iterates over a hash map, in whichever order, leaves the entry file *)
(* out and appends it at the end.                                           *)
Flatten ==
    /\ status = "loading" /\ returned # NoId /\ frames = << >>
    /\ \E others \in SetToSeqs(LoadedFiles \ {Canonical(Entry)}) :
          flat' = Flattened(others)
    /\ status' = "done"
    /\ UNCHANGED <<project, loaded, inProgress, frames, returned, nextFileId,
                   sources, aliases, cycle>>

Next ==
    \/ \E path \in Paths : NotFound(path) \/ Cached(path) \/ Circular(path) \/ Open(path)
    \/ ResumeImport \/ ResumeFromImport
    \/ CloseFile
    \/ Flatten

Spec == Init /\ [][Next]_vars

(* One thread runs the loader, and nothing in it waits.                     *)
FairSpec == Spec /\ WF_vars(Next)

-----------------------------------------------------------------------------
(* What a project means, without a loader.                                  *)

Dependencies(f) == {Canonical(Imports(f)[i].path) : i \in DOMAIN Imports(f)}

ImportClosed(S) == Canonical(Entry) \in S /\ \A f \in S \cap Files : Dependencies(f) \subseteq S

(* The files the entry needs, NoFile among them when an import leads nowhere. *)
Needed == {f \in Files \cup {NoFile} :
               \A S \in SUBSET (Files \cup {NoFile}) : ImportClosed(S) => f \in S}

(* No set of needed files in which each imports another.                    *)
Acyclic == \A S \in SUBSET Needed :
               S # {} => \E f \in S : f = NoFile \/ Dependencies(f) \cap S = {}

NamesResolve(f) ==
    \A i \in DOMAIN Imports(f) :
        Imports(f)[i].kind = "from" =>
            Imports(f)[i].names \subseteq project[Canonical(Imports(f)[i].path)].exports

Loadable ==
    /\ NoFile \notin Needed
    /\ \A f \in Needed : project[f].readable /\ project[f].parses
    /\ Acyclic
    /\ \A f \in Needed : NamesResolve(f)

-----------------------------------------------------------------------------
(* Properties.                                                              *)

(* 09-modules.md, diamond dependencies: a file is read at most once, however *)
(* many imports, by whatever spelling, lead to it.                           *)
ReadOnce ==
    \A i, j \in DOMAIN sources : sources[i] = sources[j] => i = j

(* A file is loaded after everything it imports, so that the exports looked *)
(* up for an import are never those of a file not there yet.                *)
DependenciesLoaded ==
    /\ \A i \in DOMAIN loaded : \A d \in Dependencies(loaded[i].file) :
          \E j \in 1..(i - 1) : loaded[j].file = d
    /\ returned # NoId => \E e \in ToSet(loaded) : e.id = returned

(* What is loaded is what the entry needs: the flat program has each needed *)
(* file once and the entry last.                                            *)
Complete ==
    status = "done" =>
        /\ ToSet(flat) = Needed
        /\ \A i, j \in DOMAIN flat : flat[i] = flat[j] => i = j
        /\ Last(flat) = Canonical(Entry)

(* A reported cycle is one: each file imports the next, the last is the     *)
(* first, and the entry needs it.                                           *)
CycleReal ==
    status = "circular import" =>
        /\ Len(cycle) >= 2 /\ cycle[1] = cycle[Len(cycle)]
        /\ \A i \in 1..(Len(cycle) - 1) : cycle[i + 1] \in Dependencies(cycle[i])
        /\ ToSet(cycle) \subseteq Needed

(* The loader accepts exactly the projects that are in order: it never      *)
(* rejects one whose needed files exist, parse, import without cycles and   *)
(* define the names asked of them, and accepts no other.                    *)
VerdictRight ==
    /\ status = "done" => Loadable
    /\ status \notin {"loading", "done"} => ~Loadable

(* Loading ends, on cyclic imports too.                                     *)
Terminates == <>(status # "loading")
===============================================================================
