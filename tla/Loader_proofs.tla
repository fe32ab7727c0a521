----------------------------- MODULE Loader_proofs -----------------------------
(* Proofs about Loader, for every project and every set of paths.            *)
EXTENDS Loader, Induction, SequenceTheorems, FiniteSetTheorems, TLAPS

-------------------------------------------------------------------------------
(* The inductive invariant.                                                  *)

Statuses == {"loading", "done", "file not found", "io error", "parse error",
             "circular import", "unresolved name"}

(* The types, but for the aliases and the flat program, which nothing reads. *)
TypeOK ==
    /\ project \in [Files -> Source]
    /\ loaded \in Seq([file : Files, id : Nat])
    /\ inProgress \in Seq(Files)
    /\ frames \in Seq([file : Files, id : Nat, at : Nat \ {0}])
    /\ returned \in Nat \cup {NoId}
    /\ nextFileId \in Nat
    /\ sources \in [DOMAIN sources -> Files]
    /\ status \in Statuses

(* Every file that is loaded or being loaded was read under the id it has,   *)
(* and no other file was, nor any under an id to come.                       *)
Registered ==
    /\ \A id \in DOMAIN sources : id \in Nat /\ id < nextFileId
    /\ \A i \in DOMAIN loaded : /\ loaded[i].id \in DOMAIN sources
                                /\ sources[loaded[i].id] = loaded[i].file
    /\ status = "loading" =>
          /\ \A i \in DOMAIN frames : /\ frames[i].id \in DOMAIN sources
                                      /\ sources[frames[i].id] = frames[i].file
          /\ \A id \in DOMAIN sources :
                \/ \E i \in DOMAIN loaded : loaded[i].file = sources[id]
                \/ \E i \in DOMAIN frames : frames[i].file = sources[id]

(* No file is loaded twice, none is open twice, and none is both.            *)
Apart ==
    /\ \A i, j \in DOMAIN loaded : loaded[i].file = loaded[j].file => i = j
    /\ \A i, j \in DOMAIN inProgress : inProgress[i] = inProgress[j] => i = j
    /\ status = "loading" =>
          \A i \in DOMAIN loaded : \A j \in DOMAIN inProgress : loaded[i].file # inProgress[j]

(* While loading, in_progress is the files of the open calls.                *)
Stacked ==
    status = "loading" => /\ Len(inProgress) = Len(frames)
                          /\ \A i \in DOMAIN frames : inProgress[i] = frames[i].file

(* The innermost open call but one waits for the innermost, and so on out to *)
(* the call for the entry.                                                   *)
Chained ==
    status = "loading" =>
        /\ frames # << >> => frames[1].file = Canonical(Entry)
        /\ \A i \in 1..(Len(frames) - 1) :
              /\ frames[i].at \in DOMAIN Imports(frames[i].file)
              /\ Canonical(Imports(frames[i].file)[frames[i].at].path) = frames[i + 1].file

(* What a call has returned is the id of the file it was called with.        *)
Answered ==
    /\ returned # NoId => \E i \in DOMAIN loaded : loaded[i].id = returned
    /\ status = "loading" /\ returned # NoId =>
          \E i \in DOMAIN loaded :
              /\ loaded[i].id = returned
              /\ frames = << >> => loaded[i].file = Canonical(Entry)
              /\ frames # << >> => /\ Top.at \in DOMAIN Imports(Top.file)
                                   /\ loaded[i].file = Canonical(Current.path)

(* A file that is loaded or open is needed, was read and parses.             *)
Sound ==
    /\ \A i \in DOMAIN loaded : /\ loaded[i].file \in Needed
                                /\ project[loaded[i].file].readable
                                /\ project[loaded[i].file].parses
    /\ status = "loading" =>
          \A i \in DOMAIN frames : /\ frames[i].file \in Needed
                                   /\ project[frames[i].file].readable
                                   /\ project[frames[i].file].parses

(* The imports of f before the k-th lead to files that are in l before the   *)
(* m-th, and they define the names asked of them.                            *)
Handled(l, f, k, m) ==
    \A i \in DOMAIN Imports(f) : i < k =>
        /\ \E j \in DOMAIN l : j < m /\ l[j].file = Canonical(Imports(f)[i].path)
        /\ Imports(f)[i].kind = "from" =>
              Imports(f)[i].names \subseteq project[Canonical(Imports(f)[i].path)].exports

LoadedHandled ==
    \A i \in DOMAIN loaded :
        Handled(loaded, loaded[i].file, Len(Imports(loaded[i].file)) + 1, i)

ImportsHandled ==
    /\ LoadedHandled
    /\ status = "loading" =>
          \A i \in DOMAIN frames : Handled(loaded, frames[i].file, frames[i].at, Len(loaded) + 1)

(* What a step needs of the state before it; the rest of IInv is what the    *)
(* loader reports.                                                           *)
Core == /\ TypeOK /\ Registered /\ Apart /\ Stacked /\ Chained /\ Answered
        /\ Sound /\ ImportsHandled /\ ReadOnce

IInv == Core /\ Complete /\ CycleReal /\ VerdictRight

-------------------------------------------------------------------------------
(* The stack of open calls.                                                  *)

LEMMA LastOfSeq ==
    ASSUME NEW S, NEW s \in Seq(S), s # << >>
    PROVE  Len(s) \in Nat \ {0} /\ Len(s) \in DOMAIN s /\ s[Len(s)] \in S
OBVIOUS

LEMMA ElementOf ==
    ASSUME NEW S, NEW s \in Seq(S), NEW i \in DOMAIN s
    PROVE  s[i] \in S
OBVIOUS

LEMMA BelowLast ==
    ASSUME NEW n \in Nat, NEW i \in 1..n, i # n
    PROVE  i \in 1..(n - 1) /\ i + 1 \in 1..n
OBVIOUS

LEMMA BeforeLast ==
    ASSUME NEW n \in Nat, NEW i \in 1..(n - 1)
    PROVE  i \in 1..n /\ i # n /\ i + 1 \in 1..n
OBVIOUS

LEMMA ButLast ==
    ASSUME NEW S, NEW s \in Seq(S), NEW n \in Nat \ {0}, Len(s) = n
    PROVE  /\ SubSeq(s, 1, n - 1) \in Seq(S) /\ Len(SubSeq(s, 1, n - 1)) = n - 1
           /\ DOMAIN SubSeq(s, 1, n - 1) = 1..(n - 1)
           /\ \A i \in 1..(n - 1) : SubSeq(s, 1, n - 1)[i] = s[i]
OBVIOUS

LEMMA OneMore ==
    ASSUME NEW S, NEW s \in Seq(S), NEW e \in S
    PROVE  /\ Append(s, e) \in Seq(S) /\ Len(Append(s, e)) = Len(s) + 1
           /\ DOMAIN Append(s, e) = 1..(Len(s) + 1)
           /\ \A i \in 1..Len(s) : Append(s, e)[i] = s[i]
           /\ Append(s, e)[Len(s) + 1] = e
OBVIOUS

LEMMA TopTyped ==
    ASSUME TypeOK, frames # << >>
    PROVE  /\ Len(frames) \in Nat \ {0} /\ Len(frames) \in DOMAIN frames
           /\ Top.file \in Files /\ Top.id \in Nat /\ Top.at \in Nat \ {0}
<1>1. frames \in Seq([file : Files, id : Nat, at : Nat \ {0}])
  BY DEF TypeOK
<1>2. /\ Len(frames) \in Nat \ {0} /\ Len(frames) \in DOMAIN frames
      /\ frames[Len(frames)] \in [file : Files, id : Nat, at : Nat \ {0}]
  BY <1>1, LastOfSeq
<1>. QED  BY <1>2 DEF Top

LEMMA LoadedTyped ==
    ASSUME TypeOK, NEW i \in DOMAIN loaded
    PROVE  loaded[i].file \in Files /\ loaded[i].id \in Nat
<1>1. loaded \in Seq([file : Files, id : Nat])
  BY DEF TypeOK
<1>2. loaded[i] \in [file : Files, id : Nat]
  BY <1>1, ElementOf
<1>. QED  BY <1>2

-------------------------------------------------------------------------------
(* The files the entry needs.                                                *)

LEMMA ImportTyped ==
    ASSUME TypeOK, NEW f \in Files
    PROVE  /\ Imports(f) \in Seq(Import)
           /\ project[f].readable \in BOOLEAN /\ project[f].parses \in BOOLEAN
           /\ \A i \in DOMAIN Imports(f) :
                 /\ Imports(f)[i] \in Import
                 /\ Canonical(Imports(f)[i].path) \in Files \cup {NoFile}
                 /\ Canonical(Imports(f)[i].path) \in Dependencies(f)
<1>1. /\ Imports(f) \in Seq(Import)
      /\ project[f].readable \in BOOLEAN /\ project[f].parses \in BOOLEAN
  BY DEF TypeOK, Source, Imports
<1>2. ASSUME NEW i \in DOMAIN Imports(f) PROVE Imports(f)[i] \in Import
  BY <1>1
<1>3. ASSUME NEW i \in DOMAIN Imports(f)
      PROVE  Canonical(Imports(f)[i].path) \in Files \cup {NoFile}
  BY <1>2, ConstantsAssumption DEF Import
<1>. QED  BY <1>1, <1>2, <1>3 DEF Dependencies

LEMMA EntryNeeded == Canonical(Entry) \in Needed
BY ConstantsAssumption DEF Needed, ImportClosed

LEMMA DependencyNeeded ==
    ASSUME TypeOK, NEW f \in Needed, f \in Files, NEW d \in Dependencies(f)
    PROVE  d \in Needed
<1>1. d \in Files \cup {NoFile}
  BY ImportTyped DEF Dependencies
<1>. QED  BY <1>1 DEF Needed, ImportClosed

LEMMA NeededIsLeast ==
    ASSUME NEW S \in SUBSET (Files \cup {NoFile}), ImportClosed(S)
    PROVE  Needed \subseteq S
BY DEF Needed

LEMMA NeededUnchanged ==
    ASSUME project' = project
    PROVE  Needed' = Needed
BY DEF Needed, ImportClosed, Dependencies, Imports

LEMMA CalledNeeded ==
    ASSUME Core, NEW path \in Paths, Calls(path)
    PROVE  Canonical(path) \in Needed
<1>1. CASE frames = << >>
  BY <1>1, EntryNeeded DEF Calls
<1>2. CASE frames # << >>
  <2>1. /\ Top.file \in Files /\ Top.at \in Nat \ {0}
        /\ Len(frames) \in DOMAIN frames
    BY <1>2, TopTyped DEF Core
  <2>2. Top.file \in Needed
    BY <2>1 DEF Core, Sound, Top, Calls
  <2>3. Top.at \in DOMAIN Imports(Top.file)
    BY <1>2, <2>1, ImportTyped DEF Calls, Core
  <2>4. Canonical(path) \in Dependencies(Top.file)
    BY <1>2, <2>3 DEF Calls, Current, Dependencies
  <2>. QED  BY <2>1, <2>2, <2>4, DependencyNeeded DEF Core
<1>. QED  BY <1>1, <1>2

-------------------------------------------------------------------------------
(* Each step keeps the core.                                                 *)

LEMMA InitCore == Init => Core
<1>. SUFFICES ASSUME Init PROVE Core
  OBVIOUS
<1>1. TypeOK
  BY ConstantsAssumption DEF Init, TypeOK, Statuses, NoId
<1>2. Registered /\ Apart /\ Stacked /\ Chained /\ Answered
  BY DEF Init, Registered, Apart, Stacked, Chained, Answered
<1>3. Sound /\ ImportsHandled /\ ReadOnce
  BY DEF Init, Sound, ImportsHandled, LoadedHandled, ReadOnce
<1>. QED  BY <1>1, <1>2, <1>3 DEF Core

LEMMA LoadedHandledStays ==
    ASSUME LoadedHandled, UNCHANGED <<project, loaded>>
    PROVE  LoadedHandled'
BY DEF LoadedHandled, Handled, Imports

LEMMA StoppedSound ==
    ASSUME Sound, ImportsHandled, UNCHANGED <<project, loaded>>, status' # "loading"
    PROVE  Sound' /\ ImportsHandled'
<1>1. Sound'
  BY NeededUnchanged DEF Sound
<1>2. LoadedHandled'
  BY LoadedHandledStays DEF ImportsHandled
<1>. QED  BY <1>1, <1>2 DEF ImportsHandled

(* Where a call fails, only what loading promises is lost.                   *)
LEMMA FailKeepsCore ==
    ASSUME Core, status' \in Statuses \ {"loading"},
           UNCHANGED <<project, loaded, inProgress, frames, returned, nextFileId,
                       sources>>
    PROVE  Core'
<1>1. TypeOK' /\ Stacked' /\ Chained'
  BY DEF Core, TypeOK, Stacked, Chained
<1>2. Registered' /\ Apart' /\ Answered'
  BY DEF Core, Registered, Apart, Answered
<1>3. Sound' /\ ImportsHandled'
  BY StoppedSound DEF Core
<1>4. ReadOnce'
  BY DEF Core, ReadOnce
<1>. QED  BY <1>1, <1>2, <1>3, <1>4 DEF Core

LEMMA NotFoundCore ==
    ASSUME Core, NEW path \in Paths, NotFound(path) PROVE Core'
BY FailKeepsCore DEF NotFound, Fail, Statuses

LEMMA CircularCore ==
    ASSUME Core, NEW path \in Paths, Circular(path) PROVE Core'
BY FailKeepsCore DEF Circular, Fail, Statuses

(* IdOf is the id of the file's one entry.                                   *)
LEMMA IdOfLoaded ==
    ASSUME NEW f \in LoadedFiles
    PROVE  \E i \in DOMAIN loaded : loaded[i].file = f /\ loaded[i].id = IdOf(f)
<1>. DEFINE e == CHOOSE e \in ToSet(loaded) : e.file = f
<1>1. \E g \in ToSet(loaded) : g.file = f
  BY DEF LoadedFiles, ToSet
<1>2. e \in ToSet(loaded) /\ e.file = f
  BY <1>1
<1>. QED  BY <1>2 DEF IdOf, ToSet

LEMMA HandledUnchanged ==
    ASSUME ImportsHandled, UNCHANGED <<project, loaded, frames, status>>
    PROVE  ImportsHandled'
<1>1. project' = project /\ loaded' = loaded /\ frames' = frames /\ status' = status
  OBVIOUS
<1>2. LoadedHandled'
  <2>1. LoadedHandled
    BY DEF ImportsHandled
  <2>. QED  BY <1>1, <2>1 DEF LoadedHandled, Handled, Imports
<1>3. ASSUME status' = "loading", NEW i \in DOMAIN frames'
      PROVE  Handled(loaded, frames[i].file, frames[i].at, Len(loaded) + 1)'
  <2>1. Handled(loaded, frames[i].file, frames[i].at, Len(loaded) + 1)
    BY <1>1, <1>3 DEF ImportsHandled
  <2>. QED  BY <1>1, <2>1 DEF Handled, Imports
<1>. QED  BY <1>2, <1>3 DEF ImportsHandled

LEMMA CachedCore ==
    ASSUME Core, NEW path \in Paths, Cached(path) PROVE Core'
<1>. USE DEF Core, Cached
<1>1. PICK i \in DOMAIN loaded : /\ loaded[i].file = Canonical(path)
                                 /\ loaded[i].id = returned'
  BY IdOfLoaded
<1>2. TypeOK'
  BY <1>1, LoadedTyped DEF TypeOK
<1>3. Answered'
  <2>1. CASE frames = << >>
    BY <1>1, <2>1 DEF Answered, Calls
  <2>2. CASE frames # << >>
    <3>1. Top.file \in Files /\ Top.at \in Nat \ {0}
      BY <2>2, TopTyped
    <3>2. Top.at \in DOMAIN Imports(Top.file) /\ path = Current.path
      BY <2>2, <3>1, ImportTyped DEF Calls
    <3>. QED  BY <1>1, <2>2, <3>2 DEF Answered, Top, Current, Imports
  <2>. QED  BY <2>1, <2>2
<1>4. Registered' /\ Apart' /\ Stacked' /\ Chained'
  BY DEF Registered, Apart, Stacked, Chained, Imports
<1>5. Sound'
  BY NeededUnchanged DEF Sound
<1>6. ImportsHandled'
  BY HandledUnchanged
<1>7. ReadOnce'
  BY DEF ReadOnce
<1>. QED  BY <1>2, <1>3, <1>4, <1>5, <1>6, <1>7

(* What the files read so far are after one more, f, is or cannot be read.   *)
LEMMA OpenSources ==
    ASSUME Core, NEW path \in Paths, Open(path),
           NEW f, f = Canonical(path)
    PROVE  /\ f \in Files /\ f \in Needed /\ status = "loading"
           /\ nextFileId' = nextFileId + 1 /\ nextFileId \notin DOMAIN sources
           /\ sources' \in [DOMAIN sources' -> Files]
           /\ \A id \in DOMAIN sources :
                 id \in DOMAIN sources' /\ sources'[id] = sources[id]
           /\ \A id \in DOMAIN sources' :
                 id \in DOMAIN sources \/ (id = nextFileId /\ sources'[id] = f)
           /\ project[f].readable =>
                 nextFileId \in DOMAIN sources' /\ sources'[nextFileId] = f
           /\ \A id \in DOMAIN sources : sources[id] # f
<1>1. f \in Files /\ f \in Needed /\ status = "loading"
  BY CalledNeeded DEF Open, Unseen, Calls
<1>2. nextFileId' = nextFileId + 1 /\ nextFileId \notin DOMAIN sources
  <2>1. nextFileId \in Nat /\ \A id \in DOMAIN sources : id < nextFileId
    BY DEF Core, Registered, TypeOK
  <2>2. nextFileId' = nextFileId + 1
    BY DEF Open
  <2>. QED  BY <2>1, <2>2
<1>3. \A id \in DOMAIN sources : sources[id] # f
  <2>1. ASSUME NEW i \in DOMAIN loaded PROVE loaded[i].file # f
    BY DEF Open, Unseen, LoadedFiles
  <2>2. ASSUME NEW i \in DOMAIN frames PROVE frames[i].file # f
    <3>1. i \in DOMAIN inProgress /\ inProgress[i] = frames[i].file
      BY <1>1 DEF Core, Stacked, TypeOK
    <3>. QED  BY <3>1 DEF Open, Unseen, ToSet
  <2>. QED  BY <1>1, <2>1, <2>2 DEF Core, Registered
<1>4. sources \in [DOMAIN sources -> Files]
  BY DEF Core, TypeOK
<1>5. sources' = IF project[f].readable
                 THEN [id \in DOMAIN sources \cup {nextFileId} |->
                          IF id = nextFileId THEN f ELSE sources[id]]
                 ELSE sources
  BY DEF Open
<1>. QED  BY <1>1, <1>2, <1>3, <1>4, <1>5

LEMMA OpenCore ==
    ASSUME Core, NEW path \in Paths, Open(path) PROVE Core'
<1>. DEFINE f == Canonical(path)
            fr == [file |-> f, id |-> nextFileId, at |-> 1]
<1>0. UNCHANGED <<project, loaded, returned>> /\ inProgress' = Append(inProgress, f)
  BY DEF Open
<1>1. f \notin LoadedFiles /\ f \notin ToSet(inProgress) /\ Calls(path)
  BY DEF Open, Unseen
<1>2. inProgress \in Seq(Files) /\ nextFileId \in Nat
  BY DEF Core, TypeOK
<1>3. /\ inProgress' \in Seq(Files) /\ Len(inProgress') = Len(inProgress) + 1
      /\ \A i \in 1..Len(inProgress) : inProgress'[i] = inProgress[i]
      /\ inProgress'[Len(inProgress) + 1] = f
  BY <1>0, <1>2, OpenSources, AppendProperties
<1>4. \A i, j \in DOMAIN inProgress' : inProgress'[i] = inProgress'[j] => i = j
  <2>1. \A i, j \in DOMAIN inProgress : inProgress[i] = inProgress[j] => i = j
    BY DEF Core, Apart
  <2>2. \A i \in DOMAIN inProgress : inProgress[i] # f
    BY <1>1 DEF ToSet
  <2>. QED  BY <1>2, <1>3, <2>1, <2>2
<1>5. ReadOnce'
  <2>1. ReadOnce
    BY DEF Core
  <2>. QED  BY <2>1, OpenSources DEF ReadOnce
<1>6. \A i \in DOMAIN loaded' : /\ loaded'[i].id \in DOMAIN sources'
                                /\ sources'[loaded'[i].id] = loaded'[i].file
  BY <1>0, OpenSources DEF Core, Registered
<1>7. \A id \in DOMAIN sources' : id \in Nat /\ id < nextFileId'
  BY <1>2, OpenSources DEF Core, Registered
<1>8. Needed' = Needed
  BY <1>0, NeededUnchanged
<1>9. CASE UNCHANGED frames /\ status' \in {"io error", "parse error"}
  <2>1. TypeOK'
    <3>1. sources' \in [DOMAIN sources' -> Files] /\ nextFileId' \in Nat
      BY <1>2, OpenSources
    <3>2. status' \in Statuses
      BY <1>9 DEF Statuses
    <3>. QED  BY <1>0, <1>3, <1>9, <3>1, <3>2 DEF Core, TypeOK
  <2>2. Registered' /\ Apart' /\ Stacked' /\ Chained' /\ Answered'
    BY <1>0, <1>4, <1>6, <1>7, <1>9
    DEF Core, Registered, Apart, Stacked, Chained, Answered
  <2>3. Sound' /\ ImportsHandled'
    BY <1>0, <1>9, StoppedSound DEF Core
  <2>. QED  BY <1>5, <2>1, <2>2, <2>3 DEF Core
<1>10. CASE /\ project[f].readable /\ project[f].parses
            /\ frames' = Append(frames, fr) /\ UNCHANGED status
  <2>1. /\ fr \in [file : Files, id : Nat, at : Nat \ {0}]
        /\ fr.file = f /\ fr.id = nextFileId /\ fr.at = 1
    BY <1>2, OpenSources
  <2>. HIDE DEF fr
  <2>2. frames \in Seq([file : Files, id : Nat, at : Nat \ {0}])
    BY DEF Core, TypeOK
  <2>3. /\ frames' \in Seq([file : Files, id : Nat, at : Nat \ {0}])
        /\ Len(frames') = Len(frames) + 1
        /\ \A i \in 1..Len(frames) : frames'[i] = frames[i]
        /\ frames'[Len(frames) + 1] = fr
    BY <1>10, <2>1, <2>2, AppendProperties
  <2>4. status = "loading" /\ Len(inProgress) = Len(frames) /\ Len(frames) \in Nat
        /\ returned = NoId
    BY <1>1, <2>2 DEF Core, Stacked, Calls
  <2>. DOMAIN frames = 1..Len(frames) /\ DOMAIN frames' = 1..(Len(frames) + 1)
    BY <2>2, <2>3
  <2>. Registered /\ Apart /\ Stacked /\ Chained /\ Sound /\ ImportsHandled
    BY DEF Core
  <2>5. TypeOK'
    BY <1>0, <1>2, <1>3, <1>10, <2>3, OpenSources DEF Core, TypeOK
  <2>6. Registered'
    <3>1. ASSUME NEW i \in DOMAIN frames'
          PROVE  /\ frames'[i].id \in DOMAIN sources'
                 /\ sources'[frames'[i].id] = frames'[i].file
      <4>1. CASE i = Len(frames) + 1
        BY <1>10, <2>1, <2>3, <4>1, OpenSources
      <4>2. CASE i \in 1..Len(frames)
        BY <2>3, <2>4, <4>2, OpenSources DEF Registered
      <4>. QED  BY <2>3, <2>4, <4>1, <4>2
    <3>2. ASSUME NEW id \in DOMAIN sources'
          PROVE  \/ \E i \in DOMAIN loaded' : loaded'[i].file = sources'[id]
                 \/ \E i \in DOMAIN frames' : frames'[i].file = sources'[id]
      <4>1. CASE id \in DOMAIN sources
        <5>1. sources'[id] = sources[id]
          BY <4>1, OpenSources
        <5>2. \/ \E i \in DOMAIN loaded : loaded[i].file = sources[id]
              \/ \E i \in DOMAIN frames : frames[i].file = sources[id]
          BY <2>4, <4>1 DEF Registered
        <5>. QED  BY <1>0, <2>2, <2>3, <2>4, <5>1, <5>2
      <4>2. CASE id = nextFileId /\ sources'[id] = f
        <5>1. Len(frames) + 1 \in DOMAIN frames' /\ frames'[Len(frames) + 1].file = f
          BY <2>1, <2>3, <2>4
        <5>. QED  BY <4>2, <5>1
      <4>. QED  BY <4>1, <4>2, OpenSources
    <3>. QED  BY <1>6, <1>7, <3>1, <3>2 DEF Registered
  <2>7. Apart'
    <3>1. ASSUME NEW i \in DOMAIN loaded', NEW j \in DOMAIN inProgress'
          PROVE  loaded'[i].file # inProgress'[j]
      <4>1. CASE j = Len(inProgress) + 1
        BY <1>0, <1>1, <1>3, <4>1 DEF LoadedFiles
      <4>2. CASE j \in DOMAIN inProgress
        BY <1>0, <1>2, <1>3, <2>4, <4>2 DEF Apart
      <4>. QED  BY <1>2, <1>3, <4>1, <4>2
    <3>. QED  BY <1>0, <1>4, <3>1 DEF Apart
  <2>8. Stacked'
    <3>1. ASSUME NEW i \in 1..Len(frames) PROVE inProgress'[i] = frames'[i].file
      BY <1>3, <2>3, <2>4 DEF Stacked
    <3>2. inProgress'[Len(frames) + 1] = frames'[Len(frames) + 1].file
      BY <1>3, <2>1, <2>3, <2>4
    <3>3. \A i \in 1..(Len(frames) + 1) : i \in 1..Len(frames) \/ i = Len(frames) + 1
      BY <2>4
    <3>. QED  BY <1>3, <2>3, <2>4, <3>1, <3>2, <3>3 DEF Stacked
  <2>9. Chained'
    <3>1. frames'[1].file = Canonical(Entry)
      <4>1. CASE frames = << >>
        BY <1>1, <2>1, <2>3, <4>1 DEF Calls
      <4>2. CASE frames # << >>
        <5>1. 1 \in 1..Len(frames)
          BY <2>2, <4>2, LastOfSeq
        <5>. QED  BY <2>3, <2>4, <4>2, <5>1 DEF Chained
      <4>. QED  BY <4>1, <4>2
    <3>2. ASSUME NEW i \in 1..(Len(frames') - 1)
          PROVE  /\ frames'[i].at \in DOMAIN Imports(frames'[i].file)
                 /\ Canonical(Imports(frames'[i].file)[frames'[i].at].path)
                       = frames'[i + 1].file
      <4>0. i \in 1..Len(frames)
        BY <2>3, <2>4
      <4>1. frames'[i] = frames[i] /\ frames # << >>
        BY <2>2, <2>3, <2>4, <4>0
      <4>2. CASE i = Len(frames)
        <5>1. Top = frames[i] /\ frames'[i + 1].file = f
          BY <4>1, <4>2, <2>1, <2>3 DEF Top
        <5>2. Top.at \in DOMAIN Imports(Top.file) /\ path = Current.path
          BY <1>1, <4>1, TopTyped, ImportTyped DEF Calls, Core
        <5>. QED  BY <4>1, <5>1, <5>2 DEF Current
      <4>3. CASE i # Len(frames)
        <5>1. i \in 1..(Len(frames) - 1) /\ i + 1 \in 1..Len(frames)
          BY <2>4, <4>0, <4>3, BelowLast
        <5>2. frames'[i + 1] = frames[i + 1]
          BY <2>3, <5>1
        <5>. QED  BY <2>4, <4>1, <5>1, <5>2 DEF Chained
      <4>. QED  BY <4>2, <4>3
    <3>. QED  BY <1>0, <3>1, <3>2 DEF Chained, Imports
  <2>10. Answered'
    BY <1>0, <2>4 DEF Answered
  <2>11. Sound'
    <3>1. ASSUME NEW i \in DOMAIN frames'
          PROVE  /\ frames'[i].file \in Needed
                 /\ project[frames'[i].file].readable
                 /\ project[frames'[i].file].parses
      <4>1. CASE i = Len(frames) + 1
        BY <1>10, <2>1, <2>3, <4>1, OpenSources
      <4>2. CASE i \in 1..Len(frames)
        BY <2>2, <2>3, <2>4, <4>2 DEF Sound
      <4>. QED  BY <2>3, <2>4, <4>1, <4>2
    <3>. QED  BY <1>0, <1>8, <3>1 DEF Sound
  <2>12. ImportsHandled'
    <3>1. ASSUME NEW i \in DOMAIN frames'
          PROVE  Handled(loaded, frames'[i].file, frames'[i].at, Len(loaded) + 1)
      <4>1. CASE i = Len(frames) + 1
        <5>1. f \in Files /\ Imports(f) \in Seq(Import)
          BY OpenSources, ImportTyped DEF Core
        <5>2. \A k \in DOMAIN Imports(f) : ~(k < 1)
          BY <5>1
        <5>. QED  BY <2>1, <2>3, <4>1, <5>2 DEF Handled
      <4>2. CASE i \in 1..Len(frames)
        BY <2>2, <2>3, <2>4, <4>2 DEF ImportsHandled
      <4>. QED  BY <2>3, <2>4, <4>1, <4>2
    <3>2. LoadedHandled'
      BY <1>0, LoadedHandledStays DEF ImportsHandled
    <3>3. (\A i \in DOMAIN frames :
              Handled(loaded, frames[i].file, frames[i].at, Len(loaded) + 1))'
      BY <1>0, <3>1 DEF Handled, Imports
    <3>. QED  BY <3>2, <3>3 DEF ImportsHandled
  <2>. QED  BY <1>5, <2>5, <2>6, <2>7, <2>8, <2>9, <2>10, <2>11, <2>12 DEF Core
<1>. QED  BY <1>9, <1>10 DEF Open, Fail

(* The loop goes on: only the innermost call has moved, to its next import.  *)
LEMMA AdvanceFrames ==
    ASSUME TypeOK, frames # << >>, Advance
    PROVE  /\ frames' \in Seq([file : Files, id : Nat, at : Nat \ {0}])
           /\ Len(frames') = Len(frames) /\ DOMAIN frames' = DOMAIN frames
           /\ DOMAIN frames = 1..Len(frames) /\ Len(frames) \in Nat \ {0}
           /\ \A i \in DOMAIN frames : i # Len(frames) => frames'[i] = frames[i]
           /\ \A i \in DOMAIN frames : /\ frames'[i].file = frames[i].file
                                      /\ frames'[i].id = frames[i].id
           /\ frames'[Len(frames)].at = Top.at + 1
<1>. DEFINE R == [file : Files, id : Nat, at : Nat \ {0}]
            top == [file |-> Top.file, id |-> Top.id, at |-> Top.at + 1]
<1>1. /\ frames \in Seq(R) /\ Len(frames) \in DOMAIN frames /\ Len(frames) \in Nat \ {0}
      /\ Top \in R
  BY TopTyped, LastOfSeq DEF TypeOK, Top
<1>3. [Top EXCEPT !.at = @ + 1] = top
  BY <1>1
<1>4. top \in R /\ top.file = Top.file /\ top.id = Top.id /\ top.at = Top.at + 1
  BY <1>1
<1>. HIDE DEF top, R
<1>5. frames' = [i \in DOMAIN frames |-> IF i = Len(frames) THEN top ELSE frames[i]]
  <2>1. frames' = [i \in DOMAIN frames |-> IF i = Len(frames)
                                            THEN [frames[i] EXCEPT !.at = @ + 1]
                                            ELSE frames[i]]
    BY DEF Advance
  <2>. QED  BY <1>3, <2>1 DEF Top
<1>6. frames' \in Seq(R) /\ Len(frames') = Len(frames) /\ DOMAIN frames' = DOMAIN frames
  BY <1>1, <1>4, <1>5
<1>7. /\ frames'[Len(frames)] = top
      /\ \A i \in DOMAIN frames : i # Len(frames) => frames'[i] = frames[i]
  BY <1>1, <1>5
<1>8. DOMAIN frames = 1..Len(frames)
  BY <1>1
<1>9. \A i \in DOMAIN frames : /\ frames'[i].file = frames[i].file
                             /\ frames'[i].id = frames[i].id
  BY <1>4, <1>7 DEF Top
<1>. QED  BY <1>1, <1>4, <1>6, <1>7, <1>8, <1>9 DEF R

(* The names exported by the file that was called for.                       *)
LEMMA ExportedOfLoaded ==
    ASSUME Core, NEW i \in DOMAIN loaded
    PROVE  ExportedNames(loaded[i].id) = project[loaded[i].file].exports
<1>. DEFINE Same == {e \in ToSet(loaded) : e.id = loaded[i].id}
<1>1. loaded[i] \in Same
  BY DEF ToSet
<1>2. ASSUME NEW e \in Same PROVE e.file = loaded[i].file
  <2>1. PICK j \in DOMAIN loaded : e = loaded[j]
    BY DEF ToSet
  <2>. QED  BY <2>1 DEF Core, Registered
<1>3. {project[e.file].exports : e \in Same} = {project[loaded[i].file].exports}
  BY <1>1, <1>2
<1>. QED  BY <1>3 DEF ExportedNames

LEMMA AdvanceCore ==
    ASSUME Core, status = "loading", returned # NoId, frames # << >>, Advance,
           Current.kind = "from" => Current.names \subseteq ExportedNames(returned),
           UNCHANGED <<project, loaded, inProgress, nextFileId, sources, status>>
    PROVE  Core'
<1>. /\ TypeOK /\ Registered /\ Apart /\ Stacked /\ Chained /\ Answered /\ Sound
     /\ ImportsHandled /\ ReadOnce
  BY DEF Core
<1>. DEFINE n == Len(frames)
<1>a. n \in Nat \ {0} /\ DOMAIN frames = 1..n
  BY AdvanceFrames
<1>b. DOMAIN frames' = DOMAIN frames /\ Len(frames') = Len(frames)
  BY AdvanceFrames
<1>c. \A i \in DOMAIN frames : /\ frames'[i].file = frames[i].file
                             /\ frames'[i].id = frames[i].id
  BY AdvanceFrames
<1>d. \A i \in DOMAIN frames : i # n => frames'[i] = frames[i]
  BY AdvanceFrames
<1>e. frames'[n].at = Top.at + 1
  BY AdvanceFrames
<1>1. PICK l \in DOMAIN loaded : /\ loaded[l].id = returned
                                 /\ Top.at \in DOMAIN Imports(Top.file)
                                 /\ loaded[l].file = Canonical(Current.path)
  BY DEF Answered
<1>2. TypeOK' /\ returned' = NoId
  BY AdvanceFrames DEF TypeOK, Advance
<1>3. Registered' /\ Apart'
  <2>1. Registered'
    <3>1. ASSUME NEW i \in DOMAIN frames'
          PROVE  /\ frames'[i].id \in DOMAIN sources
                 /\ sources[frames'[i].id] = frames'[i].file
      BY <1>b, <1>c DEF Registered
    <3>2. ASSUME NEW id \in DOMAIN sources,
                 \E i \in DOMAIN frames : frames[i].file = sources[id]
          PROVE  \E i \in DOMAIN frames' : frames'[i].file = sources[id]
      BY <1>b, <1>c, <3>2
    <3>. QED  BY <3>1, <3>2 DEF Registered
  <2>2. Apart'
    BY DEF Apart
  <2>. QED  BY <2>1, <2>2
<1>4. Stacked'
  BY <1>b, <1>c DEF Stacked
<1>5. Chained'
  <2>1. frames'[1].file = Canonical(Entry)
    <3>1. 1 \in DOMAIN frames /\ frames # << >>
      BY <1>a
    <3>. QED  BY <1>c, <3>1 DEF Chained
  <2>2. ASSUME NEW i \in 1..(n - 1)
        PROVE  frames'[i] = frames[i] /\ frames'[i + 1].file = frames[i + 1].file
    <3>1. i \in DOMAIN frames /\ i # n /\ i + 1 \in DOMAIN frames
      BY <1>a, BeforeLast
    <3>. QED  BY <1>c, <1>d, <3>1
  <2>. QED  BY <1>b, <2>1, <2>2 DEF Chained, Imports
<1>6. Answered' /\ ReadOnce'
  BY <1>2 DEF Answered, ReadOnce
<1>7. Sound'
  <2>1. Needed' = Needed
    BY NeededUnchanged
  <2>. QED  BY <1>b, <1>c, <2>1 DEF Sound
<1>8. ImportsHandled'
  <2>1. LoadedHandled'
    BY LoadedHandledStays DEF ImportsHandled
  <2>2. ASSUME NEW i \in DOMAIN frames'
        PROVE  Handled(loaded, frames'[i].file, frames'[i].at, Len(loaded) + 1)
    <3>1. CASE i # n
      BY <1>b, <1>d, <3>1 DEF ImportsHandled
    <3>2. CASE i = n
      <4>1. Top.file \in Files /\ Top.at \in Nat \ {0} /\ Top = frames[i]
        BY <1>a, <1>b, <3>2, TopTyped DEF Top
      <4>2. Handled(loaded, Top.file, Top.at, Len(loaded) + 1)
        BY <1>a, <1>b, <3>2, <4>1 DEF ImportsHandled
      <4>3. loaded \in Seq([file : Files, id : Nat])
        BY DEF TypeOK
      <4>4. l < Len(loaded) + 1
        BY <4>3
      <4>5. Current = Imports(Top.file)[Top.at]
        BY DEF Current
      <4>6. Current.kind = "from" =>
                Current.names \subseteq project[Canonical(Current.path)].exports
        BY <1>1, ExportedOfLoaded
      <4>7. DOMAIN Imports(Top.file) \subseteq Nat
        BY <4>1, ImportTyped
      <4>8. Handled(loaded, Top.file, Top.at + 1, Len(loaded) + 1)
        <5>. SUFFICES ASSUME NEW k \in DOMAIN Imports(Top.file), k < Top.at + 1
                      PROVE  /\ \E j \in DOMAIN loaded :
                                   /\ j < Len(loaded) + 1
                                   /\ loaded[j].file = Canonical(Imports(Top.file)[k].path)
                             /\ Imports(Top.file)[k].kind = "from" =>
                                   Imports(Top.file)[k].names \subseteq
                                     project[Canonical(Imports(Top.file)[k].path)].exports
          BY DEF Handled
        <5>1. k < Top.at \/ k = Top.at
          BY <4>1, <4>7
        <5>2. CASE k = Top.at
          BY <1>1, <4>4, <4>5, <4>6, <5>2
        <5>3. CASE k < Top.at
          BY <4>2, <5>3 DEF Handled
        <5>. QED  BY <5>1, <5>2, <5>3
      <4>. QED  BY <1>c, <1>e, <3>2, <4>1, <4>8
    <3>. QED  BY <3>1, <3>2
  <2>3. (\A i \in DOMAIN frames :
            Handled(loaded, frames[i].file, frames[i].at, Len(loaded) + 1))'
    BY <2>2 DEF Handled, Imports
  <2>. QED  BY <2>1, <2>3 DEF ImportsHandled
<1>. QED  BY <1>2, <1>3, <1>4, <1>5, <1>6, <1>7, <1>8 DEF Core

LEMMA ResumeImportCore == ASSUME Core, ResumeImport PROVE Core'
BY AdvanceCore DEF ResumeImport

LEMMA ResumeFromImportCore == ASSUME Core, ResumeFromImport PROVE Core'
<1>1. CASE /\ Current.names \subseteq ExportedNames(returned)
           /\ Advance /\ UNCHANGED status
  BY <1>1, AdvanceCore DEF ResumeFromImport
<1>2. CASE Fail("unresolved name") /\ UNCHANGED <<frames, returned>>
  BY <1>2, FailKeepsCore DEF ResumeFromImport, Fail, Statuses
<1>. QED  BY <1>1, <1>2 DEF ResumeFromImport

LEMMA HandledMore ==
    ASSUME NEW l, NEW r, NEW f, NEW k, NEW m, NEW kk, NEW mm, Handled(l, f, k, m),
           \A j \in DOMAIN l : j \in DOMAIN r /\ r[j] = l[j],
           \A j \in DOMAIN l : j < m => j < mm,
           \A i \in DOMAIN Imports(f) : i < kk => i < k
    PROVE  Handled(r, f, kk, mm)
<1>. SUFFICES ASSUME NEW i \in DOMAIN Imports(f), i < kk
              PROVE  /\ \E j \in DOMAIN r :
                           j < mm /\ r[j].file = Canonical(Imports(f)[i].path)
                     /\ Imports(f)[i].kind = "from" =>
                           Imports(f)[i].names \subseteq
                             project[Canonical(Imports(f)[i].path)].exports
  BY DEF Handled
<1>1. PICK j \in DOMAIN l : j < m /\ l[j].file = Canonical(Imports(f)[i].path)
  BY DEF Handled
<1>. QED  BY <1>1 DEF Handled

LEMMA CloseFileCore == ASSUME Core, CloseFile PROVE Core'
<1>. DEFINE n == Len(frames)
            m == Len(loaded)
            e == [file |-> Top.file, id |-> Top.id]
<1>. /\ TypeOK /\ Registered /\ Apart /\ Stacked /\ Chained /\ Answered /\ Sound
     /\ ImportsHandled /\ ReadOnce
  BY DEF Core
<1>a. /\ UNCHANGED <<project, nextFileId, sources, status>> /\ status = "loading"
      /\ frames # << >> /\ returned' = Top.id
  BY DEF CloseFile
<1>b. /\ n \in Nat \ {0} /\ DOMAIN frames = 1..n /\ Len(inProgress) = n
      /\ Top = frames[n] /\ n \in DOMAIN frames
  <2>1. frames \in Seq([file : Files, id : Nat, at : Nat \ {0}])
    BY DEF TypeOK
  <2>. QED  BY <1>a, <2>1, TopTyped DEF Stacked, Top
<1>c. Top.file \in Files /\ Top.id \in Nat /\ Top.at \in Nat \ {0}
  BY <1>a, TopTyped
<1>d. m \in Nat /\ DOMAIN loaded = 1..m
  <2>1. loaded \in Seq([file : Files, id : Nat])
    BY DEF TypeOK
  <2>. QED  BY <2>1
<1>e. /\ frames' \in Seq([file : Files, id : Nat, at : Nat \ {0}])
      /\ Len(frames') = n - 1 /\ DOMAIN frames' = 1..(n - 1)
      /\ \A i \in 1..(n - 1) : frames'[i] = frames[i]
  <2>. DEFINE R == [file : Files, id : Nat, at : Nat \ {0}]
  <2>1. frames \in Seq(R)
    BY DEF TypeOK
  <2>2. frames' = SubSeq(frames, 1, n - 1) /\ Len(frames) = n /\ n \in Nat \ {0}
    BY <1>b DEF CloseFile
  <2>. HIDE DEF n, R
  <2>3. /\ SubSeq(frames, 1, n - 1) \in Seq(R) /\ Len(SubSeq(frames, 1, n - 1)) = n - 1
        /\ DOMAIN SubSeq(frames, 1, n - 1) = 1..(n - 1)
        /\ \A i \in 1..(n - 1) : SubSeq(frames, 1, n - 1)[i] = frames[i]
    BY <2>1, <2>2, ButLast
  <2>. QED  BY <2>2, <2>3 DEF R
<1>f. /\ inProgress' \in Seq(Files)
      /\ Len(inProgress') = n - 1 /\ DOMAIN inProgress' = 1..(n - 1)
      /\ \A i \in 1..(n - 1) : inProgress'[i] = inProgress[i]
  <2>1. inProgress \in Seq(Files)
    BY DEF TypeOK
  <2>. QED  BY <1>b, <2>1, ButLast DEF CloseFile
<1>g. /\ loaded' \in Seq([file : Files, id : Nat])
      /\ Len(loaded') = m + 1 /\ DOMAIN loaded' = 1..(m + 1)
      /\ \A i \in 1..m : loaded'[i] = loaded[i]
      /\ loaded'[m + 1].file = Top.file /\ loaded'[m + 1].id = Top.id
  <2>1. loaded \in Seq([file : Files, id : Nat])
    BY DEF TypeOK
  <2>2. e \in [file : Files, id : Nat] /\ e.file = Top.file /\ e.id = Top.id
    BY <1>c
  <2>3. loaded' = Append(loaded, e)
    BY DEF CloseFile
  <2>. HIDE DEF e
  <2>. QED  BY <2>1, <2>2, <2>3, OneMore
<1>h. \A i \in 1..(m + 1) : i \in 1..m \/ i = m + 1
  BY <1>d
<1>i. \A i \in 1..n : i \in 1..(n - 1) \/ i = n
  BY <1>b, BelowLast
<1>. HIDE DEF n, m, e
<1>1. TypeOK'
  BY <1>a, <1>c, <1>e, <1>f, <1>g DEF TypeOK
<1>2. Registered'
  <2>1. \A id \in DOMAIN sources' : id \in Nat /\ id < nextFileId'
    BY <1>a DEF Registered
  <2>2. ASSUME NEW i \in DOMAIN loaded'
        PROVE  /\ loaded'[i].id \in DOMAIN sources
               /\ sources[loaded'[i].id] = loaded'[i].file
    <3>1. CASE i = m + 1
      BY <1>a, <1>b, <1>g, <3>1 DEF Registered
    <3>2. CASE i \in 1..m
      BY <1>d, <1>g, <3>2 DEF Registered
    <3>. QED  BY <1>g, <1>h, <3>1, <3>2
  <2>3. ASSUME NEW i \in DOMAIN frames'
        PROVE  /\ frames'[i].id \in DOMAIN sources
               /\ sources[frames'[i].id] = frames'[i].file
    <3>1. i \in DOMAIN frames /\ frames'[i] = frames[i]
      BY <1>b, <1>e, BeforeLast
    <3>. QED  BY <1>a, <3>1 DEF Registered
  <2>4. ASSUME NEW id \in DOMAIN sources
        PROVE  \/ \E i \in DOMAIN loaded' : loaded'[i].file = sources[id]
               \/ \E i \in DOMAIN frames' : frames'[i].file = sources[id]
    <3>1. CASE \E i \in DOMAIN loaded : loaded[i].file = sources[id]
      <4>1. PICK i \in 1..m : loaded[i].file = sources[id]
        BY <1>d, <3>1
      <4>2. i \in DOMAIN loaded' /\ loaded'[i] = loaded[i]
        BY <1>d, <1>g, <4>1
      <4>. QED  BY <4>1, <4>2
    <3>2. CASE \E i \in DOMAIN frames : frames[i].file = sources[id]
      <4>1. PICK i \in 1..n : frames[i].file = sources[id]
        BY <1>b, <3>2
      <4>2. CASE i = n
        <5>1. m + 1 \in DOMAIN loaded'
          BY <1>d, <1>g
        <5>. QED  BY <1>b, <1>g, <4>1, <4>2, <5>1
      <4>3. CASE i \in 1..(n - 1)
        BY <1>e, <4>1, <4>3
      <4>. QED  BY <1>i, <4>1, <4>2, <4>3
    <3>. QED  BY <1>a, <3>1, <3>2 DEF Registered
  <2>. QED  BY <1>a, <2>1, <2>2, <2>3, <2>4 DEF Registered
<1>3. Apart'
  <2>1. ASSUME NEW i \in 1..m PROVE loaded[i].file # Top.file
    BY <1>a, <1>b, <1>d DEF Apart, Stacked, TypeOK
  <2>2. ASSUME NEW i \in DOMAIN loaded', NEW j \in DOMAIN loaded',
               loaded'[i].file = loaded'[j].file
        PROVE  i = j
    BY <1>d, <1>g, <1>h, <2>1, <2>2 DEF Apart
  <2>3. ASSUME NEW i \in DOMAIN inProgress', NEW j \in DOMAIN inProgress',
               inProgress'[i] = inProgress'[j]
        PROVE  i = j
    <3>1. i \in DOMAIN inProgress /\ j \in DOMAIN inProgress
      BY <1>b, <1>f, BeforeLast DEF TypeOK
    <3>. QED  BY <1>f, <2>3, <3>1 DEF Apart
  <2>4. ASSUME NEW i \in DOMAIN loaded', NEW j \in DOMAIN inProgress'
        PROVE  loaded'[i].file # inProgress'[j]
    <3>1. j \in DOMAIN inProgress /\ n \in DOMAIN inProgress /\ j # n
      BY <1>b, <1>f, BeforeLast DEF TypeOK
    <3>2. inProgress[n] = Top.file /\ inProgress[j] # inProgress[n]
      BY <1>a, <1>b, <3>1 DEF Stacked, Apart
    <3>3. CASE i \in 1..m
      BY <1>a, <1>d, <1>f, <1>g, <3>1, <3>3 DEF Apart
    <3>4. CASE i = m + 1
      BY <1>f, <1>g, <3>2, <3>4
    <3>. QED  BY <1>g, <1>h, <3>3, <3>4
  <2>. QED  BY <2>2, <2>3, <2>4 DEF Apart
<1>4. Stacked'
  <2>1. ASSUME NEW i \in 1..(n - 1) PROVE inProgress'[i] = frames'[i].file
    <3>1. i \in DOMAIN frames
      BY <1>b, BeforeLast
    <3>. QED  BY <1>a, <1>e, <1>f, <3>1 DEF Stacked
  <2>. QED  BY <1>e, <1>f, <2>1 DEF Stacked
<1>5. Chained'
  <2>1. ASSUME frames' # << >> PROVE frames'[1].file = Canonical(Entry)
    <3>1. 1 \in 1..(n - 1)
      BY <1>e, <2>1, LastOfSeq
    <3>. QED  BY <1>a, <1>e, <3>1 DEF Chained
  <2>2. ASSUME NEW i \in 1..(Len(frames') - 1)
        PROVE  /\ frames'[i].at \in DOMAIN Imports(frames'[i].file)
               /\ Canonical(Imports(frames'[i].file)[frames'[i].at].path)
                     = frames'[i + 1].file
    <3>1. i \in 1..(n - 1) /\ i + 1 \in 1..(n - 1)
      BY <1>b, <1>e
    <3>2. frames'[i] = frames[i] /\ frames'[i + 1] = frames[i + 1]
      BY <1>e, <3>1
    <3>. QED  BY <1>a, <3>1, <3>2 DEF Chained, n
  <2>. QED  BY <1>a, <2>1, <2>2 DEF Chained, Imports
<1>6. Answered'
  <2>1. m + 1 \in DOMAIN loaded' /\ loaded'[m + 1].id = returned'
    BY <1>a, <1>d, <1>g
  <2>2. ASSUME frames' = << >> PROVE loaded'[m + 1].file = Canonical(Entry)
    <3>1. n = 1
      BY <1>b, <1>e, <2>2
    <3>. QED  BY <1>a, <1>b, <1>g, <3>1 DEF Chained
  <2>3. ASSUME frames' # << >>
        PROVE  /\ Top'.at \in DOMAIN Imports(Top'.file)
               /\ loaded'[m + 1].file = Canonical(Imports(Top'.file)[Top'.at].path)
    <3>1. n - 1 \in 1..(n - 1) /\ n - 1 + 1 = n
      BY <1>b, <1>e, <2>3, LastOfSeq
    <3>2. Top' = frames[n - 1]
      BY <1>e, <3>1 DEF Top
    <3>. QED  BY <1>a, <1>b, <1>g, <3>1, <3>2 DEF Chained, n
  <2>. QED  BY <1>a, <2>1, <2>2, <2>3 DEF Answered, Current, Imports
<1>7. Sound'
  <2>0. Needed' = Needed
    BY <1>a, NeededUnchanged
  <2>1. ASSUME NEW i \in DOMAIN loaded'
        PROVE  /\ loaded'[i].file \in Needed
               /\ project[loaded'[i].file].readable
               /\ project[loaded'[i].file].parses
    <3>1. CASE i = m + 1
      BY <1>a, <1>b, <1>g, <3>1 DEF Sound
    <3>2. CASE i \in 1..m
      BY <1>d, <1>g, <3>2 DEF Sound
    <3>. QED  BY <1>g, <1>h, <3>1, <3>2
  <2>2. ASSUME NEW i \in DOMAIN frames'
        PROVE  /\ frames'[i].file \in Needed
               /\ project[frames'[i].file].readable
               /\ project[frames'[i].file].parses
    <3>1. i \in DOMAIN frames /\ frames'[i] = frames[i]
      BY <1>b, <1>e, BeforeLast
    <3>. QED  BY <1>a, <3>1 DEF Sound
  <2>. QED  BY <1>a, <2>0, <2>1, <2>2 DEF Sound
<1>8. ImportsHandled'
  <2>1. \A j \in DOMAIN loaded : j \in DOMAIN loaded' /\ loaded'[j] = loaded[j]
    BY <1>d, <1>g
  <2>2. ASSUME NEW i \in DOMAIN loaded'
        PROVE  Handled(loaded', loaded'[i].file, Len(Imports(loaded'[i].file)) + 1, i)
    <3>1. CASE i \in 1..m
      <4>1. Handled(loaded, loaded[i].file, Len(Imports(loaded[i].file)) + 1, i)
        BY <1>d, <3>1 DEF ImportsHandled, LoadedHandled
      <4>2. loaded'[i] = loaded[i]
        BY <1>g, <3>1
      <4>. QED  BY <2>1, <4>1, <4>2, HandledMore
    <3>2. CASE i = m + 1
      <4>1. Handled(loaded, Top.file, Top.at, m + 1)
        BY <1>a, <1>b DEF ImportsHandled, m
      <4>2. \A k \in DOMAIN Imports(Top.file) :
                k < Len(Imports(Top.file)) + 1 => k < Top.at
        <5>1. Top.at > Len(Imports(Top.file)) /\ Imports(Top.file) \in Seq(Import)
          BY <1>c, ImportTyped DEF CloseFile
        <5>. QED  BY <1>c, <5>1
      <4>3. Handled(loaded', Top.file, Len(Imports(Top.file)) + 1, m + 1)
        BY <2>1, <4>1, <4>2, HandledMore
      <4>. QED  BY <1>g, <3>2, <4>3
    <3>. QED  BY <1>g, <1>h, <3>1, <3>2
  <2>3. ASSUME NEW i \in DOMAIN frames'
        PROVE  Handled(loaded', frames'[i].file, frames'[i].at, Len(loaded') + 1)
    <3>1. i \in DOMAIN frames /\ frames'[i] = frames[i]
      BY <1>b, <1>e, BeforeLast
    <3>2. Handled(loaded, frames[i].file, frames[i].at, m + 1)
      BY <1>a, <3>1 DEF ImportsHandled, m
    <3>3. \A j \in DOMAIN loaded : j < m + 1 => j < Len(loaded') + 1
      BY <1>d, <1>g
    <3>. QED  BY <2>1, <3>1, <3>2, <3>3, HandledMore
  <2>4. LoadedHandled'
    BY <1>a, <2>2 DEF LoadedHandled, Handled, Imports
  <2>5. (\A i \in DOMAIN frames :
            Handled(loaded, frames[i].file, frames[i].at, Len(loaded) + 1))'
    BY <1>a, <2>3 DEF Handled, Imports
  <2>. QED  BY <2>4, <2>5 DEF ImportsHandled
<1>9. ReadOnce'
  BY <1>a DEF ReadOnce
<1>. QED  BY <1>1, <1>2, <1>3, <1>4, <1>5, <1>6, <1>7, <1>8, <1>9 DEF Core

LEMMA FlattenCore == ASSUME Core, Flatten PROVE Core'
<1>1. status' \in Statuses \ {"loading"}
  BY DEF Flatten, Statuses
<1>. QED  BY <1>1, FailKeepsCore DEF Flatten

-------------------------------------------------------------------------------
(* What the loader reports.                                                  *)

(* Loaded files are closed under imports, and in topological order.          *)
LEMMA LoadedClosed ==
    ASSUME TypeOK, LoadedHandled, NEW i \in DOMAIN loaded,
           NEW d \in Dependencies(loaded[i].file)
    PROVE  \E j \in DOMAIN loaded : j < i /\ loaded[j].file = d
<1>. DEFINE f == loaded[i].file
<1>1. f \in Files
  BY LoadedTyped
<1>2. PICK k \in DOMAIN Imports(f) : d = Canonical(Imports(f)[k].path)
  BY DEF Dependencies
<1>3. k < Len(Imports(f)) + 1
  BY <1>1, ImportTyped
<1>. QED  BY <1>2, <1>3 DEF LoadedHandled, Handled

LEMMA OrderImpliesDependenciesLoaded == Core => DependenciesLoaded
<1>. SUFFICES ASSUME Core PROVE DependenciesLoaded
  OBVIOUS
<1>0. TypeOK /\ LoadedHandled /\ Answered
  BY DEF Core, ImportsHandled
<1>1. ASSUME NEW i \in DOMAIN loaded, NEW d \in Dependencies(loaded[i].file)
      PROVE  \E j \in 1..(i - 1) : loaded[j].file = d
  <2>1. PICK j \in DOMAIN loaded : j < i /\ loaded[j].file = d
    BY <1>0, LoadedClosed
  <2>2. loaded \in Seq([file : Files, id : Nat])
    BY <1>0 DEF TypeOK
  <2>3. j \in 1..(i - 1)
    BY <2>1, <2>2
  <2>. QED  BY <2>1, <2>3
<1>2. returned # NoId => \E e \in ToSet(loaded) : e.id = returned
  BY <1>0 DEF Answered, ToSet
<1>. QED  BY <1>1, <1>2 DEF DependenciesLoaded

(* When the call for the entry has returned, the loaded files are the needed *)
(* ones.                                                                     *)
LEMMA LoadedIsNeeded ==
    ASSUME Core, status = "loading", returned # NoId, frames = << >>
    PROVE  LoadedFiles = Needed /\ Canonical(Entry) \in LoadedFiles
<1>0. TypeOK /\ LoadedHandled /\ Answered /\ Sound
  BY DEF Core, ImportsHandled
<1>1. LoadedFiles \subseteq Needed /\ LoadedFiles \subseteq Files
  BY <1>0, LoadedTyped DEF LoadedFiles, Sound
<1>2. Canonical(Entry) \in LoadedFiles
  BY <1>0 DEF Answered, LoadedFiles
<1>3. ASSUME NEW f \in LoadedFiles PROVE Dependencies(f) \subseteq LoadedFiles
  <2>1. PICK i \in DOMAIN loaded : f = loaded[i].file
    BY DEF LoadedFiles
  <2>2. ASSUME NEW d \in Dependencies(f) PROVE d \in LoadedFiles
    BY <1>0, <2>1, LoadedClosed DEF LoadedFiles
  <2>. QED  BY <2>2
<1>4. ImportClosed(LoadedFiles)
  BY <1>2, <1>3 DEF ImportClosed
<1>. QED  BY <1>1, <1>2, <1>4, NeededIsLeast

(* The files of a finite sequence are finitely many.                         *)
LEMMA LoadedFinite ==
    ASSUME TypeOK
    PROVE  IsFiniteSet(LoadedFiles)
<1>1. loaded \in Seq([file : Files, id : Nat])
  BY DEF TypeOK
<1>. DEFINE file == [i \in 1..Len(loaded) |-> loaded[i].file]
<1>2. Len(loaded) \in Nat /\ DOMAIN loaded = 1..Len(loaded)
  BY <1>1
<1>3. file \in Surjection(1..Len(loaded), LoadedFiles)
  BY <1>2 DEF LoadedFiles, Surjection
<1>4. IsFiniteSet(1..Len(loaded))
  BY <1>2, FS_Interval
<1>. HIDE DEF file
<1>. QED  BY <1>3, <1>4, FS_Surjection

(* An enumeration of a finite set without repetition has all its elements.   *)
LEMMA SetToSeqsOnto ==
    ASSUME NEW S, IsFiniteSet(S), NEW s \in SetToSeqs(S)
    PROVE  /\ s \in Seq(S) /\ Len(s) \in Nat /\ DOMAIN s = 1..Len(s)
           /\ \A i, j \in DOMAIN s : s[i] = s[j] => i = j
           /\ \A x \in S : \E i \in DOMAIN s : s[i] = x
<1>. DEFINE n == Cardinality(S)
<1>1. n \in Nat
  BY FS_CardinalityType
<1>2. s \in [1..n -> S] /\ \A i, j \in 1..n : i # j => s[i] # s[j]
  BY DEF SetToSeqs
<1>. HIDE DEF n
<1>3. s \in Injection(1..n, S)
  BY <1>2 DEF Injection, IsInjective
<1>4. Cardinality(1..n) = n
  BY <1>1, FS_Interval
<1>5. s \in Surjection(1..n, S)
  BY <1>3, <1>4, FS_Injection DEF n
<1>6. s \in Seq(S) /\ Len(s) = n /\ DOMAIN s = 1..n
  BY <1>1, <1>2
<1>. QED  BY <1>1, <1>2, <1>5, <1>6 DEF Surjection

LEMMA FlattenComplete == ASSUME Core, Flatten PROVE Complete'
<1>. DEFINE entry == Canonical(Entry)
            S == LoadedFiles \ {entry}
<1>1. LoadedFiles = Needed /\ entry \in LoadedFiles /\ IsFiniteSet(S)
  BY LoadedIsNeeded, LoadedFinite, FS_Subset DEF Flatten, Core
<1>2. PICK s \in SetToSeqs(S) : flat' = s \o <<entry>>
  BY DEF Flatten, Flattened
<1>. DEFINE n == Len(s)
<1>3. /\ s \in Seq(S) /\ n \in Nat /\ DOMAIN s = 1..n
      /\ \A i, j \in DOMAIN s : s[i] = s[j] => i = j
      /\ \A x \in S : \E i \in DOMAIN s : s[i] = x
  BY <1>1, SetToSeqsOnto
<1>4. /\ Len(flat') = n + 1 /\ DOMAIN flat' = 1..(n + 1)
      /\ \A i \in 1..n : flat'[i] = s[i]
      /\ flat'[n + 1] = entry
  BY <1>2, <1>3
<1>5. \A i \in 1..n : s[i] \in S
  BY <1>3
<1>. HIDE DEF S
<1>6. ToSet(flat') = Needed
  <2>1. ASSUME NEW x \in Needed PROVE x \in ToSet(flat')
    <3>1. CASE x = entry
      BY <1>3, <1>4, <3>1 DEF ToSet
    <3>2. CASE x # entry
      <4>1. PICK i \in 1..n : s[i] = x
        BY <1>1, <1>3, <3>2 DEF S
      <4>. QED  BY <1>3, <1>4, <4>1 DEF ToSet
    <3>. QED  BY <3>1, <3>2
  <2>2. ASSUME NEW i \in 1..(n + 1) PROVE flat'[i] \in Needed
    BY <1>1, <1>3, <1>4, <1>5 DEF S
  <2>. QED  BY <1>4, <2>1, <2>2 DEF ToSet
<1>7. ASSUME NEW i \in DOMAIN flat', NEW j \in DOMAIN flat', flat'[i] = flat'[j]
      PROVE  i = j
  BY <1>3, <1>4, <1>5, <1>7 DEF S
<1>8. Last(flat') = entry
  BY <1>4 DEF Last
<1>9. Needed' = Needed
  BY NeededUnchanged DEF Flatten
<1>. QED  BY <1>6, <1>7, <1>8, <1>9 DEF Complete

(* No file is in in_progress twice, so the first place of one is its place.  *)
LEMMA PositionOf ==
    ASSUME Core, NEW f \in ToSet(inProgress)
    PROVE  Position(f) \in DOMAIN inProgress /\ inProgress[Position(f)] = f
<1>1. PICK i \in DOMAIN inProgress : inProgress[i] = f
  BY DEF ToSet
<1>2. ASSUME NEW j \in 1..(i - 1) PROVE inProgress[j] # f
  <2>1. j \in DOMAIN inProgress /\ j # i
    BY DEF Core, TypeOK
  <2>. QED  BY <1>1, <2>1 DEF Core, Apart
<1>. QED  BY <1>1, <1>2 DEF Position

(* Each file in progress imports the next.                                   *)
LEMMA InProgressImports ==
    ASSUME Core, status = "loading", NEW i \in 1..(Len(frames) - 1)
    PROVE  inProgress[i + 1] \in Dependencies(inProgress[i])
<1>1. Len(frames) \in Nat /\ DOMAIN frames = 1..Len(frames)
  <2>1. frames \in Seq([file : Files, id : Nat, at : Nat \ {0}])
    BY DEF Core, TypeOK
  <2>. QED  BY <2>1
<1>2. i \in DOMAIN frames /\ i + 1 \in DOMAIN frames
  BY <1>1, BeforeLast
<1>3. inProgress[i] = frames[i].file /\ inProgress[i + 1] = frames[i + 1].file
  BY <1>2 DEF Core, Stacked
<1>. QED  BY <1>3 DEF Core, Chained, Dependencies

(* The call that found f open was for an import of the innermost open file.  *)
LEMMA CircularImport ==
    ASSUME Core, NEW path \in Paths, Circular(path)
    PROVE  LET f == Canonical(path)
               n == Len(frames)
               p == Position(f)
           IN  /\ n \in Nat /\ p \in 1..n /\ inProgress[p] = f
               /\ inProgress \in Seq(Files) /\ Len(inProgress) = n
               /\ f \in Files /\ f \in Needed
               /\ f \in Dependencies(inProgress[n])
               /\ \A i \in 1..n : inProgress[i] \in Needed
<1>. DEFINE f == Canonical(path)
            n == Len(frames)
            p == Position(f)
<1>1. status = "loading" /\ f \in ToSet(inProgress) /\ Calls(path)
  BY DEF Circular, Calls
<1>2. p \in DOMAIN inProgress /\ inProgress[p] = f
  BY <1>1, PositionOf
<1>3. inProgress \in Seq(Files) /\ Len(inProgress) = n
  BY <1>1 DEF Core, TypeOK, Stacked
<1>4. n \in Nat /\ p \in 1..n /\ f \in Files
  BY <1>2, <1>3
<1>5. frames # << >>
  BY <1>4
<1>6. /\ n \in DOMAIN frames /\ inProgress[n] = Top.file
      /\ Top.file \in Files /\ Top.at \in Nat \ {0}
  BY <1>1, <1>5, TopTyped DEF Core, Stacked, Top
<1>7. f \in Dependencies(inProgress[n])
  <2>1. Top.at \in DOMAIN Imports(Top.file) /\ path = Current.path
    BY <1>1, <1>5, <1>6, ImportTyped DEF Calls, Core
  <2>. QED  BY <1>6, <2>1 DEF Dependencies, Current
<1>8. ASSUME NEW i \in 1..n PROVE inProgress[i] \in Needed
  <2>1. frames \in Seq([file : Files, id : Nat, at : Nat \ {0}])
    BY DEF Core, TypeOK
  <2>2. i \in DOMAIN frames
    BY <2>1
  <2>. QED  BY <1>1, <2>2 DEF Core, Sound, Stacked
<1>. QED  BY <1>2, <1>3, <1>4, <1>7, <1>8

LEMMA CircularReal ==
    ASSUME Core, NEW path \in Paths, Circular(path)
    PROVE  CycleReal' /\ ~Acyclic
<1>. DEFINE f == Canonical(path)
            n == Len(frames)
            p == Position(f)
            c == SubSeq(inProgress, p, n)
<1>1. /\ n \in Nat /\ p \in 1..n /\ inProgress[p] = f
      /\ inProgress \in Seq(Files) /\ Len(inProgress) = n
      /\ f \in Files /\ f \in Needed
      /\ f \in Dependencies(inProgress[n])
      /\ \A i \in 1..n : inProgress[i] \in Needed
  BY CircularImport
<1>2. status = "loading" /\ project' = project /\ cycle' = c \o <<f>>
  BY <1>1 DEF Circular, Calls, CycleFrom
<1>. HIDE DEF f, n, p
<1>3. /\ c \in Seq(Files) /\ Len(c) = n - p + 1
      /\ \A i \in 1..(n - p + 1) : c[i] = inProgress[p + i - 1]
  BY <1>1
<1>4. /\ Len(cycle') = n - p + 2 /\ DOMAIN cycle' = 1..(n - p + 2)
      /\ \A i \in 1..(n - p + 1) : cycle'[i] = inProgress[p + i - 1]
      /\ cycle'[n - p + 2] = f
  BY <1>1, <1>2, <1>3
<1>5. n - p + 2 >= 2 /\ cycle'[1] = f
  BY <1>1, <1>4
<1>6. ASSUME NEW i \in 1..(n - p + 1)
      PROVE  cycle'[i + 1] \in Dependencies(cycle'[i])
  <2>1. CASE i = n - p + 1
    <3>1. i + 1 = n - p + 2 /\ p + i - 1 = n
      BY <1>1, <2>1
    <3>2. cycle'[i + 1] = f /\ cycle'[i] = inProgress[n]
      BY <1>4, <3>1
    <3>. QED  BY <1>1, <3>2
  <2>2. CASE i # n - p + 1
    <3>1. /\ p + i - 1 \in 1..(n - 1) /\ i + 1 \in 1..(n - p + 1)
          /\ p + (i + 1) - 1 = (p + i - 1) + 1
      BY <1>1, <2>2
    <3>2. cycle'[i] = inProgress[p + i - 1] /\ cycle'[i + 1] = inProgress[(p + i - 1) + 1]
      BY <1>4, <3>1
    <3>. QED  BY <1>2, <3>1, <3>2, InProgressImports DEF n
  <2>. QED  BY <2>1, <2>2
<1>7. ASSUME NEW i \in 1..(n - p + 2) PROVE cycle'[i] \in Needed
  <2>1. CASE i = n - p + 2
    BY <1>1, <1>4, <2>1
  <2>2. CASE i # n - p + 2
    <3>1. i \in 1..(n - p + 1) /\ p + i - 1 \in 1..n
      BY <1>1, <2>2
    <3>. QED  BY <1>1, <1>4, <3>1
  <2>. QED  BY <2>1, <2>2
<1>8. ToSet(cycle') \subseteq Needed
  BY <1>4, <1>7 DEF ToSet
<1>9. Len(cycle') - 1 = n - p + 1
  BY <1>1, <1>4
<1>10. CycleReal'
  <2>1. Needed' = Needed
    BY <1>2, NeededUnchanged
  <2>2. \A i \in 1..(Len(cycle') - 1) : cycle'[i + 1] \in Dependencies(cycle'[i])
    BY <1>6, <1>9
  <2>3. ToSet(cycle)' \subseteq Needed'
    BY <1>8, <2>1 DEF ToSet
  <2>4. Len(cycle') >= 2 /\ cycle'[1] = cycle'[Len(cycle')]
    BY <1>4, <1>5
  <2>. QED  BY <1>2, <2>2, <2>3, <2>4 DEF CycleReal, Dependencies, Imports
<1>11. ~Acyclic
  <2>. SUFFICES ASSUME NEW g \in ToSet(cycle')
                PROVE  g # NoFile /\ Dependencies(g) \cap ToSet(cycle') # {}
    <3>1. ToSet(cycle') # {}
      <4>1. 1 \in 1..(n - p + 2)
        BY <1>1
      <4>. QED  BY <1>4, <4>1 DEF ToSet
    <3>. QED  BY <1>8, <3>1 DEF Acyclic
  <2>1. PICK i \in 1..(n - p + 1) : g = cycle'[i]
    <3>1. PICK i \in 1..(n - p + 2) : g = cycle'[i]
      BY <1>4 DEF ToSet
    <3>2. CASE i = n - p + 2
      <4>1. 1 \in 1..(n - p + 1)
        BY <1>1
      <4>. QED  BY <1>4, <1>5, <3>1, <3>2, <4>1
    <3>3. CASE i # n - p + 2
      BY <1>1, <3>1, <3>3
    <3>. QED  BY <3>2, <3>3
  <2>2. g # NoFile
    <3>1. p + i - 1 \in 1..n
      BY <1>1
    <3>2. inProgress[p + i - 1] \in Files
      BY <1>1, <3>1
    <3>. QED  BY <1>4, <2>1, <3>2, ConstantsAssumption
  <2>3. i + 1 \in 1..(n - p + 2)
    BY <1>1
  <2>. QED  BY <1>4, <1>6, <2>1, <2>2, <2>3 DEF ToSet
<1>. QED  BY <1>10, <1>11

LEMMA LoadableUnchanged ==
    ASSUME project' = project
    PROVE  Loadable' <=> Loadable
<1>1. Needed' = Needed
  BY NeededUnchanged
<1>. QED  BY <1>1 DEF Loadable, Acyclic, NamesResolve, Dependencies, Imports

Reports == Complete /\ CycleReal /\ VerdictRight

LEMMA StillLoading == ASSUME status' = "loading" PROVE Reports'
BY DEF Reports, Complete, CycleReal, VerdictRight

LEMMA Rejected ==
    ASSUME project' = project, ~Loadable,
           status' \in {"file not found", "io error", "parse error", "unresolved name"}
    PROVE  Reports'
<1>1. ~(Loadable')
  BY LoadableUnchanged
<1>. QED  BY <1>1 DEF Reports, Complete, CycleReal, VerdictRight

LEMMA NotFoundReports ==
    ASSUME Core, NEW path \in Paths, NotFound(path) PROVE Reports'
<1>1. NoFile \in Needed
  BY CalledNeeded DEF NotFound
<1>2. ~Loadable
  BY <1>1 DEF Loadable
<1>. QED  BY <1>2, Rejected DEF NotFound, Fail

LEMMA CircularReports ==
    ASSUME Core, NEW path \in Paths, Circular(path) PROVE Reports'
<1>1. CycleReal' /\ ~Loadable
  BY CircularReal DEF Loadable
<1>2. project' = project /\ status' = "circular import"
  BY DEF Circular, Fail
<1>3. ~(Loadable')
  BY <1>1, <1>2, LoadableUnchanged
<1>. QED  BY <1>1, <1>2, <1>3 DEF Reports, Complete, VerdictRight

LEMMA OpenReports ==
    ASSUME Core, NEW path \in Paths, Open(path) PROVE Reports'
<1>. DEFINE f == Canonical(path)
<1>1. f \in Needed /\ status = "loading" /\ project' = project
  BY OpenSources DEF Open
<1>2. CASE ~project[f].readable /\ status' = "io error"
  <2>1. ~Loadable
    BY <1>1, <1>2 DEF Loadable
  <2>. QED  BY <1>1, <1>2, <2>1, Rejected
<1>3. CASE ~project[f].parses /\ status' = "parse error"
  <2>1. ~Loadable
    BY <1>1, <1>3 DEF Loadable
  <2>. QED  BY <1>1, <1>3, <2>1, Rejected
<1>4. CASE UNCHANGED status
  BY <1>1, <1>4, StillLoading
<1>. QED  BY <1>2, <1>3, <1>4 DEF Open, Fail

LEMMA ResumeFromImportReports == ASSUME Core, ResumeFromImport PROVE Reports'
<1>1. /\ status = "loading" /\ returned # NoId /\ frames # << >>
      /\ Current.kind = "from" /\ project' = project
  BY DEF ResumeFromImport
<1>2. CASE UNCHANGED status
  BY <1>1, <1>2, StillLoading
<1>3. CASE /\ ~ Current.names \subseteq ExportedNames(returned)
           /\ status' = "unresolved name"
  <2>1. PICK l \in DOMAIN loaded : /\ loaded[l].id = returned
                                   /\ Top.at \in DOMAIN Imports(Top.file)
                                   /\ loaded[l].file = Canonical(Current.path)
    BY <1>1 DEF Core, Answered
  <2>2. ExportedNames(returned) = project[Canonical(Current.path)].exports
    BY <2>1, ExportedOfLoaded
  <2>3. Top.file \in Needed
    BY <1>1, TopTyped DEF Core, Sound, Top
  <2>4. ~NamesResolve(Top.file)
    BY <1>1, <1>3, <2>1, <2>2 DEF NamesResolve, Current
  <2>5. ~Loadable
    BY <2>3, <2>4 DEF Loadable
  <2>. QED  BY <1>1, <1>3, <2>5, Rejected
<1>. QED  BY <1>2, <1>3 DEF ResumeFromImport, Fail

(* A set of loaded files has one that was loaded first, and that one imports *)
(* nothing of the set.                                                       *)
LEMMA LoadedAcyclic ==
    ASSUME TypeOK, LoadedHandled, NEW S \in SUBSET LoadedFiles, S # {}
    PROVE  \E f \in S : Dependencies(f) \cap S = {}
<1>. DEFINE At == {i \in DOMAIN loaded : loaded[i].file \in S}
<1>1. At \subseteq Nat /\ At # {}
  <2>1. loaded \in Seq([file : Files, id : Nat])
    BY DEF TypeOK
  <2>. QED  BY <2>1 DEF LoadedFiles
<1>2. PICK i \in At : \A j \in At : i <= j
  BY <1>1, LeastElement
<1>3. ASSUME NEW d \in Dependencies(loaded[i].file), d \in S PROVE FALSE
  <2>1. PICK j \in DOMAIN loaded : j < i /\ loaded[j].file = d
    BY <1>2, LoadedClosed
  <2>. QED  BY <1>1, <1>2, <1>3, <2>1
<1>. QED  BY <1>2, <1>3

LEMMA FlattenReports == ASSUME Core, Flatten PROVE Reports'
<1>1. /\ status' = "done" /\ project' = project
      /\ status = "loading" /\ returned # NoId /\ frames = << >>
  BY DEF Flatten
<1>2. TypeOK /\ LoadedHandled /\ Sound /\ LoadedFiles = Needed
  BY <1>1, LoadedIsNeeded DEF Core, ImportsHandled
<1>3. ASSUME NEW f \in Needed
      PROVE  /\ f \in Files /\ f # NoFile /\ project[f].readable /\ project[f].parses
             /\ NamesResolve(f)
  <2>1. PICK i \in DOMAIN loaded : f = loaded[i].file
    BY <1>2 DEF LoadedFiles
  <2>2. f \in Files /\ f # NoFile
    BY <1>2, <2>1, LoadedTyped, ConstantsAssumption
  <2>3. NamesResolve(f)
    <3>1. \A k \in DOMAIN Imports(f) : k < Len(Imports(f)) + 1
      BY <1>2, <2>2, ImportTyped
    <3>2. Handled(loaded, f, Len(Imports(f)) + 1, i)
      BY <1>2, <2>1 DEF LoadedHandled
    <3>. QED  BY <3>1, <3>2 DEF Handled, NamesResolve
  <2>. QED  BY <1>2, <2>1, <2>2, <2>3 DEF Sound
<1>4. Acyclic
  BY <1>2, LoadedAcyclic DEF Acyclic
<1>5. Loadable
  BY <1>3, <1>4 DEF Loadable
<1>. QED
  BY <1>1, <1>5, LoadableUnchanged, FlattenComplete DEF Reports, CycleReal, VerdictRight

-------------------------------------------------------------------------------
(* The theorems.                                                             *)

LEMMA InitInv == Init => IInv
BY InitCore DEF Init, IInv, Complete, CycleReal, VerdictRight

LEMMA StutterInv == IInv /\ UNCHANGED vars => IInv'
<1>. SUFFICES ASSUME IInv, UNCHANGED vars PROVE IInv'
  OBVIOUS
<1>1. TypeOK' /\ Stacked' /\ Chained'
  BY DEF IInv, Core, vars, TypeOK, Stacked, Chained, Imports
<1>2. Registered' /\ Apart' /\ Answered' /\ ReadOnce'
  BY DEF IInv, Core, vars, Registered, Apart, Answered, ReadOnce, Top, Current, Imports
<1>3. Needed' = Needed /\ UNCHANGED <<project, loaded, frames, status, cycle, flat>>
  BY NeededUnchanged DEF vars
<1>4. Sound'
  <2>1. Sound
    BY DEF IInv, Core
  <2>. QED  BY <1>3, <2>1 DEF Sound
<1>5. ImportsHandled'
  <2>1. ImportsHandled
    BY DEF IInv, Core
  <2>. QED  BY <1>3, <2>1, HandledUnchanged
<1>6. Complete'
  BY <1>3 DEF IInv, Complete
<1>7. CycleReal'
  BY <1>3 DEF IInv, CycleReal, Dependencies, Imports
<1>8. VerdictRight'
  <2>1. Loadable' <=> Loadable
    BY <1>3, LoadableUnchanged
  <2>. QED  BY <1>3, <2>1 DEF IInv, VerdictRight
<1>. QED  BY <1>1, <1>2, <1>4, <1>5, <1>6, <1>7, <1>8 DEF IInv, Core

LEMMA NextInv == IInv /\ Next => IInv'
<1>. SUFFICES ASSUME Core, Next PROVE Core' /\ Reports'
  BY DEF IInv, Reports
<1>1. ASSUME NEW path \in Paths, NotFound(path) PROVE Core' /\ Reports'
  BY <1>1, NotFoundCore, NotFoundReports
<1>2. ASSUME NEW path \in Paths, Cached(path) PROVE Core' /\ Reports'
  BY <1>2, CachedCore, StillLoading DEF Cached, Calls
<1>3. ASSUME NEW path \in Paths, Circular(path) PROVE Core' /\ Reports'
  BY <1>3, CircularCore, CircularReports
<1>4. ASSUME NEW path \in Paths, Open(path) PROVE Core' /\ Reports'
  BY <1>4, OpenCore, OpenReports
<1>5. CASE ResumeImport
  BY <1>5, ResumeImportCore, StillLoading DEF ResumeImport
<1>6. CASE ResumeFromImport
  BY <1>6, ResumeFromImportCore, ResumeFromImportReports
<1>7. CASE CloseFile
  BY <1>7, CloseFileCore, StillLoading DEF CloseFile
<1>8. CASE Flatten
  BY <1>8, FlattenCore, FlattenReports
<1>. QED  BY <1>1, <1>2, <1>3, <1>4, <1>5, <1>6, <1>7, <1>8 DEF Next

(* The inductive invariant holds, whatever is on the disk.                   *)
THEOREM Invariance == Spec => []IInv
<1>1. Init => IInv
  BY InitInv
<1>2. IInv /\ [Next]_vars => IInv'
  BY NextInv, StutterInv
<1>. QED  BY <1>1, <1>2, PTL DEF Spec

(* load_file reads a file at most once, whatever paths lead to it.           *)
THEOREM FilesReadOnce == Spec => []ReadOnce
<1>1. IInv => ReadOnce
  BY DEF IInv, Core
<1>. QED  BY <1>1, Invariance, PTL

(* load_file inserts a file in "loaded" after every file it imports, and     *)
(* returns only ids of loaded files.                                         *)
THEOREM LoadedInOrder == Spec => []DependenciesLoaded
<1>1. IInv => DependenciesLoaded
  BY OrderImpliesDependenciesLoaded DEF IInv
<1>. QED  BY <1>1, Invariance, PTL

(* load returns the files the entry needs, each once and the entry last.     *)
THEOREM ProgramComplete == Spec => []Complete
<1>1. IInv => Complete
  BY DEF IInv
<1>. QED  BY <1>1, Invariance, PTL

(* The cycle of a CircularImport is a cycle of imports that the entry needs. *)
THEOREM CyclesReal == Spec => []CycleReal
<1>1. IInv => CycleReal
  BY DEF IInv
<1>. QED  BY <1>1, Invariance, PTL

(* The loader accepts the projects that are in order and rejects the others: *)
(* its depth-first search decides what Loadable says of the import graph.    *)
THEOREM VerdictsRight == Spec => []VerdictRight
<1>1. IInv => VerdictRight
  BY DEF IInv
<1>. QED  BY <1>1, Invariance, PTL
===============================================================================
