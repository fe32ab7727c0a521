------------------------------- MODULE MCLoader -------------------------------
(* Instances of Loader for TLC: a main file and two modules, one of which    *)
(* can be spelled in two ways, and whose paths end in the same segment.      *)
EXTENDS Loader

CONSTANTS main, a, b, none, x, y

MCCanonical(path) == CASE path = "main" -> main
                       [] path = "one.net" -> a
                       [] path \in {"two.net", "link.net"} -> b
                       [] path = "gone" -> none

MCAlias(path) == IF path \in {"one.net", "two.net", "link.net"} THEN "net" ELSE path

Imported == {[kind |-> "import", path |-> p, names |-> {}] : p \in Paths}
            \cup [kind : {"from"}, path : {"one.net", "two.net"}, names : {{x}}]

Contents(f, most) ==
    {[readable |-> r, parses |-> p, imports |-> << >>, exports |-> {}]
        : <<r, p>> \in {<<FALSE, FALSE>>, <<TRUE, FALSE>>}}
    \cup {[readable |-> TRUE, parses |-> TRUE, imports |-> s,
           exports |-> IF f = a THEN {x} ELSE {y}] : s \in SeqOf(Imported, most)}

MCProjects ==
    {[f \in Files |-> IF f = main THEN m ELSE IF f = a THEN n ELSE o] :
        m \in Contents(main, 2), n \in Contents(a, 2), o \in Contents(b, 1)}
===============================================================================
