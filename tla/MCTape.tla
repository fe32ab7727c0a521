-------------------------------- MODULE MCTape --------------------------------
(* Instances of Tape for TLC.                                                *)
EXTENDS Tape

(* The allocator returns the lowest free address, so that an address is      *)
(* reused as early as it can be.                                             *)
LowestFree(free) == IF free = {} THEN {} ELSE {CHOOSE h \in free : \A g \in free : h <= g}
===============================================================================
