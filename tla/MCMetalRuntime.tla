---------------------------- MODULE MCMetalRuntime ----------------------------
(* Instances of MetalRuntime for TLC.                                        *)
EXTENDS MetalRuntime, TLC

CONSTANTS h1, h2, h3, b1, b2, b3, b4

MCBudgets == {-7, 4}

(* A kernel's output tells its inputs, and their order, apart.              *)
MCCompute(vs) ==
    IF Len(vs) = 0 THEN 1
    ELSE IF Len(vs) = 1 THEN (2 * vs[1] + 1) % Cardinality(Value)
    ELSE (vs[1] + 2 * vs[2] + 2) % Cardinality(Value)

(* Control only: the contents are one letter.                               *)
FlatCompute(vs) == 0

MCSymmetry == Permutations(Handles) \cup Permutations(Buffers)
===============================================================================
