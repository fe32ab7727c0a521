----------------------------- MODULE TensorStore -----------------------------
(***************************************************************************)
(* What the device runtime promises its callers: a store of immutable,     *)
(* reference-counted tensors in which every operation has already happened *)
(* when it returns.  There is no command buffer, no generation, no buffer  *)
(* and no pool here; MetalRuntime implements this module.                  *)
(***************************************************************************)
EXTENDS Integers, Sequences

CONSTANTS Handles,      \* tensor handles (addresses of boxed TensorBuffers)
          Lens,         \* element counts a caller asks for
          Value,        \* what a tensor's elements are, one letter per tensor
          Zero,         \* the contents of zeros(...), and of an empty tensor
          Data,         \* the contents host code creates tensors with
          Compute(_),   \* what a kernel makes of its inputs' contents
          MaxArity,     \* most inputs of one kernel
          NoReply       \* the caller was told nothing about contents

VARIABLES refs,         \* handle -> references held; 0: no such tensor
          len,          \* handle -> element count
          value,        \* handle -> contents
          reply,        \* what the last call told the host about contents
          failed        \* the process has died on a device error

vars == <<refs, len, value, reply, failed>>

Held == {h \in Handles : refs[h] > 0}

Init ==
    /\ refs = [h \in Handles |-> 0]
    /\ len = [h \in Handles |-> 0]
    /\ value = [h \in Handles |-> Zero]
    /\ reply = NoReply
    /\ failed = FALSE

(* A new tensor: n elements with contents among vs, owned once.             *)
Make(h, n, vs) ==
    /\ h \notin Held
    /\ refs' = [refs EXCEPT ![h] = 1]
    /\ len' = [len EXCEPT ![h] = n]
    /\ reply' = NoReply
    /\ \E v \in IF n = 0 THEN {Zero} ELSE vs : value' = [value EXCEPT ![h] = v]
    /\ UNCHANGED failed

Create(h) == \E n \in Lens : Make(h, n, Data \cup {Zero})

(* A kernel's output is a function of what its inputs hold at the call.     *)
Inputs == UNION {[1..k -> {value[h] : h \in Held}] : k \in 0..MaxArity}

Kernel(h) == \E n \in Lens : Make(h, n, {Compute(vs) : vs \in Inputs})

Alias(h) == \E x \in Held : Make(h, len[x], {value[x]})

Retain(h) ==
    /\ h \in Held
    /\ refs' = [refs EXCEPT ![h] = @ + 1]
    /\ reply' = NoReply
    /\ UNCHANGED <<len, value, failed>>

Release(h) ==
    /\ h \in Held
    /\ refs' = [refs EXCEPT ![h] = @ - 1]
    /\ len' = IF refs[h] = 1 THEN [len EXCEPT ![h] = 0] ELSE len
    /\ value' = IF refs[h] = 1 THEN [value EXCEPT ![h] = Zero] ELSE value
    /\ reply' = NoReply
    /\ UNCHANGED failed

(* A host read sees every operation issued before it.                       *)
Read(h) ==
    /\ h \in Held
    /\ reply' = value[h]
    /\ UNCHANGED <<refs, len, value, failed>>

(* Calls that change nothing a caller can see.                              *)
Housekeeping == reply' = NoReply /\ UNCHANGED <<refs, len, value, failed>>

(* A device error stops the process; it never turns into a value.           *)
Fail == failed' = TRUE /\ UNCHANGED <<refs, len, value, reply>>

Next ==
    /\ ~failed
    /\ \/ \E h \in Handles : \/ Create(h) \/ Kernel(h) \/ Alias(h)
                             \/ Retain(h) \/ Release(h) \/ Read(h)
       \/ Housekeeping
       \/ Fail

Spec == Init /\ [][Next]_vars
=============================================================================
