------------------------------- MODULE Stream -------------------------------
(***************************************************************************)
(* What a reader fed by a worker promises: bytes arrive in the order they  *)
(* were made, none is lost or invented, and the worker is never further    *)
(* ahead of the reader than the buffer is large.                           *)
(***************************************************************************)
EXTENDS Naturals

CONSTANT Capacity

VARIABLES sent, received,   \* how many bytes
          intact            \* every byte received was the next one

vars == <<sent, received, intact>>

Init ==
    /\ sent = 0
    /\ received = 0
    /\ intact = TRUE

Send(n) ==
    /\ sent + n <= received + Capacity
    /\ sent' = sent + n
    /\ UNCHANGED <<received, intact>>

Receive(n) ==
    /\ received + n <= sent
    /\ received' = received + n
    /\ UNCHANGED <<sent, intact>>

Next == \E n \in 1 .. Capacity : Send(n) \/ Receive(n)

Spec == Init /\ [][Next]_vars
=============================================================================
