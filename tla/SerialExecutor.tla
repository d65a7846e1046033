--------------------------- MODULE SerialExecutor ---------------------------
(***************************************************************************)
(* What the scheduler promises of the sync cycles it spawns, whatever the  *)
(* lock and the ticker do: a cycle is submitted once, starts after it was  *)
(* submitted, runs alone, and ends at most once.  Scheduler.tla implements *)
(* this specification.                                                     *)
(***************************************************************************)
CONSTANT Cycles

VARIABLE phase      \* [Cycles -> {"idle", "pending", "active", "ended"}]

Active == {c \in Cycles : phase[c] = "active"}

Init == phase = [c \in Cycles |-> "idle"]

Submit(c) ==
    /\ phase[c] = "idle"
    /\ phase' = [phase EXCEPT ![c] = "pending"]

Start(c) ==
    /\ phase[c] = "pending"
    /\ Active = {}
    /\ phase' = [phase EXCEPT ![c] = "active"]

End(c) ==
    /\ phase[c] = "active"
    /\ phase' = [phase EXCEPT ![c] = "ended"]

\* The running cycle ends and a pending one takes its place in one step.
Handover(c, d) ==
    /\ phase[c] = "active"
    /\ phase[d] = "pending"
    /\ phase' = [phase EXCEPT ![c] = "ended", ![d] = "active"]

\* The process exits: whatever was submitted and did not end is gone.
Abandon ==
    phase' = [c \in Cycles |-> IF phase[c] = "idle" THEN "idle" ELSE "ended"]

Next ==
    \/ \E c \in Cycles : Submit(c) \/ Start(c) \/ End(c)
    \/ \E c, d \in Cycles : Handover(c, d)
    \/ Abandon

Spec == Init /\ [][Next]_phase
=============================================================================
