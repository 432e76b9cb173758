---------------------------- MODULE TaskOffload ----------------------------
(***************************************************************************)
(* What a thread pool promises to the event loop that uses it: a task that *)
(* was accepted is run once, outside the loop, and its completion handler  *)
(* runs once, in the loop, after it; only then may the task be posted      *)
(* again.                                                                  *)
(***************************************************************************)
CONSTANT Tasks

VARIABLE phase      \* "idle", "posted" or "ran", for every task

Post(t)     == phase[t] = "idle"   /\ phase' = [phase EXCEPT ![t] = "posted"]
Run(t)      == phase[t] = "posted" /\ phase' = [phase EXCEPT ![t] = "ran"]
Complete(t) == phase[t] = "ran"    /\ phase' = [phase EXCEPT ![t] = "idle"]

Init == phase = [t \in Tasks |-> "idle"]

Next == \E t \in Tasks : Post(t) \/ Run(t) \/ Complete(t)

SafeSpec == Init /\ [][Next]_phase

Spec == /\ SafeSpec
        /\ \A t \in Tasks : WF_phase(Run(t)) /\ WF_phase(Complete(t))
=============================================================================
