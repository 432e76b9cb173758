------------------------------- MODULE Stream -------------------------------
(* What a client may see of a response that is passed on to it piece by     *)
(* piece: at any time a beginning of what was read, and, once the response  *)
(* was declared whole, nothing missing that its framing promised.           *)
EXTENDS Naturals, Sequences, SequencesExt

VARIABLES source, need, taken, given, end

vars == <<source, need, taken, given, end>>

Init == source \in Seq(Nat) /\ need \in Nat /\ taken \in 0..Len(source) /\ given = <<>> /\ end = "open"

\* More of the response arrives.
Take == /\ end = "open"
        /\ taken' \in (taken + 1)..Len(source)
        /\ UNCHANGED <<source, need, given, end>>

\* The client gets the next part of what arrived.
Give == /\ given' # given
        /\ IsPrefix(given, given')
        /\ IsPrefix(given', SubSeq(source, 1, taken))
        /\ UNCHANGED <<source, need, taken, end>>

\* The response ends; it is whole only when all that was promised arrived.
Finish == /\ end = "open"
          /\ end' \in {"whole", "cut"}
          /\ end' = "whole" => taken >= need
          /\ UNCHANGED <<source, need, taken, given>>

Next == Take \/ Give \/ Finish

Spec == Init /\ [][Next]_vars
=============================================================================
