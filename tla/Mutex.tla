------------------------------- MODULE Mutex -------------------------------
(***************************************************************************)
(* What a lock shared by processes promises, with nothing of how: at most  *)
(* one owner, an owner leaves only by giving the lock up, and the lock is  *)
(* not left free for ever while a process is asking for it.  Processes may *)
(* stop asking at any time (they die).  Shmtx and the file lock of the     *)
(* same source file implement this specification.                          *)
(***************************************************************************)
CONSTANTS Procs,    \* the processes that share the lock
          Free      \* the owner of a lock nobody holds

VARIABLES owner,    \* the process that holds the lock, or Free
          waiting   \* the processes inside the blocking lock operation

vars == <<owner, waiting>>

Init == owner = Free /\ waiting = {}

Request(p) == /\ p \notin waiting
              /\ waiting' = waiting \cup {p}
              /\ UNCHANGED owner

Acquire(p) == /\ p \in waiting
              /\ owner = Free
              /\ owner' = p
              /\ waiting' = waiting \ {p}

Try(p) == /\ p \notin waiting
          /\ owner = Free
          /\ owner' = p
          /\ UNCHANGED waiting

Release(p) == /\ owner = p
              /\ owner' = Free
              /\ UNCHANGED waiting

Abandon(p) == /\ p \in waiting
              /\ waiting' = waiting \ {p}
              /\ UNCHANGED owner

Step(p) == Request(p) \/ Acquire(p) \/ Try(p) \/ Release(p) \/ Abandon(p)

Next == \E p \in Procs : Step(p)

SafeSpec == Init /\ [][Next]_vars

\* A free lock that is being asked for is handed to somebody.
Spec == SafeSpec /\ WF_vars(\E p \in Procs : Acquire(p))
=============================================================================
