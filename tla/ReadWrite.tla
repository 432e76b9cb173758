----------------------------- MODULE ReadWrite -----------------------------
(***************************************************************************)
(* What a read-write lock promises: many readers or one writer.            *)
(***************************************************************************)
CONSTANTS Procs, Nobody

VARIABLES readers,   \* the processes that read
          writer     \* the process that writes, or Nobody

vars == <<readers, writer>>

Init == readers = {} /\ writer = Nobody

StartRead(p) == /\ writer = Nobody
                /\ p \notin readers
                /\ readers' = readers \cup {p}
                /\ UNCHANGED writer

EndRead(p) == /\ p \in readers
              /\ readers' = readers \ {p}
              /\ UNCHANGED writer

StartWrite(p) == /\ writer = Nobody
                 /\ readers = {}
                 /\ writer' = p
                 /\ UNCHANGED readers

EndWrite(p) == /\ writer = p
               /\ writer' = Nobody
               /\ UNCHANGED readers

Step(p) == StartRead(p) \/ EndRead(p) \/ StartWrite(p) \/ EndWrite(p)

Next == \E p \in Procs : Step(p)

Spec == Init /\ [][Next]_vars
=============================================================================
