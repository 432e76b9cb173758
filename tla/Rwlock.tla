------------------------------- MODULE Rwlock -------------------------------
(***************************************************************************)
(* The spinning read-write lock of the shared upstream peer lists          *)
(* (core/ngx_rwlock.c).  One word: 0 free, -1 a writer, n > 0 readers.     *)
(* Readers change it by compare-and-set on a value read earlier; unlock    *)
(* does not know whether it ends a read or a write and decides by the      *)
(* word.  A PAUSE loop is any number of failed attempts.  Names that Shmtx *)
(* has too begin with Rw: some proofs are about both locks.                *)
(***************************************************************************)
EXTENDS Integers, FiniteSets

CONSTANTS Users,    \* worker processes
          Nobody    \* not a process

ASSUME RwlockAssumption == IsFiniteSet(Users) /\ Nobody \notin Users

VARIABLES word,   \* the shared word
          place,  \* where each process is
          known   \* its local variable readers, 0 when not in use

rwvars == <<word, place, known>>

WLOCK == -1

RwPlaces == {"idle", "wspin", "rread", "rcas", "reading", "writing", "uread",
             "uwrite", "ucas"}

RwGoto(p, to) == place' = [place EXCEPT ![p] = to]
See(p, v)   == known' = [known EXCEPT ![p] = v]

RwInit == /\ word = 0
          /\ place = [p \in Users |-> "idle"]
          /\ known = [p \in Users |-> 0]

----------------------------------------------------------------------------
(* ngx_rwlock_wlock *)

AskWrite(p) == place[p] = "idle" /\ RwGoto(p, "wspin") /\ UNCHANGED <<word, known>>

\* Mutant: only another writer keeps a writer out.
StartWriteBesideReaders(p) == /\ place[p] = "wspin"
                              /\ word # WLOCK
                              /\ word' = WLOCK
                              /\ RwGoto(p, "writing")
                              /\ UNCHANGED known

StartWrite(p) == /\ place[p] = "wspin"
                 /\ word = 0
                 /\ word' = WLOCK
                 /\ RwGoto(p, "writing")
                 /\ UNCHANGED known

----------------------------------------------------------------------------
(* ngx_rwlock_rlock *)

AskRead(p) == place[p] = "idle" /\ RwGoto(p, "rread") /\ UNCHANGED <<word, known>>

ReadWord(p) == /\ place[p] = "rread"
               /\ word # WLOCK
               /\ See(p, word)
               /\ RwGoto(p, "rcas")
               /\ UNCHANGED word

StartRead(p) == /\ place[p] = "rcas"
                /\ See(p, 0)
                /\ IF word = known[p]
                   THEN word' = known[p] + 1 /\ RwGoto(p, "reading")
                   ELSE UNCHANGED word      /\ RwGoto(p, "rread")

----------------------------------------------------------------------------
(* ngx_rwlock_unlock *)

RwUnlock(p) == /\ place[p] \in {"reading", "writing"}
               /\ RwGoto(p, "uread")
               /\ UNCHANGED <<word, known>>

UnlockRead(p) == /\ place[p] = "uread"
                 /\ IF word = WLOCK
                    THEN UNCHANGED known /\ RwGoto(p, "uwrite")
                    ELSE See(p, word)   /\ RwGoto(p, "ucas")
                 /\ UNCHANGED word

EndWrite(p) == /\ place[p] = "uwrite"
               /\ word' = 0
               /\ RwGoto(p, "idle")
               /\ UNCHANGED known

\* Mutant: after a failed compare-and-set the word is not read again.
EndReadStale(p) == /\ place[p] = "ucas"
                   /\ IF word = known[p]
                      THEN word' = known[p] - 1 /\ RwGoto(p, "idle") /\ See(p, 0)
                      ELSE UNCHANGED <<word, place, known>>

EndRead(p) == /\ place[p] = "ucas"
              /\ IF word = known[p]
                 THEN word' = known[p] - 1 /\ RwGoto(p, "idle") /\ See(p, 0)
                 ELSE UNCHANGED <<word, place>> /\ See(p, word)

----------------------------------------------------------------------------
\* Attempts to get in; to get out.
Enter(p) == StartWrite(p) \/ ReadWord(p) \/ StartRead(p)
Leave(p) == RwUnlock(p) \/ UnlockRead(p) \/ EndWrite(p) \/ EndRead(p)

RwNext == \E p \in Users : AskWrite(p) \/ AskRead(p) \/ Enter(p) \/ Leave(p)

RwSpec == RwInit /\ [][RwNext]_rwvars

\* Processes that are in the lock operations, or hold the lock, keep running.
RwFairSpec == RwSpec /\ \A p \in Users : WF_rwvars(Enter(p)) /\ WF_rwvars(Leave(p))

----------------------------------------------------------------------------
RwTypeOK == /\ word \in Nat \cup {WLOCK}
            /\ place \in [Users -> RwPlaces]
            /\ known \in [Users -> Nat]

\* A process in unlock is still what it was: `uwrite' a writer, `ucas' a
\* reader, and `uread' whichever the word says.
Writers == {p \in Users : \/ place[p] \in {"writing", "uwrite"}
                          \/ place[p] = "uread" /\ word = WLOCK}
Readers == {p \in Users : \/ place[p] \in {"reading", "ucas"}
                          \/ place[p] = "uread" /\ word # WLOCK}

\* The word is exact: -1 while one process writes and nobody reads, else the
\* number of readers - so unlock may decide by the word what it ends
\* (ngx_rwlock.c 26, 60-61, 94-107).
WordExact == /\ word = WLOCK => Readers = {} /\ Cardinality(Writers) = 1
             /\ word # WLOCK => Writers = {} /\ Cardinality(Readers) = word

\* The lock is a read-write lock.
RW == INSTANCE ReadWrite
        WITH Procs <- Users, readers <- Readers,
             writer <- IF Writers = {} THEN Nobody ELSE CHOOSE p \in Users : p \in Writers

ImplementsReadWrite == RW!Spec

\* Somebody who asks leads to somebody inside: the compare-and-set loops
\* cannot all fail for ever (writers may starve, the lock does not stop).
LockProgress == (\E p \in Users : place[p] \in {"wspin", "rread", "rcas"})
                   ~> (\E p \in Users : place[p] \in {"reading", "writing"})
=============================================================================
