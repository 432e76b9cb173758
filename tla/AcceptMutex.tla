---------------------------- MODULE AcceptMutex ----------------------------
(***************************************************************************)
(* The accept mutex: one iteration of ngx_process_events_and_timers        *)
(* (event/ngx_event.c) of every worker, with ngx_trylock_accept_mutex and  *)
(* ngx_event_accept (event/ngx_event_accept.c), the kernel's queue of      *)
(* connections that wait for accept(), and the master that gives the mutex *)
(* of a dead worker back.                                                  *)
(*                                                                         *)
(* Shared by the workers: the mutex (ngx_shmtx_t without a semaphore: one  *)
(* compare-and-set each way) and the backlog.  Local to a worker: the      *)
(* flags ngx_accept_mutex_held and ngx_accept_disabled, whether its        *)
(* listening socket is in its epoll (one socket without reuseport stands   *)
(* for all), and its free connections.  accept_mutex is on and there are   *)
(* several workers, so ngx_use_accept_mutex is set.                        *)
(***************************************************************************)
EXTENDS Integers, FiniteSets

CONSTANTS Workers,
          Free,         \* the mutex word 0
          ConnectionN,  \* cycle->connection_n
          FreeAtStart,  \* free connections a worker may have at the start
          MultiAccept,  \* ecf->multi_accept
          MaxArrivals,  \* bound: connections that arrive
          MaxFailures,  \* bound: accept() or epoll_ctl() failures
          MaxCrashes    \* bound: deaths of workers

ASSUME AcceptAssumption ==
    /\ Free \notin Workers
    /\ ConnectionN \in Nat
    /\ FreeAtStart \subseteq 0 .. ConnectionN
    /\ MultiAccept \in BOOLEAN
    /\ MaxArrivals \in Nat /\ MaxFailures \in Nat /\ MaxCrashes \in Nat

VARIABLES lock,      \* ngx_accept_mutex
          backlog,   \* connections waiting for accept()
          pc,        \* where each worker is in its iteration
          held,      \* ngx_accept_mutex_held
          disabled,  \* ngx_accept_disabled
          armed,     \* the listening socket's read->active: it is in the epoll
          free,      \* cycle->free_connection_n
          post,      \* flags & NGX_POST_EVENTS
          timed,     \* epoll_wait has a timeout
          closing,   \* connections whose last event this iteration reported
          nofile,    \* history: workers that found no file for a client (EMFILE,
                     \* ENFILE) and have not tried the mutex since
          arrivals, failures, crashes

worker  == <<pc, held, disabled, armed, free, post, timed, closing>>
bounds  == <<arrivals, failures, crashes>>
aux     == <<nofile, bounds>>
vars    == <<lock, backlog, worker, aux>>

Places == {"top", "locked", "poll", "accept", "release", "work", "dead"}

Set(f, w, v) == [f EXCEPT ![w] = v]
Goto(w, to)  == pc' = Set(pc, w, to)

Init == /\ lock = Free
        /\ backlog = 0
        /\ pc = [w \in Workers |-> "top"]
        /\ held = [w \in Workers |-> FALSE]
        /\ disabled = [w \in Workers |-> 0]
        /\ armed = [w \in Workers |-> FALSE]
        /\ free \in [Workers -> FreeAtStart]
        /\ post = [w \in Workers |-> FALSE]
        /\ timed = [w \in Workers |-> FALSE]
        /\ closing = [w \in Workers |-> 0]
        /\ nofile = {}
        /\ arrivals = 0 /\ failures = 0 /\ crashes = 0

----------------------------------------------------------------------------
(* A client connects.                                                      *)

Arrive == /\ arrivals < MaxArrivals
          /\ arrivals' = arrivals + 1
          /\ backlog' = backlog + 1
          /\ UNCHANGED <<lock, worker, nofile, failures, crashes>>

----------------------------------------------------------------------------
(* ngx_process_events_and_timers up to ngx_process_events.                 *)

\* Enter epoll_wait: a worker that holds the mutex posts its events, one that
\* tried and failed bounds the wait, one that did not try does neither.
Poll(w, posts, bounded) == /\ Goto(w, "poll")
                           /\ post' = Set(post, w, posts)
                           /\ timed' = Set(timed, w, bounded)

\* Few connections are left: count down and leave the mutex alone.
SkipLock(w) == /\ pc[w] = "top"
               /\ disabled[w] > 0
               /\ disabled' = Set(disabled, w, disabled[w] - 1)
               /\ Poll(w, FALSE, FALSE)
               /\ UNCHANGED <<lock, backlog, held, armed, free, closing, aux>>

TryLock(w) == /\ pc[w] = "top"
              /\ disabled[w] <= 0
              /\ lock = Free
              /\ lock' = w
              /\ Goto(w, "locked")
              /\ nofile' = nofile \ {w}
              /\ UNCHANGED <<backlog, held, disabled, armed, free, post, timed,
                             closing, bounds>>

\* The socket stays where it is if this worker was the last to hold the mutex.
Enable(w) == /\ pc[w] = "locked"
             /\ held' = Set(held, w, TRUE)
             /\ armed' = IF held[w] THEN armed ELSE Set(armed, w, TRUE)
             /\ Poll(w, TRUE, FALSE)
             /\ UNCHANGED <<lock, backlog, disabled, free, closing, aux>>

\* epoll_ctl(ADD) fails: unlock and give the iteration up.
EnableFails(w) == /\ pc[w] = "locked"
                  /\ ~held[w]
                  /\ failures < MaxFailures
                  /\ failures' = failures + 1
                  /\ lock' = IF lock = w THEN Free ELSE lock
                  /\ Goto(w, "top")
                  /\ UNCHANGED <<backlog, held, disabled, armed, free, post, timed,
                                 closing, nofile, arrivals, crashes>>

\* Mutant: a worker without the mutex waits for as long as its timers allow.
TryLockFailsUntimed(w) ==
    /\ pc[w] = "top"
    /\ disabled[w] <= 0
    /\ lock # Free
    /\ held' = Set(held, w, FALSE)
    /\ armed' = Set(armed, w, armed[w] /\ ~held[w])
    /\ Goto(w, "poll")
    /\ post' = Set(post, w, FALSE) /\ timed' = Set(timed, w, FALSE)
    /\ nofile' = nofile \ {w}
    /\ UNCHANGED <<lock, backlog, disabled, free, closing, bounds>>

TryLockFails(w) == /\ pc[w] = "top"
                   /\ disabled[w] <= 0
                   /\ lock # Free
                   /\ held' = Set(held, w, FALSE)
                   /\ armed' = Set(armed, w, armed[w] /\ ~held[w])
                   /\ Poll(w, FALSE, TRUE)
                   /\ nofile' = nofile \ {w}
                   /\ UNCHANGED <<lock, backlog, disabled, free, closing, bounds>>

\* epoll_ctl(DEL) fails: the iteration is given up, the flag stays.
DisableFails(w) == /\ pc[w] = "top"
                   /\ disabled[w] <= 0
                   /\ lock # Free
                   /\ held[w]
                   /\ failures < MaxFailures
                   /\ failures' = failures + 1
                   /\ UNCHANGED <<lock, backlog, worker, nofile, arrivals, crashes>>

----------------------------------------------------------------------------
(* ngx_process_events: what one epoll_wait reports.                        *)

\* The last event of k connections; they are closed at once, or after the
\* mutex is released if events are posted.
Report(w, k) == IF post[w]
                THEN closing' = Set(closing, w, k)        /\ UNCHANGED free
                ELSE free' = Set(free, w, free[w] + k)    /\ UNCHANGED closing

Closable(w) == {k \in {0, 1} : free[w] + k <= ConnectionN}

Pending(w) == armed[w] /\ backlog > 0

PollAccept(w) == /\ pc[w] = "poll"
                 /\ Pending(w)
                 /\ \E k \in Closable(w) : Report(w, k)
                 /\ Goto(w, "accept")
                 /\ UNCHANGED <<lock, backlog, held, disabled, armed, post, timed,
                                aux>>

\* An event of another connection, a signal or one of the worker's timers.
PollOther(w) == /\ pc[w] = "poll"
                /\ ~Pending(w)
                /\ \E k \in Closable(w) : Report(w, k)
                /\ Goto(w, "release")
                /\ UNCHANGED <<lock, backlog, held, disabled, armed, post, timed,
                               aux>>

\* ngx_accept_mutex_delay expires.
PollTimeout(w) == /\ pc[w] = "poll"
                  /\ timed[w]
                  /\ Goto(w, "release")
                  /\ UNCHANGED <<lock, backlog, held, disabled, armed, free, post,
                                 timed, closing, aux>>

----------------------------------------------------------------------------
(* ngx_event_accept                                                        *)

\* accept() says EAGAIN: somebody else was faster.
AcceptNothing(w) == /\ pc[w] = "accept"
                    /\ backlog = 0
                    /\ Goto(w, "release")
                    /\ UNCHANGED <<lock, backlog, held, disabled, armed, free,
                                   post, timed, closing, aux>>

Again == IF MultiAccept THEN "accept" ELSE "release"

\* accept() says ECONNABORTED: the client has gone.
AcceptAborted(w) == /\ pc[w] = "accept"
                    /\ backlog > 0
                    /\ failures < MaxFailures
                    /\ failures' = failures + 1
                    /\ backlog' = backlog - 1
                    /\ Goto(w, Again)
                    /\ UNCHANGED <<lock, held, disabled, armed, free, post, timed,
                                   closing, nofile, arrivals, crashes>>

\* Mutant: the socket is no longer listened to, but the flag stays.
AcceptNoFileKeepsHeld(w) ==
    /\ pc[w] = "accept"
    /\ backlog > 0
    /\ failures < MaxFailures
    /\ failures' = failures + 1
    /\ armed' = Set(armed, w, FALSE)
    /\ lock' = IF held[w] /\ lock = w THEN Free ELSE lock
    /\ disabled' = Set(disabled, w, 1)
    /\ Goto(w, "release")
    /\ nofile' = nofile \cup {w}
    /\ UNCHANGED <<backlog, free, held, post, timed, closing, arrivals, crashes>>

\* accept() says EMFILE or ENFILE: stop listening, and miss one turn.
AcceptNoFile(w) == /\ pc[w] = "accept"
                   /\ backlog > 0
                   /\ failures < MaxFailures
                   /\ failures' = failures + 1
                   /\ armed' = Set(armed, w, FALSE)
                   /\ held' = Set(held, w, FALSE)
                   /\ lock' = IF held[w] /\ lock = w THEN Free ELSE lock
                   /\ disabled' = Set(disabled, w, 1)
                   /\ Goto(w, "release")
                   /\ nofile' = nofile \cup {w}
                   /\ UNCHANGED <<backlog, free, post, timed, closing, arrivals,
                                  crashes>>

\* The same, and epoll_ctl(DEL) fails: the handler just returns.
AcceptNoFileStays(w) == /\ pc[w] = "accept"
                        /\ backlog > 0
                        /\ failures < MaxFailures
                        /\ failures' = failures + 1
                        /\ Goto(w, "release")
                        /\ UNCHANGED <<lock, backlog, held, disabled, armed, free,
                                       post, timed, closing, nofile, arrivals, crashes>>

\* The balance is computed before the connection is taken.  Without a free
\* connection ngx_get_connection drains idle ones, d of them if there are any;
\* if there are none the new socket is closed again.
Accept(w) == /\ pc[w] = "accept"
             /\ backlog > 0
             /\ backlog' = backlog - 1
             /\ disabled' = Set(disabled, w, ConnectionN \div 8 - free[w])
             /\ \E d \in IF free[w] = 0 THEN {0, 1} ELSE {0} :
                   IF free[w] + d > 0
                   THEN /\ free' = Set(free, w, free[w] + d - 1)
                        /\ Goto(w, Again)
                   ELSE /\ Goto(w, "release")
                        /\ UNCHANGED free
             /\ UNCHANGED <<lock, held, armed, post, timed, closing, aux>>

----------------------------------------------------------------------------
(* The rest of the iteration: unlock if the flag is set - which does not   *)
(* mean that this worker is the owner - then the other posted events.      *)

\* The locals of the iteration (flags, timer) are not read any more.
Forget(w) == /\ post' = Set(post, w, FALSE)
             /\ timed' = Set(timed, w, FALSE)

Release(w) == /\ pc[w] = "release"
              /\ lock' = IF held[w] /\ lock = w THEN Free ELSE lock
              /\ Goto(w, "work")
              /\ Forget(w)
              /\ UNCHANGED <<backlog, held, disabled, armed, free, closing, aux>>

Work(w) == /\ pc[w] = "work"
           /\ free' = Set(free, w, free[w] + closing[w])
           /\ closing' = Set(closing, w, 0)
           /\ Goto(w, "top")
           /\ UNCHANGED <<lock, backlog, held, disabled, armed, post, timed, aux>>

----------------------------------------------------------------------------
(* A worker dies anywhere; the master unlocks for it and starts another.   *)

Crash(w) == /\ pc[w] # "dead"
            /\ crashes < MaxCrashes
            /\ crashes' = crashes + 1
            /\ Goto(w, "dead")
            /\ armed' = Set(armed, w, FALSE)
            /\ held' = Set(held, w, FALSE)
            /\ disabled' = Set(disabled, w, 0)
            /\ free' = Set(free, w, ConnectionN)
            /\ closing' = Set(closing, w, 0)
            /\ Forget(w)
            /\ nofile' = nofile \ {w}
            /\ UNCHANGED <<lock, backlog, arrivals, failures>>

Reap(w) == /\ pc[w] = "dead"
           /\ lock' = IF lock = w THEN Free ELSE lock
           /\ Goto(w, "top")
           /\ UNCHANGED <<backlog, held, disabled, armed, free, post, timed,
                          closing, aux>>

----------------------------------------------------------------------------
\* What the worker does by itself, and what epoll_wait waits for.
Iteration(w) == \/ SkipLock(w) \/ TryLock(w) \/ Enable(w) \/ TryLockFails(w)
                \/ PollAccept(w) \/ PollTimeout(w)
                \/ AcceptNothing(w) \/ Accept(w) \/ Release(w) \/ Work(w)

Fault(w) == \/ EnableFails(w) \/ DisableFails(w) \/ Crash(w)
            \/ AcceptAborted(w) \/ AcceptNoFile(w) \/ AcceptNoFileStays(w)

Next == Arrive \/ \E w \in Workers : Iteration(w) \/ PollOther(w) \/ Fault(w) \/ Reap(w)

Spec == Init /\ [][Next]_vars

\* Every worker keeps iterating.  epoll_wait returns when the listening socket
\* is in the epoll and a client waits, or when the mutex delay expires; that
\* anything else ends it (PollOther) is not assumed.  The master reaps.
Fairness == \A w \in Workers : WF_vars(Iteration(w)) /\ WF_vars(Reap(w))

FairSpec == Spec /\ Fairness

----------------------------------------------------------------------------
(* Properties                                                              *)

\* Types; a worker never has more free connections than connections.
TypeOK == /\ lock \in Workers \cup {Free}
          /\ backlog \in 0 .. MaxArrivals
          /\ nofile \subseteq Workers
          /\ pc \in [Workers -> Places]
          /\ held \in [Workers -> BOOLEAN] /\ armed \in [Workers -> BOOLEAN]
          /\ post \in [Workers -> BOOLEAN] /\ timed \in [Workers -> BOOLEAN]
          /\ disabled \in [Workers -> Int]
          /\ free \in [Workers -> 0 .. ConnectionN]
          /\ closing \in [Workers -> {0, 1}]
          /\ \A w \in Workers : free[w] + closing[w] <= ConnectionN

\* The flag ngx_accept_mutex_held, which outlives the ownership of the mutex,
\* says exactly whether this worker's socket is in its epoll.
HeldMeansArmed == \A w \in Workers : held[w] <=> armed[w]

\* A worker that posts its events, and so accepts from the queue of posted
\* accept events, owns the mutex from epoll_wait to the end of the accepts.
PostingHoldsLock ==
    \A w \in Workers : post[w] /\ pc[w] \in {"poll", "accept"} => lock = w

\* The mutex leaves a worker only by that worker's own unlock, or by the
\* master's after its death, although workers that do not own it unlock too.
LockOnlyByOwner ==
    [][\A w \in Workers : lock = w /\ lock' # w => pc[w] = "dead" \/ pc'[w] # pc[w]]_vars

\* Clients are not left waiting: the queue empties again whoever holds the
\* mutex, dies with it, skips its turn or waits for it - unless every worker has
\* found no file for a client and waits, without a bound, since (325-337).
PendingServed == (backlog > 0) ~> (backlog = 0 \/ nofile = Workers)

=============================================================================
