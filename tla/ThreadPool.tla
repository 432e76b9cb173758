----------------------------- MODULE ThreadPool -----------------------------
(***************************************************************************)
(* A thread pool (core/ngx_thread_pool.c) and the event loop it serves.    *)
(* The loop posts tasks under the pool's mutex; threads wait on the        *)
(* condition variable, take a task, run it, append it to the list of done  *)
(* tasks under a spinlock and write the eventfd; the loop is woken by the  *)
(* edge, takes the whole list and runs the completion handlers, which may  *)
(* post again.  When the worker exits the loop posts one exit task per     *)
(* thread and spins until it has been taken.                               *)
(*                                                                         *)
(* A section under the pool's mutex, or under the spinlock of the done     *)
(* list, is one step; pthread_cond_wait is two (the mutex is released).    *)
(* pthread calls on initialised objects do not fail.                       *)
(***************************************************************************)
EXTENDS Integers, Sequences, FiniteSets

CONSTANTS Threads,    \* the threads of the pool (tp->threads of them)
          Tasks,      \* the tasks the event loop may post
          MaxQueue,   \* tp->max_queue
          MayExit,    \* whether the worker process may exit
          ExitTask,   \* the task on the stack of ngx_thread_pool_destroy
          NoTask      \* a thread that has no task

ASSUME PoolAssumption ==
    /\ MaxQueue \in Nat \ {0}
    /\ MayExit \in BOOLEAN
    /\ ExitTask \notin Tasks
    /\ NoTask \notin Tasks \cup {ExitTask}
    /\ IsFiniteSet(Threads) /\ Threads # {}

VARIABLES queue,     \* tp->queue
          waiting,   \* tp->waiting
          pc,        \* where each thread is in ngx_thread_pool_cycle
          job,       \* the local variable task of each thread
          done,      \* ngx_thread_pool_done
          edge,      \* an edge of the eventfd epoll has not yet reported
          loop,      \* where the event loop is
          todo,      \* the list ngx_thread_pool_handler has taken and walks
          active,    \* task->event.active
          lock,      \* the word ngx_thread_pool_destroy spins on
          exits      \* its counter n

vars == <<queue, waiting, pc, job, done, edge, loop, todo, active, lock, exits>>

ThreadPlaces == {"top", "asleep", "woken", "run", "append", "notify", "gone"}
LoopPlaces   == {"loop", "handler", "completing", "destroy", "spin",
                 "destroyed", "abandoned"}

\* The elements of a sequence.
Elems(s) == {s[i] : i \in DOMAIN s}

Move(th, to) == pc' = [pc EXCEPT ![th] = to]

Init == /\ queue = <<>>
        /\ waiting = 0
        /\ pc = [th \in Threads |-> "top"]
        /\ job = [th \in Threads |-> NoTask]
        /\ done = <<>>
        /\ edge = FALSE
        /\ loop = "loop"
        /\ todo = <<>>
        /\ active = [t \in Tasks |-> FALSE]
        /\ lock = 0
        /\ exits = 0

----------------------------------------------------------------------------
(* ngx_thread_task_post                                                    *)

\* pthread_cond_signal: some sleeping thread, if there is one, has to get up.
Signal == IF \E th \in Threads : pc[th] = "asleep"
          THEN \E th \in Threads : pc[th] = "asleep" /\ Move(th, "woken")
          ELSE UNCHANGED pc

\* Mutant: the pool is signalled only when somebody is seen to be waiting.
EnqueueSignalIfWaiting(t) ==
    /\ waiting < MaxQueue
    /\ queue' = Append(queue, t)
    /\ waiting' = waiting + 1
    /\ IF waiting > 0 THEN Signal ELSE UNCHANGED pc

\* What the mutex section does unless the queue overflows (then: nothing).
Enqueue(t) == /\ waiting < MaxQueue
              /\ queue' = Append(queue, t)
              /\ waiting' = waiting + 1
              /\ Signal

\* From an event handler, completion handlers included.  An active task is
\* refused, and a task that would overflow the queue changes nothing.
Post(t) == /\ loop \in {"loop", "completing"}
           /\ ~active[t]
           /\ Enqueue(t)
           /\ active' = [active EXCEPT ![t] = TRUE]
           /\ UNCHANGED <<job, done, edge, loop, todo, lock, exits>>

----------------------------------------------------------------------------
(* ngx_thread_pool_cycle                                                   *)

\* Leave the mutex with the first task of the queue.
Dequeue(th) == /\ queue # <<>>
               /\ job' = [job EXCEPT ![th] = Head(queue)]
               /\ queue' = Tail(queue)
               /\ Move(th, "run")

Sleep(th) == /\ queue = <<>>
             /\ Move(th, "asleep")
             /\ UNCHANGED <<queue, job>>

\* "the number may become negative": the thread announces itself first.
Take(th) == /\ pc[th] = "top"
            /\ waiting' = waiting - 1
            /\ Dequeue(th) \/ Sleep(th)
            /\ UNCHANGED <<done, edge, loop, todo, active, lock, exits>>

\* pthread_cond_wait returns and the while loop looks at the queue again.
Resume(th) == /\ pc[th] = "woken"
              /\ Dequeue(th) \/ Sleep(th)
              /\ UNCHANGED <<waiting, done, edge, loop, todo, active, lock, exits>>

\* POSIX lets pthread_cond_wait return without a signal.
SpuriousWakeup(th) ==
    /\ pc[th] = "asleep"
    /\ Move(th, "woken")
    /\ UNCHANGED <<queue, waiting, job, done, edge, loop, todo, active, lock, exits>>

\* task->handler returns, or is ngx_thread_pool_exit_handler and does not.
RunTask(th) == /\ pc[th] = "run"
               /\ job[th] # ExitTask
               /\ Move(th, "append")
               /\ UNCHANGED <<queue, waiting, job, done, edge, loop, todo, active,
                              lock, exits>>

\* Mutant: the exit handler ends the thread without releasing the loop.
RunExitSilent(th) == /\ pc[th] = "run"
                     /\ job[th] = ExitTask
                     /\ Move(th, "gone")
                     /\ job' = [job EXCEPT ![th] = NoTask]
                     /\ UNCHANGED <<queue, waiting, done, edge, loop, todo, active, lock, exits>>

RunExit(th) == /\ pc[th] = "run"
               /\ job[th] = ExitTask
               /\ Move(th, "gone")
               /\ job' = [job EXCEPT ![th] = NoTask]
               /\ lock' = 0
               /\ UNCHANGED <<queue, waiting, done, edge, loop, todo, active, exits>>

AppendDone(th) == /\ pc[th] = "append"
                  /\ done' = Append(done, job[th])
                  /\ job' = [job EXCEPT ![th] = NoTask]
                  /\ Move(th, "notify")
                  /\ UNCHANGED <<queue, waiting, edge, loop, todo, active, lock, exits>>

Notify(th) == /\ pc[th] = "notify"
              /\ edge' = TRUE
              /\ Move(th, "top")
              /\ UNCHANGED <<queue, waiting, job, done, loop, todo, active, lock, exits>>

----------------------------------------------------------------------------
(* The event loop: epoll reports the edge, ngx_epoll_notify_handler calls  *)
(* ngx_thread_pool_handler.                                                *)

PollNotify == /\ loop = "loop"
              /\ edge
              /\ edge' = FALSE
              /\ loop' = "handler"
              /\ UNCHANGED <<queue, waiting, pc, job, done, todo, active, lock, exits>>

\* Mutant: only the first of the done tasks is taken off the list.
TakeFirst == /\ loop = "handler"
             /\ todo' = SubSeq(done, 1, 1)
             /\ done' = IF done = <<>> THEN done ELSE Tail(done)
             /\ loop' = "completing"
             /\ UNCHANGED <<queue, waiting, pc, job, edge, active, lock, exits>>

\* Mutant: the list is walked but not emptied.
TakeAndKeep == /\ loop = "handler"
               /\ todo' = done
               /\ loop' = "completing"
               /\ UNCHANGED <<queue, waiting, pc, job, done, edge, active, lock, exits>>

TakeDone == /\ loop = "handler"
            /\ todo' = done
            /\ done' = <<>>
            /\ loop' = "completing"
            /\ UNCHANGED <<queue, waiting, pc, job, edge, active, lock, exits>>

\* The next element is read before the handler of this one may post it again.
CompleteTask ==
    /\ loop = "completing"
    /\ todo # <<>>
    /\ active' = [active EXCEPT ![Head(todo)] = FALSE]
    /\ todo' = Tail(todo)
    /\ UNCHANGED <<queue, waiting, pc, job, done, edge, loop, lock, exits>>

HandlerReturns == /\ loop = "completing"
                  /\ todo = <<>>
                  /\ loop' = "loop"
                  /\ UNCHANGED <<queue, waiting, pc, job, done, edge, todo, active,
                                 lock, exits>>

----------------------------------------------------------------------------
(* ngx_thread_pool_exit_worker and ngx_thread_pool_destroy.  The exit task *)
(* lives on the stack; "spin" is the loop on its lock word.                *)

ExitWorker == /\ MayExit
              /\ loop = "loop"
              /\ loop' = "destroy"
              /\ UNCHANGED <<queue, waiting, pc, job, done, edge, todo, active, lock, exits>>

PostExit == /\ loop = "destroy"
            /\ exits < Cardinality(Threads)
            /\ Enqueue(ExitTask)
            /\ lock' = 1
            /\ loop' = "spin"
            /\ UNCHANGED <<job, done, edge, todo, active, exits>>

\* The queue overflows: the pool is left as it is and the process exits.
PostExitFails == /\ loop = "destroy"
                 /\ exits < Cardinality(Threads)
                 /\ waiting >= MaxQueue
                 /\ lock' = 1
                 /\ loop' = "abandoned"
                 /\ UNCHANGED <<queue, waiting, pc, job, done, edge, todo, active, exits>>

\* Mutant: the next exit task is posted without waiting for this one to run.
ThreadStoppedAtOnce ==
    /\ loop = "spin"
    /\ loop' = "destroy"
    /\ exits' = exits + 1
    /\ UNCHANGED <<queue, waiting, pc, job, done, edge, todo, active, lock>>

ThreadStopped == /\ loop = "spin"
                 /\ lock = 0
                 /\ loop' = "destroy"
                 /\ exits' = exits + 1
                 /\ UNCHANGED <<queue, waiting, pc, job, done, edge, todo, active, lock>>

\* The condition variable and the mutex are destroyed.
DestroyPool == /\ loop = "destroy"
               /\ exits = Cardinality(Threads)
               /\ loop' = "destroyed"
               /\ UNCHANGED <<queue, waiting, pc, job, done, edge, todo, active, lock, exits>>

----------------------------------------------------------------------------
ThreadStep(th) == \/ Take(th) \/ Resume(th) \/ RunTask(th) \/ RunExit(th)
                  \/ AppendDone(th) \/ Notify(th)

LoopStep == \/ PollNotify \/ TakeDone \/ CompleteTask \/ HandlerReturns
            \/ PostExit \/ PostExitFails \/ ThreadStopped \/ DestroyPool

Next == \/ \E t \in Tasks : Post(t)
        \/ \E th \in Threads : ThreadStep(th) \/ SpuriousWakeup(th)
        \/ LoopStep \/ ExitWorker

Spec == Init /\ [][Next]_vars

\* Threads run, task handlers return, and the loop serves what is ready;
\* nothing makes the loop post or exit, and no spurious wake-up is owed.
Fairness == (\A th \in Threads : WF_vars(ThreadStep(th))) /\ WF_vars(LoopStep)

FairSpec == Spec /\ Fairness

----------------------------------------------------------------------------
Jobs == Tasks \cup {ExitTask}

TypeOK == /\ queue \in Seq(Jobs)
          /\ waiting \in Int
          /\ pc \in [Threads -> ThreadPlaces]
          /\ job \in [Threads -> Jobs \cup {NoTask}]
          /\ done \in Seq(Tasks)
          /\ edge \in BOOLEAN
          /\ loop \in LoopPlaces
          /\ todo \in Seq(Tasks)
          /\ active \in [Tasks -> BOOLEAN]
          /\ lock \in {0, 1}
          /\ exits \in Nat

\* The threads that have announced themselves and not yet got a task.
Idle == {th \in Threads : pc[th] \in {"asleep", "woken"}}

\* The counter that may be negative is exact: tasks queued less threads that
\* wait for one, so the limit of the queue is a limit on tasks nobody is about
\* to take (ngx_thread_pool.c 272, 296, 348).
WaitingExact == waiting = Len(queue) - Cardinality(Idle)

\* What the limit means: even with every thread waiting the queue is bounded.
QueueBounded == Len(queue) <= MaxQueue + Cardinality(Idle)

\* The thread that holds task t.
Runs(th, t) == job[th] = t

\* An active task is in exactly one place - queue, a thread, done list or the
\* list being walked - and an inactive one is in none: it is never run twice
\* and its completion handler never runs twice (262, 281, 293, 393, 423-438).
OneTaskOnePlace ==
    /\ \A t \in Tasks :
         active[t] <=> \/ t \in Elems(queue) \/ t \in Elems(done) \/ t \in Elems(todo)
                       \/ \E th \in Threads : Runs(th, t)
    /\ \A s \in {queue, done, todo} : \A i, j \in DOMAIN s : s[i] = s[j] => i = j
    /\ Elems(queue) \cap Elems(done) = {}
    /\ Elems(queue) \cap Elems(todo) = {}
    /\ Elems(done) \cap Elems(todo) = {}
    /\ \A th \in Threads : job[th] \notin Elems(queue) \cup Elems(done) \cup Elems(todo)
    /\ \A th, u \in Threads : job[th] = job[u] /\ job[th] # NoTask => th = u

\* No signal is lost: while a task is queued some thread is up and will look
\* at the queue, although pthread_cond_signal comes before the append (287-293).
SomebodyTakes == queue # <<>> => \E th \in Threads : pc[th] \notin {"asleep", "gone"}

\* No notification is lost: while a task is on the done list an edge is
\* pending, a thread is about to raise one, or the loop is about to take the
\* list (390-399, 413-428).
LoopIsTold ==
    done # <<>> => \/ edge
                   \/ loop = "handler"
                   \/ \E th \in Threads : pc[th] = "notify"

\* Nothing that was handed over is forgotten, on either side of the pool.
NothingForgotten == SomebodyTakes /\ LoopIsTold

\* The condition variable and the mutex are destroyed only when every thread
\* has gone and nothing is queued (203-223).
DestroyedAfterUse == loop = "destroyed" => /\ \A th \in Threads : pc[th] = "gone"
                                           /\ queue = <<>>

\* Seen from the event loop, the pool is the abstract executor of tasks.
Phase == [t \in Tasks |->
            IF ~active[t] THEN "idle"
            ELSE IF t \in Elems(done) \cup Elems(todo)
                    \/ \E th \in Threads : Runs(th, t) /\ pc[th] = "append"
                 THEN "ran" ELSE "posted"]

O == INSTANCE TaskOffload WITH phase <- Phase

\* Accepted tasks are run once and completed once, in that order.
OffloadsSafely == O!SafeSpec

\* And every accepted task is run and completed, unless the worker exits
\* (TaskOffload's fairness).
Completed == \A t \in Tasks :
    active[t] ~> (~active[t] \/ loop \in {"destroy", "spin", "destroyed", "abandoned"})

\* A worker that exits gets past its thread pools: it never spins for ever on
\* an exit task nobody takes (203-217).
ExitEnds == (loop = "destroy") ~> (loop \in {"destroyed", "abandoned"})
=============================================================================
