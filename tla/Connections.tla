---------------------------- MODULE Connections ----------------------------
(***************************************************************************)
(* The connection structures of a worker and the events that reach them:   *)
(* ngx_get_connection, ngx_free_connection, ngx_close_connection,          *)
(* ngx_reusable_connection and ngx_drain_connections                       *)
(* (core/ngx_connection.c), the registration of events and                 *)
(* ngx_epoll_process_events (event/modules/ngx_epoll_module.c), and the    *)
(* queues of posted events (event/ngx_event_posted.c).                     *)
(*                                                                         *)
(* Event handlers are the code of other modules: any sequence of calls of  *)
(* these functions.  The listening connection is not one of Conns; its     *)
(* handler opens connections, and so may others (to upstreams).  A         *)
(* structure is used again and again; `uses' numbers its uses, and its     *)
(* parity is the bit rev->instance that epoll carries with the pointer.    *)
(***************************************************************************)
EXTENDS Integers, FiniteSets, SequencesExt

CONSTANTS Conns,     \* the structures of cycle->connections
          Listener,  \* the connection of the listening socket
          DrainN,    \* 32 in the code
          MaxBatch,  \* nevents: how many events one epoll_wait reports
          MaxOpens   \* bound: connections opened

ASSUME ConnectionAssumption ==
    /\ IsFiniteSet(Conns) /\ Listener \notin Conns
    /\ DrainN \in Nat \ {0} /\ MaxBatch \in Nat \ {0} /\ MaxOpens \in Nat

VARIABLES pc,
          free,      \* cycle->free_connections, the head first
          open,      \* the structures with c->fd # -1
          uses,      \* how often each was taken from the free list
          reusable,  \* reusable_connections_queue, the head first
          active,    \* which of read->active and write->active are set
          interest,  \* the kernel's: the mask and the instance of each descriptor
          post,      \* flags & NGX_POST_EVENTS
          batch,     \* the rest of event_list
          acceptq,   \* the listener's event is in ngx_posted_accept_events
          posted,    \* ngx_posted_events
          running    \* the event whose handler runs

vars == <<pc, free, open, uses, reusable, active, interest, post, batch, acceptq, posted,
          running>>

poolVars  == <<free, open, uses, reusable>>
eventVars == <<active, interest>>
queueVars == <<post, batch, acceptq>>

Dirs == {"in", "out"}

\* rev->instance (wev->instance is the same), set at the start of the worker.
Instance(c) == (uses[c] + 1) % 2

\* No descriptor.
NoInterest == [mask |-> {}, inst |-> 0]

\* An event of use u of connection c, for its read or its write handler.
Event(c, dir, u) == [conn |-> c, dir |-> dir, use |-> u]
Idle == Event(Listener, "none", 0)

Init == /\ pc = "wait"
        /\ free \in SetToSeqs(Conns)
        /\ open = {}
        /\ uses = [c \in Conns |-> 0]
        /\ reusable = <<>>
        /\ active = [c \in Conns |-> {}]
        /\ interest = [c \in Conns |-> NoInterest]
        /\ post = FALSE /\ batch = <<>> /\ acceptq = FALSE /\ posted = <<>>
        /\ running = Idle

----------------------------------------------------------------------------
(* epoll_wait: some descriptors are ready, each for what it is registered  *)
(* for; an error is turned into both (1726-1736).  The kernel hands back   *)
(* the pointer and the instance it was given.                              *)

Ready(c) == IF interest[c].mask = {} THEN {}
            ELSE {[conn |-> c, mask |-> m, inst |-> interest[c].inst, use |-> uses[c]] :
                    m \in ((SUBSET interest[c].mask) \ {{}}) \cup {Dirs}}

Reports == (UNION {Ready(c) : c \in Conns})
             \cup {[conn |-> Listener, mask |-> {"in"}, inst |-> 0, use |-> 0]}

Batches == {<<>>} \cup
           UNION {SetToSeqs(S) : S \in {T \in SUBSET Reports :
                    /\ Cardinality(T) <= MaxBatch
                    /\ \A r, s \in T : r.conn = s.conn => r = s}}

Wait == /\ pc = "wait"
        /\ pc' = "batch"
        /\ post' \in BOOLEAN
        /\ batch' \in Batches
        /\ UNCHANGED <<poolVars, eventVars, acceptq, posted, running>>

----------------------------------------------------------------------------
(* ngx_epoll_process_events, one event_list[i] after another: the read     *)
(* side, then the write side, each posted or handled at once.              *)

\* Mutant: a closed descriptor is noticed, a reused structure is not.
StaleClosedOnly(e) == e.conn # Listener /\ e.conn \notin open

Stale(e) == e.conn # Listener /\ (e.conn \notin open \/ Instance(e.conn) # e.inst)

\* The side of e that comes first and that the structure has active.
Sides(e) == IF e.conn = Listener THEN e.mask ELSE e.mask \cap active[e.conn]
Side(e)  == IF "in" \in Sides(e) THEN "in" ELSE "out"

\* e without its side `in' (and without `in' if that was not active).
Rest(e, dir) == IF dir = "in" /\ "out" \in e.mask
                THEN <<[e EXCEPT !.mask = {"out"}]>> ELSE <<>>

IsPosted(c, dir) == \E i \in DOMAIN posted : posted[i].conn = c /\ posted[i].dir = dir

SkipEvent == /\ pc = "batch" /\ batch # <<>>
             /\ LET e == Head(batch) IN Stale(e) \/ Sides(e) = {}
             /\ batch' = Tail(batch)
             /\ UNCHANGED <<pc, poolVars, eventVars, post, acceptq, posted, running>>

PostEvent == /\ pc = "batch" /\ batch # <<>>
             /\ post
             /\ LET e == Head(batch)
                    dir == Side(e)
                IN /\ ~Stale(e) /\ Sides(e) # {}
                   /\ batch' = Rest(e, dir) \o Tail(batch)
                   /\ IF e.conn = Listener
                      THEN acceptq' = TRUE /\ UNCHANGED posted
                      ELSE /\ posted' = IF IsPosted(e.conn, dir) THEN posted
                                        ELSE Append(posted, Event(e.conn, dir, e.use))
                           /\ UNCHANGED acceptq
             /\ UNCHANGED <<pc, poolVars, eventVars, post, running>>

HandleEvent == /\ pc = "batch" /\ batch # <<>>
               /\ ~post
               /\ LET e == Head(batch)
                      dir == Side(e)
                  IN /\ ~Stale(e) /\ Sides(e) # {}
                     /\ batch' = Rest(e, dir) \o Tail(batch)
                     /\ running' = Event(e.conn, dir, e.use)
               /\ pc' = "handler"
               /\ UNCHANGED <<poolVars, eventVars, post, acceptq, posted>>

BatchDone == /\ pc = "batch" /\ batch = <<>>
             /\ pc' = "posted"
             /\ UNCHANGED <<poolVars, eventVars, queueVars, posted, running>>

----------------------------------------------------------------------------
(* ngx_event_process_posted: the accept event, then the others; an event   *)
(* leaves the queue before its handler runs.                               *)

RunAccept == /\ pc = "posted" /\ acceptq
             /\ acceptq' = FALSE
             /\ running' = Event(Listener, "in", 0)
             /\ pc' = "handler"
             /\ UNCHANGED <<poolVars, eventVars, post, batch, posted>>

RunPosted == /\ pc = "posted" /\ ~acceptq
             /\ posted # <<>>
             /\ posted' = Tail(posted)
             /\ running' = Head(posted)
             /\ pc' = "handler"
             /\ UNCHANGED <<poolVars, eventVars, queueVars>>

PostedDone == /\ pc = "posted" /\ ~acceptq /\ posted = <<>>
              /\ pc' = "wait"
              /\ UNCHANGED <<poolVars, eventVars, queueVars, posted, running>>

----------------------------------------------------------------------------
(* What handlers call.                                                     *)

\* The elements of s that are in S, in their order.
Within(s, S) ==
    LET I   == {i \in DOMAIN s : s[i] \in S}
        Nth == [k \in 1 .. Cardinality(I) |->
                   CHOOSE i \in I : Cardinality({j \in I : j <= i}) = k]
    IN [k \in 1 .. Cardinality(I) |-> s[Nth[k]]]

Without(s, c) == Within(s, ToSet(s) \ {c})

Back == IF batch # <<>> THEN "batch" ELSE "posted"

Returns == pc' = Back /\ running' = Idle

\* What ngx_close_connection does to each connection of C, besides giving it
\* back: registrations, posted events and the reusable queue forget it.
Forget(C) ==
    /\ reusable' = Within(reusable, Conns \ C)
    /\ posted' = Within(posted, {e \in ToSet(posted) : e.conn \notin C})
    /\ active' = [c \in Conns |-> IF c \in C THEN {} ELSE active[c]]
    /\ interest' = [c \in Conns |-> IF c \in C THEN NoInterest ELSE interest[c]]

\* Mutant: the posted events of the connection stay.
CloseStaysPosted(c) ==
    /\ pc = "handler"
    /\ c \in open
    /\ open' = open \ {c}
    /\ free' = <<c>> \o free
    /\ reusable' = Without(reusable, c)
    /\ active' = [active EXCEPT ![c] = {}]
    /\ interest' = [interest EXCEPT ![c] = NoInterest]
    /\ UNCHANGED <<pc, uses, queueVars, posted, running>>

\* A handler closes a connection, its own or another, and goes on: it may open
\* the same structure again, as ngx_http_upstream_next does.  One that is
\* closed already is left alone (1080-1083).
Close(c) == /\ pc = "handler"
            /\ c \in open
            /\ open' = open \ {c}
            /\ free' = <<c>> \o free
            /\ Forget({c})
            /\ UNCHANGED <<pc, uses, queueVars, running>>

\* The connections ngx_drain_connections closes, from the tail of the queue;
\* each goes to the head of the free list, so they end up there in this order.
Drained == IF free # <<>> THEN <<>>
           ELSE LET n == IF Len(reusable) < DrainN THEN Len(reusable) ELSE DrainN
                IN SubSeq(reusable, Len(reusable) - n + 1, Len(reusable))

\* ngx_get_connection: a handler gets the head of the free list, if need be
\* after draining.
Open == /\ pc = "handler"
        /\ LET left == Drained \o free
               c == Head(left)
           IN /\ left # <<>>
              /\ uses[c] < MaxOpens
              /\ uses' = [uses EXCEPT ![c] = @ + 1]
              /\ free' = Tail(left)
              /\ open' = (open \ ToSet(Drained)) \cup {c}
              /\ Forget(ToSet(Drained))
        /\ UNCHANGED <<pc, queueVars, running>>

\* ngx_reusable_connection(c, 1) and (c, 0).
MakeReusable(c) == /\ pc = "handler"
                   /\ c \in open
                   /\ reusable' = <<c>> \o Without(reusable, c)
                   /\ UNCHANGED <<pc, free, open, uses, eventVars, queueVars, posted, running>>

NotReusable(c) == /\ pc = "handler"
                  /\ c \in ToSet(reusable)
                  /\ reusable' = Without(reusable, c)
                  /\ UNCHANGED <<pc, free, open, uses, eventVars, queueVars, posted, running>>

\* Mutant: EPOLL_CTL_MOD without the other direction.
AddEventAlone(c, dir) ==
    /\ pc = "handler"
    /\ c \in open /\ dir \notin active[c]
    /\ interest' = [interest EXCEPT ![c] = [mask |-> {dir}, inst |-> Instance(c)]]
    /\ active' = [active EXCEPT ![c] = @ \cup {dir}]
    /\ UNCHANGED <<pc, poolVars, queueVars, posted, running>>

\* ngx_epoll_add_event: ADD, or MOD with both directions if the other is active.
AddEvent(c, dir) ==
    /\ pc = "handler"
    /\ c \in open /\ dir \notin active[c]
    /\ interest' = [interest EXCEPT ![c] = [mask |-> {dir} \cup active[c],
                                            inst |-> Instance(c)]]
    /\ active' = [active EXCEPT ![c] = @ \cup {dir}]
    /\ UNCHANGED <<pc, poolVars, queueVars, posted, running>>

\* ngx_epoll_del_event: DEL, or MOD with the other direction.
DelEvent(c, dir) ==
    /\ pc = "handler"
    /\ dir \in active[c]
    /\ interest' = [interest EXCEPT ![c] = IF active[c] = {dir} THEN NoInterest
                                           ELSE [mask |-> active[c] \ {dir},
                                                 inst |-> Instance(c)]]
    /\ active' = [active EXCEPT ![c] = @ \ {dir}]
    /\ UNCHANGED <<pc, poolVars, queueVars, posted, running>>

\* A handler posts an event of an open connection, to go on with it later.
PostAgain(c, dir) == /\ pc = "handler"
                     /\ c \in open /\ ~IsPosted(c, dir)
                     /\ posted' = Append(posted, Event(c, dir, uses[c]))
                     /\ UNCHANGED <<pc, poolVars, eventVars, queueVars, running>>

Return == /\ pc = "handler"
          /\ Returns
          /\ UNCHANGED <<poolVars, eventVars, queueVars, posted>>

----------------------------------------------------------------------------
Next == \/ Wait \/ SkipEvent \/ PostEvent \/ HandleEvent \/ BatchDone
        \/ RunAccept \/ RunPosted \/ PostedDone
        \/ Open \/ Return
        \/ \E c \in Conns : Close(c) \/ MakeReusable(c) \/ NotReusable(c)
        \/ \E c \in Conns, dir \in Dirs : AddEvent(c, dir) \/ DelEvent(c, dir) \/ PostAgain(c, dir)

Spec == Init /\ [][Next]_vars

----------------------------------------------------------------------------
(* Properties                                                              *)

Places == {"wait", "batch", "handler", "posted"}

TypeOK == /\ pc \in Places
          /\ free \in Seq(Conns) /\ reusable \in Seq(Conns)
          /\ open \subseteq Conns
          /\ uses \in [Conns -> 0 .. MaxOpens]
          /\ active \in [Conns -> SUBSET Dirs]
          /\ interest \in [Conns -> [mask : SUBSET Dirs, inst : {0, 1}]]
          /\ post \in BOOLEAN /\ acceptq \in BOOLEAN
          /\ running.conn \in Conns \cup {Listener}

\* Every structure is in use or on the free list, once: no connection is lost
\* and none is handed out twice (1006, 1059, 1080, 1135, 1213-1220); and what
\* may be drained is in use, and queued once.
ListsExact == /\ IsInjective(free)
              /\ open = Conns \ ToSet(free)
              /\ IsInjective(reusable)
              /\ ToSet(reusable) \subseteq open

\* A posted event belongs to the present use of an open connection, whatever
\* handlers ran since it was posted: closing takes it off the queue (1115-1121).
\* (An event of an old use can only have been posted by the exception below.)
PostedIsOpen == \A i \in DOMAIN posted :
    /\ posted[i].conn \in open
    /\ \A j \in DOMAIN posted : posted[i].conn = posted[j].conn
                                /\ posted[i].dir = posted[j].dir => i = j

\* Closing a connection, by its handler or by draining, takes it out of use
\* everywhere at once.
PoolExact == ListsExact /\ PostedIsOpen

\* The kernel reports exactly what the flags say is active, with the instance
\* of the present use, although each direction is set by itself (1379-1391,
\* 1454-1457) and closing only resets the flags (1517-1520).
InterestExact == \A c \in Conns :
    /\ interest[c].mask = active[c]
    /\ active[c] # {} => c \in open /\ interest[c].inst = Instance(c)

\* The one bit suffices for one reuse: a handler starts for an event of a closed
\* connection never, and for an event of an earlier use of its structure only if
\* that was taken twice or more since.  Handlers that ran before, for the other
\* side of the same event too, may have closed the connection and taken the
\* structure again (1691-1702, 1764-1778).
OneReuseNoticed ==
    [][pc # "handler" /\ pc' = "handler" /\ running'.conn # Listener
         => /\ running'.conn \in open
            /\ uses[running'.conn] # running'.use + 1]_vars

=============================================================================
