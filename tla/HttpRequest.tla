---------------------------- MODULE HttpRequest ----------------------------
(***************************************************************************)
(* One HTTP request and its subrequests, from the first phase to the end:  *)
(* ngx_http_finalize_request and what it calls (http/ngx_http_request.c),  *)
(* ngx_http_subrequest and the redirects (http/ngx_http_core_module.c),    *)
(* the postpone filter that keeps the output in order, the special         *)
(* responses, and the reading or discarding of the request body.           *)
(*                                                                         *)
(* One worker runs all of it in one thread, but its functions call each    *)
(* other in depth: a content handler that redirects runs other handlers,   *)
(* which may finish the request, before it returns.  `calls' is that stack *)
(* of calls, the current one first; between two events it is empty.  What  *)
(* content handlers do is a choice: write, read a file asynchronously,     *)
(* issue subrequests, wait for one, read the body, ask an upstream,        *)
(* redirect, fail.                                                         *)
(***************************************************************************)
EXTENDS Integers, SequencesExt

CONSTANTS N,             \* bound: subrequests issued (NGX_HTTP_MAX_SUBREQUESTS is 200)
          MaxItems,      \* bound: items one request writes
          MaxUriChanges, \* NGX_HTTP_MAX_URI_CHANGES, 10
          UriWidth,      \* 2^4: uri_changes is a field of four bits
          Sites          \* what requests and the configuration may be like

ASSUME HttpAssumption ==
    /\ N \in Nat /\ MaxItems \in Nat /\ MaxUriChanges \in Nat
    /\ UriWidth \in Nat /\ UriWidth > MaxUriChanges + 1
    /\ Sites \subseteq [subs : 0 .. N,          \* bound: subrequests issued
                        unread : BOOLEAN,       \* it has a body that handlers discard
                        postAction : BOOLEAN,   \* the locations have a post_action
                        aio : BOOLEAN,          \* files are read asynchronously
                        upstream : BOOLEAN]     \* content comes from upstreams

Main == 0
Requests == 0 .. N

VARIABLES site,      \* one of Sites
          calls,     \* the functions being executed, the innermost first
          posted,    \* main->posted_requests
          count,     \* main->count
          blocked,   \* main->blocked
          active,    \* c->data, the request whose output goes to the client
          parent,    \* of the subrequests issued so far: sr->parent
          handler,   \* r->write_event_handler
          reading,   \* r->read_event_handler
          postponed, \* r->postponed
          copy,      \* buffers held by the copy filter: r->buffered
          aio,       \* r->aio
          cbuffered, \* c->buffered
          cerror,    \* c->error
          discard,   \* r->discard_body: "no" or "yes"; and when r->lingering_time is
                     \* set: "lingered" or "lingering"
          body,      \* r->request_body of the main request
          waits,     \* the subrequest r waits for (ngx_http_auth_request_module), or Main
          answered,  \* the subrequests whose post_subrequest handler has run
          done,      \* r->done, set together with r->logged
          uri,       \* r->uri_changes
          post,      \* r->post_action
          cleanup,   \* main->cleanup: the requests with an upstream, the latest first
          state,     \* "open", "linger", or freed: "keepalive", "closed"
          script,    \* history: what r wrote, in order: itself (a buffer) or a subrequest
          sent,      \* history: whose buffers went to the write filter
          again,     \* history: discarding ended again, after the client's end
          alerts     \* history: the alerts logged

vars == <<site, calls, posted, count, blocked, active, parent, handler, reading, postponed, copy,
          aio, cbuffered, cerror, discard, body, waits, answered, done, uri, post, cleanup,
          state, script, sent, again, alerts>>

outVars  == <<posted, active, postponed, cbuffered, cerror, sent>>
fileVars == <<copy, aio, blocked>>
bodyVars == <<discard, body>>
treeVars == <<parent, waits, answered, done>>
endVars  == <<site, state, again, alerts>>

Frame(fn, r, rc) == [fn |-> fn, r |-> r, rc |-> rc]
Content(r)       == Frame("content", r, "ok")   \* the phases of r and its content handler
Output(r)        == Frame("output", r, "ok")    \* an upstream of r passes output on
StartUpstream(r) == Frame("upstream", r, "ok")  \* ngx_http_upstream_init
Run(r)           == Frame("run", r, "ok")       \* r->write_event_handler(r)
Finalize(r, rc)  == Frame("finalize", r, rc)    \* ngx_http_finalize_request
Terminate(r)     == Frame("terminate", r, "ok")
Terminated       == Frame("terminated", Main, "ok")

In(fn) == calls # <<>> /\ Head(calls).fn = fn
Top == Head(calls)
Me == Top.r

Return == calls' = Tail(calls)
Tailcall(frame) == calls' = <<frame>> \o Tail(calls)

Subrequests == 1 .. Len(parent)
Discarding(r) == discard[r] \in {"yes", "lingering"}
Freed == state \in {"keepalive", "closed"}

Init == /\ site \in Sites
        /\ calls = <<Content(Main)>> /\ posted = <<>>
        /\ count = 1 /\ blocked = 0 /\ active = Main /\ parent = <<>>
        /\ handler = [r \in Requests |-> "phases"]
        /\ reading = [r \in Requests |-> IF r = Main THEN "block" ELSE "empty"]
        /\ postponed = [r \in Requests |-> <<>>]
        /\ copy = [r \in Requests |-> 0] /\ aio = [r \in Requests |-> FALSE]
        /\ cbuffered = FALSE /\ cerror = FALSE
        /\ discard = [r \in Requests |-> "no"] /\ body = FALSE
        /\ waits = [r \in Requests |-> Main] /\ answered = {} /\ done = {}
        /\ uri = [r \in Requests |-> MaxUriChanges + 1] /\ post = {}
        /\ cleanup = <<>> /\ state = "open"
        /\ script = [r \in Requests |-> <<>>] /\ sent = <<>> /\ again = FALSE
        /\ alerts = {}

----------------------------------------------------------------------------
(* The postpone filter: the output of the active request goes on, up to    *)
(* the next subrequest, which becomes active; what others write is kept.   *)

Filtered(r, n) ==
    LET q == postponed[r] \o [i \in 1 .. n |-> r]
        k == SelectInSeq(q \o <<Main - 1>>, LAMBDA x : x # r)
    IN  IF r = active
        THEN [out |-> SubSeq(q, 1, k - 1), rest |-> SubSeq(q, k + 1, Len(q)),
              next |-> IF k > Len(q) THEN <<>> ELSE <<q[k]>>]
        ELSE [out |-> <<>>, rest |-> q, next |-> <<>>]

\* The write filter may have to keep what the client does not take yet, and
\* sends nothing after an error.
Sends(r, n) ==
    LET f == Filtered(r, n) IN
    f.out # <<>> \/ (r = active /\ postponed[r] = <<>> /\ cbuffered)

Passes(r, n) ==
    LET f == Filtered(r, n) IN
    /\ Sends(r, n) => ~cerror
    /\ sent' = sent \o f.out
    /\ postponed' = [postponed EXCEPT ![r] = f.rest]
    /\ active' = IF f.next = <<>> THEN active ELSE f.next[1]
    /\ posted' = posted \o f.next
    /\ cbuffered' \in IF Sends(r, n) THEN BOOLEAN ELSE {cbuffered}
    /\ UNCHANGED cerror

\* ngx_http_output_filter: an error of any filter is the connection's.
SendFails(r, n) ==
    /\ Sends(r, n)
    /\ cerror' = TRUE
    /\ UNCHANGED <<posted, active, postponed, cbuffered, sent>>

\* A buffer of r enters the copy filter, behind those that wait for a file.
Writes(r) ==
    /\ script' = [script EXCEPT ![r] = Append(@, r)]
    /\ IF aio[r]
       THEN copy' = [copy EXCEPT ![r] = @ + 1] /\ UNCHANGED outVars
       ELSE /\ copy' = [copy EXCEPT ![r] = 0]
            /\ Passes(r, copy[r] + 1) \/ SendFails(r, copy[r] + 1)

----------------------------------------------------------------------------
(* What the content handler of a request, or the upstream of one, does     *)
(* before it returns.                                                      *)

Producing == In("content") \/ In("output")

\* r->header_only: after a post_action, and for what is not part of the document.
HeaderOnly(r) == r \in post \/ (r # Main /\ r \notin Range(script[parent[r]]))
Budget == Len(script[Me]) < MaxItems /\ ~HeaderOnly(Me)

WriteBuffer ==
    /\ Producing /\ Budget
    /\ Writes(Me)
    /\ UNCHANGED <<calls, count, blocked, handler, reading, aio, bodyVars, treeVars, uri, post,
                   cleanup, endVars>>

\* The file behind the buffer is read by the kernel or a thread meanwhile.
ReadFile ==
    /\ site.aio /\ Producing /\ Budget /\ ~aio[Me]
    /\ script' = [script EXCEPT ![Me] = Append(@, Me)]
    /\ copy' = [copy EXCEPT ![Me] = @ + 1]
    /\ aio' = [aio EXCEPT ![Me] = TRUE]
    /\ blocked' = blocked + 1
    /\ UNCHANGED <<calls, count, handler, reading, outVars, bodyVars, treeVars, uri, post,
                   cleanup, endVars>>

\* ngx_http_subrequest: the first of the active request's becomes active.
Subrequest(r) ==
    LET s == Len(parent) + 1 IN
    /\ s <= site.subs
    /\ parent' = Append(parent, r)
    /\ active' = IF active = r /\ postponed[r] = <<>> THEN s ELSE active
    /\ postponed' = [postponed EXCEPT ![r] = Append(@, s)]
    /\ discard' = [discard EXCEPT ![s] = IF Discarding(r) THEN "yes" ELSE "no"]
    /\ count' = count + 1
    /\ posted' = Append(posted, s)
    /\ UNCHANGED <<blocked, handler, reading, copy, aio, cbuffered, cerror, body, answered,
                   done, uri, post, cleanup, endVars, sent>>

IssueSubrequest ==
    /\ Producing /\ Budget /\ copy[Me] = 0
    /\ Subrequest(Me)
    /\ script' = [script EXCEPT ![Me] = Append(@, Len(parent) + 1)]
    /\ UNCHANGED <<calls, waits>>

\* ngx_http_auth_request_handler: the phases stop until the subrequest answers.
WaitForSubrequest ==
    /\ In("content") /\ waits[Me] = Main /\ script[Me] = <<>> /\ Me \notin post
    /\ Subrequest(Me)
    /\ waits' = [waits EXCEPT ![Me] = Len(parent) + 1]
    /\ Return
    /\ UNCHANGED script

\* ngx_http_discard_request_body: reading on counts as one more user.
Discards ==
    /\ site.unread /\ ~Discarding(Main) /\ ~body
    /\ discard' = [discard EXCEPT ![Main] = IF @ = "no" THEN "yes" ELSE "lingering"]
    /\ reading' = [reading EXCEPT ![Main] = "discard"]

DiscardBody ==
    /\ In("content") /\ Me = Main /\ script[Main] = <<>>
    /\ Discards
    /\ count' = count + 1
    /\ UNCHANGED <<calls, outVars, fileVars, handler, body, treeVars, uri, post, cleanup,
                   endVars, script>>

\* A response ends with a last buffer.
Ended(r) == Last(<<r>> \o script[r]) = r

\* The handler returns NGX_OK, or an error, a status or NGX_HTTP_CLOSE instead
\* of a response; an error of a filter is one of the connection, too.
ReturnCode ==
    /\ In("content")
    /\ \/ Ended(Me) /\ Tailcall(Finalize(Me, "ok")) /\ UNCHANGED cerror
       \/ /\ script[Me] = <<>>
          /\ \E rc \in {"error", "special", "close"} : Tailcall(Finalize(Me, rc))
          /\ UNCHANGED cerror
       \/ script[Me] # <<>> /\ Tailcall(Finalize(Me, "error")) /\ cerror' = TRUE
    /\ UNCHANGED <<count, posted, active, postponed, cbuffered, sent, fileVars, handler,
                   reading, bodyVars, treeVars, uri, post,
                   cleanup, endVars, script>>

\* ngx_http_upstream_create drops an upstream that is still there;
\* ngx_http_read_client_request_body has nothing to wait for.
AskUpstream ==
    LET old == [i \in 1 .. (IF Me \in Range(cleanup) THEN 1 ELSE 0) |-> Finalize(Me, "done")] IN
    /\ In("content") /\ site.upstream /\ script[Me] = <<>>
    /\ cleanup' = SelectSeq(cleanup, LAMBDA r : r # Me)
    /\ count' = count + Len(old) + 1
    /\ calls' = old \o <<StartUpstream(Me), Finalize(Me, "done")>> \o Tail(calls)
    /\ body' = (body \/ (Me = Main /\ ~Discarding(Main)))
    /\ handler' = [handler EXCEPT ![Me] = "empty"]
    /\ UNCHANGED <<outVars, fileVars, reading, discard, treeVars, uri, post, endVars, script>>

\* The same when the rest of the body has yet to come.
ReadBody ==
    /\ In("content") /\ site.upstream /\ script[Me] = <<>>
    /\ Me = Main /\ ~body /\ ~Discarding(Main)
    /\ count' = count + 1
    /\ body' = TRUE
    /\ reading' = [reading EXCEPT ![Main] = "body"]
    /\ handler' = [handler EXCEPT ![Main] = "empty"]
    /\ Tailcall(Finalize(Main, "done"))
    /\ UNCHANGED <<outVars, fileVars, discard, treeVars, uri, post, cleanup, endVars, script>>

\* ngx_http_internal_redirect, ngx_http_named_location: they run the handlers
\* of the new location at once, unless there were too many of them.
Redirected(r, idle, rest) ==
    LET left == (uri[r] - 1) % UriWidth IN
    /\ uri' = [uri EXCEPT ![r] = left]
    /\ handler' = [handler EXCEPT ![r] = IF left = 0 THEN idle ELSE "phases"]
    /\ waits' = [waits EXCEPT ![r] = Main]
    /\ calls' = <<IF left = 0 THEN Finalize(r, "special") ELSE Content(r)>> \o rest


Redirect ==
    /\ In("content") /\ script[Me] = <<>>
    /\ count' = count + 1
    /\ Redirected(Me, handler[Me], <<Finalize(Me, "done")>> \o Tail(calls))
    /\ UNCHANGED <<outVars, fileVars, reading, bodyVars, parent, answered, done, post, cleanup,
                   endVars, script>>

\* ngx_http_upstream_init: the upstream's handlers watch the client, unless
\* proxy_ignore_client_abort is set.
BeginUpstream ==
    /\ In("upstream")
    /\ cleanup' = <<Me>> \o cleanup
    /\ \E watch \in IF Me \in post THEN {FALSE} ELSE BOOLEAN :
          IF watch
          THEN /\ handler' = [handler EXCEPT ![Me] = "upstream"]
               /\ reading' = [reading EXCEPT ![Me] = "upstream"]
          ELSE UNCHANGED <<handler, reading>>
    /\ Return
    /\ UNCHANGED <<count, outVars, fileVars, bodyVars, treeVars, uri, post, endVars, script>>

UpstreamFails ==
    /\ In("upstream")
    /\ Tailcall(Finalize(Me, "special"))
    /\ UNCHANGED <<count, outVars, fileVars, handler, reading, bodyVars, treeVars, uri, post,
                   cleanup, endVars, script>>

\* ngx_http_upstream_finalize_request, as the call that follows.
UpstreamFinal(r, rc) == Finalize(r, IF r \in Range(cleanup) THEN rc ELSE "done")
DropUpstream(r) == cleanup' = SelectSeq(cleanup, LAMBDA x : x # r)

\* An upstream that could not write to the client gives up.
OutputReturns ==
    /\ In("output")
    /\ IF cerror
       THEN Tailcall(UpstreamFinal(Me, "error")) /\ DropUpstream(Me)
       ELSE Return /\ UNCHANGED cleanup
    /\ UNCHANGED <<count, outVars, fileVars, handler, reading, bodyVars, treeVars, uri, post,
                   endVars, script>>

ContentStep == \/ WriteBuffer \/ ReadFile \/ IssueSubrequest \/ WaitForSubrequest
               \/ DiscardBody \/ ReturnCode \/ AskUpstream \/ ReadBody \/ Redirect
               \/ BeginUpstream \/ UpstreamFails \/ OutputReturns

----------------------------------------------------------------------------
(* ngx_http_finalize_request.                                              *)

Finalizing(rcs) == In("finalize") /\ Top.rc \in rcs

\* The post_subrequest handler of ngx_http_auth_request_module.
Answers == answered' = IF \E r \in Requests : waits[r] = Me /\ Me # Main
                       THEN answered \cup {Me} ELSE answered

\* ngx_http_close_request
CloseRequest(users) ==
    /\ alerts' = IF users = 0 THEN alerts \cup {"count is zero"} ELSE alerts
    /\ count' = users - 1
    /\ state' = IF users - 1 = 0 /\ blocked = 0 THEN "closed" ELSE state

\* ngx_http_finalize_connection: one user less, or the end of the last one.
Lingers == IF Discarding(Me)
           THEN discard' = [discard EXCEPT ![Me] = "lingering"]
           ELSE UNCHANGED discard

FinalizeConnection ==
    /\ Finalizing({"done"})
    /\ Return
    /\ \/ /\ count # 1 /\ Lingers
          /\ reading' = [reading EXCEPT ![Me] = IF Discarding(Me) THEN "discard" ELSE @]
          /\ CloseRequest(count)
          /\ UNCHANGED handler
       \/ /\ count = 1
          /\ CloseRequest(count) \/ (state' = "linger" /\ UNCHANGED <<count, alerts>>)
          /\ UNCHANGED <<handler, reading, discard>>
       \/ /\ count = 1 /\ Lingers         \* ngx_http_set_keepalive
          /\ IF Discarding(Me)
             THEN handler' = [handler EXCEPT ![Me] = "empty"] /\ UNCHANGED state
             ELSE state' = "keepalive" /\ UNCHANGED handler
          /\ UNCHANGED <<count, alerts, reading>>
    /\ UNCHANGED <<site, again, outVars, fileVars, body, treeVars, uri, post, cleanup, script>>

\* ngx_http_post_action gives up a user and redirects.
PostActs(r) == site.postAction /\ ~(r \in post /\ uri[r] = 0)
PostAct(r, idle) ==
    /\ post' = post \cup {r}
    /\ reading' = [reading EXCEPT ![r] = "block"]
    /\ Redirected(r, idle, Tail(calls))

FinalizeFailed ==
    /\ Finalizing({"ok", "error", "special", "close"})
    /\ Top.rc = "error" \/ cerror
    /\ Answers
    /\ IF PostActs(Me)
       THEN PostAct(Me, handler[Me])
       ELSE /\ handler' = [handler EXCEPT ![Me] = IF blocked > 0 THEN "finalizer" ELSE @]
            /\ Tailcall(Terminate(Me))
            /\ UNCHANGED <<post, reading, uri, waits>>
    /\ UNCHANGED <<count, outVars, fileVars, bodyVars, parent, done, cleanup, endVars, script>>

FinalizeClose ==
    /\ Finalizing({"close"}) /\ ~cerror
    /\ Answers
    /\ Tailcall(Terminate(Me))
    /\ UNCHANGED <<count, outVars, fileVars, handler, reading, bodyVars, parent, waits, done,
                   uri, post, cleanup, endVars, script>>

\* ngx_http_send_error_page
ErrorPage ==
    /\ Finalizing({"special"}) /\ ~cerror /\ uri[Me] # 0
    /\ Answers
    /\ count' = count + 1
    /\ Redirected(Me, handler[Me], <<Finalize(Me, "done")>> \o Tail(calls))
    /\ UNCHANGED <<outVars, fileVars, reading, bodyVars, parent, done, post, cleanup, endVars,
                   script>>

\* ngx_http_special_response_handler; only the header after a post_action.
SendSpecial ==
    /\ Finalizing({"special"}) /\ ~cerror
    /\ Answers
    /\ \/ Me = Main /\ Discards /\ count' = count + 1
       \/ UNCHANGED <<discard, reading, count>>
    /\ IF HeaderOnly(Me) THEN UNCHANGED <<outVars, copy, script>> ELSE Writes(Me)
    /\ Tailcall(Finalize(Me, "ok"))
    /\ UNCHANGED <<aio, blocked, handler, body, parent, waits, done, uri, post, cleanup,
                   endVars>>

Buffered(r) == copy[r] > 0 \/ postponed[r] # <<>>
Finished == Finalizing({"ok"}) /\ ~cerror
\* Mutant: what the client has not taken yet is forgotten.
MainBusyHere == copy[Main] > 0 \/ postponed[Main] # <<>> \/ blocked > 0
MainBusy == Buffered(Main) \/ cbuffered \/ blocked > 0

\* ngx_http_set_write_handler
FinalizeBuffered ==
    /\ Finished
    /\ IF Me = Main THEN MainBusy ELSE Buffered(Me)
    /\ Answers
    /\ reading' = [reading EXCEPT ![Me] = IF Discarding(Me) THEN "discard" ELSE "test"]
    /\ handler' = [handler EXCEPT ![Me] = "writer"]
    /\ Return
    /\ UNCHANGED <<count, outVars, fileVars, bodyVars, parent, waits, done, uri, post, cleanup,
                   endVars, script>>


\* The active subrequest is over; its parent becomes active and is woken.
FinalizeActive ==
    /\ Finished /\ Me # Main /\ ~Buffered(Me) /\ Me = active
    /\ Answers
    /\ count' = count - 1
    /\ alerts' = IF Me \in done THEN alerts \cup {"logged again"} ELSE alerts
    /\ done' = done \cup {Me}
    /\ postponed' = [postponed EXCEPT ![parent[Me]] =
                        IF @ # <<>> /\ Head(@) = Me THEN Tail(@) ELSE @]
    /\ active' = parent[Me]
    /\ posted' = Append(posted, parent[Me])
    /\ Return
    /\ UNCHANGED <<site, again, cbuffered, cerror, sent, fileVars, handler, reading, bodyVars,
                   parent, waits,
                   uri, post, cleanup, state, script>>

\* Its turn has not come: ngx_http_request_finalizer will end it.
FinalizeInactive ==
    /\ Finished /\ Me # Main /\ ~Buffered(Me) /\ Me # active
    /\ Answers
    /\ handler' = [handler EXCEPT ![Me] = "finalizer"]
    /\ posted' = Append(posted, parent[Me])
    /\ Return
    /\ UNCHANGED <<count, active, postponed, cbuffered, cerror, sent, fileVars, reading,
                   bodyVars,
                   parent, waits, done, uri, post, cleanup, endVars, script>>

FinalizeMain ==
    /\ Finished /\ Me = Main /\ ~MainBusy
    /\ IF active # Main
       THEN /\ alerts' = alerts \cup {"finalize non-active request"}
            /\ Return
            /\ UNCHANGED <<handler, reading, post, uri, waits>>
       ELSE /\ IF PostActs(Main)
               THEN PostAct(Main, "empty")
               ELSE /\ handler' = [handler EXCEPT ![Main] = "empty"]
                    /\ Tailcall(Finalize(Main, "done"))
                    /\ UNCHANGED <<reading, post, uri, waits>>
            /\ UNCHANGED alerts
    /\ UNCHANGED <<site, again, count, outVars, fileVars, bodyVars, parent, answered, done,
                   cleanup, state,
                   script>>

\* ngx_http_terminate_request: every upstream is dropped through its cleanup
\* handler, and the request is closed from the posted ones.
TerminateRequest ==
    /\ In("terminate")
    /\ calls' = [i \in 1 .. Len(cleanup) |-> Finalize(cleanup[i], "done")]
                    \o <<Terminated>> \o Tail(calls)
    /\ cleanup' = <<>>
    /\ UNCHANGED <<count, outVars, fileVars, handler, reading, bodyVars, treeVars, uri, post,
                   endVars, script>>

CleanupsRun ==
    /\ In("terminated")
    /\ IF blocked > 0
       THEN UNCHANGED <<posted, handler>>
       ELSE posted' = <<Main>> /\ handler' = [handler EXCEPT ![Main] = "terminate"]
    /\ Return
    /\ UNCHANGED <<count, active, postponed, cbuffered, cerror, sent, fileVars, reading,
                   bodyVars,
                   treeVars, uri, post, cleanup, endVars, script>>

FinalizeStep == \/ FinalizeConnection \/ FinalizeFailed \/ FinalizeClose \/ ErrorPage
                \/ SendSpecial \/ FinalizeBuffered \/ FinalizeActive \/ FinalizeInactive
                \/ FinalizeMain \/ TerminateRequest \/ CleanupsRun

----------------------------------------------------------------------------
(* r->write_event_handler(r), by its value.                                *)

Running(h) == In("run") /\ handler[Me] = h

\* ngx_http_core_run_phases, again: its handlers may still have to wait.
Answered(r) == waits[r] = Main \/ waits[r] \in answered
RunPhases ==
    /\ Running("phases")
    /\ IF Answered(Me) THEN Tailcall(Content(Me)) ELSE Return
    /\ UNCHANGED <<count, outVars, fileVars, handler, reading, bodyVars, treeVars, uri, post,
                   cleanup, endVars, script>>

RunEmpty ==
    /\ Running("empty")
    /\ Return
    /\ UNCHANGED <<count, outVars, fileVars, handler, reading, bodyVars, treeVars, uri, post,
                   cleanup, endVars, script>>

RunFinalizer ==
    /\ Running("finalizer")
    /\ Tailcall(Finalize(Me, "ok"))
    /\ UNCHANGED <<count, outVars, fileVars, handler, reading, bodyVars, treeVars, uri, post,
                   cleanup, endVars, script>>

\* ngx_http_writer
RunWriter ==
    /\ Running("writer")
    /\ \/ aio[Me] /\ Return /\ UNCHANGED <<outVars, copy, handler>>
       \/ /\ ~aio[Me]
          /\ copy' = [copy EXCEPT ![Me] = 0]
          /\ Passes(Me, copy[Me])
          /\ IF postponed'[Me] # <<>> \/ (Me = Main /\ cbuffered')
             THEN Return /\ UNCHANGED handler
             ELSE /\ handler' = [handler EXCEPT ![Me] = "empty"]
                  /\ Tailcall(Finalize(Me, "ok"))
       \/ /\ ~aio[Me]
          /\ SendFails(Me, copy[Me])
          /\ Tailcall(Finalize(Me, "error"))
          /\ UNCHANGED <<copy, handler>>
    /\ UNCHANGED <<count, aio, blocked, reading, bodyVars, treeVars, uri, post, cleanup,
                   endVars,
                   script>>

\* ngx_http_upstream_wr_check_broken_connection; a response that is being
\* cached is read to its end.
RunUpstream ==
    /\ Running("upstream")
    /\ \/ Return /\ UNCHANGED cleanup
       \/ cerror /\ Tailcall(UpstreamFinal(Me, "error")) /\ DropUpstream(Me)
    /\ UNCHANGED <<count, outVars, fileVars, handler, reading, bodyVars, treeVars, uri, post,
                   endVars, script>>

\* ngx_http_terminate_handler
RunTerminate ==
    /\ Running("terminate")
    /\ CloseRequest(1)
    /\ Return
    /\ UNCHANGED <<site, again, outVars, fileVars, handler, reading, bodyVars, treeVars, uri,
                   post, cleanup,
                   script>>

RunStep == \/ RunPhases \/ RunEmpty \/ RunFinalizer \/ RunWriter \/ RunUpstream \/ RunTerminate

----------------------------------------------------------------------------
(* Events.  After each, ngx_http_run_posted_requests empties the list of   *)
(* posted requests, or stops when the request was freed.                   *)

RunPosted ==
    /\ calls = <<>> /\ posted # <<>> /\ ~Freed
    /\ calls' = <<Run(Head(posted))>>
    /\ posted' = Tail(posted)
    /\ UNCHANGED <<count, active, postponed, cbuffered, cerror, sent, fileVars, handler,
                   reading,
                   bodyVars, treeVars, uri, post, cleanup, endVars, script>>

Waiting == calls = <<>> /\ posted = <<>> /\ state = "open"

ClientWritable ==
    /\ Waiting
    /\ calls' = <<Run(active)>>
    /\ UNCHANGED <<count, outVars, fileVars, handler, reading, bodyVars, treeVars, uri, post,
                   cleanup, endVars, script>>

\* send_timeout, set with the writer
WriteTimeout ==
    /\ Waiting /\ handler[active] = "writer"
    /\ calls' = <<Finalize(active, "error")>>
    /\ UNCHANGED <<count, outVars, fileVars, handler, reading, bodyVars, treeVars, uri, post,
                   cleanup, endVars, script>>

\* The client closes the connection: ngx_http_test_reading,
\* ngx_http_upstream_rd_check_broken_connection.
ClientGone ==
    /\ Waiting
    /\ cerror' = TRUE
    /\ \/ /\ reading[active] = "test"
          /\ calls' = <<Finalize(active, "error")>>
          /\ UNCHANGED cleanup
       \/ /\ reading[active] = "upstream"
          /\ calls' = <<UpstreamFinal(active, "error")>>
          /\ DropUpstream(active)
       \/ /\ reading[active] = "upstream" /\ active \in Range(cleanup)
          /\ UNCHANGED <<calls, cleanup>>
    /\ UNCHANGED <<count, posted, active, postponed, cbuffered, sent, fileVars, handler,
                   reading,
                   bodyVars, treeVars, uri, post, endVars, script>>

\* ngx_http_read_client_request_body_handler: the body is complete, the
\* client is gone or too slow.
BodyEnds ==
    /\ Waiting /\ reading[active] = "body"
    /\ \/ /\ calls' = <<StartUpstream(active)>>
          /\ reading' = [reading EXCEPT ![active] = "block"]
          /\ UNCHANGED cerror
       \/ calls' = <<Finalize(active, "error")>> /\ UNCHANGED <<reading, cerror>>
       \/ calls' = <<Finalize(active, "special")>> /\ cerror' = TRUE /\ UNCHANGED reading
    /\ UNCHANGED <<count, posted, active, postponed, cbuffered, sent, fileVars, handler,
                   bodyVars,
                   treeVars, uri, post, cleanup, endVars, script>>

\* r->discard_body = 0
NotDiscarding(r) ==
    [discard EXCEPT ![r] = IF @ \in {"lingering", "lingered"} THEN "lingered" ELSE "no"]

\* ngx_http_discarded_request_body_handler: the body is complete; the client
\* ended its side before that (recv() returns 0); it is malformed, or has come
\* too slowly; lingering_time is over.  After the client's end the handler stays,
\* and runs with each further event (and an end may be reset); it does not look
\* at discard_body.
DiscardEnds ==
    /\ Waiting /\ reading[active] = "discard"
    /\ \/ /\ Discarding(active) /\ calls' = <<Finalize(active, "done")>>
          /\ discard' = NotDiscarding(active)
          /\ reading' \in {reading, [reading EXCEPT ![active] = "block"]}
          /\ UNCHANGED <<cerror, again>>
       \/ /\ ~Discarding(active) /\ ~cerror
          /\ calls' = <<Finalize(active, "done")>>
          /\ again' = TRUE
          /\ UNCHANGED <<reading, discard, cerror>>
       \/ /\ ~cerror /\ cerror' = TRUE /\ calls' = <<Finalize(active, "done")>>
          /\ discard' = NotDiscarding(active)
          /\ again' = ~Discarding(active) \/ again
          /\ UNCHANGED reading
       \/ /\ Discarding(active) \/ discard[active] = "lingered"
          /\ calls' = <<Finalize(active, "error")>>
          /\ cerror' = TRUE /\ UNCHANGED <<reading, discard, again>>
       \/ /\ discard[active] \in {"lingering", "lingered"}
          /\ calls' = <<Finalize(active, "error")>>
          /\ discard' = NotDiscarding(active)
          /\ UNCHANGED <<reading, cerror, again>>
    /\ UNCHANGED <<site, count, posted, active, postponed, cbuffered, sent, fileVars, handler,
                   body,
                   treeVars, uri, post, cleanup, state, alerts, script>>

\* An upstream has something to send; it ends.  When it fails after the
\* header was sent, that is the end of the response as well.
UpstreamResponds(r) ==
    /\ Waiting /\ r \in Range(cleanup) /\ Len(script[r]) < MaxItems /\ ~HeaderOnly(r)
    /\ calls' = <<Output(r)>>
    /\ UNCHANGED <<count, outVars, fileVars, handler, reading, bodyVars, treeVars, uri, post,
                   cleanup, endVars, script>>

UpstreamEnds(r) ==
    /\ Waiting /\ r \in Range(cleanup)
    /\ \/ Ended(r) /\ calls' = <<Finalize(r, "ok")>> /\ UNCHANGED cerror
       \/ script[r] = <<>> /\ calls' = <<Finalize(r, "special")>> /\ UNCHANGED cerror
       \/ calls' = <<Finalize(r, "error")>> /\ cerror' = TRUE
    /\ DropUpstream(r)
    /\ UNCHANGED <<count, posted, active, postponed, cbuffered, sent, fileVars, handler,
                   reading, bodyVars, treeVars, uri, post,
                   endVars, script>>

\* X-Accel-Redirect
UpstreamRedirects(r) ==
    /\ Waiting /\ r \in Range(cleanup) /\ script[r] = <<>>
    /\ DropUpstream(r)
    /\ count' = count + 1
    /\ Redirected(r, handler[r], <<Finalize(r, "done")>>)
    /\ UNCHANGED <<outVars, fileVars, reading, bodyVars, parent, answered, done, post, endVars,
                   script>>

\* A file was read: ngx_http_copy_aio_event_handler,
\* ngx_http_copy_thread_event_handler run the write handler of the connection.
FileRead(r) ==
    /\ calls = <<>> /\ (posted = <<>> \/ Freed) /\ aio[r]
    /\ aio' = [aio EXCEPT ![r] = FALSE]
    /\ blocked' = blocked - 1
    /\ calls' = IF state = "open" THEN <<Run(active)>> ELSE <<>>
    /\ UNCHANGED <<count, outVars, copy, handler, reading, bodyVars, treeVars, uri, post,
                   cleanup,
                   endVars, script>>

\* ngx_http_lingering_close_handler
LingerEnds ==
    /\ calls = <<>> /\ posted = <<>> /\ state = "linger"
    /\ CloseRequest(count)
    /\ UNCHANGED <<site, again, calls, outVars, fileVars, handler, reading, bodyVars, treeVars,
                   uri, post,
                   cleanup, script>>

EventStep == \/ RunPosted \/ ClientWritable \/ WriteTimeout \/ ClientGone \/ BodyEnds
             \/ DiscardEnds \/ LingerEnds
             \/ \E r \in Requests : \/ UpstreamResponds(r) \/ UpstreamEnds(r)
                                    \/ UpstreamRedirects(r) \/ FileRead(r)

Next == ContentStep \/ FinalizeStep \/ RunStep \/ EventStep

\* The worker returns to its event loop; what is awaited comes, or its timer
\* expires, whatever else happens meanwhile.
Works == (calls # <<>> /\ Next) \/ RunPosted
Arrives == \/ RunWriter /\ cbuffered /\ ~cbuffered'
           \/ WriteTimeout \/ BodyEnds \/ LingerEnds
           \/ DiscardEnds /\ discard[active] = "lingering"
           \/ \E r \in Requests : UpstreamEnds(r)

Fairness == /\ WF_vars(Works) /\ SF_vars(Arrives)
            /\ SF_vars(\E r \in Requests : FileRead(r))

Spec == Init /\ [][Next]_vars /\ Fairness

----------------------------------------------------------------------------

\* What the variables hold: uri_changes fits its bits, an active request and
\* the posted ones exist.
TypeOK ==
    /\ site \in Sites
    /\ \A i \in DOMAIN calls : calls[i].r \in Subrequests \cup {Main}
    /\ Range(posted) \cup {active} \subseteq Subrequests \cup {Main}
    /\ count \in Nat /\ blocked \in Nat
    /\ \A s \in Subrequests : parent[s] \in 0 .. s - 1
    /\ \A r \in Requests :
        /\ Range(postponed[r]) \cup Range(script[r]) \subseteq Subrequests \cup {r}
        /\ copy[r] \in 0 .. MaxItems + 1 /\ uri[r] \in 0 .. UriWidth - 1
        /\ discard[r] \in {"no", "yes", "lingered", "lingering"}
        /\ handler[r] \in {"phases", "empty", "finalizer", "writer", "upstream", "terminate"}
        /\ reading[r] \in {"block", "empty", "test", "body", "discard", "upstream"}
        /\ waits[r] \in Subrequests \cup {Main}
    /\ aio \in [Requests -> BOOLEAN]
    /\ cbuffered \in BOOLEAN /\ cerror \in BOOLEAN /\ body \in BOOLEAN
    /\ answered \cup done \subseteq Subrequests
    /\ Range(cleanup) \cup post \subseteq Subrequests \cup {Main}
    /\ state \in {"open", "linger", "keepalive", "closed"}


\* The document as it was written: a subrequest stands for what it wrote.
flat[r \in Requests] ==
    FlattenSeq([i \in DOMAIN script[r] |-> IF script[r][i] = r THEN <<r>> ELSE flat[script[r][i]]])

\* Whatever order subrequests end in, the client gets the document in the order
\* it was written, and a sound connection is kept only after the whole of it -
\* unless the discarding of the body ended again: each end gives up a user of the
\* request, but only one was counted (ngx_http_request_body.c 813, 861-865).
Delivered == /\ IsPrefix(sent, flat[Main])
             /\ state = "keepalive" /\ ~cerror /\ ~again => sent = flat[Main] /\ ~cbuffered

=============================================================================
