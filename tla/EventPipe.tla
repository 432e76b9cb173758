----------------------------- MODULE EventPipe ------------------------------
(* The pipe between an upstream and a client, event/ngx_event_pipe.c, with  *)
(* the handlers of http/ngx_http_upstream.c that run it.                    *)
(*                                                                          *)
(* The response is read into raw buffers; an input filter puts shadow       *)
(* buffers, which share the memory of a raw one, in the chain p.in; they go *)
(* to the client, or through a temporary file and the chain p.out, and give *)
(* the raw buffer back when they were sent or written.                      *)
(*                                                                          *)
(* All memory is modelled, in units: the units 1, 2, ... of the response,   *)
(* Header for the response header in front of them, Junk for what was never *)
(* written.  A unit is read from memory or the file when it is sent, so a   *)
(* buffer that is reused too early shows in what the client gets.           *)
EXTENDS Integers, Sequences, FiniteSets, SequencesExt, FiniteSetsExt, TLC

CONSTANTS
    Sites,      \* configurations with a response and its peers (see Config)
    MaxFlushed, \* how many empty flushes in a row (10 in the code)
    MaxBufs     \* bound on the buffers ever created

VARIABLES
    site,
    pc,         \* where the worker is
    flushed,    \* empty flushes of this write_to_downstream
    p,          \* ngx_event_pipe_t, with its buffers, memory and temporary file
    up,         \* the connection to the upstream, its socket and its peer
    down,       \* the client's connection, r->out, its socket and the client
    posted,     \* events of the sockets epoll did not report yet
    verdict,    \* how the response was finalized
    stored      \* what became of the file of a response to keep

vars == <<site, pc, flushed, p, up, down, posted, verdict, stored>>

Header == 0
Junk == -1
None == -1

\* body: the units of the response as framing and data; sends, ends: how far the
\* upstream gets and what it does then; length: Content-Length, or -1; head,
\* headSize: the header and its buffer; size, num, busy, maxTemp, writeSize,
\* postpone: the directives; keep: "no", "cache" or "store" the response;
\* window, breaks: the client's socket; the rest are what its name says.
Config == [body : Seq({"data", "size", "end"}), sends : Nat, ends : {"close", "reset", "stay"},
           length : Int, head : Nat, headSize : Nat, size : Nat, num : Nat, busy : Nat,
           maxTemp : Nat, writeSize : Nat, postpone : Nat, keep : {"no", "cache", "store"},
           window : Nat, breaks : BOOLEAN, limitUp : BOOLEAN, limitDown : BOOLEAN,
           subrequest : BOOLEAN, aio : BOOLEAN, timeouts : BOOLEAN, headerOnly : BOOLEAN]

\* What the configuration of the modules checks, and the header fits its buffer.
ASSUME SitesAssumption ==
    \A s \in Sites :
        /\ s.num >= 2 /\ s.size > 0 /\ s.head <= s.headSize
        /\ LET one == IF s.size > s.headSize THEN s.size ELSE s.headSize
           IN /\ s.busy >= one /\ s.busy <= (s.num - 1) * s.size
              /\ s.writeSize >= one
              /\ s.maxTemp = 0 \/ s.maxTemp >= one

Least(a, b) == IF a < b THEN a ELSE b
Chunked == \E i \in DOMAIN site.body : site.body[i] # "data"
IsData(u) == u >= 1 /\ site.body[u] = "data"
Cacheable == site.keep # "no"
UpstreamEnded(q) == q.upstream_eof \/ q.upstream_error \/ q.upstream_done

-----------------------------------------------------------------------------
(* Buffers.  The buffers 0..num are raw: 0 is the one the header was read   *)
(* into, its memory ends after headSize units, that of others after size.   *)

EndOf(raw) == IF raw = 0 THEN site.headSize ELSE site.size

Blank == [start |-> 0, pos |-> 0, last |-> 0, shadow |-> None, last_shadow |-> FALSE,
          recycled |-> FALSE, in_file |-> FALSE, file_pos |-> 0, file_last |-> 0]

Size(q, b) == IF q.buf[b].in_file THEN q.buf[b].file_last - q.buf[b].file_pos
                                  ELSE q.buf[b].last - q.buf[b].pos

Content(q, b) ==
    LET f == q.buf[b]
    IN IF f.in_file THEN SubSeq(q.file, f.file_pos + 1, f.file_last)
                    ELSE [i \in 1..Size(q, b) |-> q.mem[f.start][f.pos + i - 1]]

Total(q, chain) == FoldLeft(LAMBDA n, b : n + Size(q, b), 0, chain)
Contents(q, chain) == FoldLeft(LAMBDA s, b : s \o Content(q, b), <<>>, chain)

\* ngx_chain_get_free_buf: the buffer it returns, and the pipe with that buffer set to f.
FreeBuf(q) == IF q.free # <<>> THEN Head(q.free) ELSE q.made
GetFreeBuf(q, f) ==
    [q EXCEPT !.buf[FreeBuf(q)] = f,
              !.free = IF @ # <<>> THEN Tail(@) ELSE @,
              !.made = IF q.free # <<>> THEN @ ELSE @ + 1]

\* The shadow buffers a raw buffer leads to.
RECURSIVE Shadows(_, _)
Shadows(q, b) ==
    IF b = None THEN {}
    ELSE {b} \union (IF q.buf[b].last_shadow THEN {} ELSE Shadows(q, q.buf[b].shadow))

RemoveShadowLinks(q, raw) ==
    LET gone == Shadows(q, q.buf[raw].shadow)
        cut(b) == [q.buf[b] EXCEPT !.shadow = None, !.last_shadow = FALSE, !.recycled = FALSE]
    IN [q EXCEPT !.buf = raw :> [q.buf[raw] EXCEPT !.shadow = None] @@ [b \in gone |-> cut(b)] @@ @]

\* Mutant: the header in front is overwritten before it is in the file.
AddFreeBufForgetsHeader(q, raw) ==
    LET r == [q EXCEPT !.buf[raw] = [@ EXCEPT !.pos = 0, !.last = 0, !.shadow = None]]
    IN [r EXCEPT !.free_raw_bufs = <<raw>> \o @]

\* A raw buffer whose data went to the client can be read into again; the
\* header in front stays when it was not written to the file yet.
AddFreeBuf(q, raw) ==
    LET at == IF q.buf_to_file /\ raw = 0 THEN site.head ELSE 0
        r == [q EXCEPT !.buf[raw] = [@ EXCEPT !.pos = at, !.last = at, !.shadow = None]]
        list == r.free_raw_bufs
    IN [r EXCEPT !.free_raw_bufs =
          IF list = <<>> \/ r.buf[list[1]].pos = r.buf[list[1]].last
          THEN <<raw>> \o list
          ELSE <<list[1], raw>> \o Tail(list)]

\* Mutant: the first of the shadow buffers gives the raw buffer back for all.
GiveBackEarly(q, b) ==
    LET r == IF q.buf[b].shadow # None THEN AddFreeBuf(q, q.buf[b].start) ELSE q
    IN [r EXCEPT !.buf[b] = [@ EXCEPT !.last_shadow = FALSE, !.shadow = None]]

\* Shadow buffers that are done with: they give their raw buffers back.
GiveBack(q, b) ==
    LET r == IF q.buf[b].last_shadow THEN AddFreeBuf(q, q.buf[b].shadow) ELSE q
    IN [r EXCEPT !.buf[b] = [@ EXCEPT !.last_shadow = FALSE, !.shadow = None]]

DrainChains(q) ==
    LET chain == q.busy \o q.out \o q.in
        r == [q EXCEPT !.busy = <<>>, !.out = <<>>, !.in = <<>>, !.free = Reverse(chain) \o @]
    IN FoldLeft(GiveBack, r, chain)

-----------------------------------------------------------------------------
(* The input filters of the proxy module.                                   *)

\* The whole raw buffer becomes one shadow buffer.
CopyFilter(q, raw) ==
    LET n == Size(q, raw)
        s == FreeBuf(q)
        r == GetFreeBuf(q, [q.buf[raw] EXCEPT !.shadow = raw, !.last_shadow = TRUE, !.recycled = TRUE])
        left == IF q.length = -1 THEN -1 ELSE q.length - n
    IN IF n = 0 THEN q
       ELSE [r EXCEPT !.buf[raw].shadow = s, !.in = Append(@, s), !.length = left,
                      !.upstream_done = @ \/ (q.length # -1 /\ left <= 0)]

\* How many units are still to come, at least, after the unit u.
Rest(u) == 1 + Cardinality({v \in (u + 1)..Len(site.body) : \A w \in (u + 1)..v : site.body[w] = "data"})

\* The new shadow buffers of a raw one are linked in a row that ends in it.
Link(r, raw, made) ==
    LET next(k) == IF k = Len(made) THEN raw ELSE made[k + 1]
        linked(k) == [r.buf[made[k]] EXCEPT !.shadow = next(k), !.last_shadow = k = Len(made)]
    IN [r EXCEPT !.buf = [b \in Range(made) |-> linked(CHOOSE k \in DOMAIN made : made[k] = b)] @@ @,
                 !.buf[raw].shadow = IF made # <<>> THEN made[1] ELSE @]

\* Every part of the raw buffer that holds data of one chunk becomes a buffer of p.in.
Cut(q, raw, unit, data) ==
    LET f == q.buf[raw]
        firsts == SetToSortSeq({i \in data : i - 1 \notin data}, <)
        lasts == SetToSortSeq({i \in data : i + 1 \notin data}, <)
        Add(r, k) == GetFreeBuf([r EXCEPT !.in = Append(@, FreeBuf(r))],
                                [Blank EXCEPT !.start = f.start, !.recycled = TRUE,
                                              !.pos = firsts[k], !.last = lasts[k] + 1])
    IN FoldLeft(Add, q, [k \in DOMAIN firsts |-> k])

\* A buffer without data is free at once; ends: where the last chunk is over.
Parse(q, raw, f, unit, ends) ==
    LET stop == IF ends # {} THEN CHOOSE i \in ends : TRUE ELSE f.last
        data == {i \in f.pos..(stop - 1) : IsData(unit[i])}
        Linked(r) == Link(r, raw, SubSeq(r.in, Len(q.in) + 1, Len(r.in)))
        t == [Linked(Cut(q, raw, unit, data)) EXCEPT
                 !.buf[raw].pos = IF ends # {} THEN stop + 1 ELSE f.last,
                 !.upstream_done = @ \/ ends # {},
                 !.length = IF ends # {} THEN @ ELSE Rest(unit[f.last - 1])]
    IN IF data # {} THEN t ELSE AddFreeBuf(t, raw)

ChunkedFilter(q, raw) ==
    LET f == q.buf[raw]
        unit == q.mem[f.start]
    IN IF Size(q, raw) = 0 THEN q
       ELSE Parse(q, raw, f, unit, {i \in f.pos..(f.last - 1) : unit[i] >= 1 /\ site.body[unit[i]] = "end"})

InputFilter(q, raw) == IF Chunked THEN ChunkedFilter(q, raw) ELSE CopyFilter(q, raw)

-----------------------------------------------------------------------------
(* The temporary file.                                                      *)

\* The last buffer of p.in to be written: all that share a raw buffer, or none.
Writable(q) ==
    IF Cacheable THEN Len(q.in)
    ELSE Cardinality({k \in DOMAIN q.in : \A i \in 1..k :
            (i = 1 \/ q.buf[q.in[i - 1]].last_shadow)
                => LET n == Total(q, SubSeq(q.in, 1, i))
                   IN n <= site.writeSize /\ q.offset + n <= site.maxTemp})

\* Appends n units of the file at its offset to the chain p.out.
FilePart(q, n) ==
    IF n = 0 THEN q
    ELSE IF q.out # <<>> /\ q.buf[Last(q.out)].file_last = q.offset
    THEN [q EXCEPT !.buf[Last(q.out)].file_last = q.offset + n, !.offset = @ + n]
    ELSE [GetFreeBuf(q, [Blank EXCEPT !.in_file = TRUE, !.file_pos = q.offset, !.file_last = q.offset + n])
             EXCEPT !.out = Append(@, FreeBuf(q)), !.offset = @ + n]

\* Mutant: only the buffer that was written is free, not what it shadows.
WrittenOnly(q, b) == [q EXCEPT !.free = <<b>> \o @]

\* A shadow buffer that was written: its raw buffer is the last free one.
Written(q, b) ==
    LET raw == q.buf[b].shadow
        r == [q EXCEPT !.free = <<b>> \o @]
    IN IF ~q.buf[b].last_shadow THEN r
       ELSE RemoveShadowLinks([r EXCEPT !.free_raw_bufs = Append(@, raw),
                                        !.buf[raw] = [@ EXCEPT !.pos = 0, !.last = 0]], raw)

WriteChainToTempFile(q) ==
    LET k == Writable(q)
        chain == SubSeq(q.in, 1, k)
        head == IF q.buf_to_file THEN [i \in 1..site.head |-> q.mem[0][i - 1]] ELSE <<>>
        data == Contents(q, chain)
        r == [q EXCEPT !.in = SubSeq(@, k + 1, Len(@)),
                       !.file = SubSeq(@, 1, q.offset) \o head \o data,
                       !.offset = IF q.buf_to_file THEN site.head ELSE @,
                       !.buf_to_file = FALSE]
    IN FoldLeft(Written, FilePart(r, Len(data)), chain)

-----------------------------------------------------------------------------
(* The client: the output filters keep what they could not send.            *)

IsFile(q, b) == q.buf[b].in_file
FirstFile(q, chain) == SelectInSeq(chain, LAMBDA b : IsFile(q, b))

\* How far the output may go now: a part of a file is first read by aio.
Readable(q, d, chain) ==
    LET i == FirstFile(q, chain)
    IN IF ~site.aio \/ i = 0 THEN Total(q, chain)
       ELSE Total(q, SubSeq(chain, 1, IF d.aio = "done" THEN i ELSE i - 1))

\* The write filter waits for more data to send at once.
Postponed(q, chain, new) ==
    /\ new # <<>>
    /\ \A b \in Range(chain) : ~q.buf[b].recycled
    /\ Total(q, chain) < site.postpone

\* The first n units of the chain were sent.
Consume(q, chain, n) ==
    LET before(i) == Total(q, SubSeq(chain, 1, i - 1))
        part(i) == IF n <= before(i) THEN 0 ELSE Least(n - before(i), Size(q, chain[i]))
        got(b) == part(SelectInSeq(chain, LAMBDA x : x = b))
        after(b) == IF IsFile(q, b) THEN [q.buf[b] EXCEPT !.file_pos = @ + got(b)]
                                    ELSE [q.buf[b] EXCEPT !.pos = @ + got(b)]
    IN [q EXCEPT !.buf = [b \in Range(chain) |-> after(b)] @@ @]

\* ngx_http_output_filter: the pipe and the client after it, and if it failed.
OutputFilter(q, d, new) ==
    LET chain == d.out \o new
        all == Total(q, chain)
        n == Least(Least(Readable(q, d, chain), d.room), IF site.limitDown THEN 1 ELSE all)
        r == Consume(q, chain, n)
        rest == SelectSeq(chain, LAMBDA b : Size(r, b) > 0)
        loaded == d.aio = "done" /\ FirstFile(q, chain) # 0 /\ Size(r, chain[FirstFile(q, chain)]) > 0
        sent == [d EXCEPT !.out = rest,
                          !.sent = @ \o SubSeq(Contents(q, chain), 1, n),
                          !.room = @ - n,
                          !.ready = ~(n = d.room /\ n < Readable(q, d, chain)),
                          !.delayed = site.limitDown /\ n > 0,
                          !.timer = IF site.limitDown /\ n > 0 THEN "delay" ELSE @,
                          !.aio = IF ~site.aio \/ FirstFile(r, rest) = 0 THEN "no"
                                  ELSE IF loaded THEN "done" ELSE "busy"]
    IN IF ~d.active \/ d.delayed \/ Postponed(q, chain, new)
       THEN [p |-> q, down |-> [d EXCEPT !.out = chain], failed |-> FALSE]
       ELSE IF d.broken /\ all > 0
       THEN [p |-> q, down |-> [d EXCEPT !.out = <<>>], failed |-> TRUE]
       ELSE [p |-> r, down |-> sent, failed |-> FALSE]

\* Buffers that were sent go from the chain p.busy to p.free.
UpdateChains(q, new) ==
    LET chain == q.busy \o new
        k == Cardinality({i \in DOMAIN chain : \A j \in 1..i : Size(q, chain[j]) = 0})
        done == SubSeq(chain, 1, k)
    IN [q EXCEPT !.busy = SubSeq(chain, k + 1, Len(chain)),
                 !.free = Reverse(done) \o @,
                 !.buf = [b \in Range(done) |-> [q.buf[b] EXCEPT !.pos = 0, !.last = 0]] @@ @]

\* The free buffers give back what they shadow.
Recycle(q) == FoldLeft(LAMBDA r, b : IF IsFile(r, b) THEN r ELSE GiveBack(r, b), q, q.free)

-----------------------------------------------------------------------------
(* ngx_event_pipe_write_to_downstream, one turn of its loop.                *)

\* The memory that busy buffers keep from being read into.
BusySize(q) ==
    LET Add(a, b) == IF ~q.buf[b].recycled \/ q.buf[b].start = a.prev THEN a
                     ELSE [size |-> a.size + EndOf(q.buf[b].start), prev |-> q.buf[b].start]
    IN FoldLeft(Add, [size |-> 0, prev |-> None], q.busy).size

\* How much of p.in may follow: raw buffers as a whole, while busy_size allows.
Sendable(q) ==
    IF Cacheable THEN 0
    ELSE LET opens(i) == q.buf[q.in[i]].recycled /\ (i = 1 \/ q.buf[q.in[i - 1]].last_shadow)
             memory(i) == MapThenSumSet(LAMBDA j : EndOf(q.buf[q.in[j]].start), {j \in 1..i : opens(j)})
         IN Cardinality({k \in DOMAIN q.in : \A i \in 1..k : opens(i) => BusySize(q) + memory(i) <= site.busy})

Unrecycle(q, chain) ==
    [q EXCEPT !.buf = [b \in Range(chain) |-> [q.buf[b] EXCEPT !.recycled = FALSE]] @@ @]

\* What an error of the client leads to.
Failed(q) == DrainChains([q EXCEPT !.downstream_error = TRUE])

\* Mutant: what follows the file is forgotten.
FlushOut ==
    LET chain == IF p.out # <<>> THEN p.out ELSE p.in
        o == OutputFilter(Unrecycle(p, p.busy \o chain), down, chain)
    IN /\ p' = IF o.failed THEN Failed(o.p) ELSE [o.p EXCEPT !.out = <<>>, !.in = <<>>, !.downstream_done = TRUE]
       /\ down' = o.down

\* The upstream ended: all that is left is passed on, p.out, then p.in.
Pass(o, chain) == IF chain = <<>> \/ o.failed THEN o ELSE OutputFilter(o.p, o.down, chain)

Flushed(o) ==
    /\ p' = IF o.failed THEN Failed(o.p) ELSE [o.p EXCEPT !.in = <<>>, !.downstream_done = TRUE]
    /\ down' = o.down

FlushIn(o) == Flushed(Pass([o EXCEPT !.p.out = IF o.failed THEN @ ELSE <<>>], p.in))

Flush ==
    LET q == Unrecycle(p, p.busy \o p.out \o p.in)
    IN FlushIn(Pass([p |-> q, down |-> down, failed |-> FALSE], p.out))

\* What was sent is free again.
Sent(o, r) ==
    /\ p' = IF o.failed THEN Failed(r) ELSE Recycle(r)
    /\ down' = o.down
    /\ pc' = IF o.failed THEN "enter" ELSE "write"

\* Buffers are passed on as busy_size allows.
Send(chain, q) ==
    LET o == OutputFilter(q, down, chain)
    IN Sent(o, UpdateChains(o.p, chain))

WriteToDownstream ==
    LET full == BusySize(p) >= site.busy
        k == IF full THEN 0 ELSE Sendable(p)
        chain == IF full THEN <<>> ELSE p.out \o SubSeq(p.in, 1, k)
        flush == full \/ (~Cacheable /\ k < Len(p.in))
        rest == IF full THEN p ELSE [p EXCEPT !.out = <<>>, !.in = SubSeq(@, k + 1, Len(@))]
    IN /\ pc = "write"
       /\ \/ /\ p.downstream_error
             /\ p' = DrainChains(p)
             /\ pc' = "enter"
             /\ UNCHANGED <<down, flushed>>
          \/ /\ ~p.downstream_error /\ UpstreamEnded(p)
             /\ Flush
             /\ pc' = "enter"
             /\ UNCHANGED flushed
          \/ /\ ~p.downstream_error /\ ~UpstreamEnded(p)
             /\ \/ ~down.active \/ ~down.ready \/ down.delayed
                \/ chain = <<>> /\ ~flush
             /\ pc' = "enter"
             /\ UNCHANGED <<p, down, flushed>>
          \/ /\ ~p.downstream_error /\ ~UpstreamEnded(p)
             /\ down.active /\ down.ready /\ ~down.delayed
             /\ chain # <<>>
             /\ Send(chain, rest)
             /\ UNCHANGED flushed
          \/ /\ ~p.downstream_error /\ ~UpstreamEnded(p)
             /\ down.active /\ down.ready /\ ~down.delayed
             /\ chain = <<>> /\ flush
             /\ IF flushed > MaxFlushed
                THEN pc' = "process" /\ UNCHANGED <<p, down, flushed>>
                ELSE Send(<<>>, p) /\ flushed' = flushed + 1
       /\ UNCHANGED <<site, up, posted, verdict, stored>>

-----------------------------------------------------------------------------
(* ngx_event_pipe_read_upstream.                                            *)

\* n units, read behind what the buffers of the chain have: full ones are
\* filtered, the rest is free to be read into.
RECURSIVE Take(_, _, _)
Take(q, chain, n) ==
    IF chain = <<>> \/ n = 0 THEN [q EXCEPT !.free_raw_bufs = chain \o @]
    ELSE LET raw == Head(chain)
             r == RemoveShadowLinks(q, raw)
             size == EndOf(raw) - r.buf[raw].last
         IN IF n >= size
            THEN Take(InputFilter([r EXCEPT !.buf[raw].last = EndOf(raw)], raw), Tail(chain), n - size)
            ELSE Take([r EXCEPT !.buf[raw].last = @ + n], chain, 0)

Space(q, chain) == FoldLeft(LAMBDA n, raw : n + EndOf(raw) - q.buf[raw].last, 0, chain)

\* readv: the next n units of the response go to the free space of the chain.
Fill(q, chain, n) ==
    LET before(raw) == Space(q, SubSeq(chain, 1, SelectInSeq(chain, LAMBDA b : b = raw) - 1))
        count(raw) == Least(EndOf(raw) - q.buf[raw].last, n - before(raw))
        new(raw) == LET last == q.buf[raw].last
                    IN [j \in last..(last + count(raw) - 1) |-> up.got + before(raw) + j - last + 1]
    IN [q EXCEPT !.mem = [raw \in Range(chain) |-> new(raw) @@ q.mem[raw]] @@ @]

\* Where to read: the free buffers, a new one, or those whose data went to the file.
NewRawBuf(q) == [q EXCEPT !.allocated = @ + 1, !.free_raw_bufs = <<q.allocated + 1>>,
                          !.buf[q.allocated + 1] = [Blank EXCEPT !.start = q.allocated + 1]]
DownstreamReady == ~Cacheable /\ down.active /\ down.ready /\ ~down.delayed
FileAllowed == Cacheable \/ p.offset < site.maxTemp
NoBufs == p.free_raw_bufs = <<>> /\ p.allocated = site.num
ToRead == IF p.free_raw_bufs # <<>> THEN p ELSE IF ~NoBufs THEN NewRawBuf(p) ELSE WriteChainToTempFile(p)

\* The upstream limits the rate, or its socket is read.
Delayed == up' = [up EXCEPT !.delayed = TRUE, !.timer = "delay"]

\* recv_chain into the buffers chain of q.
Recv(q, chain) ==
    LET there == up.arrived - up.got
        r == [q EXCEPT !.free_raw_bufs = <<>>]
        back == [q EXCEPT !.free_raw_bufs = chain]
        n == Least(Least(there, Space(q, chain)), IF site.limitUp THEN 1 ELSE there)
    IN IF Space(q, chain) = 0 \/ (there = 0 /\ up.ended /\ site.ends = "close")
       THEN \* readv returns 0
            /\ p' = [back EXCEPT !.upstream_eof = TRUE, !.read = TRUE]
            /\ pc' = "tail"
            /\ UNCHANGED up
       ELSE IF there > 0
       THEN /\ p' = [Take(Fill(r, chain, n), chain, n) EXCEPT !.read = TRUE]
            /\ pc' = IF site.limitUp THEN "tail" ELSE "read"
            /\ IF site.limitUp THEN up' = [up EXCEPT !.got = @ + n, !.delayed = TRUE, !.timer = "delay", !.rested = FALSE]
                               ELSE up' = [up EXCEPT !.got = @ + n]
       ELSE IF up.ended /\ site.ends = "reset"
       THEN /\ p' = [back EXCEPT !.upstream_error = TRUE]
            /\ pc' = "again"
            /\ up' = [up EXCEPT !.ready = FALSE]
       ELSE /\ p' = back
            /\ pc' = "tail"
            /\ up' = [up EXCEPT !.ready = FALSE]

\* The data that came with the header is taken as though it was just read.
Preread(q, n) == Take([q EXCEPT !.preread = None, !.read = @ \/ n > 0], <<0>>, n)

ReadUpstream ==
    /\ pc = "read"
    /\ \/ /\ UpstreamEnded(p) \/ (p.preread = None /\ ~up.ready)
          /\ pc' = "tail"
          /\ UNCHANGED <<p, up>>
       \/ /\ ~UpstreamEnded(p) /\ p.preread # None
          /\ p' = Preread(p, p.preread)
          /\ pc' = IF site.limitUp /\ p.preread > 0 THEN "tail" ELSE "read"
          /\ IF site.limitUp /\ p.preread > 0 THEN Delayed ELSE UNCHANGED up
       \/ /\ ~UpstreamEnded(p) /\ p.preread = None /\ up.ready
          /\ site.limitUp /\ (up.delayed \/ ~up.rested)
          /\ pc' = "tail"
          /\ IF up.delayed THEN UNCHANGED up ELSE Delayed
          /\ UNCHANGED p
       \/ /\ ~UpstreamEnded(p) /\ p.preread = None /\ up.ready
          /\ ~up.delayed
          /\ \/ /\ NoBufs /\ DownstreamReady
                /\ p' = [p EXCEPT !.upstream_blocked = TRUE]
                /\ pc' = "tail"
                /\ UNCHANGED up
             \/ /\ NoBufs /\ ~DownstreamReady
                /\ ~FileAllowed \/ Writable(p) = 0
                /\ pc' = "tail"
                /\ UNCHANGED <<p, up>>
             \/ /\ ~NoBufs \/ (~DownstreamReady /\ FileAllowed /\ Writable(p) > 0)
                /\ Recv(ToRead, ToRead.free_raw_bufs)
    /\ UNCHANGED <<site, flushed, down, posted, verdict, stored>>

\* A partly filled buffer is filtered when it may hold the rest of the response.
Completed(q) ==
    IF q.free_raw_bufs # <<>> /\ q.length # -1 /\ Size(q, Head(q.free_raw_bufs)) >= q.length
    THEN InputFilter([q EXCEPT !.free_raw_bufs = Tail(@)], Head(q.free_raw_bufs))
    ELSE q

Done(q) == IF q.length = 0 THEN [q EXCEPT !.upstream_done = TRUE, !.read = TRUE] ELSE q

\* After the last byte: what is left is filtered, and the memory of buffers
\* that nobody needs is freed.
Freed(r) ==
    LET rest == Tail(r.free_raw_bufs)
    IN [r EXCEPT !.free_raw_bufs = rest,
                 !.freed = IF r.buf_to_file THEN @
                           ELSE @ \union {raw \in Range(rest) : r.buf[raw].shadow = None}]

LastPart(q) ==
    IF ~(q.upstream_eof \/ q.upstream_error) \/ q.free_raw_bufs = <<>> THEN q
    ELSE Freed(InputFilter(q, Head(q.free_raw_bufs)))

ToFile(q) == IF Cacheable /\ (q.in # <<>> \/ q.buf_to_file) THEN WriteChainToTempFile(q) ELSE q

ReadUpstreamEnds ==
    /\ pc = "tail"
    /\ p' = ToFile(LastPart(Done(Completed(p))))
    /\ pc' = "again"
    /\ UNCHANGED <<site, flushed, up, down, posted, verdict, stored>>

-----------------------------------------------------------------------------
(* ngx_event_pipe: write, then read, as long as there was something to do;  *)
(* then the timers, and ngx_http_upstream_process_request.                  *)

Enter ==
    /\ pc = "enter"
    /\ p' = [p EXCEPT !.read = FALSE, !.upstream_blocked = FALSE]
    /\ pc' = IF UpstreamEnded(p) THEN "again" ELSE "read"
    /\ UNCHANGED <<site, flushed, up, down, posted, verdict, stored>>

Armed(e, kind) == IF e.delayed THEN e ELSE [e EXCEPT !.timer = IF e.ready THEN "none" ELSE kind]

Again ==
    /\ pc = "again"
    /\ IF p.read \/ p.upstream_blocked
       THEN /\ pc' = "write" /\ flushed' = 0
            /\ UNCHANGED <<up, down>>
       ELSE /\ pc' = "process"
            /\ up' = Armed(up, "read")
            /\ down' = IF down.active THEN Armed(down, "send") ELSE down
            /\ UNCHANGED flushed
    /\ UNCHANGED <<site, p, posted, verdict, stored>>

\* Whether the file has all of a response that is kept.
Whole ==
    \/ p.upstream_done /\ (site.keep = "cache" \/ site.length = -1 \/ site.length = p.offset)
    \/ /\ ~p.upstream_done /\ p.upstream_eof /\ p.length = -1
       /\ site.length = -1 \/ site.length = p.offset - (IF site.keep = "cache" THEN site.head ELSE 0)

ProcessRequest ==
    /\ pc = "process"
    /\ IF UpstreamEnded(p)
       THEN /\ verdict' = IF p.upstream_done \/ (p.upstream_eof /\ p.length = -1) THEN "whole" ELSE "cut"
            /\ stored' = IF ~Cacheable THEN stored ELSE IF Whole THEN "stored" ELSE "dropped"
            /\ pc' = "over"
            /\ up' = [up EXCEPT !.timer = "none"]
       ELSE IF p.downstream_error /\ ~Cacheable
       THEN verdict' = "failed" /\ pc' = "over" /\ up' = [up EXCEPT !.timer = "none"] /\ UNCHANGED stored
       ELSE pc' = "wait" /\ UNCHANGED <<up, verdict, stored>>
    /\ UNCHANGED <<site, flushed, p, down, posted>>

-----------------------------------------------------------------------------
(* The handlers of the events.                                              *)

ProcessUpstream ==
    /\ pc = "wait" /\ "up" \in posted
    /\ posted' = posted \ {"up"}
    /\ up' = [up EXCEPT !.ready = TRUE]
    /\ pc' = IF up.delayed THEN "wait" ELSE "enter"
    /\ UNCHANGED <<site, flushed, p, down, verdict, stored>>

\* Mutant: the delay ends, and what the socket has waits for another event.
UpstreamTimerOnly ==
    /\ pc = "wait" /\ up.timer = "delay"
    /\ up' = [up EXCEPT !.delayed = FALSE, !.rested = TRUE, !.timer = "read"]
    /\ UNCHANGED <<site, pc, flushed, p, down, posted, verdict, stored>>

\* The delay of a limited rate is over.
UpstreamTimer ==
    /\ pc = "wait" /\ up.timer = "delay"
    /\ up' = [up EXCEPT !.delayed = FALSE, !.rested = TRUE, !.timer = IF up.ready THEN "none" ELSE "read"]
    /\ pc' = IF up.ready THEN "enter" ELSE "wait"
    /\ UNCHANGED <<site, flushed, p, down, posted, verdict, stored>>

ReadTimeout ==
    /\ pc = "wait" /\ site.timeouts /\ up.timer = "read"
    /\ p' = [p EXCEPT !.upstream_error = TRUE]
    /\ pc' = "process"
    /\ up' = [up EXCEPT !.timer = "none"]
    /\ UNCHANGED <<site, flushed, down, posted, verdict, stored>>

ProcessDownstream ==
    /\ pc = "wait" /\ "down" \in posted
    /\ posted' = posted \ {"down"}
    /\ down' = [down EXCEPT !.ready = TRUE]
    /\ pc' = IF down.timedout THEN "process" ELSE IF down.delayed THEN "wait" ELSE "write"
    /\ flushed' = 0
    /\ UNCHANGED <<site, p, up, verdict, stored>>

\* aio read a part of the file, or the subrequest is the first to send now.
WriteEvent(d) ==
    /\ down' = d
    /\ pc' = IF pc = "wait" /\ ~down.delayed THEN "write" ELSE pc
    /\ flushed' = IF pc = "wait" THEN 0 ELSE flushed
    /\ UNCHANGED <<site, p, up, posted, verdict, stored>>

AioDone == pc \in {"wait", "over"} /\ down.aio = "busy" /\ WriteEvent([down EXCEPT !.aio = "done"])
Activate == pc \in {"wait", "over"} /\ ~down.active /\ WriteEvent([down EXCEPT !.active = TRUE])

DownstreamTimer ==
    /\ pc \in {"wait", "over"} /\ down.timer = "delay"
    /\ down' = [down EXCEPT !.delayed = FALSE, !.timer = IF down.ready THEN "none" ELSE "send"]
    /\ pc' = IF down.ready /\ pc = "wait" THEN "write" ELSE pc
    /\ flushed' = 0
    /\ UNCHANGED <<site, p, up, posted, verdict, stored>>

SendTimeout ==
    /\ pc = "wait" /\ site.timeouts /\ down.timer = "send"
    /\ p' = [p EXCEPT !.downstream_error = TRUE]
    /\ down' = [down EXCEPT !.timer = "none", !.timedout = TRUE]
    /\ pc' = "process"
    /\ UNCHANGED <<site, flushed, up, posted, verdict, stored>>

\* After the pipe: the request sends what its output filters still have, with
\* the last buffer at once and later when the socket is writable in time.
Writer ==
    /\ pc = "over" /\ verdict # "failed" /\ ~site.headerOnly
    /\ down.timedout => down.ready
    /\ down.active /\ ~down.delayed /\ down.room > 0 /\ Readable(p, down, down.out) > 0
    /\ LET o == OutputFilter(p, down, <<>>)
       IN p' = o.p /\ down' = o.down
    /\ UNCHANGED <<site, pc, flushed, up, posted, verdict, stored>>

-----------------------------------------------------------------------------
(* The peers.                                                               *)

Arrive ==
    /\ pc # "over" /\ up.arrived < site.sends
    /\ \E n \in (up.arrived + 1)..site.sends : up' = [up EXCEPT !.arrived = n]
    /\ posted' = posted \union {"up"}
    /\ UNCHANGED <<site, pc, flushed, p, down, verdict, stored>>

UpstreamEnds ==
    /\ pc # "over" /\ up.arrived = site.sends /\ ~up.ended /\ site.ends # "stay"
    /\ up' = [up EXCEPT !.ended = TRUE]
    /\ posted' = posted \union {"up"}
    /\ UNCHANGED <<site, pc, flushed, p, down, verdict, stored>>

\* The client takes what its socket has; a full socket becomes writable.
ClientReads ==
    /\ down.room < site.window
    /\ down' = [down EXCEPT !.room = site.window]
    /\ posted' = IF down.ready \/ pc = "over" THEN posted ELSE posted \union {"down"}
    /\ UNCHANGED <<site, pc, flushed, p, up, verdict, stored>>

ClientBreaks ==
    /\ site.breaks /\ ~down.broken /\ pc # "over"
    /\ down' = [down EXCEPT !.broken = TRUE]
    /\ posted' = posted \union {"down"}
    /\ UNCHANGED <<site, pc, flushed, p, up, verdict, stored>>

-----------------------------------------------------------------------------
\* The pipe that ngx_http_upstream_send_response makes, n units preread.
NewPipe(s, n) ==
    [in |-> <<>>, out |-> <<>>, busy |-> <<>>, free |-> <<>>, free_raw_bufs |-> <<>>,
     buf |-> 0 :> [Blank EXCEPT !.pos = s.head, !.last = s.head] @@ [b \in 1..MaxBufs |-> Blank],
     mem |-> [raw \in 0..s.num |->
               [j \in 0..((IF raw = 0 THEN s.headSize ELSE s.size) - 1) |->
                  IF raw > 0 \/ j >= s.head + n THEN Junk ELSE IF j < s.head THEN Header ELSE j - s.head + 1]],
     made |-> s.num + 1, allocated |-> 0, preread |-> n, file |-> <<>>, offset |-> 0,
     buf_to_file |-> s.keep = "cache", freed |-> {},
     length |-> IF \E i \in DOMAIN s.body : s.body[i] # "data" THEN 1 ELSE s.length,
     read |-> FALSE, upstream_blocked |-> FALSE, upstream_done |-> FALSE, upstream_eof |-> FALSE,
     upstream_error |-> FALSE, downstream_done |-> FALSE, downstream_error |-> s.headerOnly]

Init ==
    /\ site \in Sites
    /\ \E n \in 0..Least(site.headSize - site.head, site.sends) :
          /\ p = NewPipe(site, n)
          /\ up = [ready |-> TRUE, delayed |-> FALSE, rested |-> FALSE, timer |-> "none",
                   arrived |-> n, got |-> n, ended |-> FALSE]
    /\ down = [ready |-> TRUE, delayed |-> FALSE, timer |-> "none", active |-> ~site.subrequest,
               out |-> <<>>, sent |-> <<>>, room |-> site.window, broken |-> FALSE, aio |-> "no", timedout |-> FALSE]
    /\ pc = "enter" /\ flushed = 0 /\ posted = {} /\ verdict = "open" /\ stored = "none"

Run == Enter \/ ReadUpstream \/ ReadUpstreamEnds \/ WriteToDownstream \/ Again \/ ProcessRequest
Handlers == ProcessUpstream \/ UpstreamTimer \/ ReadTimeout \/ ProcessDownstream \/ AioDone
            \/ DownstreamTimer \/ SendTimeout
Peer == Arrive \/ UpstreamEnds \/ ClientReads \/ ClientBreaks \/ Activate

\* The worker is in its event loop.
Idle == pc \in {"wait", "over"}

Next == Run \/ Handlers \/ Writer \/ Peer \/ (Idle /\ UNCHANGED vars)

\* The worker goes on: WF_vars(Run), as Run is always enabled outside of the
\* event loop (a deadlock otherwise).  Its event loop reports what happened; the
\* upstream sends all it is going to; aio finishes, the client reads and the
\* requests before a subrequest end.
Fairness ==
    /\ []<>Idle \/ []<><<Run>>_vars
    /\ WF_vars(Writer)
    /\ WF_vars(ProcessUpstream) /\ WF_vars(ProcessDownstream)
    /\ WF_vars(UpstreamTimer) /\ WF_vars(DownstreamTimer) /\ WF_vars(ReadTimeout) /\ WF_vars(SendTimeout)
    /\ WF_vars(AioDone) /\ WF_vars(Activate)
    /\ WF_vars(Arrive) /\ WF_vars(UpstreamEnds) /\ WF_vars(ClientReads)

Spec == Init /\ [][Next]_vars /\ Fairness

-----------------------------------------------------------------------------
DataUpTo(n) == SelectSeq([i \in 1..n |-> i], IsData)

\* What the framing of the response promises.
Promised == IF Chunked THEN Len(DataUpTo(Len(site.body)))
            ELSE IF site.length # -1 THEN site.length ELSE Len(DataUpTo(site.sends))

S == INSTANCE Stream WITH
        source <- DataUpTo(site.sends), need <- Promised, taken <- Len(DataUpTo(up.got)),
        given <- down.sent, end <- IF verdict = "failed" THEN "cut" ELSE verdict

\* The client gets the response in order, each unit once and nothing else, and
\* a response that counts as whole was read to the end its framing promised:
\* however memory is reused, chains are cut for the file and buffers recycled.
ImplementsStream == S!Spec

\* A response that counts as whole is sent to the end, unless its client is gone.
Delivered ==
    (verdict = "whole" /\ ~p.downstream_error /\ ~down.broken) ~> (down.sent = DataUpTo(up.got))

\* A file that goes to the cache or the store has the header and all the data
\* that was read, in order, and the response was read to its end: the memory of
\* the header is not reused before it is written (ngx_event_pipe_add_free_buf),
\* data that came after an error of the client included.
StoredWhole ==
    stored = "stored" =>
        /\ p.file = [i \in 1..(IF site.keep = "cache" THEN site.head ELSE 0) |-> Header] \o DataUpTo(up.got)
        /\ Len(DataUpTo(up.got)) >= Promised

\* A raw buffer is free to be read into, or holds data that waits, and never
\* both; none is lost while there is more to read; none is listed twice; and no
\* data waits in memory that was freed.  When every buffer is taken and the
\* client cannot get more, not all are busy there: busy_size leaves one whose
\* data can be written to the file (ngx_event_pipe_write_chain_to_temp_file
\* takes the first buffer of p.in without a test).
BufsKept ==
    LET waiting == p.in \o p.busy
        Holds(raw) == \E b \in Range(waiting) : ~IsFile(p, b) /\ p.buf[b].start = raw
    IN /\ \A chain \in {p.free_raw_bufs, waiting \o p.out \o p.free} : IsInjective(chain)
       /\ \A raw \in 0..p.allocated :
             /\ raw \in Range(p.free_raw_bufs) => ~Holds(raw)
             /\ UpstreamEnded(p) \/ raw \in Range(p.free_raw_bufs) \/ Holds(raw)
                \/ (raw = 0 /\ p.preread # None)
             /\ raw \in p.freed => ~Holds(raw)
       /\ \A b \in Range(down.out) : p.downstream_error \/ IsFile(p, b) \/ p.buf[b].start \notin p.freed
       /\ (pc = "read" /\ ~UpstreamEnded(p) /\ p.preread = None /\ NoBufs /\ ~DownstreamReady /\ FileAllowed)
              => p.in # <<>>

\* The pipe ends: it neither stops with work left and no event to wait for, nor
\* runs round and round when every buffer is taken.
PipeEnds == <>(pc = "over")
=============================================================================
