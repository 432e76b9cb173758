---------------------------- MODULE MCEventPipe -----------------------------
(* Instances of EventPipe for TLC. *)
EXTENDS EventPipe

D(n) == [i \in 1..n |-> "data"]
Chunks == <<"size", "data", "size", "data", "size", "data", "data", "size", "data", "end">>

\* A response of five units that ends when the upstream closes; two buffers of
\* two units behind the one with the header, a temporary file for two units.
Plain == [body |-> D(5), sends |-> 5, ends |-> "close", length |-> -1, head |-> 1, headSize |-> 2,
          size |-> 2, num |-> 2, busy |-> 2, maxTemp |-> 2, writeSize |-> 2, postpone |-> 0,
          keep |-> "no", window |-> 2, breaks |-> FALSE, limitUp |-> FALSE, limitDown |-> FALSE,
          subrequest |-> FALSE, aio |-> FALSE, timeouts |-> FALSE, headerOnly |-> FALSE]

\* The same with a length, on a connection that stays open.
Sized == [Plain EXCEPT !.length = 5, !.ends = "stay"]

\* More than all buffers hold.
Long == [Sized EXCEPT !.body = D(8), !.sends = 8, !.length = 8]

\* Chunks that share buffers of three units.
Chunky == [Plain EXCEPT !.body = Chunks, !.sends = 10, !.ends = "stay", !.size = 3, !.busy = 3,
                        !.maxTemp = 3, !.writeSize = 3]

MCSites == {
    Plain,
    [Plain EXCEPT !.limitUp = TRUE],
    [Plain EXCEPT !.aio = TRUE],
    [Plain EXCEPT !.breaks = TRUE],
    [Plain EXCEPT !.postpone = 2],
    [Plain EXCEPT !.keep = "store"],
    [Plain EXCEPT !.timeouts = TRUE],
    [Sized EXCEPT !.maxTemp = 0],
    [Sized EXCEPT !.limitDown = TRUE],
    [Sized EXCEPT !.subrequest = TRUE],
    [Sized EXCEPT !.keep = "cache"],
    [Sized EXCEPT !.keep = "cache", !.aio = TRUE],
    [Sized EXCEPT !.keep = "cache", !.breaks = TRUE],
    [Sized EXCEPT !.keep = "cache", !.headerOnly = TRUE],
    [Sized EXCEPT !.keep = "store"],
    [Sized EXCEPT !.length = 3],
    [Sized EXCEPT !.length = 0, !.sends = 0],
    [Sized EXCEPT !.sends = 3, !.timeouts = TRUE],
    [Sized EXCEPT !.sends = 3, !.ends = "reset"],
    [Sized EXCEPT !.sends = 3, !.ends = "close", !.keep = "cache"],
    [Long EXCEPT !.maxTemp = 0],
    [Long EXCEPT !.aio = TRUE],
    [Long EXCEPT !.num = 3, !.busy = 4],
    Chunky,
    [Chunky EXCEPT !.keep = "cache"],
    [Chunky EXCEPT !.sends = 6, !.ends = "close"]}
=============================================================================
