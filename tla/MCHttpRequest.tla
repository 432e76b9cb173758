--------------------------- MODULE MCHttpRequest ---------------------------
(* Instances of HttpRequest for TLC. *)
EXTENDS HttpRequest

Site(subs, traits) ==
    [subs |-> subs, unread |-> "unread" \in traits, postAction |-> "postAction" \in traits,
     aio |-> "aio" \in traits, upstream |-> "upstream" \in traits]

\* What may be combined: two subrequests of any shape; one whose parts come
\* from upstreams, from files read asynchronously or with a body discarded; and
\* the same with a post_action.
MCSites == {Site(2, {}), Site(1, {"upstream"}), Site(1, {"aio"}), Site(1, {"unread"}),
            Site(1, {"postAction", "upstream"}), Site(1, {"postAction", "aio"})}
=============================================================================
