----------------------------- MODULE Allocator -----------------------------
(* What an allocator of memory promises: the blocks it hands out lie in its *)
(* pool and share no byte, neither with each other nor with what it keeps   *)
(* for its own records, and a block stays until it is given back.           *)
EXTENDS Naturals

VARIABLES bytes,    \* the pool's addresses are 0 .. bytes - 1
          blocks,   \* what the callers hold: [at, size]
          own       \* the regions of the pool the allocator writes itself

vars == <<bytes, blocks, own>>

Addresses(b) == b.at .. b.at + b.size - 1

Apart(b, c) == Addresses(b) \cap Addresses(c) = {}

Init == bytes \in Nat /\ blocks = {} /\ own = {}

\* A new block, for which the allocator may set aside memory of its own.
Alloc == /\ \E b \in blocks' :
               /\ blocks = blocks' \ {b}
               /\ Addresses(b) \subseteq 0 .. bytes - 1
               /\ \A c \in blocks \cup own' : Apart(b, c)
         /\ \A b \in blocks, c \in own' : Apart(b, c)
         /\ UNCHANGED bytes

Free == /\ \E b \in blocks : blocks' = blocks \ {b}
        /\ own' \subseteq own
        /\ UNCHANGED bytes

Next == Alloc \/ Free

Spec == Init /\ [][Next]_vars
=============================================================================
