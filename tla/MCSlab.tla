------------------------------- MODULE MCSlab -------------------------------
(* Pages of 16 bytes and words of 4 bits: chunks of 2 bytes with a map of    *)
(* two words in their page, of 4 with a map of one word, and of 8.           *)
EXTENDS Slab

Site(pages, sizes, most) == [pages |-> pages, sizes |-> sizes, most |-> most]

MCSites == {Site(2, {1, 16}, 14),          \* full pages of small chunks
            Site(3, {2, 3, 8}, 6),         \* all kinds of chunks
            Site(3, {4, 20}, 8),
            Site(5, {8, 16, 32}, 8),
            Site(7, {16, 32, 48}, 7)}      \* runs of pages
=============================================================================
