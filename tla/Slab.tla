-------------------------------- MODULE Slab --------------------------------
(***************************************************************************)
(* The allocator of a shared memory zone (ngx_slab.c): runs of pages kept  *)
(* in one list and joined with their neighbours when they are freed, and   *)
(* pages cut into chunks of one size, listed per size while they have room.*)
(* A call runs under the zone's mutex and is one step here.  Pages are     *)
(* numbered from 0; the heads of the lists are numbers below them.  The    *)
(* map of a page is the set of its taken chunks, wherever it is kept.      *)
(***************************************************************************)
EXTENDS Integers, FiniteSets

CONSTANTS PageShift,    \* ngx_pagesize_shift
          WordBits,     \* bits of a uintptr_t, a power of 2
          IntBits,      \* bits of an int
          MinShift,     \* min_shift of the pool
          Sites         \* [pages, sizes asked for, most blocks held at once]

\* NGX_SLAB_SHIFT_MASK holds the shift of a chunk up to 15.
ASSUME ShiftAssumption == /\ PageShift \in 0 .. 16 /\ MinShift \in 0 .. PageShift - 2
                          /\ WordBits \in {2 ^ w : w \in 1 .. PageShift}
                          /\ IntBits \in 3 .. WordBits

ASSUME SitesAssumption ==
    \A s \in Sites : s.pages \in Nat \ {0} /\ s.sizes \subseteq Nat \ {0} /\ s.most \in Nat

VARIABLES site,
          node,     \* ngx_slab_page_t of every page and list head
          blocks    \* what the callers hold: [at, size]

vars == <<site, node, blocks>>

Null == -1
FreeHead == -2
SlotHead(slot) == -3 - slot

PageSize == 2 ^ PageShift
MaxSize == PageSize \div 2
ExactSize == PageSize \div WordBits
ExactShift == CHOOSE s \in 0 .. PageShift : 2 ^ s = ExactSize

\* Values of `slab' on a page that is neither cut nor the first of a free run.
PageFree == 0
PageBusy == -1
PageStart == 2 ^ 20

Pages == 0 .. site.pages - 1

Slots == 0 .. PageShift - MinShift - 1

----------------------------------------------------------------------------
(* Pages *)

Blank == [slab |-> 0, next |-> Null, prev |-> Null, type |-> "page", taken |-> {}]

Linked(to) == [Blank EXCEPT !.next = to, !.prev = to]

Init == /\ site \in Sites
        /\ blocks = {}
        /\ node = [i \in Pages \cup {FreeHead} \cup {SlotHead(s) : s \in Slots} |->
                      IF i = FreeHead THEN [Blank EXCEPT !.next = 0]
                      ELSE IF i = 0 THEN [Linked(FreeHead) EXCEPT !.slab = site.pages]
                      ELSE IF i < 0 THEN [Blank EXCEPT !.next = i]
                      ELSE Blank]

Unlinked(nd, p) == [nd EXCEPT ![nd[p].prev].next = nd[p].next, ![nd[p].next].prev = nd[p].prev]

\* Where the free runs begin: pages of no type that are in a list.
FreeRuns(nd) == {p \in Pages : nd[p].type = "page" /\ nd[p].next # Null}

\* The first run of the free list that is long enough, Null if none is.
FirstFit(nd, pages) ==
    LET from[p \in FreeRuns(nd) \cup {FreeHead}] == IF p = FreeHead THEN Null
                                                  ELSE IF nd[p].slab >= pages THEN p
                                                  ELSE from[nd[p].next]
    IN from[nd[FreeHead].next]

\* Cuts the run at p after `pages' pages; the rest takes its place in the list,
\* and its last page leads back to its new first one.
Split(nd, p, pages) ==
    LET rest == p + pages
        tagged == [nd EXCEPT ![p + nd[p].slab - 1].prev = rest]
    IN [tagged EXCEPT ![rest].slab = nd[p].slab - pages, ![rest].next = nd[p].next,
            ![rest].prev = nd[p].prev, ![nd[p].prev].next = rest, ![nd[p].next].prev = rest]

AllocPages(nd, p, pages) ==
    LET cut == IF nd[p].slab > pages THEN Split(nd, p, pages) ELSE Unlinked(nd, p)
    IN [i \in DOMAIN nd |-> IF i = p THEN [Blank EXCEPT !.slab = PageStart + pages]
                            ELSE IF i \in p + 1 .. p + pages - 1 THEN [Blank EXCEPT !.slab = PageBusy]
                            ELSE cut[i]]

\* The run at p becomes part of the one before it: no longer in a list.
Swallowed == [Blank EXCEPT !.slab = PageFree]

\* Joins the free run that begins right behind the one at p.
JoinNext(nd, p) ==
    LET join == p + nd[p].slab
    IN IF join \in FreeRuns(nd)
       THEN [Unlinked(nd, join) EXCEPT ![p].slab = nd[p].slab + nd[join].slab, ![join] = Swallowed]
       ELSE nd

\* The first page of the free run that ends right before p, Null if there is none.
\* Mutant: only a run of one page is seen.
RunBeforeAlone(nd, p) ==
    LET last == p - 1
    IN IF p > 0 /\ nd[last].type = "page" /\ nd[last].next # Null THEN last ELSE Null

RunBefore(nd, p) ==
    LET last == p - 1
        join == IF nd[last].slab = PageFree THEN nd[last].prev ELSE last
    IN IF p > 0 /\ nd[last].type = "page" /\ nd[join].next # Null THEN join ELSE Null

\* The last page of a run leads to its first one.
Tagged(nd, run) ==
    LET last == run + nd[run].slab - 1
    IN IF last # run THEN [nd EXCEPT ![last].prev = run] ELSE nd

FreePages(nd, p, pages) ==
    LET cleared == [i \in DOMAIN nd |-> IF i = p THEN [nd[p] EXCEPT !.slab = pages]
                                        ELSE IF i \in p + 1 .. p + pages - 1 THEN Blank
                                        ELSE nd[i]]
        joined == JoinNext(IF nd[p].next # Null THEN Unlinked(cleared, p) ELSE cleared, p)
        before == RunBefore(joined, p)
        run == IF before # Null THEN before ELSE p
        whole == IF before # Null
                 THEN [Unlinked(joined, before) EXCEPT
                           ![before].slab = joined[before].slab + joined[p].slab, ![p] = Swallowed]
                 ELSE joined
        first == whole[FreeHead].next
    IN [Tagged(whole, run) EXCEPT
            ![run] = [Blank EXCEPT !.slab = whole[run].slab, !.next = first, !.prev = FreeHead],
            ![first].prev = run, ![FreeHead].next = run]

----------------------------------------------------------------------------
(* Chunks *)

\* The shift of the chunks a request is served from.
Shift(size) == CHOOSE s \in MinShift .. PageShift :
                  2 ^ s >= size /\ \A t \in MinShift .. s - 1 : 2 ^ t < size

Chunks(shift) == 0 .. 2 ^ (PageShift - shift) - 1

Type(shift) == IF shift < ExactShift THEN "small" ELSE IF shift = ExactShift THEN "exact" ELSE "big"

\* The first chunks of a page of small ones hold its map, one bit per chunk.
\* Mutant: a map smaller than one chunk gets none.
HeaderRounded(shift) ==
    LET n == (2 ^ (PageShift - shift) \div 8) \div 2 ^ shift
    IN IF shift < ExactShift THEN 0 .. n - 1 ELSE {}

Header(shift) ==
    LET n == (2 ^ (PageShift - shift) \div 8) \div 2 ^ shift
    IN IF shift < ExactShift THEN 0 .. (IF n = 0 THEN 1 ELSE n) - 1 ELSE {}

\* The map of a page that is cut, `(2 << n) - 1': an int in the first word, which
\* has bits for the chunks 0 to n as long as n is small enough.
Marks(n) == {i \in 0 .. IntBits - 2 : i <= n}

\* It is with pages of 4K and 8K, chunks of 8 bytes and ints of 32 bits, and no
\* longer with pages of 16K: there the shift is undefined and the map longer
\* than a word.
ASSUME MapAssumption ==
    \A shift \in MinShift .. PageShift - 1 : Cardinality(Header(shift)) <= IntBits - 3

Block(p, chunk, shift, size) == [at |-> p * PageSize + chunk * 2 ^ shift, size |-> size]

Least(S) == CHOOSE i \in S : \A j \in S : i <= j

\* Takes the first free chunk of a listed page, which leaves the list once full.
TakeChunk(size, shift, p) ==
    LET chunk == Least(Chunks(shift) \ node[p].taken)
        taken == node[p].taken \cup {chunk}
        out == [Unlinked(node, p) EXCEPT ![p].next = Null, ![p].prev = Null]
    IN /\ node' = [IF taken = Chunks(shift) THEN out ELSE node EXCEPT ![p].taken = taken]
       /\ blocks' = blocks \cup {Block(p, chunk, shift, size)}

\* Cuts a page and takes the first chunk behind its map.
NewChunk(size, shift, p) ==
    LET head == SlotHead(shift - MinShift)
        chunk == Cardinality(Header(shift))
        nd == AllocPages(node, p, 1)
    IN /\ node' = [nd EXCEPT ![head].next = p,
                             ![p] = [Linked(head) EXCEPT !.slab = shift, !.type = Type(shift),
                                                         !.taken = Marks(chunk)]]
       /\ blocks' = blocks \cup {Block(p, chunk, shift, size)}

PagesFor(size) == size \div PageSize + (IF size % PageSize # 0 THEN 1 ELSE 0)

\* Whether a request can be served now, as ngx_slab_alloc_locked decides it.
Served(size) ==
    IF size > MaxSize THEN FirstFit(node, PagesFor(size)) # Null
    ELSE LET head == SlotHead(Shift(size) - MinShift)
         IN node[head].next # head \/ FirstFit(node, 1) # Null

\* ngx_slab_alloc_locked.  A request that is not served changes nothing.
Alloc(size) ==
    /\ Cardinality(blocks) < site.most
    /\ Served(size)
    /\ UNCHANGED site
    /\ IF size > MaxSize
       THEN LET p == FirstFit(node, PagesFor(size))
            IN /\ node' = AllocPages(node, p, PagesFor(size))
               /\ blocks' = blocks \cup {Block(p, 0, 0, size)}
       ELSE LET shift == Shift(size)
                head == SlotHead(shift - MinShift)
                listed == node[head].next
            IN IF listed # head THEN TakeChunk(size, shift, listed)
               ELSE NewChunk(size, shift, FirstFit(node, 1))

\* A full page comes back to the head of its list.
Relisted(nd, p, head) ==
    LET first == nd[head].next
    IN [nd EXCEPT ![p].next = first, ![p].prev = head, ![first].prev = p, ![head].next = p]

\* Gives a chunk back, and with the last one its page.
GiveChunk(p, at) ==
    LET shift == IF node[p].type = "exact" THEN ExactShift ELSE node[p].slab
        head == SlotHead(shift - MinShift)
        listed == IF node[p].next = Null THEN Relisted(node, p, head) ELSE node
        taken == node[p].taken \ {(at % PageSize) \div 2 ^ shift}
        nd == [listed EXCEPT ![p].taken = taken]
    IN node' = IF taken \ Header(shift) # {} THEN nd ELSE FreePages(nd, p, 1)

\* ngx_slab_free_locked of a block some caller holds.
Free(b) ==
    LET p == b.at \div PageSize
    IN /\ IF node[p].type = "page"
          THEN node' = FreePages(node, p, node[p].slab - PageStart)
          ELSE GiveChunk(p, b.at)
       /\ blocks' = blocks \ {b}
       /\ UNCHANGED site

Next == \/ \E size \in site.sizes : Alloc(size)
        \/ \E b \in blocks : Free(b)

Spec == Init /\ [][Next]_vars

----------------------------------------------------------------------------
(* Properties *)

\* Blocks never share a byte with each other or with the maps inside the
\* pages of small chunks, however pages change from chunks to runs and back.
Maps == {[at |-> p * PageSize, size |-> 2 ^ (PageShift - node[p].slab) \div 8] :
             p \in {q \in Pages : node[q].type = "small"}}

Memory == INSTANCE Allocator WITH bytes <- site.pages * PageSize, own <- Maps

ImplementsAllocator == Memory!Spec

\* Nothing is lost: what the blocks alone leave room for is served.  Pages are
\* found again whatever order they were freed in, joined over both neighbours,
\* and a page of chunks serves its size as long as one of them is free.  The
\* comments at ngx_slab.c:863 and :878 expect a request to fail although freed
\* pages in a row have the room, and the one at :968 that pages are never joined.
Touched(p) == {b \in blocks : b.at < (p + 1) * PageSize /\ b.at + b.size > p * PageSize}

Untouched(pages) == \E p \in Pages : /\ p + pages <= site.pages
                                     /\ \A q \in p .. p + pages - 1 : Touched(q) = {}

Capacity(shift) == Cardinality(Chunks(shift) \ Header(shift))

HasChunk(shift) == \E p \in Pages : /\ Cardinality(Touched(p)) \in 1 .. Capacity(shift) - 1
                                    /\ \A b \in Touched(p) : b.size <= MaxSize /\ Shift(b.size) = shift

RoomKept == \A size \in site.sizes :
               (IF size > MaxSize THEN Untouched(PagesFor(size))
                ELSE Untouched(1) \/ HasChunk(Shift(size))) => Served(size)
=============================================================================
