----------------------------- MODULE FileCache -----------------------------
(***************************************************************************)
(* The file cache of proxied responses (http/ngx_http_file_cache.c) and    *)
(* the calls that the upstream module makes to it: nodes in a shared zone, *)
(* files on disk, the requests of all workers, the cache manager and the   *)
(* cache loader.                                                           *)
(*                                                                         *)
(* What the code does while it holds the mutex of the zone (module Shmtx)  *)
(* is one step.  Between two such sections other processes run: files are  *)
(* opened, read, renamed and unlinked outside of the mutex.  A process may *)
(* die there, and what it counted in the zone stays.                       *)
(***************************************************************************)
EXTENDS Integers, SequencesExt

CONSTANTS Requests,     \* the requests that workers have at a time
          Manager,      \* the cache manager process
          Loader,       \* the cache loader process
          Nodes,        \* places of nodes in the zone
          Keys,         \* the keys of cached responses
          Pages,        \* the keys that requests have at first
          VariantOf,    \* the secondary key of a page whose response varies
          None,         \* no node, no key
          LockAge,      \* cache_lock_age
          LockTimeout,  \* cache_lock_timeout
          MaxTime,      \* bound: the clock
          Sites         \* what the configuration and the disk may be like

Actors == Requests \cup {Manager, Loader}

ASSUME CacheAssumption ==
    /\ Manager \notin Requests /\ Loader \notin Requests \cup {Manager}
    /\ None \notin Nodes \cup Keys
    /\ IsFiniteSet(Requests)
    /\ Pages \subseteq Keys /\ VariantOf \in [Keys -> Keys]
    /\ LockAge \in Nat \ {0} /\ LockTimeout \in Nat \ {0} /\ MaxTime \in Nat
    /\ Sites \subseteq [begins : Nat,            \* bound: requests begun
                        deaths : Nat,            \* bound: processes that die
                        room : SUBSET Nodes,     \* the nodes the zone has room for
                        minUses : Nat \ {0},     \* cache_min_uses
                        maxSize : Nat,           \* max_size, in files
                        lock : BOOLEAN,          \* cache_lock
                        bypass : BOOLEAN,        \* cache_bypass may apply
                        errors : BOOLEAN,        \* cache_valid has statuses of errors
                        varies : BOOLEAN,        \* responses have the field Vary
                        cold : BOOLEAN,          \* the loader has not run
                        onDisk : SUBSET Keys]    \* files left by an earlier instance

VARIABLES
    site,       \* one of Sites
    key,        \* of each node: its key, or None while the node is free memory
    count,      \* of each node: fcn->count
    node,       \* of each node: its other fields
    queue,      \* sh->queue, the head first
    size,       \* sh->size
    cold,       \* sh->cold
    loading,    \* sh->loading
    file,       \* of each key: its file
    now,        \* ngx_current_msec
    pc,         \* what each actor does next
    want,       \* of each request: c->key; of the loader: the key of the file it adds
    c,          \* of each request: the rest of r->cache
    holds,      \* of each request: c->node, None once c->updated
    victim,     \* of each actor: the node it deletes, with the mutex released
    todo,       \* the keys the loader has not come to
    lost,       \* history, of each node: what dead processes counted
    begun, died \* the bounded numbers

vars == <<site, key, count, node, queue, size, cold, loading, file, now, pc, want, c, holds, victim,
          todo, lost, begun, died>>

treeVars   == <<key, queue>>
loadVars   == <<cold, loading, todo>>
boundVars  == <<site, begun, died, lost>>

NewNode == [uses |-> 1, exists |-> FALSE, updating |-> FALSE, deleting |-> FALSE,
            error |-> FALSE,    \* error # 0
            valid |-> FALSE,    \* valid_sec >= ngx_time()
            lockTime |-> 0, fsSize |-> 0]

NewCache == [main |-> None, secondary |-> FALSE, bypass |-> FALSE, cacheable |-> TRUE,
             scarce |-> FALSE,      \* rv of ngx_http_file_cache_open is NGX_HTTP_CACHE_SCARCE
             opening |-> TRUE,      \* ngx_http_file_cache_exists was called to open
             expired |-> FALSE,     \* the file read was stale
             updating |-> FALSE, lockTime |-> 0, waitTime |-> 0,
             lockTimeout |-> TRUE,  \* lock_timeout # 0
             error |-> FALSE]

NodeRecord  == [uses : Nat, exists : BOOLEAN, updating : BOOLEAN, deleting : BOOLEAN,
                error : BOOLEAN, valid : BOOLEAN, lockTime : Nat, fsSize : Nat]
CacheRecord == [main : Keys \cup {None}, secondary : BOOLEAN, bypass : BOOLEAN, cacheable : BOOLEAN,
                scarce : BOOLEAN, opening : BOOLEAN, expired : BOOLEAN, updating : BOOLEAN,
                lockTime : Nat, waitTime : Nat, lockTimeout : BOOLEAN, error : BOOLEAN]

Init == /\ site \in Sites
        /\ key = [n \in Nodes |-> None] /\ count = [n \in Nodes |-> 0]
        /\ node = [n \in Nodes |-> NewNode] /\ queue = <<>> /\ size = 0
        /\ cold = site.cold /\ loading = FALSE /\ todo = {}
        /\ file = [k \in Keys |-> IF k \in site.onDisk THEN "fresh" ELSE "absent"]
        /\ now = 0
        /\ pc = [a \in Actors |-> "idle"]
        /\ want = [a \in Actors |-> None]
        /\ c = [r \in Requests |-> NewCache]
        /\ holds = [r \in Requests |-> None]
        /\ victim = [a \in Actors |-> None]
        /\ lost = [n \in Nodes |-> 0] /\ begun = 0 /\ died = 0

Go(a, label) == pc' = [pc EXCEPT ![a] = label]
Add(n)   == count' = [count EXCEPT ![n] = @ + 1]
Leave(n) == count' = [count EXCEPT ![n] = @ - 1]

\* ngx_queue_remove
Without(q, n) == RemoveAt(q, CHOOSE i \in DOMAIN q : q[i] = n)

ToHead(n) == queue' = <<n>> \o Without(queue, n)

\* The rbtree and the queue lose the node, and its memory is free.
Forget(n) == /\ key' = [key EXCEPT ![n] = None]
             /\ queue' = Without(queue, n)

Free == {n \in site.room : key[n] = None}
Of(k) == {n \in Nodes : key[n] = k}

----------------------------------------------------------------------------
(* A request looks its node up (ngx_http_file_cache_exists).               *)

Begin(r) ==
    /\ pc[r] = "idle" /\ begun < site.begins
    /\ \E k \in Pages, bypass \in {FALSE, site.bypass} :
           /\ want' = [want EXCEPT ![r] = k]
           /\ c' = [c EXCEPT ![r] = [NewCache EXCEPT !.main = k, !.bypass = bypass]]
           /\ Go(r, IF bypass THEN "fetch" ELSE "exists")
    /\ begun' = begun + 1
    /\ UNCHANGED <<site, died, lost, treeVars, count, node, size, loadVars, file, now, holds, victim>>

\* The error of the node is no longer valid: the node starts anew.
Renewed(n) == node[n].error /\ ~node[n].valid

Uses(r, n) == IF holds[r] = None /\ node[n].uses < site.minUses THEN node[n].uses + 1
              ELSE node[n].uses

Verdict(r, n) ==
    IF node[n].error THEN IF node[n].valid THEN "error" ELSE "declined"
    ELSE IF node[n].exists \/ Uses(r, n) >= site.minUses THEN "ok" ELSE "again"

\* Where ngx_http_file_cache_open goes on: rc says what the node is like.
Opened(r, rc, exists) ==
    IF ~c[r].opening THEN Go(r, "fill") /\ c' = [c EXCEPT ![r].error = (rc = "error")]
    ELSE CASE rc = "error"    -> /\ Go(r, "send")
                                 /\ c' = [c EXCEPT ![r].error = TRUE]
           [] rc = "again"    -> /\ Go(r, "fetch")
                                 /\ c' = [c EXCEPT ![r].cacheable = FALSE]
           [] rc = "ok"       -> /\ Go(r, IF exists THEN "open" ELSE "lock")
                                 /\ c' = [c EXCEPT ![r].scarce = FALSE]
           [] rc = "declined" -> LET scarce == site.minUses > 1
                                 IN  /\ Go(r, IF cold THEN "open"
                                              ELSE IF scarce THEN "fetch" ELSE "lock")
                                     /\ c' = [c EXCEPT ![r].scarce = scarce,
                                                        ![r].cacheable = cold \/ ~scarce]

Found(r) ==
    /\ pc[r] = "exists"
    /\ \E n \in IF holds[r] = None THEN Of(want[r]) ELSE {holds[r]} :
           /\ IF holds[r] = None THEN Add(n) ELSE UNCHANGED count
           /\ holds' = [holds EXCEPT ![r] = n]
           /\ ToHead(n)
           /\ node' = [node EXCEPT ![n].uses = Uses(r, n),
                                   ![n].error = @ /\ ~Renewed(n),
                                   ![n].exists = @ /\ ~Renewed(n),
                                   ![n].fsSize = IF Renewed(n) THEN 0 ELSE @]
           /\ Opened(r, Verdict(r, n), node[n].exists)
    /\ UNCHANGED <<boundVars, want, key, size, loadVars, file, now, victim>>

Create(r) ==
    \E n \in Free :
        /\ key' = [key EXCEPT ![n] = want[r]]
        /\ count' = [count EXCEPT ![n] = 1]
        /\ node' = [node EXCEPT ![n] = NewNode]
        /\ queue' = <<n>> \o queue
        /\ holds' = [holds EXCEPT ![r] = n]
        /\ Opened(r, "declined", FALSE)
        /\ UNCHANGED <<boundVars, want, size, loadVars, file, now, victim>>

NotFound(r) ==
    /\ pc[r] = "exists" /\ holds[r] = None /\ Of(want[r]) = {}
    /\ \/ Create(r)
       \/ /\ Free = {}
          /\ Go(r, "forced")
          /\ UNCHANGED <<boundVars, want, treeVars, count, node, size, loadVars, file, now, c, holds, victim>>

\* After ngx_http_file_cache_forced_expire: once more, or NGX_ERROR.
Allocate(r) ==
    /\ pc[r] = "allocate"
    /\ \/ Create(r)
       \/ /\ Free = {}
          /\ Go(r, "idle") /\ c' = [c EXCEPT ![r] = NewCache]
          /\ UNCHANGED <<boundVars, want, treeVars, count, node, size, loadVars, file, now, holds, victim>>

----------------------------------------------------------------------------
(* The file is opened and read; its node may be waited for.                *)

OpenFile(r) ==
    /\ pc[r] = "open"
    /\ \/ /\ file[want[r]] # "absent"
          /\ Go(r, "read")
          /\ c' = [c EXCEPT ![r].expired = (file[want[r]] = "stale")]
       \/ /\ file[want[r]] = "absent"
          /\ Go(r, IF c[r].scarce THEN "fetch" ELSE "lock")
          /\ c' = [c EXCEPT ![r].cacheable = ~c[r].scarce]
    /\ UNCHANGED <<boundVars, want, treeVars, count, node, size, loadVars, file, now, holds, victim>>

\* The file may be damaged, or belong to another variant of the page.
ReadFile(r) ==
    /\ pc[r] = "read"
    /\ \/ /\ Go(r, IF cold THEN "adopt" ELSE "check")
          /\ UNCHANGED <<count, want, c, holds>>
       \/ /\ Go(r, "fetch")
          /\ c' = [c EXCEPT ![r].expired = FALSE]
          /\ UNCHANGED <<count, want, holds>>
       \/ /\ site.varies /\ ~c[r].secondary   \* ngx_http_file_cache_reopen
          /\ Leave(holds[r])
          /\ holds' = [holds EXCEPT ![r] = None]
          /\ want' = [want EXCEPT ![r] = VariantOf[@]]
          /\ c' = [c EXCEPT ![r].secondary = TRUE, ![r].expired = FALSE]
          /\ Go(r, "exists")
    /\ UNCHANGED <<boundVars, treeVars, node, size, loadVars, file, now, victim>>

Adopt(r) ==
    /\ pc[r] = "adopt"
    /\ LET n == holds[r] IN
           IF node[n].exists THEN UNCHANGED <<node, size>>
           ELSE /\ node' = [node EXCEPT ![n].uses = 1, ![n].exists = TRUE, ![n].fsSize = 1]
                /\ size' = size + 1
    /\ Go(r, "check")
    /\ UNCHANGED <<boundVars, want, treeVars, count, loadVars, file, now, c, holds, victim>>

\* A stale file: one request updates it; the others use it if cache_use_stale
\* has `updating', else they ask the upstream too.
CheckValid(r) ==
    /\ pc[r] = "check"
    /\ LET n == holds[r] IN
           \/ /\ ~c[r].expired \/ node[n].updating
              /\ Go(r, "send")
              /\ UNCHANGED <<node, c>>
           \/ /\ c[r].expired /\ node[n].updating
              /\ Go(r, "fetch")
              /\ UNCHANGED <<node, c>>
           \/ /\ c[r].expired /\ ~node[n].updating
              /\ node' = [node EXCEPT ![n].updating = TRUE]
              /\ c' = [c EXCEPT ![r].updating = TRUE, ![r].lockTime = node[n].lockTime]
              /\ Go(r, "fetch")
    /\ UNCHANGED <<boundVars, want, treeVars, count, size, loadVars, file, now, holds, victim>>

Locked(n) == node[n].updating /\ node[n].lockTime > now

Lock(r) ==
    /\ pc[r] = "lock"
    /\ site.lock => /\ now + LockAge <= MaxTime
                     /\ now + LockTimeout <= MaxTime
    /\ LET n == holds[r] IN
           \/ /\ ~site.lock
              /\ Go(r, "fetch")
              /\ UNCHANGED <<node, c>>
           \/ /\ site.lock /\ ~Locked(n)
              /\ node' = [node EXCEPT ![n].updating = TRUE, ![n].lockTime = now + LockAge]
              /\ c' = [c EXCEPT ![r].updating = TRUE, ![r].lockTime = now + LockAge]
              /\ Go(r, "fetch")
           \/ /\ site.lock /\ Locked(n) /\ ~c[r].lockTimeout
              /\ c' = [c EXCEPT ![r].cacheable = FALSE]
              /\ Go(r, "fetch")
              /\ UNCHANGED node
           \/ /\ site.lock /\ Locked(n) /\ c[r].lockTimeout
              /\ c' = [c EXCEPT ![r].waitTime = IF c[r].waitTime = 0 THEN now + LockTimeout ELSE @]
              /\ Go(r, "wait")
              /\ UNCHANGED node
    /\ UNCHANGED <<boundVars, want, treeVars, count, size, loadVars, file, now, holds, victim>>

\* Mutant: only the flag counts, for however long it is set.
KeepsWaitingFlag(r) == node[holds[r]].updating

\* The timer of a waiting request (ngx_http_file_cache_lock_wait).
KeepsWaiting(r) == now < c[r].waitTime /\ Locked(holds[r])

Wake(r) ==
    /\ pc[r] = "wait" /\ ~KeepsWaiting(r)
    /\ c' = [c EXCEPT ![r].lockTimeout = now < c[r].waitTime]
    /\ Go(r, "exists")
    /\ UNCHANGED <<boundVars, want, treeVars, count, node, size, loadVars, file, now, holds, victim>>

----------------------------------------------------------------------------
(* What the upstream module does with the response, and how a request      *)
(* gives its node back.                                                    *)

\* Mutant: the request that gives up leaves the node marked.
GivenMarked(r, error, valid) ==
    [node[holds[r]] EXCEPT !.error = @ \/ error, !.valid = IF error /\ valid THEN TRUE ELSE @]

\* ngx_http_file_cache_free: what becomes of the node, and whether it is forgotten.
\* Another request may have taken the update over; then the lock is its.
Given(r, error, valid) ==
    LET n == holds[r] IN
    [node[n] EXCEPT !.updating = @ /\ ~(c[r].updating /\ node[n].lockTime = c[r].lockTime),
                    !.error = @ \/ error,
                    !.valid = IF error /\ valid THEN TRUE ELSE @]

\* Mutant: the other users are forgotten.
UselessToMe(n, error) == ~error /\ ~node[n].exists /\ site.minUses = 1

Useless(n, error) == ~error /\ ~node[n].exists /\ count[n] = 1 /\ site.minUses = 1

Release(r, error, valid) ==
    /\ IF holds[r] = None THEN UNCHANGED <<treeVars, count, node>>
       ELSE LET n == holds[r] IN
            /\ Leave(n)
            /\ node' = [node EXCEPT ![n] = Given(r, error, valid)]
            /\ IF Useless(n, error) THEN Forget(n) ELSE UNCHANGED treeVars
    /\ holds' = [holds EXCEPT ![r] = None]
    /\ want' = [want EXCEPT ![r] = None]
    /\ c' = [c EXCEPT ![r] = NewCache]
    /\ Go(r, "idle")

\* A response from the cache was sent (the error is that of the node), or the
\* upstream's is not to be cached, or it is an error of its own.
Served(r) ==
    /\ pc[r] = "send"
    /\ Release(r, c[r].error, FALSE)
    /\ UNCHANGED <<boundVars, size, loadVars, file, now, victim>>

NotCached(r) ==
    /\ pc[r] = "fetch"
    /\ Release(r, FALSE, FALSE) \/ (site.errors /\ Release(r, TRUE, TRUE))
    /\ UNCHANGED <<boundVars, size, loadVars, file, now, victim>>

\* 304: the header of the file is written again (ngx_http_file_cache_update_header)
\* if the file is there and the same.
Revalidated(r) ==
    /\ pc[r] = "fetch" /\ c[r].expired
    /\ Release(r, FALSE, FALSE)
    /\ \/ file[want[r]] # "absent" /\ file' = [file EXCEPT ![want[r]] = "fresh"]
       \/ UNCHANGED file
    /\ UNCHANGED <<boundVars, size, loadVars, now, victim>>

\* The response is cached: a request that bypassed the cache needs a node now
\* (ngx_http_file_cache_create); one under a secondary key keeps its node only if
\* the response varies the same way (ngx_http_file_cache_update_variant).
Cached(r) ==
    /\ pc[r] = "fetch" /\ c[r].cacheable
    /\ \/ /\ ~c[r].bypass
          /\ Go(r, "fill")
          /\ UNCHANGED <<count, node, want, c, holds>>
       \/ /\ c[r].bypass
          /\ c' = [c EXCEPT ![r].opening = FALSE]
          /\ Go(r, "exists")
          /\ UNCHANGED <<count, node, want, holds>>
       \/ /\ c[r].secondary
          /\ Leave(holds[r])
          /\ node' = [node EXCEPT ![holds[r]].updating = FALSE]
          /\ holds' = [holds EXCEPT ![r] = None]
          /\ want' = [want EXCEPT ![r] = c[r].main]
          /\ c' = [c EXCEPT ![r].opening = FALSE]
          /\ Go(r, "exists")
    /\ UNCHANGED <<boundVars, treeVars, size, loadVars, file, now, victim>>

Broken(r) ==
    /\ pc[r] = "fill"
    /\ Release(r, c[r].error, TRUE)
    /\ UNCHANGED <<boundVars, size, loadVars, file, now, victim>>

\* ngx_http_file_cache_update: the temporary file becomes the file of the cache,
\* then the node says so.  The renaming may fail, or the call that asks for the
\* size of the renamed file.
Rename(r) ==
    /\ pc[r] = "fill"
    /\ \/ /\ file' = [file EXCEPT ![want[r]] = "fresh"]
          /\ Go(r, "update")
       \/ /\ file' \in {file, [file EXCEPT ![want[r]] = "fresh"]}
          /\ Go(r, "failed")
    /\ UNCHANGED <<boundVars, want, treeVars, count, node, size, loadVars, now, c, holds, victim>>

Update(r) ==
    /\ pc[r] \in {"update", "failed"}
    /\ LET n == holds[r]
           fsSize == IF pc[r] = "update" THEN 1 ELSE 0
       IN  /\ Leave(n)
           /\ size' = size + fsSize - node[n].fsSize
           /\ node' = [node EXCEPT ![n].exists = pc[r] = "update" \/ @, ![n].fsSize = fsSize,
                                   ![n].updating = FALSE]
    /\ holds' = [holds EXCEPT ![r] = None]
    /\ want' = [want EXCEPT ![r] = None]
    /\ c' = [c EXCEPT ![r] = NewCache]
    /\ Go(r, "idle")
    /\ UNCHANGED <<boundVars, treeVars, loadVars, file, now, victim>>

----------------------------------------------------------------------------
(* Nodes are deleted by the manager, and by requests that find no room.    *)

\* Mutant: the node is not counted while its file is unlinked.
DeleteUncounted(a, n) ==
    IF node[n].exists
    THEN /\ size' = size - node[n].fsSize
         /\ node' = [node EXCEPT ![n].deleting = TRUE]
         /\ victim' = [victim EXCEPT ![a] = n]
         /\ UNCHANGED <<treeVars, count>>
    ELSE /\ Forget(n)
         /\ UNCHANGED <<count, node, size, victim>>

\* ngx_http_file_cache_delete, up to the release of the mutex for the unlink
Delete(a, n) ==
    IF node[n].exists
    THEN /\ size' = size - node[n].fsSize
         /\ Add(n)
         /\ node' = [node EXCEPT ![n].deleting = TRUE]
         /\ victim' = [victim EXCEPT ![a] = n]
         /\ UNCHANGED treeVars
    ELSE /\ Forget(n)
         /\ UNCHANGED <<count, node, size, victim>>

Unlink(a) ==
    /\ pc[a] = "unlink"
    /\ file' = [file EXCEPT ![key[victim[a]]] = "absent"]
    /\ Go(a, "unlinked")
    /\ UNCHANGED <<boundVars, want, treeVars, count, node, size, loadVars, now, c, holds, victim>>

Deleted(a, next) ==
    /\ pc[a] = "unlinked"
    /\ LET n == victim[a] IN
           /\ Leave(n)
           /\ node' = [node EXCEPT ![n].deleting = FALSE]
           /\ IF count[n] = 1 THEN Forget(n) ELSE UNCHANGED treeVars
    /\ victim' = [victim EXCEPT ![a] = None]
    /\ Go(a, next)
    /\ UNCHANGED <<boundVars, want, size, loadVars, file, now, c, holds>>

Unused == {n \in Nodes : key[n] # None /\ count[n] = 0}
LastUnused == queue[CHOOSE i \in DOMAIN queue :
                        /\ queue[i] \in Unused
                        /\ \A j \in DOMAIN queue : queue[j] \in Unused => j <= i]

\* ngx_http_file_cache_forced_expire (it gives up after 20 nodes in use)
ForcedExpire(a, next, none) ==
    /\ pc[a] = "forced"
    /\ \/ /\ Unused = {}
          /\ Go(a, none)
          /\ UNCHANGED <<treeVars, count, node, size, victim>>
       \/ /\ Unused # {}
          /\ Delete(a, LastUnused)
          /\ Go(a, IF node[LastUnused].exists THEN "unlink" ELSE next)
    /\ UNCHANGED <<boundVars, want, loadVars, file, now, c, holds>>

MakeRoom(r) == \/ ForcedExpire(r, "allocate", "allocate")
               \/ Unlink(r)
               \/ Deleted(r, "allocate")

\* ngx_http_file_cache_expire: the manager looks at the tail of the queue, as
\* long as it is older than `inactive'.
Expire ==
    /\ pc[Manager] = "idle"
    /\ queue # <<>>
    /\ LET n == Last(queue) IN
           \/ /\ count[n] = 0
              /\ Delete(Manager, n)
              /\ Go(Manager, IF node[n].exists THEN "unlink" ELSE "idle")
           \/ /\ count[n] > 0 /\ ~node[n].deleting
              /\ ToHead(n)
              /\ UNCHANGED <<key, count, node, size, victim, pc>>
    /\ UNCHANGED <<boundVars, want, loadVars, file, now, c, holds>>

\* ngx_http_file_cache_manager: then the size is looked at.
Oversize ==
    /\ pc[Manager] = "idle"
    /\ size >= site.maxSize
    /\ Go(Manager, "forced")
    /\ UNCHANGED <<boundVars, want, treeVars, count, node, size, loadVars, file, now, c, holds, victim>>

Manage == \/ Expire \/ Oversize
          \/ ForcedExpire(Manager, "idle", "idle")
          \/ Unlink(Manager)
          \/ Deleted(Manager, "idle")

----------------------------------------------------------------------------
(* The loader enters the files of an earlier instance into the zone.       *)

LoaderStarts ==
    /\ pc[Loader] = "idle" /\ cold /\ ~loading
    /\ loading' = TRUE
    /\ todo' = Keys
    /\ Go(Loader, "walk")
    /\ UNCHANGED <<boundVars, want, treeVars, count, node, size, cold, file, now, c, holds, victim>>

\* ngx_walk_tree comes to the file of a key
LoaderFinds(k) ==
    /\ pc[Loader] = "walk" /\ k \in todo
    /\ todo' = todo \ {k}
    /\ IF file[k] = "absent" THEN UNCHANGED <<pc, want>>
       ELSE Go(Loader, "add") /\ want' = [want EXCEPT ![Loader] = k]
    /\ UNCHANGED <<boundVars, treeVars, count, node, size, cold, loading, file, now, c, holds, victim>>

\* ngx_http_file_cache_add: a file that finds no room in the zone is deleted.
LoaderAdds ==
    /\ pc[Loader] = "add"
    /\ LET k == want[Loader] IN
           \/ \E n \in Of(k) :
                  /\ ToHead(n)
                  /\ UNCHANGED <<key, node, size, file>>
           \/ /\ Of(k) = {}
              /\ \E n \in Free :
                     /\ key' = [key EXCEPT ![n] = k]
                     /\ node' = [node EXCEPT ![n] = [NewNode EXCEPT !.exists = TRUE, !.fsSize = 1]]
                     /\ queue' = <<n>> \o queue
              /\ size' = size + 1
              /\ UNCHANGED file
           \/ /\ Of(k) = {} /\ Free = {}
              /\ file' = [file EXCEPT ![k] = "absent"]
              /\ UNCHANGED <<treeVars, node, size>>
    /\ want' = [want EXCEPT ![Loader] = None]
    /\ Go(Loader, "walk")
    /\ UNCHANGED <<boundVars, count, loadVars, now, c, holds, victim>>

\* All files are entered, or the loader is told to quit.
LoaderEnds ==
    /\ pc[Loader] = "walk"
    /\ todo' = {}
    /\ cold' \in {todo # {}, TRUE}
    /\ loading' = FALSE
    /\ Go(Loader, "idle")
    /\ UNCHANGED <<boundVars, want, treeVars, count, node, size, file, now, c, holds, victim>>

Load == \/ LoaderStarts \/ (\E k \in Keys : LoaderFinds(k)) \/ LoaderAdds \/ LoaderEnds

----------------------------------------------------------------------------
(* A process dies between two sections under the mutex; time passes.       *)

Counted(a, n) == (IF a \in Requests /\ holds[a] = n THEN 1 ELSE 0) + (IF victim[a] = n THEN 1 ELSE 0)

Die(a) ==
    /\ pc[a] # "idle" /\ died < site.deaths
    /\ lost' = [n \in Nodes |-> lost[n] + Counted(a, n)]
    /\ holds' = [r \in Requests |-> IF r = a THEN None ELSE holds[r]]
    /\ victim' = [victim EXCEPT ![a] = None]
    /\ want' = [want EXCEPT ![a] = None]
    /\ c' = [r \in Requests |-> IF r = a THEN NewCache ELSE c[r]]
    /\ todo' = IF a = Loader THEN {} ELSE todo
    /\ Go(a, "idle")
    /\ died' = died + 1
    /\ UNCHANGED <<site, begun, treeVars, count, node, size, cold, loading, file, now>>

\* Only the lock looks at the clock.
Tick ==
    /\ site.lock /\ now < MaxTime
    /\ now' = now + 1
    /\ UNCHANGED <<boundVars, want, treeVars, count, node, size, loadVars, file, pc, c, holds, victim>>

FileExpires(k) ==
    /\ file[k] = "fresh"
    /\ file' = [file EXCEPT ![k] = "stale"]
    /\ UNCHANGED <<boundVars, want, treeVars, count, node, size, loadVars, now, pc, c, holds, victim>>

ErrorExpires(n) ==
    /\ node[n].valid
    /\ node' = [node EXCEPT ![n].valid = FALSE]
    /\ UNCHANGED <<boundVars, want, treeVars, count, size, loadVars, file, now, pc, c, holds, victim>>

Time == \/ Tick
        \/ \E k \in Keys : FileExpires(k)
        \/ \E n \in Nodes : ErrorExpires(n)

----------------------------------------------------------------------------

Proceed(r) ==
    \/ Begin(r) \/ Found(r) \/ NotFound(r) \/ Allocate(r) \/ MakeRoom(r)
    \/ OpenFile(r) \/ ReadFile(r) \/ Adopt(r) \/ CheckValid(r) \/ Lock(r) \/ Wake(r)
    \/ Served(r) \/ NotCached(r) \/ Revalidated(r) \/ Cached(r) \/ Broken(r)
    \/ Rename(r) \/ Update(r)

Next == \/ \E r \in Requests : Proceed(r)
        \/ Manage \/ Load
        \/ \E a \in Actors : Die(a)
        \/ Time

Fairness == WF_vars(Tick) /\ \A r \in Requests : WF_vars(Wake(r))

Spec == Init /\ [][Next]_vars /\ Fairness

----------------------------------------------------------------------------

Labels == {"idle", "exists", "forced", "unlink", "unlinked", "allocate", "open", "read", "adopt",
           "check", "lock", "wait", "fetch", "fill", "update", "failed", "send", "walk",
           "add"}

\* Every variable has its type; in particular no count goes below zero.
TypeOK ==
    /\ site \in Sites
    /\ key \in [Nodes -> Keys \cup {None}]
    /\ count \in [Nodes -> Nat] /\ node \in [Nodes -> NodeRecord]
    /\ queue \in Seq(Nodes)
    /\ size \in Int /\ cold \in BOOLEAN /\ loading \in BOOLEAN
    /\ file \in [Keys -> {"absent", "fresh", "stale"}]
    /\ now \in 0 .. MaxTime
    /\ pc \in [Actors -> Labels]
    /\ want \in [Actors -> Keys \cup {None}] /\ c \in [Requests -> CacheRecord]
    /\ holds \in [Requests -> Nodes \cup {None}]
    /\ victim \in [Actors -> Nodes \cup {None}]
    /\ todo \subseteq Keys /\ lost \in [Nodes -> Nat]
    /\ begun \in 0 .. site.begins /\ died \in 0 .. site.deaths

\* The queue of inactive nodes and the tree have the same nodes, each once,
\* whoever moves, deletes or enters them.
QueueExact == /\ ToSet(queue) = {n \in Nodes : key[n] # None}
              /\ IsInjective(queue)

Holders(n)  == {r \in Requests : holds[r] = n}
Deleters(n) == {a \in Actors : victim[a] = n}

\* The count of a node is that of its users: the requests that have it, the one
\* that deletes its file, and those that died with it.
CountExact == \A n \in Nodes :
    key[n] # None => count[n] = Cardinality(Holders(n)) + Cardinality(Deleters(n)) + lost[n]

\* A request's node is in the zone, under the key the request asks for, until the
\* request gives it back; so is a node whose file is being unlinked.  Nobody works
\* on memory that was freed, or was given to another key since.
NodeKept == /\ \A r \in Requests : holds[r] # None => key[holds[r]] = want[r]
            /\ \A a \in Actors : victim[a] # None => key[victim[a]] # None

\* A node marked as being updated has a request that updates it, unless one of its
\* users died: whoever gives up, is overtaken or changes to another node takes the
\* mark away, or its successor has it.
UpdatingByOne == \A n \in Nodes :
    key[n] # None /\ node[n].updating /\ lost[n] = 0
        => \E r \in Requests : holds[r] = n /\ c[r].updating

\* A request that waits for another's update goes on, whether that one ends, fails,
\* takes too long or died.
WaitEnds == \A r \in Requests : pc[r] = "wait" ~> pc[r] # "wait"
============================================================================
