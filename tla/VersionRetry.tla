---------------------------- MODULE VersionRetry ----------------------------
(***************************************************************************)
(* The order-version cache of ClobClient and the retry built on it:        *)
(* ResolveOrderVersion, PostOrderV2Ctx / PostOrdersV2 (which refresh the   *)
(* cache when the server answers order_version_mismatch) and               *)
(* retryOnVersionUpdate (which POSTs again when the cache changed under    *)
(* it).  Callers are goroutines that share one client.                     *)
(*                                                                         *)
(* The exchange server is external: a fleet of nodes, each running one     *)
(* order version, that a deployment moves from one version to another.     *)
(* Every order CreateOrderV2 signs is a V2 order, so a node that runs      *)
(* another version rejects it.                                             *)
(***************************************************************************)
EXTENDS Naturals, Sequences

CONSTANTS
    Callers,      \* goroutines sharing the client
    Versions,     \* order versions a node may run
    V2,           \* OrderVersionV2: what is signed, and GetVersion's default
    NoVersion,    \* the nil cachedVersion of a new client
    InitCaches,   \* possible cache contents when the callers start
    Injected,     \* versions SetCachedOrderVersion may be called with
    MaxFlips      \* bound: deployments during a behaviour

ASSUME VersionAssumption ==
    /\ V2 \in Versions
    /\ NoVersion \notin Versions
    /\ InitCaches \subseteq Versions \cup {NoVersion}
    /\ Injected \subseteq Versions
    /\ MaxFlips \in Nat

VARIABLES
    fleet,     \* versions run by the server's nodes (external)
    flips,     \* deployments so far
    cache,     \* c.cachedVersion
    pc,        \* where each caller is
    kind,      \* "retry": CreateAndPost...V2, "plain": PostOrder(s)V2
    version,   \* retryOnVersionUpdate's local version
    fetched,   \* ResolveOrderVersion's local v, between GetVersion and Lock
    attempt,   \* completed calls of fn (the loop variable i)
    out,       \* lastResult / lastErr of the operation
    posts,     \* the POSTs of the operation that reached the server
    quiet,     \* history: the cache was resolved from the start, nobody set it
               \* by hand and no order was rejected for its version
    foreign    \* history: somebody else wrote the cache during the operation

vars == <<fleet, flips, cache, pc, kind, version, fetched, attempt, out,
          posts, quiet, foreign>>

Kinds == {"retry", "plain"}
Labels == {"idle", "resolve", "fetch", "store", "post", "refetch", "restore",
           "compare", "adopt", "done"}

\* accepted: placed and answered.   lost: placed, the answer never came.
\* mismatch: rejected for its version.   refused: rejected otherwise.
\* failed: nothing was sent (creation, auth, connection, context).
Placed == {"accepted", "lost"}
Outcomes == Placed \cup {"mismatch", "refused", "failed"}

TypeOK ==
    /\ fleet \subseteq Versions /\ fleet # {}
    /\ flips \in 0..MaxFlips
    /\ cache \in Versions \cup {NoVersion}
    /\ pc \in [Callers -> Labels]
    /\ kind \in [Callers -> Kinds]
    /\ version \in [Callers -> Versions \cup {NoVersion}]
    /\ fetched \in [Callers -> Versions \cup {NoVersion}]
    /\ attempt \in [Callers -> 0..2]
    /\ out \in [Callers -> Outcomes \cup {"none"}]
    /\ posts \in [Callers -> Seq(Outcomes)]
    /\ quiet \in BOOLEAN
    /\ foreign \in [Callers -> BOOLEAN]

Init ==
    /\ fleet \in {{v} : v \in Versions}
    /\ flips = 0
    /\ cache \in InitCaches
    /\ pc = [c \in Callers |-> "idle"]
    /\ kind = [c \in Callers |-> "retry"]
    /\ version = [c \in Callers |-> NoVersion]
    /\ fetched = [c \in Callers |-> NoVersion]
    /\ attempt = [c \in Callers |-> 0]
    /\ out = [c \in Callers |-> "none"]
    /\ posts = [c \in Callers |-> <<>>]
    /\ quiet = (cache # NoVersion)
    /\ foreign = [c \in Callers |-> FALSE]

Goto(c, l) == pc' = [pc EXCEPT ![c] = l]

InOperation(c) == pc[c] \notin {"idle", "done"}

\* A write of the cache disturbs the operations in progress of all but its
\* writers.
Disturb(writers) ==
    foreign' = [c \in Callers |->
                  foreign[c] \/ (c \notin writers /\ InOperation(c))]

-----------------------------------------------------------------------------
(* The server (external).                                                  *)

\* A deployment starts: some nodes already run v, the others still do not.
StartDeploy ==
    /\ flips < MaxFlips
    /\ \E v \in Versions \ fleet : fleet' = fleet \cup {v}
    /\ flips' = flips + 1
    /\ UNCHANGED <<cache, pc, kind, version, fetched, attempt, out, posts,
                   quiet, foreign>>

\* It ends: every node runs the same version (the new one or, after a
\* rollback, the old one).
EndDeploy ==
    /\ \E v \in fleet : fleet # {v} /\ fleet' = {v}
    /\ UNCHANGED <<flips, cache, pc, kind, version, fetched, attempt, out,
                   posts, quiet, foreign>>

\* What a POST of a V2 order can come to, by the node that handles it.
PostOutcomes ==
    {"refused", "failed"}
        \cup (IF V2 \in fleet THEN Placed ELSE {})
        \cup (IF fleet # {V2} THEN {"mismatch"} ELSE {})

\* GetVersion: a node's answer, or V2 when the request fails.
GetVersion == fleet \cup {V2}

-----------------------------------------------------------------------------
(* The client.                                                             *)

\* A caller starts an operation.  PostOrderV2 and PostOrdersV2 POST at once.
Begin(c) ==
    /\ pc[c] \in {"idle", "done"}
    /\ \E k \in Kinds :
         /\ kind' = [kind EXCEPT ![c] = k]
         /\ Goto(c, IF k = "retry" THEN "resolve" ELSE "post")
    /\ attempt' = [attempt EXCEPT ![c] = 0]
    /\ out' = [out EXCEPT ![c] = "none"]
    /\ posts' = [posts EXCEPT ![c] = <<>>]
    /\ version' = [version EXCEPT ![c] = NoVersion]
    /\ foreign' = [foreign EXCEPT ![c] = FALSE]
    /\ UNCHANGED <<fleet, flips, cache, fetched, quiet>>

\* version := ResolveOrderVersion(false), answered from the cache.
ResolveHit(c) ==
    /\ pc[c] = "resolve"
    /\ cache # NoVersion
    /\ version' = [version EXCEPT ![c] = cache]
    /\ Goto(c, "post")
    /\ UNCHANGED <<fleet, flips, cache, kind, fetched, attempt, out, posts,
                   quiet, foreign>>

\* The same on a cold cache: the read lock is dropped before the request.
ResolveMiss(c) ==
    /\ pc[c] = "resolve"
    /\ cache = NoVersion
    /\ Goto(c, "fetch")
    /\ UNCHANGED <<fleet, flips, cache, kind, version, fetched, attempt, out,
                   posts, quiet, foreign>>

\* GetVersion's answer, for the first resolve or for a forced refresh.
Fetch(c) ==
    /\ pc[c] \in {"fetch", "refetch"}
    /\ \E v \in GetVersion : fetched' = [fetched EXCEPT ![c] = v]
    /\ Goto(c, IF pc[c] = "fetch" THEN "store" ELSE "restore")
    /\ UNCHANGED <<fleet, flips, cache, kind, version, attempt, out, posts,
                   quiet, foreign>>

\* The write-locked store that ends the first resolve.
Store(c) ==
    /\ pc[c] = "store"
    /\ cache' = fetched[c]
    /\ version' = [version EXCEPT ![c] = fetched[c]]
    /\ fetched' = [fetched EXCEPT ![c] = NoVersion]
    /\ Goto(c, "post")
    /\ Disturb({c})
    /\ UNCHANGED <<fleet, flips, kind, attempt, out, posts, quiet>>

\* Where PostOrderV2 returns to.
AfterFn(c) == IF kind[c] = "retry" THEN "compare" ELSE "done"

\* The store that ends a forced refresh; its value is not used by the caller.
Restore(c) ==
    /\ pc[c] = "restore"
    /\ cache' = fetched[c]
    /\ fetched' = [fetched EXCEPT ![c] = NoVersion]
    /\ Goto(c, AfterFn(c))
    /\ Disturb({c})
    /\ UNCHANGED <<fleet, flips, kind, version, attempt, out, posts, quiet>>

\* Mutant: any failure is taken for a mismatch and refreshes the cache.
AnyErrorIsMismatch(o) == o \in {"mismatch", "refused", "failed", "lost"}

\* Mutant: an answer that never came is taken for a mismatch.
MismatchOrLost(o) == o \in {"mismatch", "lost"}

\* IsOrderVersionMismatch.
IsOrderVersionMismatch(o) == o = "mismatch"

\* One call of fn: build the order (a fresh salt, always V2) and POST it.  On
\* a mismatch PostOrderV2Ctx forces a refresh before it returns.
Post(c) ==
    /\ pc[c] = "post"
    /\ attempt' = [attempt EXCEPT ![c] = @ + 1]
    /\ \E o \in PostOutcomes :
         /\ out' = [out EXCEPT ![c] = o]
         /\ posts' = [posts EXCEPT ![c] = IF o = "failed" THEN @
                                                          ELSE Append(@, o)]
         /\ quiet' = (quiet /\ o # "mismatch")
         /\ Goto(c, IF IsOrderVersionMismatch(o) THEN "refetch" ELSE AfterFn(c))
    /\ UNCHANGED <<fleet, flips, cache, kind, version, fetched, foreign>>

\* Mutant: the comparison asks the server instead of reading the cache.
CompareForced(c) == version[c] \in fleet

\* version == ResolveOrderVersion(false): the cache is as fn found it.
Unmoved(c) == version[c] = cache

\* The comparison after fn: return, or go on to adopt the new version.
Compare(c) ==
    /\ pc[c] = "compare"
    /\ Goto(c, IF Unmoved(c) THEN "done" ELSE "adopt")
    /\ UNCHANGED <<fleet, flips, cache, kind, version, fetched, attempt, out,
                   posts, quiet, foreign>>

\* for i := 0; i < 2; i++
MayRetry(c) == attempt[c] < 2

\* version = ResolveOrderVersion(false), a second read of the cache; then the
\* next iteration (after the 100ms sleep), or the end of the loop.
Adopt(c) ==
    /\ pc[c] = "adopt"
    /\ version' = [version EXCEPT ![c] = cache]
    /\ Goto(c, IF MayRetry(c) THEN "post" ELSE "done")
    /\ UNCHANGED <<fleet, flips, cache, kind, fetched, attempt, out, posts,
                   quiet, foreign>>

\* SetCachedOrderVersion, called while other goroutines use the client.
SetCachedOrderVersion ==
    /\ \E v \in Injected : v # cache /\ cache' = v
    /\ quiet' = FALSE
    /\ Disturb({})
    /\ UNCHANGED <<fleet, flips, pc, kind, version, fetched, attempt, out,
                   posts>>

\* The steps of an operation in progress.
Step(c) ==
    \/ ResolveHit(c) \/ ResolveMiss(c) \/ Fetch(c) \/ Store(c) \/ Post(c)
    \/ Restore(c) \/ Compare(c) \/ Adopt(c)

Next ==
    \/ StartDeploy
    \/ EndDeploy
    \/ SetCachedOrderVersion
    \/ \E c \in Callers : Begin(c) \/ Step(c)

Spec == Init /\ [][Next]_vars

-----------------------------------------------------------------------------
(* Properties.                                                             *)

\* retryOnVersionUpdate's loop is bounded: whatever the other goroutines, the
\* deployments and SetCachedOrderVersion do, one operation never reaches the
\* server more than twice.
AtMostTwoPosts == \A c \in Callers : Len(posts[c]) <= 2

\* "When the server has not rejected an order we never POST again", for the
\* whole client: on a resolved cache that nobody sets, and as long as no order
\* of any caller was rejected for its version, no operation POSTs twice.
NoRejectionNoRepost ==
    quiet => \A c \in Callers : Len(posts[c]) <= 1

\* The same sentence for one operation: it POSTs again only when its own
\* first POST was rejected for its version, or another goroutine wrote the
\* cache meanwhile.
RepostOnlyAfterOwnRejection ==
    \A c \in Callers :
        Len(posts[c]) = 2 /\ ~foreign[c] => posts[c][1] = "mismatch"

\* An acceptance the client has heard is what an undisturbed operation
\* returns: the result of a later attempt never hides it.
AcceptanceReported ==
    \A c \in Callers :
        /\ pc[c] = "done" /\ ~foreign[c]
        /\ \E i \in DOMAIN posts[c] : posts[c][i] = "accepted"
        => out[c] = "accepted"

\* No duplicate order: one operation places at most one order, whatever the
\* other goroutines do.
PlacedOnce(c) ==
    \A i, j \in DOMAIN posts[c] :
        posts[c][i] \in Placed /\ posts[c][j] \in Placed => i = j

NoDuplicateOrder == \A c \in Callers : PlacedOnce(c)

\* The part of it that holds: an operation nobody disturbs places at most one
\* order, even when the answer to the first POST is lost.
UndisturbedPlacesOnce == \A c \in Callers : ~foreign[c] => PlacedOnce(c)
=============================================================================
