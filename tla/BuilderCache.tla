---------------------------- MODULE BuilderCache ----------------------------
(***************************************************************************)
(* getOrCreateV2Builder of ClobClient: order builders cached by exchange   *)
(* address, under the client's RWMutex, with double-checked locking.  A    *)
(* builder is expensive to make, so it is made outside the lock.           *)
(***************************************************************************)
CONSTANTS
    Callers,    \* goroutines that create orders
    NoCaller,   \* nobody holds mu for writing
    Addresses,  \* spellings of exchange addresses
    Lower,      \* Lower[a]: strings.ToLower(a)
    NoAddress,  \* a caller asks for nothing
    NoBuilder,  \* an address without a builder, a call without an answer
    Failure     \* the call returned an error

ASSUME BuilderAssumption ==
    /\ NoCaller \notin Callers
    /\ NoAddress \notin Addresses
    /\ Lower \in [Addresses -> Addresses]
    /\ \A a \in Addresses : Lower[Lower[a]] = Lower[a]
    /\ Failure # NoBuilder

Contracts == {Lower[a] : a \in Addresses}

\* A builder signs for one contract; its maker tells two of them apart.
Builders == [contract : Contracts, by : Callers]

ASSUME NotBuilders == NoBuilder \notin Builders /\ Failure \notin Builders

VARIABLES
    readers,  \* callers that hold mu for reading
    writer,   \* the caller that holds mu for writing
    cache,    \* c.builderV2Cache
    pc,       \* where each caller is
    addr,     \* contractAddress of each call
    mine,     \* the builder each caller made
    got       \* what each call returns

vars == <<readers, writer, cache, pc, addr, mine, got>>

Labels == {"idle", "enter", "lookup", "leave", "make", "lock", "recheck",
           "store", "unlock", "done"}

TypeOK ==
    /\ readers \subseteq Callers
    /\ writer \in Callers \cup {NoCaller}
    /\ cache \in [Addresses -> Builders \cup {NoBuilder}]
    /\ pc \in [Callers -> Labels]
    /\ addr \in [Callers -> Addresses \cup {NoAddress}]
    /\ mine \in [Callers -> Builders \cup {NoBuilder}]
    /\ got \in [Callers -> Builders \cup {NoBuilder, Failure}]

Init ==
    /\ readers = {}
    /\ writer = NoCaller
    /\ cache = [a \in Addresses |-> NoBuilder]
    /\ pc = [c \in Callers |-> "idle"]
    /\ addr = [c \in Callers |-> NoAddress]
    /\ mine = [c \in Callers |-> NoBuilder]
    /\ got = [c \in Callers |-> NoBuilder]

Goto(c, l) == pc' = [pc EXCEPT ![c] = l]

\* Mutant: the address is the key as it was spelled.
AsSpelled(a) == a

\* key := strings.ToLower(contractAddress)
Key(a) == Lower[a]

-----------------------------------------------------------------------------
(* The RWMutex: a writer that waits keeps new readers out.                 *)

MayRead == writer = NoCaller /\ \A d \in Callers : pc[d] # "lock"

MayWrite == writer = NoCaller /\ readers = {}

\* Mutant: a path without RUnlock.
KeepReading(c) == readers

\* RUnlock
Unread(c) == readers \ {c}

-----------------------------------------------------------------------------

Call(c) ==
    /\ pc[c] = "idle"
    /\ \E a \in Addresses : addr' = [addr EXCEPT ![c] = a]
    /\ Goto(c, "enter")
    /\ UNCHANGED <<readers, writer, cache, mine, got>>

RLock(c) ==
    /\ pc[c] = "enter" /\ MayRead
    /\ readers' = readers \cup {c}
    /\ Goto(c, "lookup")
    /\ UNCHANGED <<writer, cache, addr, mine, got>>

\* The first check, under the read lock.
Hit(c) ==
    /\ pc[c] = "lookup"
    /\ cache[Key(addr[c])] # NoBuilder
    /\ got' = [got EXCEPT ![c] = cache[Key(addr[c])]]
    /\ Goto(c, "leave")
    /\ UNCHANGED <<readers, writer, cache, addr, mine>>

LeaveHit(c) ==
    /\ pc[c] = "leave"
    /\ readers' = Unread(c)
    /\ Goto(c, "done")
    /\ UNCHANGED <<writer, cache, addr, mine, got>>

Miss(c) ==
    /\ pc[c] = "lookup"
    /\ cache[Key(addr[c])] = NoBuilder
    /\ readers' = Unread(c)
    /\ Goto(c, "make")
    /\ UNCHANGED <<writer, cache, addr, mine, got>>

\* Mutant: the EIP-712 domain takes the address as it was spelled.
SpelledDomain(a) == a

\* The contract the builder signs for: the address without its spelling.
Domain(a) == Lower[a]

\* NewExchangeOrderBuilderV2, without the lock.
Make(c) ==
    /\ pc[c] = "make"
    /\ mine' = [mine EXCEPT ![c] = [contract |-> Domain(addr[c]), by |-> c]]
    /\ Goto(c, "lock")
    /\ UNCHANGED <<readers, writer, cache, addr, got>>

\* No signer, a private key that does not load, or an address that is none.
MakeFails(c) ==
    /\ pc[c] = "make"
    /\ got' = [got EXCEPT ![c] = Failure]
    /\ Goto(c, "done")
    /\ UNCHANGED <<readers, writer, cache, addr, mine>>

Lock(c) ==
    /\ pc[c] = "lock" /\ MayWrite
    /\ writer' = c
    /\ Goto(c, "recheck")
    /\ UNCHANGED <<readers, cache, addr, mine, got>>

\* Mutant: no second check.
NoSecondCheck(c) == NoBuilder

\* The second check, under the write lock.
Existing(c) == cache[Key(addr[c])]

\* Another caller was first: its builder is returned.
Discard(c) ==
    /\ pc[c] = "recheck"
    /\ Existing(c) # NoBuilder
    /\ got' = [got EXCEPT ![c] = Existing(c)]
    /\ mine' = [mine EXCEPT ![c] = NoBuilder]
    /\ Goto(c, "unlock")
    /\ UNCHANGED <<readers, writer, cache, addr>>

StillAbsent(c) ==
    /\ pc[c] = "recheck"
    /\ Existing(c) = NoBuilder
    /\ Goto(c, "store")
    /\ UNCHANGED <<readers, writer, cache, addr, mine, got>>

Store(c) ==
    /\ pc[c] = "store"
    /\ cache' = [cache EXCEPT ![Key(addr[c])] = mine[c]]
    /\ got' = [got EXCEPT ![c] = mine[c]]
    /\ mine' = [mine EXCEPT ![c] = NoBuilder]
    /\ Goto(c, "unlock")
    /\ UNCHANGED <<readers, writer, addr>>

\* The deferred Unlock.
Unlock(c) ==
    /\ pc[c] = "unlock"
    /\ writer' = NoCaller
    /\ Goto(c, "done")
    /\ UNCHANGED <<readers, cache, addr, mine, got>>

Return(c) ==
    /\ pc[c] = "done"
    /\ addr' = [addr EXCEPT ![c] = NoAddress]
    /\ got' = [got EXCEPT ![c] = NoBuilder]
    /\ Goto(c, "idle")
    /\ UNCHANGED <<readers, writer, cache, mine>>

Step(c) ==
    \/ RLock(c) \/ Hit(c) \/ LeaveHit(c) \/ Miss(c) \/ Make(c) \/ MakeFails(c)
    \/ Lock(c) \/ Discard(c) \/ StillAbsent(c) \/ Store(c) \/ Unlock(c)
    \/ Return(c)

Next == \E c \in Callers : Call(c) \/ Step(c)

Spec == Init /\ [][Next]_vars

-----------------------------------------------------------------------------
(* Properties.                                                             *)

\* Two calls for one contract, however its address is spelled, get the same
\* builder: none is made, used and then replaced.
SameBuilder ==
    \A c, d \in Callers :
        /\ got[c] \in Builders /\ got[d] \in Builders
        /\ Lower[addr[c]] = Lower[addr[d]]
        => got[c] = got[d]

\* "After Lock it must check again, so that it does not overwrite": a cached
\* builder stays.
NeverReplaced ==
    [][\A a \in Addresses : cache[a] # NoBuilder => cache'[a] = cache[a]]_vars

\* The double-checked cache is a memo table whose calls take effect in one
\* step: the lookup that hits, the second check that hits, or the store.
Memo == INSTANCE AtomicMemo WITH
    Keys <- Contracts,
    Values <- Builders,
    NoKey <- NoAddress,
    NoValue <- NoBuilder,
    MadeFor <- [k \in Contracts |-> {b \in Builders : b.contract = k}],
    table <- [k \in Contracts |-> cache[k]],
    request <- [c \in Callers |->
                  IF addr[c] = NoAddress THEN NoAddress ELSE Lower[addr[c]]],
    answer <- got

MemoSpec == Memo!Spec
=============================================================================
