--------------------------- MODULE ResponseCache ---------------------------
(***************************************************************************)
(* The response cache (cache/cache.go, memory.go, sqlite.go) and the       *)
(* callers of the chat handler: an in-memory LRU in front of an optional   *)
(* table in SQLite.  Each tier is atomic, a lookup or a write across both  *)
(* is not.  A restart empties the first tier only.                         *)
(*                                                                         *)
(* An answer is represented by the moment it was put into the tier it was  *)
(* written to; promotion copies it with that moment.                       *)
(***************************************************************************)
EXTENDS Integers, Sequences, FiniteSets, SequencesExt

CONSTANTS
    Keys,           \* cache keys, i.e. requests
    Callers,        \* concurrent requests
    Capacity,       \* max_items
    Ttl,            \* ttl, 0 when entries never expire
    Persistent,     \* whether there is a second tier
    SlowPromotion,  \* may time pass between reading a row and promoting it?
    MaxTime         \* bound on the clock

ASSUME CacheAssumption ==
    /\ Keys # {}
    /\ Capacity \in Nat \ {0}
    /\ Ttl \in Nat
    /\ Persistent \in BOOLEAN
    /\ SlowPromotion \in BOOLEAN
    /\ MaxTime \in Nat

VARIABLES
    now,     \* the clock
    items,   \* items[k]: the entry of the in-memory tier
    ll,      \* its keys, the most recently used first
    table,   \* table[k]: the row of response_cache
    pc,      \* pc[c]: where caller c is
    key,     \* key[c]: the key it asks for
    value,   \* value[c]: when the answer it is about to promote was written
    since    \* history: the other keys used since k was; k itself is among
             \* them until its first use and once it was dropped for its age

vars == <<now, items, ll, table, pc, key, value, since>>

\* expires = 0: never
Entry == [at : Nat, expires : Nat]
NoEntry == [at |-> -1, expires |-> 0]

TypeOK ==
    /\ now \in 0 .. MaxTime
    /\ items \in [Keys -> Entry \cup {NoEntry}]
    /\ ll \in Seq(Keys)
    /\ table \in [Keys -> Entry \cup {NoEntry}]
    /\ pc \in [Callers -> {"idle", "disk", "promote", "upstream", "store"}]
    /\ key \in [Callers -> Keys]
    /\ value \in [Callers -> Nat]
    /\ since \in [Keys -> SUBSET Keys]

\* The deadline itself is still in time.
Live(e) == e # NoEntry /\ (e.expires = 0 \/ now <= e.expires)

\* Mutant: the lifetime is taken off.
Fresh_Backwards(at) == [at |-> at, expires |-> IF Ttl > 0 THEN now - Ttl ELSE 0]

Fresh(at) == [at |-> at, expires |-> IF Ttl > 0 THEN now + Ttl ELSE 0]

\* The list without the element that items[k] points to
Without(k) ==
    IF items[k] = NoEntry THEN ll
    ELSE RemoveAt(ll, CHOOSE i \in DOMAIN ll : ll[i] = k)

Used(k) ==
    since' = [x \in Keys |-> IF x = k THEN {} ELSE since[x] \cup {k}]

-----------------------------------------------------------------------------
(* The in-memory tier; its mutex makes each operation one step. *)

\* Mutant: a hit does not count as a use.
MemoryHit_Unmoved(k) ==
    /\ Live(items[k])
    /\ Used(k)
    /\ UNCHANGED <<items, ll>>

MemoryHit(k) ==
    /\ Live(items[k])
    /\ ll' = <<k>> \o Without(k)
    /\ Used(k)
    /\ UNCHANGED items

\* Mutant: the list keeps the key of a dropped entry.
MemoryMiss_Listed(k) ==
    /\ ~Live(items[k])
    /\ items' = [items EXCEPT ![k] = NoEntry]
    /\ since' = IF items[k] = NoEntry THEN since ELSE [since EXCEPT ![k] = Keys]
    /\ UNCHANGED ll

\* An expired entry is dropped by the read that finds it.
MemoryMiss(k) ==
    /\ ~Live(items[k])
    /\ items' = [items EXCEPT ![k] = NoEntry]
    /\ ll' = Without(k)
    /\ since' = IF items[k] = NoEntry THEN since ELSE [since EXCEPT ![k] = Keys]

\* An entry that is new and one too many pushes out the one at the back.
MemorySet(k, at) ==
    LET front == <<k>> \o Without(k)
        victims == {front[i] : i \in Capacity + 1 .. Len(front)}
    IN  /\ items' = [x \in Keys |-> IF x = k THEN Fresh(at)
                                    ELSE IF x \in victims THEN NoEntry
                                    ELSE items[x]]
        /\ ll' = SubSeq(front, 1, IF Len(front) > Capacity THEN Capacity ELSE Len(front))
        /\ Used(k)

-----------------------------------------------------------------------------
Init ==
    /\ now = 0
    /\ items = [k \in Keys |-> NoEntry]
    /\ ll = <<>>
    /\ table = [k \in Keys |-> NoEntry]
    /\ pc = [c \in Callers |-> "idle"]
    /\ key \in [Callers -> {CHOOSE k \in Keys : TRUE}]
    /\ value = [c \in Callers |-> 0]
    /\ since = [k \in Keys |-> Keys]

\* A caller that is done forgets its key and value.
Go(c, phase, k, v) ==
    /\ pc' = [pc EXCEPT ![c] = phase]
    /\ key' = [key EXCEPT ![c] = k]
    /\ value' = [value EXCEPT ![c] = v]

Done(c) == Go(c, "idle", CHOOSE k \in Keys : TRUE, 0)

\* tiered.Get, first half; without a second tier memory.Get
GetHit(c, k) ==
    /\ pc[c] = "idle"
    /\ MemoryHit(k)
    /\ UNCHANGED <<now, table, pc, key, value>>

GetMiss(c, k) ==
    /\ pc[c] = "idle"
    /\ MemoryMiss(k)
    /\ Go(c, IF Persistent THEN "disk" ELSE "upstream", k, 0)
    /\ UNCHANGED <<now, table>>

\* Mutant: a row is served whatever its age.
ReadRow_AnyAge(c) ==
    /\ pc[c] = "disk"
    /\ table[key[c]] # NoEntry
    /\ Go(c, "promote", key[c], table[key[c]].at)
    /\ UNCHANGED <<now, items, ll, table, since>>

\* sqliteCache.Get: the answer is on its way to the client.
ReadRow(c) ==
    /\ pc[c] = "disk"
    /\ Live(table[key[c]])
    /\ Go(c, "promote", key[c], table[key[c]].at)
    /\ UNCHANGED <<now, items, ll, table, since>>

\* No row, an old one, which stays, or an error.
ReadNoRow(c) ==
    /\ pc[c] = "disk"
    /\ Go(c, "upstream", key[c], 0)
    /\ UNCHANGED <<now, items, ll, table, since>>

\* tiered.Get, second half
Promote(c) ==
    /\ pc[c] = "promote"
    /\ MemorySet(key[c], value[c])
    /\ Done(c)
    /\ UNCHANGED <<now, table>>

\* tiered.Set, first half
Answered(c) ==
    /\ pc[c] = "upstream"
    /\ MemorySet(key[c], now)
    /\ IF Persistent THEN Go(c, "store", key[c], 0) ELSE Done(c)
    /\ UNCHANGED <<now, table>>

\* An error, or a response without choices, is not cached.
NotCached(c) ==
    /\ pc[c] = "upstream"
    /\ Done(c)
    /\ UNCHANGED <<now, items, ll, table, since>>

\* tiered.Set, second half: the row is written, or the error is ignored.
WriteRow(c) ==
    /\ pc[c] = "store"
    /\ \/ table' = [table EXCEPT ![key[c]] = Fresh(now)]
       \/ UNCHANGED table
    /\ Done(c)
    /\ UNCHANGED <<now, items, ll, since>>

\* The process stops and starts: newSQLite sweeps the rows that are too old.
Restart ==
    /\ items' = [k \in Keys |-> NoEntry]
    /\ ll' = <<>>
    /\ table' = [k \in Keys |->
                    IF table[k].expires # 0 /\ table[k].expires < now
                    THEN NoEntry ELSE table[k]]
    /\ pc' = [c \in Callers |-> "idle"]
    /\ key' = [c \in Callers |-> CHOOSE k \in Keys : TRUE]
    /\ value' = [c \in Callers |-> 0]
    /\ since' = [k \in Keys |-> Keys]
    /\ UNCHANGED now

Tick ==
    /\ now < MaxTime
    /\ SlowPromotion \/ \A c \in Callers : pc[c] # "promote"
    /\ now' = now + 1
    /\ UNCHANGED <<items, ll, table, pc, key, value, since>>

Next ==
    \/ \E c \in Callers, k \in Keys : GetHit(c, k) \/ GetMiss(c, k)
    \/ \E c \in Callers :
           \/ ReadRow(c) \/ ReadNoRow(c) \/ Promote(c)
           \/ Answered(c) \/ NotCached(c) \/ WriteRow(c)
    \/ Restart
    \/ Tick

Spec == Init /\ [][Next]_vars

-----------------------------------------------------------------------------
\* The map and the list of the first tier hold the same keys, each once, and
\* no more than max_items of them.
ListMatchesItems ==
    /\ {ll[i] : i \in DOMAIN ll} = {k \in Keys : items[k] # NoEntry}
    /\ Cardinality({ll[i] : i \in DOMAIN ll}) = Len(ll)
    /\ Len(ll) <= Capacity

\* Least recently used goes first: an entry that was not dropped for its age
\* is in memory as long as fewer than max_items other keys have been used
\* since it was.
RecentlyUsedStays ==
    \A k \in Keys :
        k \notin since[k] /\ Cardinality(since[k]) < Capacity => items[k] # NoEntry

\* What holds across both tiers, restarts and races of writers with
\* promotions: an answer is served for two lifetimes at most (promotion
\* starts the ttl anew, although Config.TTL is the lifetime of an entry).
ServedWithinTwoLifetimes ==
    \A k \in Keys :
        /\ Ttl > 0 /\ Live(items[k]) => now <= items[k].at + 2 * Ttl
        /\ Ttl > 0 /\ Live(table[k]) => now <= table[k].at + Ttl
=============================================================================
