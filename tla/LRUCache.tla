------------------------------ MODULE LRUCache ------------------------------
(***************************************************************************)
(* LRUProgramCache (compiler_cache.go), called by several goroutines: a    *)
(* map from keys to list elements and the list, most recently used first,  *)
(* under one mutex, and counters beside it that are atomic one by one: Get *)
(* and Set count themselves before they wait for the mutex, and Stats      *)
(* reads the counters one after the other when it has released it.         *)
(***************************************************************************)
EXTENDS Integers, Sequences, FiniteSets, SequencesExt

CONSTANTS
    Procs,      \* goroutines
    Keys,       \* compile cache keys
    Programs,   \* compiled programs
    None,       \* no program
    Requested,  \* the capacity NewLRUProgramCache is asked for
    MaxOps      \* bound on the calls started

ASSUME LRUAssumption == Requested \in Int /\ MaxOps \in Nat /\ None \notin Programs

VARIABLES
    items,      \* the keys of the map
    order,      \* the list: elements with a key and a program, front first
    count,      \* the counters gets, hits, misses, sets and evictions
    pc,         \* where each goroutine is
    reg,        \* what its call holds in local variables
    ops,        \* calls begun
    now,        \* history: uses of the list so far
    used        \* history: key -> now at its latest use

vars == <<items, order, count, pc, reg, ops, now, used>>

Capacity == IF Requested <= 0 THEN 1 ELSE Requested

Counters == {"gets", "hits", "misses", "sets", "evictions"}
Report == [Counters \cup {"entries"} -> Nat]
NoReport == [c \in Counters \cup {"entries"} |-> 0]
Idle == [key |-> CHOOSE k \in Keys : TRUE, program |-> None, report |-> NoReport, pending |-> 0]

Element(k, program) == [key |-> k, program |-> program]

Init ==
    /\ items = {}
    /\ order = <<>>
    /\ count = [c \in Counters |-> 0]
    /\ pc = [p \in Procs |-> "idle"]
    /\ reg = [p \in Procs |-> Idle]
    /\ ops = 0
    /\ now = 0
    /\ used = [k \in Keys |-> 0]

Goto(p, from, to) ==
    /\ pc[p] = from
    /\ pc' = [pc EXCEPT ![p] = to]

Begin(p, to) ==
    /\ ops < MaxOps
    /\ ops' = ops + 1
    /\ Goto(p, "idle", to)

Count(cs) == count' = [c \in Counters |-> count[c] + IF c \in cs THEN 1 ELSE 0]

-----------------------------------------------------------------------------
(* The list                                                                *)

At(k) == CHOOSE i \in DOMAIN order : order[i].key = k

(* MoveToFront of the element of k, with its program replaced.             *)
MovedToFront(k, program) == <<Element(k, program)>> \o RemoveAt(order, At(k))

Use(k) ==
    /\ now' = now + 1
    /\ used' = [used EXCEPT ![k] = now + 1]

-----------------------------------------------------------------------------
(* Get                                                                     *)

Get(p, k) ==
    /\ Begin(p, "get")
    /\ Count({"gets"})
    /\ reg' = [reg EXCEPT ![p] = [Idle EXCEPT !.key = k]]
    /\ UNCHANGED <<items, order, now, used>>

(* Under the mutex.                                                        *)
GetLocked(p) ==
    LET k == reg[p].key
    IN  /\ Goto(p, "get", "idle")
        /\ IF k \in items
           THEN /\ Count({"hits"})
                /\ order' = MovedToFront(k, order[At(k)].program)
                /\ Use(k)
           ELSE Count({"misses"}) /\ UNCHANGED <<order, now, used>>
        /\ UNCHANGED <<items, reg, ops>>

-----------------------------------------------------------------------------
(* Set                                                                     *)

Set(p, k, program) ==
    /\ Begin(p, "set")
    /\ Count({"sets"})
    /\ reg' = [reg EXCEPT ![p] = [Idle EXCEPT !.key = k, !.program = program]]
    /\ UNCHANGED <<items, order, now, used>>

(* Mutants of evictOldest: the map keeps the key; the front goes.          *)
EvictKeepsItem(elements, keys) ==
    /\ order' = Front(elements)
    /\ items' = keys
    /\ Count({"evictions"})
EvictNewest(elements, keys) ==
    /\ order' = RemoveAt(elements, 2)
    /\ items' = keys \ {elements[2].key}
    /\ Count({"evictions"})

(* The element at the back goes, with its key.                             *)
evictOldest(elements, keys) ==
    /\ order' = Front(elements)
    /\ items' = keys \ {Last(elements).key}
    /\ Count({"evictions"})

(* Mutant: room is made when the cache is just full.                       *)
SetLockedEarly(p) ==
    LET k == reg[p].key
        program == reg[p].program
        pushed == <<Element(k, program)>> \o order
    IN  /\ Goto(p, "set", "idle")
        /\ IF k \in items
             THEN order' = MovedToFront(k, program) /\ UNCHANGED <<items, count>>
           ELSE IF Cardinality(items \cup {k}) >= Capacity
             THEN evictOldest(pushed, items \cup {k})
           ELSE order' = pushed /\ items' = items \cup {k} /\ UNCHANGED count
        /\ Use(k)
        /\ UNCHANGED <<reg, ops>>

(* Under the mutex: replace the program of the key, or add an element.     *)
SetLocked(p) ==
    LET k == reg[p].key
        program == reg[p].program
        pushed == <<Element(k, program)>> \o order
    IN  /\ Goto(p, "set", "idle")
        /\ IF k \in items
             THEN order' = MovedToFront(k, program) /\ UNCHANGED <<items, count>>
           ELSE IF Cardinality(items \cup {k}) > Capacity
             THEN evictOldest(pushed, items \cup {k})
           ELSE order' = pushed /\ items' = items \cup {k} /\ UNCHANGED count
        /\ Use(k)
        /\ UNCHANGED <<reg, ops>>

(* Delete: one critical section.                                           *)
Delete(p, k) ==
    /\ Begin(p, "idle")
    /\ IF k \in items THEN order' = RemoveAt(order, At(k)) /\ items' = items \ {k}
       ELSE UNCHANGED <<order, items>>
    /\ UNCHANGED <<count, reg, now, used>>

-----------------------------------------------------------------------------
(* Stats: the number of entries under the mutex, then counter after        *)
(* counter.  pending is history: the Gets between count and mutex when the *)
(* counter gets is read.                                                   *)

InFlight == Cardinality({q \in Procs : pc[q] = "get"})

(* Mutant: gets is read after the hits and misses it is compared with.     *)
LoadOrderGetsLater == <<"hits", "misses", "gets", "sets", "evictions">>
LoadOrder == <<"gets", "hits", "misses", "sets", "evictions">>

After(c) ==
    LET i == CHOOSE i \in DOMAIN LoadOrder : LoadOrder[i] = c
    IN  IF i = Len(LoadOrder) THEN "reported" ELSE LoadOrder[i + 1]

Stats(p) ==
    /\ Begin(p, LoadOrder[1])
    /\ reg' = [reg EXCEPT ![p] = [Idle EXCEPT !.report["entries"] = Cardinality(items)]]
    /\ UNCHANGED <<items, order, count, now, used>>

Load(p) ==
    \E c \in Counters :
        /\ Goto(p, c, After(c))
        /\ reg' = [reg EXCEPT ![p].report[c] = count[c],
                              ![p].pending = IF c = "gets" THEN InFlight ELSE @]
        /\ UNCHANGED <<items, order, count, ops, now, used>>

Reported(p) ==
    /\ Goto(p, "reported", "idle")
    /\ reg' = [reg EXCEPT ![p] = Idle]
    /\ UNCHANGED <<items, order, count, ops, now, used>>

-----------------------------------------------------------------------------
Step(p) == GetLocked(p) \/ SetLocked(p) \/ Load(p) \/ Reported(p)

Call(p) ==
    \/ Stats(p)
    \/ \E k \in Keys : Get(p, k) \/ Delete(p, k) \/ \E program \in Programs : Set(p, k, program)

Next == \E p \in Procs : Step(p) \/ Call(p)

Spec == Init /\ [][Next]_vars

-----------------------------------------------------------------------------
ItemsMatchOrder ==
    /\ items = {order[i].key : i \in DOMAIN order}
    /\ \A i, j \in DOMAIN order : order[i].key = order[j].key => i = j
    /\ Len(order) <= (IF Requested <= 0 THEN 1 ELSE Requested)

OrderIsRecency ==
    \A i, j \in DOMAIN order : i < j => used[order[i].key] > used[order[j].key]

(* The map and the list have the same keys, each key one element, and no   *)
(* more of them than the capacity, at least one if one was asked for none; *)
(* and the list is in the order of use, so that its back is the least      *)
(* recently used key, whatever calls came in between.                      *)
ListIsSound == ItemsMatchOrder /\ OrderIsRecency

CountersAddUp ==
    /\ count["gets"] = count["hits"] + count["misses"] + InFlight
    /\ Len(order) + count["evictions"] <= count["sets"]

ReportAddsUp ==
    \A p \in Procs : pc[p] = "reported" =>
        LET r == reg[p].report
        IN  /\ r["entries"] <= Capacity
            /\ r["gets"] <= r["hits"] + r["misses"] + reg[p].pending

(* Every Get that took the mutex hit or missed, and every eviction and     *)
(* every entry is owed to a Set.  A report is not of one instant: each     *)
(* counter moves while the next is read.  Still it shows no Get without    *)
(* its outcome, other than those that were waiting for the mutex when it   *)
(* read gets, and never more entries than the capacity.                    *)
ReportAccounts == CountersAddUp /\ ReportAddsUp

(* The key evicted is one that every key that stays was used after.        *)
EvictsLeastRecent ==
    [][count'["evictions"] # count["evictions"] =>
           \A k \in items \ items', j \in items' : used[k] < used'[j]]_vars

(* The cache is a bounded cache: what module PersistentCache takes its     *)
(* local tier to be.                                                       *)
Content == [k \in Keys |-> IF k \in items THEN order[At(k)].program ELSE None]

Bounded == INSTANCE BoundedCache WITH content <- Content

ImplementsBoundedCache == Bounded!BoundedSpec
=============================================================================
