------------------------ MODULE ObservedEngineProofs ------------------------
(***************************************************************************)
(* What holds of the observed, caching engine for all goroutines, keys and *)
(* numbers of calls: its counters agree, and compilations are bounded.     *)
(***************************************************************************)
EXTENDS ObservedEngine, FiniteSetTheorems, TLAPS

(* Where a goroutine stands: its pc, told apart by what the counters still *)
(* have to be told of its call.                                            *)
Place(q) ==
    IF pc[q] = "request" THEN IF reg[q].hit THEN "requestHit" ELSE "requestMiss"
    ELSE IF pc[q] = "outcome" THEN IF reg[q].hit THEN "outcomeHit" ELSE "outcomeMiss"
    ELSE IF pc[q] = "observe" /\ reg[q].failed THEN "observeFailed"
    ELSE pc[q]

Working == {"get", "request", "outcome", "compile", "set", "store"}
Pcs == {"idle", "observe", "error", "eval", "evalError", "reported"} \cup Working \cup Counters

Places ==
    {"idle", "get", "requestHit", "requestMiss", "outcomeHit", "outcomeMiss",
     "compile", "set", "store", "observe", "observeFailed", "error", "eval", "evalError",
     "reported"} \cup Counters

Standing(x) == {q \in Procs : Place(q) = x}

number == [x \in Places |-> Cardinality(Standing(x))]

(* What the counters owe to the goroutines on their way between two; and   *)
(* whoever holds a program, or evaluates one, had it compiled.             *)
Balance(c, n, h) ==
    /\ c["gets"] = c["hits"] + c["misses"] + n["get"]
    /\ c["hits"] = c["cacheHits"] + n["requestHit"] + n["outcomeHit"]
    /\ c["misses"] = c["cacheMisses"] + n["requestMiss"] + n["outcomeMiss"]
    /\ c["cacheRequests"] = c["cacheHits"] + c["cacheMisses"] + n["outcomeHit"] + n["outcomeMiss"]
    /\ c["cacheMisses"] = c["sets"] + c["compileErrors"]
                              + n["compile"] + n["set"] + n["observeFailed"] + n["error"]
    /\ c["cacheHits"] + c["cacheMisses"] =
           c["compileCount"] + n["compile"] + n["set"] + n["store"] + n["observe"] + n["observeFailed"]
    /\ c["evalErrors"] + n["evalError"] <= c["evalCount"]
    /\ c["compileErrors"] + n["error"] <= c["compileCount"]
    /\ h # {} \/ c["evalCount"] + n["eval"] > 0 => c["compileErrors"] + n["error"] < c["compileCount"]

Registers ==
    [op : {"none", "compile", "eval", "cacheStats", "observerStats"},
     key : Keys \cup {"none"}, hit : BOOLEAN, failed : BOOLEAN,
     program : [source : Keys \cup {"none"}, gen : Nat],
     report : Report, pending : Nat]

TypeOK ==
    /\ items \in [Keys -> [source : Keys \cup {"none"}, gen : Nat]]
    /\ count \in [Counters -> Nat]
    /\ pc \in [Procs -> Pcs]
    /\ reg \in [Procs -> Registers]
    /\ compiled \in [Keys -> Nat]
    /\ deleted \in [Keys -> Nat]

CallsInv ==
    \A p \in Procs :
        /\ pc[p] \in Working => reg[p].key \in Keys /\ ~reg[p].failed
        /\ pc[p] \in {"set", "store"} => reg[p].program # None
        /\ pc[p] \in CacheCounters => reg[p].op = "cacheStats"
        /\ pc[p] \in ObserverCounters => reg[p].op = "observerStats"

(* What a report under way has read, against the counters it will read.    *)
ReportInv ==
    \A p \in Procs :
        LET r == reg[p].report
            pending == reg[p].pending
        IN  /\ pc[p] \in CacheCounters => r["cacheRequests"] = 0
            /\ pc[p] \in ObserverCounters => r["gets"] = 0
            /\ pc[p] = "hits" => r["gets"] <= count["hits"] + count["misses"] + pending
            /\ pc[p] = "misses" => r["gets"] <= r["hits"] + count["misses"] + pending
            /\ pc[p] \in {"sets", "reported"} => r["gets"] <= r["hits"] + r["misses"] + pending
            /\ pc[p] = "cacheHits" =>
                   r["cacheRequests"] <= count["cacheHits"] + count["cacheMisses"] + pending
            /\ pc[p] = "cacheMisses" =>
                   r["cacheRequests"] <= r["cacheHits"] + count["cacheMisses"] + pending
            /\ pc[p] = "reported" =>
                   r["cacheRequests"] <= r["cacheHits"] + r["cacheMisses"] + pending

(* The goroutines that missed k and have not compiled it, and those that   *)
(* have, and have not stored it.                                           *)
Missed(k) ==
    {q \in Procs : /\ reg[q].key = k
                   /\ \/ pc[q] \in {"request", "outcome"} /\ ~reg[q].hit
                      \/ pc[q] = "compile"}
Made(k) == {q \in Procs : reg[q].key = k /\ pc[q] \in {"set", "store"}}

(* While k has no program each goroutine may compile it once more, but not *)
(* those that hold one to store; while it has one, those that missed it.   *)
CompileInv ==
    \A k \in Keys :
        IF items[k] = None
        THEN compiled[k] + Cardinality(Procs)
                 <= Cardinality(Procs) * (1 + deleted[k]) + Cardinality(Made(k))
        ELSE compiled[k] + Cardinality(Missed(k)) <= Cardinality(Procs) * (1 + deleted[k])

Inv == TypeOK /\ CallsInv /\ Balance(count, number, handed) /\ ReportInv /\ CompileInv
-----------------------------------------------------------------------------
(* The numbers of goroutines                                               *)

Moved(n, x, y) == [n EXCEPT ![x] = @ - 1, ![y] = @ + 1]
Added(c, x) == [c EXCEPT ![x] = @ + 1]

(* A step of p alone moves one goroutine between two places.               *)
LEMMA NumberMoves ==
    ASSUME NEW p \in Procs, NEW x \in Places, NEW y \in Places, x # y,
           Place(p) = x, Place(p)' = y,
           \A q \in Procs \ {p} : Place(q)' = Place(q)
    PROVE  /\ number \in [Places -> Nat] /\ number' \in [Places -> Nat]
           /\ number' = Moved(number, x, y)
<1>1. ASSUME NEW z PROVE IsFiniteSet(Standing(z)) /\ IsFiniteSet(Standing(z)')
  BY EngineAssumption, FS_Subset DEF Standing
<1>2. \A z : Cardinality(Standing(z)) \in Nat /\ Cardinality(Standing(z)') \in Nat
  BY <1>1, FS_CardinalityType
<1>3. Cardinality(Standing(x)') = Cardinality(Standing(x)) - 1
  <2>1. Standing(x)' = Standing(x) \ {p} /\ p \in Standing(x)
    BY DEF Standing
  <2> QED BY <1>1, <2>1, FS_RemoveElement
<1>4. Cardinality(Standing(y)') = Cardinality(Standing(y)) + 1
  <2>1. Standing(y)' = Standing(y) \cup {p} /\ p \notin Standing(y)
    BY DEF Standing
  <2> QED BY <1>1, <2>1, FS_AddElement
<1>5. \A z \in Places \ {x, y} : Standing(z)' = Standing(z)
  BY DEF Standing
<1>6. number \in [Places -> Nat] /\ number' \in [Places -> Nat]
  BY <1>2 DEF number
<1>7. \A z \in Places : number'[z] = Moved(number, x, y)[z]
  BY <1>3, <1>4, <1>5 DEF number, Moved
<1>8. Moved(number, x, y) \in [Places -> Int]
  BY <1>6 DEF Moved
<1> QED BY <1>6, <1>7, <1>8

(* What leaves one summand and enters another stays in the sum.            *)
LEMMA SumKept ==
    \A s, e, a, b, f, g \in Int : s + e + a + b + f + g = s + e + (a - 1) + b + (f + 1) + g
OBVIOUS

(* The same, where the other is the last.                                  *)
LEMMA SumKeptLast ==
    \A s, a, b, d, e, f \in Int : s + a + b + d + e + f = s + (a - 1) + b + d + e + (f + 1)
OBVIOUS

(* Each step that moves a goroutine moves the counter that it owes.        *)
LEMMA BalanceMoves ==
    ASSUME NEW c \in [Counters -> Nat], NEW n \in [Places -> Nat], NEW h, Balance(c, n, h)
    PROVE  /\ Balance(Added(c, "gets"), Moved(n, "idle", "get"), h)
           /\ Balance(Added(c, "hits"), Moved(n, "get", "requestHit"), h)
           /\ Balance(Added(c, "misses"), Moved(n, "get", "requestMiss"), h)
           /\ Balance(Added(c, "cacheRequests"), Moved(n, "requestHit", "outcomeHit"), h)
           /\ Balance(Added(c, "cacheRequests"), Moved(n, "requestMiss", "outcomeMiss"), h)
           /\ Balance(Added(c, "cacheHits"), Moved(n, "outcomeHit", "observe"), h)
           /\ Balance(Added(c, "cacheMisses"), Moved(n, "outcomeMiss", "compile"), h)
           /\ Balance(c, Moved(n, "compile", "set"), h)
           /\ Balance(c, Moved(n, "compile", "observeFailed"), h)
           /\ Balance(Added(c, "sets"), Moved(n, "set", "store"), h)
           /\ Balance(c, Moved(n, "store", "observe"), h)
           /\ Balance(Added(c, "compileCount"), Moved(n, "observeFailed", "error"), h)
           /\ Balance(Added(c, "compileCount"), Moved(n, "observe", "eval"), h)
           /\ \A g : Balance(Added(c, "compileCount"), Moved(n, "observe", "idle"), g)
           /\ h # {} => Balance(c, Moved(n, "idle", "eval"), h)
           /\ Balance(Added(c, "compileErrors"), Moved(n, "error", "idle"), h)
           /\ Balance(Added(c, "evalCount"), Moved(n, "eval", "idle"), h)
           /\ Balance(Added(c, "evalCount"), Moved(n, "eval", "evalError"), h)
           /\ Balance(Added(c, "evalErrors"), Moved(n, "evalError", "idle"), h)
           /\ \A x, y \in Counters \cup {"idle", "reported"} : x # y => Balance(c, Moved(n, x, y), h)
<1> USE DEF Balance, Moved, Added, Places, Counters, CacheCounters, ObserverCounters
<1>1. Balance(Added(c, "gets"), Moved(n, "idle", "get"), h)
  OBVIOUS
<1>2. Balance(Added(c, "hits"), Moved(n, "get", "requestHit"), h)
  OBVIOUS
<1>3. Balance(Added(c, "misses"), Moved(n, "get", "requestMiss"), h)
  OBVIOUS
<1>4. Balance(Added(c, "cacheRequests"), Moved(n, "requestHit", "outcomeHit"), h)
  OBVIOUS
<1>5. Balance(Added(c, "cacheRequests"), Moved(n, "requestMiss", "outcomeMiss"), h)
  OBVIOUS
<1>6. Balance(Added(c, "cacheHits"), Moved(n, "outcomeHit", "observe"), h)
  <2> DEFINE d == Added(c, "cacheHits")
             m == Moved(n, "outcomeHit", "observe")
  <2>1. /\ d["gets"] = c["gets"] /\ d["hits"] = c["hits"] /\ d["misses"] = c["misses"]
        /\ d["sets"] = c["sets"] /\ d["compileCount"] = c["compileCount"] /\ d["compileErrors"] = c["compileErrors"]
        /\ d["evalCount"] = c["evalCount"] /\ d["evalErrors"] = c["evalErrors"] /\ d["cacheRequests"] = c["cacheRequests"]
        /\ d["cacheHits"] = c["cacheHits"] + 1 /\ d["cacheMisses"] = c["cacheMisses"]
    OBVIOUS
  <2>2. /\ m["get"] = n["get"] /\ m["requestHit"] = n["requestHit"] /\ m["requestMiss"] = n["requestMiss"]
        /\ m["outcomeHit"] = n["outcomeHit"] - 1 /\ m["outcomeMiss"] = n["outcomeMiss"] /\ m["compile"] = n["compile"]
        /\ m["set"] = n["set"] /\ m["store"] = n["store"] /\ m["observe"] = n["observe"] + 1
        /\ m["observeFailed"] = n["observeFailed"] /\ m["error"] = n["error"] /\ m["eval"] = n["eval"]
        /\ m["evalError"] = n["evalError"]
    OBVIOUS
  <2>3. /\ \A z \in Counters : c[z] \in Nat
        /\ \A z \in Places : n[z] \in Nat
    OBVIOUS
  <2> HIDE DEF d, m
  <2> QED BY <2>1, <2>2, <2>3, SMTT(30)
<1>7. Balance(Added(c, "cacheMisses"), Moved(n, "outcomeMiss", "compile"), h)
  <2> DEFINE d == Added(c, "cacheMisses")
             m == Moved(n, "outcomeMiss", "compile")
  <2>1. /\ d["gets"] = c["gets"] /\ d["hits"] = c["hits"] /\ d["misses"] = c["misses"]
        /\ d["sets"] = c["sets"] /\ d["compileCount"] = c["compileCount"] /\ d["compileErrors"] = c["compileErrors"]
        /\ d["evalCount"] = c["evalCount"] /\ d["evalErrors"] = c["evalErrors"] /\ d["cacheRequests"] = c["cacheRequests"]
        /\ d["cacheHits"] = c["cacheHits"] /\ d["cacheMisses"] = c["cacheMisses"] + 1
    OBVIOUS
  <2>2. /\ m["get"] = n["get"] /\ m["requestHit"] = n["requestHit"] /\ m["requestMiss"] = n["requestMiss"]
        /\ m["outcomeHit"] = n["outcomeHit"] /\ m["outcomeMiss"] = n["outcomeMiss"] - 1 /\ m["compile"] = n["compile"] + 1
        /\ m["set"] = n["set"] /\ m["store"] = n["store"] /\ m["observe"] = n["observe"]
        /\ m["observeFailed"] = n["observeFailed"] /\ m["error"] = n["error"] /\ m["eval"] = n["eval"]
        /\ m["evalError"] = n["evalError"]
    OBVIOUS
  <2>3. /\ \A z \in Counters : c[z] \in Nat
        /\ \A z \in Places : n[z] \in Nat
    OBVIOUS
  <2> HIDE DEF d, m
  <2> QED BY <2>1, <2>2, <2>3, SMTT(30)
<1>8. Balance(c, Moved(n, "compile", "set"), h)
  OBVIOUS
<1>9. Balance(c, Moved(n, "compile", "observeFailed"), h)
  <2> DEFINE m == Moved(n, "compile", "observeFailed")
  <2>1. /\ m["get"] = n["get"] /\ m["requestHit"] = n["requestHit"] /\ m["requestMiss"] = n["requestMiss"]
        /\ m["outcomeHit"] = n["outcomeHit"] /\ m["outcomeMiss"] = n["outcomeMiss"] /\ m["compile"] = n["compile"] - 1
        /\ m["set"] = n["set"] /\ m["store"] = n["store"] /\ m["observe"] = n["observe"]
        /\ m["observeFailed"] = n["observeFailed"] + 1 /\ m["error"] = n["error"] /\ m["eval"] = n["eval"]
        /\ m["evalError"] = n["evalError"]
    OBVIOUS
  <2>2. /\ n["compile"] \in Int /\ n["set"] \in Int /\ n["store"] \in Int /\ n["observe"] \in Int
        /\ n["observeFailed"] \in Int /\ n["error"] \in Int /\ c["cacheMisses"] \in Int
        /\ c["sets"] \in Int /\ c["compileErrors"] \in Int /\ c["compileCount"] \in Int
        /\ c["cacheHits"] \in Int
    OBVIOUS
  <2>3. /\ c["cacheMisses"] = c["sets"] + c["compileErrors"]
                                + n["compile"] + n["set"] + n["observeFailed"] + n["error"]
        /\ c["cacheHits"] + c["cacheMisses"] =
               c["compileCount"] + n["compile"] + n["set"] + n["store"] + n["observe"] + n["observeFailed"]
    OBVIOUS
  <2> HIDE DEF m, Balance
  <2>4. /\ c["cacheMisses"] = c["sets"] + c["compileErrors"]
                                + m["compile"] + m["set"] + m["observeFailed"] + m["error"]
        /\ c["cacheHits"] + c["cacheMisses"] =
               c["compileCount"] + m["compile"] + m["set"] + m["store"] + m["observe"] + m["observeFailed"]
    <3>1. c["sets"] + c["compileErrors"] + n["compile"] + n["set"] + n["observeFailed"] + n["error"]
              = c["sets"] + c["compileErrors"] + (n["compile"] - 1) + n["set"]
                    + (n["observeFailed"] + 1) + n["error"]
      BY <2>2, SumKept
    <3>2. c["compileCount"] + n["compile"] + n["set"] + n["store"] + n["observe"] + n["observeFailed"]
              = c["compileCount"] + (n["compile"] - 1) + n["set"] + n["store"] + n["observe"]
                    + (n["observeFailed"] + 1)
      BY <2>2, SumKeptLast
    <3> QED BY <2>1, <2>3, <3>1, <3>2, Zenon
  <2> QED BY <2>1, <2>4 DEF Balance
<1>10. Balance(Added(c, "sets"), Moved(n, "set", "store"), h)
  OBVIOUS
<1>11. Balance(c, Moved(n, "store", "observe"), h)
  OBVIOUS
<1>12. Balance(Added(c, "compileCount"), Moved(n, "observeFailed", "error"), h)
  OBVIOUS
<1>13. Balance(Added(c, "compileCount"), Moved(n, "observe", "eval"), h)
  OBVIOUS
<1>14. \A g : Balance(Added(c, "compileCount"), Moved(n, "observe", "idle"), g)
  OBVIOUS
<1>15. Balance(Added(c, "compileErrors"), Moved(n, "error", "idle"), h)
  OBVIOUS
<1>16. Balance(Added(c, "evalCount"), Moved(n, "eval", "idle"), h)
  OBVIOUS
<1>17. Balance(Added(c, "evalCount"), Moved(n, "eval", "evalError"), h)
  OBVIOUS
<1>18. Balance(Added(c, "evalErrors"), Moved(n, "evalError", "idle"), h)
  OBVIOUS
<1>19. ASSUME h # {} PROVE Balance(c, Moved(n, "idle", "eval"), h)
  BY <1>19
<1>20. ASSUME NEW x \in Counters \cup {"idle", "reported"}, NEW y \in Counters \cup {"idle", "reported"}, x # y
       PROVE  Balance(c, Moved(n, x, y), h)
  <2>1. \A z \in Places \ {x, y} : Moved(n, x, y)[z] = n[z]
    OBVIOUS
  <2>2. \A z \in {"get", "requestHit", "requestMiss", "outcomeHit", "outcomeMiss",
             "compile", "set", "store", "observe", "observeFailed", "error", "eval", "evalError"} :
            Moved(n, x, y)[z] = n[z]
    BY <2>1
  <2> HIDE DEF Moved
  <2> QED BY <2>2
<1> HIDE DEF Balance
<1> QED BY <1>1, <1>2, <1>3, <1>4, <1>5, <1>6, <1>7, <1>8, <1>9, <1>10, <1>11, <1>12, <1>13,
           <1>14, <1>15, <1>16, <1>17, <1>18, <1>19, <1>20

-----------------------------------------------------------------------------
(* What every step leaves of the calls of others                           *)

(* The others stand where they stood.                                      *)
LEMMA OthersStand ==
    ASSUME NEW p \in Procs, \A q \in Procs \ {p} : pc'[q] = pc[q] /\ reg'[q] = reg[q]
    PROVE  \A q \in Procs \ {p} : Place(q)' = Place(q)
BY DEF Place

(* A step moves the pc of one goroutine.                                   *)
LEMMA MovesOne ==
    ASSUME TypeOK, NEW p \in Procs, NEW from, NEW to \in Pcs, Goto(p, from, to)
    PROVE  /\ pc' \in [Procs -> Pcs] /\ pc[p] = from /\ pc'[p] = to
           /\ \A q \in Procs \ {p} : pc'[q] = pc[q]
BY DEF TypeOK, Goto

(* Add loses no count.                                                     *)
LEMMA AddAdds ==
    ASSUME TypeOK, NEW c \in Counters, Add(c)
    PROVE  /\ count' \in [Counters -> Nat] /\ count' = Added(count, c)
           /\ \A d \in Counters : count'[d] >= count[d]
BY DEF TypeOK, Add, Added

(* Counters that go up disturb no report under way.                        *)
LEMMA ReportKept ==
    ASSUME TypeOK, ReportInv, NEW p \in Procs,
           count' \in [Counters -> Nat], \A d \in Counters : count'[d] >= count[d],
           \A q \in Procs \ {p} : pc'[q] = pc[q] /\ reg'[q] = reg[q],
           pc'[p] \notin Counters \cup {"reported"}
    PROVE  ReportInv'
<1> SUFFICES ASSUME NEW q \in Procs
             PROVE  LET r == reg'[q].report
                        pending == reg'[q].pending
                    IN  /\ pc'[q] \in CacheCounters => r["cacheRequests"] = 0
                        /\ pc'[q] \in ObserverCounters => r["gets"] = 0
                        /\ pc'[q] = "hits" => r["gets"] <= count'["hits"] + count'["misses"] + pending
                        /\ pc'[q] = "misses" => r["gets"] <= r["hits"] + count'["misses"] + pending
                        /\ pc'[q] \in {"sets", "reported"} => r["gets"] <= r["hits"] + r["misses"] + pending
                        /\ pc'[q] = "cacheHits" =>
                               r["cacheRequests"] <= count'["cacheHits"] + count'["cacheMisses"] + pending
                        /\ pc'[q] = "cacheMisses" =>
                               r["cacheRequests"] <= r["cacheHits"] + count'["cacheMisses"] + pending
                        /\ pc'[q] = "reported" =>
                               r["cacheRequests"] <= r["cacheHits"] + r["cacheMisses"] + pending
  BY DEF ReportInv
<1>1. CASE q = p
  BY <1>1 DEF Counters, CacheCounters, ObserverCounters
<1>2. CASE q # p
  <2> DEFINE r == reg[q].report
             pending == reg[q].pending
  <2>1. pc'[q] = pc[q] /\ reg'[q] = reg[q]
    BY <1>2
  <2>2. reg[q] \in Registers
    BY DEF TypeOK
  <2>3. /\ r["gets"] \in Nat /\ r["hits"] \in Nat /\ r["misses"] \in Nat /\ pending \in Nat
        /\ r["cacheRequests"] \in Nat /\ r["cacheHits"] \in Nat /\ r["cacheMisses"] \in Nat
    BY <2>2 DEF Registers, Report, Counters, CacheCounters, ObserverCounters
  <2>4. /\ count["hits"] \in Nat /\ count["misses"] \in Nat
        /\ count'["hits"] \in Nat /\ count'["misses"] \in Nat
        /\ count["cacheHits"] \in Nat /\ count["cacheMisses"] \in Nat
        /\ count'["cacheHits"] \in Nat /\ count'["cacheMisses"] \in Nat
        /\ count'["hits"] >= count["hits"] /\ count'["misses"] >= count["misses"]
        /\ count'["cacheHits"] >= count["cacheHits"]
        /\ count'["cacheMisses"] >= count["cacheMisses"]
    BY DEF TypeOK, Counters, CacheCounters, ObserverCounters
  <2>5. /\ pc[q] \in CacheCounters => r["cacheRequests"] = 0
        /\ pc[q] \in ObserverCounters => r["gets"] = 0
        /\ pc[q] = "hits" => r["gets"] <= count["hits"] + count["misses"] + pending
        /\ pc[q] = "misses" => r["gets"] <= r["hits"] + count["misses"] + pending
        /\ pc[q] \in {"sets", "reported"} => r["gets"] <= r["hits"] + r["misses"] + pending
        /\ pc[q] = "cacheHits" =>
               r["cacheRequests"] <= count["cacheHits"] + count["cacheMisses"] + pending
        /\ pc[q] = "cacheMisses" =>
               r["cacheRequests"] <= r["cacheHits"] + count["cacheMisses"] + pending
        /\ pc[q] = "reported" =>
               r["cacheRequests"] <= r["cacheHits"] + r["cacheMisses"] + pending
    BY DEF ReportInv
  <2> HIDE DEF r, pending
  <2>6. /\ pc[q] = "hits" => r["gets"] <= count'["hits"] + count'["misses"] + pending
        /\ pc[q] = "misses" => r["gets"] <= r["hits"] + count'["misses"] + pending
        /\ pc[q] = "cacheHits" =>
               r["cacheRequests"] <= count'["cacheHits"] + count'["cacheMisses"] + pending
        /\ pc[q] = "cacheMisses" =>
               r["cacheRequests"] <= r["cacheHits"] + count'["cacheMisses"] + pending
    BY <2>3, <2>4, <2>5
  <2> QED BY <2>1, <2>5, <2>6 DEF r, pending
<1> QED BY <1>1, <1>2

(* A goroutine that neither compiles nor holds a program leaves the bound  *)
(* on compilations alone.                                                  *)
LEMMA CompileKept ==
    ASSUME CompileInv, NEW p \in Procs,
           \A q \in Procs \ {p} : pc'[q] = pc[q] /\ reg'[q] = reg[q],
           \A k \in Keys : IF items[k] = None THEN p \in Made(k)' <=> p \in Made(k)
                           ELSE p \in Missed(k)' <=> p \in Missed(k),
           UNCHANGED <<items, compiled, deleted>>
    PROVE  CompileInv'
<1>1. ASSUME NEW k \in Keys
      PROVE  IF items[k] = None THEN Made(k)' = Made(k) ELSE Missed(k)' = Missed(k)
  <2>1. \A q \in Procs \ {p} : (q \in Missed(k)' <=> q \in Missed(k)) /\ (q \in Made(k)' <=> q \in Made(k))
    BY DEF Missed, Made
  <2>2. Missed(k) \subseteq Procs /\ Made(k) \subseteq Procs /\ Missed(k)' \subseteq Procs /\ Made(k)' \subseteq Procs
    BY DEF Missed, Made
  <2>3. CASE items[k] = None
    <3>1. p \in Made(k)' <=> p \in Made(k)
      BY <2>3
    <3>2. \A q \in Procs : q \in Made(k)' <=> q \in Made(k)
      BY <2>1, <3>1
    <3>3. Made(k)' = Made(k)
      BY <2>2, <3>2
    <3> QED BY <2>3, <3>3
  <2>4. CASE items[k] # None
    <3>1. p \in Missed(k)' <=> p \in Missed(k)
      BY <2>4
    <3>2. \A q \in Procs : q \in Missed(k)' <=> q \in Missed(k)
      BY <2>1, <3>1
    <3>3. Missed(k)' = Missed(k)
      BY <2>2, <3>2
    <3> QED BY <2>4, <3>3
  <2> QED BY <2>3, <2>4
<1> QED BY <1>1 DEF CompileInv

(* Between two places that owe a counter each the balance moves.           *)
LEMMA Balanced ==
    ASSUME TypeOK, Balance(count, number, handed), NEW p \in Procs,
           NEW x \in Places, NEW y \in Places, x # y, Place(p) = x, Place(p)' = y,
           \A q \in Procs \ {p} : pc'[q] = pc[q] /\ reg'[q] = reg[q],
           NEW d, count' = d, NEW h, handed' = h,
           \A n \in [Places -> Nat] : Balance(count, n, handed) => Balance(d, Moved(n, x, y), h)
    PROVE  Balance(count, number, handed)'
<1>1. number \in [Places -> Nat] /\ number' = Moved(number, x, y)
  BY OthersStand, NumberMoves
<1>2. Balance(d, number', h)
  BY <1>1
<1>3. Balance(count', number', handed')
  BY <1>2
<1> QED BY <1>3 DEF Balance

(* A step that only counts leaves the rest of the invariant.               *)
LEMMA AddKeeps ==
    ASSUME Inv, NEW p \in Procs, NEW c \in Counters,
           NEW from \in Pcs \ Counters, NEW to \in Pcs \ (Counters \cup {"reported"}),
           CountAt(p, c, from, to),
           to \in Working => from \in Working,
           to \in {"set", "store"} <=> from \in {"set", "store"},
           to \in {"request", "outcome"} => from \in {"request", "outcome"},
           from \in {"request", "outcome"} => to \in {"request", "outcome"} \/ reg[p].hit \/ to = "compile",
           to = "compile" => from = "outcome" /\ ~reg[p].hit, from # "compile"
    PROVE  /\ TypeOK' /\ CallsInv' /\ ReportInv' /\ CompileInv'
           /\ count' = Added(count, c) /\ reg' = reg /\ pc[p] = from /\ pc'[p] = to
           /\ \A q \in Procs \ {p} : pc'[q] = pc[q] /\ reg'[q] = reg[q]
<1>1. Goto(p, from, to) /\ Add(c) /\ UNCHANGED <<items, reg, ops, compiled, deleted>>
  BY DEF CountAt
<1>2. TypeOK /\ CallsInv /\ ReportInv /\ CompileInv
  BY DEF Inv
<1>3. /\ pc' \in [Procs -> Pcs] /\ pc[p] = from /\ pc'[p] = to
      /\ \A q \in Procs \ {p} : pc'[q] = pc[q]
  BY <1>1, <1>2, MovesOne
<1>4. /\ count' \in [Counters -> Nat] /\ count' = Added(count, c)
      /\ \A d \in Counters : count'[d] >= count[d]
  BY <1>1, <1>2, AddAdds
<1>5. TypeOK'
  BY <1>1, <1>2, <1>3, <1>4 DEF TypeOK
<1>6. CallsInv'
  BY <1>1, <1>2, <1>3 DEF CallsInv, Counters
<1>7. ReportInv'
  BY <1>1, <1>2, <1>3, <1>4, ReportKept
<1>8. CompileInv'
  <2>1. ASSUME NEW k \in Keys
        PROVE  (p \in Missed(k)' <=> p \in Missed(k)) /\ (p \in Made(k)' <=> p \in Made(k))
    BY <1>1, <1>3 DEF Missed, Made
  <2> QED BY <1>1, <1>2, <1>3, <2>1, CompileKept
<1> QED BY <1>1, <1>3, <1>4, <1>5, <1>6, <1>7, <1>8

-----------------------------------------------------------------------------
(* The steps that only count                                               *)

(* ObserveCache counts the request.                                        *)
LEMMA CountRequestKeeps ==
    ASSUME Inv, NEW p \in Procs, CountRequest(p)
    PROVE  Inv'
<1>0. TypeOK /\ CallsInv /\ Balance(count, number, handed)
  BY DEF Inv
<1>1. CASE AddAt(p, "cacheRequests", "request", "outcome") /\ reg[p].hit
  <2>1. pc[p] = "request"
    BY <1>1 DEF AddAt, CountAt, Goto
  <2>2. /\ TypeOK' /\ CallsInv' /\ ReportInv' /\ CompileInv'
        /\ count' = Added(count, "cacheRequests") /\ reg' = reg /\ handed' = handed
        /\ pc[p] = "request" /\ pc'[p] = "outcome"
        /\ \A q \in Procs \ {p} : pc'[q] = pc[q] /\ reg'[q] = reg[q]
    BY <1>1, AddKeeps DEF AddAt, Pcs, Working, Places, Counters, CacheCounters, ObserverCounters
  <2>3. Place(p) = "requestHit" /\ Place(p)' = "outcomeHit"
    BY <1>0, <1>1, <2>2 DEF Place, CallsInv, Working
  <2>4. Balance(count, number, handed)'
    <3>1. \A n \in [Places -> Nat] :
              Balance(count, n, handed)
                  => Balance(Added(count, "cacheRequests"), Moved(n, "requestHit", "outcomeHit"), handed)
      BY <1>0, BalanceMoves DEF TypeOK
    <3> QED BY <1>0, <2>2, <2>3, <3>1, Balanced DEF Places
  <2> QED BY <2>2, <2>4 DEF Inv
<1>2. CASE AddAt(p, "cacheRequests", "request", "outcome") /\ ~reg[p].hit
  <2>1. pc[p] = "request"
    BY <1>2 DEF AddAt, CountAt, Goto
  <2>2. /\ TypeOK' /\ CallsInv' /\ ReportInv' /\ CompileInv'
        /\ count' = Added(count, "cacheRequests") /\ reg' = reg /\ handed' = handed
        /\ pc[p] = "request" /\ pc'[p] = "outcome"
        /\ \A q \in Procs \ {p} : pc'[q] = pc[q] /\ reg'[q] = reg[q]
    BY <1>2, AddKeeps DEF AddAt, Pcs, Working, Places, Counters, CacheCounters, ObserverCounters
  <2>3. Place(p) = "requestMiss" /\ Place(p)' = "outcomeMiss"
    BY <1>0, <1>2, <2>2 DEF Place, CallsInv, Working
  <2>4. Balance(count, number, handed)'
    <3>1. \A n \in [Places -> Nat] :
              Balance(count, n, handed)
                  => Balance(Added(count, "cacheRequests"), Moved(n, "requestMiss", "outcomeMiss"), handed)
      BY <1>0, BalanceMoves DEF TypeOK
    <3> QED BY <1>0, <2>2, <2>3, <3>1, Balanced DEF Places
  <2> QED BY <2>2, <2>4 DEF Inv
<1>3.
      \/ AddAt(p, "cacheRequests", "request", "outcome") /\ reg[p].hit
      \/ AddAt(p, "cacheRequests", "request", "outcome") /\ ~reg[p].hit
  BY <1>0 DEF CountRequest, TypeOK, Registers
<1> QED BY <1>1, <1>2, <1>3

(* ObserveCache counts the hit or the miss.                                *)
LEMMA CountOutcomeKeeps ==
    ASSUME Inv, NEW p \in Procs, CountOutcome(p)
    PROVE  Inv'
<1>0. TypeOK /\ CallsInv /\ Balance(count, number, handed)
  BY DEF Inv
<1>1. CASE AddAt(p, "cacheHits", "outcome", "observe") /\ reg[p].hit
  <2>1. pc[p] = "outcome"
    BY <1>1 DEF AddAt, CountAt, Goto
  <2>2. /\ TypeOK' /\ CallsInv' /\ ReportInv' /\ CompileInv'
        /\ count' = Added(count, "cacheHits") /\ reg' = reg /\ handed' = handed
        /\ pc[p] = "outcome" /\ pc'[p] = "observe"
        /\ \A q \in Procs \ {p} : pc'[q] = pc[q] /\ reg'[q] = reg[q]
    BY <1>1, AddKeeps DEF AddAt, Pcs, Working, Places, Counters, CacheCounters, ObserverCounters
  <2>3. Place(p) = "outcomeHit" /\ Place(p)' = "observe"
    BY <1>0, <1>1, <2>2 DEF Place, CallsInv, Working
  <2>4. Balance(count, number, handed)'
    <3>1. \A n \in [Places -> Nat] :
              Balance(count, n, handed)
                  => Balance(Added(count, "cacheHits"), Moved(n, "outcomeHit", "observe"), handed)
      BY <1>0, BalanceMoves DEF TypeOK
    <3> QED BY <1>0, <2>2, <2>3, <3>1, Balanced DEF Places
  <2> QED BY <2>2, <2>4 DEF Inv
<1>2. CASE AddAt(p, "cacheMisses", "outcome", "compile") /\ ~reg[p].hit
  <2>1. pc[p] = "outcome"
    BY <1>2 DEF AddAt, CountAt, Goto
  <2>2. /\ TypeOK' /\ CallsInv' /\ ReportInv' /\ CompileInv'
        /\ count' = Added(count, "cacheMisses") /\ reg' = reg /\ handed' = handed
        /\ pc[p] = "outcome" /\ pc'[p] = "compile"
        /\ \A q \in Procs \ {p} : pc'[q] = pc[q] /\ reg'[q] = reg[q]
    BY <1>2, AddKeeps DEF AddAt, Pcs, Working, Places, Counters, CacheCounters, ObserverCounters
  <2>3. Place(p) = "outcomeMiss" /\ Place(p)' = "compile"
    BY <1>0, <1>2, <2>2 DEF Place, CallsInv, Working
  <2>4. Balance(count, number, handed)'
    <3>1. \A n \in [Places -> Nat] :
              Balance(count, n, handed)
                  => Balance(Added(count, "cacheMisses"), Moved(n, "outcomeMiss", "compile"), handed)
      BY <1>0, BalanceMoves DEF TypeOK
    <3> QED BY <1>0, <2>2, <2>3, <3>1, Balanced DEF Places
  <2> QED BY <2>2, <2>4 DEF Inv
<1>3.
      \/ AddAt(p, "cacheHits", "outcome", "observe") /\ reg[p].hit
      \/ AddAt(p, "cacheMisses", "outcome", "compile") /\ ~reg[p].hit
  BY <1>0 DEF CountOutcome, TypeOK, Registers
<1> QED BY <1>1, <1>2, <1>3

(* Set counts itself before its lock.                                      *)
LEMMA CountSetKeeps ==
    ASSUME Inv, NEW p \in Procs, CountSet(p)
    PROVE  Inv'
<1>0. TypeOK /\ CallsInv /\ Balance(count, number, handed)
  BY DEF Inv
<1>1. CASE AddAt(p, "sets", "set", "store")
  <2>1. pc[p] = "set"
    BY <1>1 DEF AddAt, CountAt, Goto
  <2>2. /\ TypeOK' /\ CallsInv' /\ ReportInv' /\ CompileInv'
        /\ count' = Added(count, "sets") /\ reg' = reg /\ handed' = handed
        /\ pc[p] = "set" /\ pc'[p] = "store"
        /\ \A q \in Procs \ {p} : pc'[q] = pc[q] /\ reg'[q] = reg[q]
    BY <1>1, AddKeeps DEF AddAt, Pcs, Working, Places, Counters, CacheCounters, ObserverCounters
  <2>3. Place(p) = "set" /\ Place(p)' = "store"
    BY <1>0, <1>1, <2>2 DEF Place, CallsInv, Working
  <2>4. Balance(count, number, handed)'
    <3>1. \A n \in [Places -> Nat] :
              Balance(count, n, handed)
                  => Balance(Added(count, "sets"), Moved(n, "set", "store"), handed)
      BY <1>0, BalanceMoves DEF TypeOK
    <3> QED BY <1>0, <2>2, <2>3, <3>1, Balanced DEF Places
  <2> QED BY <2>2, <2>4 DEF Inv
<1>2. (AddAt(p, "sets", "set", "store"))
  BY <1>0 DEF CountSet
<1> QED BY <1>1, <1>2

(* ObserveCompile counts the compilation, and a failure after it.          *)
LEMMA ObserveCompileKeeps ==
    ASSUME Inv, NEW p \in Procs, ObserveCompile(p)
    PROVE  Inv'
<1>0. TypeOK /\ CallsInv /\ Balance(count, number, handed)
  BY DEF Inv
<1>1. CASE AddAt(p, "compileCount", "observe", "error") /\ reg[p].failed
  <2>1. pc[p] = "observe"
    BY <1>1 DEF AddAt, CountAt, Goto
  <2>2. /\ TypeOK' /\ CallsInv' /\ ReportInv' /\ CompileInv'
        /\ count' = Added(count, "compileCount") /\ reg' = reg /\ handed' = handed
        /\ pc[p] = "observe" /\ pc'[p] = "error"
        /\ \A q \in Procs \ {p} : pc'[q] = pc[q] /\ reg'[q] = reg[q]
    BY <1>1, AddKeeps DEF AddAt, Pcs, Working, Places, Counters, CacheCounters, ObserverCounters
  <2>3. Place(p) = "observeFailed" /\ Place(p)' = "error"
    BY <1>0, <1>1, <2>2 DEF Place, CallsInv, Working
  <2>4. Balance(count, number, handed)'
    <3>1. \A n \in [Places -> Nat] :
              Balance(count, n, handed)
                  => Balance(Added(count, "compileCount"), Moved(n, "observeFailed", "error"), handed)
      BY <1>0, BalanceMoves DEF TypeOK
    <3> QED BY <1>0, <2>2, <2>3, <3>1, Balanced DEF Places
  <2> QED BY <2>2, <2>4 DEF Inv
<1>2. CASE AddAt(p, "compileCount", "observe", "eval") /\ ~reg[p].failed
  <2>1. pc[p] = "observe"
    BY <1>2 DEF AddAt, CountAt, Goto
  <2>2. /\ TypeOK' /\ CallsInv' /\ ReportInv' /\ CompileInv'
        /\ count' = Added(count, "compileCount") /\ reg' = reg /\ handed' = handed
        /\ pc[p] = "observe" /\ pc'[p] = "eval"
        /\ \A q \in Procs \ {p} : pc'[q] = pc[q] /\ reg'[q] = reg[q]
    BY <1>2, AddKeeps DEF AddAt, Pcs, Working, Places, Counters, CacheCounters, ObserverCounters
  <2>3. Place(p) = "observe" /\ Place(p)' = "eval"
    BY <1>0, <1>2, <2>2 DEF Place, CallsInv, Working
  <2>4. Balance(count, number, handed)'
    <3>1. \A n \in [Places -> Nat] :
              Balance(count, n, handed)
                  => Balance(Added(count, "compileCount"), Moved(n, "observe", "eval"), handed)
      BY <1>0, BalanceMoves DEF TypeOK
    <3> QED BY <1>0, <2>2, <2>3, <3>1, Balanced DEF Places
  <2> QED BY <2>2, <2>4 DEF Inv
<1>3. CASE CountAt(p, "compileCount", "observe", "idle") /\ ~reg[p].failed
  <2>1. pc[p] = "observe"
    BY <1>3 DEF CountAt, Goto
  <2>2. /\ TypeOK' /\ CallsInv' /\ ReportInv' /\ CompileInv'
        /\ count' = Added(count, "compileCount") /\ reg' = reg
        /\ pc[p] = "observe" /\ pc'[p] = "idle"
        /\ \A q \in Procs \ {p} : pc'[q] = pc[q] /\ reg'[q] = reg[q]
    BY <1>3, AddKeeps DEF Pcs, Working, Places, Counters, CacheCounters, ObserverCounters
  <2>3. Place(p) = "observe" /\ Place(p)' = "idle"
    BY <1>0, <1>3, <2>2 DEF Place, CallsInv, Working
  <2>4. Balance(count, number, handed)'
    <3>1. \A n \in [Places -> Nat] :
              Balance(count, n, handed)
                  => Balance(Added(count, "compileCount"), Moved(n, "observe", "idle"), handed')
      BY <1>0, BalanceMoves DEF TypeOK
    <3> QED BY <1>0, <2>2, <2>3, <3>1, Balanced DEF Places
  <2> QED BY <2>2, <2>4 DEF Inv
<1>4.
      \/ AddAt(p, "compileCount", "observe", "error") /\ reg[p].failed
      \/ AddAt(p, "compileCount", "observe", "eval") /\ ~reg[p].failed
      \/ CountAt(p, "compileCount", "observe", "idle") /\ ~reg[p].failed
  BY <1>0 DEF ObserveCompile, AddAt, TypeOK, Registers
<1> QED BY <1>1, <1>2, <1>3, <1>4

(* ObserveCompile counts the failure.                                      *)
LEMMA CountCompileErrorKeeps ==
    ASSUME Inv, NEW p \in Procs, CountCompileError(p)
    PROVE  Inv'
<1>0. TypeOK /\ CallsInv /\ Balance(count, number, handed)
  BY DEF Inv
<1>1. CASE AddAt(p, "compileErrors", "error", "idle")
  <2>1. pc[p] = "error"
    BY <1>1 DEF AddAt, CountAt, Goto
  <2>2. /\ TypeOK' /\ CallsInv' /\ ReportInv' /\ CompileInv'
        /\ count' = Added(count, "compileErrors") /\ reg' = reg /\ handed' = handed
        /\ pc[p] = "error" /\ pc'[p] = "idle"
        /\ \A q \in Procs \ {p} : pc'[q] = pc[q] /\ reg'[q] = reg[q]
    BY <1>1, AddKeeps DEF AddAt, Pcs, Working, Places, Counters, CacheCounters, ObserverCounters
  <2>3. Place(p) = "error" /\ Place(p)' = "idle"
    BY <1>0, <1>1, <2>2 DEF Place, CallsInv, Working
  <2>4. Balance(count, number, handed)'
    <3>1. \A n \in [Places -> Nat] :
              Balance(count, n, handed)
                  => Balance(Added(count, "compileErrors"), Moved(n, "error", "idle"), handed)
      BY <1>0, BalanceMoves DEF TypeOK
    <3> QED BY <1>0, <2>2, <2>3, <3>1, Balanced DEF Places
  <2> QED BY <2>2, <2>4 DEF Inv
<1>2. (AddAt(p, "compileErrors", "error", "idle"))
  BY <1>0 DEF CountCompileError
<1> QED BY <1>1, <1>2

(* ObserveEval counts the failure.                                         *)
LEMMA CountEvalErrorKeeps ==
    ASSUME Inv, NEW p \in Procs, CountEvalError(p)
    PROVE  Inv'
<1>0. TypeOK /\ CallsInv /\ Balance(count, number, handed)
  BY DEF Inv
<1>1. CASE AddAt(p, "evalErrors", "evalError", "idle")
  <2>1. pc[p] = "evalError"
    BY <1>1 DEF AddAt, CountAt, Goto
  <2>2. /\ TypeOK' /\ CallsInv' /\ ReportInv' /\ CompileInv'
        /\ count' = Added(count, "evalErrors") /\ reg' = reg /\ handed' = handed
        /\ pc[p] = "evalError" /\ pc'[p] = "idle"
        /\ \A q \in Procs \ {p} : pc'[q] = pc[q] /\ reg'[q] = reg[q]
    BY <1>1, AddKeeps DEF AddAt, Pcs, Working, Places, Counters, CacheCounters, ObserverCounters
  <2>3. Place(p) = "evalError" /\ Place(p)' = "idle"
    BY <1>0, <1>1, <2>2 DEF Place, CallsInv, Working
  <2>4. Balance(count, number, handed)'
    <3>1. \A n \in [Places -> Nat] :
              Balance(count, n, handed)
                  => Balance(Added(count, "evalErrors"), Moved(n, "evalError", "idle"), handed)
      BY <1>0, BalanceMoves DEF TypeOK
    <3> QED BY <1>0, <2>2, <2>3, <3>1, Balanced DEF Places
  <2> QED BY <2>2, <2>4 DEF Inv
<1>2. (AddAt(p, "evalErrors", "evalError", "idle"))
  BY <1>0 DEF CountEvalError
<1> QED BY <1>1, <1>2

(* ObserveEval counts the evaluation, and a failure after it.              *)
LEMMA ObserveEvalKeeps ==
    ASSUME Inv, NEW p \in Procs, ObserveEval(p)
    PROVE  Inv'
<1>0. TypeOK /\ CallsInv /\ Balance(count, number, handed)
  BY DEF Inv
<1>1. CASE AddAt(p, "evalCount", "eval", "idle")
  <2>1. pc[p] = "eval"
    BY <1>1 DEF AddAt, CountAt, Goto
  <2>2. /\ TypeOK' /\ CallsInv' /\ ReportInv' /\ CompileInv'
        /\ count' = Added(count, "evalCount") /\ reg' = reg /\ handed' = handed
        /\ pc[p] = "eval" /\ pc'[p] = "idle"
        /\ \A q \in Procs \ {p} : pc'[q] = pc[q] /\ reg'[q] = reg[q]
    BY <1>1, AddKeeps DEF AddAt, Pcs, Working, Places, Counters, CacheCounters, ObserverCounters
  <2>3. Place(p) = "eval" /\ Place(p)' = "idle"
    BY <1>0, <1>1, <2>2 DEF Place, CallsInv, Working
  <2>4. Balance(count, number, handed)'
    <3>1. \A n \in [Places -> Nat] :
              Balance(count, n, handed)
                  => Balance(Added(count, "evalCount"), Moved(n, "eval", "idle"), handed)
      BY <1>0, BalanceMoves DEF TypeOK
    <3> QED BY <1>0, <2>2, <2>3, <3>1, Balanced DEF Places
  <2> QED BY <2>2, <2>4 DEF Inv
<1>2. CASE AddAt(p, "evalCount", "eval", "evalError")
  <2>1. pc[p] = "eval"
    BY <1>2 DEF AddAt, CountAt, Goto
  <2>2. /\ TypeOK' /\ CallsInv' /\ ReportInv' /\ CompileInv'
        /\ count' = Added(count, "evalCount") /\ reg' = reg /\ handed' = handed
        /\ pc[p] = "eval" /\ pc'[p] = "evalError"
        /\ \A q \in Procs \ {p} : pc'[q] = pc[q] /\ reg'[q] = reg[q]
    BY <1>2, AddKeeps DEF AddAt, Pcs, Working, Places, Counters, CacheCounters, ObserverCounters
  <2>3. Place(p) = "eval" /\ Place(p)' = "evalError"
    BY <1>0, <1>2, <2>2 DEF Place, CallsInv, Working
  <2>4. Balance(count, number, handed)'
    <3>1. \A n \in [Places -> Nat] :
              Balance(count, n, handed)
                  => Balance(Added(count, "evalCount"), Moved(n, "eval", "evalError"), handed)
      BY <1>0, BalanceMoves DEF TypeOK
    <3> QED BY <1>0, <2>2, <2>3, <3>1, Balanced DEF Places
  <2> QED BY <2>2, <2>4 DEF Inv
<1>3.
      \/ AddAt(p, "evalCount", "eval", "idle")
      \/ AddAt(p, "evalCount", "eval", "evalError")
  BY DEF ObserveEval, AddAt, CountAt
<1> QED BY <1>1, <1>2, <1>3

-----------------------------------------------------------------------------
(* The steps that look, compile and store                                  *)

(* A call begins with its Get counted.                                     *)
LEMMA CompileKeeps ==
    ASSUME Inv, NEW p \in Procs, NEW k \in Keys, NEW op \in {"compile", "eval"}, Compile(p, k, op)
    PROVE  Inv'
<1>0. TypeOK /\ CallsInv /\ Balance(count, number, handed) /\ ReportInv /\ CompileInv
  BY DEF Inv
<1>1. /\ Goto(p, "idle", "get") /\ Add("gets")
      /\ reg' = [reg EXCEPT ![p] = [Idle EXCEPT !.op = op, !.key = k]]
      /\ UNCHANGED <<items, handed, compiled, deleted>>
  BY DEF Compile, Begin
<1>2. /\ pc' \in [Procs -> Pcs] /\ pc[p] = "idle" /\ pc'[p] = "get"
      /\ \A q \in Procs \ {p} : pc'[q] = pc[q]
  BY <1>0, <1>1, MovesOne DEF Pcs, Working
<1>3. /\ count' \in [Counters -> Nat] /\ count' = Added(count, "gets")
      /\ \A d \in Counters : count'[d] >= count[d]
  BY <1>0, <1>1, AddAdds DEF Counters, CacheCounters
<1>4. /\ reg' \in [Procs -> Registers] /\ reg'[p].key = k /\ reg'[p].failed = FALSE
      /\ \A q \in Procs \ {p} : reg'[q] = reg[q]
  BY <1>0, <1>1 DEF TypeOK, Registers, Idle, None, Report
<1>5. TypeOK'
  BY <1>0, <1>1, <1>2, <1>3, <1>4 DEF TypeOK
<1>6. CallsInv'
  BY <1>0, <1>2, <1>4 DEF CallsInv, Working, Counters, CacheCounters, ObserverCounters
<1>7. ReportInv'
  BY <1>0, <1>2, <1>3, <1>4, ReportKept DEF Counters, CacheCounters, ObserverCounters
<1>8. CompileInv'
  <2>1. \A j \in Keys : (p \in Missed(j)' <=> p \in Missed(j)) /\ (p \in Made(j)' <=> p \in Made(j))
    BY <1>2 DEF Missed, Made
  <2> QED BY <1>0, <1>1, <1>2, <1>4, <2>1, CompileKept
<1>9. Balance(count, number, handed)'
  <2>1. Place(p) = "idle" /\ Place(p)' = "get"
    BY <1>2 DEF Place
  <2>2. \A n \in [Places -> Nat] :
            Balance(count, n, handed)
                => Balance(Added(count, "gets"), Moved(n, "idle", "get"), handed)
    BY <1>0, BalanceMoves DEF TypeOK
  <2> QED BY <1>0, <1>1, <1>2, <1>3, <1>4, <2>1, <2>2, Balanced DEF Places
<1> QED BY <1>5, <1>6, <1>7, <1>8, <1>9 DEF Inv

(* Under the read lock the call hits or misses.                            *)
LEMMA GetKeeps ==
    ASSUME Inv, NEW p \in Procs, Get(p)
    PROVE  Inv'
<1>0. TypeOK /\ CallsInv /\ Balance(count, number, handed) /\ ReportInv /\ CompileInv
  BY DEF Inv
<1> DEFINE found == items[key(p)]
           c == IF found # None THEN "hits" ELSE "misses"
           y == IF found # None THEN "requestHit" ELSE "requestMiss"
<1>1. /\ Goto(p, "get", "request") /\ Add(c)
      /\ reg' = [reg EXCEPT ![p].hit = found # None, ![p].program = found]
      /\ UNCHANGED <<items, handed, compiled, deleted>>
  BY DEF Get
<1>2. /\ pc' \in [Procs -> Pcs] /\ pc[p] = "get" /\ pc'[p] = "request"
      /\ \A q \in Procs \ {p} : pc'[q] = pc[q]
  BY <1>0, <1>1, MovesOne DEF Pcs, Working
<1>3. c \in Counters /\ y \in Places /\ y # "get"
  BY DEF Counters, CacheCounters, Places
<1>4. /\ count' \in [Counters -> Nat] /\ count' = Added(count, c)
      /\ \A d \in Counters : count'[d] >= count[d]
  BY <1>0, <1>1, <1>3, AddAdds
<1>5. key(p) \in Keys /\ reg[p].key = key(p) /\ ~reg[p].failed
  BY <1>0, <1>2 DEF CallsInv, Working, key
<1>6. found \in [source : Keys \cup {"none"}, gen : Nat]
  BY <1>0, <1>5 DEF TypeOK
<1>7. /\ reg' \in [Procs -> Registers] /\ reg'[p].key = key(p) /\ ~reg'[p].failed
      /\ reg'[p].hit = (found # None)
      /\ \A q \in Procs \ {p} : reg'[q] = reg[q]
  <2> HIDE DEF found
  <2>1. /\ reg'[p] = [[reg[p] EXCEPT !.hit = found # None] EXCEPT !.program = found]
        /\ \A q \in Procs \ {p} : reg'[q] = reg[q]
    BY <1>0, <1>1 DEF TypeOK
  <2>2. reg[p] \in Registers
    BY <1>0 DEF TypeOK
  <2>3. /\ reg'[p] \in Registers /\ reg'[p].key = reg[p].key /\ reg'[p].failed = reg[p].failed
        /\ reg'[p].hit = (found # None)
    BY <1>6, <2>1, <2>2 DEF Registers
  <2>4. reg' \in [Procs -> Registers]
    BY <1>0, <1>1, <2>1, <2>3 DEF TypeOK
  <2> QED BY <1>5, <2>1, <2>3, <2>4
<1>8. TypeOK'
  BY <1>0, <1>1, <1>2, <1>4, <1>7 DEF TypeOK
<1>9. CallsInv'
  BY <1>0, <1>2, <1>5, <1>7 DEF CallsInv, Working, Counters, CacheCounters, ObserverCounters
<1>10. ReportInv'
  BY <1>0, <1>2, <1>4, <1>7, ReportKept DEF Counters, CacheCounters, ObserverCounters
<1>11. CompileInv'
  <2>1. ASSUME NEW j \in Keys
        PROVE  IF items[j] = None THEN p \in Made(j)' <=> p \in Made(j)
               ELSE p \in Missed(j)' <=> p \in Missed(j)
    BY <1>2, <1>5, <1>7 DEF Missed, Made
  <2> QED BY <1>0, <1>1, <1>2, <1>7, <2>1, CompileKept
<1>12. Balance(count, number, handed)'
  <2>1. Place(p) = "get" /\ Place(p)' = y
    BY <1>2, <1>7 DEF Place
  <2>2. \A n \in [Places -> Nat] :
            Balance(count, n, handed)
                => Balance(Added(count, c), Moved(n, "get", y), handed)
    BY <1>0, BalanceMoves DEF TypeOK
  <2>3. "get" \in Places
    BY DEF Places
  <2> HIDE DEF c, y
  <2> QED BY <1>0, <1>1, <1>2, <1>3, <1>4, <1>7, <2>1, <2>2, <2>3, Balanced
<1> QED BY <1>8, <1>9, <1>10, <1>11, <1>12 DEF Inv

(* A program made, or an error.                                            *)
LEMMA CompileMissKeeps ==
    ASSUME Inv, NEW p \in Procs, CompileMiss(p)
    PROVE  Inv'
<1>0. TypeOK /\ CallsInv /\ Balance(count, number, handed) /\ ReportInv /\ CompileInv
  BY DEF Inv
<1> DEFINE k == key(p)
           ok == k \in Compilable
           to == IF ok THEN "set" ELSE "observe"
           y == IF ok THEN "set" ELSE "observeFailed"
<1>1. /\ Goto(p, "compile", to) /\ UNCHANGED <<items, count, handed, deleted>>
      /\ ok => /\ compiled' = [compiled EXCEPT ![k] = @ + 1]
               /\ reg' = [reg EXCEPT ![p].program = Program(k, compiled[k] + 1)]
      /\ ~ok => /\ reg' = [reg EXCEPT ![p].failed = TRUE]
                /\ UNCHANGED compiled
  BY DEF CompileMiss
<1>2. /\ pc' \in [Procs -> Pcs] /\ pc[p] = "compile" /\ pc'[p] = to
      /\ \A q \in Procs \ {p} : pc'[q] = pc[q]
  BY <1>0, <1>1, MovesOne DEF Pcs, Working
<1>3. k \in Keys /\ reg[p].key = k /\ ~reg[p].failed /\ reg[p] \in Registers
  BY <1>0, <1>2 DEF CallsInv, Working, key, TypeOK
<1>4. compiled[k] \in Nat
  BY <1>0, <1>3 DEF TypeOK
<1> HIDE DEF k
<1>5. /\ reg' \in [Procs -> Registers] /\ reg'[p].key = k /\ (reg'[p].failed <=> ~ok)
      /\ ok => reg'[p].program # None
      /\ \A q \in Procs \ {p} : reg'[q] = reg[q]
  <2>1. CASE ok
    <3> DEFINE program == Program(k, compiled[k] + 1)
    <3>1. program \in [source : Keys \cup {"none"}, gen : Nat] /\ program # None
      BY <1>3, <1>4 DEF Program, None
    <3> HIDE DEF program
    <3>2. reg' = [reg EXCEPT ![p] = [reg[p] EXCEPT !.program = program]]
      BY <1>1, <2>1 DEF program
    <3>3. /\ [reg[p] EXCEPT !.program = program] \in Registers
          /\ [reg[p] EXCEPT !.program = program].key = k
          /\ [reg[p] EXCEPT !.program = program].failed = reg[p].failed
          /\ [reg[p] EXCEPT !.program = program].program = program
      BY <1>3, <3>1 DEF Registers
    <3>4. reg[p].failed = FALSE
      BY <1>3 DEF Registers
    <3>5. reg'[p] = [reg[p] EXCEPT !.program = program] /\ reg' \in [Procs -> Registers]
          /\ \A q \in Procs \ {p} : reg'[q] = reg[q]
      BY <1>0, <3>2, <3>3 DEF TypeOK
    <3>6. reg'[p].key = k /\ reg'[p].failed = FALSE /\ reg'[p].program # None
      BY <3>1, <3>3, <3>4, <3>5
    <3> QED BY <2>1, <3>5, <3>6
  <2>2. CASE ~ok
    <3>1. reg' = [reg EXCEPT ![p] = [reg[p] EXCEPT !.failed = TRUE]]
      BY <1>1, <2>2
    <3>2. /\ [reg[p] EXCEPT !.failed = TRUE] \in Registers
          /\ [reg[p] EXCEPT !.failed = TRUE].key = k
          /\ [reg[p] EXCEPT !.failed = TRUE].failed = TRUE
      BY <1>3 DEF Registers
    <3> QED BY <1>0, <2>2, <3>1, <3>2 DEF TypeOK
  <2> QED BY <2>1, <2>2
<1>6. compiled' \in [Keys -> Nat]
      /\ \A j \in Keys : compiled'[j] = IF ok /\ j = k THEN compiled[j] + 1 ELSE compiled[j]
  BY <1>0, <1>1 DEF TypeOK
<1>7. TypeOK'
  BY <1>0, <1>1, <1>2, <1>5, <1>6 DEF TypeOK
<1>8. CallsInv'
  BY <1>0, <1>2, <1>3, <1>5 DEF CallsInv, Working, Counters, CacheCounters, ObserverCounters
<1>9. ReportInv'
  <2>1. count' \in [Counters -> Nat] /\ \A d \in Counters : count'[d] >= count[d]
    BY <1>0, <1>1 DEF TypeOK
  <2>2. pc'[p] \notin Counters \cup {"reported"}
    BY <1>2 DEF Counters, CacheCounters, ObserverCounters
  <2> QED BY <1>0, <1>2, <1>5, <2>1, <2>2, ReportKept
<1>10. Balance(count, number, handed)'
  <2>1. Place(p) = "compile" /\ Place(p)' = y
    BY <1>2, <1>5 DEF Place
  <2>2. \A n \in [Places -> Nat] : Balance(count, n, handed) => Balance(count, Moved(n, "compile", y), handed)
    BY <1>0, BalanceMoves DEF TypeOK
  <2>3. "compile" \in Places /\ y \in Places /\ y # "compile"
    BY DEF Places
  <2> HIDE DEF y
  <2> QED BY <1>0, <1>1, <1>2, <1>5, <2>1, <2>2, <2>3, Balanced
<1>11. CompileInv'
  <2> SUFFICES ASSUME NEW j \in Keys
               PROVE  IF items[j] = None
                      THEN compiled'[j] + Cardinality(Procs)
                               <= Cardinality(Procs) * (1 + deleted[j]) + Cardinality(Made(j)')
                      ELSE compiled'[j] + Cardinality(Missed(j)')
                               <= Cardinality(Procs) * (1 + deleted[j])
    BY <1>1 DEF CompileInv
  <2> DEFINE bound == Cardinality(Procs) * (1 + deleted[j])
  <2>1. /\ IsFiniteSet(Made(j)) /\ IsFiniteSet(Missed(j))
        /\ Cardinality(Made(j)) \in Nat /\ Cardinality(Missed(j)) \in Nat
        /\ Cardinality(Procs) \in Nat
    BY EngineAssumption, FS_Subset, FS_CardinalityType DEF Made, Missed
  <2>2. compiled[j] \in Nat /\ bound \in Nat
    BY <1>0, <2>1 DEF TypeOK
  <2>3. IF items[j] = None THEN compiled[j] + Cardinality(Procs) <= bound + Cardinality(Made(j))
        ELSE compiled[j] + Cardinality(Missed(j)) <= bound
    BY <1>0 DEF CompileInv
  <2> HIDE DEF bound
  <2>4. CASE j = k
    <3>1. Missed(j)' = Missed(j) \ {p} /\ p \in Missed(j)
      BY <1>2, <1>3, <1>5, <2>4 DEF Missed
    <3>2. Cardinality(Missed(j)') = Cardinality(Missed(j)) - 1
      BY <2>1, <3>1, FS_RemoveElement
    <3>3. CASE ok
      <4>1. Made(j)' = Made(j) \cup {p} /\ p \notin Made(j)
        BY <1>2, <1>3, <1>5, <2>4, <3>3 DEF Made
      <4>2. Cardinality(Made(j)') = Cardinality(Made(j)) + 1
        BY <2>1, <4>1, FS_AddElement
      <4>3. compiled'[j] = compiled[j] + 1
        BY <1>6, <2>4, <3>3
      <4> QED BY <2>1, <2>2, <2>3, <3>2, <4>2, <4>3 DEF bound
    <3>4. CASE ~ok
      <4>1. Made(j)' = Made(j)
        BY <1>2, <1>3, <1>5, <2>4, <3>4 DEF Made
      <4>2. compiled'[j] = compiled[j]
        BY <1>6, <3>4
      <4> QED BY <2>1, <2>2, <2>3, <3>2, <4>1, <4>2 DEF bound
    <3> QED BY <3>3, <3>4
  <2>5. CASE j # k
    <3>1. Missed(j)' = Missed(j) /\ Made(j)' = Made(j)
      BY <1>2, <1>3, <1>5, <2>5 DEF Missed, Made
    <3>2. compiled'[j] = compiled[j]
      BY <1>6, <2>5
    <3> QED BY <2>3, <3>1, <3>2 DEF bound
  <2> QED BY <2>4, <2>5
<1> QED BY <1>7, <1>8, <1>9, <1>10, <1>11 DEF Inv

(* All that the bound on compilations of a key is made of is a number.     *)
LEMMA BoundNumbers ==
    ASSUME TypeOK, NEW j \in Keys
    PROVE  /\ IsFiniteSet(Made(j)) /\ IsFiniteSet(Missed(j))
           /\ Cardinality(Made(j)) \in Nat /\ Cardinality(Missed(j)) \in Nat
           /\ Cardinality(Procs) \in Nat /\ compiled[j] \in Nat /\ deleted[j] \in Nat
           /\ Cardinality(Procs) * (1 + deleted[j]) \in Nat
           /\ Cardinality(Made(j)) <= Cardinality(Procs)
           /\ Cardinality(Made(j)) + Cardinality(Missed(j)) <= Cardinality(Procs)
<1>1. /\ IsFiniteSet(Made(j)) /\ IsFiniteSet(Missed(j)) /\ Made(j) \subseteq Procs
      /\ Cardinality(Made(j)) <= Cardinality(Procs)
  BY EngineAssumption, FS_Subset DEF Made, Missed
<1>2. /\ Cardinality(Made(j)) \in Nat /\ Cardinality(Missed(j)) \in Nat
      /\ Cardinality(Procs) \in Nat /\ compiled[j] \in Nat /\ deleted[j] \in Nat
  BY <1>1, EngineAssumption, FS_CardinalityType DEF TypeOK
<1>3. Cardinality(Procs) * (1 + deleted[j]) \in Nat
  BY <1>2
<1>4. Cardinality(Made(j)) + Cardinality(Missed(j)) <= Cardinality(Procs)
  <2>1. Made(j) \cap Missed(j) = {} /\ Made(j) \cup Missed(j) \subseteq Procs
    BY DEF Made, Missed
  <2>2. Cardinality(Made(j) \cup Missed(j)) = Cardinality(Made(j)) + Cardinality(Missed(j))
    <3>1. Cardinality(Made(j) \cup Missed(j)) =
              Cardinality(Made(j)) + Cardinality(Missed(j)) - Cardinality(Made(j) \cap Missed(j))
      BY <1>1, FS_Union
    <3>2. Cardinality(Made(j) \cap Missed(j)) = 0
      BY <2>1, FS_EmptySet
    <3> QED BY <1>2, <3>1, <3>2
  <2>3. Cardinality(Made(j) \cup Missed(j)) <= Cardinality(Procs)
    BY <2>1, EngineAssumption, FS_Subset
  <2> QED BY <2>2, <2>3
<1> QED BY <1>1, <1>2, <1>3, <1>4

(* The map keeps the program: no goroutine that looks now misses it.       *)
LEMMA StoreKeeps ==
    ASSUME Inv, NEW p \in Procs, Store(p)
    PROVE  Inv'
<1>0. TypeOK /\ CallsInv /\ Balance(count, number, handed) /\ ReportInv /\ CompileInv
  BY DEF Inv
<1>1. /\ Goto(p, "store", "observe") /\ items' = [items EXCEPT ![key(p)] = reg[p].program]
      /\ UNCHANGED <<count, reg, ops, handed, compiled, deleted>>
  BY DEF Store
<1>2. /\ pc' \in [Procs -> Pcs] /\ pc[p] = "store" /\ pc'[p] = "observe"
      /\ \A q \in Procs \ {p} : pc'[q] = pc[q]
  BY <1>0, <1>1, MovesOne DEF Pcs, Working
<1> DEFINE k == key(p)
<1>3. /\ k \in Keys /\ reg[p].key = k /\ ~reg[p].failed /\ reg[p].program # None
      /\ reg[p].program \in [source : Keys \cup {"none"}, gen : Nat]
  BY <1>0, <1>2 DEF CallsInv, Working, key, TypeOK, Registers
<1> HIDE DEF k
<1>4. /\ items' \in [Keys -> [source : Keys \cup {"none"}, gen : Nat]] /\ items'[k] # None
      /\ \A j \in Keys : j # k => items'[j] = items[j]
  BY <1>0, <1>1, <1>3 DEF TypeOK, k
<1>5. TypeOK'
  BY <1>0, <1>1, <1>2, <1>4 DEF TypeOK
<1>6. CallsInv'
  BY <1>0, <1>1, <1>2 DEF CallsInv, Working, Counters, CacheCounters, ObserverCounters
<1>7. ReportInv'
  <2>1. count' \in [Counters -> Nat] /\ \A d \in Counters : count'[d] >= count[d]
    BY <1>0, <1>1 DEF TypeOK
  <2>2. pc'[p] \notin Counters \cup {"reported"}
    BY <1>2 DEF Counters, CacheCounters, ObserverCounters
  <2> QED BY <1>0, <1>1, <1>2, <2>1, <2>2, ReportKept
<1>8. Balance(count, number, handed)'
  <2>1. Place(p) = "store" /\ Place(p)' = "observe"
    BY <1>1, <1>2, <1>3 DEF Place
  <2>2. \A n \in [Places -> Nat] : Balance(count, n, handed) => Balance(count, Moved(n, "store", "observe"), handed)
    BY <1>0, BalanceMoves DEF TypeOK
  <2>3. "store" \in Places /\ "observe" \in Places
    BY DEF Places
  <2> QED BY <1>0, <1>1, <1>2, <2>1, <2>2, <2>3, Balanced
<1>9. CompileInv'
  <2> SUFFICES ASSUME NEW j \in Keys
               PROVE  IF items'[j] = None
                      THEN compiled[j] + Cardinality(Procs)
                               <= Cardinality(Procs) * (1 + deleted[j]) + Cardinality(Made(j)')
                      ELSE compiled[j] + Cardinality(Missed(j)')
                               <= Cardinality(Procs) * (1 + deleted[j])
    BY <1>1 DEF CompileInv
  <2>1. Missed(j)' = Missed(j)
    BY <1>1, <1>2 DEF Missed
  <2> DEFINE bound == Cardinality(Procs) * (1 + deleted[j])
  <2>2. /\ Cardinality(Made(j)) \in Nat /\ Cardinality(Missed(j)) \in Nat
        /\ Cardinality(Procs) \in Nat /\ compiled[j] \in Nat /\ bound \in Nat
        /\ Cardinality(Made(j)) + Cardinality(Missed(j)) <= Cardinality(Procs)
    BY <1>0, BoundNumbers
  <2>3. IF items[j] = None THEN compiled[j] + Cardinality(Procs) <= bound + Cardinality(Made(j))
        ELSE compiled[j] + Cardinality(Missed(j)) <= bound
    BY <1>0 DEF CompileInv
  <2> HIDE DEF bound
  <2>4. compiled[j] + Cardinality(Missed(j)) <= bound \/ items[j] = None
    BY <2>3
  <2>5. CASE j = k
    <3>1. compiled[j] + Cardinality(Missed(j)) <= bound
      BY <2>2, <2>3
    <3> QED BY <1>4, <2>1, <2>5, <3>1 DEF bound
  <2>6. CASE j # k
    <3>1. Made(j)' = Made(j)
      BY <1>1, <1>2, <1>3, <2>6 DEF Made
    <3> QED BY <1>4, <2>1, <2>3, <2>6, <3>1 DEF bound
  <2> QED BY <2>5, <2>6
<1> QED BY <1>5, <1>6, <1>7, <1>8, <1>9 DEF Inv

(* After a Delete every goroutine may compile the key once more.           *)
LEMMA DeleteKeeps ==
    ASSUME Inv, NEW p \in Procs, NEW k \in Keys, Delete(p, k)
    PROVE  Inv'
<1>0. TypeOK /\ CallsInv /\ Balance(count, number, handed) /\ ReportInv /\ CompileInv
  BY DEF Inv
<1>1. /\ Goto(p, "idle", "idle") /\ items' = [items EXCEPT ![k] = None]
      /\ deleted' = [deleted EXCEPT ![k] = @ + 1]
      /\ UNCHANGED <<count, reg, handed, compiled>>
  BY DEF Delete, Begin
<1>2. pc' = pc
  BY <1>0, <1>1 DEF Goto, TypeOK
<1>3. None \in [source : Keys \cup {"none"}, gen : Nat]
  BY DEF None
<1>4. /\ items' \in [Keys -> [source : Keys \cup {"none"}, gen : Nat]] /\ items'[k] = None
      /\ \A j \in Keys : j # k => items'[j] = items[j]
  BY <1>0, <1>1, <1>3 DEF TypeOK
<1>5. /\ deleted' \in [Keys -> Nat] /\ deleted'[k] = deleted[k] + 1
      /\ \A j \in Keys : j # k => deleted'[j] = deleted[j]
  BY <1>0, <1>1 DEF TypeOK
<1>6. TypeOK'
  BY <1>0, <1>1, <1>2, <1>4, <1>5 DEF TypeOK
<1>7. CallsInv' /\ ReportInv'
  BY <1>0, <1>1, <1>2 DEF CallsInv, ReportInv
<1>8. Balance(count, number, handed)'
  <2>1. number' = number
    BY <1>1, <1>2 DEF number, Standing, Place
  <2> QED BY <1>0, <1>1, <2>1 DEF Balance
<1>9. CompileInv'
  <2> SUFFICES ASSUME NEW j \in Keys
               PROVE  IF items'[j] = None
                      THEN compiled[j] + Cardinality(Procs)
                               <= Cardinality(Procs) * (1 + deleted'[j]) + Cardinality(Made(j)')
                      ELSE compiled[j] + Cardinality(Missed(j)')
                               <= Cardinality(Procs) * (1 + deleted'[j])
    BY <1>1 DEF CompileInv
  <2>1. Missed(j)' = Missed(j) /\ Made(j)' = Made(j)
    BY <1>1, <1>2 DEF Missed, Made
  <2> DEFINE bound == Cardinality(Procs) * (1 + deleted[j])
  <2>2. /\ Cardinality(Made(j)) \in Nat /\ Cardinality(Missed(j)) \in Nat
        /\ Cardinality(Procs) \in Nat /\ compiled[j] \in Nat /\ bound \in Nat /\ deleted[j] \in Nat
        /\ Cardinality(Made(j)) <= Cardinality(Procs)
    BY <1>0, BoundNumbers
  <2>3. IF items[j] = None THEN compiled[j] + Cardinality(Procs) <= bound + Cardinality(Made(j))
        ELSE compiled[j] + Cardinality(Missed(j)) <= bound
    BY <1>0 DEF CompileInv
  <2>4. CASE j = k
    <3>1. Cardinality(Procs) * (1 + deleted'[j]) = bound + Cardinality(Procs)
      <4>1. \A c, d \in Nat : c * (1 + (d + 1)) = c * (1 + d) + c
        OBVIOUS
      <4> QED BY <1>5, <2>2, <2>4, <4>1
    <3> HIDE DEF bound
    <3>2. compiled[j] <= bound
      BY <2>2, <2>3
    <3>3. compiled[j] + Cardinality(Procs) <= bound + Cardinality(Procs) + Cardinality(Made(j))
      BY <2>2, <3>2
    <3> QED BY <1>4, <2>1, <2>4, <3>1, <3>3
  <2>5. CASE j # k
    BY <1>4, <1>5, <2>1, <2>3, <2>5
  <2> QED BY <2>4, <2>5
<1> QED BY <1>6, <1>7, <1>8, <1>9 DEF Inv

(* A program that was handed out is evaluated once more.                   *)
LEMMA EvaluateKeeps ==
    ASSUME Inv, NEW p \in Procs, NEW k \in Keys, Evaluate(p, k)
    PROVE  Inv'
<1>0. TypeOK /\ CallsInv /\ Balance(count, number, handed) /\ ReportInv /\ CompileInv
  BY DEF Inv
<1>1. /\ Goto(p, "idle", "eval") /\ handed # {}
      /\ reg' = [reg EXCEPT ![p] = [Idle EXCEPT !.op = "eval", !.key = k]]
      /\ UNCHANGED <<items, count, handed, compiled, deleted>>
  BY DEF Evaluate, Begin
<1>2. /\ pc' \in [Procs -> Pcs] /\ pc[p] = "idle" /\ pc'[p] = "eval"
      /\ \A q \in Procs \ {p} : pc'[q] = pc[q]
  BY <1>0, <1>1, MovesOne DEF Pcs
<1>3. /\ reg' \in [Procs -> Registers]
      /\ \A q \in Procs \ {p} : reg'[q] = reg[q]
  BY <1>0, <1>1 DEF TypeOK, Registers, Idle, None, Report
<1>4. TypeOK'
  BY <1>0, <1>1, <1>2, <1>3 DEF TypeOK
<1>5. CallsInv'
  BY <1>0, <1>2, <1>3 DEF CallsInv, Working, Counters, CacheCounters, ObserverCounters
<1>6. ReportInv'
  <2>1. count' \in [Counters -> Nat] /\ \A d \in Counters : count'[d] >= count[d]
    BY <1>0, <1>1 DEF TypeOK
  <2>2. pc'[p] \notin Counters \cup {"reported"}
    BY <1>2 DEF Counters, CacheCounters, ObserverCounters
  <2> QED BY <1>0, <1>2, <1>3, <2>1, <2>2, ReportKept
<1>7. CompileInv'
  <2>1. \A j \in Keys : (p \in Missed(j)' <=> p \in Missed(j)) /\ (p \in Made(j)' <=> p \in Made(j))
    BY <1>2 DEF Missed, Made
  <2> QED BY <1>0, <1>1, <1>2, <1>3, <2>1, CompileKept
<1>8. Balance(count, number, handed)'
  <2>1. Place(p) = "idle" /\ Place(p)' = "eval"
    BY <1>2 DEF Place
  <2>2. \A n \in [Places -> Nat] :
            Balance(count, n, handed) => Balance(count, Moved(n, "idle", "eval"), handed)
    BY <1>0, <1>1, BalanceMoves DEF TypeOK
  <2>3. "idle" \in Places /\ "eval" \in Places
    BY DEF Places
  <2> QED BY <1>0, <1>1, <1>2, <1>3, <2>1, <2>2, <2>3, Balanced
<1> QED BY <1>4, <1>5, <1>6, <1>7, <1>8 DEF Inv

-----------------------------------------------------------------------------
(* Reports                                                                 *)

(* Steps of a report: no counter moves, nor a goroutine whose call a       *)
(* counter is owed.                                                        *)
LEMMA ReadersKeep ==
    ASSUME Inv, NEW p \in Procs,
           NEW from \in Counters \cup {"idle", "reported"}, NEW to \in Counters \cup {"idle", "reported"},
           from # to, Goto(p, from, to),
           UNCHANGED <<items, count, handed, compiled, deleted>>,
           reg' \in [Procs -> Registers],
           \A q \in Procs \ {p} : reg'[q] = reg[q],
           to \in CacheCounters => reg'[p].op = "cacheStats",
           to \in ObserverCounters => reg'[p].op = "observerStats"
    PROVE  TypeOK' /\ CallsInv' /\ Balance(count, number, handed)' /\ CompileInv'
<1>0. TypeOK /\ CallsInv /\ Balance(count, number, handed) /\ CompileInv
  BY DEF Inv
<1>1. /\ pc' \in [Procs -> Pcs] /\ pc[p] = from /\ pc'[p] = to
      /\ \A q \in Procs \ {p} : pc'[q] = pc[q]
  BY <1>0, MovesOne DEF Pcs
<1>2. TypeOK'
  BY <1>0, <1>1 DEF TypeOK
<1>3. CallsInv'
  BY <1>0, <1>1 DEF CallsInv, Working, Counters, CacheCounters, ObserverCounters
<1>4. CompileInv'
  <2>1. \A j \in Keys : (p \in Missed(j)' <=> p \in Missed(j)) /\ (p \in Made(j)' <=> p \in Made(j))
    BY <1>1 DEF Missed, Made, Counters, CacheCounters, ObserverCounters
  <2> QED BY <1>0, <1>1, <2>1, CompileKept
<1>5. Balance(count, number, handed)'
  <2>1. Place(p) = from /\ Place(p)' = to
    BY <1>1 DEF Place, Counters, CacheCounters, ObserverCounters
  <2>2. \A n \in [Places -> Nat] : Balance(count, n, handed) => Balance(count, Moved(n, from, to), handed)
    BY <1>0, BalanceMoves DEF TypeOK
  <2>3. from \in Places /\ to \in Places
    BY DEF Places
  <2> QED BY <1>0, <1>1, <2>1, <2>2, <2>3, Balanced
<1> QED BY <1>2, <1>3, <1>4, <1>5

(* From which counter to which a report goes on.                           *)
CacheLoad(c, to) ==
    \/ c = "gets" /\ to = "hits"
    \/ c = "hits" /\ to = "misses"
    \/ c = "misses" /\ to = "sets"
    \/ c = "sets" /\ to = "reported"
ObserverLoad(c, to) ==
    \/ c = "compileCount" /\ to = "compileErrors"
    \/ c = "compileErrors" /\ to = "evalCount"
    \/ c = "evalCount" /\ to = "evalErrors"
    \/ c = "evalErrors" /\ to = "cacheRequests"
    \/ c = "cacheRequests" /\ to = "cacheHits"
    \/ c = "cacheHits" /\ to = "cacheMisses"
    \/ c = "cacheMisses" /\ to = "reported"

(* Loads is read in that order.                                            *)
LEMMA LoadsInOrder ==
    /\ LET l == Loads("cacheStats")
       IN  \A i \in DOMAIN l : CacheLoad(l[i], IF i = Len(l) THEN "reported" ELSE l[i + 1])
    /\ LET l == Loads("observerStats")
       IN  \A i \in DOMAIN l : ObserverLoad(l[i], IF i = Len(l) THEN "reported" ELSE l[i + 1])
<1>1. LET l == Loads("cacheStats")
      IN  \A i \in DOMAIN l : CacheLoad(l[i], IF i = Len(l) THEN "reported" ELSE l[i + 1])
  <2> DEFINE l == Loads("cacheStats")
  <2>1. /\ DOMAIN l = 1..4 /\ Len(l) = 4
        /\ l[1] = "gets" /\ l[2] = "hits" /\ l[3] = "misses" /\ l[4] = "sets"
    BY DEF Loads
  <2> HIDE DEF l
  <2>2. ASSUME NEW i \in DOMAIN l PROVE CacheLoad(l[i], IF i = Len(l) THEN "reported" ELSE l[i + 1])
    <3>1. i = 1 \/ i = 2 \/ i = 3 \/ i = 4
      BY <2>1
    <3> QED BY <2>1, <3>1 DEF CacheLoad
  <2> QED BY <2>2 DEF l
<1>2. LET l == Loads("observerStats")
      IN  \A i \in DOMAIN l : ObserverLoad(l[i], IF i = Len(l) THEN "reported" ELSE l[i + 1])
  <2> DEFINE l == Loads("observerStats")
  <2>1. /\ DOMAIN l = 1..7 /\ Len(l) = 7
        /\ l[1] = "compileCount" /\ l[2] = "compileErrors" /\ l[3] = "evalCount"
        /\ l[4] = "evalErrors" /\ l[5] = "cacheRequests" /\ l[6] = "cacheHits"
        /\ l[7] = "cacheMisses"
    BY DEF Loads
  <2> HIDE DEF l
  <2>2. ASSUME NEW i \in DOMAIN l PROVE ObserverLoad(l[i], IF i = Len(l) THEN "reported" ELSE l[i + 1])
    <3>1. i \in 1..7
      BY <2>1
    <3>2. i = 1 \/ i = 2 \/ i = 3 \/ i = 4 \/ i = 5 \/ i = 6 \/ i = 7
      BY <3>1
    <3> QED BY <2>1, <3>2 DEF ObserverLoad
  <2> QED BY <2>2 DEF l
<1> QED BY <1>1, <1>2

(* What a Load reads, and where it goes.                                   *)
LoadsTo(p, c, to) ==
    /\ Goto(p, c, to)
    /\ reg' = [reg EXCEPT ![p].report[c] = count[c],
                          ![p].pending = CASE c = "gets" -> Cardinality(At("get"))
                                           [] c = "cacheRequests" -> Cardinality(At("outcome"))
                                           [] OTHER -> @]
    /\ UNCHANGED <<items, count, ops, handed, compiled, deleted>>

(* A Load goes along one of the two lists.                                 *)
LEMMA LoadGoes ==
    ASSUME Inv, NEW p \in Procs, Load(p)
    PROVE  \E c, to : /\ LoadsTo(p, c, to)
                      /\ \/ reg[p].op = "cacheStats" /\ CacheLoad(c, to)
                         \/ reg[p].op = "observerStats" /\ ObserverLoad(c, to)
<1> DEFINE loads == Loads(reg[p].op)
           to(i) == IF i = Len(loads) THEN "reported" ELSE loads[i + 1]
<1>1. PICK i \in DOMAIN loads : LoadsTo(p, loads[i], to(i))
  BY DEF Load, LoadsTo
<1>2. pc[p] = loads[i]
  BY <1>1 DEF LoadsTo, Goto
<1>3. CASE reg[p].op = "cacheStats"
  <2>1. CacheLoad(loads[i], to(i))
    BY <1>3, LoadsInOrder
  <2> QED BY <1>1, <1>3, <2>1
<1>4. CASE reg[p].op # "cacheStats"
  <2>1. loads = Loads("observerStats")
    BY <1>4 DEF Loads
  <2>2. ObserverLoad(loads[i], to(i))
    BY <2>1, LoadsInOrder
  <2>3. loads[i] \in ObserverCounters
    BY <2>2 DEF ObserverLoad, ObserverCounters
  <2>4. reg[p].op = "observerStats"
    BY <1>2, <2>3 DEF Inv, CallsInv
  <2> QED BY <1>1, <2>2, <2>4
<1> QED BY <1>3, <1>4

(* Each Load adds one counter to the report.                               *)
LEMMA LoadReport ==
    ASSUME Inv, NEW p \in Procs, NEW c, NEW to, LoadsTo(p, c, to),
           \/ reg[p].op = "cacheStats" /\ CacheLoad(c, to)
           \/ reg[p].op = "observerStats" /\ ObserverLoad(c, to)
    PROVE  /\ reg' \in [Procs -> Registers] /\ reg'[p].op = reg[p].op
           /\ \A q \in Procs \ {p} : reg'[q] = reg[q]
           /\ ReportInv'
<1>0. TypeOK /\ CallsInv /\ Balance(count, number, handed) /\ ReportInv
  BY DEF Inv
<1>1. c \in Counters /\ to \in Pcs /\ Goto(p, c, to) /\ UNCHANGED count
  BY DEF CacheLoad, ObserverLoad, Counters, CacheCounters, ObserverCounters, Pcs, LoadsTo
<1>2. /\ pc' \in [Procs -> Pcs] /\ pc[p] = c /\ pc'[p] = to
      /\ \A q \in Procs \ {p} : pc'[q] = pc[q]
  BY <1>0, <1>1, MovesOne
<1> DEFINE r == reg[p].report
           pending == reg[p].pending
           pendingN == CASE c = "gets" -> Cardinality(At("get"))
                         [] c = "cacheRequests" -> Cardinality(At("outcome"))
                         [] OTHER -> pending
           n == [reg[p] EXCEPT !.report = [r EXCEPT ![c] = count[c]], !.pending = pendingN]
<1>3. /\ reg[p] \in Registers /\ r \in Report /\ pending \in Nat /\ count \in [Counters -> Nat]
  BY <1>0 DEF TypeOK, Registers
<1>4. /\ Cardinality(At("get")) \in Nat /\ Cardinality(At("outcome")) \in Nat
      /\ Cardinality(At("get")) = number["get"]
      /\ Cardinality(At("outcome")) = number["outcomeHit"] + number["outcomeMiss"]
      /\ number["get"] \in Nat /\ number["outcomeHit"] \in Nat /\ number["outcomeMiss"] \in Nat
  <2>1. IsFiniteSet(At("get")) /\ IsFiniteSet(At("outcome"))
        /\ IsFiniteSet(Standing("get")) /\ IsFiniteSet(Standing("outcomeHit"))
        /\ IsFiniteSet(Standing("outcomeMiss"))
    BY EngineAssumption, FS_Subset DEF At, Standing
  <2>2. At("get") = Standing("get")
    BY DEF At, Standing, Place
  <2>3. /\ At("outcome") = Standing("outcomeHit") \cup Standing("outcomeMiss")
        /\ Standing("outcomeHit") \cap Standing("outcomeMiss") = {}
    <3>1. \A q \in Procs : pc[q] \in Pcs
      BY <1>0 DEF TypeOK
    <3> QED BY <3>1 DEF At, Standing, Place, Pcs, Working, Counters, CacheCounters, ObserverCounters
  <2>4. Cardinality(At("outcome")) = Cardinality(Standing("outcomeHit")) + Cardinality(Standing("outcomeMiss"))
    <3>1. Cardinality(At("outcome")) =
              Cardinality(Standing("outcomeHit")) + Cardinality(Standing("outcomeMiss"))
                  - Cardinality(Standing("outcomeHit") \cap Standing("outcomeMiss"))
      BY <2>1, <2>3, FS_Union
    <3>2. Cardinality(Standing("outcomeHit") \cap Standing("outcomeMiss")) = 0
      BY <2>3, FS_EmptySet
    <3> QED BY <2>1, <3>1, <3>2, FS_CardinalityType
  <2> QED BY <2>1, <2>2, <2>4, FS_CardinalityType DEF number, Places
<1>5. reg' = [reg EXCEPT ![p] = n]
  BY DEF LoadsTo
<1>6. /\ n \in Registers /\ n.pending = pendingN /\ n.op = reg[p].op
      /\ n.report = [r EXCEPT ![c] = count[c]]
  <2>1. [r EXCEPT ![c] = count[c]] \in Report /\ pendingN \in Nat
    BY <1>1, <1>3, <1>4 DEF Report
  <2> QED BY <1>3, <2>1 DEF Registers
<1> HIDE DEF n, pendingN
<1>7. /\ reg' \in [Procs -> Registers] /\ reg'[p] = n
      /\ \A q \in Procs \ {p} : reg'[q] = reg[q]
  BY <1>0, <1>5, <1>6 DEF TypeOK
<1>8. ReportInv'
  <2> DEFINE Good(s, wait, place) ==
                 /\ place \in CacheCounters => s["cacheRequests"] = 0
                 /\ place \in ObserverCounters => s["gets"] = 0
                 /\ place = "hits" => s["gets"] <= count["hits"] + count["misses"] + wait
                 /\ place = "misses" => s["gets"] <= s["hits"] + count["misses"] + wait
                 /\ place \in {"sets", "reported"} => s["gets"] <= s["hits"] + s["misses"] + wait
                 /\ place = "cacheHits" =>
                        s["cacheRequests"] <= count["cacheHits"] + count["cacheMisses"] + wait
                 /\ place = "cacheMisses" =>
                        s["cacheRequests"] <= s["cacheHits"] + count["cacheMisses"] + wait
                 /\ place = "reported" =>
                        s["cacheRequests"] <= s["cacheHits"] + s["cacheMisses"] + wait
  <2>1. \A q \in Procs : Good(reg[q].report, reg[q].pending, pc[q])
    BY <1>0 DEF ReportInv
  <2>2. \A q \in Procs \ {p} : Good(reg'[q].report, reg'[q].pending, pc'[q])
    <3> HIDE DEF Good
    <3> QED BY <1>2, <1>7, <2>1
  <2>3. Good(n.report, pendingN, to)
    <3> DEFINE s == n.report
    <3>1. \A d \in Counters : s[d] = IF d = c THEN count[c] ELSE r[d]
      BY <1>1, <1>3, <1>6 DEF Report
    <3>2. \A d \in Counters : r[d] \in Nat /\ s[d] \in Nat /\ count[d] \in Nat
      BY <1>3, <3>1 DEF Report
    <3>3. Good(r, pending, c)
      BY <1>2, <2>1
    <3>4. /\ "gets" \in Counters /\ "hits" \in Counters /\ "misses" \in Counters /\ "sets" \in Counters
          /\ "cacheRequests" \in Counters /\ "cacheHits" \in Counters /\ "cacheMisses" \in Counters
      BY DEF Counters, CacheCounters, ObserverCounters
    <3>5. /\ count["gets"] = count["hits"] + count["misses"] + Cardinality(At("get"))
          /\ count["cacheRequests"] =
                 count["cacheHits"] + count["cacheMisses"] + Cardinality(At("outcome"))
      <4>1. /\ count["gets"] = count["hits"] + count["misses"] + number["get"]
            /\ count["cacheRequests"] =
                   count["cacheHits"] + count["cacheMisses"] + number["outcomeHit"] + number["outcomeMiss"]
        BY <1>0 DEF Balance
      <4> QED BY <1>4, <3>2, <3>4, <4>1
    <3>6. /\ c = "gets" => pendingN = Cardinality(At("get"))
          /\ c = "cacheRequests" => pendingN = Cardinality(At("outcome"))
          /\ c \notin {"gets", "cacheRequests"} => pendingN = pending
      BY DEF pendingN
    <3>7. pending \in Nat /\ pendingN \in Nat
      BY <1>3, <1>4, <3>6
    <3> HIDE DEF r, s, pending
    <3>8. CASE CacheLoad(c, to)
      BY <1>4, <3>1, <3>2, <3>3, <3>4, <3>5, <3>6, <3>7, <3>8
         DEF CacheLoad, CacheCounters, ObserverCounters, s
    <3>9. CASE ObserverLoad(c, to)
      BY <1>4, <3>1, <3>2, <3>3, <3>4, <3>5, <3>6, <3>7, <3>9
         DEF ObserverLoad, CacheCounters, ObserverCounters, s
    <3> QED BY <3>8, <3>9
  <2>4. \A q \in Procs : Good(reg'[q].report, reg'[q].pending, pc'[q])
    <3> HIDE DEF Good
    <3> QED BY <1>2, <1>6, <1>7, <2>2, <2>3
  <2> QED BY <1>1, <2>4 DEF ReportInv
<1> QED BY <1>6, <1>7, <1>8

(* A Load keeps what its report has read in step with the counters.        *)
LEMMA LoadKeeps ==
    ASSUME Inv, NEW p \in Procs, Load(p)
    PROVE  Inv'
<1>1. PICK c, to : /\ LoadsTo(p, c, to)
                   /\ \/ reg[p].op = "cacheStats" /\ CacheLoad(c, to)
                      \/ reg[p].op = "observerStats" /\ ObserverLoad(c, to)
  BY LoadGoes
<1>2. /\ reg' \in [Procs -> Registers] /\ reg'[p].op = reg[p].op
      /\ \A q \in Procs \ {p} : reg'[q] = reg[q]
      /\ ReportInv'
  BY <1>1, LoadReport
<1>3. /\ c \in Counters \cup {"idle", "reported"} /\ to \in Counters \cup {"idle", "reported"} /\ c # to
      /\ to \in CacheCounters => reg'[p].op = "cacheStats"
      /\ to \in ObserverCounters => reg'[p].op = "observerStats"
  BY <1>1, <1>2 DEF CacheLoad, ObserverLoad, Counters, CacheCounters, ObserverCounters
<1>4. Goto(p, c, to) /\ UNCHANGED <<items, count, handed, compiled, deleted>>
  BY <1>1 DEF LoadsTo
<1>5. TypeOK' /\ CallsInv' /\ Balance(count, number, handed)' /\ CompileInv'
  BY <1>2, <1>3, <1>4, ReadersKeep
<1> QED BY <1>2, <1>5 DEF Inv

(* A goroutine without a call.                                             *)
LEMMA IdleIsRegisters ==
    ASSUME NEW o \in {"none", "compile", "eval", "cacheStats", "observerStats"}
    PROVE  /\ [Idle EXCEPT !.op = o] \in Registers /\ [Idle EXCEPT !.op = o].op = o
           /\ \A c \in Counters : [Idle EXCEPT !.op = o].report[c] = 0
           /\ Idle \in Registers
<1>1. [c \in Counters |-> 0] \in Report
  BY DEF Report
<1> HIDE DEF Report
<1> QED BY <1>1 DEF Idle, Registers, None

(* A report begins with nothing read.                                      *)
LEMMA StatsKeeps ==
    ASSUME Inv, NEW p \in Procs, NEW which \in {"cacheStats", "observerStats"}, Stats(p, which)
    PROVE  Inv'
<1>0. TypeOK /\ ReportInv
  BY DEF Inv
<1> DEFINE to == Loads(which)[1]
           n == [Idle EXCEPT !.op = which]
<1>1. /\ Goto(p, "idle", to) /\ reg' = [reg EXCEPT ![p] = n]
      /\ UNCHANGED <<items, count, handed, compiled, deleted>>
  BY DEF Stats, Begin
<1>2. \/ which = "cacheStats" /\ to = "gets"
      \/ which = "observerStats" /\ to = "compileCount"
  BY DEF Loads
<1>3. n \in Registers /\ n.op = which /\ \A c \in Counters : n.report[c] = 0
  BY IdleIsRegisters
<1> HIDE DEF n, to
<1>4. /\ to \in Counters /\ to # "idle" /\ to \in Pcs
      /\ to \in CacheCounters => which = "cacheStats"
      /\ to \in ObserverCounters => which = "observerStats"
  BY <1>2 DEF Counters, CacheCounters, ObserverCounters, Pcs
<1>5. /\ reg' \in [Procs -> Registers] /\ reg'[p] = n
      /\ \A q \in Procs \ {p} : reg'[q] = reg[q]
  BY <1>0, <1>1, <1>3 DEF TypeOK
<1>6. TypeOK' /\ CallsInv' /\ Balance(count, number, handed)' /\ CompileInv'
  BY <1>1, <1>3, <1>4, <1>5, ReadersKeep
<1>7. /\ pc'[p] = to
      /\ \A q \in Procs \ {p} : pc'[q] = pc[q]
  BY <1>0, <1>1, <1>4, MovesOne
<1>8. ReportInv'
  <2>1. n.report["cacheRequests"] = 0 /\ n.report["gets"] = 0
    BY <1>3 DEF Counters, CacheCounters, ObserverCounters
  <2> QED BY <1>0, <1>1, <1>2, <1>5, <1>7, <2>1 DEF ReportInv
<1> QED BY <1>6, <1>8 DEF Inv

(* A report that is handed over leaves the goroutine idle.                 *)
LEMMA ReportedKeeps ==
    ASSUME Inv, NEW p \in Procs, Reported(p)
    PROVE  Inv'
<1>0. TypeOK /\ ReportInv
  BY DEF Inv
<1>1. /\ Goto(p, "reported", "idle") /\ reg' = [reg EXCEPT ![p] = Idle]
      /\ UNCHANGED <<items, count, handed, compiled, deleted>>
  BY DEF Reported
<1>2. Idle \in Registers
  BY IdleIsRegisters
<1>3. /\ reg' \in [Procs -> Registers]
      /\ \A q \in Procs \ {p} : reg'[q] = reg[q]
  BY <1>0, <1>1, <1>2 DEF TypeOK
<1>4. TypeOK' /\ CallsInv' /\ Balance(count, number, handed)' /\ CompileInv'
  <2>1. "idle" \notin CacheCounters /\ "idle" \notin ObserverCounters
    BY DEF CacheCounters, ObserverCounters
  <2> QED BY <1>1, <1>3, <2>1, ReadersKeep
<1>5. /\ pc'[p] = "idle"
      /\ \A q \in Procs \ {p} : pc'[q] = pc[q]
  BY <1>0, <1>1, MovesOne DEF Pcs
<1>6. ReportInv'
  <2>1. count' \in [Counters -> Nat] /\ \A d \in Counters : count'[d] >= count[d]
    BY <1>0, <1>1 DEF TypeOK
  <2>2. pc'[p] \notin Counters \cup {"reported"}
    BY <1>5 DEF Counters, CacheCounters, ObserverCounters
  <2> QED BY <1>0, <1>3, <1>5, <2>1, <2>2, ReportKept
<1> QED BY <1>4, <1>6 DEF Inv

-----------------------------------------------------------------------------
(* The invariant, and what follows from it                                 *)

(* Nothing is counted, and no one is on the way.                           *)
LEMMA InitInv == Init => Inv
<1> SUFFICES ASSUME Init PROVE Inv
  OBVIOUS
<1>1. Idle \in Registers
  BY IdleIsRegisters
<1>2. TypeOK
  BY <1>1 DEF Init, TypeOK, Pcs, None
<1>3. CallsInv /\ ReportInv
  BY DEF Init, CallsInv, ReportInv, Working, CacheCounters, ObserverCounters
<1>4. Balance(count, number, handed)
  <2>1. \A x \in Places : x # "idle" => number[x] = 0
    <3>1. ASSUME NEW x \in Places, x # "idle" PROVE Standing(x) = {}
      BY <3>1 DEF Init, Standing, Place
    <3> QED BY <3>1, FS_EmptySet DEF number
  <2>2. \A c \in Counters : count[c] = 0
    BY DEF Init
  <2>3. handed = {}
    BY DEF Init
  <2> QED BY <2>1, <2>2, <2>3 DEF Balance, Places, Counters, CacheCounters, ObserverCounters
<1>5. CompileInv
  <2> SUFFICES ASSUME NEW k \in Keys
               PROVE  compiled[k] + Cardinality(Procs)
                          <= Cardinality(Procs) * (1 + deleted[k]) + Cardinality(Made(k))
    BY DEF CompileInv, Init
  <2>1. Cardinality(Made(k)) \in Nat /\ Cardinality(Procs) \in Nat
    BY <1>2, BoundNumbers
  <2>2. compiled[k] = 0 /\ deleted[k] = 0
    BY DEF Init
  <2> QED BY <2>1, <2>2
<1> QED BY <1>2, <1>3, <1>4, <1>5 DEF Inv

(* No step of a goroutine breaks the invariant.                            *)
LEMMA StepInv == Inv /\ [Next]_vars => Inv'
<1> SUFFICES ASSUME Inv, [Next]_vars PROVE Inv'
  OBVIOUS
<1>1. CASE UNCHANGED vars
  <2>1. number' = number
    BY <1>1 DEF vars, number, Standing, Place
  <2>2. Balance(count, number, handed)'
    BY <1>1, <2>1 DEF vars, Inv, Balance
  <2>3. TypeOK' /\ CallsInv' /\ ReportInv'
    BY <1>1 DEF vars, Inv, TypeOK, CallsInv, ReportInv
  <2>4. CompileInv'
    BY <1>1 DEF vars, Inv, CompileInv, Made, Missed
  <2> QED BY <2>2, <2>3, <2>4 DEF Inv
<1>2. ASSUME NEW p \in Procs, Step(p) PROVE Inv'
  BY <1>2, GetKeeps, CountRequestKeeps, CountOutcomeKeeps, CompileMissKeeps, CountSetKeeps,
     StoreKeeps,
     ObserveCompileKeeps, CountCompileErrorKeeps, ObserveEvalKeeps, CountEvalErrorKeeps,
     LoadKeeps, ReportedKeeps
     DEF Step
<1>3. ASSUME NEW p \in Procs, Call(p) PROVE Inv'
  BY <1>3, StatsKeeps, DeleteKeeps, EvaluateKeeps, CompileKeeps DEF Call
<1> QED BY <1>1, <1>2, <1>3 DEF Next

(* The counters and the compilations are in balance with the goroutines in *)
(* every reachable state.                                                  *)
THEOREM InvHolds == Spec => []Inv
BY InitInv, StepInv, PTL DEF Spec

(* Of any number of goroutines: once no call is under way the cache and    *)
(* the observer agree, and a report shows no request without an outcome    *)
(* but those that were between the two counters.                           *)
THEOREM CountersAgreeHolds == Spec => []CountersAgree
<1>1. Inv => CountersAgree
  <2> SUFFICES ASSUME Inv PROVE CountersAgree
    OBVIOUS
  <2>0. TypeOK /\ Balance(count, number, handed) /\ ReportInv
    BY DEF Inv
  <2>1. ReportAddsUp
    BY <2>0 DEF ReportInv, ReportAddsUp
  <2>2. QuietCountersAgree
    <3> SUFFICES ASSUME \A p \in Procs : pc[p] \in {"idle", "reported"} \cup Counters
                 PROVE  /\ count["cacheRequests"] = count["cacheHits"] + count["cacheMisses"]
                        /\ count["cacheRequests"] = count["gets"]
                        /\ count["cacheRequests"] = count["compileCount"]
                        /\ count["cacheHits"] = count["hits"] /\ count["cacheMisses"] = count["misses"]
                        /\ count["cacheMisses"] = count["sets"] + count["compileErrors"]
                        /\ count["evalErrors"] <= count["evalCount"]
                        /\ count["evalCount"] > 0 => count["compileErrors"] < count["compileCount"]
      BY DEF QuietCountersAgree
    <3> DEFINE Owed == {"get", "requestHit", "requestMiss", "outcomeHit", "outcomeMiss", "compile", "set",
                        "store", "observe", "observeFailed", "error", "eval", "evalError"}
    <3>1. \A x \in Owed : number[x] = 0
      <4>1. ASSUME NEW x \in Owed PROVE Standing(x) = {}
        BY DEF Standing, Place, Counters, CacheCounters, ObserverCounters
      <4> QED BY <4>1, FS_EmptySet DEF number, Places
    <3>2. \A c \in Counters : count[c] \in Nat
      BY <2>0 DEF TypeOK
    <3> QED BY <2>0, <3>1, <3>2 DEF Balance, Counters, CacheCounters, ObserverCounters
  <2> QED BY <2>1, <2>2 DEF CountersAgree
<1> QED BY <1>1, InvHolds, PTL

(* A key is compiled at most once by each goroutine, and once more by each *)
(* after each Delete.                                                      *)
THEOREM CompilesAreBoundedHolds == Spec => []CompilesAreBounded
<1>1. Inv => CompilesAreBounded
  <2> SUFFICES ASSUME Inv, NEW k \in Keys
               PROVE  compiled[k] <= Cardinality(Procs) * (1 + deleted[k])
    BY DEF CompilesAreBounded
  <2> DEFINE bound == Cardinality(Procs) * (1 + deleted[k])
  <2>1. /\ Cardinality(Made(k)) \in Nat /\ Cardinality(Missed(k)) \in Nat
        /\ Cardinality(Procs) \in Nat /\ compiled[k] \in Nat /\ bound \in Nat
        /\ Cardinality(Made(k)) <= Cardinality(Procs)
    BY BoundNumbers DEF Inv
  <2>2. IF items[k] = None THEN compiled[k] + Cardinality(Procs) <= bound + Cardinality(Made(k))
        ELSE compiled[k] + Cardinality(Missed(k)) <= bound
    BY DEF Inv, CompileInv
  <2> HIDE DEF bound
  <2>3. compiled[k] <= bound
    BY <2>1, <2>2
  <2> QED BY <2>3 DEF bound
<1> QED BY <1>1, InvHolds, PTL
-----------------------------------------------------------------------------
(* The cache as a bounded cache                                            *)

ProgramsOf(k) == [source : {k} \cap Compilable, gen : Nat \ {0}]
AllPrograms == [source : Compilable, gen : Nat \ {0}]

(* InMemoryProgramCache drops nothing: it has room for every key.          *)
Unbounded == INSTANCE BoundedCache
                 WITH Programs <- AllPrograms, Capacity <- Cardinality(Keys), content <- items

(* A key has a program compiled for it, and so has a call that is to store *)
(* one under it.                                                           *)
OwnPrograms ==
    /\ \A k \in Keys : items[k] # None => items[k] \in ProgramsOf(k)
    /\ \A p \in Procs : pc[p] \in {"set", "store"} => reg[p].program \in ProgramsOf(key(p))

(* A step that neither stores a program nor comes to hold one to store.    *)
LEMMA OwnKept ==
    ASSUME OwnPrograms, NEW p \in Procs, items' = items, pc'[p] \notin {"set", "store"},
           \A q \in Procs \ {p} : pc'[q] = pc[q] /\ reg'[q] = reg[q]
    PROVE  OwnPrograms'
BY DEF OwnPrograms, key

(* Of the steps of a call only Store changes the cache, by setting a       *)
(* program of the key (compiler_cache.go, CachedRuleCompiler.Compile).     *)
LEMMA StepStores ==
    ASSUME Inv, OwnPrograms, NEW p \in Procs, Step(p)
    PROVE  /\ OwnPrograms'
           /\ \/ items' = items
              \/ \E k \in Keys, program \in AllPrograms : items' = [items EXCEPT ![k] = program]
<1>0. TypeOK /\ CallsInv
  BY DEF Inv
<1>1. CASE CompileMiss(p)
  <2> DEFINE k == key(p)
             program == Program(k, compiled[k] + 1)
  <2>1. pc[p] = "compile" /\ k \in Keys /\ compiled[k] \in Nat /\ items' = items
    BY <1>0, <1>1 DEF CompileMiss, Goto, CallsInv, Working, key, TypeOK
  <2>2. \A q \in Procs \ {p} : pc'[q] = pc[q] /\ reg'[q] = reg[q]
    BY <1>0, <1>1 DEF CompileMiss, Goto, TypeOK
  <2>3. CASE k \in Compilable
    <3>1. reg' = [reg EXCEPT ![p].program = program]
      BY <1>1, <2>3 DEF CompileMiss
    <3>2. reg'[p].program = program /\ key(p)' = k
      BY <1>0, <3>1 DEF TypeOK, Registers, key
    <3>3. program \in ProgramsOf(k)
      BY <2>1, <2>3 DEF Program, ProgramsOf
    <3> HIDE DEF k, program
    <3>4. OwnPrograms'
      BY <2>1, <2>2, <3>2, <3>3 DEF OwnPrograms, key
    <3> QED BY <2>1, <3>4
  <2>4. CASE k \notin Compilable
    <3>1. pc'[p] = "observe"
      BY <1>0, <1>1, <2>4 DEF CompileMiss, Goto, TypeOK
    <3> QED BY <2>1, <2>2, <3>1, OwnKept
  <2> QED BY <2>3, <2>4
<1>2. CASE CountSet(p)
  <2>1. items' = items /\ reg' = reg /\ pc[p] = "set" /\ \A q \in Procs \ {p} : pc'[q] = pc[q]
    BY <1>0, <1>2 DEF CountSet, AddAt, CountAt, Goto, TypeOK
  <2> QED BY <2>1 DEF OwnPrograms, key
<1>3. CASE Store(p)
  <2> DEFINE k == key(p)
             program == reg[p].program
  <2>1. pc[p] = "store" /\ k \in Keys /\ items' = [items EXCEPT ![k] = program] /\ reg' = reg
    BY <1>0, <1>3 DEF Store, Goto, CallsInv, Working, key
  <2>2. pc'[p] = "observe" /\ \A q \in Procs \ {p} : pc'[q] = pc[q]
    BY <1>0, <1>3 DEF Store, Goto, TypeOK
  <2>3. program \in ProgramsOf(k)
    BY <2>1 DEF OwnPrograms
  <2>4. program \in AllPrograms
    BY <2>3 DEF ProgramsOf, AllPrograms
  <2> HIDE DEF k, program
  <2>5. \A j \in Keys : items'[j] = IF j = k THEN program ELSE items[j]
    BY <1>0, <2>1 DEF TypeOK
  <2>6. OwnPrograms'
    BY <2>1, <2>2, <2>3, <2>5 DEF OwnPrograms, key
  <2> QED BY <2>1, <2>4, <2>6
<1>4. CASE Load(p)
  <2>1. PICK c, to : /\ LoadsTo(p, c, to)
                     /\ \/ reg[p].op = "cacheStats" /\ CacheLoad(c, to)
                        \/ reg[p].op = "observerStats" /\ ObserverLoad(c, to)
    BY <1>4, LoadGoes
  <2>2. to \notin {"set", "store"}
    BY <2>1 DEF CacheLoad, ObserverLoad
  <2>3. /\ items' = items /\ pc'[p] = to
        /\ \A q \in Procs \ {p} : pc'[q] = pc[q] /\ reg'[q] = reg[q]
    BY <1>0, <2>1 DEF LoadsTo, Goto, TypeOK
  <2> QED BY <2>2, <2>3, OwnKept
<1>5. ASSUME \/ Get(p) \/ CountRequest(p) \/ CountOutcome(p) \/ ObserveCompile(p)
             \/ CountCompileError(p) \/ ObserveEval(p) \/ CountEvalError(p) \/ Reported(p)
      PROVE  OwnPrograms' /\ items' = items
  <2>1. /\ items' = items /\ pc'[p] \notin {"set", "store"}
        /\ \A q \in Procs \ {p} : pc'[q] = pc[q] /\ reg'[q] = reg[q]
    BY <1>0, <1>5 DEF Get, CountRequest, CountOutcome, ObserveCompile, CountCompileError,
       ObserveEval, CountEvalError, Reported, AddAt, CountAt, Goto, TypeOK
  <2> QED BY <2>1, OwnKept
<1> QED BY <1>1, <1>2, <1>3, <1>4, <1>5 DEF Step

(* A call that begins or deletes takes at most the program of its key.     *)
LEMMA CallDeletes ==
    ASSUME Inv, OwnPrograms, NEW p \in Procs, Call(p)
    PROVE  /\ OwnPrograms'
           /\ items' = items \/ \E k \in Keys : items' = [items EXCEPT ![k] = None]
<1>0. TypeOK
  BY DEF Inv
<1>1. ASSUME NEW k \in Keys, Delete(p, k) PROVE OwnPrograms'
  <2>1. /\ \A j \in Keys : items'[j] = IF j = k THEN None ELSE items[j]
        /\ pc' = pc /\ reg' = reg
    BY <1>0, <1>1 DEF Delete, Begin, Goto, TypeOK
  <2> QED BY <2>1 DEF OwnPrograms, key
<1>2. ASSUME NEW k \in Keys, NEW op \in {"compile", "eval"}, Compile(p, k, op)
      PROVE  OwnPrograms' /\ items' = items
  <2>1. /\ items' = items /\ pc'[p] = "get"
        /\ \A q \in Procs \ {p} : pc'[q] = pc[q] /\ reg'[q] = reg[q]
    BY <1>0, <1>2 DEF Compile, Begin, Goto, TypeOK
  <2> QED BY <2>1, OwnKept
<1>3. ASSUME NEW which \in {"cacheStats", "observerStats"}, Stats(p, which)
      PROVE  OwnPrograms' /\ items' = items
  <2>1. Loads(which)[1] \notin {"set", "store"}
    BY DEF Loads
  <2>2. /\ items' = items /\ pc'[p] = Loads(which)[1]
        /\ \A q \in Procs \ {p} : pc'[q] = pc[q] /\ reg'[q] = reg[q]
    BY <1>0, <1>3 DEF Stats, Begin, Goto, TypeOK
  <2> QED BY <2>1, <2>2, OwnKept
<1>4. ASSUME NEW k \in Keys, Evaluate(p, k)
      PROVE  OwnPrograms' /\ items' = items
  <2>1. /\ items' = items /\ pc'[p] = "eval"
        /\ \A q \in Procs \ {p} : pc'[q] = pc[q] /\ reg'[q] = reg[q]
    BY <1>0, <1>4 DEF Evaluate, Begin, Goto, TypeOK
  <2> QED BY <2>1, OwnKept
<1> QED BY <1>1, <1>2, <1>3, <1>4 DEF Call, Delete

(* InMemoryProgramCache: of any number of goroutines that compile, a key   *)
(* has no program but one compiled for it.                                 *)
THEOREM OwnProgramsHold == Spec => []OwnPrograms
<1>1. Init => OwnPrograms
  BY DEF Init, OwnPrograms
<1>2. Inv /\ OwnPrograms /\ [Next]_vars => OwnPrograms'
  <2> SUFFICES ASSUME Inv, OwnPrograms, [Next]_vars PROVE OwnPrograms'
    OBVIOUS
  <2>1. CASE UNCHANGED vars
    BY <2>1 DEF vars, OwnPrograms, key
  <2> QED BY <2>1, StepStores, CallDeletes DEF Next
<1> QED BY <1>1, <1>2, InvHolds, PTL DEF Spec

(* Both modules count alike.                                               *)
LEMMA SameCardinality == \A S : Unbounded!Cardinality(S) = Cardinality(S)
BY DEF Unbounded!Cardinality, Cardinality

(* InMemoryProgramCache implements the cache that PersistentCache takes    *)
(* its local tier to be, with room for every key.                          *)
THEOREM UnboundedCacheImplemented == Spec => Unbounded!BoundedSpec
<1>1. Init => Unbounded!BoundedInit
  BY DEF Init, Unbounded!BoundedInit
<1>2. ASSUME Inv, OwnPrograms, [Next]_vars PROVE [Unbounded!BoundedNext]_items
  <2>1. ASSUME NEW k \in Keys, NEW program \in AllPrograms, items' = [items EXCEPT ![k] = program]
        PROVE  Unbounded!BoundedNext
    <3> DEFINE held == {j \in Keys : [items EXCEPT ![k] = program][j] # None}
    <3>1. Cardinality(held) <= Cardinality(Keys)
      BY FS_Subset, EngineAssumption
    <3>2. Unbounded!With(k, program) = {[items EXCEPT ![k] = program]}
      BY <3>1, SameCardinality DEF Unbounded!With
    <3> QED BY <2>1, <3>2 DEF Unbounded!BoundedNext
  <2>2. ASSUME NEW k \in Keys, items' = [items EXCEPT ![k] = None] PROVE Unbounded!BoundedNext
    BY <2>2 DEF Unbounded!BoundedNext
  <2>3. CASE UNCHANGED vars
    BY <2>3 DEF vars
  <2> QED BY <1>2, <2>1, <2>2, <2>3, StepStores, CallDeletes DEF Next
<1> QED BY <1>1, <1>2, InvHolds, OwnProgramsHold, PTL DEF Spec, Unbounded!BoundedSpec
=============================================================================
