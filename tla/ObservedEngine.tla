--------------------------- MODULE ObservedEngine ---------------------------
(***************************************************************************)
(* Engine.Compile and Engine.Eval (engine.go), called by several           *)
(* goroutines: a compiler that counts compilations (observer.go) around    *)
(* one that looks into an InMemoryProgramCache and counts what it finds    *)
(* (compiler_cache.go), and evaluations counted by the engine.             *)
(*                                                                         *)
(* The cache has a read-write mutex; what is done under it is one step, as *)
(* is every update of an atomic counter elsewhere.  Between a miss and the *)
(* Set nothing is held: goroutines may compile one rule at the same time.  *)
(* Durations are left out.                                                 *)
(***************************************************************************)
EXTENDS Integers, Sequences, FiniteSets

CONSTANTS
    Procs,      \* goroutines
    Keys,       \* compile cache keys
    Compilable, \* the keys of rules that compile
    MaxOps      \* bound on the calls begun

ASSUME EngineAssumption ==
    /\ IsFiniteSet(Procs) /\ IsFiniteSet(Keys)
    /\ Compilable \subseteq Keys
    /\ MaxOps \in Nat

VARIABLES
    items,      \* the map of the cache: key -> program, or None
    count,      \* the counters of the cache and of the observer
    pc,         \* where each goroutine is
    reg,        \* what its call holds in local variables
    ops,        \* calls begun
    handed,     \* keys of the programs that callers of Compile hold
    compiled,   \* history: key -> successful compilations
    deleted     \* history: key -> Deletes

vars == <<items, count, pc, reg, ops, handed, compiled, deleted>>

(* A program: the key it was compiled for, and which compilation made it.  *)
Program(k, n) == [source |-> k, gen |-> n]
None == [source |-> "none", gen |-> 0]
Programs == [source : Compilable, gen : 1..MaxOps]

CacheCounters == {"gets", "hits", "misses", "sets"}
ObserverCounters == {"compileCount", "compileErrors", "evalCount", "evalErrors",
                     "cacheRequests", "cacheHits", "cacheMisses"}
Counters == CacheCounters \cup ObserverCounters
Report == [Counters -> Nat]

Idle == [op |-> "none", key |-> "none", hit |-> FALSE, failed |-> FALSE, program |-> None,
         report |-> [c \in Counters |-> 0], pending |-> 0]

Init ==
    /\ items = [k \in Keys |-> None]
    /\ count = [c \in Counters |-> 0]
    /\ pc = [p \in Procs |-> "idle"]
    /\ reg = [p \in Procs |-> Idle]
    /\ ops = 0
    /\ handed = {}
    /\ compiled = [k \in Keys |-> 0]
    /\ deleted = [k \in Keys |-> 0]

Goto(p, from, to) ==
    /\ pc[p] = from
    /\ pc' = [pc EXCEPT ![p] = to]

Begin(p, to) ==
    /\ ops < MaxOps
    /\ ops' = ops + 1
    /\ Goto(p, "idle", to)

Add(c) == count' = [count EXCEPT ![c] = @ + 1]

(* A step that does nothing but add to a counter, and hand out a program.  *)
CountAt(p, c, from, to) ==
    /\ Goto(p, from, to)
    /\ Add(c)
    /\ UNCHANGED <<items, reg, ops, compiled, deleted>>

AddAt(p, c, from, to) == CountAt(p, c, from, to) /\ UNCHANGED handed

key(p) == reg[p].key

-----------------------------------------------------------------------------
(* Compile: observedRuleCompiler around CachedRuleCompiler                 *)

(* Engine.Compile, or Engine.Eval, which begins with it: the key is built, *)
(* and cache.Get counts itself.                                            *)
Compile(p, k, op) ==
    /\ Begin(p, "get")
    /\ Add("gets")
    /\ reg' = [reg EXCEPT ![p] = [Idle EXCEPT !.op = op, !.key = k]]
    /\ UNCHANGED <<items, handed, compiled, deleted>>

(* Get under the read lock.                                                *)
Get(p) ==
    LET found == items[key(p)]
    IN  /\ Goto(p, "get", "request")
        /\ Add(IF found # None THEN "hits" ELSE "misses")
        /\ reg' = [reg EXCEPT ![p].hit = found # None, ![p].program = found]
        /\ UNCHANGED <<items, ops, handed, compiled, deleted>>

(* ObserveCache.                                                           *)
CountRequest(p) == AddAt(p, "cacheRequests", "request", "outcome")

CountOutcome(p) ==
    IF reg[p].hit THEN AddAt(p, "cacheHits", "outcome", "observe")
    ELSE AddAt(p, "cacheMisses", "outcome", "compile")

(* The inner compiler fails, or makes a program.                           *)
CompileMiss(p) ==
    /\ IF key(p) \in Compilable
       THEN /\ Goto(p, "compile", "set")
            /\ compiled' = [compiled EXCEPT ![key(p)] = @ + 1]
            /\ reg' = [reg EXCEPT ![p].program = Program(key(p), compiled[key(p)] + 1)]
       ELSE /\ Goto(p, "compile", "observe")
            /\ reg' = [reg EXCEPT ![p].failed = TRUE]
            /\ UNCHANGED compiled
    /\ UNCHANGED <<items, count, ops, handed, deleted>>

CountSet(p) == AddAt(p, "sets", "set", "store")

(* Mutant: the program is not kept.                                        *)
StoreNothing(p) ==
    /\ Goto(p, "store", "observe")
    /\ UNCHANGED <<items, count, reg, ops, handed, compiled, deleted>>

(* Set under the lock.                                                     *)
Store(p) ==
    /\ Goto(p, "store", "observe")
    /\ items' = [items EXCEPT ![key(p)] = reg[p].program]
    /\ UNCHANGED <<count, reg, ops, handed, compiled, deleted>>

(* ObserveCompile, at a hit as well: the error, if any, is counted after   *)
(* the compilation.  Compile returns the program, Eval goes on to run it.  *)
ObserveCompile(p) ==
    /\ CountAt(p, "compileCount", "observe",
               IF reg[p].failed THEN "error" ELSE IF reg[p].op = "eval" THEN "eval" ELSE "idle")
    /\ handed' = IF reg[p].op = "compile" /\ ~reg[p].failed THEN handed \cup {key(p)} ELSE handed

CountCompileError(p) == AddAt(p, "compileErrors", "error", "idle")

-----------------------------------------------------------------------------
(* engineCompiledExpr.Eval of a program that Compile returned, by whoever  *)
(* holds it and as often as they like: so EngineService.EvalRule does.     *)
Evaluate(p, k) ==
    /\ k \in handed
    /\ Begin(p, "eval")
    /\ reg' = [reg EXCEPT ![p] = [Idle EXCEPT !.op = "eval", !.key = k]]
    /\ UNCHANGED <<items, count, handed, compiled, deleted>>

(* The program runs on a VM, succeeds or fails, and ObserveEval counts     *)
(* both, then failures.                                                    *)
ObserveEval(p) ==
    /\ Add("evalCount")
    /\ \E next \in {"idle", "evalError"} : Goto(p, "eval", next)
    /\ UNCHANGED <<items, reg, ops, handed, compiled, deleted>>

CountEvalError(p) == AddAt(p, "evalErrors", "evalError", "idle")

(* Delete: one critical section.                                           *)
Delete(p, k) ==
    /\ Begin(p, "idle")
    /\ items' = [items EXCEPT ![k] = None]
    /\ deleted' = [deleted EXCEPT ![k] = @ + 1]
    /\ UNCHANGED <<count, reg, handed, compiled>>

-----------------------------------------------------------------------------
(* Stats of the cache or of the observer: counter after counter.  pending  *)
(* is history: the calls that had been counted, but not yet their outcome, *)
(* when the first of the two was read.                                     *)

(* Mutant: the outcomes are read before what they are compared with.       *)
LoadsOutcomeFirst(which) ==
    IF which = "cacheStats" THEN <<"hits", "misses", "gets", "sets">>
    ELSE <<"compileCount", "compileErrors", "evalCount", "evalErrors",
           "cacheHits", "cacheMisses", "cacheRequests">>
Loads(which) ==
    IF which = "cacheStats" THEN <<"gets", "hits", "misses", "sets">>
    ELSE <<"compileCount", "compileErrors", "evalCount", "evalErrors",
           "cacheRequests", "cacheHits", "cacheMisses">>

At(place) == {q \in Procs : pc[q] = place}

Stats(p, which) ==
    /\ Begin(p, Loads(which)[1])
    /\ reg' = [reg EXCEPT ![p] = [Idle EXCEPT !.op = which]]
    /\ UNCHANGED <<items, count, handed, compiled, deleted>>

Load(p) ==
    LET loads == Loads(reg[p].op)
    IN  \E i \in DOMAIN loads :
            /\ Goto(p, loads[i], IF i = Len(loads) THEN "reported" ELSE loads[i + 1])
            /\ reg' = [reg EXCEPT ![p].report[loads[i]] = count[loads[i]],
                                  ![p].pending = CASE loads[i] = "gets" -> Cardinality(At("get"))
                                                   [] loads[i] = "cacheRequests" -> Cardinality(At("outcome"))
                                                   [] OTHER -> @]
            /\ UNCHANGED <<items, count, ops, handed, compiled, deleted>>

Reported(p) ==
    /\ Goto(p, "reported", "idle")
    /\ reg' = [reg EXCEPT ![p] = Idle]
    /\ UNCHANGED <<items, count, ops, handed, compiled, deleted>>

-----------------------------------------------------------------------------
Step(p) ==
    \/ Get(p) \/ CountRequest(p) \/ CountOutcome(p)
    \/ CompileMiss(p) \/ CountSet(p) \/ Store(p)
    \/ ObserveCompile(p) \/ CountCompileError(p)
    \/ ObserveEval(p) \/ CountEvalError(p)
    \/ Load(p) \/ Reported(p)

Call(p) ==
    \/ \E which \in {"cacheStats", "observerStats"} : Stats(p, which)
    \/ \E k \in Keys : Delete(p, k) \/ Evaluate(p, k) \/ \E op \in {"compile", "eval"} : Compile(p, k, op)

Next == \E p \in Procs : Step(p) \/ Call(p)

Spec == Init /\ [][Next]_vars

-----------------------------------------------------------------------------
QuietCountersAgree ==
    (\A p \in Procs : pc[p] \in {"idle", "reported"} \cup Counters) =>
        /\ count["cacheRequests"] = count["cacheHits"] + count["cacheMisses"]
        /\ count["cacheRequests"] = count["gets"] /\ count["cacheRequests"] = count["compileCount"]
        /\ count["cacheHits"] = count["hits"] /\ count["cacheMisses"] = count["misses"]
        /\ count["cacheMisses"] = count["sets"] + count["compileErrors"]
        /\ count["evalErrors"] <= count["evalCount"]
        /\ count["evalCount"] > 0 => count["compileErrors"] < count["compileCount"]

ReportAddsUp ==
    \A p \in Procs : pc[p] = "reported" =>
        LET r == reg[p].report
        IN  /\ r["gets"] <= r["hits"] + r["misses"] + reg[p].pending
            /\ r["cacheRequests"] <= r["cacheHits"] + r["cacheMisses"] + reg[p].pending

(* When no call is under way the observer and the cache agree: the calls   *)
(* that were compiled are the requests, each hit or missed; each miss was  *)
(* set or failed; and evaluations, of which a program may have any number, *)
(* come with a compilation that gave one.  A report read while others      *)
(* count is of no one instant; still it shows no request without its       *)
(* outcome, other than those that were between the two counters when the   *)
(* first was read.                                                         *)
CountersAgree == QuietCountersAgree /\ ReportAddsUp

(* A rule may be compiled several times, by goroutines that missed it at   *)
(* the same time, but by each only once until its program is deleted.      *)
CompilesAreBounded ==
    \A k \in Keys : compiled[k] <= Cardinality(Procs) * (1 + deleted[k])
=============================================================================
