--------------------------- MODULE EngineService ---------------------------
(***************************************************************************)
(* The engine service (engine_service.go): goroutines that publish rule    *)
(* sets and goroutines that load or evaluate them.  A publication compiles *)
(* its rules one after the other without the lock, then installs the rule  *)
(* set under it; a reader takes the lock to find its rule set and          *)
(* evaluates after releasing it.                                           *)
(*                                                                         *)
(* Compiling a rule is one step here: module PersistentCache has the calls *)
(* behind it, and shows that they answer with the program of the rule's    *)
(* own expression, or an error if that does not compile.                   *)
(***************************************************************************)
EXTENDS Integers, Sequences

CONSTANTS
    Procs,          \* goroutines
    Codes,          \* rule set codes
    MaxVersion,     \* bound on versions
    RuleCodes,      \* rule codes
    Exprs,          \* rule expressions
    Compilable,     \* those that compile
    Definitions,    \* the rule set definitions callers pass to PublishRuleSet
    Blank,          \* the empty string, as a code or an expression
    MaxPublishes    \* bound on publications

Versions == 1..MaxVersion

(* A program is named by the expression it was compiled from.              *)
Programs == [RuleCodes -> Compilable \cup {Blank}]
NoProgram == [r \in RuleCodes |-> Blank]

Rule == [rule : RuleCodes \cup {Blank}, expr : Exprs \cup {Blank}]

ASSUME ServiceAssumption ==
    /\ MaxVersion \in Nat /\ MaxPublishes \in Nat
    /\ Compilable \subseteq Exprs
    /\ Blank \notin Codes \cup RuleCodes \cup Exprs
    /\ Definitions \subseteq [code : Codes \cup {Blank}, version : -1..MaxVersion, rules : Seq(Rule)]

VARIABLES
    ruleSets,   \* code -> version -> published rule set
    latest,     \* code -> version, 0 when the code is absent
    pc,         \* where each goroutine is
    call,       \* the local variables of its call
    publishes,  \* publications begun
    answered    \* history: code -> greatest version whose publication returned

vars == <<ruleSets, latest, pc, call, publishes, answered>>

Query(code, version) == [code |-> code, version |-> version, rules |-> <<>>]
NoDefinition == Query(Blank, 0)
RuleSet(d, programs) == [definition |-> d, compiled |-> programs]
NoRuleSet == RuleSet(NoDefinition, NoProgram)

(* A call on d (its code and version), for a reader on one of its rules.   *)
Begun(d, rule, floor) ==
    [definition |-> d, next |-> 1, compiled |-> NoProgram, loaded |-> NoRuleSet,
     rule |-> rule, floor |-> floor, answer |-> "none"]
Idle == Begun(NoDefinition, Blank, 0)

Init ==
    /\ ruleSets = [c \in Codes |-> [v \in Versions |-> NoRuleSet]]
    /\ latest = [c \in Codes |-> 0]
    /\ pc = [p \in Procs |-> "idle"]
    /\ call = [p \in Procs |-> Idle]
    /\ publishes = 0
    /\ answered = [c \in Codes |-> 0]

Goto(p, from, to) ==
    /\ pc[p] = from
    /\ pc' = [pc EXCEPT ![p] = to]

def(p) == call[p].definition

-----------------------------------------------------------------------------
(* PublishRuleSet                                                          *)

WellNamed(d) == d.code # Blank /\ d.version > 0 /\ d.rules # <<>>

Publish(p, d) ==
    /\ publishes < MaxPublishes
    /\ publishes' = publishes + 1
    /\ Goto(p, "idle", IF WellNamed(d) THEN "compiling" ELSE "done")
    /\ call' = [call EXCEPT ![p] = [Begun(d, Blank, 0) EXCEPT !.answer = IF WellNamed(d) THEN "none" ELSE "error"]]
    /\ UNCHANGED <<ruleSets, latest, answered>>

(* Mutant: a rule is kept that did not compile.                            *)
AcceptableUncompiled(p) ==
    LET r == def(p).rules[call[p].next]
    IN  /\ r.rule # Blank
        /\ r.expr # Blank
        /\ \A i \in 1..(call[p].next - 1) : def(p).rules[i].rule # r.rule

(* The loop body: a rule with no code, no expression, a code seen before   *)
(* or an expression that does not compile ends the publication.            *)
Acceptable(p) ==
    LET r == def(p).rules[call[p].next]
    IN  /\ r.rule # Blank
        /\ r.expr # Blank
        /\ \A i \in 1..(call[p].next - 1) : def(p).rules[i].rule # r.rule
        /\ r.expr \in Compilable

(* Mutants: a rule that fails is skipped; it is tried again.               *)
CompileRuleSkipping(p) ==
    LET r == def(p).rules[call[p].next]
    IN  /\ call[p].next <= Len(def(p).rules)
        /\ Goto(p, "compiling", "compiling")
        /\ call' = [call EXCEPT ![p].compiled = IF Acceptable(p) THEN [@ EXCEPT ![r.rule] = r.expr] ELSE @,
                                ![p].next = @ + 1]
        /\ UNCHANGED <<ruleSets, latest, publishes, answered>>

CompileRuleRetrying(p) ==
    LET r == def(p).rules[call[p].next]
    IN  /\ call[p].next <= Len(def(p).rules)
        /\ Acceptable(p)
        /\ Goto(p, "compiling", "compiling")
        /\ call' = [call EXCEPT ![p].compiled[r.rule] = r.expr, ![p].next = @ + 1]
        /\ UNCHANGED <<ruleSets, latest, publishes, answered>>

CompileRule(p) ==
    LET r == def(p).rules[call[p].next]
    IN  /\ call[p].next <= Len(def(p).rules)
        /\ Goto(p, "compiling", IF Acceptable(p) THEN "compiling" ELSE "done")
        /\ call' = IF Acceptable(p)
                   THEN [call EXCEPT ![p].compiled[r.rule] = r.expr, ![p].next = @ + 1]
                   ELSE [call EXCEPT ![p].answer = "error"]
        /\ UNCHANGED <<ruleSets, latest, publishes, answered>>

(* Mutant: the latest version moves only when it is a new one.             *)
InstallOnce(p) ==
    LET d == def(p)
    IN  /\ call[p].next > Len(d.rules)
        /\ Goto(p, "compiling", "done")
        /\ ruleSets' = [ruleSets EXCEPT ![d.code][d.version] = RuleSet(d, call[p].compiled)]
        /\ latest' = [latest EXCEPT ![d.code] = IF @ = 0 THEN d.version ELSE @]
        /\ call' = [call EXCEPT ![p].answer = "published"]
        /\ UNCHANGED <<publishes, answered>>

(* Under the lock.                                                         *)
Install(p) ==
    LET d == def(p)
    IN  /\ call[p].next > Len(d.rules)
        /\ Goto(p, "compiling", "done")
        /\ ruleSets' = [ruleSets EXCEPT ![d.code][d.version] = RuleSet(d, call[p].compiled)]
        /\ latest' = [latest EXCEPT ![d.code] = IF d.version >= @ THEN d.version ELSE @]
        /\ call' = [call EXCEPT ![p].answer = "published"]
        /\ UNCHANGED <<publishes, answered>>

-----------------------------------------------------------------------------
(* Readers                                                                 *)

(* A reader's call begins.                                                 *)
Read(p, code, version, rule, to) ==
    /\ Goto(p, "idle", to)
    /\ call' = [call EXCEPT ![p] = Begun(Query(code, version), rule, answered[code])]
    /\ UNCHANGED <<ruleSets, latest, publishes, answered>>

Found(p, ruleSet) ==
    /\ Goto(p, "loading", IF ruleSet = NoRuleSet THEN "done" ELSE "loaded")
    /\ call' = [call EXCEPT ![p].loaded = ruleSet,
                            ![p].answer = IF ruleSet = NoRuleSet THEN "error" ELSE "none"]
    /\ UNCHANGED <<ruleSets, latest, publishes, answered>>

(* LoadRuleSet and LoadLatestRuleSet, under the read lock; the latter is   *)
(* asked for version 0 here.                                               *)
LoadRuleSet(p) ==
    /\ def(p).version > 0
    /\ Found(p, ruleSets[def(p).code][def(p).version])

LoadLatestRuleSet(p) ==
    /\ def(p).version = 0
    /\ LET newest == latest[def(p).code]
       IN  Found(p, IF newest = 0 THEN NoRuleSet ELSE ruleSets[def(p).code][newest])

(* EvalRule and EvalLatestRule: evaluate the rule of the set they loaded.  *)
EvalLoaded(p) ==
    /\ Goto(p, "loaded", "done")
    /\ call' = [call EXCEPT ![p].answer = IF call[p].loaded.compiled[call[p].rule] = Blank
                                          THEN "error" ELSE "evaluated"]
    /\ UNCHANGED <<ruleSets, latest, publishes, answered>>

Return(p) ==
    /\ Goto(p, "done", "idle")
    /\ call' = [call EXCEPT ![p] = Idle]
    /\ answered' = IF call[p].answer = "published"
                   THEN [answered EXCEPT ![def(p).code] = IF def(p).version > @ THEN def(p).version ELSE @]
                   ELSE answered
    /\ UNCHANGED <<ruleSets, latest, publishes>>

Step(p) ==
    \/ CompileRule(p) \/ Install(p)
    \/ LoadRuleSet(p) \/ LoadLatestRuleSet(p) \/ EvalLoaded(p)
    \/ Return(p)

Eval(p) == \E c \in Codes, v \in 0..MaxVersion, r \in RuleCodes : Read(p, c, v, r, "loading")

Next == \E p \in Procs : Step(p) \/ Eval(p) \/ \E d \in Definitions : Publish(p, d)

(* A goroutine in a call is scheduled, and Go's RWMutex starves neither    *)
(* readers nor writers.                                                    *)
Spec == Init /\ [][Next]_vars /\ \A p \in Procs : WF_vars(Step(p))

-----------------------------------------------------------------------------
Places == {"idle", "compiling", "loading", "loaded", "done"}
Defined == [code : Codes \cup {Blank}, version : -1..MaxVersion, rules : Seq(Rule)]
RuleSets == [definition : Defined, compiled : Programs]
Calls == [definition : Defined, next : Nat \ {0}, compiled : Programs, loaded : RuleSets,
          rule : RuleCodes \cup {Blank}, floor : 0..MaxVersion,
          answer : {"none", "error", "published", "evaluated"}]

TypeOK ==
    /\ ruleSets \in [Codes -> [Versions -> RuleSets]]
    /\ latest \in [Codes -> 0..MaxVersion]
    /\ pc \in [Procs -> Places]
    /\ call \in [Procs -> Calls]
    /\ publishes \in Nat
    /\ answered \in [Codes -> 0..MaxVersion]

Installed(c, v) == ruleSets[c][v] # NoRuleSet

(* The list is sorted; the model keeps the set.                            *)
ListRuleSetVersions(c) == {v \in Versions : Installed(c, v)}

(* The latest version is the greatest one listed, whatever order the       *)
(* publishers finish in, and a version is latest as soon as one is listed. *)
LatestIsGreatest ==
    \A c \in Codes :
        /\ latest[c] \in ListRuleSetVersions(c) \cup {0}
        /\ \A v \in ListRuleSetVersions(c) : v <= latest[c]

(* The programs of the first n rules of d, and nothing else.               *)
ProgramsOf(d, n, programs) ==
    /\ \A i \in 1..n : d.rules[i].rule \in RuleCodes /\ d.rules[i].expr \in Compilable
    /\ \A i \in 1..n : programs[d.rules[i].rule] = d.rules[i].expr
    /\ \A r \in RuleCodes : programs[r] # Blank => \E i \in 1..n : d.rules[i].rule = r

Complete(s, c, v) ==
    /\ s.definition.code = c
    /\ s.definition.version = v
    /\ WellNamed(s.definition)
    /\ ProgramsOf(s.definition, Len(s.definition.rules), s.compiled)

(* No partial publication (technical design, section 10): an installed set*)
(* has the program of each of its rules, under the code and version of its *)
(* definition.                                                             *)
NoPartialPublication ==
    \A c \in Codes, v \in Versions : Installed(c, v) => Complete(ruleSets[c][v], c, v)

(* A publication that has returned is seen by whoever asks for the latest  *)
(* version later: the rule set found is at least as new, and it is whole,  *)
(* whatever is published while the evaluation runs.                        *)
EvaluatesRecentRules ==
    \A p \in Procs :
        LET s == call[p].loaded.definition
        IN  /\ pc[p] = "loaded" =>
                   /\ Complete(call[p].loaded, s.code, s.version)
                   /\ s.code = def(p).code
                   /\ IF def(p).version = 0 THEN s.version >= call[p].floor
                                            ELSE s.version = def(p).version
            /\ (pc[p] = "loading" /\ def(p).version = 0 /\ call[p].floor > 0) =>
                   latest[def(p).code] >= call[p].floor

(* The latest version of a rule set never falls back, and no version that  *)
(* was installed disappears.                                               *)
NeverFallsBack ==
    [][\A c \in Codes : /\ latest'[c] >= latest[c]
                        /\ \A v \in Versions : Installed(c, v) => Installed(c, v)']_vars

(* Every call returns.                                                     *)
CallsReturn == \A p \in Procs : pc[p] # "idle" ~> pc[p] = "idle"

-----------------------------------------------------------------------------
(* The service implements the registry: Install is the publication, every  *)
(* other step leaves the registry alone.                                   *)
Publishable ==
    {d \in Definitions :
        /\ WellNamed(d)
        /\ \A i \in DOMAIN d.rules : d.rules[i].rule \in RuleCodes /\ d.rules[i].expr \in Compilable
        /\ \A i, j \in DOMAIN d.rules : d.rules[i].rule = d.rules[j].rule => i = j}

Registry == INSTANCE RuleSetRegistry WITH
    published <- [c \in Codes |-> [v \in Versions |-> ruleSets[c][v].definition]],
    newest <- latest

ImplementsRegistry == Registry!RegistrySpec
=============================================================================
