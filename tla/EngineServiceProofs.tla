------------------------ MODULE EngineServiceProofs ------------------------
(***************************************************************************)
(* What holds of the engine service for all goroutines, rule sets and      *)
(* definitions, and that it implements the registry.                       *)
(***************************************************************************)
EXTENDS EngineService, TLAPS

(* A publication that compiles has compiled the rules before the next one. *)
Compiling(p) == pc[p] = "compiling" =>
    LET d == def(p)
        n == call[p].next - 1
    IN  /\ d \in Definitions /\ WellNamed(d)
        /\ n <= Len(d.rules)
        /\ ProgramsOf(d, n, call[p].compiled)
        /\ \A i, j \in 1..n : d.rules[i].rule = d.rules[j].rule => i = j

(* What a reader was promised is there to be found.                        *)
Loading(p) == pc[p] = "loading" =>
    /\ def(p).code \in Codes /\ def(p).version \in 0..MaxVersion
    /\ latest[def(p).code] >= call[p].floor

Loaded(p) == pc[p] = "loaded" =>
    LET s == call[p].loaded.definition
    IN  /\ Complete(call[p].loaded, s.code, s.version)
        /\ s.code = def(p).code
        /\ IF def(p).version = 0 THEN s.version >= call[p].floor ELSE s.version = def(p).version

(* A publication says so only when it is installed.                        *)
Published(p) == call[p].answer = "published" =>
    /\ pc[p] = "done"
    /\ def(p).code \in Codes /\ def(p).version \in Versions
    /\ latest[def(p).code] >= def(p).version

CallsInv == \A p \in Procs : Compiling(p) /\ Loading(p) /\ Loaded(p) /\ Published(p)

AnsweredIsInstalled == \A c \in Codes : latest[c] >= answered[c]

(* The state of the calls is what makes the invariants of the rule sets    *)
(* inductive: a rule set is built over many steps in a call's own          *)
(* variables and installed in one.                                         *)
IInv ==
    /\ TypeOK
    /\ LatestIsGreatest
    /\ NoPartialPublication
    /\ CallsInv
    /\ AnsweredIsInstalled

(* A definition a caller may pass has the type of definitions.             *)
LEMMA DefinitionTypes ==
    ASSUME NEW d \in Definitions
    PROVE  /\ d \in Defined
           /\ d.code \in Codes \cup {Blank} /\ d.version \in -1..MaxVersion
           /\ d.rules \in Seq(Rule) /\ Len(d.rules) \in Nat
           /\ WellNamed(d) => d.code \in Codes /\ d.version \in Versions
BY ServiceAssumption DEF Defined, WellNamed, Versions

(* A call that begins has the type of calls.                               *)
LEMMA BegunType ==
    ASSUME NEW d \in Defined, NEW r \in RuleCodes \cup {Blank}, NEW m \in 0..MaxVersion
    PROVE  /\ Begun(d, r, m) \in Calls
           /\ Begun(d, r, m).definition = d /\ Begun(d, r, m).rule = r /\ Begun(d, r, m).floor = m
           /\ Begun(d, r, m).next = 1 /\ Begun(d, r, m).compiled = NoProgram
           /\ Begun(d, r, m).answer = "none"
           /\ NoRuleSet \in RuleSets
<1>1. NoDefinition \in Defined /\ NoProgram \in Programs
  <2>1. <<>> \in Seq(Rule)
    OBVIOUS
  <2> QED BY <2>1, ServiceAssumption DEF NoDefinition, Query, Defined, NoProgram, Programs
<1>2. NoRuleSet \in RuleSets
  BY <1>1 DEF NoRuleSet, RuleSet, RuleSets
<1> QED BY <1>1, <1>2 DEF Begun, Calls

(* The registers of an idle goroutine.                                     *)
LEMMA IdleType == Idle \in Calls /\ NoRuleSet \in RuleSets /\ Idle.answer = "none"
<1>1. NoDefinition \in Defined
  <2>1. <<>> \in Seq(Rule)
    OBVIOUS
  <2> QED BY <2>1, ServiceAssumption DEF NoDefinition, Query, Defined
<1> QED BY <1>1, BegunType, ServiceAssumption DEF Idle

(* An empty service with idle goroutines satisfies the invariant.          *)
THEOREM InitEstablishesIInv == Init => IInv
<1> SUFFICES ASSUME Init PROVE IInv
  OBVIOUS
<1>1. TypeOK
  BY IdleType, ServiceAssumption DEF Init, TypeOK, Places
<1>2. LatestIsGreatest /\ NoPartialPublication
  BY DEF Init, LatestIsGreatest, NoPartialPublication, ListRuleSetVersions, Installed
<1>3. CallsInv /\ AnsweredIsInstalled
  BY IdleType DEF Init, CallsInv, AnsweredIsInstalled, Compiling, Loading, Loaded, Published
<1> QED BY <1>1, <1>2, <1>3 DEF IInv

-----------------------------------------------------------------------------
(* A step of p leaves the other calls as they are, if latest only grows.   *)
LEMMA OtherCallsKept ==
    ASSUME IInv, NEW p \in Procs, NEW to \in Places, NEW c \in Calls,
           pc' = [pc EXCEPT ![p] = to], call' = [call EXCEPT ![p] = c],
           \A k \in Codes : latest'[k] \in 0..MaxVersion /\ latest'[k] >= latest[k],
           (Compiling(p) /\ Loading(p) /\ Loaded(p) /\ Published(p))'
    PROVE  /\ CallsInv'
           /\ pc' \in [Procs -> Places] /\ call' \in [Procs -> Calls]
<1>1. pc' \in [Procs -> Places] /\ call' \in [Procs -> Calls]
  BY DEF IInv, TypeOK
<1>2. ASSUME NEW q \in Procs, q # p PROVE (Compiling(q) /\ Loading(q) /\ Loaded(q) /\ Published(q))'
  <2>1. pc'[q] = pc[q] /\ call'[q] = call[q] /\ def(q)' = def(q)
    BY <1>2 DEF IInv, TypeOK, def
  <2>2. Compiling(q) /\ Loading(q) /\ Loaded(q) /\ Published(q)
    BY DEF IInv, CallsInv
  <2>3. Compiling(q)' /\ Loaded(q)'
    <3>1. Compiling(q)'
      BY <2>1, <2>2 DEF Compiling
    <3>2. Loaded(q)'
      BY <2>1, <2>2 DEF Loaded
    <3> QED BY <3>1, <3>2
  <2>4. call[q] \in Calls /\ call[q].floor \in Nat /\ def(q).version \in Int
    BY SMTT(30), ServiceAssumption DEF IInv, TypeOK, Calls, Defined, def
  <2>5. \A k \in Codes : latest[k] \in Nat /\ latest'[k] \in Nat
    BY ServiceAssumption DEF IInv, TypeOK
  <2>6. Loading(q)'
    BY <2>1, <2>2, <2>4, <2>5 DEF Loading
  <2>7. Published(q)'
    BY <2>1, <2>2, <2>4, <2>5 DEF Published
  <2> QED BY <2>3, <2>6, <2>7
<1> QED BY <1>1, <1>2 DEF CallsInv

(* A step of p on its own variables.                                       *)
LEMMA LocalStepKeeps ==
    ASSUME IInv, NEW p \in Procs, NEW to \in Places, NEW c \in Calls,
           pc' = [pc EXCEPT ![p] = to], call' = [call EXCEPT ![p] = c],
           publishes' \in Nat, UNCHANGED <<ruleSets, latest, answered>>,
           (Compiling(p) /\ Loading(p) /\ Loaded(p) /\ Published(p))'
    PROVE  IInv'
<1>1. \A k \in Codes : latest'[k] \in 0..MaxVersion /\ latest'[k] >= latest[k]
  BY ServiceAssumption DEF IInv, TypeOK
<1>2. CallsInv' /\ pc' \in [Procs -> Places] /\ call' \in [Procs -> Calls]
  BY <1>1, OtherCallsKept
<1>3. TypeOK'
  BY <1>2 DEF IInv, TypeOK
<1>4. LatestIsGreatest' /\ NoPartialPublication' /\ AnsweredIsInstalled'
  BY DEF IInv, LatestIsGreatest, NoPartialPublication, AnsweredIsInstalled, ListRuleSetVersions,
     Installed
<1> QED BY <1>2, <1>3, <1>4 DEF IInv

-----------------------------------------------------------------------------
(* PublishRuleSet begins, or refuses the definition at once.               *)
LEMMA PublishKeeps ==
    ASSUME IInv, NEW p \in Procs, NEW d \in Definitions, Publish(p, d) PROVE IInv'
<1> DEFINE to == IF WellNamed(d) THEN "compiling" ELSE "done"
           answer == IF WellNamed(d) THEN "none" ELSE "error"
           c == [Begun(d, Blank, 0) EXCEPT !.answer = answer]
<1>1. /\ pc' = [pc EXCEPT ![p] = to] /\ call' = [call EXCEPT ![p] = c]
      /\ publishes' = publishes + 1 /\ UNCHANGED <<ruleSets, latest, answered>>
  BY DEF Publish, Goto
<1>2. c \in Calls /\ c.definition = d /\ c.next = 1 /\ c.compiled = NoProgram /\ c.answer = answer
  <2>1. d \in Defined /\ Blank \in RuleCodes \cup {Blank} /\ 0 \in 0..MaxVersion
    BY DefinitionTypes, ServiceAssumption
  <2> QED BY <2>1, BegunType DEF Calls
<1>3. to \in Places /\ publishes' \in Nat
  BY <1>1 DEF Places, IInv, TypeOK
<1>4. pc'[p] = to /\ call'[p] = c /\ def(p)' = d
  BY <1>1, <1>2 DEF IInv, TypeOK, def
<1> HIDE DEF c
<1>5. Compiling(p)'
  <2> SUFFICES ASSUME WellNamed(d) PROVE Compiling(p)'
    BY <1>4 DEF Compiling
  <2>1. ProgramsOf(d, 0, NoProgram)
    BY DEF ProgramsOf, NoProgram
  <2> QED BY <1>2, <1>4, <2>1, DefinitionTypes DEF Compiling
<1>6. (Loading(p) /\ Loaded(p) /\ Published(p))'
  BY <1>2, <1>4 DEF Loading, Loaded, Published
<1> QED BY <1>1, <1>2, <1>3, <1>5, <1>6, LocalStepKeeps

(* The next rule compiles, or ends the publication with its error.         *)
LEMMA CompileRuleKeeps ==
    ASSUME IInv, NEW p \in Procs, CompileRule(p) PROVE IInv'
<1> DEFINE d == def(p)
           n == call[p].next
           r == d.rules[n]
           programs == [call[p].compiled EXCEPT ![r.rule] = r.expr]
<1>1. pc[p] = "compiling" /\ n <= Len(d.rules) /\ UNCHANGED <<ruleSets, latest, publishes, answered>>
  BY DEF CompileRule, Goto
<1>2. /\ d \in Definitions /\ WellNamed(d)
      /\ ProgramsOf(d, n - 1, call[p].compiled)
      /\ \A i, j \in 1..(n - 1) : d.rules[i].rule = d.rules[j].rule => i = j
  BY <1>1 DEF IInv, CallsInv, Compiling
<1>3. /\ call[p] \in Calls /\ n \in Nat \ {0} /\ call[p].compiled \in Programs
      /\ publishes \in Nat /\ call[p].answer # "published"
  BY <1>1 DEF IInv, TypeOK, Calls, CallsInv, Published
<1>4. d.rules \in Seq(Rule) /\ Len(d.rules) \in Nat
  BY <1>2, DefinitionTypes
<1>5. r \in Rule
  BY <1>1, <1>3, <1>4
<1>6. CASE Acceptable(p)
  <2> DEFINE c == [call[p] EXCEPT !.compiled = programs, !.next = n + 1]
  <2>1. pc' = [pc EXCEPT ![p] = "compiling"] /\ call' = [call EXCEPT ![p] = c]
    BY <1>6 DEF CompileRule, Goto
  <2>2. r.rule \in RuleCodes /\ r.expr \in Compilable /\ \A i \in 1..(n - 1) : d.rules[i].rule # r.rule
    BY <1>5, <1>6 DEF Acceptable, Rule
  <2>3. programs \in Programs
    BY <1>3, <2>2 DEF Programs
  <2>4. /\ c \in Calls /\ c.definition = d /\ c.next = n + 1 /\ c.compiled = programs
        /\ c.answer = call[p].answer
    <3>1. \A x \in Calls, q \in Programs, m \in Nat \ {0} :
             /\ [x EXCEPT !.compiled = q, !.next = m] \in Calls
             /\ [x EXCEPT !.compiled = q, !.next = m].definition = x.definition
             /\ [x EXCEPT !.compiled = q, !.next = m].next = m
             /\ [x EXCEPT !.compiled = q, !.next = m].compiled = q
             /\ [x EXCEPT !.compiled = q, !.next = m].answer = x.answer
      BY ZenonT(60) DEF Calls
    <3>2. n + 1 \in Nat \ {0} /\ call[p].definition = d
      BY <1>3 DEF def
    <3>3. \A q \in Programs, m \in Nat \ {0} :
             /\ [call[p] EXCEPT !.compiled = q, !.next = m] \in Calls
             /\ [call[p] EXCEPT !.compiled = q, !.next = m].definition = call[p].definition
             /\ [call[p] EXCEPT !.compiled = q, !.next = m].next = m
             /\ [call[p] EXCEPT !.compiled = q, !.next = m].compiled = q
             /\ [call[p] EXCEPT !.compiled = q, !.next = m].answer = call[p].answer
      BY <1>3, <3>1
    <3> HIDE DEF programs, d
    <3> QED BY ZenonT(60), <2>3, <3>2, <3>3
  <2>5. pc'[p] = "compiling" /\ call'[p] = c /\ def(p)' = d
    BY <2>1, <2>4 DEF IInv, TypeOK, def
  <2>6. ProgramsOf(d, n, programs)
    BY <1>2, <1>3, <2>2 DEF ProgramsOf, Programs
  <2>7. \A i, j \in 1..n : d.rules[i].rule = d.rules[j].rule => i = j
    BY <1>2, <1>3, <2>2
  <2> HIDE DEF c, d, programs
  <2>8. n + 1 - 1 = n
    BY <1>3
  <2>9. Compiling(p)'
    <3>1. call'[p].next - 1 = n /\ call'[p].compiled = programs
      BY <1>3, <2>4, <2>5, <2>8
    <3> QED BY <1>1, <1>2, <2>5, <2>6, <2>7, <3>1 DEF Compiling
  <2>10. (Loading(p) /\ Loaded(p) /\ Published(p))'
    BY <1>3, <2>4, <2>5 DEF Loading, Loaded, Published
  <2> QED BY <1>1, <1>3, <2>1, <2>4, <2>9, <2>10, LocalStepKeeps DEF Places
<1>7. CASE ~Acceptable(p)
  <2> DEFINE c == [call[p] EXCEPT !.answer = "error"]
  <2>1. pc' = [pc EXCEPT ![p] = "done"] /\ call' = [call EXCEPT ![p] = c]
    BY <1>7 DEF CompileRule, Goto
  <2>2. c \in Calls /\ c.answer = "error"
    BY <1>3 DEF Calls
  <2>3. pc'[p] = "done" /\ call'[p] = c
    BY <2>1 DEF IInv, TypeOK
  <2>4. (Compiling(p) /\ Loading(p) /\ Loaded(p) /\ Published(p))'
    BY <2>2, <2>3 DEF Compiling, Loading, Loaded, Published
  <2> QED BY <1>1, <1>3, <2>1, <2>2, <2>4, LocalStepKeeps DEF Places
<1> QED BY <1>6, <1>7

(* What the call of p is about to install.                                 *)
LEMMA InstallFacts ==
    ASSUME IInv, NEW p \in Procs, Install(p)
    PROVE  LET d == def(p)
           IN  /\ d \in Definitions /\ WellNamed(d)
               /\ ProgramsOf(d, Len(d.rules), call[p].compiled)
               /\ \A i, j \in 1..Len(d.rules) : d.rules[i].rule = d.rules[j].rule => i = j
               /\ RuleSet(d, call[p].compiled) \in RuleSets \ {NoRuleSet}
               /\ RuleSet(d, call[p].compiled).definition = d
               /\ RuleSet(d, call[p].compiled).compiled = call[p].compiled
<1> DEFINE d == def(p)
           n == call[p].next - 1
<1>1. /\ d \in Definitions /\ WellNamed(d) /\ n <= Len(d.rules)
      /\ ProgramsOf(d, n, call[p].compiled)
      /\ \A i, j \in 1..n : d.rules[i].rule = d.rules[j].rule => i = j
  BY DEF IInv, CallsInv, Compiling, Install, Goto
<1>2. d \in Defined /\ Len(d.rules) \in Nat /\ call[p].next \in Nat /\ call[p].compiled \in Programs
  BY <1>1, DefinitionTypes DEF IInv, TypeOK, Calls
<1>3. n = Len(d.rules)
  BY <1>1, <1>2 DEF Install
<1>4. RuleSet(d, call[p].compiled) \in RuleSets \ {NoRuleSet}
  BY <1>1, <1>2 DEF RuleSet, RuleSets, NoRuleSet, NoDefinition, Query, WellNamed
<1> HIDE DEF n
<1> QED BY <1>1, <1>3, <1>4 DEF RuleSet

(* PublishRuleSet installs its rule set and moves the latest version.      *)
LEMMA InstallKeeps ==
    ASSUME IInv, NEW p \in Procs, Install(p) PROVE IInv'
<1> DEFINE d == def(p)
           s == RuleSet(d, call[p].compiled)
           c == [call[p] EXCEPT !.answer = "published"]
<1>1. /\ d \in Definitions /\ WellNamed(d) /\ ProgramsOf(d, Len(d.rules), call[p].compiled)
      /\ s \in RuleSets \ {NoRuleSet} /\ s.definition = d /\ s.compiled = call[p].compiled
  BY InstallFacts
<1>2. d.code \in Codes /\ d.version \in Versions
  BY <1>1, DefinitionTypes
<1>3. /\ pc' = [pc EXCEPT ![p] = "done"] /\ call' = [call EXCEPT ![p] = c]
      /\ ruleSets' = [ruleSets EXCEPT ![d.code][d.version] = s]
      /\ latest' = [latest EXCEPT ![d.code] = IF d.version >= @ THEN d.version ELSE @]
      /\ UNCHANGED <<publishes, answered>>
  BY DEF Install, Goto
<1>4. /\ ruleSets \in [Codes -> [Versions -> RuleSets]] /\ latest \in [Codes -> 0..MaxVersion]
      /\ answered \in [Codes -> 0..MaxVersion] /\ MaxVersion \in Nat
  BY ServiceAssumption DEF IInv, TypeOK
<1>5. c \in Calls /\ c.definition = d /\ c.answer = "published"
  BY DEF IInv, TypeOK, Calls, def
<1> HIDE DEF d, s, c
<1>6. /\ \A k \in Codes : latest'[k] = IF k = d.code /\ d.version >= latest[k] THEN d.version ELSE latest[k]
      /\ \A k \in Codes, v \in Versions :
             ruleSets'[k][v] = IF k = d.code /\ v = d.version THEN s ELSE ruleSets[k][v]
  BY <1>2, <1>3, <1>4
<1>7. \A k \in Codes : latest'[k] \in 0..MaxVersion /\ latest'[k] >= latest[k]
  BY <1>2, <1>4, <1>6 DEF Versions
<1>8. CallsInv' /\ pc' \in [Procs -> Places] /\ call' \in [Procs -> Calls]
  <2>1. pc'[p] = "done" /\ call'[p] = c /\ def(p)' = d
    BY <1>3, <1>5 DEF IInv, TypeOK, def
  <2>2. (Compiling(p) /\ Loading(p) /\ Loaded(p))'
    BY <2>1 DEF Compiling, Loading, Loaded
  <2>3. latest'[d.code] >= d.version
    BY <1>2, <1>4, <1>6 DEF Versions
  <2>4. Published(p)'
    BY <1>2, <2>1, <2>3 DEF Published
  <2> QED BY <1>3, <1>5, <1>7, <2>2, <2>4, OtherCallsKept DEF Places
<1>9. TypeOK'
  <2>1. ruleSets' \in [Codes -> [Versions -> RuleSets]]
    BY <1>1, <1>2, <1>3, <1>4
  <2>2. latest' \in [Codes -> 0..MaxVersion]
    BY <1>3, <1>4, <1>7
  <2> QED BY <1>3, <1>8, <2>1, <2>2 DEF IInv, TypeOK
<1>10. LatestIsGreatest'
  <2> SUFFICES ASSUME NEW k \in Codes
               PROVE  /\ latest'[k] # 0 => latest'[k] \in Versions /\ ruleSets'[k][latest'[k]] # NoRuleSet
                      /\ \A v \in Versions : ruleSets'[k][v] # NoRuleSet => v <= latest'[k]
    BY <1>7 DEF LatestIsGreatest, ListRuleSetVersions, Installed
  <2>1. /\ latest[k] # 0 => latest[k] \in Versions /\ ruleSets[k][latest[k]] # NoRuleSet
        /\ \A v \in Versions : ruleSets[k][v] # NoRuleSet => v <= latest[k]
    BY <1>4 DEF IInv, LatestIsGreatest, ListRuleSetVersions, Installed
  <2>2. CASE k = d.code
    <3>1. \A v \in Versions : ruleSets'[k][v] = IF v = d.version THEN s ELSE ruleSets[k][v]
      BY <1>6, <2>2
    <3>2. latest'[k] = IF d.version >= latest[k] THEN d.version ELSE latest[k]
      BY <1>6, <2>2
    <3>3. latest[k] \in Nat /\ d.version \in Nat \ {0} /\ \A v \in Versions : v \in Nat
      BY <1>2, <1>4 DEF Versions
    <3>4. latest'[k] \in Versions /\ ruleSets'[k][latest'[k]] # NoRuleSet
      BY <1>1, <1>2, <2>1, <3>1, <3>2, <3>3
    <3> QED BY <2>1, <3>1, <3>2, <3>3, <3>4
  <2>3. CASE k # d.code
    BY <1>6, <2>1, <2>3
  <2> QED BY <2>2, <2>3
<1>11. NoPartialPublication'
  <2> SUFFICES ASSUME NEW k \in Codes, NEW v \in Versions, ruleSets'[k][v] # NoRuleSet
               PROVE  Complete(ruleSets'[k][v], k, v)
    BY DEF NoPartialPublication, Installed, Complete
  <2>1. CASE k = d.code /\ v = d.version
    BY <1>1, <1>6, <2>1 DEF Complete
  <2>2. CASE ~(k = d.code /\ v = d.version)
    BY <1>6, <2>2 DEF IInv, NoPartialPublication, Installed
  <2> QED BY <2>1, <2>2
<1>12. AnsweredIsInstalled'
  BY <1>3, <1>4, <1>7 DEF IInv, AnsweredIsInstalled
<1> QED BY <1>8, <1>9, <1>10, <1>11, <1>12 DEF IInv

(* A reader's call begins.                                                 *)
LEMMA ReadKeeps ==
    ASSUME IInv, NEW p \in Procs, Eval(p) PROVE IInv'
<1>1. PICK k \in Codes, v \in 0..MaxVersion, r \in RuleCodes : Read(p, k, v, r, "loading")
  BY DEF Eval
<1> DEFINE d == Query(k, v)
           c == Begun(d, r, answered[k])
<1>2. /\ pc' = [pc EXCEPT ![p] = "loading"] /\ call' = [call EXCEPT ![p] = c]
      /\ UNCHANGED <<ruleSets, latest, publishes, answered>>
  BY <1>1 DEF Read, Goto
<1>3. d \in Defined /\ d.code = k /\ d.version = v
  <2>1. <<>> \in Seq(Rule)
    OBVIOUS
  <2> QED BY <2>1, ServiceAssumption DEF Query, Defined
<1>4. answered[k] \in 0..MaxVersion /\ latest[k] >= answered[k] /\ publishes \in Nat
  BY DEF IInv, TypeOK, AnsweredIsInstalled
<1>5. c \in Calls /\ c.definition = d /\ c.floor = answered[k] /\ c.answer = "none"
  BY <1>3, <1>4, BegunType
<1> HIDE DEF c, d
<1>6. pc'[p] = "loading" /\ call'[p] = c /\ def(p)' = d
  BY <1>2, <1>5 DEF IInv, TypeOK, def
<1>7. (Compiling(p) /\ Loading(p) /\ Loaded(p) /\ Published(p))'
  BY <1>2, <1>3, <1>4, <1>5, <1>6 DEF Compiling, Loading, Loaded, Published
<1> QED BY <1>2, <1>4, <1>5, <1>7, LocalStepKeeps DEF Places

(* LoadRuleSet and LoadLatestRuleSet.                                      *)
LEMMA LoadKeeps ==
    ASSUME IInv, NEW p \in Procs, LoadRuleSet(p) \/ LoadLatestRuleSet(p) PROVE IInv'
<1> DEFINE k == def(p).code
           v == def(p).version
           newest == IF v = 0 THEN latest[k] ELSE v
           s == IF newest = 0 THEN NoRuleSet ELSE ruleSets[k][newest]
           c == [call[p] EXCEPT !.loaded = s, !.answer = IF s = NoRuleSet THEN "error" ELSE "none"]
           to == IF s = NoRuleSet THEN "done" ELSE "loaded"
<1>1. pc[p] = "loading"
  BY DEF LoadRuleSet, LoadLatestRuleSet, Found, Goto
<1>2. k \in Codes /\ v \in 0..MaxVersion /\ latest[k] >= call[p].floor
  BY <1>1 DEF IInv, CallsInv, Loading
<1>3. /\ MaxVersion \in Nat /\ call[p] \in Calls /\ publishes \in Nat /\ latest[k] \in 0..MaxVersion
      /\ call[p].floor \in 0..MaxVersion /\ NoRuleSet \in RuleSets
      /\ ruleSets \in [Codes -> [Versions -> RuleSets]]
  BY <1>2, ServiceAssumption, IdleType DEF IInv, TypeOK, Calls
<1>4. Found(p, s)
  BY <1>2, <1>3 DEF LoadRuleSet, LoadLatestRuleSet
<1>5. /\ pc' = [pc EXCEPT ![p] = to] /\ call' = [call EXCEPT ![p] = c]
      /\ UNCHANGED <<ruleSets, latest, publishes, answered>>
  BY <1>4 DEF Found, Goto
<1>6. s \in RuleSets /\ to \in Places /\ newest \in 0..MaxVersion
  BY <1>2, <1>3 DEF Versions, Places
<1>7. /\ c \in Calls /\ c.definition = def(p) /\ c.loaded = s /\ c.floor = call[p].floor
      /\ c.answer # "published"
  <2>1. \A x \in Calls, q \in RuleSets, a \in {"error", "none"} :
           /\ [x EXCEPT !.loaded = q, !.answer = a] \in Calls
           /\ [x EXCEPT !.loaded = q, !.answer = a].definition = x.definition
           /\ [x EXCEPT !.loaded = q, !.answer = a].loaded = q
           /\ [x EXCEPT !.loaded = q, !.answer = a].floor = x.floor
           /\ [x EXCEPT !.loaded = q, !.answer = a].answer = a
    BY ZenonT(60) DEF Calls
  <2>2. \A q \in RuleSets, a \in {"error", "none"} :
           /\ [call[p] EXCEPT !.loaded = q, !.answer = a] \in Calls
           /\ [call[p] EXCEPT !.loaded = q, !.answer = a].definition = call[p].definition
           /\ [call[p] EXCEPT !.loaded = q, !.answer = a].loaded = q
           /\ [call[p] EXCEPT !.loaded = q, !.answer = a].floor = call[p].floor
           /\ [call[p] EXCEPT !.loaded = q, !.answer = a].answer = a
    BY <1>3, <2>1
  <2>3. PICK a \in {"error", "none"} : a = IF s = NoRuleSet THEN "error" ELSE "none"
    OBVIOUS
  <2>4. c = [call[p] EXCEPT !.loaded = s, !.answer = a]
    BY <2>3
  <2> HIDE DEF s, c
  <2> QED BY ZenonT(60), <1>6, <2>2, <2>4 DEF def
<1>8. pc'[p] = to /\ call'[p] = c /\ def(p)' = def(p)
  <2> HIDE DEF c, to
  <2> QED BY <1>5, <1>7 DEF IInv, TypeOK, def
<1>9. Loaded(p)'
  <2> SUFFICES ASSUME s # NoRuleSet
               PROVE  /\ Complete(s, s.definition.code, s.definition.version)
                      /\ s.definition.code = k
                      /\ IF v = 0 THEN s.definition.version >= call[p].floor ELSE s.definition.version = v
    <3> HIDE DEF c, s
    <3> QED BY <1>7, <1>8 DEF Loaded, Complete
  <2>1. newest \in Versions /\ s = ruleSets[k][newest]
    BY <1>6 DEF Versions
  <2>2. Complete(s, k, newest)
    BY <1>2, <2>1 DEF IInv, NoPartialPublication, Installed
  <2> QED BY <1>2, <2>2 DEF Complete
<1> HIDE DEF c, s
<1>10. (Compiling(p) /\ Loading(p) /\ Published(p))'
  BY <1>7, <1>8 DEF Compiling, Loading, Published
<1> HIDE DEF to
<1> QED BY <1>3, <1>5, <1>6, <1>7, <1>9, <1>10, LocalStepKeeps

(* EvalRule and EvalLatestRule evaluate what they loaded.                  *)
LEMMA EvalLoadedKeeps ==
    ASSUME IInv, NEW p \in Procs, EvalLoaded(p) PROVE IInv'
<1> DEFINE answer == IF call[p].loaded.compiled[call[p].rule] = Blank THEN "error" ELSE "evaluated"
           c == [call[p] EXCEPT !.answer = answer]
<1>1. /\ pc' = [pc EXCEPT ![p] = "done"] /\ call' = [call EXCEPT ![p] = c]
      /\ UNCHANGED <<ruleSets, latest, publishes, answered>>
  BY DEF EvalLoaded, Goto
<1>2. answer \in {"error", "evaluated"} /\ call[p] \in Calls /\ publishes \in Nat
  BY DEF IInv, TypeOK
<1> HIDE DEF answer
<1>3. c \in Calls /\ c.answer = answer
  BY <1>2 DEF Calls
<1> HIDE DEF c
<1>4. pc'[p] = "done" /\ call'[p] = c
  BY <1>1 DEF IInv, TypeOK
<1>5. (Compiling(p) /\ Loading(p) /\ Loaded(p) /\ Published(p))'
  BY <1>2, <1>3, <1>4 DEF Compiling, Loading, Loaded, Published
<1> QED BY <1>1, <1>2, <1>3, <1>5, LocalStepKeeps DEF Places

(* A call returns; from then on its version is an answered one.            *)
LEMMA ReturnKeeps ==
    ASSUME IInv, NEW p \in Procs, Return(p) PROVE IInv'
<1>1. /\ pc' = [pc EXCEPT ![p] = "idle"] /\ call' = [call EXCEPT ![p] = Idle]
      /\ UNCHANGED <<ruleSets, latest, publishes>>
  BY DEF Return, Goto
<1>2. pc'[p] = "idle" /\ call'[p] = Idle /\ Idle.answer = "none"
  BY <1>1, IdleType DEF IInv, TypeOK
<1>3. (Compiling(p) /\ Loading(p) /\ Loaded(p) /\ Published(p))'
  BY <1>2 DEF Compiling, Loading, Loaded, Published
<1>4. \A k \in Codes : latest'[k] \in 0..MaxVersion /\ latest'[k] >= latest[k]
  BY <1>1, ServiceAssumption DEF IInv, TypeOK
<1>5. CallsInv' /\ pc' \in [Procs -> Places] /\ call' \in [Procs -> Calls]
  BY <1>1, <1>3, <1>4, IdleType, OtherCallsKept DEF Places
<1>6. answered' \in [Codes -> 0..MaxVersion] /\ AnsweredIsInstalled'
  <2>1. CASE call[p].answer = "published"
    <3>1. def(p).code \in Codes /\ def(p).version \in Versions /\ latest[def(p).code] >= def(p).version
      BY <2>1 DEF IInv, CallsInv, Published
    <3>2. answered' = [answered EXCEPT ![def(p).code] = IF def(p).version > @ THEN def(p).version ELSE @]
      BY <2>1 DEF Return
    <3>3. answered \in [Codes -> 0..MaxVersion] /\ \A k \in Codes : latest[k] >= answered[k]
      BY DEF IInv, TypeOK, AnsweredIsInstalled
    <3>4. def(p).version \in 0..MaxVersion
      BY <3>1, ServiceAssumption DEF Versions
    <3> QED BY <1>1, <3>1, <3>2, <3>3, <3>4 DEF AnsweredIsInstalled
  <2>2. CASE call[p].answer # "published"
    BY <1>1, <2>2 DEF Return, IInv, TypeOK, AnsweredIsInstalled
  <2> QED BY <2>1, <2>2
<1>7. TypeOK'
  BY <1>1, <1>5, <1>6 DEF IInv, TypeOK
<1>8. LatestIsGreatest' /\ NoPartialPublication'
  BY <1>1 DEF IInv, LatestIsGreatest, NoPartialPublication, ListRuleSetVersions, Installed
<1> QED BY <1>5, <1>6, <1>7, <1>8 DEF IInv

-----------------------------------------------------------------------------
(* Every step of every goroutine keeps the invariant.                      *)
THEOREM NextKeepsIInv == IInv /\ [Next]_vars => IInv'
<1> SUFFICES ASSUME IInv, [Next]_vars PROVE IInv'
  OBVIOUS
<1>1. ASSUME NEW p \in Procs, Step(p) PROVE IInv'
  BY <1>1, CompileRuleKeeps, InstallKeeps, LoadKeeps, EvalLoadedKeeps, ReturnKeeps DEF Step
<1>2. ASSUME NEW p \in Procs, Eval(p) PROVE IInv'
  BY <1>2, ReadKeeps
<1>3. ASSUME NEW p \in Procs, NEW d \in Definitions, Publish(p, d) PROVE IInv'
  BY <1>3, PublishKeeps
<1>4. CASE UNCHANGED vars
  BY <1>4 DEF vars, IInv, TypeOK, LatestIsGreatest, NoPartialPublication, CallsInv,
     AnsweredIsInstalled,
              ListRuleSetVersions, Installed, Compiling, Loading, Loaded, Published, def
<1> QED BY <1>1, <1>2, <1>3, <1>4 DEF Next

(* So it holds in every reachable state.                                   *)
THEOREM Invariance == Spec => []IInv
BY InitEstablishesIInv, NextKeepsIInv, PTL DEF Spec

(* The service's maps and its calls keep their types.                      *)
THEOREM TypeCorrect == Spec => []TypeOK
BY Invariance, PTL DEF IInv

(* PublishRuleSet and the latest version, in whatever order publications   *)
(* finish.                                                                 *)
THEOREM LatestCorrect == Spec => []LatestIsGreatest
BY Invariance, PTL DEF IInv

(* PublishRuleSet installs every rule of a set or nothing of it.           *)
THEOREM PublicationWhole == Spec => []NoPartialPublication
BY Invariance, PTL DEF IInv

(* EvalRule and EvalLatestRule evaluate a whole rule set, one at least as  *)
(* new as any whose publication had returned.                              *)
THEOREM EvaluationRecent == Spec => []EvaluatesRecentRules
<1>1. IInv => EvaluatesRecentRules
  BY DEF IInv, CallsInv, Loading, Loaded, EvaluatesRecentRules
<1> QED BY <1>1, Invariance, PTL

-----------------------------------------------------------------------------
(* What readers can find changes in Install alone.                         *)
LEMMA OnlyInstallPublishes ==
    ASSUME [Next]_vars
    PROVE  (\E p \in Procs : Install(p)) \/ UNCHANGED <<ruleSets, latest>>
<1>1. ASSUME NEW p \in Procs, Step(p) PROVE Install(p) \/ UNCHANGED <<ruleSets, latest>>
  BY <1>1 DEF Step, CompileRule, LoadRuleSet, LoadLatestRuleSet, Found, EvalLoaded, Return
<1>2. ASSUME NEW p \in Procs, Eval(p) PROVE UNCHANGED <<ruleSets, latest>>
  BY <1>2 DEF Eval, Read
<1>3. ASSUME NEW p \in Procs, NEW d \in Definitions, Publish(p, d) PROVE UNCHANGED <<ruleSets, latest>>
  BY <1>3 DEF Publish
<1>4. CASE UNCHANGED vars
  BY <1>4 DEF vars
<1> QED BY <1>1, <1>2, <1>3, <1>4 DEF Next

(* No publication, however late it finishes, takes the latest version back *)
(* or a version away.                                                      *)
THEOREM LatestNeverFallsBack == Spec => NeverFallsBack
<1> DEFINE Kept == \A c \in Codes : /\ latest'[c] >= latest[c]
                                    /\ \A v \in Versions : Installed(c, v) => Installed(c, v)'
<1>1. ASSUME IInv, [Next]_vars PROVE Kept
  <2>1. \A c \in Codes : latest[c] \in Nat
    BY <1>1, ServiceAssumption DEF IInv, TypeOK
  <2>2. CASE UNCHANGED <<ruleSets, latest>>
    BY <2>1, <2>2 DEF Installed
  <2>3. ASSUME NEW p \in Procs, Install(p) PROVE Kept
    <3> DEFINE d == def(p)
               s == RuleSet(d, call[p].compiled)
    <3>1. d \in Definitions /\ WellNamed(d) /\ s # NoRuleSet
      BY <1>1, <2>3, InstallFacts
    <3>2. d.code \in Codes /\ d.version \in Versions
      BY <3>1, DefinitionTypes
    <3>3. /\ ruleSets' = [ruleSets EXCEPT ![d.code][d.version] = s]
          /\ latest' = [latest EXCEPT ![d.code] = IF d.version >= @ THEN d.version ELSE @]
      BY <2>3 DEF Install
    <3>4. ruleSets \in [Codes -> [Versions -> RuleSets]] /\ latest \in [Codes -> 0..MaxVersion]
      BY <1>1 DEF IInv, TypeOK
    <3> HIDE DEF d, s
    <3>5. \A c \in Codes, v \in Versions : ruleSets'[c][v] \in {s, ruleSets[c][v]}
      BY <3>2, <3>3, <3>4
    <3>6. \A c \in Codes : latest'[c] >= latest[c]
      BY <2>1, <3>2, <3>3, <3>4
    <3> QED BY <3>1, <3>5, <3>6 DEF Installed
  <2> QED BY <1>1, <2>2, <2>3, OnlyInstallPublishes
<1>2. IInv /\ [Next]_vars => [Kept]_vars
  BY <1>1
<1> QED BY <1>2, Invariance, PTL DEF Spec, NeverFallsBack

(* The service implements the registry of its publications, for all        *)
(* goroutines, definitions and versions.                                   *)
THEOREM RegistryImplemented == Spec => ImplementsRegistry
<1> USE DEF Registry!RegistryInit, Registry!RegistryNext, Registry!Publication, Registry!registryVars
<1>1. Init => Registry!RegistryInit
  BY DEF Init, NoRuleSet, RuleSet
<1>2. ASSUME IInv, [Next]_vars PROVE [Registry!RegistryNext]_(Registry!registryVars)
  <2>1. CASE UNCHANGED <<ruleSets, latest>>
    BY <2>1
  <2>2. ASSUME NEW p \in Procs, Install(p) PROVE Registry!RegistryNext
    <3> DEFINE d == def(p)
               s == RuleSet(d, call[p].compiled)
    <3>1. /\ d \in Definitions /\ WellNamed(d) /\ s.definition = d
          /\ ProgramsOf(d, Len(d.rules), call[p].compiled)
          /\ \A i, j \in 1..Len(d.rules) : d.rules[i].rule = d.rules[j].rule => i = j
      BY <1>2, <2>2, InstallFacts
    <3>2. d.rules \in Seq(Rule) /\ d.code \in Codes /\ d.version \in Versions
      BY <3>1, DefinitionTypes
    <3>3. DOMAIN d.rules = 1..Len(d.rules)
      BY <3>2
    <3>4. d \in Publishable
      BY <3>1, <3>3 DEF Publishable, ProgramsOf
    <3>5. /\ ruleSets' = [ruleSets EXCEPT ![d.code][d.version] = s]
          /\ latest' = [latest EXCEPT ![d.code] = IF d.version >= @ THEN d.version ELSE @]
      BY <2>2 DEF Install
    <3>6. ruleSets \in [Codes -> [Versions -> RuleSets]]
      BY <1>2 DEF IInv, TypeOK
    <3> HIDE DEF d, s
    <3>7. [c \in Codes |-> [v \in Versions |-> ruleSets'[c][v].definition]]
              = [[c \in Codes |-> [v \in Versions |-> ruleSets[c][v].definition]]
                     EXCEPT ![d.code][d.version] = d]
      BY <3>1, <3>2, <3>5, <3>6
    <3> QED BY <3>4, <3>5, <3>7
  <2> QED BY <1>2, <2>1, <2>2, OnlyInstallPublishes
<1> QED BY <1>1, <1>2, Invariance, PTL DEF Spec, ImplementsRegistry, Registry!RegistrySpec
=============================================================================
