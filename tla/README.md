# factorengine in TLA+

TLA+ specifications of `src/factorengine`, a Go library that compiles risk rules
(expressions over *factors*) to bytecode, caches the programs in memory and on
disk, publishes versioned rule sets and evaluates them. The modules are written
from the Go source; the technical design
(`src/docs/factorengine-technical-design.md`) is quoted only for what it promises.

## The system

| Part | State it keeps | Operations | What must hold |
| --- | --- | --- | --- |
| Parsers (`expression_parser.go`, `parser.go`) | token position | text to syntax tree | longest lexemes, one tree for each sentence |
| Binder (`binder.go`, `schema.go`) | none | `Bind`: a typed tree over the factor registry | a rule yields a value of its declared type |
| Interpreters (`binder.go`, `evaluator.go`) | none | `Eval` of bound trees, `EvalExpr` of syntax trees | both agree |
| Bytecode compiler (`bytecode.go`) | constant, accessor and builtin pools, the code so far | `Compile`: fold, emit, patch jumps | the program is well-formed and means what the tree means |
| VM (`bytecode.go`) | `ip`, stack, executed steps, trace | `Eval`, `Trace` | budgets, cancellation, no structural error, returns |
| LRU cache (`compiler_cache.go`) | map, list, counters | `Get`, `Set`, `Delete`, `Stats` | map and list agree, the oldest goes, counters add up |
| Persistent cache and file store (`persistent_cache.go`) | local tier, expiry table, one file per key | `Get`, `Set`, `Invalidate`; `Load`, `Save`, `Delete` | own program, lifetime, invalidation, faults stay hidden |
| `CachedRuleCompiler` (`compiler_cache.go`) | the cache | `Compile` | answered with the program of the expression |
| Engine service (`engine_service.go`) | rule sets by code and version, latest version | publish, load, evaluate, list | whole publications, latest is greatest, never falls back |
| Engine, observers, in-memory cache (`engine.go`, `observer.go`, `compiler_cache.go`) | a map, atomic counters at three layers | `Compile`, `Eval`, `Delete`, `Stats` | counters account for calls and agree, few duplicate compilations |
| Cache key (`compiler_cache.go`) | none | a rule and its registry to a key | different registries differ, the order of maps does not matter |
| Snapshots (`compiler_snapshot.go`) | none | program to JSON and back | the restored program means the same |
| IDL reader (`idl.go`) | method registry; while reading, known and half-built structs | `RegisterThriftFile`, `LookupMethod` | ends for cyclic structs, outcome independent of map order |
| RPC validator (`validator.go`, `schema.go`) | none | `ValidateRPCFactor` | an accepted mapping can be carried out |

How they meet: `PublishRuleSet` asks an `Engine` to compile each rule. The engine's
compiler is a `CachedRuleCompiler` over a `PersistentProgramCache`, whose local tier
is an `LRUProgramCache` (or an in-memory map) and whose store is a `FileProgramStore`.
The key is made of the rule and the factor registry, some factors of which call Thrift
methods and were validated against the IDL registry. An observer counts around the
cached compiler, in it, and in the evaluation. A miss parses, binds, folds and emits the rule.
`EvalRule` finds a published rule set under a read lock and runs the compiled program on the VM after releasing it.
Goroutines share the caches and the service; there are no messages and no background
threads. Each of the mutexes (service, LRU, expiry table, file store) is held for one
call only, so what takes several calls interleaves. Files survive a crash; nothing
else does.

The hard parts are those steps between locks, the crash in the middle of a file
write, store errors that are dropped, publications that compile without the lock and
finish in any order, the compiler's jumps and pools, and two evaluators (four, with
folding and `EvalExpr`) that have to agree.

## Modules

| Module | Models | State and actions |
| --- | --- | --- |
| `Values` | `evaluator.go`, `accessor.go`, `evalBinaryValues`, `evalBuiltinValues` | operators only |
| `BytecodeVM` | one evaluation by `evalSafe` | `prog, ctx, cancelled, ip, stack, executed, steps, outcome`; an action per opcode group, `LimitExceeded`, `Finish`, `Cancel` |
| `Expressions` | syntax trees, `Bind`, bound `Eval`, `EvalExpr` | recursive operators |
| `Emission` | `emitExpr`, `emitShortCircuitBinary`, the pools, `optimizeInstructions` | a compiler record, and the calls of `emitExpr` that are not over as a list of tasks; `Emitted` and `Unfolded` do the next one |
| `Compiler` | `optimizeBoundExpr`, `BytecodeCompiler.Compile` | recursive operators, with `Emission` |
| `CompiledRule` | `Compile` from a folded tree on, `compiledExpr.Eval` | extends `Emission` and `BytecodeVM`: `tree, work, compiler, compiled`; `Emit` (a task), `Evaluate`, `Evaluation` (an instruction) |
| `RuleExecution` | a rule from its syntax tree to its result | extends `Compiler` and `CompiledRule`: `rule`; what its result ought to be |
| `BoundedCache` | what a cache of some capacity promises | `content` |
| `LRUCache` | `LRUProgramCache` | `items, order, count`, a program counter and registers per goroutine |
| `PersistentCache` | `CachedRuleCompiler.Compile` over `PersistentProgramCache` and `FileProgramStore` | `clock, local, expiry, file`, a program counter and registers per goroutine |
| `RuleSetRegistry` | a registry in which a publication is one step | rule sets and latest version |
| `EngineService` | `EngineService` | `ruleSets, latest`, a program counter and a call record per goroutine |
| `ObservedEngine` | `Engine` with `observedRuleCompiler`, `CachedRuleCompiler`, `InMemoryProgramCache`, `InMemoryRuleObserver` | `items, count`, the programs that callers hold (`handed`), a program counter and registers per goroutine; an action per counter update and critical section |
| `CompileCacheKey` | `BuildCompileCacheKey` and the fingerprints, under a registry that changes | extends `ExpressionParser`: `registry, cache, served`; `Compile`, `Replace`, `TypeText` |
| `ProgramSnapshot` | `compiler_snapshot.go`, `Fingerprint`, and what JSON does to a snapshot | extends `RuleExecution`: `file, phase`; `Save`, `OtherVersion`, `Restart`, `Run`, for a rule that is run as it was compiled or after a restart |
| `References`, `ExpressionParser` | `parser.go`, `expression_parser.go` | recursive operators; a behaviour types a text |
| `ExpressionGrammar` | nothing: the grammar as a set of derivations, and longest lexemes | the reference for the parser |
| `ThriftIDL` | `idl.go`; the two mutually recursive functions as a stack | `structs, stack, pending, methods`; `TakeName`, `TakeKnown`, `TakeCyclic`, `TakeUnknown`, `Build`, `BuildFails`, `ReadServices` |
| `FactorValidator` | `ValidateRPCFactor`, `ResolveFactorRef`, `ResolveResponsePath` | extends `ThriftIDL`, whose `methods` it looks up: `def, errs`; `Load`, `Validate` |

`*Proofs` modules hold the proofs, `MC*` modules and their `.cfg` files the instances. Every
instance is a module `MCx` and one or more configurations; `MCRuleExecution`,
`MCExpressionParser`, `MCCompileCacheKey` and `MCFactorValidator` hold the rules, texts, registries,
files and definitions that `MCProgramSnapshot` and `MCAuthoring` put together.

How they are composed: `CompiledRule` runs the programs that `Emission` makes on `BytecodeVM`;
`RuleExecution` starts it from the trees that `Expressions` binds and `Compiler` folds.
`PersistentCache` takes its local tier to be a `BoundedCache`, and `LRUCache` is checked and
proved to implement one. `EngineService` takes compilation of a rule to be one step that gives
the rule's own program or fails; that is `ServedProgramIsOwn` and `FaultsNeverSurface` of
`PersistentCache`. `EngineService` implements `RuleSetRegistry`.
`ProgramSnapshot` runs restored programs on `BytecodeVM`: it is what `PersistentCache` takes
a file to be (the saved program, or nothing that can be restored). `CompileCacheKey`
compiles with `Compiler` under each registry: it is why a key of `PersistentCache` stands
for one program. The in-memory cache of `ObservedEngine` is proved to implement a `BoundedCache` with
room for every key. `ExpressionParser` gives the trees that `CompileCacheKey` compiles and
`RuleExecution` starts from. `FactorValidator` validates definitions against the methods that the
steps of `ThriftIDL` registered, and reads factors with the accessor of `Values`. `MCAuthoring`
joins the two halves of what comes from outside, texts and definitions: they share no
state, so a behaviour has the steps of one of them.

What is abstracted:

- Strings are ranks (natural numbers) in their order, with the substring relation as
  a constant. A float64 is an exact fraction, with a negative zero beside zero: rounding,
  underflow, NaN and infinities are not modelled. Integers wrap at `WordBits`.
- A program in the caches is named by the key it was compiled for and by which
  compilation made it. A key stands for an expression and a registry fingerprint; the
  SHA-256 file name is an injective function (an assumption).
- The local tier may evict any other key when it is full; `LRUCache` has the policy.
- In `LRUCache` the mutex is implicit: what happens under it is one action; the atomic
  counters are steps of their own where the code updates them outside the lock.
- A file is absent, garbage (torn or damaged), an entry, or an entry that cannot be
  restored. A `Save` takes two steps, so that a crash can come between.
- A persistent cache without a store and the counter of invalidations have no effect on
  what is modelled and are left out; so are the durations that observers add up.
- In `ObservedEngine` what is done under the cache's read-write mutex is one step. A program
  that `Compile` returned may be evaluated by anyone, any number of times (`Evaluate`), as
  `EvalRule` does with published ones; one that `Eval` compiled is evaluated once.
- A key of `CompileCacheKey` is a sequence of names and marks; names contain no mark.
- JSON (`ProgramSnapshot`) is modelled for the snapshot types: a zero member tagged
  `omitempty` (`-0.0` too) is not written and reads as zero, bytes that are not UTF-8 become U+FFFD
  (`Coerced`), infinities cannot be written.
- A Thrift file is what the regular expressions find in it; cutting a text with them is
  not modelled. A validation error is its code and the field it is about.
- A text is a string of one-byte characters; which are letters is a constant.
- In `BytecodeVM` a `MAKE_MAP` with a negative operand is excluded by an assumption on
  the programs: in Go it reslices upwards over stale slots. The compiler emits none, which
  is part of what is proved of it.
- `emitExpr` calls itself; what its calls have still to do is a list of tasks here (a tree to
  emit, an operator, a branch with both its arms, a jump to patch). The theorems need it so,
  having no recursion, and it loses nothing: the calls have no other state than this list. That
  an operator or a node is unknown to the compiler is excluded by `IsTree`, what the binder
  makes sure of: kinds, operators and arities.
- History variables (`gens, stamped, floor, quietFloor`, `now, used`, `answered`) are
  read by properties only.

## Runs

| Run | Question | Result |
| --- | --- | --- |
| `vm` | Does the VM keep its budgets, obey cancellation, return, and run well-formed programs cleanly? | pass |
| `rules` | Do folding, compilation, a restart from the program's file and the VM keep the meaning and the type of a rule? | pass |
| `null_operand` | Does the VM agree with the interpreter on every rule? | violated |
| `pool_collision` | Does it, when operands of `&&` and <code>&#124;&#124;</code> are Booleans? | violated |
| `lru` | Is the LRU cache a bounded cache with exact recency and accounts? | pass |
| `cache_sequential` | Do lifetimes and invalidations hold for one caller? | pass |
| `cache_concurrent` | Do own programs, hidden faults and quiet invalidations hold under concurrency, crashes and faults, and does every call return? | pass |
| `ttl_race` | Do lifetimes hold for a call that overlaps no other on its key, after concurrent ones? | violated |
| `observed_engine` | Do the counters of cache, observer and engine account for every call, and are duplicate compilations bounded? | pass |
| `service` | Are publications whole and versions monotone, and is the service an atomic registry? | pass |
| `authoring` | Does a text get the tree of the grammar, a rule the program of the current registry, a Thrift file one outcome in every order, and can every accepted mapping be carried out? | pass |
| `response_types` | Does a mapped response field fit its output field? | violated |

Bounds, and why they are enough:

- `vm`: 4-bit integers, `MaxSteps = 5`, `MaxStackDepth = 2`, so that both budgets are
  met and exceeded; all programs of up to three instructions over an alphabet with
  valid and invalid operands, forward and backward jumps, negative counts, an unknown
  opcode and an unknown builtin, and longer programs as the compiler emits them. The
  budget, cancellation, well-formedness and trace properties are proved for all programs.
- `rules`: every operator over every accepted pair of operands, nested conditions and
  conditionals, lists, maps and builtins, some thousands of rules, on seven contexts:
  complete, wrapped under `value`, with missing factors, with missing fields, with
  nils, with other texts. Mistakes in emission or folding depend on the operator and the shape of its
  operands, one or two levels deep. A part of the rules (`Stored`) also goes through the
  file: constants of every kind, each zero and not, bare, in lists, maps and maps in
  lists, or used by an operator; a byte that is not UTF-8, an infinity and `-0.0` among them,
  and the operations that make a `-0.0` of other doubles. What
  is saved of a value depends on its kind and on zero, so that one of each is enough. `Trees`
  are the folded rules and their subtrees. That compiled code is well-formed is proved for all
  trees.
- `lru`: two goroutines, three keys, capacity two, five calls: enough to fill the
  cache, use the older key, evict, and overlap `Stats` with the calls it counts.
- `cache_sequential`: one goroutine, two keys in a local cache of one, `TTL = 2` on a
  clock up to 3, five calls, one fault.
- `cache_concurrent`: two goroutines, a key that compiles and one that does not, a
  clock up to 1 with `TTL = 1`, three calls, one fault. The safety properties are
  proved for all bounds.
- `ttl_race` needs an expired entry and two overlapping calls: a clock up to 2, four calls.
- `service`: two goroutines, two codes, two versions, three publications of valid,
  partly broken, duplicate and blank definitions. The safety properties are proved
  for all bounds.
- `observed_engine`: two goroutines, a rule that compiles and one that does not, four
  calls: two misses of one rule overlap, a third call hits, a deletion or a report
  comes between, or one program is evaluated three times. Losing or doubling a count takes one call, tearing a report two.
- `authoring`, the registry of a key: two factors whose schemas go through thirteen outputs
  (another type, one level down, under an element, a name more or less, required or not), and
  other dependencies, mappings and publication; three rules, two programs; the order of
  iteration is any.
- `authoring`, texts: every text of up to five characters over each of thirteen alphabets that have
  what meets in the code (operators of neighbouring levels, brackets and commas, quotes
  and points), and trees of depth three with every pair of operators, written with the
  fewest parentheses.
- `authoring`, files: every way in which three structs refer to each other, but for `B` and `C`
  in themselves, with an unknown type and a field that cannot be read; files of two structs
  registered twice, under one target or two.
- `authoring`, definitions: one method with required and optional fields and objects; factors whose
  output is one scalar, several fields, or one object, the latter with a field `value` of its own
  or without, given wrapped and bare; all references and response paths against all types,
  required or not; definitions with a part missing. `response_types` uses the same.

No symmetry is used: some runs check liveness, and the others are small enough.
`CHECK_DEADLOCK FALSE` is there because evaluations end and calls are bounded.

Fairness: `WF(Step)` for the VM, which runs on its caller's goroutine; strong fairness
of each goroutine's next step in `PersistentCache`, since it may wait for the file
store's mutex, which Go grants to every waiter in turn (a waiter of more than a
millisecond is served first); weak fairness in `EngineService`, where the code between
lock and unlock is one step, so that a step stays enabled; `WF(Step)` in `ThriftIDL`, which
runs on its caller's goroutine. Calls, time, faults, crashes
and cancellations are never required.

### Disagreements between code and documents

1. `null_operand`: a nil right operand of `&&` or `||` is the result in the VM
   (`bytecode.go:492-521`) and counts as false in the interpreter (`evaluator.go:249-277`).
   `factorengine_test.go:1574` expects one result from both.
2. `pool_collision`: constants that print alike (`{"a": 3}` and `{"a": 3.0}`) share a pool
   entry (`bytecode.go:524`).
3. `ttl_race`: `Get` and `Set` write the local program and its expiry in two steps
   (`persistent_cache.go:136-137`, `142-145`): a program can be served after its lifetime.
4. `response_types`: `validator.go:105` gives `ensureTypeCompatible` the target as its source
   (its parameters are named at `validator.go:122`, its other call is at `validator.go:81`).

The passing runs check what does hold beside these: with Boolean operands, an exact pool and
UTF-8 strings (`RestoredMeansTheSame` in `rules`) and for one caller (`cache_sequential`).
Six more conditions that the passing properties state are there because the code does
not keep the property without them:

- An invalidation can be undone by a fill of its key in progress (`persistent_cache.go:162-171`), so
  `QuietInvalidateHolds` speaks of invalidations that overlap no call on their key.
- The fields of a map and those of its elements are printed alike
  (`compiler_cache.go:346-364`), so two registries can share a key; `ServedIsCurrent` is checked for
  registries in which no map has both.
- A string constant that is not UTF-8 is changed by the file (`compiler_snapshot.go:28`), and with
  it the fingerprint; `FingerprintSurvivesText` is about programs whose strings are UTF-8.
- A rule with `-0.0` folds to a float64 `-0.0` (`evaluator.go:188`), `omitempty` leaves it out of the
  file (`compiler_snapshot.go:31`), and it is restored as `0`, which `Fingerprint` prints otherwise
  (`bytecode.go:105`), so that such a rule does not keep its fingerprint over a restart, which the
  design compares (`factorengine-technical-design.md:764`). For rules with a constant `-0.0`,
  `FingerprintSurvivesText` and `RestoredMeansTheSame` say that only signs of zeros change.
- `validator.go:108` looks at the last field of a path only, so a required field of an optional
  object is accepted for a required output; `OutputsAreFilled` speaks of responses in which no
  object on the path is missing.
- When the one field `value` of a factor is an object and the context has that object bare, the
  accessor takes it for the wrapper (`accessor.go:43-50`): it finds no `value` and reads nothing,
  or finds a field of the object by that name. `MappedInputsFit` says so, and speaks of such a
  context no further; `NamesMatchAccessors` leaves it out.

Met on the way and not a property of a run: `localExpiry` keeps keys the LRU cache has
evicted; a `get` over a conditional is typed by the left branch's schema only
(`binder.go:640`); the smallest integer cannot be written, a minus sign being an operator
(`expression_parser.go:135`); a request field may be read from an output that is not
required (`validator.go:81`); parameters after a comma are dropped (`idl.go:152`); a cycle
of structs is tried anew by each of them (`idl.go:261`).

## Proofs

All proofs are checked by TLAPS; they assume the `ASSUME`s on the constants and, where a line
below says so, a hypothesis that the theorem names.

- `BytecodeVMProofs`: for every set of programs and every budget, `TypeOK`, `WithinBudgets`,
  `WellFormedRunsClean`, `CancelStopsExecution`, `TraceFollowsExecution`, and
  `WellFormedWithinSteps`, which follows from the same invariant. None of the properties of
  well-formed programs is inductive: that no operand is missing follows from the height of the
  stack, so the inductive invariant has `StackAtHeight` (at each loop head the stack has the
  height the program text predicts, and no more instructions were executed than precede `ip`).
  `Balanced` says that heights exist and every flow of control keeps them; it is enough for
  all of this but the stack budget, for which the heights must fit it too (`WellFormed`). For the trace, a step
  either ends the execution and leaves the trace alone, or goes on to an instruction that the
  current one leads to and appends an entry (`StepGoesOn`); `TraceInv` is kept by both
  (`TraceGrows`).
- `CompiledRuleProofs`: for every set of bound trees, however deep, every context, budget and
  key of the constant pool, `CompiledIsWellFormed`, and with the theorems above that no compiled rule
  fails with `EXPRESSION_INVALID`, with a recovered panic or, when the step budget is at least the
  length of its code, for want of steps (`CompiledRunsClean`); only a rule that needs a deeper
  stack than the budget allows may end with `BUDGET_STACK`. The other errors are those of values.
  The invariant, `Emitting`, is about code that is not finished. There are heights `h` of the instructions so far, and heights `H` of the stack before
  each task that is left, such that every instruction has its operands and its index in a pool;
  every jump but those awaited leads to its height; each awaited jump is awaited by exactly one
  task, on a stack one higher than the jump leaves it (`Awaited`); every task finds what it needs and
  leaves one value, or patches (`Ready`, `Chain`). Trees that were not yet emitted appear in it only
  as tasks that push one value, so that no induction over trees is needed: `EmitStep` replaces the
  first task by those it unfolds to and splices the two chains. That the code's own heights
  (`Heights`, which reads them off the text) are the `h` of the invariant takes one more fact, that
  the instruction behind an unconditional jump is the target of a jump before it (`Reached`).
  The same fact gives a result about the code that no test shows: an arm is never empty, so
  `optimizeInstructions` finds nothing to drop in what the compiler emits, and the program is the
  code as it was emitted (`PeepholeIsIdle`). Compiled code only runs forward
  (`CompiledCodeRunsForward`): no instruction is executed twice in an evaluation. Each constant,
  accessor and builtin of a rule is in its pool once (`InternedOnce`), so the model may search the
  pools where the code keeps `constIndex`, `accessorIndex` and `builtinIndex`.
- `PersistentCacheProofs`: for all goroutines, keys, capacities and faults, `TypeOK`,
  `TiersHoldOwnProgram`, `ServedProgramIsOwn`, `FaultsNeverSurface`. The inductive invariant adds
  what each call holds at each place (`CallsHoldOwnProgram`) and that an entry in a file is a
  program (`FilesHoldPrograms`). Injective file names are used where a file is read back.
- `PersistentCacheFreshness`, on top of it, how old a served program can be.
  `QuietInvalidateHolds` is proved for any number of goroutines and every interleaving, crash and
  fault, if the local cache can delete (`LocalInvalidates`; without it the code keeps the
  program). The argument: while an `Invalidate` is alone no other call has its key in hand, so
  that nobody brings back what it has deleted locally (`CallsNotOlder`), and when it has ended no
  tier and no call of its key holds an older program (`TiersNotOlder`). `TtlBoundsService` and
  `ServesNothingInvalidated` (under the same condition) and `TiersAgree` are proved of the
  behaviours in which two calls on one key never overlap (`[]NoOverlap`), with calls on other
  keys, evictions, crashes and faults in between. The hypothesis is about the whole past of a
  behaviour: `ttl_race` shows that overlapping calls can leave a state in which a later call,
  alone, is served an expired program. The invariant `SerialInv` says what the call on a key knows
  of it at each place, and that a key without a call has agreeing tiers. With one goroutine
  `NoOverlap` holds (`OneGoroutineIsFresh`), which is what `cache_sequential` runs.
- `LRUCacheProofs`: for all goroutines, keys, programs and capacities, `ListIsSound`,
  `ReportAccounts`, `EvictsLeastRecent`, and that the cache implements `BoundedCache`. The
  invariant has the list (one element for each key, in the order of use), the counters against the
  goroutines that still have one to update, and what a reader of `Stats` has read so far. Go's
  `container/list` is modelled by what it does to a sequence; the lemmas say what the operations
  on it keep.
- `ObservedEngineProofs`: for all goroutines, keys and numbers of calls, `CountersAgree` and
  `CompilesAreBounded`, and that the in-memory cache implements `BoundedCache` with room for every
  key and only ever has a program under a key that was compiled for it (`OwnPrograms`). The
  invariant is a balance: two counters that a call updates one after the other differ by the
  number of goroutines that stand between the two, and while someone holds or evaluates a program
  there is a compilation that did not fail (`Balance`). Evaluations have no bound: a program may
  be evaluated again and again. Compilations are bounded because,
  while a key has no program, only the goroutines that do not hold one to store can compile it
  once more, and while it has one only those that missed it before (`CompileInv`).
- `EngineServiceProofs`: for all goroutines, codes, versions and definitions, `TypeOK`,
  `LatestIsGreatest`, `EvaluatesRecentRules`, and the refinement `ImplementsRegistry`; also
  `NoPartialPublication` and `NeverFallsBack`, which the runs leave to the proof. The inductive
  invariant adds what a publication has compiled after its first `n` rules, and that what a reader
  holds was installed.
- `ThriftIDLProofs`: for all files and all orders in which Go may iterate over the structs,
  `AcceptsWhatIsDescribable` and `LookupFindsTheLatest`. The hard case is an error that
  `lazyStructs` drops: a struct passed over because it is being built further down the stack may
  be one that the struct on top could have used. The invariant `StackIsSound` says why that loses
  nothing: every name that a building has tried and that can be described *without* the structs
  under construction from that frame down (`Without`) is known to it or just above it. The lemma
  `DescribedWithoutItself` closes the argument: a struct that can be described can be described
  from structs that do not need it. No struct is being built twice, so that the recursion is no
  deeper than a file has structs (`RecursionIsBounded`). `StructsInv` and `ResultsInv` say that
  what is remembered describes the file (`KnownIsDescribed`) and that the registry holds what the
  accepted files declared, the last one first.

What stays with TLC, and why:

- Liveness (`EveryEvalReturns`, and `CallsReturn` of the cache, the service and `ThriftIDL`): it
  needs fairness and `ENABLED`.
- The properties of `RuleExecution`, `ProgramSnapshot`, `ExpressionGrammar`, `CompileCacheKey` and
  `FactorValidator`: these modules rest on `Expressions`, `Compiler`, `References` or
  `ExpressionParser`, which are recursive over the data. What a recursive definition computes for
  every rule or text takes induction over it. `CompiledIsWellFormed` is among the properties of
  `rules` because it is also checked there of restored programs, whose code is not `CompiledRule`'s.
- That a `RuleSpec` behaviour is one of `CompileSpec`: `RuleExecution` reaches recursive
  operators. It holds by the text: `RuleInit` picks a tree in `Trees` (`RuleAssumption`, which TLC
  evaluates) and has the other conjuncts of `CompileInit`, and `RuleNext` is `CompileNext`.

## Plan

Written in this order, the most important behaviour first: the evaluation of rules (`Values`,
`BytecodeVM`, `Expressions`, `Emission`, `Compiler`, `CompiledRule`, `RuleExecution`), the program caches (`PersistentCache`,
`BoundedCache`, `LRUCache`), the service (`RuleSetRegistry`, `EngineService`), what surrounds them
(`ObservedEngine`, `CompileCacheKey`, `ProgramSnapshot`) and how rules and factors come in
(`ExpressionParser`, `ThriftIDL`, `FactorValidator`). Of the modules that reach no recursive
operator every safety property that a run checks is proved. Left for later: to state what a
`CompileCacheKey` must tell apart without the parser and the compiler (any fingerprint, any
compilation), so that `ServedIsCurrent` can be proved from it; then the same for what
`ProgramSnapshot` needs of JSON.

Not modelled: `Disassemble` and other formatting, the durations of the observers, how the
regular expressions of `idl.go` cut a text (their matches are the input of `ThriftIDL`), and
the outbox, message queue, database and publication states of the technical design, which
have no code in the repository.
