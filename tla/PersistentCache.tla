-------------------------- MODULE PersistentCache --------------------------
(***************************************************************************)
(* Compiling rules through the two-tier program cache: a local cache in    *)
(* memory with its table of expiry times, over one file per key            *)
(* (persistent_cache.go), called by CachedRuleCompiler.Compile             *)
(* (compiler_cache.go) and by operators that invalidate keys.              *)
(*                                                                         *)
(* Every call of the code that takes a lock is one action: nothing holds   *)
(* from one to the next, so goroutines interleave between them.  The       *)
(* process may crash at any point and restart over the files it left, and  *)
(* a file may be damaged between runs.                                     *)
(***************************************************************************)
EXTENDS Integers, FiniteSets

CONSTANTS
    Procs,              \* goroutines
    Keys,               \* compile cache keys: expression and registry fingerprint
    Compilable,         \* the keys whose expression compiles
    Paths,              \* names of files in the store's directory
    PathOf,             \* the file of a key: the hex of its SHA-256
    TTL,                \* the cache's ttl, in ticks
    LocalCapacity,      \* entries the local cache keeps
    LocalInvalidates,   \* the local cache implements Delete
    MaxTime,            \* bound on the clock
    MaxOps,             \* bound on the calls started
    MaxFaults           \* bound on crashes, damaged files and failed store calls

ASSUME KeyAssumption == Compilable \subseteq Keys /\ IsFiniteSet(Keys)

(* SHA-256 has no collision among the keys in use.                         *)
ASSUME PathAssumption ==
    /\ PathOf \in [Keys -> Paths]
    /\ \A j, k \in Keys : PathOf[j] = PathOf[k] => j = k

ASSUME BoundAssumption ==
    /\ TTL \in Nat \ {0}
    /\ LocalCapacity \in Nat \ {0}
    /\ LocalInvalidates \in BOOLEAN
    /\ {MaxTime, MaxOps, MaxFaults} \subseteq Nat

VARIABLES
    clock,      \* what now() reads
    local,      \* the local cache: key -> program
    expiry,     \* localExpiry: key -> time
    file,       \* the store: path -> contents
    pc,         \* where each goroutine is
    reg,        \* what its call holds in local variables
    ops, faults,\* calls and faults so far
    gens,       \* history: programs compiled so far
    stamped,    \* history: key -> time of the latest Set
    floor,      \* history: key -> gens when an Invalidate last returned
    quietFloor  \* history: the same, for an Invalidate that overlapped no call on the key

vars == <<clock, local, expiry, file, pc, reg, ops, faults, gens, stamped, floor, quietFloor>>
history == <<gens, stamped, floor, quietFloor>>

(* A compiled program: the key it was compiled for, and which compilation  *)
(* made it.                                                                *)
Program(k, g) == [source |-> k, gen |-> g]
None == [source |-> "none", gen |-> 0]
Programs == [source : Compilable, gen : Nat \ {0}]

(* localExpiry has no entry; isExpired and localEntryExpired read a zero   *)
(* time the same way.                                                      *)
Never == -1

(* A file: absent, unreadable as JSON, an entry, or an entry whose program *)
(* cannot be restored.                                                     *)
File(kind, program, expires) == [kind |-> kind, program |-> program, expires |-> expires]
NoFile == File("absent", None, Never)
Garbage == File("garbage", None, Never)
Files == [kind : {"absent", "garbage", "entry", "unrestorable"},
          program : Programs \cup {None}, expires : Nat \cup {Never}]

Idle == [op |-> "none", key |-> "none", program |-> None, expires |-> Never,
         restorable |-> TRUE, answer |-> "none",
         started |-> 0, floor |-> 0, quietFloor |-> 0, alone |-> TRUE]

Init ==
    /\ clock = 0
    /\ local = [k \in Keys |-> None]
    /\ expiry = [k \in Keys |-> Never]
    /\ file = [f \in Paths |-> NoFile]
    /\ pc = [p \in Procs |-> "idle"]
    /\ reg = [p \in Procs |-> Idle]
    /\ ops = 0 /\ faults = 0 /\ gens = 0
    /\ stamped = [k \in Keys |-> -TTL]
    /\ floor = [k \in Keys |-> 0]
    /\ quietFloor = [k \in Keys |-> 0]

-----------------------------------------------------------------------------
(* Mutant: a file name that does not depend on the whole key.              *)
PathTruncated(k) == CHOOSE f \in Paths : TRUE
pathForKey(k) == PathOf[k]

(* Mutant: After replaced by !Before in the expiry test.                   *)
ExpiredLate(t) == t # Never /\ t < clock
expired(t) == t # Never /\ t <= clock

key(p) == reg[p].key

(* The local cache is a bounded cache, which LRUProgramCache implements    *)
(* (module LRUCache).                                                      *)
Local == INSTANCE BoundedCache WITH Capacity <- LocalCapacity, content <- local

(* local.Set *)
LocalWith(k, program) == Local!With(k, program)

(* The mutex of the file store: Save holds it while it writes.             *)
StoreFree == \A q \in Procs : pc[q] # "writing"

Goto(p, from, to) ==
    /\ pc[p] = from
    /\ pc' = [pc EXCEPT ![p] = to]

Fault == faults < MaxFaults /\ faults' = faults + 1

(* A call on the key begins: whatever call on it is in progress is no      *)
(* longer alone.                                                           *)
Begin(p, op, k, to) ==
    /\ ops < MaxOps
    /\ ops' = ops + 1
    /\ Goto(p, "idle", to)
    /\ LET busy == {q \in Procs : pc[q] # "idle" /\ key(q) = k}
       IN  reg' = [q \in Procs |->
                     IF q = p THEN [Idle EXCEPT !.op = op, !.key = k, !.started = clock,
                                                !.floor = floor[k], !.quietFloor = quietFloor[k],
                                                !.alone = busy = {}]
                     ELSE IF q \in busy THEN [reg[q] EXCEPT !.alone = FALSE]
                     ELSE reg[q]]
    /\ UNCHANGED <<clock, local, expiry, file, faults, history>>

-----------------------------------------------------------------------------
(* CachedRuleCompiler.Compile: cache.Get, and on a miss compile, cache.Set *)

Compile(p, k) == Begin(p, "compile", k, "localGet")

(* Get: c.local.Get.                                                       *)
LocalGet(p) ==
    /\ Goto(p, "localGet", IF local[key(p)] # None THEN "checkLocal" ELSE "load")
    /\ reg' = [reg EXCEPT ![p].program = local[key(p)]]
    /\ UNCHANGED <<clock, local, expiry, file, ops, faults, history>>

(* Get: localEntryExpired.                                                 *)
CheckLocal(p) ==
    LET stale == expired(expiry[key(p)])
    IN  /\ Goto(p, "checkLocal", IF stale THEN "dropLocal" ELSE "done")
        /\ reg' = IF stale THEN [reg EXCEPT ![p].program = None]
                           ELSE [reg EXCEPT ![p].answer = "program"]
        /\ UNCHANGED <<clock, local, expiry, file, ops, faults, history>>

(* deleteLocal, first half: local.Delete, when the local cache has it.     *)
DropLocalNot(p) ==   \* mutant: only the expiry is dropped
    /\ Goto(p, "dropLocal", "dropExpiry")
    /\ UNCHANGED <<clock, local, expiry, file, reg, ops, faults, history>>

DropLocal(p) ==
    /\ Goto(p, "dropLocal", "dropExpiry")
    /\ local' = IF LocalInvalidates THEN [local EXCEPT ![key(p)] = None] ELSE local
    /\ UNCHANGED <<clock, expiry, file, reg, ops, faults, history>>

(* deleteLocal, second half: the expiry, under the cache's own mutex.      *)
DropExpiry(p) ==
    /\ Goto(p, "dropExpiry", IF reg[p].op = "invalidate" THEN "remove" ELSE "load")
    /\ expiry' = [expiry EXCEPT ![key(p)] = Never]
    /\ UNCHANGED <<clock, local, file, reg, ops, faults, history>>

(* Get: store.Load; an absent or unreadable file is a miss.                *)
Load(p) ==
    LET found == file[pathForKey(key(p))]
        entry == found.kind \in {"entry", "unrestorable"}
    IN  /\ StoreFree
        /\ Goto(p, "load", IF entry THEN "checkEntry" ELSE "miss")
        /\ reg' = [reg EXCEPT ![p].program = IF entry THEN found.program ELSE None,
                              ![p].expires = found.expires,
                              ![p].restorable = found.kind # "unrestorable"]
        /\ UNCHANGED <<clock, local, expiry, file, ops, faults, history>>

LoadErrorReturned(p) ==   \* mutant: the store's error is returned to the caller
    /\ StoreFree
    /\ Goto(p, "load", "done")
    /\ Fault
    /\ reg' = [reg EXCEPT ![p].answer = "error"]
    /\ UNCHANGED <<clock, local, expiry, file, ops, history>>

LoadFails(p) ==
    /\ StoreFree
    /\ Goto(p, "load", "miss")
    /\ Fault
    /\ UNCHANGED <<clock, local, expiry, file, reg, ops, history>>

(* Get: isExpired and restoreCompiledExpr.                                 *)
CheckEntryRetries(p) ==   \* mutant: an unusable entry is loaded again, not removed
    LET usable == ~expired(reg[p].expires) /\ reg[p].restorable
    IN  /\ Goto(p, "checkEntry", IF usable THEN "fillLocal" ELSE "load")
        /\ UNCHANGED <<clock, local, expiry, file, reg, ops, faults, history>>

CheckEntry(p) ==
    LET usable == ~expired(reg[p].expires) /\ reg[p].restorable
    IN  /\ Goto(p, "checkEntry", IF usable THEN "fillLocal" ELSE "removeStale")
        /\ reg' = IF usable THEN reg ELSE [reg EXCEPT ![p].program = None]
        /\ UNCHANGED <<clock, local, expiry, file, ops, faults, history>>

(* store.Delete, which may fail.                                           *)
StoreDeleteIgnored(p) ==   \* mutant: the file stays, the call succeeds
    /\ StoreFree
    /\ UNCHANGED <<file, faults>>

StoreDelete(p) ==
    /\ StoreFree
    /\ \/ file' = [file EXCEPT ![pathForKey(key(p))] = NoFile] /\ UNCHANGED faults
       \/ Fault /\ UNCHANGED file

RemoveStale(p) ==
    /\ Goto(p, "removeStale", "miss")
    /\ StoreDelete(p)
    /\ UNCHANGED <<clock, local, expiry, reg, ops, history>>

FillLocal(p) ==
    /\ Goto(p, "fillLocal", "fillExpiry")
    /\ local' \in LocalWith(key(p), reg[p].program)
    /\ UNCHANGED <<clock, expiry, file, reg, ops, faults, history>>

FillExpiryRenewed(p) ==   \* mutant: a restored entry gets a new lease locally
    /\ Goto(p, "fillExpiry", "done")
    /\ expiry' = [expiry EXCEPT ![key(p)] = clock + TTL]
    /\ reg' = [reg EXCEPT ![p].answer = "program"]
    /\ UNCHANGED <<clock, local, file, ops, faults, history>>

FillExpiry(p) ==
    /\ Goto(p, "fillExpiry", "done")
    /\ expiry' = [expiry EXCEPT ![key(p)] = reg[p].expires]
    /\ reg' = [reg EXCEPT ![p].answer = "program"]
    /\ UNCHANGED <<clock, local, file, ops, faults, history>>

(* inner.Compile; its error is returned and nothing is cached.             *)
CompileMiss(p) ==
    /\ IF key(p) \in Compilable
       THEN /\ Goto(p, "miss", "setLocal")
            /\ gens' = gens + 1
            /\ reg' = [reg EXCEPT ![p].program = Program(key(p), gens + 1)]
       ELSE /\ Goto(p, "miss", "done")
            /\ reg' = [reg EXCEPT ![p].answer = "error"]
            /\ UNCHANGED gens
    /\ UNCHANGED <<clock, local, expiry, file, ops, faults, stamped, floor, quietFloor>>

(* Set: c.local.Set.                                                       *)
SetLocal(p) ==
    /\ Goto(p, "setLocal", "stamp")
    /\ local' \in LocalWith(key(p), reg[p].program)
    /\ UNCHANGED <<clock, expiry, file, reg, ops, faults, history>>

(* Set: now := c.now().                                                    *)
StampBackwards(p) ==   \* mutant: the lifetime is subtracted
    /\ Goto(p, "stamp", "setExpiry")
    /\ reg' = [reg EXCEPT ![p].expires = clock - TTL]
    /\ stamped' = [stamped EXCEPT ![key(p)] = clock]
    /\ UNCHANGED <<clock, local, expiry, file, ops, faults, gens, floor, quietFloor>>

Stamp(p) ==
    /\ Goto(p, "stamp", "setExpiry")
    /\ reg' = [reg EXCEPT ![p].expires = clock + TTL]
    /\ stamped' = [stamped EXCEPT ![key(p)] = clock]
    /\ UNCHANGED <<clock, local, expiry, file, ops, faults, gens, floor, quietFloor>>

(* Set: setLocalExpiry.                                                    *)
SetExpiry(p) ==
    /\ Goto(p, "setExpiry", "save")
    /\ expiry' = [expiry EXCEPT ![key(p)] = reg[p].expires]
    /\ UNCHANGED <<clock, local, file, reg, ops, faults, history>>

(* Set: store.Save.  WriteFile truncates the file before it writes; until  *)
(* it is done, and if it fails or the process dies, the file is garbage.   *)
SaveOpen(p) ==
    /\ StoreFree
    /\ Goto(p, "save", "writing")
    /\ file' = [file EXCEPT ![pathForKey(key(p))] = Garbage]
    /\ UNCHANGED <<clock, local, expiry, reg, ops, faults, history>>

SaveWrite(p) ==
    /\ Goto(p, "writing", "done")
    /\ \/ /\ file' = [file EXCEPT ![pathForKey(key(p))] =
                         File("entry", reg[p].program, reg[p].expires)]
          /\ UNCHANGED faults
       \/ Fault /\ UNCHANGED file
    /\ reg' = [reg EXCEPT ![p].answer = "program"]
    /\ UNCHANGED <<clock, local, expiry, ops, history>>

(* The snapshot, the directory or the encoding fails before the file is    *)
(* touched; the error is dropped.                                          *)
SaveFails(p) ==
    /\ StoreFree
    /\ Goto(p, "save", "done")
    /\ Fault
    /\ reg' = [reg EXCEPT ![p].answer = "program"]
    /\ UNCHANGED <<clock, local, expiry, file, ops, history>>

-----------------------------------------------------------------------------
(* Invalidate: deleteLocal, then store.Delete, whose error is returned     *)

Invalidate(p, k) == Begin(p, "invalidate", k, "dropLocal")

Remove(p) ==
    /\ Goto(p, "remove", "done")
    /\ StoreDelete(p)
    /\ LET removed == faults' = faults
       IN  /\ reg' = [reg EXCEPT ![p].answer = IF removed THEN "removed" ELSE "error"]
           /\ floor' = IF removed THEN [floor EXCEPT ![key(p)] = gens + 1] ELSE floor
           /\ quietFloor' = IF removed /\ reg[p].alone
                            THEN [quietFloor EXCEPT ![key(p)] = gens + 1] ELSE quietFloor
    /\ UNCHANGED <<clock, local, expiry, ops, gens, stamped>>

Return(p) ==
    /\ Goto(p, "done", "idle")
    /\ reg' = [reg EXCEPT ![p] = Idle]
    /\ UNCHANGED <<clock, local, expiry, file, ops, faults, history>>

-----------------------------------------------------------------------------
(* The environment                                                         *)

Tick ==
    /\ clock < MaxTime
    /\ clock' = clock + 1
    /\ UNCHANGED <<local, expiry, file, pc, reg, ops, faults, history>>

(* The process dies and a new one starts: memory is gone, files are not.   *)
Crash ==
    /\ Fault
    /\ local' = [k \in Keys |-> None]
    /\ expiry' = [k \in Keys |-> Never]
    /\ pc' = [p \in Procs |-> "idle"]
    /\ reg' = [p \in Procs |-> Idle]
    /\ UNCHANGED <<clock, file, ops, history>>

(* A file is damaged, or was written by a build whose programs this one    *)
(* cannot restore.                                                         *)
Damage(f) ==
    /\ StoreFree
    /\ file[f].kind = "entry"
    /\ Fault
    /\ \E kind \in {"garbage", "unrestorable"} :
           file' = [file EXCEPT ![f] = IF kind = "garbage" THEN Garbage
                                       ELSE [@ EXCEPT !.kind = kind]]
    /\ UNCHANGED <<clock, local, expiry, pc, reg, ops, history>>

Step(p) ==
    \/ LocalGet(p) \/ CheckLocal(p) \/ DropLocal(p) \/ DropExpiry(p)
    \/ Load(p) \/ LoadFails(p) \/ CheckEntry(p) \/ RemoveStale(p)
    \/ FillLocal(p) \/ FillExpiry(p)
    \/ CompileMiss(p) \/ SetLocal(p) \/ Stamp(p) \/ SetExpiry(p)
    \/ SaveOpen(p) \/ SaveWrite(p) \/ SaveFails(p)
    \/ Remove(p) \/ Return(p)

Next ==
    \/ \E p \in Procs : Step(p) \/ \E k \in Keys : Compile(p, k) \/ Invalidate(p, k)
    \/ Tick
    \/ Crash
    \/ \E f \in Paths : Damage(f)

(* A goroutine inside a call is scheduled, and Go's mutexes do not starve  *)
(* the one that waits; calls, time and faults need not happen.             *)
Fairness == \A p \in Procs : SF_vars(Step(p))

Spec == Init /\ [][Next]_vars /\ Fairness

-----------------------------------------------------------------------------
Places == {"idle", "localGet", "checkLocal", "dropLocal", "dropExpiry", "load", "checkEntry",
           "removeStale", "fillLocal", "fillExpiry", "miss", "setLocal", "stamp",
           "setExpiry", "save", "writing", "remove", "done"}

Registers == [op : {"none", "compile", "invalidate"}, key : Keys \cup {"none"},
              program : Programs \cup {None}, expires : Nat \cup {Never},
              restorable : BOOLEAN, answer : {"none", "program", "removed", "error"},
              started : Nat, floor : Nat, quietFloor : Nat, alone : BOOLEAN]

Served(p) == pc[p] = "done" /\ reg[p].answer = "program"

TypeOK ==
    /\ clock \in Nat
    /\ local \in [Keys -> Programs \cup {None}]
    /\ expiry \in [Keys -> Nat \cup {Never}]
    /\ file \in [Paths -> Files]
    /\ pc \in [Procs -> Places]
    /\ reg \in [Procs -> Registers]
    /\ \A p \in Procs : pc[p] # "idle" => key(p) \in Keys
    /\ gens \in Nat
    /\ floor \in [Keys -> Nat]
    /\ quietFloor \in [Keys -> Nat]

(* Whatever interleaving, eviction, crash or damage: each tier holds under *)
(* a key only the program of that key's expression and registry.           *)
IsFor(program, k) == program # None => program.source = k

TiersHoldOwnProgram ==
    \A k \in Keys : IsFor(local[k], k) /\ IsFor(file[pathForKey(k)].program, k)

(* The strengthening that makes it inductive: what each call holds at each *)
(* place, and what it answers.                                             *)
HoldsProgram == {"checkLocal", "checkEntry", "fillLocal", "fillExpiry",
                 "setLocal", "stamp", "setExpiry", "save", "writing"}
OfCompile == HoldsProgram \cup {"localGet", "load", "removeStale", "miss"}

OwnProgram(p) == reg[p].program \in Programs /\ reg[p].program.source = key(p)

CallsHoldOwnProgram ==
    \A p \in Procs :
        /\ pc[p] # "idle" => reg[p].op # "none"
        /\ pc[p] \in HoldsProgram => OwnProgram(p)
        /\ pc[p] \in OfCompile => reg[p].op = "compile"
        /\ pc[p] = "remove" => reg[p].op = "invalidate"
        /\ pc[p] = "done" /\ reg[p].answer = "program" => OwnProgram(p)
        /\ pc[p] = "done" /\ reg[p].op = "compile" =>
               \/ reg[p].answer = "program"
               \/ reg[p].answer = "error" /\ key(p) \notin Compilable

FilesHoldPrograms ==
    \A f \in Paths : file[f].kind \in {"entry", "unrestorable"} => file[f].program \in Programs

(* So a Compile is never answered with another rule's program: what a      *)
(* PublishRuleSet puts under a rule code is what that rule says.           *)
ServedProgramIsOwn == \A p \in Procs : Served(p) => reg[p].program.source = key(p)

(* A failing or damaged store never surfaces: a Compile fails only when    *)
(* the expression itself does not compile (the degradation to in-memory    *)
(* cache and recompilation of the technical design).                       *)
FaultsNeverSurface ==
    \A p \in Procs : pc[p] = "done" /\ reg[p].op = "compile" =>
        reg[p].answer = (IF key(p) \in Compilable THEN "program" ELSE "error")

(* A program is not served once TTL has passed since it was last cached: a *)
(* call that no other call on its key overlaps is answered only if a Set   *)
(* of the key was stamped less than TTL before the call began.             *)
TtlBoundsService ==
    \A p \in Procs :
        Served(p) /\ reg[p].alone => reg[p].started < stamped[key(p)] + TTL

(* Once Invalidate has returned, calls that start later get a program      *)
(* compiled after it.                                                      *)
ServesNothingInvalidated ==
    \A p \in Procs : Served(p) => reg[p].program.gen >= reg[p].floor

(* The same, for an Invalidate during which no other call on that key was  *)
(* in progress.                                                            *)
QuietInvalidateHolds ==
    \A p \in Procs : Served(p) => reg[p].program.gen >= reg[p].quietFloor

(* With no call in progress and no fault so far, the tiers agree on the    *)
(* program of a key and on when it expires.                                *)
TiersAgree ==
    faults = 0 /\ (\A p \in Procs : pc[p] = "idle") =>
        \A k \in Keys : LET entry == file[pathForKey(k)]
                        IN  local[k] # None /\ entry.kind = "entry" =>
                                local[k] = entry.program /\ expiry[k] = entry.expires

(* Every call returns (or dies with the process), though the store's mutex *)
(* is taken by one goroutine at a time.                                    *)
CallsReturn == \A p \in Procs : pc[p] # "idle" ~> pc[p] = "idle"
=============================================================================
