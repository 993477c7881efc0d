---------------------- MODULE PersistentCacheFreshness ----------------------
(***************************************************************************)
(* How new the programs are that the two-tier cache serves, for all keys,  *)
(* goroutines, lifetimes and faults: nothing that a quiet Invalidate has   *)
(* removed; and, where calls on one key do not overlap, nothing that was   *)
(* invalidated or has expired, from tiers that agree.                      *)
(***************************************************************************)
EXTENDS PersistentCacheProofs

fileOf(k) == file[pathForKey(k)]
Busy(p) == pc[p] # "idle"

-----------------------------------------------------------------------------
(* What a quiet Invalidate leaves behind                                   *)

NotOlder(program, k) == program # None => program.gen >= quietFloor[k]

TiersNotOlder ==
    \A k \in Keys :
        /\ NotOlder(local[k], k) /\ NotOlder(fileOf(k).program, k)
        /\ quietFloor[k] <= gens + 1

(* While an Invalidate is alone nobody brings the program back that it has *)
(* dropped from the local cache.                                           *)
CallsNotOlder ==
    \A p \in Procs : Busy(p) =>
        /\ NotOlder(reg[p].program, key(p))
        /\ reg[p].op = "invalidate" => reg[p].program = None
        /\ reg[p].quietFloor <= quietFloor[key(p)]
        /\ reg[p].alone => \A q \in Procs \ {p} : Busy(q) => key(q) # key(p)
        /\ reg[p].alone /\ reg[p].op = "invalidate" /\ pc[p] \in {"dropExpiry", "remove"} =>
               local[key(p)] = None

QuietInv == faults \in Nat /\ TiersNotOlder /\ CallsNotOlder

-----------------------------------------------------------------------------
(* Where calls on one key do not overlap                                   *)

NoOverlap == \A p, q \in Procs : p # q /\ Busy(p) /\ Busy(q) => key(p) # key(q)

(* A program in the local cache has its expiry with it.                    *)
Fresh(k) == LocalInvalidates /\ local[k] # None => expiry[k] # Never

Agree(k) ==
    faults = 0 /\ local[k] # None /\ fileOf(k).kind = "entry" =>
        local[k] = fileOf(k).program /\ expiry[k] = fileOf(k).expires

(* No expiry is later than the latest Set of the key allows.               *)
StampBounds(k) ==
    /\ stamped[k] + TTL >= 0 /\ stamped[k] <= clock
    /\ expiry[k] <= stamped[k] + TTL /\ fileOf(k).expires <= stamped[k] + TTL
    /\ fileOf(k).kind \in {"entry", "unrestorable"} => fileOf(k).expires # Never
    /\ floor[k] = quietFloor[k]

RestInv == \A k \in Keys : (\A p \in Procs : Busy(p) => key(p) # k) => Fresh(k) /\ Agree(k)

(* What a call of key k relies on from one step to the next.               *)
CallInv(p, k) ==
    LET r == reg[p]
        f == fileOf(k)
    IN  /\ r.alone /\ r.floor = r.quietFloor /\ r.started <= clock /\ r.expires <= stamped[k] + TTL
        /\ pc[p] \in {"localGet", "checkLocal", "dropLocal", "done"} => Fresh(k) /\ Agree(k)
        /\ pc[p] = "checkLocal" /\ LocalInvalidates => expiry[k] # Never
        /\ pc[p] \in {"dropExpiry", "load", "checkEntry", "removeStale", "miss", "remove"} =>
               (LocalInvalidates => local[k] = None)
        /\ pc[p] \in {"checkEntry", "fillLocal", "fillExpiry"} =>
               r.expires # Never /\ (f.kind = "entry" => f.program = r.program /\ f.expires = r.expires)
        /\ pc[p] \in {"fillLocal", "fillExpiry"} => r.started < r.expires
        /\ pc[p] \in {"fillExpiry", "stamp", "setExpiry", "save", "writing"} => local[k] \in {None, r.program}
        /\ pc[p] \in {"miss", "setLocal", "stamp", "setExpiry", "save", "writing"} =>
               (faults = 0 => f.kind # "entry")
        /\ pc[p] \in {"setExpiry", "save", "writing"} => r.expires # Never
        /\ pc[p] \in {"save", "writing"} => expiry[k] = r.expires
        /\ pc[p] \in {"setExpiry", "save", "writing"} \/ (pc[p] = "done" /\ r.answer = "program") =>
               (LocalInvalidates => r.started < stamped[k] + TTL)

SerialInv ==
    /\ faults \in Nat
    /\ stamped \in [Keys -> Int]
    /\ \A k \in Keys : StampBounds(k)
    /\ RestInv
    /\ \A p \in Procs : Busy(p) => CallInv(p, key(p))

-----------------------------------------------------------------------------
(* A step of a call is about its own key                                   *)

(* local.Set leaves under its key what was set, under others what was      *)
(* there, or nothing.                                                      *)
LEMMA LocalWithSets ==
    ASSUME TypeOK, NEW k \in Keys, NEW program \in Programs, NEW l \in LocalWith(k, program)
    PROVE  /\ l \in [Keys -> Programs \cup {None}]
           /\ l[k] = program
           /\ \A j \in Keys : j # k => l[j] \in {local[j], None}
BY DEF LocalWith, Local!With, TypeOK

(* Other calls and other keys: no more than that the local cache may have  *)
(* lost a program.                                                         *)
OthersStay(p) ==
    /\ \A q \in Procs \ {p} : pc'[q] = pc[q] /\ reg'[q] = reg[q]
    /\ \A j \in Keys \ {key(p)} :
           /\ local'[j] \in {local[j], None} /\ expiry'[j] = expiry[j]
           /\ file'[pathForKey(j)] = file[pathForKey(j)]
           /\ stamped'[j] = stamped[j] /\ floor'[j] = floor[j] /\ quietFloor'[j] = quietFloor[j]

(* Steps take no time, and stay with the key of the call.                  *)
StaysWith(p) ==
    /\ Busy(p) /\ key(p) \in Keys
    /\ pc'[p] # "idle" => key(p)' = key(p)
    /\ clock' = clock /\ gens' \in {gens, gens + 1} /\ faults' \in {faults, faults + 1}

(* Every step of a call is such a step.                                    *)
LEMMA StepFrame ==
    ASSUME IInv, NEW p \in Procs, Step(p) PROVE OthersStay(p) /\ StaysWith(p)
<1>0. TypeOK /\ CallsHoldOwnProgram
  BY DEF IInv
<1>1. /\ pc \in [Procs -> Places] /\ reg \in [Procs -> Registers] /\ reg[p] \in Registers
      /\ \A j \in Keys : pathForKey(j) \in Paths
      /\ \A j \in Keys \ {key(p)} : key(p) \in Keys => pathForKey(j) # pathForKey(key(p))
  BY <1>0, PathAssumption DEF TypeOK, pathForKey
<1> USE <1>0, <1>1 DEF TypeOK, Goto, history, OthersStay, StaysWith, Busy, key, Registers
<1>2. CASE LocalGet(p)
  BY <1>2 DEF LocalGet
<1>3. CASE CheckLocal(p)
  BY <1>3 DEF CheckLocal
<1>4. CASE DropLocal(p)
  BY <1>4 DEF DropLocal
<1>5. CASE DropExpiry(p)
  BY <1>5 DEF DropExpiry
<1>6. CASE Load(p)
  BY <1>6 DEF Load
<1>7. CASE LoadFails(p)
  BY <1>7 DEF LoadFails, Fault
<1>8. CASE CheckEntry(p)
  BY <1>8 DEF CheckEntry
<1>9. CASE RemoveStale(p)
  BY <1>9 DEF RemoveStale, StoreDelete, Fault
<1>10. CASE FillLocal(p)
  <2>1. key(p) \in Keys /\ reg[p].program \in Programs
    BY <1>10 DEF FillLocal, CallsHoldOwnProgram, HoldsProgram, OwnProgram
  <2>2. \A j \in Keys \ {key(p)} : local'[j] \in {local[j], None}
    BY <1>10, <2>1, LocalWithSets DEF FillLocal
  <2> QED BY <1>10, <2>1, <2>2 DEF FillLocal
<1>11. CASE FillExpiry(p)
  BY <1>11 DEF FillExpiry
<1>12. CASE CompileMiss(p)
  BY <1>12 DEF CompileMiss
<1>13. CASE SetLocal(p)
  <2>1. key(p) \in Keys /\ reg[p].program \in Programs
    BY <1>13 DEF SetLocal, CallsHoldOwnProgram, HoldsProgram, OwnProgram
  <2>2. \A j \in Keys \ {key(p)} : local'[j] \in {local[j], None}
    BY <1>13, <2>1, LocalWithSets DEF SetLocal
  <2> QED BY <1>13, <2>1, <2>2 DEF SetLocal
<1>14. CASE Stamp(p)
  BY <1>14 DEF Stamp
<1>15. CASE SetExpiry(p)
  BY <1>15 DEF SetExpiry
<1>16. CASE SaveOpen(p)
  BY <1>16 DEF SaveOpen
<1>17. CASE SaveWrite(p)
  BY <1>17 DEF SaveWrite, Fault
<1>18. CASE SaveFails(p)
  BY <1>18 DEF SaveFails, Fault
<1>19. CASE Remove(p)
  BY <1>19 DEF Remove, StoreDelete, Fault
<1>20. CASE Return(p)
  BY <1>20 DEF Return
<1> QED BY <1>2, <1>3, <1>4, <1>5, <1>6, <1>7, <1>8, <1>9, <1>10, <1>11, <1>12, <1>13, <1>14,
           <1>15, <1>16, <1>17, <1>18, <1>19, <1>20 DEF Step

-----------------------------------------------------------------------------
(* Nothing is older than the latest quiet Invalidate                       *)

(* A step of a call brings nothing older to the tiers of its key, and      *)
(* keeps nothing older in its registers.                                   *)
LEMMA OwnNotOlder ==
    ASSUME IInv, QuietInv, LocalInvalidates, NEW p \in Procs, Step(p), NEW k, k = key(p)
    PROVE  /\ NotOlder(local[k], k)' /\ NotOlder(fileOf(k).program, k)'
           /\ quietFloor'[k] <= gens' + 1 /\ quietFloor'[k] >= quietFloor[k]
           /\ quietFloor'[k] # quietFloor[k] => reg[p].alone
           /\ pc'[p] # "idle" =>
                  /\ NotOlder(reg[p].program, k)'
                  /\ reg[p].op = "invalidate" => reg'[p].program = None
                  /\ reg'[p].quietFloor = reg[p].quietFloor
                  /\ reg'[p].alone = reg[p].alone /\ reg'[p].op = reg[p].op
                  /\ reg[p].alone /\ reg[p].op = "invalidate" /\ pc'[p] \in {"dropExpiry", "remove"} =>
                         local'[k] = None
<1> DEFINE f == fileOf(k)
<1>0. TypeOK /\ CallsHoldOwnProgram /\ OthersStay(p) /\ StaysWith(p)
  BY StepFrame DEF IInv
<1>1. /\ pc \in [Procs -> Places] /\ reg \in [Procs -> Registers] /\ reg[p] \in Registers
      /\ pathForKey(k) \in Paths /\ k \in Keys /\ Busy(p) /\ local[k] \in Programs \cup {None}
      /\ f \in Files /\ gens \in Nat /\ quietFloor[k] \in Nat /\ gens' \in {gens, gens + 1}
      /\ faults \in Nat
  BY <1>0, PathAssumption DEF TypeOK, pathForKey, StaysWith, fileOf, QuietInv
<1>2. /\ NotOlder(local[k], k) /\ NotOlder(f.program, k) /\ quietFloor[k] <= gens + 1
      /\ NotOlder(reg[p].program, k) /\ (reg[p].op = "invalidate" => reg[p].program = None)
      /\ reg[p].alone /\ reg[p].op = "invalidate" /\ pc[p] \in {"dropExpiry", "remove"} => local[k] = None
  BY <1>1 DEF QuietInv, TiersNotOlder, CallsNotOlder
<1>3. /\ pc[p] \in OfCompile => reg[p].op = "compile"
      /\ pc[p] = "remove" => reg[p].op = "invalidate"
  BY <1>0 DEF CallsHoldOwnProgram
<1> USE <1>0, <1>1, <1>2, <1>3 DEF TypeOK, Goto, history, NotOlder, fileOf, key, Registers
<1>4. CASE LocalGet(p)
  BY <1>4 DEF LocalGet, OfCompile, HoldsProgram
<1>5. CASE CheckLocal(p)
  BY <1>5 DEF CheckLocal, OfCompile, HoldsProgram
<1>6. CASE DropLocal(p)
  BY <1>6 DEF DropLocal
<1>7. CASE DropExpiry(p)
  BY <1>7 DEF DropExpiry
<1>8. CASE Load(p)
  <2>1. /\ reg'[p].program \in {f.program, None} /\ reg'[p].quietFloor = reg[p].quietFloor
        /\ reg'[p].alone = reg[p].alone /\ reg'[p].op = reg[p].op
    BY <1>8 DEF Load
  <2>2. /\ pc[p] = "load" /\ pc'[p] \in {"checkEntry", "miss"}
        /\ UNCHANGED <<local, file, quietFloor, gens>>
    BY <1>8 DEF Load
  <2>3. reg[p].op = "compile"
    BY <2>2 DEF OfCompile
  <2> QED BY <2>1, <2>2, <2>3
<1>9. CASE LoadFails(p)
  BY <1>9 DEF LoadFails, Fault
<1>10. CASE CheckEntry(p)
  BY <1>10 DEF CheckEntry, OfCompile, HoldsProgram
<1>11. CASE RemoveStale(p)
  BY <1>11 DEF RemoveStale, StoreDelete, NoFile, File, None, Fault
<1>12. CASE FillLocal(p)
  <2>1. reg[p].program \in Programs
    BY <1>12 DEF FillLocal, CallsHoldOwnProgram, HoldsProgram, OwnProgram
  <2>2. local'[k] = reg[p].program
    BY <1>12, <2>1, LocalWithSets DEF FillLocal
  <2> QED BY <1>12, <2>1, <2>2 DEF FillLocal
<1>13. CASE FillExpiry(p)
  BY <1>13 DEF FillExpiry
<1>14. CASE CompileMiss(p)
  BY <1>14 DEF CompileMiss, Program, OfCompile, HoldsProgram
<1>15. CASE SetLocal(p)
  <2>1. reg[p].program \in Programs
    BY <1>15 DEF SetLocal, CallsHoldOwnProgram, HoldsProgram, OwnProgram
  <2>2. local'[k] = reg[p].program
    BY <1>15, <2>1, LocalWithSets DEF SetLocal
  <2> QED BY <1>15, <2>1, <2>2 DEF SetLocal
<1>16. CASE Stamp(p)
  BY <1>16 DEF Stamp
<1>17. CASE SetExpiry(p)
  BY <1>17 DEF SetExpiry
<1>18. CASE SaveOpen(p)
  BY <1>18 DEF SaveOpen, File, Garbage, None
<1>19. CASE SaveWrite(p)
  BY <1>19 DEF SaveWrite, File, Garbage, None, Fault
<1>20. CASE SaveFails(p)
  BY <1>20 DEF SaveFails, Fault
<1>21. CASE Remove(p)
  <2>1. /\ fileOf(k).program' = None \/ fileOf(k)' = f
        /\ faults' = faults => fileOf(k).program' = None
    BY <1>21 DEF Remove, StoreDelete, Fault, NoFile, File
  <2>2. /\ reg'[p].program = reg[p].program /\ reg'[p].quietFloor = reg[p].quietFloor
        /\ reg'[p].alone = reg[p].alone /\ reg'[p].op = reg[p].op
    BY <1>21 DEF Remove
  <2>3. /\ quietFloor'[k] = IF faults' = faults /\ reg[p].alone THEN gens + 1 ELSE quietFloor[k]
        /\ gens' = gens /\ local' = local /\ pc[p] = "remove" /\ pc'[p] = "done"
    BY <1>21 DEF Remove
  <2>4. NotOlder(local[k], k)' /\ NotOlder(fileOf(k).program, k)'
    BY <2>1, <2>3
  <2> QED BY <2>2, <2>3, <2>4
<1>22. CASE Return(p)
  BY <1>22 DEF Return
<1> QED BY <1>4, <1>5, <1>6, <1>7, <1>8, <1>9, <1>10, <1>11, <1>12, <1>13, <1>14, <1>15, <1>16,
           <1>17, <1>18, <1>19, <1>20, <1>21, <1>22 DEF Step

(* A call begins: it is alone unless others are on its key, who are not    *)
(* alone any more.                                                         *)
LEMMA BeginFrame ==
    ASSUME IInv, NEW p \in Procs, NEW k \in Keys, NEW op, NEW to, to # "idle", Begin(p, op, k, to)
    PROVE  /\ UNCHANGED <<clock, local, expiry, file, faults, gens, stamped, floor, quietFloor>>
           /\ pc[p] = "idle" /\ pc'[p] = to
           /\ reg'[p] = [Idle EXCEPT !.op = op, !.key = k, !.started = clock,
                                     !.floor = floor[k], !.quietFloor = quietFloor[k],
                                     !.alone = (\A q \in Procs : Busy(q) => key(q) # k)]
           /\ \A q \in Procs \ {p} :
                  /\ pc'[q] = pc[q]
                  /\ Busy(q) /\ key(q) = k => reg'[q] = [reg[q] EXCEPT !.alone = FALSE]
                  /\ ~(Busy(q) /\ key(q) = k) => reg'[q] = reg[q]
<1>1. /\ pc \in [Procs -> Places] /\ reg \in [Procs -> Registers]
  BY DEF IInv, TypeOK
<1> DEFINE busy == {q \in Procs : Busy(q) /\ key(q) = k}
           first == [Idle EXCEPT !.op = op, !.key = k, !.started = clock, !.floor = floor[k],
                                 !.quietFloor = quietFloor[k], !.alone = busy = {}]
<1>2. /\ UNCHANGED <<clock, local, expiry, file, faults, gens, stamped, floor, quietFloor>>
      /\ pc[p] = "idle" /\ pc' = [pc EXCEPT ![p] = to]
      /\ reg' = [q \in Procs |-> IF q = p THEN first
                                 ELSE IF q \in busy THEN [reg[q] EXCEPT !.alone = FALSE]
                                 ELSE reg[q]]
  BY DEF Begin, Goto, history, Busy
<1>3. (busy = {}) = \A q \in Procs : Busy(q) => key(q) # k
  OBVIOUS
<1>4. reg'[p] = first
  BY <1>2
<1>5. \A q \in Procs \ {p} :
          /\ q \in busy => reg'[q] = [reg[q] EXCEPT !.alone = FALSE]
          /\ q \notin busy => reg'[q] = reg[q]
  BY <1>2
<1>6. reg'[p] = [Idle EXCEPT !.op = op, !.key = k, !.started = clock,
                            !.floor = floor[k], !.quietFloor = quietFloor[k],
                            !.alone = (\A q \in Procs : Busy(q) => key(q) # k)]
  BY <1>3, <1>4
<1> QED BY <1>1, <1>2, <1>5, <1>6

(* Steps keep the invariant: other calls on the key of a quiet Invalidate  *)
(* there are none.                                                         *)
LEMMA StepKeepsQuiet ==
    ASSUME IInv, QuietInv, LocalInvalidates, NEW p \in Procs, Step(p)
    PROVE  QuietInv'
<1>0. PICK k : k = key(p)
  OBVIOUS
<1>1. OthersStay(p) /\ StaysWith(p)
  BY StepFrame
<1>2. /\ NotOlder(local[k], k)' /\ NotOlder(fileOf(k).program, k)'
      /\ quietFloor'[k] <= gens' + 1 /\ quietFloor'[k] >= quietFloor[k]
      /\ quietFloor'[k] # quietFloor[k] => reg[p].alone
      /\ pc'[p] # "idle" =>
             /\ NotOlder(reg[p].program, k)'
             /\ reg[p].op = "invalidate" => reg'[p].program = None
             /\ reg'[p].quietFloor = reg[p].quietFloor
             /\ reg'[p].alone = reg[p].alone /\ reg'[p].op = reg[p].op
             /\ reg[p].alone /\ reg[p].op = "invalidate" /\ pc'[p] \in {"dropExpiry", "remove"} =>
                    local'[k] = None
  BY <1>0, OwnNotOlder
<1>3. /\ k \in Keys /\ Busy(p) /\ gens \in Nat /\ gens' >= gens /\ gens' \in Nat /\ faults' \in Nat
      /\ \A j \in Keys : quietFloor[j] \in Nat /\ quietFloor'[j] \in Nat
      /\ pc'[p] # "idle" => reg'[p].key = k
      /\ \A q \in Procs : Busy(q) => key(q) \in Keys
      /\ \A q \in Procs : reg[q].quietFloor \in Nat
  <2>1. TypeOK /\ TypeOK'
    BY StepKeepsIInv DEF IInv
  <2> QED BY <1>0, <1>1, <2>1 DEF StaysWith, TypeOK, QuietInv, key, Busy, Registers
<1>4. TiersNotOlder'
  <2> SUFFICES ASSUME NEW j \in Keys
               PROVE  /\ NotOlder(local[j], j)' /\ NotOlder(fileOf(j).program, j)'
                      /\ quietFloor'[j] <= gens' + 1
    BY DEF TiersNotOlder
  <2>1. CASE j = k
    BY <1>2, <2>1
  <2>2. CASE j # k
    <3>1. /\ NotOlder(local[j], j) /\ NotOlder(fileOf(j).program, j) /\ quietFloor[j] <= gens + 1
      BY DEF QuietInv, TiersNotOlder
    <3>2. /\ local'[j] \in {local[j], None} /\ file'[pathForKey(j)] = file[pathForKey(j)]
          /\ quietFloor'[j] = quietFloor[j]
      BY <1>0, <1>1, <2>2 DEF OthersStay
    <3> QED BY <1>3, <3>1, <3>2 DEF NotOlder, fileOf, pathForKey
  <2> QED BY <2>1, <2>2
<1>5. CallsNotOlder'
  <2> SUFFICES ASSUME NEW q \in Procs, Busy(q)'
               PROVE  /\ NotOlder(reg[q].program, key(q))'
                      /\ reg'[q].op = "invalidate" => reg'[q].program = None
                      /\ reg'[q].quietFloor <= quietFloor'[key(q)']
                      /\ reg'[q].alone => \A r \in Procs \ {q} : Busy(r)' => key(r)' # key(q)'
                      /\ reg'[q].alone /\ reg'[q].op = "invalidate" /\ pc'[q] \in {"dropExpiry", "remove"} =>
                             local'[key(q)'] = None
    BY DEF CallsNotOlder
  <2>1. \A r \in Procs \ {p} : Busy(r)' = Busy(r) /\ key(r)' = key(r) /\ reg'[r] = reg[r] /\ pc'[r] = pc[r]
    BY <1>1 DEF OthersStay, Busy, key
  <2>2. /\ reg[p].quietFloor <= quietFloor[k]
        /\ reg[p].alone => \A r \in Procs \ {p} : Busy(r) => key(r) # k
    BY <1>0, <1>3 DEF QuietInv, CallsNotOlder
  <2>3. CASE q = p
    <3>1. pc'[p] # "idle" /\ key(p)' = k
      BY <1>3, <2>3 DEF Busy, key
    <3>2. reg'[p].quietFloor <= quietFloor'[k]
      BY <1>2, <1>3, <2>2, <3>1
    <3> QED BY <1>2, <2>1, <2>2, <2>3, <3>1, <3>2 DEF NotOlder
  <2>4. CASE q # p
    <3>1. /\ Busy(q) /\ key(q)' = key(q) /\ reg'[q] = reg[q] /\ pc'[q] = pc[q] /\ key(q) \in Keys
      BY <1>3, <2>1, <2>4
    <3>2. /\ NotOlder(reg[q].program, key(q))
          /\ reg[q].op = "invalidate" => reg[q].program = None
          /\ reg[q].quietFloor <= quietFloor[key(q)]
          /\ reg[q].alone => \A r \in Procs \ {q} : Busy(r) => key(r) # key(q)
          /\ reg[q].alone /\ reg[q].op = "invalidate" /\ pc[q] \in {"dropExpiry", "remove"} =>
                 local[key(q)] = None
      BY <3>1 DEF QuietInv, CallsNotOlder
    <3>3. CASE key(q) = k
      <4>1. ~reg[p].alone /\ ~reg[q].alone
        BY <1>0, <1>3, <2>2, <2>4, <3>1, <3>2, <3>3
      <4>2. quietFloor'[k] = quietFloor[k]
        BY <1>2, <4>1
      <4> QED BY <3>1, <3>2, <3>3, <4>1, <4>2 DEF NotOlder
    <3>4. CASE key(q) # k
      <4>1. quietFloor'[key(q)] = quietFloor[key(q)] /\ local'[key(q)] \in {local[key(q)], None}
        BY <1>0, <1>1, <3>1, <3>4 DEF OthersStay
      <4>2. \A r \in Procs \ {q} : reg[q].alone /\ Busy(r)' => key(r)' # key(q)
        BY <1>3, <2>1, <3>2, <3>4 DEF Busy, key
      <4> QED BY <3>1, <3>2, <4>1, <4>2 DEF NotOlder
    <3> QED BY <3>3, <3>4
  <2> QED BY <2>3, <2>4
<1> QED BY <1>3, <1>4, <1>5 DEF QuietInv

(* A call that begins holds nothing.                                       *)
LEMMA BeginKeepsQuiet ==
    ASSUME IInv, QuietInv, NEW p \in Procs, NEW k \in Keys, Compile(p, k) \/ Invalidate(p, k)
    PROVE  QuietInv'
<1>1. PICK op \in {"compile", "invalidate"}, to \in {"localGet", "dropLocal"} : Begin(p, op, k, to)
  BY DEF Compile, Invalidate
<1>2. /\ UNCHANGED <<clock, local, expiry, file, faults, gens, stamped, floor, quietFloor>>
      /\ pc[p] = "idle" /\ pc'[p] = to
      /\ reg'[p] = [Idle EXCEPT !.op = op, !.key = k, !.started = clock,
                                !.floor = floor[k], !.quietFloor = quietFloor[k],
                                !.alone = (\A q \in Procs : Busy(q) => key(q) # k)]
      /\ \A q \in Procs \ {p} :
             /\ pc'[q] = pc[q]
             /\ Busy(q) /\ key(q) = k => reg'[q] = [reg[q] EXCEPT !.alone = FALSE]
             /\ ~(Busy(q) /\ key(q) = k) => reg'[q] = reg[q]
  BY <1>1, BeginFrame, ZenonT(60)
<1>3. TiersNotOlder'
  BY <1>2 DEF QuietInv, TiersNotOlder, NotOlder, fileOf, pathForKey
<1>4. /\ reg'[p].program = None /\ reg'[p].quietFloor = quietFloor[k] /\ reg'[p].key = k
      /\ reg'[p].alone <=> \A q \in Procs : Busy(q) => key(q) # k
  BY <1>2 DEF Idle
<1>5. /\ \A q \in Procs : reg[q] \in Registers
      /\ quietFloor[k] \in Nat
  BY DEF IInv, TypeOK
<1>6. ASSUME NEW q \in Procs \ {p}
      PROVE  /\ reg'[q].program = reg[q].program /\ reg'[q].quietFloor = reg[q].quietFloor
             /\ reg'[q].op = reg[q].op /\ reg'[q].key = reg[q].key
             /\ reg'[q].alone => reg[q].alone /\ ~(Busy(q) /\ key(q) = k)
  <2>1. CASE Busy(q) /\ key(q) = k
    <3>1. reg'[q] = [reg[q] EXCEPT !.alone = FALSE]
      BY <1>2, <1>6, <2>1
    <3> QED BY <1>5, <1>6, <3>1 DEF Registers
  <2>2. CASE ~(Busy(q) /\ key(q) = k)
    <3>1. reg'[q] = reg[q]
      BY <1>2, <1>6, <2>2
    <3> QED BY <2>2, <3>1
  <2> QED BY <2>1, <2>2
<1>7. CallsNotOlder'
  <2> SUFFICES ASSUME NEW q \in Procs, Busy(q)'
               PROVE  /\ NotOlder(reg[q].program, key(q))'
                      /\ reg'[q].op = "invalidate" => reg'[q].program = None
                      /\ reg'[q].quietFloor <= quietFloor'[key(q)']
                      /\ reg'[q].alone => \A r \in Procs \ {q} : Busy(r)' => key(r)' # key(q)'
                      /\ reg'[q].alone /\ reg'[q].op = "invalidate" /\ pc'[q] \in {"dropExpiry", "remove"} =>
                             local'[key(q)'] = None
    BY DEF CallsNotOlder
  <2>1. CASE q = p
    <3>1. \A r \in Procs \ {p} : Busy(r)' = Busy(r) /\ key(r)' = key(r)
      BY <1>2, <1>6 DEF Busy, key
    <3>2. pc'[p] \notin {"dropExpiry", "remove"}
      BY <1>2
    <3>3. quietFloor' = quietFloor /\ key(p)' = k
      BY <1>2, <1>4 DEF key
    <3>4. reg'[p].alone => \A r \in Procs \ {p} : Busy(r)' => key(r)' # k
      BY <1>4, <3>1
    <3> QED BY <1>4, <1>5, <2>1, <3>2, <3>3, <3>4 DEF NotOlder
  <2>2. CASE q # p
    <3>1. /\ Busy(q) /\ key(q)' = key(q)
      BY <1>2, <1>6, <2>2 DEF Busy, key
    <3>2. /\ NotOlder(reg[q].program, key(q))
          /\ reg[q].op = "invalidate" => reg[q].program = None
          /\ reg[q].quietFloor <= quietFloor[key(q)]
          /\ reg[q].alone => \A r \in Procs \ {q} : Busy(r) => key(r) # key(q)
          /\ reg[q].alone /\ reg[q].op = "invalidate" /\ pc[q] \in {"dropExpiry", "remove"} =>
                 local[key(q)] = None
      BY <3>1 DEF QuietInv, CallsNotOlder
    <3>3. \A r \in Procs \ {q} : reg'[q].alone /\ Busy(r)' => key(r)' # key(q)
      <4>1. ASSUME NEW r \in Procs \ {q}, reg'[q].alone, Busy(r)' PROVE key(r)' # key(q)
        <5>1. CASE r = p
          BY <1>4, <1>6, <2>2, <3>1, <4>1, <5>1 DEF key
        <5>2. CASE r # p
          <6>1. Busy(r) /\ key(r)' = key(r) /\ reg[q].alone
            BY <1>2, <1>6, <2>2, <4>1, <5>2 DEF key, Busy
          <6> QED BY <3>2, <6>1, <4>1
        <5> QED BY <5>1, <5>2
      <4> QED BY <4>1
    <3> QED BY <1>2, <1>6, <2>2, <3>1, <3>2, <3>3 DEF NotOlder
  <2> QED BY <2>1, <2>2
<1> QED BY <1>2, <1>3, <1>7 DEF QuietInv

(* Every step of the system keeps it.                                      *)
LEMMA NextKeepsQuiet ==
    ASSUME LocalInvalidates PROVE IInv /\ QuietInv /\ [Next]_vars => QuietInv'
<1> SUFFICES ASSUME IInv, QuietInv, [Next]_vars PROVE QuietInv'
  OBVIOUS
<1> USE DEF QuietInv, TiersNotOlder, CallsNotOlder, NotOlder, fileOf, pathForKey, key, Busy, history
<1>1. ASSUME NEW p \in Procs, Step(p) PROVE QuietInv'
  BY <1>1, StepKeepsQuiet
<1>2. ASSUME NEW p \in Procs, NEW k \in Keys, Compile(p, k) \/ Invalidate(p, k) PROVE QuietInv'
  BY <1>2, BeginKeepsQuiet
<1>3. CASE Tick
  BY <1>3 DEF Tick
<1>4. CASE Crash
  BY <1>4 DEF Crash, Fault
<1>5. ASSUME NEW f \in Paths, Damage(f) PROVE QuietInv'
  <2>1. PICK c \in {Garbage, [file[f] EXCEPT !.kind = "unrestorable"]} :
            file' = [file EXCEPT ![f] = c]
    BY <1>5 DEF Damage
  <2>2. /\ file \in [Paths -> Files] /\ file[f] \in Files
        /\ UNCHANGED <<local, pc, reg, gens, quietFloor>> /\ faults' = faults + 1
    BY <1>5 DEF Damage, Fault, IInv, TypeOK
  <2>3. c.program \in {None, file[f].program}
    BY <2>1, <2>2 DEF Garbage, File, Files
  <2>4. \A j \in Keys : PathOf[j] \in Paths /\ file'[PathOf[j]].program \in {None, file[PathOf[j]].program}
    BY <2>1, <2>2, <2>3, PathAssumption
  <2> QED BY <2>2, <2>4
<1>6. CASE UNCHANGED vars
  BY <1>6 DEF vars
<1> QED BY <1>1, <1>2, <1>3, <1>4, <1>5, <1>6 DEF Next

(* Nothing is cached, and nothing was invalidated.                         *)
LEMMA InitQuiet == Init => QuietInv
BY PathAssumption
   DEF Init, QuietInv, TiersNotOlder, CallsNotOlder, NotOlder, fileOf, pathForKey, Busy, NoFile, File

(* persistent_cache.go, Invalidate: if the local cache can delete, what a  *)
(* call answers that began after a quiet Invalidate of its key returned    *)
(* was compiled after that Invalidate, through every interleaving of calls *)
(* on other keys, evictions, crashes and damaged files.                    *)
THEOREM QuietInvalidateSound == LocalInvalidates => (Spec => []QuietInvalidateHolds)
<1> SUFFICES ASSUME LocalInvalidates PROVE Spec => []QuietInvalidateHolds
  OBVIOUS
<1>1. Init => QuietInv
  BY InitQuiet
<1>2. IInv /\ QuietInv /\ [Next]_vars => QuietInv'
  BY NextKeepsQuiet
<1>3. IInv /\ QuietInv => QuietInvalidateHolds
  <2> SUFFICES ASSUME IInv, QuietInv, NEW p \in Procs, Served(p)
               PROVE  reg[p].program.gen >= reg[p].quietFloor
    BY DEF QuietInvalidateHolds
  <2>1. /\ key(p) \in Keys /\ quietFloor[key(p)] \in Nat /\ reg[p].quietFloor \in Nat
        /\ reg[p].program \in Programs
    BY DEF IInv, TypeOK, CallsHoldOwnProgram, OwnProgram, Served, Registers
  <2>2. reg[p].program # None /\ reg[p].program.gen \in Nat
    BY <2>1 DEF Programs, None
  <2>3. NotOlder(reg[p].program, key(p)) /\ reg[p].quietFloor <= quietFloor[key(p)]
    BY DEF QuietInv, CallsNotOlder, Busy, Served
  <2> QED BY <2>1, <2>2, <2>3 DEF NotOlder
<1> QED BY <1>1, <1>2, <1>3, Invariance, PTL DEF Spec

-----------------------------------------------------------------------------
(* Calls on one key that do not overlap                                    *)

(* A step of a call, for its own key.                                      *)
LEMMA OwnSerial ==
    ASSUME IInv, SerialInv, NEW p \in Procs, Step(p), NEW k, k = key(p)
    PROVE  /\ stamped' \in [Keys -> Int] /\ StampBounds(k)'
           /\ pc'[p] # "idle" => CallInv(p, k)'
           /\ pc'[p] = "idle" => Fresh(k)' /\ Agree(k)'
<1> DEFINE f == fileOf(k)
<1>0. TypeOK /\ CallsHoldOwnProgram /\ OthersStay(p) /\ StaysWith(p)
  BY StepFrame DEF IInv
<1>1. /\ pc \in [Procs -> Places] /\ reg \in [Procs -> Registers] /\ reg[p] \in Registers
      /\ pathForKey(k) \in Paths /\ k \in Keys /\ Busy(p) /\ local[k] \in Programs \cup {None}
      /\ file \in [Paths -> Files] /\ f \in Files /\ clock \in Nat /\ faults \in Nat
      /\ expiry \in [Keys -> Nat \cup {Never}] /\ floor \in [Keys -> Nat] /\ quietFloor \in [Keys -> Nat]
      /\ local \in [Keys -> Programs \cup {None}]
  BY <1>0, PathAssumption DEF TypeOK, pathForKey, StaysWith, fileOf, SerialInv
<1>2. CallInv(p, k) /\ StampBounds(k) /\ stamped \in [Keys -> Int]
  BY <1>1 DEF SerialInv
<1>3. TTL \in Nat /\ TTL > 0
  BY BoundAssumption
<1>4. None \notin Programs
  BY DEF None, Programs
<1> USE <1>1, <1>2, <1>3, <1>4
    DEF Goto, history, fileOf, key, Registers, CallInv, StampBounds, Fresh, Agree, Never, Files
<1>5. CASE LocalGet(p)
  BY <1>5 DEF LocalGet
<1>6. CASE CheckLocal(p)
  BY <1>6 DEF CheckLocal, expired
<1>7. CASE DropLocal(p)
  BY <1>7 DEF DropLocal
<1>8. CASE DropExpiry(p)
  BY <1>8 DEF DropExpiry
<1>9. CASE Load(p)
  <2> DEFINE entry == f.kind \in {"entry", "unrestorable"}
  <2>1. /\ pc[p] = "load" /\ pc'[p] = IF entry THEN "checkEntry" ELSE "miss"
        /\ UNCHANGED <<clock, local, expiry, file, faults, stamped, floor, quietFloor>>
    BY <1>9 DEF Load
  <2>2. reg'[p] = [reg[p] EXCEPT !.program = IF entry THEN f.program ELSE None,
                                 !.expires = f.expires, !.restorable = f.kind # "unrestorable"]
    BY <1>9 DEF Load
  <2>3. /\ reg'[p].program = IF entry THEN f.program ELSE None
        /\ reg'[p].expires = f.expires /\ reg'[p].alone = reg[p].alone
        /\ reg'[p].floor = reg[p].floor /\ reg'[p].quietFloor = reg[p].quietFloor
        /\ reg'[p].started = reg[p].started /\ reg'[p].answer = reg[p].answer
    BY <2>2
  <2> QED BY <2>1, <2>3
<1>10. CASE LoadFails(p)
  BY <1>10 DEF LoadFails, Fault
<1>11. CASE CheckEntry(p)
  BY <1>11 DEF CheckEntry, expired
<1>12. CASE RemoveStale(p)
  BY <1>12 DEF RemoveStale, StoreDelete, NoFile, File, None, Fault
<1>13. CASE FillLocal(p)
  <2>1. reg[p].program \in Programs
    BY <1>0, <1>13 DEF FillLocal, CallsHoldOwnProgram, HoldsProgram, OwnProgram
  <2>2. local'[k] = reg[p].program
    BY <1>0, <1>13, <2>1, LocalWithSets DEF FillLocal
  <2> QED BY <1>13, <2>1, <2>2 DEF FillLocal
<1>14. CASE FillExpiry(p)
  BY <1>14 DEF FillExpiry
<1>15. CASE CompileMiss(p)
  <2>1. CASE k \in Compilable
    <3>1. /\ pc[p] = "miss" /\ pc'[p] = "setLocal"
          /\ UNCHANGED <<clock, local, expiry, file, faults, stamped, floor, quietFloor>>
          /\ reg'[p] = [reg[p] EXCEPT !.program = Program(k, gens + 1)]
      BY <1>15, <2>1 DEF CompileMiss
    <3> QED BY <3>1
  <2>2. CASE k \notin Compilable
    <3>1. /\ pc[p] = "miss" /\ pc'[p] = "done"
          /\ UNCHANGED <<clock, local, expiry, file, faults, stamped, floor, quietFloor>>
          /\ reg'[p] = [reg[p] EXCEPT !.answer = "error"]
      BY <1>15, <2>2 DEF CompileMiss
    <3> QED BY <3>1
  <2> QED BY <2>1, <2>2
<1>16. CASE SetLocal(p)
  <2>1. reg[p].program \in Programs
    BY <1>0, <1>16 DEF SetLocal, CallsHoldOwnProgram, HoldsProgram, OwnProgram
  <2>2. local'[k] = reg[p].program
    BY <1>0, <1>16, <2>1, LocalWithSets DEF SetLocal
  <2> QED BY <1>16, <2>1, <2>2 DEF SetLocal
<1>17. CASE Stamp(p)
  BY <1>17 DEF Stamp
<1>18. CASE SetExpiry(p)
  BY <1>18 DEF SetExpiry
<1>19. CASE SaveOpen(p)
  BY <1>19 DEF SaveOpen, File, Garbage
<1>20. CASE SaveWrite(p)
  BY <1>20 DEF SaveWrite, File, Garbage, Fault
<1>21. CASE SaveFails(p)
  BY <1>21 DEF SaveFails, Fault
<1>22. CASE Remove(p)
  BY <1>22 DEF Remove, StoreDelete, NoFile, File, None, Fault
<1>23. CASE Return(p)
  BY <1>23 DEF Return
<1> QED BY <1>5, <1>6, <1>7, <1>8, <1>9, <1>10, <1>11, <1>12, <1>13, <1>14, <1>15, <1>16, <1>17,
           <1>18, <1>19, <1>20, <1>21, <1>22, <1>23 DEF Step

(* What others may do to a key: its program is evicted, its file damaged.  *)
KeyStays(j) ==
    /\ local'[j] \in {local[j], None} /\ expiry'[j] = expiry[j]
    /\ \/ fileOf(j)' = fileOf(j)
       \/ fileOf(j)'.kind = "garbage" /\ fileOf(j)'.expires = Never
       \/ /\ fileOf(j)'.kind = "unrestorable" /\ fileOf(j)'.expires = fileOf(j).expires
          /\ fileOf(j).kind = "entry"
    /\ stamped'[j] = stamped[j] /\ floor'[j] = floor[j] /\ quietFloor'[j] = quietFloor[j]

TimeGoesOn ==
    /\ clock \in Nat /\ clock' \in Nat /\ clock' >= clock
    /\ faults \in Nat /\ faults' \in Nat /\ faults' >= faults

(* That is nothing a call on the key minds.                                *)
LEMMA KeyKept ==
    ASSUME IInv, SerialInv, NEW j \in Keys, KeyStays(j), TimeGoesOn
    PROVE  /\ StampBounds(j)'
           /\ Fresh(j) => Fresh(j)'
           /\ Agree(j) => Agree(j)'
           /\ \A q \in Procs : CallInv(q, j) /\ pc'[q] = pc[q] /\ reg'[q] = reg[q] => CallInv(q, j)'
<1>1. /\ StampBounds(j) /\ TTL \in Nat /\ stamped[j] \in Int /\ stamped'[j] \in Int
      /\ expiry[j] \in Nat \cup {Never}
  BY BoundAssumption DEF SerialInv, IInv, TypeOK, KeyStays
<1>2. \A q \in Procs : reg[q].started \in Nat /\ reg[q].expires \in Nat \cup {Never}
  BY DEF IInv, TypeOK, Registers
<1>3. StampBounds(j)'
  BY <1>1 DEF KeyStays, TimeGoesOn, StampBounds, Never
<1>4. Fresh(j) => Fresh(j)'
  BY DEF KeyStays, Fresh
<1>5. Agree(j) => Agree(j)'
  BY DEF KeyStays, TimeGoesOn, Agree
<1>6. ASSUME NEW q \in Procs, CallInv(q, j), pc'[q] = pc[q], reg'[q] = reg[q] PROVE CallInv(q, j)'
  <2>1. /\ fileOf(j)'.kind = "entry" => fileOf(j)' = fileOf(j)
        /\ faults' = 0 => faults = 0
        /\ fileOf(j).kind # "entry" => fileOf(j)'.kind # "entry"
        /\ local'[j] \in {local[j], None} /\ expiry'[j] = expiry[j] /\ stamped'[j] = stamped[j]
    BY DEF KeyStays, TimeGoesOn
  <2>2. reg[q].started <= clock'
    BY <1>2, <1>6 DEF CallInv, TimeGoesOn
  <2> QED BY <1>4, <1>5, <1>6, <2>1, <2>2 DEF CallInv
<1> QED BY <1>3, <1>4, <1>5, <1>6

(* A step of a call, for all keys.                                         *)
LEMMA StepKeepsSerial ==
    ASSUME IInv, SerialInv, NoOverlap, NEW p \in Procs, Step(p)
    PROVE  SerialInv'
<1>0. PICK k : k = key(p)
  OBVIOUS
<1>1. OthersStay(p) /\ StaysWith(p)
  BY StepFrame
<1>2. /\ stamped' \in [Keys -> Int] /\ StampBounds(k)'
      /\ pc'[p] # "idle" => CallInv(p, k)'
      /\ pc'[p] = "idle" => Fresh(k)' /\ Agree(k)'
  BY <1>0, OwnSerial
<1>3. /\ TimeGoesOn /\ k \in Keys /\ Busy(p) /\ (pc'[p] # "idle" => key(p)' = k)
      /\ \A q \in Procs : Busy(q) => key(q) \in Keys
  BY <1>0, <1>1 DEF IInv, TypeOK, StaysWith, TimeGoesOn, SerialInv, Busy
<1>4. \A j \in Keys \ {k} : KeyStays(j)
  BY <1>0, <1>1 DEF OthersStay, KeyStays, fileOf, pathForKey
<1>5. \A q \in Procs \ {p} : /\ pc'[q] = pc[q] /\ reg'[q] = reg[q] /\ key(q)' = key(q)
                             /\ Busy(q)' = Busy(q) /\ (Busy(q) => key(q) # k)
  BY <1>0, <1>1, <1>3 DEF OthersStay, Busy, key, NoOverlap
<1>6. \A j \in Keys : StampBounds(j)'
  BY <1>2, <1>3, <1>4, KeyKept
<1>7. RestInv'
  <2> SUFFICES ASSUME NEW j \in Keys, \A q \in Procs : Busy(q)' => key(q)' # j
               PROVE  Fresh(j)' /\ Agree(j)'
    BY DEF RestInv
  <2>1. CASE j = k
    BY <1>2, <1>3, <2>1 DEF Busy
  <2>2. CASE j # k
    <3>1. \A q \in Procs : Busy(q) => key(q) # j
      BY <1>0, <1>5, <2>2
    <3>2. Fresh(j) /\ Agree(j)
      BY <3>1 DEF SerialInv, RestInv
    <3> QED BY <1>3, <1>4, <2>2, <3>2, KeyKept
  <2> QED BY <2>1, <2>2
<1>8. ASSUME NEW q \in Procs, Busy(q)' PROVE CallInv(q, key(q))'
  <2>1. CASE q = p
    <3>1. key(p)' = k /\ CallInv(p, k)'
      BY <1>2, <1>3, <1>8, <2>1 DEF Busy
    <3> QED BY <2>1, <3>1 DEF CallInv, StampBounds, Fresh, Agree, fileOf, pathForKey
  <2>2. CASE q # p
    <3>1. PICK j : j = key(q)
      OBVIOUS
    <3>2. /\ j \in Keys /\ j # k /\ key(q)' = j /\ CallInv(q, j) /\ pc'[q] = pc[q] /\ reg'[q] = reg[q]
      BY <1>3, <1>5, <1>8, <2>2, <3>1 DEF SerialInv
    <3>3. CallInv(q, j)'
      BY <1>3, <1>4, <3>2, KeyKept
    <3> QED BY <3>2, <3>3 DEF CallInv, StampBounds, Fresh, Agree, fileOf, pathForKey
  <2> QED BY <2>1, <2>2
<1> QED BY <1>2, <1>3, <1>6, <1>7, <1>8 DEF SerialInv, TimeGoesOn

(* A call begins on a key that no other call is on.                        *)
LEMMA BeginKeepsSerial ==
    ASSUME IInv, SerialInv, NoOverlap', NEW p \in Procs, NEW k \in Keys, Compile(p, k) \/ Invalidate(p, k)
    PROVE  SerialInv'
<1>1. PICK op \in {"compile", "invalidate"}, to \in {"localGet", "dropLocal"} : Begin(p, op, k, to)
  BY DEF Compile, Invalidate
<1>2. /\ UNCHANGED <<clock, local, expiry, file, faults, gens, stamped, floor, quietFloor>>
      /\ pc[p] = "idle" /\ pc'[p] = to
      /\ reg'[p] = [Idle EXCEPT !.op = op, !.key = k, !.started = clock,
                                !.floor = floor[k], !.quietFloor = quietFloor[k],
                                !.alone = (\A q \in Procs : Busy(q) => key(q) # k)]
      /\ \A q \in Procs \ {p} :
             /\ pc'[q] = pc[q]
             /\ Busy(q) /\ key(q) = k => reg'[q] = [reg[q] EXCEPT !.alone = FALSE]
             /\ ~(Busy(q) /\ key(q) = k) => reg'[q] = reg[q]
  BY <1>1, BeginFrame, ZenonT(60)
<1>3. /\ reg'[p].key = k /\ reg'[p].started = clock /\ reg'[p].expires = Never
      /\ reg'[p].floor = floor[k] /\ reg'[p].quietFloor = quietFloor[k] /\ reg'[p].answer = "none"
      /\ reg'[p].alone <=> \A q \in Procs : Busy(q) => key(q) # k
  BY <1>2 DEF Idle
<1>4. \A q \in Procs \ {p} : Busy(q) => key(q) # k
  <2> SUFFICES ASSUME NEW q \in Procs \ {p}, Busy(q), key(q) = k PROVE FALSE
    OBVIOUS
  <2>1. reg'[q] = [reg[q] EXCEPT !.alone = FALSE] /\ reg[q] \in Registers
    BY <1>2 DEF IInv, TypeOK
  <2>2. key(q)' = k /\ Busy(q)'
    BY <1>2, <2>1 DEF key, Busy, Registers
  <2>3. key(p)' = k /\ Busy(p)'
    BY <1>2, <1>3 DEF key, Busy
  <2> QED BY <2>2, <2>3 DEF NoOverlap
<1>5. /\ TimeGoesOn
      /\ \A j \in Keys : KeyStays(j)
  BY <1>2 DEF IInv, TypeOK, SerialInv, TimeGoesOn, KeyStays, fileOf, pathForKey
<1>6. \A q \in Procs \ {p} : /\ pc'[q] = pc[q] /\ reg'[q] = reg[q] /\ key(q)' = key(q)
                             /\ Busy(q)' = Busy(q)
  BY <1>2, <1>4 DEF Busy, key
<1>7. ~Busy(p)
  BY <1>2 DEF Busy
<1>8. RestInv'
  <2> SUFFICES ASSUME NEW j \in Keys, \A q \in Procs : Busy(q)' => key(q)' # j
               PROVE  Fresh(j)' /\ Agree(j)'
    BY DEF RestInv
  <2>1. \A q \in Procs : Busy(q) => key(q) # j
    BY <1>6, <1>7
  <2>2. Fresh(j) /\ Agree(j)
    BY <2>1 DEF SerialInv, RestInv
  <2> QED BY <1>5, <2>2, KeyKept
<1>9. CallInv(p, k)'
  <2>1. Fresh(k)' /\ Agree(k)'
    <3>1. Fresh(k) /\ Agree(k)
      BY <1>4, <1>7 DEF SerialInv, RestInv
    <3> QED BY <1>5, <3>1, KeyKept
  <2>2. reg'[p].alone
    BY <1>3, <1>4, <1>7
  <2>3. StampBounds(k)' /\ clock \in Nat /\ TTL \in Nat /\ stamped[k] \in Int /\ StampBounds(k)
    BY <1>5, KeyKept, BoundAssumption DEF IInv, TypeOK, SerialInv
  <2>4. Never <= stamped[k] + TTL
    BY <2>3 DEF StampBounds, Never
  <2>5. clock <= clock
    BY <2>3
  <2> QED BY <1>2, <1>3, <2>1, <2>2, <2>3, <2>4, <2>5 DEF CallInv, StampBounds
<1>10. ASSUME NEW q \in Procs, Busy(q)' PROVE CallInv(q, key(q))'
  <2>1. CASE q = p
    <3>1. key(p)' = k
      BY <1>3 DEF key
    <3> QED BY <1>9, <2>1, <3>1 DEF CallInv, StampBounds, Fresh, Agree, fileOf, pathForKey
  <2>2. CASE q # p
    <3>1. PICK j : j = key(q)
      OBVIOUS
    <3>2. /\ j \in Keys /\ key(q)' = j /\ CallInv(q, j) /\ pc'[q] = pc[q] /\ reg'[q] = reg[q]
      BY <1>6, <1>10, <2>2, <3>1 DEF SerialInv, IInv, TypeOK, Busy
    <3>3. CallInv(q, j)'
      BY <1>5, <3>2, KeyKept
    <3> QED BY <3>2, <3>3 DEF CallInv, StampBounds, Fresh, Agree, fileOf, pathForKey
  <2> QED BY <2>1, <2>2
<1>11. \A j \in Keys : StampBounds(j)'
  BY <1>5, KeyKept
<1> QED BY <1>2, <1>5, <1>8, <1>10, <1>11 DEF SerialInv, TimeGoesOn

(* Where no call moves, nothing is minded either.                          *)
LEMMA EnvironmentKeepsSerial ==
    ASSUME IInv, SerialInv, TimeGoesOn, \A j \in Keys : KeyStays(j),
           UNCHANGED <<pc, reg, stamped>>
    PROVE  SerialInv'
<1>1. \A j \in Keys : StampBounds(j)'
  BY KeyKept
<1>2. RestInv'
  <2> SUFFICES ASSUME NEW j \in Keys, \A q \in Procs : Busy(q)' => key(q)' # j
               PROVE  Fresh(j)' /\ Agree(j)'
    BY DEF RestInv
  <2>1. Fresh(j) /\ Agree(j)
    BY DEF SerialInv, RestInv, Busy, key
  <2> QED BY <2>1, KeyKept
<1>3. ASSUME NEW q \in Procs, Busy(q)' PROVE CallInv(q, key(q))'
  <2>1. PICK j : j = key(q)
    OBVIOUS
  <2>2. j \in Keys /\ key(q)' = j /\ CallInv(q, j) /\ pc'[q] = pc[q] /\ reg'[q] = reg[q]
    BY <1>3, <2>1 DEF SerialInv, IInv, TypeOK, Busy, key
  <2>3. CallInv(q, j)'
    BY <2>2, KeyKept
  <2> QED BY <2>2, <2>3 DEF CallInv, StampBounds, Fresh, Agree, fileOf, pathForKey
<1> QED BY <1>1, <1>2, <1>3 DEF SerialInv, TimeGoesOn

(* Every step of the system that lets no calls on one key overlap.         *)
LEMMA NextKeepsSerial ==
    IInv /\ SerialInv /\ NoOverlap /\ NoOverlap' /\ [Next]_vars => SerialInv'
<1> SUFFICES ASSUME IInv, SerialInv, NoOverlap, NoOverlap', [Next]_vars PROVE SerialInv'
  OBVIOUS
<1>0. clock \in Nat /\ faults \in Nat
  BY DEF IInv, TypeOK, SerialInv
<1>1. ASSUME NEW p \in Procs, Step(p) PROVE SerialInv'
  BY <1>1, StepKeepsSerial
<1>2. ASSUME NEW p \in Procs, NEW k \in Keys, Compile(p, k) \/ Invalidate(p, k) PROVE SerialInv'
  BY <1>2, BeginKeepsSerial
<1>3. CASE Tick
  <2>1. TimeGoesOn /\ (\A j \in Keys : KeyStays(j)) /\ UNCHANGED <<pc, reg, stamped>>
    BY <1>0, <1>3 DEF Tick, TimeGoesOn, KeyStays, history, fileOf, pathForKey
  <2> QED BY <2>1, EnvironmentKeepsSerial
<1>4. CASE Crash
  <2>1. /\ UNCHANGED <<clock, file, stamped, floor, quietFloor>> /\ faults' \in Nat
        /\ \A k \in Keys : local'[k] = None /\ expiry'[k] = Never
        /\ \A q \in Procs : pc'[q] = "idle"
    BY <1>0, <1>4 DEF Crash, Fault, history
  <2>2. \A k \in Keys : Fresh(k)' /\ Agree(k)'
    BY <2>1 DEF Fresh, Agree
  <2>3. ASSUME NEW k \in Keys PROVE StampBounds(k)'
    <3>1. StampBounds(k) /\ stamped[k] \in Int /\ TTL \in Nat
      BY BoundAssumption DEF SerialInv
    <3> QED BY <2>1, <3>1 DEF StampBounds, fileOf, pathForKey, Never
  <2> QED BY <2>1, <2>2, <2>3 DEF SerialInv, RestInv, Busy
<1>5. ASSUME NEW f \in Paths, Damage(f) PROVE SerialInv'
  <2>1. PICK c \in {Garbage, [file[f] EXCEPT !.kind = "unrestorable"]} :
            file' = [file EXCEPT ![f] = c]
    BY <1>5 DEF Damage
  <2>2. /\ file \in [Paths -> Files] /\ file[f] \in Files /\ file[f].kind = "entry"
        /\ UNCHANGED <<clock, local, expiry, pc, reg, stamped, floor, quietFloor>> /\ faults' = faults + 1
    BY <1>5 DEF Damage, Fault, IInv, TypeOK, history
  <2>3. \/ c.kind = "garbage" /\ c.expires = Never
        \/ c.kind = "unrestorable" /\ c.expires = file[f].expires
    BY <2>1, <2>2 DEF Garbage, File, Files
  <2>4. ASSUME NEW j \in Keys PROVE KeyStays(j)
    <3>1. CASE PathOf[j] = f
      BY <2>1, <2>2, <2>3, <3>1 DEF KeyStays, fileOf, pathForKey
    <3>2. CASE PathOf[j] # f
      BY <2>1, <2>2, <3>2, PathAssumption DEF KeyStays, fileOf, pathForKey
    <3> QED BY <3>1, <3>2
  <2>5. TimeGoesOn
    BY <1>0, <2>2 DEF TimeGoesOn
  <2> QED BY <2>2, <2>4, <2>5, EnvironmentKeepsSerial
<1>6. CASE UNCHANGED vars
  <2>1. TimeGoesOn /\ (\A j \in Keys : KeyStays(j)) /\ UNCHANGED <<pc, reg, stamped>>
    BY <1>0, <1>6 DEF vars, TimeGoesOn, KeyStays, fileOf, pathForKey
  <2> QED BY <2>1, EnvironmentKeepsSerial
<1> QED BY <1>1, <1>2, <1>3, <1>4, <1>5, <1>6 DEF Next

(* Nothing is cached.                                                      *)
LEMMA InitSerial == Init => SerialInv
<1> SUFFICES ASSUME Init PROVE SerialInv
  OBVIOUS
<1>1. TTL \in Nat /\ \A k \in Keys : pathForKey(k) \in Paths
  BY BoundAssumption, PathAssumption DEF pathForKey
<1>2. ASSUME NEW k \in Keys PROVE StampBounds(k)
  BY <1>1 DEF Init, StampBounds, fileOf, NoFile, File, Never
<1>3. stamped \in [Keys -> Int]
  BY <1>1 DEF Init
<1> QED BY <1>2, <1>3 DEF Init, SerialInv, RestInv, Busy, Fresh, Agree

(* So it holds in every state of a behaviour without such overlaps.        *)
LEMMA SerialInvHolds == Spec /\ []NoOverlap => []SerialInv
BY InitSerial, NextKeepsSerial, Invariance, PTL DEF Spec

-----------------------------------------------------------------------------
(* persistent_cache.go, Get: where calls on one key do not overlap, and    *)
(* the local cache can delete, no program is served once TTL has passed    *)
(* since its key was last Set, through evictions by calls on other keys,   *)
(* crashes and damaged files.                                              *)
THEOREM TtlBounds ==
    LocalInvalidates => (Spec /\ []NoOverlap => []TtlBoundsService)
<1> SUFFICES ASSUME LocalInvalidates PROVE Spec /\ []NoOverlap => []TtlBoundsService
  OBVIOUS
<1>1. SerialInv => TtlBoundsService
  BY DEF SerialInv, CallInv, TtlBoundsService, Served, Busy
<1> QED BY <1>1, SerialInvHolds, PTL

(* persistent_cache.go, Invalidate: the same, of a program that was        *)
(* compiled before an Invalidate of its key returned.                      *)
THEOREM InvalidatedIsGone ==
    LocalInvalidates => (Spec /\ []NoOverlap => []ServesNothingInvalidated)
<1> SUFFICES ASSUME LocalInvalidates PROVE Spec /\ []NoOverlap => []ServesNothingInvalidated
  OBVIOUS
<1>1. SerialInv /\ QuietInvalidateHolds => ServesNothingInvalidated
  BY DEF SerialInv, CallInv, ServesNothingInvalidated, QuietInvalidateHolds, Served, Busy
<1>2. Spec => []QuietInvalidateHolds
  BY QuietInvalidateSound
<1> QED BY <1>1, <1>2, SerialInvHolds, PTL

(* persistent_cache.go, Set and Get: where calls on one key do not overlap *)
(* and nothing fails, the tiers agree whenever no call is in progress.     *)
THEOREM TiersAgreeHolds == Spec /\ []NoOverlap => []TiersAgree
<1>1. SerialInv => TiersAgree
  BY DEF SerialInv, RestInv, Agree, TiersAgree, Busy, fileOf
<1> QED BY <1>1, SerialInvHolds, PTL

(* One goroutine, as in the runs that check the three.                     *)
THEOREM OneGoroutineIsFresh ==
    ASSUME \A p, q \in Procs : p = q, LocalInvalidates
    PROVE  Spec => [](TtlBoundsService /\ ServesNothingInvalidated /\ TiersAgree)
<1>1. IInv => NoOverlap
  BY DEF NoOverlap
<1>2. Spec => []NoOverlap
  BY <1>1, Invariance, PTL
<1>3. Spec /\ []NoOverlap => []TtlBoundsService
  BY TtlBounds
<1>4. Spec /\ []NoOverlap => []ServesNothingInvalidated
  BY InvalidatedIsGone
<1> QED BY <1>2, <1>3, <1>4, TiersAgreeHolds, PTL
=============================================================================
