----------------------- MODULE PersistentCacheProofs -----------------------
(***************************************************************************)
(* What holds of the program cache for all keys, goroutines, lifetimes and *)
(* faults.                                                                 *)
(***************************************************************************)
EXTENDS PersistentCache, TLAPS

(* TiersHoldOwnProgram alone is not inductive: a call carries a program    *)
(* from one tier to the other in its local variables, under no lock.       *)
IInv ==
    /\ TypeOK
    /\ TiersHoldOwnProgram
    /\ CallsHoldOwnProgram
    /\ FilesHoldPrograms

(* Empty tiers and idle goroutines satisfy it.                             *)
THEOREM InitEstablishesIInv == Init => IInv
<1> SUFFICES ASSUME Init PROVE IInv
  OBVIOUS
<1>1. TypeOK
  BY DEF Init, TypeOK, Idle, Registers, None, Never, NoFile, File, Files, Places
<1>2. TiersHoldOwnProgram /\ FilesHoldPrograms
  BY PathAssumption DEF Init, TiersHoldOwnProgram, FilesHoldPrograms, IsFor, NoFile, File,
     pathForKey
<1>3. CallsHoldOwnProgram
  BY DEF Init, CallsHoldOwnProgram, HoldsProgram, OfCompile
<1> QED BY <1>1, <1>2, <1>3 DEF IInv

(* local.Set stores the program and evicts at most others.                 *)
LEMMA LocalWithLemma ==
    ASSUME TypeOK, TiersHoldOwnProgram, NEW k \in Keys, NEW program \in Programs,
           program.source = k, NEW l \in LocalWith(k, program)
    PROVE  /\ l \in [Keys -> Programs \cup {None}]
           /\ \A j \in Keys : IsFor(l[j], j)
BY DEF LocalWith, Local!With, TypeOK, TiersHoldOwnProgram, IsFor

(* The contents c of the file of one key replaced.                         *)
LEMMA FileWithLemma ==
    ASSUME IInv, NEW k \in Keys, NEW c \in Files, IsFor(c.program, k),
           c.kind \in {"entry", "unrestorable"} => c.program \in Programs,
           file' \in {file, [file EXCEPT ![pathForKey(k)] = c]}, UNCHANGED local
    PROVE  file' \in [Paths -> Files] /\ TiersHoldOwnProgram' /\ FilesHoldPrograms'
<1> USE DEF IInv
<1>1. pathForKey(k) \in Paths /\ file \in [Paths -> Files]
  BY PathAssumption DEF TypeOK, pathForKey
<1>2. file' \in [Paths -> Files] /\ FilesHoldPrograms'
  BY <1>1 DEF FilesHoldPrograms
<1>3. ASSUME NEW j \in Keys PROVE IsFor(local'[j], j) /\ IsFor(file'[pathForKey(j)].program, j)
  <2>1. pathForKey(j) \in Paths /\ (pathForKey(j) = pathForKey(k) => j = k)
    BY PathAssumption DEF pathForKey
  <2>2. CASE file' = file
    BY <2>2 DEF TiersHoldOwnProgram, IsFor
  <2>3. CASE file' = [file EXCEPT ![pathForKey(k)] = c]
    <3>1. file'[pathForKey(j)] = IF j = k THEN c ELSE file[pathForKey(j)]
      BY <1>1, <2>1, <2>3
    <3> QED BY <3>1 DEF TiersHoldOwnProgram, IsFor
  <2> QED BY <2>2, <2>3
<1> QED BY <1>2, <1>3 DEF TiersHoldOwnProgram, IsFor, pathForKey

(* A step that touches neither tier.                                       *)
LEMMA TiersKept ==
    ASSUME IInv, UNCHANGED <<local, file>> PROVE TiersHoldOwnProgram' /\ FilesHoldPrograms'
BY DEF IInv, TiersHoldOwnProgram, FilesHoldPrograms, IsFor, pathForKey

-----------------------------------------------------------------------------
(* Each step of a call, in the order the call takes them.                  *)
LEMMA StepKeepsIInv ==
    ASSUME IInv, NEW p \in Procs, Step(p) PROVE IInv'
<1> USE DEF IInv, Goto, key, history
<1>1. CASE LocalGet(p)
  <2> USE <1>1 DEF LocalGet
  <2>1. key(p) \in Keys /\ pc[p] = "localGet"
    BY DEF TypeOK
  <2>2. TypeOK'
    BY SMTT(30), <2>1, BoundAssumption DEF TypeOK, Registers, Places
  <2>3. CallsHoldOwnProgram'
    BY <2>1, KeyAssumption DEF TiersHoldOwnProgram, IsFor, CallsHoldOwnProgram, HoldsProgram,
       OfCompile, OwnProgram, TypeOK
  <2> QED BY <2>2, <2>3, TiersKept
<1>2. CASE CheckLocal(p)
  <2> USE <1>2 DEF CheckLocal
  <2>1. key(p) \in Keys /\ pc[p] = "checkLocal"
    BY DEF TypeOK
  <2>2. TypeOK'
    BY SMTT(30), <2>1, BoundAssumption DEF TypeOK, Registers, Places
  <2>3. CallsHoldOwnProgram'
    BY <2>1, KeyAssumption DEF CallsHoldOwnProgram, HoldsProgram, OfCompile, OwnProgram, TypeOK
  <2> QED BY <2>2, <2>3, TiersKept
<1>3. CASE DropLocal(p)
  <2> USE <1>3 DEF DropLocal
  <2>1. key(p) \in Keys /\ pc[p] = "dropLocal"
    BY DEF TypeOK
  <2>2. TypeOK'
    BY <2>1, BoundAssumption DEF TypeOK, Registers, Places
  <2>3. CallsHoldOwnProgram'
    BY <2>1, KeyAssumption DEF CallsHoldOwnProgram, HoldsProgram, OfCompile, OwnProgram, TypeOK
  <2>4. TiersHoldOwnProgram' /\ FilesHoldPrograms'
    BY DEF TiersHoldOwnProgram, FilesHoldPrograms, IsFor, pathForKey, TypeOK
  <2> QED BY <2>2, <2>3, <2>4
<1>4. CASE DropExpiry(p)
  <2> USE <1>4 DEF DropExpiry
  <2>1. key(p) \in Keys /\ pc[p] = "dropExpiry"
    BY DEF TypeOK
  <2>2. TypeOK'
    BY <2>1, BoundAssumption DEF TypeOK, Registers, Places
  <2>3. CallsHoldOwnProgram'
    BY <2>1, KeyAssumption DEF CallsHoldOwnProgram, HoldsProgram, OfCompile, OwnProgram, TypeOK,
       Registers
  <2> QED BY <2>2, <2>3, TiersKept
<1>5. CASE Load(p)
  <2> DEFINE found == file[pathForKey(key(p))]
             entry == found.kind \in {"entry", "unrestorable"}
  <2>1. key(p) \in Keys /\ pc[p] = "load" /\ pathForKey(key(p)) \in Paths
    BY <1>5, PathAssumption DEF Load, TypeOK, pathForKey
  <2>2. found \in Files /\ (entry => found.program \in Programs /\ found.program.source = key(p))
    BY <2>1 DEF Programs, TypeOK, TiersHoldOwnProgram, FilesHoldPrograms, IsFor, None
  <2>3. /\ pc' = [pc EXCEPT ![p] = IF entry THEN "checkEntry" ELSE "miss"]
        /\ reg' = [reg EXCEPT ![p].program = IF entry THEN found.program ELSE None,
                              ![p].expires = found.expires,
                              ![p].restorable = found.kind # "unrestorable"]
        /\ UNCHANGED <<clock, local, expiry, file, ops, faults, history>>
    BY <1>5 DEF Load
  <2>4. /\ (IF entry THEN found.program ELSE None) \in Programs \cup {None}
        /\ found.expires \in Nat \cup {Never} /\ (found.kind # "unrestorable") \in BOOLEAN
    BY <2>2 DEF Files
  <2> HIDE DEF found, entry
  <2> DEFINE held == IF entry THEN found.program ELSE None
             restorable == found.kind # "unrestorable"
             r == [reg[p] EXCEPT !.program = held, !.expires = found.expires, !.restorable = restorable]
  <2>5. TypeOK'
    <3>1. ASSUME NEW x \in Registers, NEW b \in BOOLEAN, NEW q \in Programs \cup {None},
                 NEW e \in Nat \cup {Never}
          PROVE  /\ [x EXCEPT !.program = q, !.expires = e, !.restorable = b] \in Registers
                 /\ [x EXCEPT !.program = q, !.expires = e, !.restorable = b].key = x.key
      BY DEF Registers
    <3>2. reg[p] \in Registers
      BY DEF TypeOK
    <3>3. r \in Registers /\ r.key = reg[p].key
      <4>1. held \in Programs \cup {None} /\ restorable \in BOOLEAN /\ found.expires \in Nat \cup {Never}
        BY <2>4
      <4> HIDE DEF held, restorable
      <4>2. \A x \in Registers, b \in BOOLEAN, q \in Programs \cup {None}, e \in Nat \cup {Never} :
               /\ [x EXCEPT !.program = q, !.expires = e, !.restorable = b] \in Registers
               /\ [x EXCEPT !.program = q, !.expires = e, !.restorable = b].key = x.key
        BY <3>1
      <4>3. \A b \in BOOLEAN, q \in Programs \cup {None}, e \in Nat \cup {Never} :
               /\ [reg[p] EXCEPT !.program = q, !.expires = e, !.restorable = b] \in Registers
               /\ [reg[p] EXCEPT !.program = q, !.expires = e, !.restorable = b].key = reg[p].key
        BY <4>2, <3>2
      <4> QED BY <4>1, <4>3
    <3>4. reg' = [reg EXCEPT ![p] = r]
      BY <2>3
    <3> HIDE DEF r
    <3>5. reg' \in [Procs -> Registers] /\ \A q \in Procs : reg'[q].key = reg[q].key
      BY <3>3, <3>4 DEF TypeOK
    <3>6. pc' \in [Procs -> Places] /\ \A q \in Procs : pc'[q] # "idle" => pc[q] # "idle"
      BY <2>1, <2>3 DEF TypeOK, Places
    <3>7. UNCHANGED <<clock, local, expiry, file, gens, floor, quietFloor>>
      BY <2>3
    <3> QED BY <3>5, <3>6, <3>7 DEF TypeOK
  <2>6. TiersHoldOwnProgram' /\ FilesHoldPrograms'
    BY <2>3 DEF TiersHoldOwnProgram, FilesHoldPrograms, IsFor, pathForKey
  <2>7. CallsHoldOwnProgram'
    BY <2>1, <2>2, <2>3 DEF CallsHoldOwnProgram, HoldsProgram, OfCompile, OwnProgram, TypeOK, entry
  <2> QED BY <2>5, <2>6, <2>7
<1>6. CASE LoadFails(p)
  <2> USE <1>6 DEF LoadFails, Fault
  <2>1. key(p) \in Keys /\ pc[p] = "load"
    BY DEF TypeOK
  <2>2. TypeOK'
    BY <2>1, BoundAssumption DEF TypeOK, Registers, Places
  <2>3. CallsHoldOwnProgram'
    BY <2>1, KeyAssumption DEF CallsHoldOwnProgram, HoldsProgram, OfCompile, OwnProgram, TypeOK
  <2> QED BY <2>2, <2>3, TiersKept
<1>7. CASE CheckEntry(p)
  <2> USE <1>7 DEF CheckEntry
  <2>1. key(p) \in Keys /\ pc[p] = "checkEntry"
    BY DEF TypeOK
  <2>2. TypeOK'
    BY <2>1, BoundAssumption DEF TypeOK, Registers, Places
  <2>3. CallsHoldOwnProgram'
    BY <2>1, KeyAssumption DEF CallsHoldOwnProgram, HoldsProgram, OfCompile, OwnProgram, TypeOK
  <2> QED BY <2>2, <2>3, TiersKept
<1>8. CASE RemoveStale(p)
  <2>1. key(p) \in Keys /\ pc[p] = "removeStale"
    BY <1>8 DEF RemoveStale, TypeOK
  <2>2. file' \in {file, [file EXCEPT ![pathForKey(key(p))] = NoFile]} /\ UNCHANGED local
    BY <1>8 DEF RemoveStale, StoreDelete
  <2>3. file' \in [Paths -> Files] /\ TiersHoldOwnProgram' /\ FilesHoldPrograms'
    BY <2>1, <2>2, FileWithLemma DEF NoFile, File, Files, None, Never, IsFor
  <2>4. TypeOK'
    BY <1>8, <2>1, <2>3 DEF RemoveStale, TypeOK, Registers, Places
  <2>5. CallsHoldOwnProgram'
    BY <1>8, <2>1 DEF RemoveStale, CallsHoldOwnProgram, HoldsProgram, OfCompile, OwnProgram, TypeOK
  <2> QED BY <2>3, <2>4, <2>5
<1>9. CASE FillLocal(p)
  <2> USE <1>9 DEF FillLocal
  <2>1. key(p) \in Keys /\ pc[p] = "fillLocal"
    BY DEF TypeOK
  <2>2. reg[p].program \in Programs /\ reg[p].program.source = key(p)
    BY <2>1 DEF CallsHoldOwnProgram, OwnProgram, HoldsProgram
  <2>3. /\ local' \in [Keys -> Programs \cup {None}]
        /\ \A j \in Keys : IsFor(local'[j], j)
    BY <2>1, <2>2, LocalWithLemma
  <2>4. TypeOK'
    BY <2>1, <2>3 DEF TypeOK, Registers, Places
  <2>5. TiersHoldOwnProgram' /\ FilesHoldPrograms'
    BY <2>3 DEF TiersHoldOwnProgram, FilesHoldPrograms, IsFor, pathForKey
  <2>6. CallsHoldOwnProgram'
    BY <2>1 DEF CallsHoldOwnProgram, HoldsProgram, OfCompile, OwnProgram, TypeOK
  <2> QED BY <2>4, <2>5, <2>6
<1>10. CASE FillExpiry(p)
  <2> USE <1>10 DEF FillExpiry
  <2>1. key(p) \in Keys /\ pc[p] = "fillExpiry"
    BY DEF TypeOK
  <2>2. TypeOK'
    BY SMTT(30), <2>1, BoundAssumption DEF TypeOK, Registers, Places
  <2>3. CallsHoldOwnProgram'
    BY <2>1, KeyAssumption DEF CallsHoldOwnProgram, HoldsProgram, OfCompile, OwnProgram, TypeOK
  <2> QED BY <2>2, <2>3, TiersKept
<1>11. CASE CompileMiss(p)
  <2>1. key(p) \in Keys /\ pc[p] = "miss" /\ gens \in Nat
    BY <1>11 DEF CompileMiss, TypeOK
  <2>2. TiersHoldOwnProgram' /\ FilesHoldPrograms'
    BY <1>11 DEF CompileMiss, TiersHoldOwnProgram, FilesHoldPrograms, IsFor, pathForKey
  <2>3. CASE key(p) \in Compilable
    <3> DEFINE program == Program(key(p), gens + 1)
    <3>1. program \in Programs /\ program.source = key(p)
      BY <2>1, <2>3 DEF Program, Programs
    <3>2. /\ pc' = [pc EXCEPT ![p] = "setLocal"] /\ gens' = gens + 1
          /\ reg' = [reg EXCEPT ![p].program = program]
          /\ UNCHANGED <<clock, local, expiry, file, ops, faults, stamped, floor, quietFloor>>
      BY <1>11, <2>3 DEF CompileMiss
    <3> HIDE DEF program
    <3>3. TypeOK'
      BY SMTT(30), <2>1, <3>1, <3>2 DEF TypeOK, Registers, Places
    <3>4. CallsHoldOwnProgram'
      BY <2>1, <3>1, <3>2 DEF CallsHoldOwnProgram, HoldsProgram, OfCompile, OwnProgram, TypeOK
    <3> QED BY <2>2, <3>3, <3>4
  <2>4. CASE key(p) \notin Compilable
    <3>1. /\ pc' = [pc EXCEPT ![p] = "done"] /\ reg' = [reg EXCEPT ![p].answer = "error"]
          /\ UNCHANGED <<clock, local, expiry, file, gens, floor, quietFloor>>
      BY <1>11, <2>4 DEF CompileMiss
    <3>2. TypeOK'
      BY SMTT(30), <2>1, <3>1 DEF TypeOK, Registers, Places
    <3>3. CallsHoldOwnProgram'
      BY <2>1, <2>4, <3>1 DEF CallsHoldOwnProgram, HoldsProgram, OfCompile, OwnProgram, TypeOK,
         Registers
    <3> QED BY <2>2, <3>2, <3>3
  <2> QED BY <2>3, <2>4
<1>12. CASE SetLocal(p)
  <2> USE <1>12 DEF SetLocal
  <2>1. key(p) \in Keys /\ pc[p] = "setLocal"
    BY DEF TypeOK
  <2>2. reg[p].program \in Programs /\ reg[p].program.source = key(p)
    BY <2>1 DEF CallsHoldOwnProgram, OwnProgram, HoldsProgram
  <2>3. /\ local' \in [Keys -> Programs \cup {None}]
        /\ \A j \in Keys : IsFor(local'[j], j)
    BY <2>1, <2>2, LocalWithLemma
  <2>4. TypeOK'
    BY <2>1, <2>3 DEF TypeOK, Registers, Places
  <2>5. TiersHoldOwnProgram' /\ FilesHoldPrograms'
    BY <2>3 DEF TiersHoldOwnProgram, FilesHoldPrograms, IsFor, pathForKey
  <2>6. CallsHoldOwnProgram'
    BY <2>1 DEF CallsHoldOwnProgram, HoldsProgram, OfCompile, OwnProgram, TypeOK
  <2> QED BY <2>4, <2>5, <2>6
<1>13. CASE Stamp(p)
  <2> USE <1>13 DEF Stamp
  <2>1. key(p) \in Keys /\ pc[p] = "stamp"
    BY DEF TypeOK
  <2>2. TypeOK'
    BY SMTT(30), <2>1, BoundAssumption DEF TypeOK, Registers, Places
  <2>3. CallsHoldOwnProgram'
    BY <2>1, KeyAssumption DEF CallsHoldOwnProgram, HoldsProgram, OfCompile, OwnProgram, TypeOK
  <2> QED BY <2>2, <2>3, TiersKept
<1>14. CASE SetExpiry(p)
  <2> USE <1>14 DEF SetExpiry
  <2>1. key(p) \in Keys /\ pc[p] = "setExpiry"
    BY DEF TypeOK
  <2>2. TypeOK'
    BY <2>1, BoundAssumption DEF TypeOK, Registers, Places
  <2>3. CallsHoldOwnProgram'
    BY <2>1, KeyAssumption DEF CallsHoldOwnProgram, HoldsProgram, OfCompile, OwnProgram, TypeOK
  <2> QED BY <2>2, <2>3, TiersKept
<1>15. CASE SaveOpen(p)
  <2> USE <1>15 DEF SaveOpen, Garbage, File, Files, None, Never
  <2>1. key(p) \in Keys /\ pc[p] = "save"
    BY DEF TypeOK
  <2>2. TypeOK'
    BY <2>1, BoundAssumption DEF TypeOK, Registers, Places
  <2>3. TiersHoldOwnProgram' /\ FilesHoldPrograms'
    BY <2>1, PathAssumption DEF TiersHoldOwnProgram, FilesHoldPrograms, CallsHoldOwnProgram,
       HoldsProgram,
                          OwnProgram, IsFor, pathForKey, TypeOK
  <2>4. CallsHoldOwnProgram'
    BY <2>1, KeyAssumption DEF CallsHoldOwnProgram, HoldsProgram, OfCompile, OwnProgram, TypeOK,
                    TiersHoldOwnProgram, FilesHoldPrograms, IsFor, pathForKey
  <2> QED BY <2>2, <2>3, <2>4
<1>16. CASE SaveWrite(p)
  <2> DEFINE c == File("entry", reg[p].program, reg[p].expires)
  <2>1. key(p) \in Keys /\ pc[p] = "writing"
    BY <1>16 DEF SaveWrite, TypeOK
  <2>2. /\ reg[p].program \in Programs /\ reg[p].program.source = key(p)
        /\ reg[p].expires \in Nat \cup {Never}
    BY <2>1 DEF CallsHoldOwnProgram, OwnProgram, HoldsProgram, TypeOK, Registers
  <2>3. c \in Files /\ IsFor(c.program, key(p)) /\ c.program \in Programs
    BY <2>2 DEF File, Files, IsFor
  <2>4. file' \in {file, [file EXCEPT ![pathForKey(key(p))] = c]} /\ UNCHANGED local
    BY <1>16 DEF SaveWrite
  <2> HIDE DEF c
  <2>5. file' \in [Paths -> Files] /\ TiersHoldOwnProgram' /\ FilesHoldPrograms'
    BY <2>1, <2>3, <2>4, FileWithLemma
  <2>6. TypeOK'
    BY <1>16, <2>1, <2>5 DEF SaveWrite, TypeOK, Registers, Places
  <2>7. CallsHoldOwnProgram'
    BY <1>16, <2>1 DEF SaveWrite, CallsHoldOwnProgram, HoldsProgram, OfCompile, OwnProgram, TypeOK
  <2> QED BY <2>5, <2>6, <2>7
<1>17. CASE SaveFails(p)
  <2> USE <1>17 DEF SaveFails, Fault
  <2>1. key(p) \in Keys /\ pc[p] = "save"
    BY DEF TypeOK
  <2>2. TypeOK'
    BY SMTT(30), <2>1, BoundAssumption DEF TypeOK, Registers, Places
  <2>3. CallsHoldOwnProgram'
    BY <2>1, KeyAssumption DEF CallsHoldOwnProgram, HoldsProgram, OfCompile, OwnProgram, TypeOK
  <2> QED BY <2>2, <2>3, TiersKept
<1>18. CASE Remove(p)
  <2>1. key(p) \in Keys /\ pc[p] = "remove"
    BY <1>18 DEF Remove, TypeOK
  <2>2. file' \in {file, [file EXCEPT ![pathForKey(key(p))] = NoFile]} /\ UNCHANGED local
    BY <1>18 DEF Remove, StoreDelete
  <2>3. file' \in [Paths -> Files] /\ TiersHoldOwnProgram' /\ FilesHoldPrograms'
    BY <2>1, <2>2, FileWithLemma DEF NoFile, File, Files, None, Never, IsFor
  <2>4. PICK a \in {"removed", "error"} : reg' = [reg EXCEPT ![p].answer = a]
    BY <1>18 DEF Remove
  <2>5. pc' = [pc EXCEPT ![p] = "done"] /\ UNCHANGED <<clock, local, expiry, gens>>
    BY <1>18 DEF Remove
  <2>6. TypeOK'
    <3>1. reg' \in [Procs -> Registers] /\ reg'[p].key = reg[p].key
      BY SMTT(30), <2>4 DEF TypeOK, Registers
    <3>2. floor' \in [Keys -> Nat] /\ quietFloor' \in [Keys -> Nat]
      BY <1>18, <2>1 DEF Remove, TypeOK
    <3> QED BY <2>1, <2>3, <2>4, <2>5, <3>1, <3>2 DEF TypeOK, Places
  <2>7. CallsHoldOwnProgram'
    BY <2>1, <2>4, <2>5 DEF CallsHoldOwnProgram, HoldsProgram, OfCompile, OwnProgram, TypeOK
  <2> QED BY <2>3, <2>6, <2>7
<1>19. CASE Return(p)
  <2> USE <1>19 DEF Return, Idle, None, Never
  <2>1. key(p) \in Keys /\ pc[p] = "done"
    BY DEF TypeOK
  <2>2. TypeOK'
    BY <2>1, BoundAssumption DEF TypeOK, Registers, Places
  <2>3. CallsHoldOwnProgram'
    BY <2>1, KeyAssumption DEF CallsHoldOwnProgram, HoldsProgram, OfCompile, OwnProgram, TypeOK
  <2> QED BY <2>2, <2>3, TiersKept
<1> QED BY <1>1, <1>2, <1>3, <1>4, <1>5, <1>6, <1>7, <1>8, <1>9, <1>10, <1>11, <1>12, <1>13,
           <1>14, <1>15, <1>16, <1>17, <1>18, <1>19 DEF Step

(* A call on the key k begins.                                             *)
LEMMA BeginKeepsIInv ==
    ASSUME IInv, NEW p \in Procs, NEW k \in Keys, Compile(p, k) \/ Invalidate(p, k)
    PROVE  IInv'
<1>1. PICK op \in {"compile", "invalidate"}, to \in {"localGet", "dropLocal"} :
          Begin(p, op, k, to) /\ (to = "localGet" => op = "compile")
  BY DEF Compile, Invalidate
<1>2. /\ UNCHANGED <<clock, local, file, expiry, gens, floor, quietFloor>>
      /\ pc[p] = "idle" /\ pc' = [pc EXCEPT ![p] = to]
  BY <1>1 DEF Begin, Goto, history
<1> DEFINE Busy == {q \in Procs : pc[q] # "idle" /\ key(q) = k}
           Mine == [Idle EXCEPT !.op = op, !.key = k, !.started = clock, !.floor = floor[k],
                                !.quietFloor = quietFloor[k], !.alone = Busy = {}]
<1>3. reg' = [q \in Procs |-> IF q = p THEN Mine
                               ELSE IF q \in Busy THEN [reg[q] EXCEPT !.alone = FALSE] ELSE reg[q]]
  BY <1>1 DEF Begin
<1>4. /\ Mine.op = op /\ Mine.key = k /\ Mine.program = None /\ Mine.expires = Never
      /\ Mine.restorable = TRUE /\ Mine.answer = "none" /\ Mine.started = clock
      /\ Mine.floor = floor[k] /\ Mine.quietFloor = quietFloor[k] /\ Mine.alone = (Busy = {})
  BY DEF Idle
<1>5. Mine \in Registers
  BY DEF Idle, IInv, TypeOK, Registers, None
<1> HIDE DEF Mine, Busy
<1>6. TypeOK'
  <2>1. pc' \in [Procs -> Places]
    BY <1>2 DEF IInv, TypeOK, Registers, Places
  <2>2. reg' \in [Procs -> Registers]
    <3>1. ASSUME NEW x \in Registers PROVE [x EXCEPT !.alone = FALSE] \in Registers
      BY DEF Registers
    <3> QED BY <1>3, <1>5, <3>1 DEF IInv, TypeOK
  <2>3. \A q \in Procs : pc'[q] # "idle" => reg'[q].key \in Keys
    BY <1>2, <1>3, <1>4 DEF IInv, TypeOK, key
  <2> QED BY <1>2, <2>1, <2>2, <2>3 DEF IInv, TypeOK, key
<1>7. CallsHoldOwnProgram'
  <2> SUFFICES ASSUME NEW q \in Procs PROVE
        /\ pc'[q] # "idle" => reg'[q].op # "none"
        /\ pc'[q] \in HoldsProgram => OwnProgram(q)'
        /\ pc'[q] \in OfCompile => reg'[q].op = "compile"
        /\ pc'[q] = "remove" => reg'[q].op = "invalidate"
        /\ pc'[q] = "done" /\ reg'[q].answer = "program" => OwnProgram(q)'
        /\ pc'[q] = "done" /\ reg'[q].op = "compile" =>
               \/ reg'[q].answer = "program"
               \/ reg'[q].answer = "error" /\ reg'[q].key \notin Compilable
    BY DEF CallsHoldOwnProgram, key
  <2>1. CASE q = p
    BY <2>1, <1>1, <1>2, <1>3, <1>4 DEF HoldsProgram, OfCompile, IInv, TypeOK
  <2>2. CASE q # p
    <3>1. pc'[q] = pc[q] /\ reg'[q] \in {reg[q], [reg[q] EXCEPT !.alone = FALSE]}
      BY <2>2, <1>2, <1>3 DEF IInv, TypeOK
    <3>2. reg'[q].op = reg[q].op /\ reg'[q].key = reg[q].key /\ reg'[q].program = reg[q].program
          /\ reg'[q].answer = reg[q].answer
      BY <3>1 DEF IInv, TypeOK, Registers
    <3> QED BY <3>1, <3>2 DEF IInv, CallsHoldOwnProgram, OwnProgram, key
  <2> QED BY <2>1, <2>2
<1> QED BY <1>2, <1>6, <1>7, TiersKept DEF IInv

-----------------------------------------------------------------------------
(* Every step of the system keeps the invariant: a call's step, the start  *)
(* of a call, the clock, a crash, a damaged file.                          *)
THEOREM NextKeepsIInv == IInv /\ [Next]_vars => IInv'
<1> SUFFICES ASSUME IInv, [Next]_vars PROVE IInv'
  OBVIOUS
<1>1. ASSUME NEW p \in Procs, Step(p) PROVE IInv'
  BY <1>1, StepKeepsIInv
<1>2. ASSUME NEW p \in Procs, NEW k \in Keys, Compile(p, k) \/ Invalidate(p, k) PROVE IInv'
  BY <1>2, BeginKeepsIInv
<1>3. CASE Tick
  BY <1>3 DEF Tick, IInv, TypeOK, TiersHoldOwnProgram, CallsHoldOwnProgram, FilesHoldPrograms,
              OwnProgram, IsFor, pathForKey, key, history
<1>4. CASE Crash
  <2> USE <1>4 DEF Crash, Fault, history
  <2>1. TypeOK'
    BY DEF IInv, TypeOK, Idle, Registers, None, Never, Places
  <2>2. TiersHoldOwnProgram' /\ FilesHoldPrograms'
    BY DEF IInv, TiersHoldOwnProgram, FilesHoldPrograms, IsFor, pathForKey
  <2>3. CallsHoldOwnProgram'
    BY DEF CallsHoldOwnProgram, HoldsProgram, OfCompile
  <2> QED BY <2>1, <2>2, <2>3 DEF IInv
<1>5. ASSUME NEW f \in Paths, Damage(f) PROVE IInv'
  <2>1. PICK c \in {Garbage, [file[f] EXCEPT !.kind = "unrestorable"]} :
            file' = [file EXCEPT ![f] = c]
    BY <1>5 DEF Damage
  <2>2. /\ file[f] \in Files /\ file[f].program \in Programs
        /\ UNCHANGED <<clock, local, expiry, pc, reg, gens, floor, quietFloor>>
    BY <1>5 DEF Damage, IInv, TypeOK, FilesHoldPrograms, history
  <2>3. c \in Files /\ (c.kind = "unrestorable" => c.program \in Programs)
    BY <2>1, <2>2 DEF Garbage, File, Files, None, Never
  <2>4. c.program \in {None, file[f].program} /\ c.kind \in {"garbage", "unrestorable"}
    BY <2>1, <2>2 DEF Garbage, File, Files
  <2>5. TypeOK'
    BY <2>1, <2>2, <2>3 DEF IInv, TypeOK, key
  <2>6. TiersHoldOwnProgram' /\ FilesHoldPrograms'
    BY <2>1, <2>2, <2>3, <2>4, PathAssumption DEF IInv, TypeOK, TiersHoldOwnProgram,
       FilesHoldPrograms, IsFor, pathForKey
  <2>7. CallsHoldOwnProgram'
    BY <2>2 DEF IInv, CallsHoldOwnProgram, OwnProgram, key
  <2> QED BY <2>5, <2>6, <2>7 DEF IInv
<1>6. CASE UNCHANGED vars
  BY <1>6 DEF vars, IInv, TypeOK, TiersHoldOwnProgram, CallsHoldOwnProgram, FilesHoldPrograms,
              OwnProgram, IsFor, pathForKey, key, history
<1> QED BY <1>1, <1>2, <1>3, <1>4, <1>5, <1>6 DEF Next

(* So it holds in every reachable state.                                   *)
THEOREM Invariance == Spec => []IInv
BY InitEstablishesIInv, NextKeepsIInv, PTL DEF Spec

-----------------------------------------------------------------------------
(* State and answers keep their types, whatever the keys, files, lifetime, *)
(* capacity and faults.                                                    *)
THEOREM TypeCorrect == Spec => []TypeOK
BY Invariance, PTL DEF IInv

(* persistent_cache.go, both tiers: under a key only the program of that   *)
(* key, through every interleaving, eviction, crash and damaged file.      *)
THEOREM TiersOwn == Spec => []TiersHoldOwnProgram
BY Invariance, PTL DEF IInv

(* CachedRuleCompiler.Compile never answers with another rule's program.   *)
THEOREM ServedOwn == Spec => []ServedProgramIsOwn
<1>1. IInv => ServedProgramIsOwn
  BY DEF IInv, CallsHoldOwnProgram, OwnProgram, ServedProgramIsOwn, Served, key
<1> QED BY <1>1, Invariance, PTL

(* CachedRuleCompiler.Compile fails exactly when the rule does not         *)
(* compile, however the store fails.                                       *)
THEOREM FaultsHidden == Spec => []FaultsNeverSurface
<1>1. IInv => FaultsNeverSurface
  BY KeyAssumption DEF IInv, CallsHoldOwnProgram, OwnProgram, Programs, FaultsNeverSurface, key
<1> QED BY <1>1, Invariance, PTL
=============================================================================
