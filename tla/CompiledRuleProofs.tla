------------------------- MODULE CompiledRuleProofs -------------------------
(***************************************************************************)
(* Whatever tree it is given, the compiler's program is well-formed, and   *)
(* so the VM meets no structural error when it runs it.  The invariant of  *)
(* the emission, Emitting, relates the code so far to the tasks that are   *)
(* left: each of them finds the operands it needs, and each jump that has  *)
(* no target yet is patched by exactly one of them, at the right height.   *)
(***************************************************************************)
EXTENDS CompiledRule, BytecodeVMProofs, FiniteSetTheorems, SequenceTheorems,
        WellFoundedInduction

-----------------------------------------------------------------------------
(* Facts about numbers and sequences                                       *)

(* A set of numbers that is not empty has a least one.                     *)
LEMMA LeastNumber ==
    ASSUME NEW T, T \subseteq Nat, T # {}
    PROVE  \E x \in T : \A y \in T : x <= y
<1>1. PICK x \in T : \A y \in T : ~(<<y, x>> \in OpToRel(<, Nat))
  BY NatLessThanWellFounded, WFMin
<1>2. \A y \in T : ~(y < x)
  BY <1>1 DEF OpToRel
<1> QED BY <1>2

(* Min picks a member.                                                     *)
LEMMA MinMember ==
    ASSUME NEW T, T \subseteq Nat, T # {}
    PROVE  Min(T) \in T
BY LeastNumber DEF Min

(* A function on an initial segment of the numbers is a sequence.          *)
LEMMA SegmentIsSequence ==
    ASSUME NEW n \in Nat, NEW s, s = [i \in 1..n |-> s[i]]
    PROVE  IsStack(s) /\ Len(s) = n
<1>1. \A i \in 1..n : s[i] \in Range(s)
  BY DEF Range
<1>2. s \in Seq(Range(s)) /\ Len(s) = n
  BY <1>1
<1> QED BY <1>2 DEF IsStack

(* What appending does to a sequence.                                      *)
LEMMA AppendFacts ==
    ASSUME NEW s, IsStack(s), NEW v
    PROVE  /\ IsStack(Append(s, v)) /\ Len(s) \in Nat /\ Len(Append(s, v)) = Len(s) + 1
           /\ \A i \in 1..Len(s) : Append(s, v)[i] = s[i]
           /\ Append(s, v)[Len(s) + 1] = v
<1>1. s \in Seq(Range(s) \cup {v})
  BY DEF IsStack
<1>2. /\ Len(s) \in Nat
      /\ \A i \in 1..Len(s) : Append(s, v)[i] = s[i]
      /\ Append(s, v)[Len(s) + 1] = v
  BY <1>1
<1> QED BY <1>2, PushLemma

(* What replacing the head of a list does to it.                           *)
LEMMA SpliceFacts ==
    ASSUME NEW new, IsStack(new), NEW w, IsStack(w), w # <<>>
    PROVE  /\ Len(w) \in Nat \ {0} /\ Len(new) \in Nat
           /\ Head(w) = w[1]
           /\ IsStack(new \o Tail(w))
           /\ Len(new \o Tail(w)) = Len(new) + Len(w) - 1
           /\ \A i \in 1..Len(new) : (new \o Tail(w))[i] = new[i]
           /\ \A i \in 2..Len(w) : (new \o Tail(w))[Len(new) + i - 1] = w[i]
<1> DEFINE S == Range(new) \cup Range(w)
<1>1. new \in Seq(S) /\ w \in Seq(S)
  BY DEF IsStack
<1>2. /\ Len(w) \in Nat \ {0} /\ Len(new) \in Nat /\ Tail(w) \in Seq(S)
      /\ Len(Tail(w)) = Len(w) - 1 /\ Head(w) = w[1]
      /\ \A i \in 1..(Len(w) - 1) : Tail(w)[i] = w[i + 1]
  BY <1>1
<1>3. /\ new \o Tail(w) \in Seq(S)
      /\ Len(new \o Tail(w)) = Len(new) + Len(w) - 1
      /\ \A i \in 1..(Len(new) + Len(w) - 1) :
             (new \o Tail(w))[i] = IF i <= Len(new) THEN new[i] ELSE Tail(w)[i - Len(new)]
  BY <1>1, <1>2, ConcatProperties
<1>4. \A i \in 1..Len(new) : (new \o Tail(w))[i] = new[i]
  BY <1>2, <1>3
<1>5. ASSUME NEW i \in 2..Len(w) PROVE (new \o Tail(w))[Len(new) + i - 1] = w[i]
  <2>1. Len(new) + i - 1 \in 1..(Len(new) + Len(w) - 1) /\ ~(Len(new) + i - 1 <= Len(new))
        /\ i - 1 \in 1..(Len(w) - 1) /\ (Len(new) + i - 1) - Len(new) = i - 1 /\ (i - 1) + 1 = i
    BY <1>2
  <2> QED BY <1>2, <1>3, <2>1
<1> QED BY <1>2, <1>3, <1>4, <1>5, OwnRange

-----------------------------------------------------------------------------
(* One instruction at a time                                               *)

Instructions == [op : OpCodes, arg : Int, aux : Int]

(* The compiler has its four parts, each of them a sequence.               *)
IsCompiler(c) ==
    /\ c = [code |-> c.code, consts |-> c.consts, accessors |-> c.accessors, builtins |-> c.builtins]
    /\ c.code \in Seq(Instructions)
    /\ IsStack(c.consts) /\ IsStack(c.accessors) /\ IsStack(c.builtins)

(* d has the pools of c, perhaps with something new behind.                *)
PoolsGrow(c, d) ==
    /\ Len(c.consts) <= Len(d.consts)
    /\ Len(c.accessors) <= Len(d.accessors)
    /\ Len(c.builtins) <= Len(d.builtins)
    /\ \A i \in 1..Len(c.builtins) : d.builtins[i] = c.builtins[i]

(* d is c with one more instruction.                                       *)
OneMore(c, d, inst) ==
    /\ IsCompiler(d)
    /\ PoolsGrow(c, d)
    /\ inst \in Instructions
    /\ Len(d.code) = Len(c.code) + 1
    /\ \A i \in 1..Len(c.code) : d.code[i] = c.code[i]
    /\ d.code[Len(c.code) + 1] = inst

(* A compiler with one of its parts replaced.                              *)
LEMMA PartFacts ==
    ASSUME NEW c, IsCompiler(c), NEW x
    PROVE  /\ [c EXCEPT !.code = x] = [code |-> x, consts |-> c.consts,
                  accessors |-> c.accessors, builtins |-> c.builtins]
           /\ [c EXCEPT !.consts = x] = [code |-> c.code, consts |-> x,
                  accessors |-> c.accessors, builtins |-> c.builtins]
           /\ [c EXCEPT !.accessors = x] = [code |-> c.code, consts |-> c.consts,
                  accessors |-> x, builtins |-> c.builtins]
           /\ [c EXCEPT !.builtins = x] = [code |-> c.code, consts |-> c.consts,
                  accessors |-> c.accessors, builtins |-> x]
<1> DEFINE R(i, j, k, l) == [code |-> i, consts |-> j, accessors |-> k, builtins |-> l]
<1>1. PICK i, j, k, l : c = R(i, j, k, l)
  BY DEF IsCompiler
<1>2. c.code = i /\ c.consts = j /\ c.accessors = k /\ c.builtins = l
  BY <1>1
<1>3. /\ [R(i, j, k, l) EXCEPT !.code = x] = R(x, j, k, l)
      /\ [R(i, j, k, l) EXCEPT !.consts = x] = R(i, x, k, l)
      /\ [R(i, j, k, l) EXCEPT !.accessors = x] = R(i, j, x, l)
      /\ [R(i, j, k, l) EXCEPT !.builtins = x] = R(i, j, k, x)
  OBVIOUS
<1> HIDE DEF R
<1>4. /\ [c EXCEPT !.code = x] = R(x, j, k, l)
      /\ [c EXCEPT !.consts = x] = R(i, x, k, l)
      /\ [c EXCEPT !.accessors = x] = R(i, j, x, l)
      /\ [c EXCEPT !.builtins = x] = R(i, j, k, x)
  BY <1>1, <1>3, Zenon
<1> QED BY <1>2, <1>4, Zenon DEF R

(* emit adds the instruction it is given.                                  *)
LEMMA EmitFacts ==
    ASSUME NEW c, IsCompiler(c), NEW op \in OpCodes, NEW arg \in Int, NEW aux \in Int
    PROVE  /\ OneMore(c, emit(c, op, arg, aux), Instr(op, arg, aux))
           /\ emit(c, op, arg, aux).consts = c.consts
           /\ emit(c, op, arg, aux).accessors = c.accessors
           /\ emit(c, op, arg, aux).builtins = c.builtins
<1> DEFINE inst == [op |-> op, arg |-> arg, aux |-> aux]
           d == emit(c, op, arg, aux)
<1>1. inst \in Instructions /\ inst = Instr(op, arg, aux)
  BY DEF Instructions, Instr
<1>2. d = [code |-> Append(c.code, inst), consts |-> c.consts,
           accessors |-> c.accessors, builtins |-> c.builtins]
  <2>1. d = [c EXCEPT !.code = Append(c.code, inst)]
    BY Zenon DEF emit
  <2> QED BY <2>1, PartFacts, Zenon
<1> HIDE DEF inst, d
<1>3. /\ d.code \in Seq(Instructions) /\ Len(c.code) \in Nat
      /\ Len(d.code) = Len(c.code) + 1
      /\ \A i \in 1..Len(c.code) : d.code[i] = c.code[i]
      /\ d.code[Len(c.code) + 1] = inst
  BY <1>1, <1>2 DEF IsCompiler
<1>4. IsCompiler(d)
  BY <1>2, <1>3 DEF IsCompiler
<1>5. PoolsGrow(c, d)
  BY <1>2 DEF PoolsGrow, IsCompiler, IsStack
<1>6. d.consts = c.consts /\ d.accessors = c.accessors /\ d.builtins = c.builtins
  BY <1>2
<1> QED BY <1>1, <1>3, <1>4, <1>5, <1>6 DEF OneMore, d

(* The first place of a value in a pool, or the place behind the pool.     *)
LEMMA PlaceFacts ==
    ASSUME NEW pool, IsStack(pool), NEW found, found \subseteq DOMAIN pool
    PROVE  LET i == IF found = {} THEN Len(pool) ELSE Min(found) - 1
           IN  i \in Nat /\ i <= Len(pool) /\ (i # Len(pool) => i + 1 \in found)
<1>1. Len(pool) \in Nat /\ DOMAIN pool = 1..Len(pool)
  BY DEF IsStack
<1>2. CASE found = {}
  BY <1>1, <1>2
<1>3. CASE found # {}
  <2>1. Min(found) \in found
    BY <1>1, <1>3, MinMember
  <2> QED BY <1>1, <1>3, <2>1
<1> QED BY <1>2, <1>3

(* An interned value has a place in the pool, and the others keep theirs.  *)
LEMMA InternFacts ==
    ASSUME NEW pool, IsStack(pool), NEW i \in Nat, i <= Len(pool), NEW x
    PROVE  /\ IsStack(Interned(pool, i, x)) /\ Len(pool) \in Nat
           /\ InRange(i, Interned(pool, i, x))
           /\ Len(pool) <= Len(Interned(pool, i, x))
           /\ \A k \in 1..Len(pool) : Interned(pool, i, x)[k] = pool[k]
           /\ Interned(pool, i, x)[i + 1] = IF i = Len(pool) THEN x ELSE pool[i + 1]
<1>1. Len(pool) \in Nat
  BY DEF IsStack
<1>2. CASE i = Len(pool)
  <2>1. Interned(pool, i, x) = Append(pool, x)
    BY <1>2 DEF Interned
  <2>2. /\ IsStack(Append(pool, x)) /\ Len(Append(pool, x)) = Len(pool) + 1
        /\ \A k \in 1..Len(pool) : Append(pool, x)[k] = pool[k]
        /\ Append(pool, x)[Len(pool) + 1] = x
    BY AppendFacts
  <2>3. InRange(i, Append(pool, x))
    BY <1>1, <1>2, <2>2 DEF InRange
  <2> QED BY <1>1, <1>2, <2>1, <2>2, <2>3
<1>3. CASE i # Len(pool)
  <2>1. Interned(pool, i, x) = pool
    BY <1>3 DEF Interned
  <2>2. InRange(i, pool)
    BY <1>1, <1>3 DEF InRange
  <2> QED BY <1>1, <1>3, <2>1, <2>2
<1> QED BY <1>2, <1>3

(* With another pool that holds all of its own, a compiler emits as well.  *)
LEMMA GrownFacts ==
    ASSUME NEW c, IsCompiler(c), NEW b, IsCompiler(b), b.code = c.code, PoolsGrow(c, b),
           NEW op \in OpCodes, NEW arg \in Nat, NEW aux \in Nat
    PROVE  /\ OneMore(c, emit(b, op, arg, aux), Instr(op, arg, aux))
           /\ emit(b, op, arg, aux).consts = b.consts
           /\ emit(b, op, arg, aux).accessors = b.accessors
           /\ emit(b, op, arg, aux).builtins = b.builtins
<1> DEFINE d == emit(b, op, arg, aux)
           inst == Instr(op, arg, aux)
<1>1. OneMore(b, d, inst) /\ d.consts = b.consts
      /\ d.accessors = b.accessors /\ d.builtins = b.builtins
  <2>1. arg \in Int /\ aux \in Int
    OBVIOUS
  <2> QED BY <2>1, EmitFacts, Zenon
<1> HIDE DEF d, inst
<1>2. OneMore(c, d, inst)
  BY <1>1 DEF OneMore, PoolsGrow
<1> QED BY <1>1, <1>2 DEF d, inst

(* internConst pushes a constant that is in the pool.                      *)
LEMMA ConstFacts ==
    ASSUME NEW c, IsCompiler(c), NEW v
    PROVE  \E i \in Nat : /\ OneMore(c, internConst(c, v), Instr("PUSH_CONST", i, 0))
                          /\ InRange(i, internConst(c, v).consts)
<1> DEFINE found == {k \in DOMAIN c.consts : ConstKey(c.consts[k]) = ConstKey(v)}
           i == IF found = {} THEN Len(c.consts) ELSE Min(found) - 1
           pool == Interned(c.consts, i, v)
           b == [c EXCEPT !.consts = pool]
<1>1. internConst(c, v) = emit(b, "PUSH_CONST", i, 0)
  BY Zenon DEF internConst, IndexIn
<1>2. IsStack(c.consts) /\ found \subseteq DOMAIN c.consts
  BY DEF IsCompiler
<1> HIDE DEF found
<1>3. i \in Nat /\ i <= Len(c.consts)
  BY <1>2, PlaceFacts
<1> HIDE DEF i
<1>4. IsStack(pool) /\ Len(c.consts) <= Len(pool) /\ InRange(i, pool)
  BY <1>2, <1>3, InternFacts
<1> HIDE DEF pool
<1>5. b = [code |-> c.code, consts |-> pool, accessors |-> c.accessors, builtins |-> c.builtins]
  BY PartFacts, Zenon
<1> HIDE DEF b
<1>6. IsCompiler(b) /\ b.code = c.code /\ PoolsGrow(c, b)
  BY <1>4, <1>5 DEF IsCompiler, PoolsGrow, IsStack
<1>7. /\ OneMore(c, internConst(c, v), Instr("PUSH_CONST", i, 0))
      /\ internConst(c, v).consts = pool
  <2>1. b.consts = pool
    BY <1>5
  <2>2. 0 \in Nat /\ "PUSH_CONST" \in OpCodes
    BY DEF OpCodes
  <2>3. OneMore(c, emit(b, "PUSH_CONST", i, 0), Instr("PUSH_CONST", i, 0))
        /\ emit(b, "PUSH_CONST", i, 0).consts = b.consts
    BY <1>3, <1>6, GrownFacts, <2>2, ZenonT(60)
  <2> QED BY <1>1, <2>1, <2>3, Zenon
<1> QED BY <1>3, <1>4, <1>7

(* internAccessor loads a factor that is in the pool.                      *)
LEMMA AccessorFacts ==
    ASSUME NEW c, IsCompiler(c), NEW a
    PROVE  \E i \in Nat : /\ OneMore(c, internAccessor(c, a), Instr("LOAD_FACTOR", i, 0))
                          /\ InRange(i, internAccessor(c, a).accessors)
<1> DEFINE found == {k \in DOMAIN c.accessors : c.accessors[k] = a}
           i == IF found = {} THEN Len(c.accessors) ELSE Min(found) - 1
           pool == Interned(c.accessors, i, a)
           b == [c EXCEPT !.accessors = pool]
<1>1. internAccessor(c, a) = emit(b, "LOAD_FACTOR", i, 0)
  BY Zenon DEF internAccessor, IndexIn
<1>2. IsStack(c.accessors) /\ found \subseteq DOMAIN c.accessors
  BY DEF IsCompiler
<1> HIDE DEF found
<1>3. i \in Nat /\ i <= Len(c.accessors)
  BY <1>2, PlaceFacts
<1> HIDE DEF i
<1>4. IsStack(pool) /\ Len(c.accessors) <= Len(pool) /\ InRange(i, pool)
  BY <1>2, <1>3, InternFacts
<1> HIDE DEF pool
<1>5. b = [code |-> c.code, consts |-> c.consts, accessors |-> pool, builtins |-> c.builtins]
  BY PartFacts, Zenon
<1> HIDE DEF b
<1>6. IsCompiler(b) /\ b.code = c.code /\ PoolsGrow(c, b)
  BY <1>4, <1>5 DEF IsCompiler, PoolsGrow, IsStack
<1>7. /\ OneMore(c, internAccessor(c, a), Instr("LOAD_FACTOR", i, 0))
      /\ internAccessor(c, a).accessors = pool
  <2>1. b.accessors = pool
    BY <1>5
  <2>2. 0 \in Nat /\ "LOAD_FACTOR" \in OpCodes
    BY DEF OpCodes
  <2>3. OneMore(c, emit(b, "LOAD_FACTOR", i, 0), Instr("LOAD_FACTOR", i, 0))
        /\ emit(b, "LOAD_FACTOR", i, 0).accessors = b.accessors
    BY <1>3, <1>6, GrownFacts, <2>2, ZenonT(60)
  <2> QED BY <1>1, <2>1, <2>3, Zenon
<1> QED BY <1>3, <1>4, <1>7

(* internBuiltin calls the builtin it is given.                            *)
LEMMA BuiltinFacts ==
    ASSUME NEW c, IsCompiler(c), NEW name, NEW argc \in Nat
    PROVE  \E i \in Nat : /\ OneMore(c, internBuiltin(c, name, argc),
                                     Instr("CALL_BUILTIN", i, argc))
                          /\ InRange(i, internBuiltin(c, name, argc).builtins)
                          /\ internBuiltin(c, name, argc).builtins[i + 1] = name
<1> DEFINE found == {k \in DOMAIN c.builtins : c.builtins[k] = name}
           i == IF found = {} THEN Len(c.builtins) ELSE Min(found) - 1
           pool == Interned(c.builtins, i, name)
           b == [c EXCEPT !.builtins = pool]
<1>1. internBuiltin(c, name, argc) = emit(b, "CALL_BUILTIN", i, argc)
  BY Zenon DEF internBuiltin, IndexIn
<1>2. /\ IsStack(c.builtins) /\ found \subseteq DOMAIN c.builtins
      /\ \A k \in found : c.builtins[k] = name
  BY DEF IsCompiler
<1> HIDE DEF found
<1>3. i \in Nat /\ i <= Len(c.builtins) /\ (i # Len(c.builtins) => i + 1 \in found)
  BY <1>2, PlaceFacts
<1> HIDE DEF i
<1>4. /\ IsStack(pool) /\ Len(c.builtins) <= Len(pool) /\ InRange(i, pool)
      /\ \A k \in 1..Len(c.builtins) : pool[k] = c.builtins[k]
      /\ pool[i + 1] = IF i = Len(c.builtins) THEN name ELSE c.builtins[i + 1]
  BY <1>2, <1>3, InternFacts
<1> HIDE DEF pool
<1>5. pool[i + 1] = name
  BY <1>2, <1>3, <1>4
<1>6. b = [code |-> c.code, consts |-> c.consts, accessors |-> c.accessors, builtins |-> pool]
  BY PartFacts, Zenon
<1> HIDE DEF b
<1>7. IsCompiler(b) /\ b.code = c.code /\ PoolsGrow(c, b)
  BY <1>4, <1>6 DEF IsCompiler, PoolsGrow, IsStack
<1>8. /\ OneMore(c, internBuiltin(c, name, argc), Instr("CALL_BUILTIN", i, argc))
      /\ internBuiltin(c, name, argc).builtins = pool
  <2>1. b.builtins = pool
    BY <1>6
  <2>2. 0 \in Nat /\ "CALL_BUILTIN" \in OpCodes
    BY DEF OpCodes
  <2>3. OneMore(c, emit(b, "CALL_BUILTIN", i, argc), Instr("CALL_BUILTIN", i, argc))
        /\ emit(b, "CALL_BUILTIN", i, argc).builtins = b.builtins
    BY <1>3, <1>7, GrownFacts, <2>2, ZenonT(60)
  <2> QED BY <1>1, <2>1, <2>3, Zenon
<1> QED BY <1>3, <1>4, <1>5, <1>8

(* Patch changes the target of the jump at at, and nothing else.           *)
LEMMA PatchFacts ==
    ASSUME NEW c, IsCompiler(c), NEW at \in 1..Len(c.code)
    PROVE  /\ IsCompiler(Patch(c, at))
           /\ Patch(c, at).consts = c.consts
           /\ Patch(c, at).accessors = c.accessors
           /\ Patch(c, at).builtins = c.builtins
           /\ Len(Patch(c, at).code) = Len(c.code)
           /\ \A i \in 1..Len(c.code) :
                  /\ Patch(c, at).code[i].op = c.code[i].op
                  /\ Patch(c, at).code[i].aux = c.code[i].aux
                  /\ i # at => Patch(c, at).code[i].arg = c.code[i].arg
           /\ Patch(c, at).code[at].arg = Len(c.code)
<1> DEFINE d == Patch(c, at)
           code == [c.code EXCEPT ![at].arg = Len(c.code)]
<1>1. d = [c EXCEPT !.code = code]
  BY Zenon DEF Patch
<1>2. d = [code |-> code, consts |-> c.consts, accessors |-> c.accessors,
           builtins |-> c.builtins]
  BY <1>1, PartFacts, Zenon
<1>3. c.code \in Seq(Instructions) /\ Len(c.code) \in Nat
  BY DEF IsCompiler
<1>4. \A inst \in Instructions : \A x \in Int :
          /\ [inst EXCEPT !.arg = x].op = inst.op
          /\ [inst EXCEPT !.arg = x].arg = x
          /\ [inst EXCEPT !.arg = x].aux = inst.aux
          /\ [inst EXCEPT !.arg = x] \in Instructions
  BY DEF Instructions
<1>5. c.code[at] \in Instructions
  BY <1>3
<1>6. /\ code \in Seq(Instructions)
      /\ Len(code) = Len(c.code)
      /\ \A i \in 1..Len(c.code) :
             code[i] = IF i = at THEN [c.code[at] EXCEPT !.arg = Len(c.code)] ELSE c.code[i]
  <2> DEFINE inst == [c.code[at] EXCEPT !.arg = Len(c.code)]
  <2>1. code = [c.code EXCEPT ![at] = inst]
    BY Zenon
  <2>2. inst \in Instructions
    BY <1>3, <1>4, <1>5
  <2> HIDE DEF inst
  <2> QED BY <1>3, <2>1, <2>2
<1> HIDE DEF d, code
<1>7. /\ \A i \in 1..Len(c.code) :
             /\ code[i].op = c.code[i].op /\ code[i].aux = c.code[i].aux
             /\ i # at => code[i].arg = c.code[i].arg
      /\ code[at].arg = Len(c.code)
  <2> DEFINE inst == [c.code[at] EXCEPT !.arg = Len(c.code)]
  <2>1. /\ inst.op = c.code[at].op /\ inst.aux = c.code[at].aux /\ inst.arg = Len(c.code)
    BY <1>3, <1>4, <1>5
  <2> HIDE DEF inst
  <2>2. \A i \in 1..Len(c.code) : code[i] = IF i = at THEN inst ELSE c.code[i]
    BY <1>6 DEF inst
  <2> QED BY <2>1, <2>2
<1>8. IsCompiler(d)
  BY <1>2, <1>6 DEF IsCompiler
<1> QED BY <1>2, <1>6, <1>7, <1>8 DEF d

-----------------------------------------------------------------------------
(* The code so far                                                         *)

(* Every instruction has what it needs at the heights h, and all of them   *)
(* but the jumps at P, whose targets are not known yet, lead to places of  *)
(* the right height.                                                       *)
Consistent(c, h, P) ==
    /\ h \in [0..Len(c.code) -> Nat]
    /\ h[0] = 0
    /\ P \subseteq 1..Len(c.code)
    /\ \A i \in 0..(Len(c.code) - 1) :
           /\ Operable(c, i, h)
           /\ i + 1 \notin P => Flows(c, i, h)

(* The arm behind an unconditional jump is reached: a jump before it       *)
(* lands there.  The unconditional jump itself leads beyond that arm.      *)
Reached(c, P) ==
    \A p \in 1..Len(c.code) : c.code[p].op = "JUMP" =>
        /\ \E q \in 1..p : q \notin P /\ c.code[q].op \in Jumps /\ c.code[q].arg = p
        /\ p \notin P => c.code[p].arg > p

(* The same but for the arm behind the code, when it has just been closed. *)
ReachedBut(c, P, Q) ==
    \A p \in (1..Len(c.code)) \ Q : c.code[p].op = "JUMP" =>
        /\ \E q \in 1..p : q \notin P /\ c.code[q].op \in Jumps /\ c.code[q].arg = p
        /\ p \notin P => c.code[p].arg > p

(* h with the height y behind one more instruction.                        *)
Higher(c, h, y) == [i \in 0..(Len(c.code) + 1) |-> IF i <= Len(c.code) THEN h[i] ELSE y]

(* An index into a pool is one into a longer pool.                         *)
LEMMA RangeGrows ==
    ASSUME NEW i \in Int, NEW p, NEW q, Len(p) \in Nat, Len(q) \in Nat, Len(p) <= Len(q),
           InRange(i, p)
    PROVE  InRange(i, q)
BY DEF InRange

(* One more instruction that has what it needs keeps the code consistent.  *)
LEMMA ExtendConsistent ==
    ASSUME NEW c, IsCompiler(c), NEW d, NEW inst, OneMore(c, d, inst),
           NEW h, NEW P, Consistent(c, h, P), NEW y \in Nat,
           Operable(d, Len(c.code), Higher(c, h, y)),
           NEW Q, Q \subseteq {Len(c.code) + 1},
           Len(c.code) + 1 \notin Q => Flows(d, Len(c.code), Higher(c, h, y))
    PROVE  Consistent(d, Higher(c, h, y), P \cup Q)
<1> DEFINE n == Len(c.code)
           g == Higher(c, h, y)
<1>1. n \in Nat /\ Len(d.code) = n + 1 /\ h \in [0..n -> Nat] /\ P \subseteq 1..n
  BY DEF OneMore, IsCompiler, Consistent
<1>2. /\ g \in [0..(n + 1) -> Nat] /\ g[n + 1] = y
      /\ \A i \in 0..n : g[i] = h[i]
  BY <1>1 DEF Higher
<1> HIDE DEF g, n
<1>3. g[0] = 0
  BY <1>1, <1>2 DEF Consistent
<1>4. ASSUME NEW i \in 0..(n - 1)
      PROVE  Operable(d, i, g) /\ (i + 1 \notin P \cup Q => Flows(d, i, g))
  <2>1. /\ Operable(c, i, h) /\ (i + 1 \notin P => Flows(c, i, h))
        /\ d.code[i + 1] = c.code[i + 1] /\ g[i] = h[i] /\ g[i + 1] = h[i + 1]
    BY <1>1, <1>2, SMTT(30) DEF Consistent, OneMore, n
  <2>2. Operable(d, i, g)
    <3> DEFINE was == c.code[i + 1]
    <3>1. was.arg \in Int
      <4>1. c.code \in Seq(Instructions) /\ i + 1 \in 1..Len(c.code)
        BY <1>1 DEF IsCompiler, n
      <4>2. was \in Instructions
        BY <4>1
      <4> QED BY <4>2 DEF Instructions
    <3>2. /\ Len(c.consts) \in Nat /\ Len(c.accessors) \in Nat /\ Len(c.builtins) \in Nat
          /\ Len(d.consts) \in Nat /\ Len(d.accessors) \in Nat /\ Len(d.builtins) \in Nat
          /\ PoolsGrow(c, d)
      BY DEF IsCompiler, IsStack, OneMore
    <3> HIDE DEF was
    <3>3. /\ InRange(was.arg, c.consts) => InRange(was.arg, d.consts)
          /\ InRange(was.arg, c.accessors) => InRange(was.arg, d.accessors)
          /\ InRange(was.arg, c.builtins) =>
                 InRange(was.arg, d.builtins)
                 /\ d.builtins[was.arg + 1] = c.builtins[was.arg + 1]
      <4>1. /\ Len(c.consts) <= Len(d.consts) /\ Len(c.accessors) <= Len(d.accessors)
            /\ Len(c.builtins) <= Len(d.builtins)
            /\ \A k \in 1..Len(c.builtins) : d.builtins[k] = c.builtins[k]
        BY <3>2 DEF PoolsGrow
      <4>2. ASSUME NEW arg \in Int, 0 <= arg, arg < Len(c.builtins)
            PROVE  d.builtins[arg + 1] = c.builtins[arg + 1]
        BY <3>2, <4>1, <4>2
      <4>3. InRange(was.arg, c.builtins) => d.builtins[was.arg + 1] = c.builtins[was.arg + 1]
        BY <3>1, <4>2, Zenon DEF InRange
      <4> QED BY <3>1, <3>2, <4>1, <4>3, RangeGrows
    <3> QED BY <2>1, <3>3 DEF Operable, was
  <2>3. ASSUME Flows(c, i, h) PROVE Flows(d, i, g)
    <3>1. \A k \in (i + 1)..n : g[k] = h[k] /\ k \in (i + 1)..(n + 1)
      BY <1>1, <1>2
    <3> QED BY <1>1, <2>1, <2>3, <3>1 DEF Flows, n
  <2> QED BY <2>1, <2>2, <2>3
<1>5. Operable(d, n, g) /\ (n + 1 \notin P \cup Q => Flows(d, n, g))
  BY DEF n, g
<1>6. P \cup Q \subseteq 1..(n + 1)
  BY <1>1 DEF n
<1>7. \A i \in 0..n : i \in 0..(n - 1) \/ i = n
  BY <1>1
<1>8. Len(d.code) - 1 = n
  BY <1>1
<1> QED BY <1>1, <1>2, <1>3, <1>4, <1>5, <1>6, <1>7, <1>8 DEF Consistent, g

(* A jump whose target becomes known, at the right height, is patched.     *)
LEMMA PatchConsistent ==
    ASSUME NEW c, IsCompiler(c), NEW h, NEW P, Consistent(c, h, P),
           NEW at \in P, c.code[at].op \in Jumps,
           h[Len(c.code)] = h[at - 1] - Pops(c.code[at]),
           c.code[at].op # "JUMP" => h[at] = h[at - 1] - Pops(c.code[at])
    PROVE  Consistent(Patch(c, at), h, P \ {at})
<1> DEFINE n == Len(c.code)
           d == Patch(c, at)
<1>1. /\ n \in Nat /\ h \in [0..n -> Nat] /\ at \in 1..n /\ P \subseteq 1..n
  BY DEF Consistent, IsCompiler
<1>2. /\ Len(d.code) = n
      /\ d.consts = c.consts /\ d.accessors = c.accessors /\ d.builtins = c.builtins
      /\ \A i \in 1..n : /\ d.code[i].op = c.code[i].op
                         /\ d.code[i].aux = c.code[i].aux
                         /\ i # at => d.code[i].arg = c.code[i].arg
      /\ d.code[at].arg = n
  BY <1>1, PatchFacts
<1> HIDE DEF d, n
<1>3. ASSUME NEW i \in 0..(n - 1)
      PROVE  Operable(d, i, h) /\ (i + 1 \notin P \ {at} => Flows(d, i, h))
  <2>1. Operable(c, i, h) /\ (i + 1 \notin P => Flows(c, i, h)) /\ i + 1 \in 1..n
    BY <1>1 DEF Consistent, n
  <2>2. /\ i + 1 # at => d.code[i + 1].arg = c.code[i + 1].arg
        /\ i + 1 = at => d.code[i + 1].arg = n /\ c.code[i + 1].op \in Jumps
        /\ d.code[i + 1].op = c.code[i + 1].op /\ d.code[i + 1].aux = c.code[i + 1].aux
    BY <1>2, <2>1
  <2>3. Pops(d.code[i + 1]) = Pops(c.code[i + 1])
    BY <2>2 DEF Pops, Jumps, BinaryOps, UnaryOps, OrderedOps, EqualityOps, ArithmeticOps
  <2>4. Pushes(d.code[i + 1]) = Pushes(c.code[i + 1])
    BY <2>2 DEF Pushes
  <2>5. Operable(d, i, h)
    BY <1>2, <2>1, <2>2, <2>3 DEF Operable, Jumps
  <2>6. CASE i + 1 = at
    <3>1. Pushes(c.code[i + 1]) = 0 /\ i = at - 1
      BY <1>1, <2>6, <2>2 DEF Pushes
    <3>2. /\ d.code[i + 1].arg \in (i + 1)..Len(d.code)
          /\ h[d.code[i + 1].arg] = h[i] - Pops(d.code[i + 1]) + Pushes(d.code[i + 1])
      BY <1>1, <1>2, <2>1, <2>2, <2>3, <2>4, <2>6, <3>1 DEF n, Operable
    <3>3. d.code[i + 1].op # "JUMP" =>
              h[i + 1] = h[i] - Pops(d.code[i + 1]) + Pushes(d.code[i + 1])
      BY <1>1, <2>1, <2>2, <2>3, <2>4, <2>6, <3>1 DEF Operable
    <3> QED BY <2>5, <3>2, <3>3 DEF Flows
  <2>7. CASE i + 1 # at
    BY <1>2, <2>1, <2>2, <2>3, <2>4, <2>5, <2>7 DEF Flows, n
  <2> QED BY <2>6, <2>7
<1> QED BY <1>1, <1>2, <1>3 DEF Consistent, d, n

-----------------------------------------------------------------------------
(* What is left to do                                                      *)

(* The operands that a task takes from the stack its code runs on, and     *)
(* what it leaves there together with the tasks that it unfolds to.        *)
Needs(t) ==
    IF t.task = "op" THEN Pops(Instr(t.op, t.arg, 0))
    ELSE IF t.task = "call" THEN t.argc
    ELSE IF t.task \in {"branch", "else"} THEN 1 ELSE 0

Gives(t) == IF t.task = "land" THEN 0 ELSE 1

(* A task that patches a jump emitted before.                              *)
Waits(t) == t.task \in {"else", "land"}

(* A task that pushes one value.                                           *)
IsArm(t) ==
    \/ t.task \in {"const", "load"}
    \/ t.task = "expr" /\ t.tree \in Trees

IsTask(t) ==
    \/ IsArm(t)
    \/ t.task = "land"
    \/ t.task = "op" /\ t.op \in UnaryOps \cup BinaryOps \cup {"MAKE_LIST", "MAKE_MAP"}
                     /\ t.arg \in Nat
    \/ t.task = "call" /\ t.argc \in Nat /\ t.argc >= MinArgs(t.name)
    \/ t.task = "branch" /\ t.op \in {"JUMP_IF_FALSE", "JUMP_IF_TRUE"}
                         /\ IsArm(t.first) /\ IsArm(t.second)
    \/ t.task = "else" /\ IsArm(t.second)

(* The jump that a task waits to patch leaves the stack one lower than the *)
(* task finds it: there the other arm begins.                              *)
Awaited(c, h, t, x) ==
    /\ t.at \in 1..Len(c.code)
    /\ h[t.at - 1] = x /\ h[t.at] = x - 1
    /\ c.code[t.at].op \in IF t.task = "land" THEN {"JUMP"} ELSE {"JUMP_IF_FALSE", "JUMP_IF_TRUE"}

(* The task can be done on a stack of x operands and leaves y of them.     *)
Ready(c, h, t, x, y) ==
    /\ IsTask(t)
    /\ Needs(t) <= x
    /\ y = x - Needs(t) + Gives(t)
    /\ Waits(t) => Awaited(c, h, t, x)

(* The heights of the stack before each task, and behind the last.         *)
Chain(c, h, w, H) ==
    /\ H \in [1..(Len(w) + 1) -> Nat]
    /\ \A i \in 1..Len(w) : Ready(c, h, w[i], H[i], H[i + 1])

Pending(w) == {w[i].at : i \in {j \in 1..Len(w) : Waits(w[j])}}

(* The inductive invariant of the emission.                                *)
EmittingBy(c, w, h, H) ==
    /\ IsCompiler(c)
    /\ IsStack(w)
    /\ Consistent(c, h, Pending(w))
    /\ Reached(c, Pending(w))
    /\ Chain(c, h, w, H)
    /\ H[1] = h[Len(c.code)]
    /\ H[Len(w) + 1] = 1
    /\ \A i, j \in 1..Len(w) : Waits(w[i]) /\ Waits(w[j]) /\ w[i].at = w[j].at => i = j

Emitting(c, w) == \E h, H : EmittingBy(c, w, h, H)

(* The same without the head of the list.                                  *)
TailChain(c, h, w, H) ==
    /\ H \in [1..(Len(w) + 1) -> Nat]
    /\ \A i \in 2..Len(w) : Ready(c, h, w[i], H[i], H[i + 1])

(* Tasks that lead to the height where the rest of the list begins can     *)
(* take the place of its head.                                             *)
LEMMA SpliceChain ==
    ASSUME NEW c, NEW h, NEW w, IsStack(w), w # <<>>, NEW new, IsStack(new),
           NEW H, TailChain(c, h, w, H),
           NEW K, Chain(c, h, new, K), K[Len(new) + 1] = H[2]
    PROVE  \E J : /\ Chain(c, h, new \o Tail(w), J)
                  /\ J[1] = K[1]
                  /\ J[Len(new \o Tail(w)) + 1] = H[Len(w) + 1]
<1> DEFINE m == Len(new)
           n == Len(w)
           v == new \o Tail(w)
           J == [i \in 1..(m + n) |-> IF i <= m THEN K[i] ELSE H[i - m + 1]]
<1>1. /\ n \in Nat \ {0} /\ m \in Nat /\ Len(v) = m + n - 1
      /\ \A i \in 1..m : v[i] = new[i]
      /\ \A i \in 2..n : v[m + i - 1] = w[i]
  BY SpliceFacts
<1> HIDE DEF v
<1>2. /\ H \in [1..(Len(w) + 1) -> Nat]
      /\ \A i \in 2..Len(w) : Ready(c, h, w[i], H[i], H[i + 1])
  BY DEF TailChain
<1>3. K \in [1..(m + 1) -> Nat] /\ \A i \in 1..m : Ready(c, h, new[i], K[i], K[i + 1])
  BY DEF Chain
<1> HIDE DEF m, n
<1>4. ASSUME NEW i \in 1..(m + n) PROVE J[i] \in Nat
  <2>1. CASE i <= m
    BY <1>1, <1>3, <2>1
  <2>2. CASE ~(i <= m)
    <3>1. i - m + 1 \in 1..(n + 1)
      BY <1>1, <2>2
    <3> QED BY <1>2, <2>2, <3>1 DEF n
  <2> QED BY <2>1, <2>2
<1>5. \A i \in 1..(m + 1) : J[i] = K[i]
  BY <1>1, <1>3 DEF m
<1>6. \A i \in 2..(n + 1) : J[m + i - 1] = H[i]
  <2> TAKE i \in 2..(n + 1)
  <2>1. m + i - 1 \in 1..(m + n) /\ ~(m + i - 1 <= m) /\ (m + i - 1) - m + 1 = i
    BY <1>1
  <2> QED BY <2>1
<1> HIDE DEF J
<1>7. ASSUME NEW i \in 1..(m + n - 1) PROVE Ready(c, h, v[i], J[i], J[i + 1])
  <2>1. CASE i <= m
    <3>1. v[i] = new[i] /\ J[i] = K[i] /\ J[i + 1] = K[i + 1] /\ i \in 1..m
      BY <1>1, <1>5, <2>1
    <3> QED BY <1>3, <3>1
  <2>2. CASE ~(i <= m)
    <3> DEFINE k == i - m + 1
    <3>1. /\ k \in 2..n /\ k + 1 \in 2..(n + 1) /\ k \in 2..(n + 1)
          /\ m + k - 1 = i /\ m + (k + 1) - 1 = i + 1
      BY <1>1, <2>2
    <3>2. v[i] = w[k] /\ J[i] = H[k] /\ J[i + 1] = H[k + 1]
      BY <1>1, <1>6, <3>1
    <3> HIDE DEF k
    <3> QED BY <1>2, <3>1, <3>2 DEF n
  <2> QED BY <2>1, <2>2
<1>8. J \in [1..(m + n) -> Nat]
  BY <1>4 DEF J
<1>9. (Len(v) + 1 = m + n) /\ (m + (n + 1) - 1 = m + n) /\ n + 1 \in 2..(n + 1) /\ 1 \in 1..(m + 1)
  BY <1>1
<1>10. J[1] = K[1] /\ J[Len(v) + 1] = H[n + 1]
  BY <1>5, <1>6, <1>9
<1>11. Chain(c, h, v, J)
  BY <1>1, <1>7, <1>8, <1>9 DEF Chain
<1> QED BY <1>10, <1>11 DEF v, n

(* The jumps that a list waits to patch.                                   *)
LEMMA PendingSplice ==
    ASSUME NEW w, IsStack(w), w # <<>>, NEW new, IsStack(new),
           \A i, j \in 1..Len(w) : Waits(w[i]) /\ Waits(w[j]) /\ w[i].at = w[j].at => i = j
    PROVE  Pending(new \o Tail(w))
             = (Pending(w) \ (IF Waits(w[1]) THEN {w[1].at} ELSE {})) \cup Pending(new)
<1> DEFINE m == Len(new)
           n == Len(w)
           v == new \o Tail(w)
           own == IF Waits(w[1]) THEN {w[1].at} ELSE {}
<1>1. /\ n \in Nat \ {0} /\ m \in Nat /\ Len(v) = m + n - 1
      /\ \A i \in 1..m : v[i] = new[i]
      /\ \A i \in 2..n : v[m + i - 1] = w[i]
  BY SpliceFacts
<1> HIDE DEF v, m, n
<1>2. ASSUME NEW p \in Pending(v) PROVE p \in (Pending(w) \ own) \cup Pending(new)
  <2>1. PICK i \in 1..Len(v) : Waits(v[i]) /\ p = v[i].at
    BY DEF Pending
  <2>2. CASE i <= m
    <3>1. i \in 1..Len(new) /\ v[i] = new[i]
      BY <1>1, <2>2 DEF m
    <3> QED BY <2>1, <3>1 DEF Pending
  <2>3. CASE ~(i <= m)
    <3> DEFINE k == i - m + 1
    <3>1. k \in 2..n /\ m + k - 1 = i
      BY <1>1, <2>3
    <3>2. v[i] = w[k] /\ k \in 1..Len(w) /\ k # 1 /\ 1 \in 1..Len(w)
      BY <1>1, <3>1 DEF n
    <3> HIDE DEF k
    <3>3. p \in Pending(w)
      BY <2>1, <3>2 DEF Pending
    <3>4. Waits(w[1]) => w[1].at # p
      BY <2>1, <3>2
    <3> QED BY <3>3, <3>4
  <2> QED BY <2>2, <2>3
<1>3. ASSUME NEW p \in Pending(new) PROVE p \in Pending(v)
  <2>1. PICK i \in 1..Len(new) : Waits(new[i]) /\ p = new[i].at
    BY DEF Pending
  <2>2. v[i] = new[i] /\ i \in 1..Len(v)
    BY <1>1 DEF m
  <2> QED BY <2>1, <2>2 DEF Pending
<1>4. ASSUME NEW p \in Pending(w) \ own PROVE p \in Pending(v)
  <2>1. PICK i \in 1..Len(w) : Waits(w[i]) /\ p = w[i].at
    BY DEF Pending
  <2>2. i # 1
    BY <2>1
  <2>3. i \in 2..n /\ m + i - 1 \in 1..Len(v)
    BY <1>1, <2>2 DEF n
  <2>4. v[m + i - 1] = w[i]
    BY <1>1, <2>3
  <2> QED BY <2>1, <2>3, <2>4 DEF Pending
<1> QED BY <1>2, <1>3, <1>4 DEF v

-----------------------------------------------------------------------------
(* One task                                                                *)

(* What the compiler has emitted stays where it is: opcodes and heights.   *)
Keeps(c, h, d, g) ==
    /\ Len(c.code) <= Len(d.code)
    /\ \A p \in 1..Len(c.code) : d.code[p].op = c.code[p].op
    /\ \A i \in 0..Len(c.code) : g[i] = h[i]

(* So a task that waits for a jump of the old code waits for one of the    *)
(* new code.                                                               *)
LEMMA StaysReady ==
    ASSUME NEW c, IsCompiler(c), NEW d, IsCompiler(d), NEW h, NEW g, Keeps(c, h, d, g),
           NEW t, NEW x, NEW y, Ready(c, h, t, x, y)
    PROVE  Ready(d, g, t, x, y)
<1>1. Len(c.code) \in Nat /\ Len(d.code) \in Nat
  BY DEF IsCompiler
<1>2. ASSUME Awaited(c, h, t, x) PROVE Awaited(d, g, t, x)
  <2>1. /\ t.at \in 1..Len(c.code) /\ t.at \in 1..Len(d.code)
        /\ t.at \in 0..Len(c.code) /\ t.at - 1 \in 0..Len(c.code)
    BY <1>1, <1>2 DEF Awaited, Keeps
  <2> QED BY <1>2, <2>1 DEF Awaited, Keeps
<1> QED BY <1>2 DEF Ready

(* A step that extends the code and leaves the rest of the list alone      *)
(* keeps the invariant, if the new code is in order for the jumps that     *)
(* still wait.                                                             *)
LEMMA TaskDone ==
    ASSUME NEW c, NEW w, NEW h, NEW H, EmittingBy(c, w, h, H), w # <<>>,
           NEW d, IsCompiler(d), NEW g, Keeps(c, h, d, g),
           NEW new, IsStack(new), NEW K, Chain(d, g, new, K),
           K[1] = g[Len(d.code)], K[Len(new) + 1] = H[2],
           \A i, j \in 1..Len(new) : Waits(new[i]) /\ Waits(new[j]) => i = j,
           \A i \in 1..Len(new) : Waits(new[i]) => new[i].at = Len(c.code) + 1,
           NEW P, P = (Pending(w) \ (IF Waits(w[1]) THEN {w[1].at} ELSE {})) \cup Pending(new),
           Consistent(d, g, P), Reached(d, P)
    PROVE  Emitting(d, new \o Tail(w))
<1> DEFINE m == Len(new)
           n == Len(w)
           v == new \o Tail(w)
<1>1. /\ n \in Nat \ {0} /\ m \in Nat /\ Len(v) = m + n - 1 /\ IsStack(v) /\ IsStack(w)
      /\ \A i \in 1..m : v[i] = new[i]
      /\ \A i \in 2..n : v[m + i - 1] = w[i]
  BY SpliceFacts DEF EmittingBy
<1>2. Pending(v) = P
  BY PendingSplice DEF EmittingBy
<1>3. PICK J : Chain(d, g, v, J) /\ J[1] = K[1] /\ J[Len(v) + 1] = H[Len(w) + 1]
  <2>1. H \in [1..(Len(w) + 1) -> Nat]
    BY DEF EmittingBy, Chain
  <2>2. ASSUME NEW i \in 2..Len(w) PROVE Ready(d, g, w[i], H[i], H[i + 1])
    <3>1. Ready(c, h, w[i], H[i], H[i + 1])
      BY <1>1 DEF EmittingBy, Chain
    <3>2. IsCompiler(c)
      BY DEF EmittingBy
    <3> QED BY <3>1, <3>2, StaysReady
  <2>3. IsStack(w)
    BY DEF EmittingBy
  <2>4. TailChain(d, g, w, H)
    BY <2>1, <2>2 DEF TailChain
  <2> HIDE DEF v
  <2> QED BY <2>3, <2>4, SpliceChain DEF v
<1>4. ASSUME NEW i \in 2..n, Waits(w[i]) PROVE w[i].at \in Nat /\ w[i].at # Len(c.code) + 1
  <2>1. i \in 1..Len(w) /\ Len(c.code) \in Nat
    BY <1>1 DEF EmittingBy, IsCompiler
  <2>2. Awaited(c, h, w[i], H[i])
    BY <1>4, <2>1 DEF EmittingBy, Chain, Ready
  <2> QED BY <2>1, <2>2 DEF Awaited
<1> HIDE DEF v, m, n
<1>5. ASSUME NEW i \in 1..Len(v), NEW j \in 1..Len(v),
             Waits(v[i]), Waits(v[j]), v[i].at = v[j].at
      PROVE  i = j
  <2>1. CASE i <= m /\ j <= m
    BY <1>1, <1>5, <2>1 DEF m
  <2>2. ASSUME NEW k \in 1..Len(v), ~(k <= m)
        PROVE  /\ k - m + 1 \in 2..n /\ v[k] = w[k - m + 1]
    <3>1. k - m + 1 \in 2..n /\ m + (k - m + 1) - 1 = k
      BY <1>1, <2>2
    <3> QED BY <1>1, <3>1
  <2>3. CASE ~(i <= m) /\ ~(j <= m)
    <3> DEFINE k == i - m + 1
               l == j - m + 1
    <3>1. k \in 2..n /\ l \in 2..n /\ v[i] = w[k] /\ v[j] = w[l]
      BY <2>2, <2>3
    <3>2. k \in 1..Len(w) /\ l \in 1..Len(w)
      BY <1>1, <3>1 DEF n
    <3> HIDE DEF k, l
    <3>3. k = l
      BY <1>5, <3>1, <3>2 DEF EmittingBy
    <3> QED BY <1>1, <3>3 DEF k, l
  <2>4. ASSUME NEW k \in 1..Len(v), NEW l \in 1..Len(v), k <= m, ~(l <= m),
               Waits(v[k]), Waits(v[l])
        PROVE  v[k].at # v[l].at
    <3>1. v[k] = new[k] /\ k \in 1..Len(new)
      BY <1>1, <2>4 DEF m
    <3>2. l - m + 1 \in 2..n /\ v[l] = w[l - m + 1]
      BY <2>2, <2>4
    <3>3. v[k].at = Len(c.code) + 1
      BY <2>4, <3>1
    <3>4. v[l].at # Len(c.code) + 1
      BY <1>4, <2>4, <3>2
    <3> QED BY <3>3, <3>4
  <2> QED BY <1>5, <2>1, <2>3, <2>4
<1>6. J[1] = g[Len(d.code)] /\ J[Len(v) + 1] = 1
  BY <1>3 DEF EmittingBy
<1>7. EmittingBy(d, v, g, J)
  BY <1>1, <1>2, <1>3, <1>5, <1>6 DEF EmittingBy
<1> QED BY <1>7 DEF Emitting, v

-----------------------------------------------------------------------------
(* What a node unfolds to                                                  *)

(* m operands are pushed, and one task makes one value of them.            *)
ArmsThen(new, m) ==
    /\ IsStack(new)
    /\ Len(new) = m + 1
    /\ \A i \in 1..m : IsArm(new[i])
    /\ IsTask(new[m + 1]) /\ ~Waits(new[m + 1])
    /\ Needs(new[m + 1]) = m /\ Gives(new[m + 1]) = 1

(* Short lists of tasks are lists.                                         *)
LEMMA TupleFacts ==
    ASSUME NEW r, NEW s, NEW t
    PROVE  /\ IsStack(<<>>) /\ Len(<<>>) = 0
           /\ IsStack(<<r>>) /\ Len(<<r>>) = 1 /\ <<r>>[1] = r
           /\ IsStack(<<r, s>>) /\ Len(<<r, s>>) = 2
           /\ <<r, s>>[1] = r /\ <<r, s>>[2] = s
           /\ IsStack(<<r, s, t>>) /\ Len(<<r, s, t>>) = 3
           /\ <<r, s, t>>[1] = r /\ <<r, s, t>>[2] = s /\ <<r, s, t>>[3] = t
<1>1. /\ <<>> \in Seq({r, s, t}) /\ <<r>> \in Seq({r, s, t})
      /\ <<r, s>> \in Seq({r, s, t}) /\ <<r, s, t>> \in Seq({r, s, t})
  OBVIOUS
<1>2. /\ IsStack(<<>>) /\ IsStack(<<r>>) /\ IsStack(<<r, s>>) /\ IsStack(<<r, s, t>>)
  BY <1>1, OwnRange
<1> QED BY <1>2

(* A task that pushes a value needs nothing and waits for nothing.         *)
LEMMA ArmFacts ==
    ASSUME NEW t, IsArm(t)
    PROVE  IsTask(t) /\ ~Waits(t) /\ Needs(t) = 0 /\ Gives(t) = 1
BY DEF IsArm, IsTask, Waits, Needs, Gives

(* Constants, factors and parts of a tree are pushed.                      *)
LEMMA ArmKinds ==
    /\ \A v : IsArm(Const(v))
    /\ \A a : IsArm(Load(a))
    /\ \A b \in Trees : IsArm(Expr(b))
BY DEF IsArm, Const, Load, Expr

(* m operands become one value.                                            *)
IsReducer(t, m) == IsTask(t) /\ ~Waits(t) /\ Needs(t) = m /\ Gives(t) = 1

(* Operators, list and map constructors, calls and branches are reducers.  *)
LEMMA OpTask ==
    ASSUME NEW op, NEW arg
    PROVE  /\ Needs(Op(op, arg)) = Pops(Instr(op, arg, 0))
           /\ ~Waits(Op(op, arg)) /\ Gives(Op(op, arg)) = 1
           /\ Op(op, arg).task = "op" /\ Op(op, arg).op = op /\ Op(op, arg).arg = arg
<1> DEFINE t == Op(op, arg)
<1>1. t.task = "op" /\ t.op = op /\ t.arg = arg
  BY DEF Op
<1> HIDE DEF t
<1>2. Needs(t) = Pops(Instr(op, arg, 0))
  BY <1>1, Zenon DEF Needs
<1>3. ~Waits(t) /\ Gives(t) = 1
  BY <1>1 DEF Waits, Gives
<1> QED BY <1>1, <1>2, <1>3 DEF t

(* An operator with the operands that the VM pops is a reducer.            *)
LEMMA OpReducer ==
    ASSUME NEW op \in UnaryOps \cup BinaryOps \cup {"MAKE_LIST", "MAKE_MAP"}, NEW arg \in Nat
    PROVE  IsReducer(Op(op, arg), Pops(Instr(op, arg, 0)))
<1> DEFINE t == Op(op, arg)
<1>1. /\ Needs(t) = Pops(Instr(op, arg, 0)) /\ ~Waits(t) /\ Gives(t) = 1
      /\ t.task = "op" /\ t.op = op /\ t.arg = arg
  BY OpTask
<1> HIDE DEF t
<1>2. IsTask(t)
  BY <1>1 DEF IsTask
<1> QED BY <1>1, <1>2 DEF IsReducer, t

(* NOT and NEG take one operand.                                           *)
LEMMA UnaryTask ==
    ASSUME NEW op \in UnaryOps
    PROVE  IsReducer(Op(op, 0), 1)
<1>1. Pops(Instr(op, 0, 0)) = 1
  BY DEF Pops, Instr, UnaryOps, BinaryOps, OrderedOps, EqualityOps, ArithmeticOps
<1>2. 0 \in Nat /\ op \in UnaryOps \cup BinaryOps \cup {"MAKE_LIST", "MAKE_MAP"}
  OBVIOUS
<1> QED BY <1>1, <1>2, OpReducer

(* The other operators take two.                                           *)
LEMMA BinaryTask ==
    ASSUME NEW op \in BinaryOps
    PROVE  IsReducer(Op(op, 0), 2)
<1>1. Pops(Instr(op, 0, 0)) = 2
  BY DEF Pops, Instr, UnaryOps, BinaryOps, OrderedOps, EqualityOps, ArithmeticOps
<1>2. 0 \in Nat /\ op \in UnaryOps \cup BinaryOps \cup {"MAKE_LIST", "MAKE_MAP"}
  OBVIOUS
<1> QED BY <1>1, <1>2, OpReducer

(* A list of k items takes k, a map of k pairs twice as many.              *)
LEMMA MakeTask ==
    ASSUME NEW k \in Nat
    PROVE  IsReducer(Op("MAKE_LIST", k), k) /\ IsReducer(Op("MAKE_MAP", k), 2 * k)
<1>1. Pops(Instr("MAKE_LIST", k, 0)) = k /\ Pops(Instr("MAKE_MAP", k, 0)) = 2 * k
  BY DEF Pops, Instr, UnaryOps, BinaryOps, OrderedOps, EqualityOps, ArithmeticOps
<1>2. /\ "MAKE_LIST" \in UnaryOps \cup BinaryOps \cup {"MAKE_LIST", "MAKE_MAP"}
      /\ "MAKE_MAP" \in UnaryOps \cup BinaryOps \cup {"MAKE_LIST", "MAKE_MAP"}
  OBVIOUS
<1> QED BY <1>1, <1>2, OpReducer

(* A builtin takes its arguments.                                          *)
LEMMA CallTask ==
    ASSUME NEW name, NEW k \in Nat, k >= MinArgs(name)
    PROVE  IsReducer(Call(name, k), k)
<1> DEFINE t == Call(name, k)
<1>1. t.task = "call" /\ t.name = name /\ t.argc = k
  BY DEF Call
<1> HIDE DEF t
<1>2. Needs(t) = k /\ ~Waits(t) /\ Gives(t) = 1
  BY <1>1 DEF Needs, Waits, Gives
<1>3. IsTask(t)
  BY <1>1 DEF IsTask
<1> QED BY <1>2, <1>3 DEF IsReducer, t

(* A branch takes its condition.                                           *)
LEMMA BranchTask ==
    ASSUME NEW op \in {"JUMP_IF_FALSE", "JUMP_IF_TRUE"}, NEW r, IsArm(r), NEW s, IsArm(s)
    PROVE  IsReducer(Branch(op, r, s), 1)
<1> DEFINE t == Branch(op, r, s)
<1>1. t.task = "branch" /\ t.op = op /\ t.first = r /\ t.second = s
  BY DEF Branch
<1> HIDE DEF t
<1>2. Needs(t) = 1 /\ ~Waits(t) /\ Gives(t) = 1
  BY <1>1 DEF Needs, Waits, Gives
<1>3. IsTask(t)
  BY <1>1 DEF IsTask
<1> QED BY <1>2, <1>3 DEF IsReducer, t

(* An arm is a reducer of nothing.                                         *)
LEMMA ArmTask ==
    ASSUME NEW t, IsArm(t)
    PROVE  IsReducer(t, 0)
BY ArmFacts DEF IsReducer

(* A reducer alone, behind one arm, or behind two.                         *)
LEMMA ShortArms ==
    ASSUME NEW r, NEW s, NEW t
    PROVE  /\ IsReducer(t, 0) => ArmsThen(<<t>>, 0)
           /\ IsArm(r) /\ IsReducer(t, 1) => ArmsThen(<<r, t>>, 1)
           /\ IsArm(r) /\ IsArm(s) /\ IsReducer(t, 2) => ArmsThen(<<r, s, t>>, 2)
<1>1. IsReducer(t, 0) => ArmsThen(<<t>>, 0)
  <2>0. IsStack(<<t>>)
    BY TupleFacts, Zenon
  <2>1. Len(<<t>>) = 0 + 1 /\ <<t>>[0 + 1] = t
    OBVIOUS
  <2>2. \A i \in 1..0 : IsArm(<<t>>[i])
    OBVIOUS
  <2> QED BY <2>0, <2>1, <2>2 DEF ArmsThen, IsReducer
<1>2. IsArm(r) /\ IsReducer(t, 1) => ArmsThen(<<r, t>>, 1)
  <2>0. IsStack(<<r, t>>)
    BY TupleFacts, Zenon
  <2>1. Len(<<r, t>>) = 1 + 1 /\ <<r, t>>[1 + 1] = t /\ <<r, t>>[1] = r
    OBVIOUS
  <2>2. \A i \in 1..1 : <<r, t>>[i] = r
    BY <2>1
  <2> QED BY <2>0, <2>1, <2>2 DEF ArmsThen, IsReducer
<1>3. IsArm(r) /\ IsArm(s) /\ IsReducer(t, 2) => ArmsThen(<<r, s, t>>, 2)
  <2>0. IsStack(<<r, s, t>>)
    BY TupleFacts, Zenon
  <2>1. /\ Len(<<r, s, t>>) = 2 + 1 /\ <<r, s, t>>[2 + 1] = t
        /\ <<r, s, t>>[1] = r /\ <<r, s, t>>[2] = s
    OBVIOUS
  <2>2. \A i \in 1..2 : <<r, s, t>>[i] = r \/ <<r, s, t>>[i] = s
    <3>1. \A i \in 1..2 : i = 1 \/ i = 2
      OBVIOUS
    <3> QED BY <2>1, <3>1
  <2> QED BY <2>0, <2>1, <2>2 DEF ArmsThen, IsReducer
<1> QED BY <1>1, <1>2, <1>3

(* Some tasks that push values, and a task behind them.                    *)
LEMMA AppendArms ==
    ASSUME NEW m \in Nat, NEW arms, arms = [i \in 1..m |-> arms[i]],
           \A i \in 1..m : IsArm(arms[i]),
           NEW t, IsReducer(t, m)
    PROVE  ArmsThen(Append(arms, t), m)
<1>1. IsStack(arms) /\ Len(arms) = m
  BY SegmentIsSequence
<1>2. /\ IsStack(Append(arms, t)) /\ Len(Append(arms, t)) = m + 1
      /\ \A i \in 1..m : Append(arms, t)[i] = arms[i]
      /\ Append(arms, t)[m + 1] = t
  BY <1>1, AppendFacts
<1> QED BY <1>2 DEF ArmsThen, IsReducer

(* Every kind of node unfolds in this way.                                 *)
LEMMA UnfoldsToArms ==
    ASSUME NEW b \in Trees
    PROVE  \E m \in Nat : ArmsThen(emitExpr(b), m)
<1>1. IsTree(b) /\ Children(b) \subseteq Trees
  BY TreeAssumption
<1>2. CASE b.node = "literal"
  <2>1. emitExpr(b) = <<Const(b.value)>>
    BY <1>2 DEF emitExpr
  <2>2. ArmsThen(<<Const(b.value)>>, 0)
    BY ShortArms, ArmTask, ArmKinds
  <2> QED BY <2>1, <2>2
<1>3. CASE b.node = "ref"
  <2>1. emitExpr(b) = <<Load(b.accessor)>>
    BY <1>3 DEF emitExpr
  <2>2. ArmsThen(<<Load(b.accessor)>>, 0)
    BY ShortArms, ArmTask, ArmKinds
  <2> QED BY <2>1, <2>2
<1>4. CASE b.node \in {"list", "map", "call"}
  <2>1. Len(b.args) \in Nat /\ DOMAIN b.args = 1..Len(b.args)
    BY <1>1, <1>4 DEF IsTree
  <2>2. \A i \in 1..Len(b.args) : b.args[i] \in Trees
    <3>1. Children(b) = Range(b.args)
      BY <1>4 DEF Children
    <3> QED BY <1>1, <2>1, <3>1 DEF Range
  <2> DEFINE n == Len(b.args)
             arms == Exprs(b.args)
  <2>3. arms = [i \in 1..n |-> arms[i]] /\ \A i \in 1..n : IsArm(arms[i])
    <3>1. arms = [i \in 1..n |-> Expr(b.args[i])]
      BY <2>1 DEF Exprs
    <3> HIDE DEF arms, n
    <3>2. \A i \in 1..n : arms[i] = Expr(b.args[i])
      BY <3>1
    <3> QED BY <2>2, <3>1, <3>2, ArmKinds DEF n
  <2>4. CASE b.node = "list"
    <3>1. emitExpr(b) = Append(arms, Op("MAKE_LIST", n))
      BY <2>4 DEF emitExpr
    <3> HIDE DEF arms
    <3>2. ArmsThen(Append(arms, Op("MAKE_LIST", n)), n)
      BY <2>1, <2>3, AppendArms, MakeTask
    <3> QED BY <2>1, <3>1, <3>2
  <2>5. CASE b.node = "call"
    <3>1. emitExpr(b) = Append(arms, Call(b.name, n))
      BY <2>5 DEF emitExpr
    <3>2. n >= MinArgs(b.name)
      BY <1>1, <2>5 DEF IsTree
    <3> HIDE DEF arms
    <3>3. ArmsThen(Append(arms, Call(b.name, n)), n)
      BY <2>1, <2>3, <3>2, AppendArms, CallTask
    <3> QED BY <2>1, <3>1, <3>3
  <2>6. CASE b.node = "map"
    <3> DEFINE k == Len(b.keys)
               pairs == Entries(b.keys, b.args)
    <3>1. emitExpr(b) = Append(pairs, Op("MAKE_MAP", k))
      BY <2>6 DEF emitExpr
    <3>2. k \in Nat /\ k = Len(b.args)
      BY <1>1, <2>1, <2>6 DEF IsTree
    <3>3. pairs = [j \in 1..(2 * k) |-> IF j % 2 = 1 THEN Const(Str(b.keys[(j + 1) \div 2]))
                                                  ELSE Expr(b.args[j \div 2])]
      BY Zenon DEF Entries
    <3> HIDE DEF pairs, k
    <3>4. ASSUME NEW j \in 1..(2 * k) PROVE IsArm(pairs[j])
      <4>1. CASE j % 2 = 1
        <5>1. pairs[j] = Const(Str(b.keys[(j + 1) \div 2]))
          BY <3>3, <4>1
        <5> QED BY <5>1, ArmKinds
      <4>2. CASE j % 2 # 1
        <5>1. pairs[j] = Expr(b.args[j \div 2])
          BY <3>3, <4>2
        <5>2. j \div 2 \in 1..k
          BY <3>2, <4>2
        <5> QED BY <2>2, <3>2, <5>1, <5>2, ArmKinds
      <4> QED BY <4>1, <4>2
    <3>5. pairs = [j \in 1..(2 * k) |-> pairs[j]]
      BY <3>3
    <3>6. 2 * k \in Nat
      BY <3>2
    <3>7. ArmsThen(Append(pairs, Op("MAKE_MAP", k)), 2 * k)
      BY <3>2, <3>4, <3>5, <3>6, AppendArms, MakeTask
    <3> QED BY <3>1, <3>6, <3>7 DEF k
  <2> QED BY <1>4, <2>4, <2>5, <2>6
<1>5. CASE b.node = "unary"
  <2> DEFINE op == IF b.op = "!" THEN "NOT" ELSE "NEG"
  <2>1. emitExpr(b) = <<Expr(b.expr), Op(op, 0)>>
    BY <1>5 DEF emitExpr
  <2>2. op \in UnaryOps
    BY DEF UnaryOps
  <2>3. IsArm(Expr(b.expr))
    BY <1>1, <1>5, ArmKinds DEF Children
  <2> HIDE DEF op
  <2>4. ArmsThen(<<Expr(b.expr), Op(op, 0)>>, 1)
    BY <2>2, <2>3, ShortArms, UnaryTask
  <2> QED BY <2>1, <2>4
<1>6. CASE b.node = "conditional"
  <2> DEFINE t == Branch("JUMP_IF_FALSE", Expr(b.then), Expr(b.else))
  <2>1. emitExpr(b) = <<Expr(b.cond), t>>
    BY <1>6 DEF emitExpr
  <2>2. IsArm(Expr(b.cond)) /\ IsArm(Expr(b.then)) /\ IsArm(Expr(b.else))
    BY <1>1, <1>6, ArmKinds DEF Children
  <2>3. IsReducer(t, 1)
    BY <2>2, BranchTask
  <2> HIDE DEF t
  <2>4. ArmsThen(<<Expr(b.cond), t>>, 1)
    BY <2>2, <2>3, ShortArms
  <2> QED BY <2>1, <2>4
<1>7. CASE b.node = "binary"
  <2>1. IsArm(Expr(b.left)) /\ IsArm(Expr(b.right))
    BY <1>1, <1>7, ArmKinds DEF Children
  <2>2. CASE b.op \in {"&&", "||"}
    <3> DEFINE op == IF b.op = "&&" THEN "JUMP_IF_FALSE" ELSE "JUMP_IF_TRUE"
               t == Branch(op, Expr(b.right), Const(Bool(b.op = "||")))
    <3>1. emitExpr(b) = <<Expr(b.left), t>>
      BY <1>7, <2>2 DEF emitExpr, emitShortCircuitBinary
    <3>2. op \in {"JUMP_IF_FALSE", "JUMP_IF_TRUE"}
      OBVIOUS
    <3> HIDE DEF op
    <3>3. IsReducer(t, 1)
      BY <2>1, <3>2, ArmKinds, BranchTask
    <3> HIDE DEF t
    <3>4. ArmsThen(<<Expr(b.left), t>>, 1)
      BY <2>1, <3>3, ShortArms
    <3> QED BY <3>1, <3>4
  <2>3. CASE b.op \notin {"&&", "||"}
    <3>1. emitExpr(b) = <<Expr(b.left), Expr(b.right), Op(b.op, 0)>>
      BY <1>7, <2>3 DEF emitExpr
    <3>2. b.op \in BinaryOps
      BY <1>1, <1>7, <2>3 DEF IsTree
    <3>3. ArmsThen(<<Expr(b.left), Expr(b.right), Op(b.op, 0)>>, 2)
      BY <2>1, <3>2, ShortArms, BinaryTask
    <3> QED BY <3>1, <3>3
  <2> QED BY <2>2, <2>3
<1> QED BY <1>1, <1>2, <1>3, <1>4, <1>5, <1>6, <1>7 DEF IsTree

(* None of these tasks waits.                                              *)
LEMMA ArmsWait ==
    ASSUME NEW new, NEW m \in Nat, ArmsThen(new, m)
    PROVE  \A i \in 1..Len(new) : ~Waits(new[i])
<1>1. /\ Len(new) = m + 1 /\ ~Waits(new[m + 1])
      /\ \A i \in 1..m : ~Waits(new[i])
  BY ArmFacts DEF ArmsThen
<1>2. \A i \in 1..(m + 1) : i = m + 1 \/ i \in 1..m
  OBVIOUS
<1> QED BY <1>1, <1>2

(* The heights of such a list rise by one with every operand.              *)
Rising(m, x) == [i \in 1..(m + 2) |-> IF i = m + 2 THEN x + 1 ELSE x + i - 1]

(* So the list is a chain from x to one more.                              *)
LEMMA ArmsChain ==
    ASSUME NEW c, NEW h, NEW new, NEW m \in Nat, ArmsThen(new, m), NEW x \in Nat
    PROVE  /\ Chain(c, h, new, Rising(m, x))
           /\ Rising(m, x)[1] = x /\ Rising(m, x)[Len(new) + 1] = x + 1
<1> DEFINE K == Rising(m, x)
<1>1. /\ Len(new) = m + 1
      /\ \A i \in 1..m : IsTask(new[i]) /\ ~Waits(new[i]) /\ Needs(new[i]) = 0 /\ Gives(new[i]) = 1
      /\ IsTask(new[m + 1]) /\ ~Waits(new[m + 1])
      /\ Needs(new[m + 1]) = m /\ Gives(new[m + 1]) = 1
  BY ArmFacts DEF ArmsThen
<1>2. K \in [1..(m + 2) -> Nat] /\ K[1] = x /\ K[m + 2] = x + 1
      /\ \A i \in 1..(m + 1) : K[i] = x + i - 1
  BY DEF Rising
<1> HIDE DEF K
<1>3. ASSUME NEW i \in 1..(m + 1) PROVE Ready(c, h, new[i], K[i], K[i + 1])
  <2>1. CASE i = m + 1
    <3>1. K[i] = x + m /\ K[i + 1] = x + 1
      BY <1>2, <2>1
    <3> QED BY <1>1, <2>1, <3>1 DEF Ready
  <2>2. CASE i # m + 1
    <3>1. i \in 1..m /\ K[i] = x + i - 1 /\ K[i + 1] = x + i
      BY <1>2, <2>2
    <3> QED BY <1>1, <3>1 DEF Ready
  <2> QED BY <2>1, <2>2
<1>5. (m + 1) + 1 = m + 2
  OBVIOUS
<1>6. Chain(c, h, new, K)
  BY <1>1, <1>2, <1>3, <1>5 DEF Chain
<1> QED BY <1>1, <1>2, <1>5, <1>6 DEF K

-----------------------------------------------------------------------------
(* Every task keeps the invariant                                          *)

(* The next task can be done.                                              *)
LEMMA HeadReady ==
    ASSUME NEW c, NEW w, NEW h, NEW H, EmittingBy(c, w, h, H), w # <<>>
    PROVE  /\ IsCompiler(c) /\ IsStack(w) /\ Len(c.code) \in Nat
           /\ Len(w) \in Nat \ {0} /\ Head(w) = w[1]
           /\ Ready(c, h, w[1], H[1], H[2])
           /\ H[1] \in Nat /\ H[2] \in Nat /\ H[1] = h[Len(c.code)]
           /\ Consistent(c, h, Pending(w)) /\ Reached(c, Pending(w))
<1>1. IsCompiler(c) /\ IsStack(w) /\ Consistent(c, h, Pending(w)) /\ Reached(c, Pending(w))
      /\ Chain(c, h, w, H) /\ H[1] = h[Len(c.code)]
  BY DEF EmittingBy
<1>2. Len(w) \in Nat \ {0} /\ Head(w) = w[1]
  BY <1>1 DEF IsStack
<1>3. Len(c.code) \in Nat
  BY <1>1 DEF IsCompiler
<1>4. 1 \in 1..Len(w) /\ 1 \in 1..(Len(w) + 1) /\ 2 \in 1..(Len(w) + 1)
  BY <1>2
<1>5. Ready(c, h, w[1], H[1], H[1 + 1]) /\ H[1] \in Nat /\ H[2] \in Nat
  BY <1>1, <1>4 DEF Chain
<1> QED BY <1>1, <1>2, <1>3, <1>5

(* A list without waiting tasks, and one that waits for one jump.          *)
LEMMA PendingFacts ==
    /\ \A new : (\A i \in 1..Len(new) : ~Waits(new[i])) => Pending(new) = {}
    /\ Pending(<<>>) = {}
    /\ \A s, t : ~Waits(s) /\ Waits(t) => Pending(<<s, t>>) = {t.at}
<1>1. \A new : (\A i \in 1..Len(new) : ~Waits(new[i])) => Pending(new) = {}
  BY DEF Pending
<1>2. Len(<<>>) = 0
  OBVIOUS
<1>3. ASSUME NEW s, NEW t, ~Waits(s), Waits(t) PROVE Pending(<<s, t>>) = {t.at}
  <2> DEFINE w == <<s, t>>
  <2>1. Len(w) = 2 /\ w[1] = s /\ w[2] = t /\ \A i \in 1..2 : i = 1 \/ i = 2
    OBVIOUS
  <2> HIDE DEF w
  <2>2. {j \in 1..Len(w) : Waits(w[j])} = {2}
    BY <1>3, <2>1
  <2>3. Pending(w) = {w[i].at : i \in {2}}
    BY <2>2 DEF Pending
  <2> QED BY <2>1, <2>3 DEF w
<1> QED BY <1>1, <1>2, <1>3

(* A node of the tree.                                                     *)
LEMMA ExprStep ==
    ASSUME NEW c, NEW w, NEW h, NEW H, EmittingBy(c, w, h, H), w # <<>>,
           w[1].task = "expr"
    PROVE  Emitting(c, emitExpr(w[1].tree) \o Tail(w))
<1> DEFINE t == w[1]
           new == emitExpr(t.tree)
<1>1. /\ IsCompiler(c) /\ Ready(c, h, t, H[1], H[2]) /\ H[1] \in Nat
      /\ H[1] = h[Len(c.code)] /\ Len(c.code) \in Nat
      /\ Consistent(c, h, Pending(w)) /\ Reached(c, Pending(w))
  BY HeadReady
<1>2. IsArm(t) /\ t.tree \in Trees
  BY <1>1 DEF Ready, IsTask, IsArm
<1>3. ~Waits(t) /\ H[2] = H[1] + 1
  BY <1>1, <1>2, ArmFacts DEF Ready
<1>4. PICK m \in Nat : ArmsThen(new, m)
  BY <1>2, UnfoldsToArms
<1> HIDE DEF new
<1>5. IsStack(new) /\ Len(new) \in Nat
  BY <1>4 DEF ArmsThen
<1>6. PICK K : Chain(c, h, new, K) /\ K[1] = H[1] /\ K[Len(new) + 1] = H[1] + 1
  <2> DEFINE x == H[1]
  <2>1. x \in Nat
    BY <1>1
  <2> HIDE DEF x
  <2>2. /\ Chain(c, h, new, Rising(m, x))
        /\ Rising(m, x)[1] = x /\ Rising(m, x)[Len(new) + 1] = x + 1
    BY <1>4, <2>1, ArmsChain
  <2> QED BY <2>2 DEF x
<1>7. \A i \in 1..Len(new) : ~Waits(new[i])
  BY <1>4, ArmsWait
<1>8. Pending(new) = {}
  BY <1>7, PendingFacts
<1>9. Keeps(c, h, c, h)
  BY <1>1 DEF Keeps
<1>10. Pending(w) = (Pending(w) \ (IF Waits(w[1]) THEN {w[1].at} ELSE {})) \cup Pending(new)
  BY <1>3, <1>8
<1> QED BY <1>1, <1>3, <1>5, <1>6, <1>7, <1>9, <1>10, TaskDone DEF new

(* What one more instruction leaves as it was.                             *)
LEMMA OneMoreKeeps ==
    ASSUME NEW c, IsCompiler(c), NEW d, NEW inst, OneMore(c, d, inst), NEW h, NEW P,
           Consistent(c, h, P), NEW y
    PROVE  /\ Keeps(c, h, d, Higher(c, h, y))
           /\ Higher(c, h, y)[Len(c.code)] = h[Len(c.code)]
           /\ Higher(c, h, y)[Len(c.code) + 1] = y
<1>1. Len(c.code) \in Nat /\ Len(d.code) = Len(c.code) + 1
      /\ \A i \in 1..Len(c.code) : d.code[i] = c.code[i]
  BY DEF IsCompiler, OneMore
<1>2. \A i \in 0..Len(c.code) : Higher(c, h, y)[i] = h[i]
  BY <1>1 DEF Higher
<1>3. Higher(c, h, y)[Len(c.code) + 1] = y
  BY <1>1 DEF Higher
<1> QED BY <1>1, <1>2, <1>3 DEF Keeps

(* Another instruction leaves the arms reached that were reached.          *)
LEMMA OneMoreReached ==
    ASSUME NEW c, IsCompiler(c), NEW d, NEW inst, OneMore(c, d, inst),
           NEW P, Reached(c, P), NEW Q, Q \subseteq {Len(c.code) + 1}
    PROVE  /\ ReachedBut(d, P \cup Q, {Len(c.code) + 1})
           /\ inst.op # "JUMP" => Reached(d, P \cup Q)
<1>1. Len(c.code) \in Nat /\ Len(d.code) = Len(c.code) + 1
      /\ d.code[Len(c.code) + 1] = inst
      /\ \A i \in 1..Len(c.code) : d.code[i] = c.code[i]
  BY DEF IsCompiler, OneMore
<1>2. ASSUME NEW p \in 1..Len(c.code), d.code[p].op = "JUMP"
      PROVE  /\ \E q \in 1..p : /\ q \notin P \cup Q
                                /\ d.code[q].op \in Jumps /\ d.code[q].arg = p
             /\ p \notin P \cup Q => d.code[p].arg > p
  <2>1. c.code[p].op = "JUMP" /\ d.code[p] = c.code[p]
    BY <1>1, <1>2
  <2>2. PICK q \in 1..p : q \notin P /\ c.code[q].op \in Jumps /\ c.code[q].arg = p
    BY <2>1 DEF Reached
  <2>3. q \in 1..Len(c.code) /\ q # Len(c.code) + 1
    BY <1>1
  <2>4. d.code[q] = c.code[q] /\ q \notin P \cup Q
    BY <1>1, <2>2, <2>3
  <2>5. p \notin P => c.code[p].arg > p
    BY <2>1 DEF Reached
  <2> QED BY <2>1, <2>2, <2>4, <2>5
<1>3. \A p \in 1..Len(d.code) : p \in 1..Len(c.code) \/ p = Len(c.code) + 1
  BY <1>1
<1>4. ReachedBut(d, P \cup Q, {Len(c.code) + 1})
  BY <1>2, <1>3 DEF ReachedBut
<1>5. ASSUME inst.op # "JUMP" PROVE Reached(d, P \cup Q)
  <2>1. \A p \in 1..Len(d.code) : d.code[p].op = "JUMP" => p \in 1..Len(c.code)
    BY <1>1, <1>3, <1>5
  <2> QED BY <1>2, <2>1 DEF Reached
<1> QED BY <1>4, <1>5

(* A task that emits one instruction and is done.                          *)
LEMMA PushStep ==
    ASSUME NEW c, NEW w, NEW h, NEW H, EmittingBy(c, w, h, H), w # <<>>,
           NEW d, NEW inst, OneMore(c, d, inst), inst.op \in OpCodes \ Jumps,
           IsReducer(w[1], Pops(inst)), 0 <= Pops(inst),
           inst.op = "PUSH_CONST"  => InRange(inst.arg, d.consts),
           inst.op = "LOAD_FACTOR" => InRange(inst.arg, d.accessors),
           inst.op = "CALL_BUILTIN" =>
               /\ InRange(inst.arg, d.builtins)
               /\ inst.aux >= MinArgs(d.builtins[inst.arg + 1])
    PROVE  Emitting(d, <<>> \o Tail(w))
<1> DEFINE n == Len(c.code)
           g == Higher(c, h, H[2])
           K == [i \in 1..1 |-> H[2]]
<1>1. /\ IsCompiler(c) /\ Ready(c, h, w[1], H[1], H[2]) /\ H[1] \in Nat /\ H[2] \in Nat
      /\ H[1] = h[n] /\ n \in Nat
      /\ Consistent(c, h, Pending(w)) /\ Reached(c, Pending(w))
  BY HeadReady
<1>2. ~Waits(w[1]) /\ H[2] = H[1] - Pops(inst) + 1 /\ Pops(inst) <= H[1]
  BY <1>1 DEF Ready, IsReducer
<1>3. IsCompiler(d) /\ Len(d.code) = n + 1 /\ d.code[n + 1] = inst
  BY DEF OneMore
<1>4. Keeps(c, h, d, g) /\ g[n] = H[1] /\ g[n + 1] = H[2]
  BY <1>1, OneMoreKeeps
<1> HIDE DEF g, n
<1>5. Operable(d, n, g)
  BY <1>2, <1>3, <1>4 DEF Operable
<1>6. Flows(d, n, g)
  <2>1. Pushes(inst) = 1 /\ inst.op # "JUMP" /\ inst.op \notin Jumps
    BY DEF Pushes, Jumps
  <2> QED BY <1>2, <1>3, <1>4, <2>1 DEF Flows
<1>7. Consistent(d, g, Pending(w) \cup {})
  BY <1>1, <1>5, <1>6, ExtendConsistent DEF g, n
<1>8. Reached(d, Pending(w) \cup {})
  <2>1. inst.op # "JUMP"
    BY DEF Jumps
  <2> QED BY <1>1, <2>1, OneMoreReached
<1>9. IsStack(<<>>) /\ Len(<<>>) = 0
  BY TupleFacts
<1>10. Chain(d, g, <<>>, K) /\ K[1] = H[2]
  <2>1. K \in [1..1 -> Nat] /\ K[1] = H[2]
    BY <1>1
  <2> HIDE DEF K
  <2> QED BY <1>9, <2>1 DEF Chain
<1>11. K[Len(<<>>) + 1] = H[2] /\ K[1] = g[Len(d.code)]
  BY <1>3, <1>4, <1>9, <1>10
<1>12. Pending(w) \cup {} = (Pending(w) \ (IF Waits(w[1]) THEN {w[1].at} ELSE {})) \cup Pending(<<>>)
  BY <1>2, PendingFacts
<1>13. \A i \in 1..Len(<<>>) : FALSE
  BY <1>9
<1> HIDE DEF K
<1> QED BY <1>3, <1>4, <1>7, <1>8, <1>9, <1>10, <1>11, <1>12, <1>13, TaskDone

(* A branch: the arm that the condition selects comes first.               *)
LEMMA BranchStep ==
    ASSUME NEW c, NEW w, NEW h, NEW H, EmittingBy(c, w, h, H), w # <<>>,
           w[1].task = "branch"
    PROVE  Emitting(emit(c, w[1].op, 0, 0),
                    <<w[1].first, Else(Len(c.code) + 1, w[1].second)>> \o Tail(w))
<1> DEFINE t == w[1]
           n == Len(c.code)
           inst == Instr(t.op, 0, 0)
           d == emit(c, t.op, 0, 0)
           y == H[1] - 1
           g == Higher(c, h, y)
           s == Else(n + 1, t.second)
           new == <<t.first, s>>
           K == [i \in 1..3 |-> IF i = 1 THEN y ELSE H[1]]
<1>1. /\ IsCompiler(c) /\ Ready(c, h, t, H[1], H[2]) /\ H[1] \in Nat /\ H[2] \in Nat
      /\ H[1] = h[n] /\ n \in Nat
      /\ Consistent(c, h, Pending(w)) /\ Reached(c, Pending(w))
  BY HeadReady
<1>2. /\ t.op \in {"JUMP_IF_FALSE", "JUMP_IF_TRUE"} /\ IsArm(t.first) /\ IsArm(t.second)
      /\ ~Waits(t) /\ Needs(t) = 1 /\ Gives(t) = 1
  BY <1>1 DEF Ready, IsTask, IsArm, Waits, Needs, Gives
<1>3. y \in Nat /\ H[1] = y + 1 /\ H[2] = H[1]
  BY <1>1, <1>2 DEF Ready
<1>4. /\ inst.op = t.op /\ Pops(inst) = 1 /\ inst.op # "JUMP" /\ inst.op \in OpCodes
      /\ inst.op \in Jumps /\ inst.op \notin {"PUSH_CONST", "LOAD_FACTOR", "CALL_BUILTIN"}
  BY <1>2 DEF Instr, Pops, OpCodes, Jumps, UnaryOps, BinaryOps, OrderedOps, EqualityOps,
              ArithmeticOps
<1>5. OneMore(c, d, inst)
  <2>1. t.op \in OpCodes /\ 0 \in Int
    BY <1>2 DEF OpCodes, Jumps
  <2> QED BY <1>1, <2>1, EmitFacts, Zenon
<1> HIDE DEF inst, d
<1>6. IsCompiler(d) /\ Len(d.code) = n + 1 /\ d.code[n + 1] = inst
  BY <1>5 DEF OneMore
<1>7. Keeps(c, h, d, g) /\ g[n] = H[1] /\ g[n + 1] = y
  BY <1>1, <1>5, OneMoreKeeps
<1> HIDE DEF g, n, y, t
<1>8. Operable(d, n, g)
  BY <1>1, <1>3, <1>4, <1>6, <1>7 DEF Operable
<1>9. Consistent(d, g, Pending(w) \cup {n + 1})
  BY <1>1, <1>3, <1>5, <1>8, ExtendConsistent DEF g, n
<1>10. Reached(d, Pending(w) \cup {n + 1})
  BY <1>1, <1>4, <1>5, OneMoreReached DEF n
<1>11. s.task = "else" /\ s.at = n + 1 /\ s.second = t.second
  BY DEF Else
<1> HIDE DEF s
<1>12. IsTask(s) /\ Waits(s) /\ Needs(s) = 1 /\ Gives(s) = 1
  BY <1>2, <1>11 DEF IsTask, Waits, Needs, Gives
<1>13. Ready(d, g, s, H[1], H[1])
  <2>1. n + 1 \in 1..Len(d.code) /\ (n + 1) - 1 = n /\ s.task # "land"
    BY <1>1, <1>6, <1>11
  <2>2. Awaited(d, g, s, H[1])
    BY <1>2, <1>3, <1>4, <1>6, <1>7, <1>11, <2>1 DEF Awaited
  <2> QED BY <1>1, <1>3, <1>12, <2>2 DEF Ready
<1>14. IsTask(t.first) /\ ~Waits(t.first) /\ Ready(d, g, t.first, y, H[1])
  BY <1>2, <1>3, ArmFacts DEF Ready
<1>15. IsStack(new)
  BY TupleFacts, Zenon
<1>16. Len(new) = 2 /\ new[1] = t.first /\ new[2] = s
  OBVIOUS
<1> HIDE DEF new
<1>17. Pending(new) = {n + 1}
  BY <1>11, <1>12, <1>14, PendingFacts DEF new
<1>18. Chain(d, g, new, K) /\ K[1] = y /\ K[3] = H[1]
  <2>1. K \in [1..3 -> Nat] /\ K[1] = y /\ K[2] = H[1] /\ K[3] = H[1]
    BY <1>1, <1>3
  <2> HIDE DEF K
  <2>2. \A i \in 1..2 : i = 1 \/ i = 2
    OBVIOUS
  <2>3. \A i \in 1..2 : Ready(d, g, new[i], K[i], K[i + 1])
    BY <1>13, <1>14, <1>16, <2>1, <2>2
  <2> QED BY <1>16, <2>1, <2>3 DEF Chain
<1> HIDE DEF K
<1>19. \A i \in 1..Len(new) : Waits(new[i]) => i = 2 /\ new[i].at = n + 1
  <2>1. \A i \in 1..2 : i = 1 \/ i = 2
    OBVIOUS
  <2> QED BY <1>11, <1>14, <1>16, <2>1
<1>20. K[1] = g[Len(d.code)] /\ K[Len(new) + 1] = H[2]
  BY <1>3, <1>6, <1>7, <1>16, <1>18
<1>21. Pending(w) \cup {n + 1}
         = (Pending(w) \ (IF Waits(w[1]) THEN {w[1].at} ELSE {})) \cup Pending(new)
  BY <1>2, <1>17 DEF t
<1>22. Emitting(d, new \o Tail(w))
  BY <1>6, <1>7, <1>9, <1>10, <1>15, <1>18, <1>19, <1>20, <1>21, TaskDone DEF n
<1> QED BY <1>22 DEF d, new, s, n, t

(* The jump at at, which does not wait any more, leads to the end of the   *)
(* code, and what it leaves behind is reached.                             *)
LEMMA PatchReached ==
    ASSUME NEW c, IsCompiler(c), NEW P, P \subseteq 1..Len(c.code), NEW at \in P,
           c.code[at].op \in Jumps, at < Len(c.code),
           NEW Q, Q \subseteq {Len(c.code)}, Q \subseteq P, ReachedBut(c, P, Q)
    PROVE  Reached(Patch(c, at), P \ {at})
<1> DEFINE n == Len(c.code)
           d == Patch(c, at)
<1>1. n \in Nat /\ at \in 1..n
  BY DEF IsCompiler
<1>2. /\ Len(d.code) = n
      /\ \A i \in 1..n : /\ d.code[i].op = c.code[i].op
                         /\ i # at => d.code[i].arg = c.code[i].arg
      /\ d.code[at].arg = n
  BY <1>1, PatchFacts
<1> HIDE DEF d, n
<1>3. d.code[at].op = c.code[at].op /\ d.code[at].arg = n
  BY <1>1, <1>2
<1>4. ASSUME NEW i \in 1..n, i # at PROVE d.code[i].op = c.code[i].op /\ d.code[i].arg = c.code[i].arg
  BY <1>2, <1>4
<1>5. ASSUME NEW p \in 1..n, d.code[p].op = "JUMP"
      PROVE  /\ \E q \in 1..p : /\ q \notin P \ {at}
                                /\ d.code[q].op \in Jumps /\ d.code[q].arg = p
             /\ p \notin P \ {at} => d.code[p].arg > p
  <2>1. c.code[p].op = "JUMP"
    BY <1>3, <1>4, <1>5
  <2>2. CASE p \in Q
    <3>1. p = n /\ p \in P /\ p # at /\ at \in 1..p
      BY <1>1, <2>2 DEF n
    <3>2. d.code[at].op \in Jumps /\ d.code[at].arg = p /\ at \notin P \ {at}
      BY <1>3, <3>1
    <3> QED BY <3>1, <3>2
  <2>3. CASE p \notin Q
    <3>1. PICK q \in 1..p : q \notin P /\ c.code[q].op \in Jumps /\ c.code[q].arg = p
      BY <2>1, <2>3 DEF n, ReachedBut
    <3>2. q # at /\ q \in 1..n
      BY <1>1, <3>1
    <3>3. d.code[q].op \in Jumps /\ d.code[q].arg = p /\ q \notin P \ {at}
      BY <1>4, <3>1, <3>2
    <3>4. p = at => d.code[p].arg > p
      BY <1>1, <1>3, <2>1 DEF n
    <3>5. p \notin P => d.code[p].arg > p
      <4>1. p \notin P => p # at /\ c.code[p].arg > p
        BY <2>1, <2>3 DEF n, ReachedBut
      <4> QED BY <1>4, <4>1
    <3> QED BY <3>3, <3>4, <3>5
  <2> QED BY <2>2, <2>3
<1> QED BY <1>2, <1>5 DEF Reached, d

(* The end of a conditional: its second arm leads here.                    *)
LEMMA LandStep ==
    ASSUME NEW c, NEW w, NEW h, NEW H, EmittingBy(c, w, h, H), w # <<>>,
           w[1].task = "land"
    PROVE  Emitting(Patch(c, w[1].at), <<>> \o Tail(w))
<1> DEFINE t == w[1]
           n == Len(c.code)
           at == t.at
           d == Patch(c, at)
           K == [i \in 1..1 |-> H[2]]
<1>1. /\ IsCompiler(c) /\ Ready(c, h, t, H[1], H[2]) /\ H[1] \in Nat /\ H[2] \in Nat
      /\ H[1] = h[n] /\ n \in Nat
      /\ Consistent(c, h, Pending(w)) /\ Reached(c, Pending(w)) /\ Len(w) \in Nat \ {0}
  BY HeadReady
<1>2. Waits(t) /\ H[2] = H[1] /\ Awaited(c, h, t, H[1])
  BY <1>1 DEF Ready, Waits, Needs, Gives
<1>3. at \in 1..n /\ c.code[at].op = "JUMP" /\ h[at - 1] = H[1] /\ h[at] = H[1] - 1
  BY <1>2 DEF Awaited
<1>4. at \in Pending(w)
  BY <1>1, <1>2 DEF Pending
<1>5. at < n
  <2>1. at # n
    BY <1>1, <1>3
  <2> QED BY <1>1, <1>3, <2>1
<1> HIDE DEF at, n, t
<1>6. Pops(c.code[at]) = 0 /\ c.code[at].op \in Jumps
  BY <1>3 DEF Pops, Jumps, UnaryOps, BinaryOps, OrderedOps, EqualityOps, ArithmeticOps
<1>7. Consistent(d, h, Pending(w) \ {at})
  <2>1. h[Len(c.code)] = h[at - 1] - Pops(c.code[at])
    BY <1>1, <1>3, <1>6 DEF n
  <2> QED BY <1>1, <1>3, <1>4, <1>6, <2>1, PatchConsistent
<1>8. Pending(w) \subseteq 1..Len(c.code)
  BY <1>1 DEF Consistent
<1>9. Reached(d, Pending(w) \ {at})
  <2>1. ReachedBut(c, Pending(w), {})
    BY <1>1 DEF Reached, ReachedBut
  <2> QED BY <1>1, <1>4, <1>5, <1>6, <1>8, <2>1, PatchReached DEF n
<1>10. IsCompiler(d) /\ Len(d.code) = n /\ Keeps(c, h, d, h)
  <2>1. /\ IsCompiler(d) /\ Len(d.code) = Len(c.code)
        /\ \A i \in 1..Len(c.code) : d.code[i].op = c.code[i].op
    BY <1>1, <1>3, PatchFacts DEF n
  <2> QED BY <1>1, <2>1 DEF Keeps, n
<1> HIDE DEF d
<1>11. IsStack(<<>>) /\ Len(<<>>) = 0
  BY TupleFacts
<1>12. Chain(d, h, <<>>, K) /\ K[1] = H[2]
  <2>1. K \in [1..1 -> Nat] /\ K[1] = H[2]
    BY <1>1
  <2> HIDE DEF K
  <2> QED BY <1>11, <2>1 DEF Chain
<1> HIDE DEF K
<1>13. K[Len(<<>>) + 1] = H[2] /\ K[1] = h[Len(d.code)]
  BY <1>1, <1>2, <1>10, <1>11, <1>12
<1>14. Pending(w) \ {at}
         = (Pending(w) \ (IF Waits(w[1]) THEN {w[1].at} ELSE {})) \cup Pending(<<>>)
  BY <1>2, PendingFacts DEF t, at
<1>15. \A i \in 1..Len(<<>>) : FALSE
  BY <1>11
<1>16. Emitting(d, <<>> \o Tail(w))
  BY <1>7, <1>9, <1>10, <1>11, <1>12, <1>13, <1>14, <1>15, TaskDone
<1> QED BY <1>16 DEF d, at, t

(* The first arm is done: the jump over the second begins it.              *)
LEMMA ElseStep ==
    ASSUME NEW c, NEW w, NEW h, NEW H, EmittingBy(c, w, h, H), w # <<>>,
           w[1].task = "else"
    PROVE  Emitting(Patch(emit(c, "JUMP", 0, 0), w[1].at),
                    <<w[1].second, Land(Len(c.code) + 1)>> \o Tail(w))
<1> DEFINE t == w[1]
           n == Len(c.code)
           at == t.at
           inst == Instr("JUMP", 0, 0)
           e == emit(c, "JUMP", 0, 0)
           d == Patch(e, at)
           y == H[1] - 1
           g == Higher(c, h, y)
           s == Land(n + 1)
           new == <<t.second, s>>
           K == [i \in 1..3 |-> IF i = 1 THEN y ELSE H[1]]
           P == Pending(w) \cup {n + 1}
<1>1. /\ IsCompiler(c) /\ Ready(c, h, t, H[1], H[2]) /\ H[1] \in Nat /\ H[2] \in Nat
      /\ H[1] = h[n] /\ n \in Nat
      /\ Consistent(c, h, Pending(w)) /\ Reached(c, Pending(w)) /\ Len(w) \in Nat \ {0}
  BY HeadReady
<1>2. /\ Waits(t) /\ Needs(t) = 1 /\ Gives(t) = 1 /\ IsArm(t.second) /\ t.task # "land"
  BY <1>1 DEF Ready, IsTask, IsArm, Waits, Needs, Gives
<1>3. y \in Nat /\ H[1] = y + 1 /\ H[2] = H[1] /\ Awaited(c, h, t, H[1])
  BY <1>1, <1>2 DEF Ready
<1>4. /\ at \in 1..n /\ h[at - 1] = H[1] /\ h[at] = y
      /\ c.code[at].op \in {"JUMP_IF_FALSE", "JUMP_IF_TRUE"}
  BY <1>2, <1>3 DEF Awaited
<1>5. at \in Pending(w)
  BY <1>1, <1>2 DEF Pending
<1>6. /\ inst.op = "JUMP" /\ Pops(inst) = 0 /\ inst.op \in OpCodes
  BY DEF Instr, Pops, OpCodes, Jumps, UnaryOps, BinaryOps, OrderedOps, EqualityOps,
         ArithmeticOps
<1>7. OneMore(c, e, inst)
  <2>1. "JUMP" \in OpCodes /\ 0 \in Int
    BY DEF OpCodes, Jumps
  <2> QED BY <1>1, <2>1, EmitFacts, Zenon
<1> HIDE DEF inst, e
<1>8. /\ IsCompiler(e) /\ Len(e.code) = n + 1 /\ e.code[n + 1] = inst
      /\ \A i \in 1..n : e.code[i] = c.code[i]
  BY <1>7 DEF OneMore
<1>9. Keeps(c, h, e, g) /\ g[n] = H[1] /\ g[n + 1] = y
  BY <1>1, <1>7, OneMoreKeeps
<1> HIDE DEF g, n, y, t, at, d
<1>10. Operable(e, n, g)
  BY <1>1, <1>3, <1>6, <1>8, <1>9 DEF Operable
<1>11. Consistent(e, g, P)
  BY <1>1, <1>3, <1>7, <1>10, ExtendConsistent DEF g, n
<1>12. ReachedBut(e, P, {n + 1})
  BY <1>1, <1>7, OneMoreReached DEF n
<1>13. e.code[at] = c.code[at] /\ g[at - 1] = H[1] /\ g[at] = y /\ at < n + 1 /\ at \in 1..(n + 1)
  <2>1. at \in 0..n /\ at - 1 \in 0..n
    BY <1>1, <1>4
  <2> QED BY <1>1, <1>4, <1>8, <1>9, <2>1 DEF Keeps, n
<1>14. Pops(e.code[at]) = 1 /\ e.code[at].op \in Jumps /\ e.code[at].op # "JUMP"
  <2>1. e.code[at].op \in {"JUMP_IF_FALSE", "JUMP_IF_TRUE"}
    BY <1>4, <1>13
  <2> QED BY <2>1 DEF Pops, Jumps, UnaryOps, BinaryOps, OrderedOps, EqualityOps, ArithmeticOps
<1>15. P \ {at} = (Pending(w) \ {at}) \cup {n + 1}
  BY <1>1, <1>4
<1>16. Consistent(d, g, P \ {at})
  <2>1. at \in P /\ g[Len(e.code)] = g[at - 1] - Pops(e.code[at])
        /\ g[at] = g[at - 1] - Pops(e.code[at])
    BY <1>3, <1>5, <1>8, <1>9, <1>13, <1>14
  <2> HIDE DEF P
  <2> QED BY <1>8, <1>11, <1>14, <2>1, PatchConsistent DEF d
<1>17. Reached(d, P \ {at})
  <2>1. at \in P /\ P \subseteq 1..Len(e.code) /\ at < Len(e.code) /\ {n + 1} \subseteq P
        /\ {n + 1} \subseteq {Len(e.code)}
    BY <1>5, <1>8, <1>11, <1>13 DEF Consistent
  <2> DEFINE Q == {n + 1}
  <2>2. Q \subseteq P /\ Q \subseteq {Len(e.code)} /\ ReachedBut(e, P, Q)
    BY <1>12, <2>1
  <2> HIDE DEF P, Q
  <2> QED BY <1>8, <1>14, <2>1, <2>2, PatchReached DEF d
<1>18. /\ IsCompiler(d) /\ Len(d.code) = n + 1
       /\ \A i \in 1..(n + 1) : d.code[i].op = e.code[i].op
  BY <1>8, <1>13, PatchFacts DEF d
<1>19. Keeps(c, h, d, g) /\ d.code[n + 1].op = "JUMP"
  <2>1. \A i \in 1..n : i \in 1..(n + 1)
    BY <1>1
  <2>2. n + 1 \in 1..(n + 1) /\ n <= n + 1
    BY <1>1
  <2> QED BY <1>6, <1>8, <1>9, <1>18, <2>1, <2>2 DEF Keeps, n
<1>20. s.task = "land" /\ s.at = n + 1
  BY DEF Land
<1> HIDE DEF s
<1>21. IsTask(s) /\ Waits(s) /\ Needs(s) = 0 /\ Gives(s) = 0
  BY <1>20 DEF IsTask, Waits, Needs, Gives
<1>22. Ready(d, g, s, H[1], H[1])
  <2>1. n + 1 \in 1..Len(d.code) /\ (n + 1) - 1 = n
    BY <1>1, <1>18
  <2>2. Awaited(d, g, s, H[1])
    BY <1>3, <1>9, <1>19, <1>20, <2>1 DEF Awaited
  <2> QED BY <1>1, <1>21, <2>2 DEF Ready
<1>23. IsTask(t.second) /\ ~Waits(t.second) /\ Ready(d, g, t.second, y, H[1])
  BY <1>2, <1>3, ArmFacts DEF Ready
<1>24. IsStack(new)
  BY TupleFacts, Zenon
<1>25. Len(new) = 2 /\ new[1] = t.second /\ new[2] = s
  OBVIOUS
<1> HIDE DEF new
<1>26. Pending(new) = {n + 1}
  BY <1>20, <1>21, <1>23, PendingFacts DEF new
<1>27. Chain(d, g, new, K) /\ K[1] = y /\ K[3] = H[1]
  <2>1. K \in [1..3 -> Nat] /\ K[1] = y /\ K[2] = H[1] /\ K[3] = H[1]
    BY <1>1, <1>3
  <2> HIDE DEF K
  <2>2. \A i \in 1..2 : i = 1 \/ i = 2
    OBVIOUS
  <2>3. \A i \in 1..2 : Ready(d, g, new[i], K[i], K[i + 1])
    BY <1>22, <1>23, <1>25, <2>1, <2>2
  <2> QED BY <1>25, <2>1, <2>3 DEF Chain
<1> HIDE DEF K
<1>28. \A i \in 1..Len(new) : Waits(new[i]) => i = 2 /\ new[i].at = n + 1
  <2>1. \A i \in 1..2 : i = 1 \/ i = 2
    OBVIOUS
  <2> QED BY <1>20, <1>23, <1>25, <2>1
<1>29. K[1] = g[Len(d.code)] /\ K[Len(new) + 1] = H[2]
  BY <1>3, <1>9, <1>18, <1>25, <1>27
<1>30. P \ {at} = (Pending(w) \ (IF Waits(w[1]) THEN {w[1].at} ELSE {})) \cup Pending(new)
  BY <1>2, <1>15, <1>26 DEF t, at
<1> HIDE DEF P
<1>31. Emitting(d, new \o Tail(w))
  BY <1>16, <1>17, <1>18, <1>19, <1>24, <1>27, <1>28, <1>29, <1>30, TaskDone DEF n
<1> QED BY <1>31 DEF d, e, new, s, n, t, at

(* Whatever the next task is, it keeps the invariant.                      *)
LEMMA EmitStep ==
    ASSUME NEW c, NEW w, Emitting(c, w), w # <<>>
    PROVE  Emitting(Emitted(Head(w), c), Unfolded(Head(w), c) \o Tail(w))
<1> DEFINE t == w[1]
<1>1. PICK h, H : EmittingBy(c, w, h, H)
  BY DEF Emitting
<1>2. IsCompiler(c) /\ Head(w) = t /\ Ready(c, h, t, H[1], H[2])
  BY <1>1, HeadReady
<1>3. IsTask(t)
  BY <1>2 DEF Ready
<1>4. CASE t.task = "expr"
  <2>1. Emitted(t, c) = c /\ Unfolded(t, c) = emitExpr(t.tree)
    BY <1>4 DEF Emitted, Unfolded
  <2> QED BY <1>1, <1>2, <1>4, <2>1, ExprStep
<1>5. CASE t.task = "branch"
  <2>1. /\ Emitted(t, c) = emit(c, t.op, 0, 0)
        /\ Unfolded(t, c) = <<t.first, Else(Len(c.code) + 1, t.second)>>
    BY <1>5 DEF Emitted, Unfolded
  <2> QED BY <1>1, <1>2, <1>5, <2>1, BranchStep
<1>6. CASE t.task = "else"
  <2>1. /\ Emitted(t, c) = Patch(emit(c, "JUMP", 0, 0), t.at)
        /\ Unfolded(t, c) = <<t.second, Land(Len(c.code) + 1)>>
    BY <1>6 DEF Emitted, Unfolded
  <2> QED BY <1>1, <1>2, <1>6, <2>1, ElseStep
<1>7. CASE t.task = "land"
  <2>1. Emitted(t, c) = Patch(c, t.at) /\ Unfolded(t, c) = <<>>
    BY <1>7 DEF Emitted, Unfolded
  <2> QED BY <1>1, <1>2, <1>7, <2>1, LandStep
<1>8. CASE t.task = "const"
  <2>1. Emitted(t, c) = internConst(c, t.value) /\ Unfolded(t, c) = <<>>
    BY <1>8 DEF Emitted, Unfolded
  <2> DEFINE d == internConst(c, t.value)
  <2>2. PICK i \in Nat : /\ OneMore(c, d, Instr("PUSH_CONST", i, 0))
                         /\ InRange(i, d.consts)
    BY <1>2, ConstFacts
  <2> HIDE DEF d
  <2> DEFINE inst == Instr("PUSH_CONST", i, 0)
  <2>3. /\ inst.op = "PUSH_CONST" /\ inst.arg = i /\ inst.op \in OpCodes \ Jumps
        /\ Pops(inst) = 0
    BY DEF Instr, Pops, OpCodes, Jumps, UnaryOps, BinaryOps, OrderedOps, EqualityOps,
           ArithmeticOps
  <2>4. IsReducer(t, 0)
    BY <1>3, <1>8, ArmTask DEF IsArm
  <2> HIDE DEF inst
  <2>5. OneMore(c, d, inst)
    BY <2>2 DEF inst
  <2>6. Emitting(d, <<>> \o Tail(w))
    BY <1>1, <2>2, <2>3, <2>4, <2>5, PushStep
  <2> QED BY <1>2, <2>1, <2>6 DEF d
<1>9. CASE t.task = "load"
  <2>1. Emitted(t, c) = internAccessor(c, t.accessor) /\ Unfolded(t, c) = <<>>
    BY <1>9 DEF Emitted, Unfolded
  <2> DEFINE d == internAccessor(c, t.accessor)
  <2>2. PICK i \in Nat :
            /\ OneMore(c, d, Instr("LOAD_FACTOR", i, 0))
            /\ InRange(i, d.accessors)
    BY <1>2, AccessorFacts
  <2> HIDE DEF d
  <2> DEFINE inst == Instr("LOAD_FACTOR", i, 0)
  <2>3. /\ inst.op = "LOAD_FACTOR" /\ inst.arg = i /\ inst.op \in OpCodes \ Jumps
        /\ Pops(inst) = 0
    BY DEF Instr, Pops, OpCodes, Jumps, UnaryOps, BinaryOps, OrderedOps, EqualityOps,
           ArithmeticOps
  <2>4. IsReducer(t, 0)
    BY <1>3, <1>9, ArmTask DEF IsArm
  <2> HIDE DEF inst
  <2>5. OneMore(c, d, inst)
    BY <2>2 DEF inst
  <2>6. Emitting(d, <<>> \o Tail(w))
    BY <1>1, <2>2, <2>3, <2>4, <2>5, PushStep
  <2> QED BY <1>2, <2>1, <2>6 DEF d
<1>10. CASE t.task = "call"
  <2>1. Emitted(t, c) = internBuiltin(c, t.name, t.argc) /\ Unfolded(t, c) = <<>>
    BY <1>10 DEF Emitted, Unfolded
  <2>2. t.argc \in Nat /\ t.argc >= MinArgs(t.name)
    BY <1>3, <1>10 DEF IsTask, IsArm
  <2> DEFINE d == internBuiltin(c, t.name, t.argc)
  <2>3. PICK i \in Nat : /\ OneMore(c, d, Instr("CALL_BUILTIN", i, t.argc))
                         /\ InRange(i, d.builtins) /\ d.builtins[i + 1] = t.name
    BY <1>2, <2>2, BuiltinFacts
  <2> HIDE DEF d
  <2> DEFINE inst == Instr("CALL_BUILTIN", i, t.argc)
  <2>4. /\ inst.op = "CALL_BUILTIN" /\ inst.arg = i /\ inst.aux = t.argc
        /\ inst.op \in OpCodes \ Jumps /\ Pops(inst) = t.argc
    BY DEF Instr, Pops, OpCodes, Jumps, UnaryOps, BinaryOps, OrderedOps, EqualityOps,
           ArithmeticOps
  <2>5. Needs(t) = t.argc /\ ~Waits(t) /\ Gives(t) = 1
    BY <1>10 DEF Needs, Waits, Gives
  <2> HIDE DEF inst
  <2>6. OneMore(c, d, inst) /\ IsReducer(t, Pops(inst)) /\ 0 <= Pops(inst)
    BY <1>3, <2>2, <2>3, <2>4, <2>5 DEF inst, IsReducer
  <2>7. Emitting(d, <<>> \o Tail(w))
    BY <1>1, <2>2, <2>3, <2>4, <2>6, PushStep
  <2> QED BY <1>2, <2>1, <2>7 DEF d
<1>11. CASE t.task = "op"
  <2>1. Emitted(t, c) = emit(c, t.op, t.arg, 0) /\ Unfolded(t, c) = <<>>
    BY <1>11 DEF Emitted, Unfolded
  <2>2. t.arg \in Nat /\ t.op \in UnaryOps \cup BinaryOps \cup {"MAKE_LIST", "MAKE_MAP"}
    BY <1>3, <1>11 DEF IsTask, IsArm
  <2> DEFINE inst == Instr(t.op, t.arg, 0)
             d == emit(c, t.op, t.arg, 0)
  <2>3. /\ t.op \in OpCodes \ Jumps
        /\ t.op \notin {"PUSH_CONST", "LOAD_FACTOR", "CALL_BUILTIN"}
    BY <2>2 DEF OpCodes, Jumps, UnaryOps, BinaryOps, OrderedOps, EqualityOps, ArithmeticOps
  <2>4. inst.op = t.op /\ inst.arg = t.arg
    BY DEF Instr
  <2>5. OneMore(c, d, inst)
    <3>1. t.op \in OpCodes /\ t.arg \in Int /\ 0 \in Int
      BY <2>2, <2>3
    <3> QED BY <1>2, <3>1, EmitFacts, Zenon
  <2>6. Needs(t) = Pops(inst) /\ ~Waits(t) /\ Gives(t) = 1
    BY <1>11, Zenon DEF Needs, Waits, Gives
  <2> HIDE DEF inst, d
  <2>7. Pops(inst) \in Nat
    BY <2>2, <2>4 DEF Pops, UnaryOps, BinaryOps, OrderedOps, EqualityOps, ArithmeticOps
  <2>8. IsReducer(t, Pops(inst)) /\ 0 <= Pops(inst)
    BY <1>3, <2>6, <2>7 DEF IsReducer
  <2>9. Emitting(d, <<>> \o Tail(w))
    BY <1>1, <2>3, <2>4, <2>5, <2>8, PushStep
  <2> QED BY <1>2, <2>1, <2>9 DEF d
<1> QED BY <1>3, <1>4, <1>5, <1>6, <1>7, <1>8, <1>9, <1>10, <1>11 DEF IsTask, IsArm

(* The invariant holds before the first task.                              *)
LEMMA EmitStart ==
    ASSUME NEW b \in Trees
    PROVE  Emitting(NewCompiler, <<Expr(b)>>)
<1> DEFINE c == NewCompiler
           w == <<Expr(b)>>
           h == [i \in 0..0 |-> 0]
           H == [i \in 1..2 |-> i - 1]
<1>1. IsCompiler(c) /\ Len(c.code) = 0
  <2>1. IsStack(<<>>)
    BY TupleFacts
  <2> QED BY <2>1 DEF IsCompiler, NewCompiler
<1>2. IsArm(Expr(b))
  BY ArmKinds
<1>3. IsTask(Expr(b)) /\ ~Waits(Expr(b)) /\ Needs(Expr(b)) = 0 /\ Gives(Expr(b)) = 1
  BY <1>2, ArmFacts
<1>4. IsStack(w)
  BY TupleFacts, Zenon
<1>5. Len(w) = 1 /\ w[1] = Expr(b)
  OBVIOUS
<1> HIDE DEF w, c
<1>6. Pending(w) = {}
  BY <1>3, <1>5, PendingFacts
<1>7. Consistent(c, h, {})
  BY <1>1 DEF Consistent
<1>8. Reached(c, {})
  BY <1>1 DEF Reached
<1>9. H \in [1..2 -> Nat] /\ H[1] = 0 /\ H[2] = 1
  OBVIOUS
<1> HIDE DEF H
<1>10. Chain(c, h, w, H)
  <2>1. Ready(c, h, w[1], H[1], H[2])
    BY <1>3, <1>5, <1>9 DEF Ready
  <2> QED BY <1>5, <1>9, <2>1 DEF Chain
<1>11. h[0] = 0
  OBVIOUS
<1> HIDE DEF h
<1>12. EmittingBy(c, w, h, H)
  BY <1>1, <1>3, <1>4, <1>5, <1>6, <1>7, <1>8, <1>9, <1>10, <1>11 DEF EmittingBy
<1> QED BY <1>12 DEF Emitting, c, w

-----------------------------------------------------------------------------
(* The code is complete                                                    *)

(* The body of Heights.                                                    *)
JumpsTo(code, i) ==
    {j \in 0..(i - 1) : code[j + 1].op \in Jumps /\ code[j + 1].arg = i}

HeightAt(code, h, i) ==
    IF i = 0 THEN 0
    ELSE IF code[i].op # "JUMP" THEN h[i - 1] - Pops(code[i]) + Pushes(code[i])
    ELSE IF JumpsTo(code, i) = {} THEN 0
    ELSE LET j == CHOOSE j \in JumpsTo(code, i) : TRUE IN h[j] - Pops(code[j + 1])

(* Heights is a function that satisfies its own definition.                *)
LEMMA HeightsChosen ==
    ASSUME NEW code
    PROVE  Heights(code) = CHOOSE h : h = [i \in 0..Len(code) |-> HeightAt(code, h, i)]
BY Zenon DEF Heights, HeightAt, JumpsTo

(* Of two functions that satisfy it, one place cannot be the first where   *)
(* they differ.                                                            *)
LEMMA HeightsUnique ==
    ASSUME NEW code, Len(code) \in Nat,
           NEW g, g = [i \in 0..Len(code) |-> HeightAt(code, g, i)],
           NEW h, h = [i \in 0..Len(code) |-> HeightAt(code, h, i)]
    PROVE  g = h
<1> DEFINE T == {i \in 0..Len(code) : g[i] # h[i]}
<1>1. ASSUME T # {} PROVE FALSE
  <2>1. PICK i \in T : \A j \in T : i <= j
    <3>1. T \subseteq Nat
      OBVIOUS
    <3> HIDE DEF T
    <3> QED BY <1>1, <3>1, LeastNumber
  <2>2. i \in 0..Len(code) /\ g[i] # h[i] /\ \A j \in 0..(i - 1) : g[j] = h[j]
    BY <2>1
  <2> HIDE DEF T
  <2>3. g[i] = HeightAt(code, g, i) /\ h[i] = HeightAt(code, h, i)
    BY <2>2
  <2>4. HeightAt(code, g, i) = HeightAt(code, h, i)
    <3>1. CASE i = 0
      BY <3>1 DEF HeightAt
    <3>2. CASE i # 0 /\ code[i].op # "JUMP"
      <4>1. g[i - 1] = h[i - 1]
        <5>1. i - 1 \in 0..(i - 1)
          BY <2>2, <3>2
        <5> QED BY <2>2, <5>1
      <4> QED BY <3>2, <4>1 DEF HeightAt
    <3>3. CASE i # 0 /\ code[i].op = "JUMP"
      <4> DEFINE j == CHOOSE j \in JumpsTo(code, i) : TRUE
      <4>1. JumpsTo(code, i) # {} => j \in JumpsTo(code, i)
        BY Zenon
      <4>2. JumpsTo(code, i) # {} => g[j] = h[j]
        BY <2>2, <4>1 DEF JumpsTo
      <4> HIDE DEF j
      <4>3. HeightAt(code, g, i) = IF JumpsTo(code, i) = {} THEN 0 ELSE g[j] - Pops(code[j + 1])
        BY <3>3, Zenon DEF HeightAt, j
      <4>4. HeightAt(code, h, i) = IF JumpsTo(code, i) = {} THEN 0 ELSE h[j] - Pops(code[j + 1])
        BY <3>3, Zenon DEF HeightAt, j
      <4> QED BY <4>2, <4>3, <4>4
    <3> QED BY <3>1, <3>2, <3>3
  <2> QED BY <2>2, <2>3, <2>4
<1>2. \A i \in 0..Len(code) : g[i] = h[i]
  BY <1>1
<1>3. g = [i \in 0..Len(code) |-> g[i]] /\ h = [i \in 0..Len(code) |-> h[i]]
  OBVIOUS
<1> HIDE DEF T
<1> QED BY <1>2, <1>3

(* The heights of complete code are the ones that Heights reads off it.    *)
LEMMA HeightsFound ==
    ASSUME NEW c, IsCompiler(c), NEW h, Consistent(c, h, {}), Reached(c, {})
    PROVE  Heights(c.code) = h
<1> DEFINE n == Len(c.code)
<1>1. n \in Nat /\ h \in [0..n -> Nat] /\ h[0] = 0
      /\ \A i \in 0..(n - 1) : Operable(c, i, h) /\ Flows(c, i, h)
  BY DEF IsCompiler, Consistent
<1> HIDE DEF n
<1>2. ASSUME NEW i \in 0..n PROVE h[i] = HeightAt(c.code, h, i)
  <2>1. CASE i = 0
    BY <1>1, <2>1 DEF HeightAt
  <2>2. CASE i # 0 /\ c.code[i].op # "JUMP"
    <3>1. i - 1 \in 0..(n - 1) /\ (i - 1) + 1 = i
      BY <1>1, <2>2
    <3>2. h[i] = h[i - 1] - Pops(c.code[i]) + Pushes(c.code[i])
      BY <1>1, <2>2, <3>1 DEF Flows
    <3> QED BY <2>2, <3>2 DEF HeightAt
  <2>3. CASE i # 0 /\ c.code[i].op = "JUMP"
    <3> DEFINE j == CHOOSE j \in JumpsTo(c.code, i) : TRUE
    <3>1. JumpsTo(c.code, i) # {}
      <4>1. PICK q \in 1..i : c.code[q].op \in Jumps /\ c.code[q].arg = i
        BY <1>1, <2>3 DEF Reached, n
      <4>2. q - 1 \in 0..(i - 1) /\ (q - 1) + 1 = q
        BY <1>1
      <4> QED BY <4>1, <4>2 DEF JumpsTo
    <3>2. j \in JumpsTo(c.code, i)
      BY <3>1, Zenon
    <3>3. HeightAt(c.code, h, i) = h[j] - Pops(c.code[j + 1])
      BY <2>3, <3>1, Zenon DEF HeightAt
    <3> HIDE DEF j
    <3>4. j \in 0..(i - 1) /\ c.code[j + 1].op \in Jumps /\ c.code[j + 1].arg = i
      BY <3>2 DEF JumpsTo
    <3>5. j \in 0..(n - 1) /\ Pushes(c.code[j + 1]) = 0
      BY <1>1, <3>4 DEF Pushes
    <3>6. h[i] = h[j] - Pops(c.code[j + 1]) + Pushes(c.code[j + 1])
      BY <1>1, <3>4, <3>5 DEF Flows
    <3>7. h[j] \in Int /\ Pops(c.code[j + 1]) \in Int
      <4>1. c.code[j + 1].op \in Jumps
        BY <3>4
      <4>2. Pops(c.code[j + 1]) \in Int
        BY <4>1 DEF Pops, Jumps, UnaryOps, BinaryOps, OrderedOps, EqualityOps, ArithmeticOps
      <4> QED BY <1>1, <3>5, <4>2
    <3> QED BY <3>3, <3>5, <3>6, <3>7
  <2> QED BY <2>1, <2>2, <2>3
<1>3. h = [i \in 0..n |-> h[i]]
  BY <1>1
<1>4. h = [i \in 0..n |-> HeightAt(c.code, h, i)]
  BY <1>2, <1>3
<1> DEFINE g == Heights(c.code)
<1>5. g = [i \in 0..n |-> HeightAt(c.code, g, i)]
  BY <1>4, HeightsChosen, Zenon DEF n
<1> HIDE DEF g
<1>6. g = h
  BY <1>1, <1>4, <1>5, HeightsUnique DEF n
<1> QED BY <1>6 DEF g

(* The peephole finds nothing to drop: an unconditional jump leads beyond  *)
(* its own arm, which is not empty.                                        *)
LEMMA PeepholeIdle ==
    ASSUME NEW c, IsCompiler(c), Reached(c, {})
    PROVE  optimizeInstructions(c.code) = c.code
<1> DEFINE code == c.code
           n == Len(code)
           keep == {i \in DOMAIN code : ~(code[i].op = "JUMP" /\ code[i].arg = i)}
           newIndex(j) == Cardinality({i \in keep : i <= j})
           moved(inst) == IF IsJump(inst) /\ inst.arg \in 0..n
                          THEN [inst EXCEPT !.arg = newIndex(inst.arg)] ELSE inst
<1>1. n \in Nat /\ DOMAIN code = 1..n /\ code \in Seq(Instructions)
  BY DEF IsCompiler
<1>2. optimizeInstructions(code)
        = [k \in 1..Cardinality(keep) |-> moved(code[CHOOSE i \in keep : newIndex(i) = k])]
  BY Zenon DEF optimizeInstructions
<1>3. keep = 1..n
  <2>1. \A i \in 1..n : code[i].op = "JUMP" => code[i].arg > i
    BY DEF Reached
  <2>2. \A i \in 1..n : code[i].arg \in Int
    <3>1. \A inst \in Instructions : inst.arg \in Int
      BY DEF Instructions
    <3>2. \A i \in 1..n : code[i] \in Instructions
      BY <1>1
    <3> QED BY <3>1, <3>2
  <2>3. \A i \in 1..n : ~(code[i].op = "JUMP" /\ code[i].arg = i)
    BY <2>1, <2>2
  <2> QED BY <1>1, <2>3
<1> HIDE DEF keep
<1>4. ASSUME NEW j \in 0..n PROVE newIndex(j) = j
  <2>1. {i \in keep : i <= j} = 1..j
    BY <1>1, <1>3
  <2>2. Cardinality(1..j) = j
    <3>1. 1 \in Int /\ j \in Int
      BY <1>1
    <3>2. Cardinality(1..j) = IF 1 > j THEN 0 ELSE j - 1 + 1
      BY <3>1, FS_Interval, Zenon
    <3> QED BY <1>1, <3>2
  <2> QED BY <2>1, <2>2
<1>5. Cardinality(keep) = n
  <2>1. n \in 0..n /\ {i \in keep : i <= n} = keep
    BY <1>1, <1>3
  <2> QED BY <1>4, <2>1
<1> HIDE DEF newIndex
<1>6. ASSUME NEW inst \in Instructions PROVE moved(inst) = inst
  <2>1. CASE IsJump(inst) /\ inst.arg \in 0..n
    <3>1. moved(inst) = [inst EXCEPT !.arg = inst.arg]
      BY <1>4, <2>1, Zenon
    <3>2. [inst EXCEPT !.arg = inst.arg] = inst
      BY DEF Instructions
    <3> QED BY <3>1, <3>2, Zenon
  <2>2. CASE ~(IsJump(inst) /\ inst.arg \in 0..n)
    BY <2>2, Zenon
  <2> QED BY <2>1, <2>2
<1> HIDE DEF moved
<1>7. ASSUME NEW k \in 1..n
      PROVE  moved(code[CHOOSE i \in keep : newIndex(i) = k]) = code[k]
  <2> DEFINE i == CHOOSE i \in keep : newIndex(i) = k
  <2>1. \A j \in keep : j \in 0..n
    BY <1>1, <1>3
  <2>2. k \in keep /\ newIndex(k) = k
    BY <1>1, <1>3, <1>4
  <2>3. i \in keep /\ newIndex(i) = k
    BY <2>2, Zenon
  <2> HIDE DEF i
  <2>4. i = k
    BY <1>4, <2>1, <2>3
  <2>5. code[k] \in Instructions
    BY <1>1
  <2> QED BY <1>6, <2>4, <2>5 DEF i
<1>8. code = [k \in 1..n |-> code[k]]
  BY <1>1
<1> HIDE DEF code, n
<1>9. optimizeInstructions(code) = [k \in 1..n |-> moved(code[CHOOSE i \in keep : newIndex(i) = k])]
  BY <1>2, <1>5, Zenon DEF newIndex, moved
<1> QED BY <1>7, <1>8, <1>9 DEF code

(* When nothing is left to emit, Compile returns the code as it stands,    *)
(* and the VM finds in it what it needs.                                   *)
LEMMA Finished ==
    ASSUME NEW c, Emitting(c, <<>>)
    PROVE  Program(c) = c /\ IsProgram(c) /\ Balanced(c)
<1> DEFINE w == <<>>
<1>1. Len(w) = 0
  OBVIOUS
<1>2. PICK h, H : EmittingBy(c, w, h, H)
  BY DEF Emitting
<1> HIDE DEF w
<1>3. Pending(w) = {}
  BY <1>1 DEF Pending
<1>4. IsCompiler(c) /\ Consistent(c, h, {}) /\ Reached(c, {})
      /\ h[Len(c.code)] = 1
  BY <1>1, <1>2, <1>3 DEF EmittingBy
<1>5. Len(c.code) \in Nat /\ DOMAIN c.code = 1..Len(c.code)
      /\ \A i \in 1..Len(c.code) : c.code[i] \in Instructions
  BY <1>4 DEF IsCompiler
<1>6. Program(c) = c
  <2>1. Program(c) = [c EXCEPT !.code = c.code]
    BY <1>4, PeepholeIdle, Zenon DEF Program
  <2> QED BY <1>4, <2>1, PartFacts, Zenon DEF IsCompiler
<1>7. IsProgram(c)
  <2>1. c.code \in Seq([op : OpsOf(c.code), arg : Int, aux : Int])
    <3> DEFINE S == [op : OpsOf(c.code), arg : Int, aux : Int]
    <3>1. \A i \in 1..Len(c.code) : c.code[i].op \in OpsOf(c.code)
      BY <1>5 DEF OpsOf
    <3>2. \A inst \in Instructions : inst.op \in OpsOf(c.code) => inst \in S
      BY DEF Instructions
    <3>3. \A i \in 1..Len(c.code) : c.code[i] \in S
      BY <1>5, <3>1, <3>2
    <3>4. c.code = [i \in 1..Len(c.code) |-> c.code[i]]
      BY <1>4 DEF IsCompiler
    <3> HIDE DEF S
    <3>5. c.code \in Seq(S)
      BY <1>5, <3>3, <3>4
    <3> QED BY <3>5 DEF S
  <2>2. Len(c.consts) \in Nat /\ Len(c.accessors) \in Nat /\ Len(c.builtins) \in Nat
    BY <1>4 DEF IsCompiler, IsStack
  <2>3. ASSUME NEW i \in DOMAIN c.code, c.code[i].op = "MAKE_MAP"
        PROVE  c.code[i].arg >= 0
    <3>1. i \in 1..Len(c.code) /\ i - 1 \in 0..(Len(c.code) - 1) /\ (i - 1) + 1 = i
      BY <1>5
    <3>2. Operable(c, i - 1, h)
      BY <1>4, <3>1 DEF Consistent
    <3> DEFINE inst == c.code[i]
    <3>3. 0 <= Pops(inst)
      BY <3>1, <3>2 DEF Operable
    <3>4. inst.op = "MAKE_MAP" /\ inst.arg \in Int
      BY <1>5, <2>3, <3>1 DEF Instructions
    <3> HIDE DEF inst
    <3>5. Pops(inst) = 2 * inst.arg
      BY <3>4 DEF Pops, BinaryOps, UnaryOps, OrderedOps, EqualityOps, ArithmeticOps
    <3> QED BY <3>3, <3>4, <3>5 DEF inst
  <2> QED BY <2>1, <2>2, <2>3 DEF IsProgram
<1>8. Balanced(c)
  <2>1. Heights(c.code) = h
    BY <1>4, HeightsFound
  <2>2. BalancedBy(c, h)
    BY <1>4, <1>5 DEF Consistent, BalancedBy
  <2> QED BY <2>1, <2>2 DEF Balanced
<1> QED BY <1>6, <1>7, <1>8

-----------------------------------------------------------------------------
(* From the tree to the result                                             *)

(* While tasks are left the emission is under way and no evaluation has    *)
(* begun; after that the program of the VM is the compiler's code.         *)
CInv ==
    /\ ~compiled => Emitting(compiler, work) /\ Start /\ cancelled = FALSE
    /\ compiled => /\ work = <<>> /\ prog = compiler /\ Program(compiler) = compiler
                   /\ IInv /\ Balanced(prog)

(* Compile starts with the whole tree to do.                               *)
LEMMA CompileInitKeeps == ASSUME CompileInit PROVE CInv
<1>1. Emitting(NewCompiler, <<Expr(tree)>>)
  BY EmitStart DEF CompileInit
<1>2. Emitting(compiler, work) /\ Start /\ cancelled = FALSE /\ ~compiled
  BY <1>1, Zenon DEF CompileInit, CompileStart
<1> QED BY <1>2 DEF CInv

(* The evaluation of a finished program starts as any other.               *)
LEMMA EvaluateKeeps == ASSUME CInv, Evaluate PROVE CInv'
<1>1. /\ ~compiled /\ work = <<>> /\ compiled' = TRUE /\ prog' = Program(compiler)
      /\ ctx' \in Contexts
      /\ UNCHANGED <<tree, work, compiler, cancelled, ip, stack, executed, steps, outcome>>
  BY DEF Evaluate
<1>2. Emitting(compiler, <<>>) /\ Start /\ cancelled = FALSE
  BY <1>1 DEF CInv
<1>3. /\ prog' = compiler /\ IsProgram(compiler) /\ Balanced(compiler)
      /\ Program(compiler) = compiler
  BY <1>1, <1>2, Finished
<1>4. IsProgram(prog)' /\ Balanced(prog)'
  BY <1>3
<1>5. Len(prog'.code) \in Nat
  BY <1>3 DEF IsProgram
<1>6. TypeOK'
  <2>1. (stack \in Seq(Range(stack)))'
    <3>1. stack' = <<>>
      BY <1>1, <1>2 DEF Start
    <3>2. <<>> \in Seq(Range(<<>>))
      BY TupleFacts DEF IsStack
    <3> QED BY <3>1, <3>2
  <2>2. (outcome.code \in ResultCodes)' /\ (executed \in Nat)' /\ (ip \in 0..Len(prog.code))'
    BY <1>1, <1>2, <1>5 DEF Start, ResultCodes
  <2>3. (cancelled \in BOOLEAN)'
    BY <1>1, <1>2, Zenon
  <2> QED BY <1>1, <1>4, <2>1, <2>2, <2>3 DEF TypeOK
<1>7. WithinBudgets'
  BY <1>1, <1>2, BudgetAssumption DEF Start, WithinBudgets
<1>8. (WellFormedRunsClean /\ WellFormedWithinSteps)'
  BY <1>1, <1>2 DEF Start, WellFormedRunsClean, WellFormedWithinSteps, StructuralErrors
<1>9. StackAtHeight'
  BY <1>1, <1>2 DEF Start, StackAtHeight, Balanced, BalancedBy
<1>10. /\ work' = <<>> /\ compiled' /\ prog' = compiler'
       /\ Program(compiler') = compiler'
  BY <1>1, <1>3
<1> QED BY <1>4, <1>6, <1>7, <1>8, <1>9, <1>10 DEF CInv, IInv

(* Every step of a compilation and of the evaluation keeps the invariant.  *)
LEMMA CompileNextKeeps == ASSUME CInv, [CompileNext]_<<vars, compileVars>> PROVE CInv'
<1>1. CASE Emit
  <2>1. ~compiled /\ ~compiled'
    BY <1>1 DEF Emit, CInv
  <2>2. Emitting(compiler', work')
    <3>1. work # <<>> /\ Emitting(compiler, work)
      BY <1>1, <2>1 DEF Emit, CInv
    <3>2. Emitting(Emitted(Head(work), compiler), Unfolded(Head(work), compiler) \o Tail(work))
      BY <3>1, EmitStep
    <3> QED BY <1>1, <3>2 DEF Emit
  <2>3. (Start /\ cancelled = FALSE)'
    BY <1>1, <2>1 DEF Emit, CInv, Start, vars
  <2> QED BY <2>1, <2>2, <2>3 DEF CInv
<1>2. CASE Evaluate
  BY <1>2, EvaluateKeeps
<1>3. CASE Evaluation
  <2>1. compiled /\ Step /\ UNCHANGED compileVars
    BY <1>3 DEF Evaluation
  <2>2. IInv'
    BY <2>1, StepKeepsIInv DEF CInv
  <2>3. prog' = prog
    BY <2>1, StepGoesOn DEF Ended, WentOn
  <2> QED BY <2>1, <2>2, <2>3 DEF CInv, compileVars
<1>4. CASE UNCHANGED <<vars, compileVars>>
  <2>1. (Emitting(compiler, work) /\ Start /\ cancelled = FALSE) =>
            (Emitting(compiler, work) /\ Start /\ cancelled = FALSE)'
    BY <1>4 DEF vars, compileVars, Start
  <2>2. IInv => IInv'
    BY <1>4 DEF vars, IInv, TypeOK, WithinBudgets, WellFormedRunsClean, StackAtHeight,
                WellFormedWithinSteps, Running
  <2> QED BY <1>4, <2>1, <2>2 DEF CInv, vars, compileVars
<1> QED BY <1>1, <1>2, <1>3, <1>4 DEF CompileNext

(* The invariant of a rule from its tree to its result.                    *)
THEOREM CompileInvariance == CompileSpec => []CInv
BY CompileInitKeeps, CompileNextKeeps, PTL DEF CompileSpec

(* Compile makes of every tree, however deep, code whose jumps all meet at *)
(* one stack height, whose indices are in their pools and which leaves one *)
(* value: patched targets, interned indices and arities are right.         *)
THEOREM CompiledCodeIsWellFormed == CompileSpec => []CompiledIsWellFormed
<1>1. CInv => CompiledIsWellFormed
  BY DEF CInv, CompiledIsWellFormed, AtStart
<1> QED BY <1>1, CompileInvariance, PTL

(* A compiled rule fails on no context with an error of the machine: no    *)
(* underflow, no index or target out of range, no panic, and not for want  *)
(* of steps when the budget is at least the length of its code.            *)
CompiledRunsClean ==
    /\ outcome.code \notin StructuralErrors
    /\ compiled /\ Len(prog.code) <= MaxSteps => outcome.code # "BUDGET_STEPS"
    /\ compiled /\ FitsStack(prog) => outcome.code # "BUDGET_STACK"

(* What BytecodeVM.evalSafe returns of a rule that Compile accepted.       *)
THEOREM CompiledRulesRunClean == CompileSpec => []CompiledRunsClean
<1>1. CInv => CompiledRunsClean
  <2> SUFFICES ASSUME CInv PROVE CompiledRunsClean
    OBVIOUS
  <2>1. CASE ~compiled
    BY <2>1 DEF CInv, Start, CompiledRunsClean, StructuralErrors
  <2>2. CASE compiled
    BY <2>2 DEF CInv, IInv, WellFormedRunsClean, WellFormedWithinSteps, WellFormed,
                CompiledRunsClean
  <2> QED BY <2>1, <2>2
<1> QED BY <1>1, CompileInvariance, PTL

(* An instruction of balanced code hands control on to one behind it.      *)
LEMMA GoesForward ==
    ASSUME CInv, compiled, WentOn PROVE ip' > ip
<1>1. IInv /\ Balanced(prog) /\ AtInstruction
  BY DEF CInv, WentOn
<1>2. Len(prog.code) \in Nat /\ ip \in 0..(Len(prog.code) - 1)
  BY <1>1 DEF IInv, TypeOK, IsProgram, AtInstruction
<1>3. current.op \in Jumps => current.arg \in (ip + 1)..Len(prog.code)
  BY <1>1, <1>2 DEF Balanced, BalancedBy, Flows, current
<1> QED BY <1>2, <1>3 DEF WentOn

(* Compiled code only runs forward: no instruction is executed twice, and  *)
(* an evaluation ends without the step budget's help.                      *)
RunsForward == [][ip' # ip => compiled /\ ip' > ip]_<<vars, compileVars>>

(* The jumps that Compile patches never lead back, on any path.            *)
THEOREM CompiledCodeRunsForward == CompileSpec => RunsForward
<1>1. ASSUME CInv, [CompileNext]_<<vars, compileVars>>, ip' # ip
      PROVE  compiled /\ ip' > ip
  <2>1. CASE Emit \/ Evaluate \/ UNCHANGED <<vars, compileVars>>
    BY <1>1, <2>1 DEF Emit, Evaluate, vars
  <2>2. CASE Evaluation
    <3>1. compiled /\ (Ended \/ WentOn)
      BY <2>2, StepGoesOn DEF Evaluation
    <3> QED BY <1>1, <3>1, GoesForward DEF Ended
  <2> QED BY <1>1, <2>1, <2>2 DEF CompileNext
<1>2. CInv /\ [CompileNext]_<<vars, compileVars>>
        => [ip' # ip => compiled /\ ip' > ip]_<<vars, compileVars>>
  BY <1>1
<1> QED BY <1>2, CompileInvariance, PTL DEF CompileSpec, RunsForward

(* optimizeInstructions drops and moves nothing: of the compiler's own     *)
(* code every unconditional jump skips an arm that is not empty.           *)
PeepholeKeepsCode == work = <<>> => Program(compiler) = compiler

(* The program that Compile returns is the code that emitExpr left.        *)
THEOREM PeepholeIsIdle == CompileSpec => [](PeepholeKeepsCode /\ (compiled => prog = compiler))
<1>1. CInv => PeepholeKeepsCode /\ (compiled => prog = compiler)
  <2> SUFFICES ASSUME CInv, work = <<>> PROVE Program(compiler) = compiler
    BY DEF CInv, PeepholeKeepsCode
  <2>1. CASE ~compiled
    BY <2>1, Finished DEF CInv
  <2>2. CASE compiled
    BY <2>2 DEF CInv
  <2> QED BY <2>1, <2>2
<1> QED BY <1>1, CompileInvariance, PTL

-----------------------------------------------------------------------------
(* The pools                                                               *)

Unlike(pool) == \A i, j \in DOMAIN pool : pool[i] = pool[j] => i = j
UnlikeKeys(pool) == \A i, j \in DOMAIN pool : ConstKey(pool[i]) = ConstKey(pool[j]) => i = j

(* The pools have one entry for each key.  So the tables constIndex,       *)
(* accessorIndex and builtinIndex of BytecodeCompiler hold nothing that    *)
(* the pools do not tell, and IndexIn finds what they hold.                *)
PoolsHaveOneOfEach(c) ==
    UnlikeKeys(c.consts) /\ Unlike(c.accessors) /\ Unlike(c.builtins)

(* What is interned is put behind the pool only when nothing in it has its *)
(* key.                                                                    *)
LEMMA InternKeepsKeys ==
    ASSUME NEW pool, IsStack(pool), UnlikeKeys(pool), NEW x,
           NEW found, found = {k \in DOMAIN pool : ConstKey(pool[k]) = ConstKey(x)},
           NEW i, i = IF found = {} THEN Len(pool) ELSE Min(found) - 1
    PROVE  UnlikeKeys(Interned(pool, i, x))
<1>1. Len(pool) \in Nat /\ DOMAIN pool = 1..Len(pool)
  BY DEF IsStack
<1>2. i \in Nat /\ i <= Len(pool) /\ (i # Len(pool) => i + 1 \in found)
  BY PlaceFacts
<1>3. CASE i # Len(pool)
  BY <1>3 DEF Interned
<1>4. CASE i = Len(pool)
  <2>1. found = {}
    <3> SUFFICES ASSUME found # {} PROVE FALSE
      OBVIOUS
    <3>1. Min(found) \in found /\ i = Min(found) - 1
      BY <1>1, MinMember
    <3>2. Min(found) \in 1..Len(pool)
      BY <1>1, <3>1
    <3> QED BY <1>1, <1>4, <3>1, <3>2
  <2>2. \A k \in 1..Len(pool) : ConstKey(pool[k]) # ConstKey(x)
    BY <1>1, <2>1
  <2> DEFINE q == Append(pool, x)
  <2>3. /\ Interned(pool, i, x) = q /\ DOMAIN q = 1..(Len(pool) + 1)
        /\ \A k \in 1..Len(pool) : q[k] = pool[k]
        /\ q[Len(pool) + 1] = x
    <3>1. IsStack(q) /\ Len(q) = Len(pool) + 1
          /\ (\A k \in 1..Len(pool) : q[k] = pool[k]) /\ q[Len(pool) + 1] = x
      BY AppendFacts
    <3>2. Interned(pool, i, x) = q
      BY <1>4, Zenon DEF Interned
    <3> HIDE DEF q
    <3>3. DOMAIN q = 1..Len(q)
      BY <3>1 DEF IsStack
    <3> QED BY <3>1, <3>2, <3>3, Zenon
  <2> HIDE DEF q
  <2>4. \A k \in DOMAIN q : k \in 1..Len(pool) \/ k = Len(pool) + 1
    BY <1>1, <2>3
  <2>5. UnlikeKeys(q)
    BY <1>1, <2>2, <2>3, <2>4 DEF UnlikeKeys
  <2> QED BY <2>3, <2>5
<1> QED BY <1>3, <1>4

(* The same of the pools whose entries are their own keys.                 *)
LEMMA InternKeepsEntries ==
    ASSUME NEW pool, IsStack(pool), Unlike(pool), NEW x,
           NEW found, found = {k \in DOMAIN pool : pool[k] = x},
           NEW i, i = IF found = {} THEN Len(pool) ELSE Min(found) - 1
    PROVE  Unlike(Interned(pool, i, x))
<1>1. Len(pool) \in Nat /\ DOMAIN pool = 1..Len(pool)
  BY DEF IsStack
<1>2. i \in Nat /\ i <= Len(pool) /\ (i # Len(pool) => i + 1 \in found)
  BY PlaceFacts
<1>3. CASE i # Len(pool)
  BY <1>3 DEF Interned
<1>4. CASE i = Len(pool)
  <2>1. found = {}
    <3> SUFFICES ASSUME found # {} PROVE FALSE
      OBVIOUS
    <3>1. Min(found) \in found /\ i = Min(found) - 1
      BY <1>1, MinMember
    <3>2. Min(found) \in 1..Len(pool)
      BY <1>1, <3>1
    <3> QED BY <1>1, <1>4, <3>1, <3>2
  <2>2. \A k \in 1..Len(pool) : pool[k] # x
    BY <1>1, <2>1
  <2> DEFINE q == Append(pool, x)
  <2>3. /\ Interned(pool, i, x) = q /\ DOMAIN q = 1..(Len(pool) + 1)
        /\ \A k \in 1..Len(pool) : q[k] = pool[k]
        /\ q[Len(pool) + 1] = x
    <3>1. IsStack(q) /\ Len(q) = Len(pool) + 1
          /\ (\A k \in 1..Len(pool) : q[k] = pool[k]) /\ q[Len(pool) + 1] = x
      BY AppendFacts
    <3>2. Interned(pool, i, x) = q
      BY <1>4, Zenon DEF Interned
    <3> HIDE DEF q
    <3>3. DOMAIN q = 1..Len(q)
      BY <3>1 DEF IsStack
    <3> QED BY <3>1, <3>2, <3>3, Zenon
  <2> HIDE DEF q
  <2>4. \A k \in DOMAIN q : k \in 1..Len(pool) \/ k = Len(pool) + 1
    BY <1>1, <2>3
  <2>5. Unlike(q)
    BY <1>1, <2>2, <2>3, <2>4 DEF Unlike
  <2> QED BY <2>3, <2>5
<1> QED BY <1>3, <1>4

(* Emitting an instruction and patching one leave the pools alone.         *)
LEMMA PoolsStay ==
    ASSUME NEW c, IsCompiler(c), NEW x
    PROVE  /\ [c EXCEPT !.code = x].consts = c.consts
           /\ [c EXCEPT !.code = x].accessors = c.accessors
           /\ [c EXCEPT !.code = x].builtins = c.builtins
<1>1. [c EXCEPT !.code = x] = [code |-> x, consts |-> c.consts,
          accessors |-> c.accessors, builtins |-> c.builtins]
  BY PartFacts, Zenon
<1> PICK d : d = [c EXCEPT !.code = x]
  OBVIOUS
<1> QED BY <1>1

(* No task puts into a pool what is there.                                 *)
LEMMA TaskKeepsPools ==
    ASSUME NEW c, IsCompiler(c), PoolsHaveOneOfEach(c), NEW t, IsTask(t),
           Waits(t) => t.at \in 1..Len(c.code)
    PROVE  PoolsHaveOneOfEach(Emitted(t, c))
<1>1. ASSUME NEW b, IsCompiler(b), PoolsHaveOneOfEach(b), NEW op, NEW arg, NEW aux
      PROVE  PoolsHaveOneOfEach(emit(b, op, arg, aux))
  <2>1. emit(b, op, arg, aux)
          = [b EXCEPT !.code = Append(b.code, [op |-> op, arg |-> arg, aux |-> aux])]
    BY Zenon DEF emit
  <2> QED BY <1>1, <2>1, PoolsStay DEF PoolsHaveOneOfEach
<1>2. ASSUME NEW b, IsCompiler(b), PoolsHaveOneOfEach(b), NEW at \in 1..Len(b.code)
      PROVE  PoolsHaveOneOfEach(Patch(b, at))
  <2>1. /\ Patch(b, at).consts = b.consts
        /\ Patch(b, at).accessors = b.accessors
        /\ Patch(b, at).builtins = b.builtins
    BY <1>2, PatchFacts
  <2> QED BY <1>2, <2>1 DEF PoolsHaveOneOfEach
<1>3. IsStack(c.consts) /\ IsStack(c.accessors) /\ IsStack(c.builtins)
  BY DEF IsCompiler
<1>4. CASE t.task = "const"
  <2> DEFINE v == t.value
             found == {k \in DOMAIN c.consts : ConstKey(c.consts[k]) = ConstKey(v)}
             i == IF found = {} THEN Len(c.consts) ELSE Min(found) - 1
             pool == Interned(c.consts, i, v)
             b == [c EXCEPT !.consts = pool]
  <2>1. Emitted(t, c) = emit(b, "PUSH_CONST", i, 0)
    <3>1. Emitted(t, c) = internConst(c, v)
      BY <1>4 DEF Emitted
    <3>2. internConst(c, v) = emit(b, "PUSH_CONST", i, 0)
      BY Zenon DEF internConst, IndexIn
    <3> QED BY <3>1, <3>2, Zenon
  <2>2. UnlikeKeys(pool)
    <3> HIDE DEF v
    <3>1. UnlikeKeys(c.consts)
      BY DEF PoolsHaveOneOfEach
    <3> QED BY <1>3, <3>1, InternKeepsKeys, Zenon
  <2>3. IsStack(pool)
    <3>1. i \in Nat /\ i <= Len(c.consts)
      <4>1. found \subseteq DOMAIN c.consts
        OBVIOUS
      <4> HIDE DEF found
      <4> QED BY <1>3, <4>1, PlaceFacts
    <3> HIDE DEF i
    <3> QED BY <1>3, <3>1, InternFacts
  <2> HIDE DEF pool, i, found, v
  <2>4. b = [code |-> c.code, consts |-> pool, accessors |-> c.accessors, builtins |-> c.builtins]
    BY PartFacts, Zenon
  <2> HIDE DEF b
  <2>5. IsCompiler(b) /\ PoolsHaveOneOfEach(b)
    BY <2>2, <2>3, <2>4 DEF IsCompiler, PoolsHaveOneOfEach
  <2> QED BY <1>1, <2>1, <2>5
<1>5. CASE t.task = "load"
  <2> DEFINE a == t.accessor
             found == {k \in DOMAIN c.accessors : c.accessors[k] = a}
             i == IF found = {} THEN Len(c.accessors) ELSE Min(found) - 1
             pool == Interned(c.accessors, i, a)
             b == [c EXCEPT !.accessors = pool]
  <2>1. Emitted(t, c) = emit(b, "LOAD_FACTOR", i, 0)
    <3>1. Emitted(t, c) = internAccessor(c, a)
      BY <1>5 DEF Emitted
    <3>2. internAccessor(c, a) = emit(b, "LOAD_FACTOR", i, 0)
      BY Zenon DEF internAccessor, IndexIn
    <3> QED BY <3>1, <3>2, Zenon
  <2>2. Unlike(pool)
    <3> HIDE DEF a
    <3>1. Unlike(c.accessors)
      BY DEF PoolsHaveOneOfEach
    <3> QED BY <1>3, <3>1, InternKeepsEntries, Zenon
  <2>3. IsStack(pool)
    <3>1. i \in Nat /\ i <= Len(c.accessors)
      <4>1. found \subseteq DOMAIN c.accessors
        OBVIOUS
      <4> HIDE DEF found
      <4> QED BY <1>3, <4>1, PlaceFacts
    <3> HIDE DEF i
    <3> QED BY <1>3, <3>1, InternFacts
  <2> HIDE DEF pool, i, found, a
  <2>4. b = [code |-> c.code, consts |-> c.consts, accessors |-> pool, builtins |-> c.builtins]
    BY PartFacts, Zenon
  <2> HIDE DEF b
  <2>5. IsCompiler(b) /\ PoolsHaveOneOfEach(b)
    BY <2>2, <2>3, <2>4 DEF IsCompiler, PoolsHaveOneOfEach
  <2> QED BY <1>1, <2>1, <2>5
<1>6. CASE t.task = "call"
  <2> DEFINE a == t.name
             found == {k \in DOMAIN c.builtins : c.builtins[k] = a}
             i == IF found = {} THEN Len(c.builtins) ELSE Min(found) - 1
             pool == Interned(c.builtins, i, a)
             b == [c EXCEPT !.builtins = pool]
  <2>1. Emitted(t, c) = emit(b, "CALL_BUILTIN", i, t.argc)
    <3>1. Emitted(t, c) = internBuiltin(c, a, t.argc)
      BY <1>6 DEF Emitted
    <3>2. internBuiltin(c, a, t.argc) = emit(b, "CALL_BUILTIN", i, t.argc)
      BY Zenon DEF internBuiltin, IndexIn
    <3> QED BY <3>1, <3>2, Zenon
  <2>2. Unlike(pool)
    <3> HIDE DEF a
    <3>1. Unlike(c.builtins)
      BY DEF PoolsHaveOneOfEach
    <3> QED BY <1>3, <3>1, InternKeepsEntries, Zenon
  <2>3. IsStack(pool)
    <3>1. i \in Nat /\ i <= Len(c.builtins)
      <4>1. found \subseteq DOMAIN c.builtins
        OBVIOUS
      <4> HIDE DEF found
      <4> QED BY <1>3, <4>1, PlaceFacts
    <3> HIDE DEF i
    <3> QED BY <1>3, <3>1, InternFacts
  <2> HIDE DEF pool, i, found, a
  <2>4. b = [code |-> c.code, consts |-> c.consts, accessors |-> c.accessors, builtins |-> pool]
    BY PartFacts, Zenon
  <2> HIDE DEF b
  <2>5. IsCompiler(b) /\ PoolsHaveOneOfEach(b)
    BY <2>2, <2>3, <2>4 DEF IsCompiler, PoolsHaveOneOfEach
  <2> QED BY <1>1, <2>1, <2>5
<1>7. CASE t.task = "op" \/ t.task = "branch"
  <2>1. Emitted(t, c) = emit(c, t.op, t.arg, 0) \/ Emitted(t, c) = emit(c, t.op, 0, 0)
    BY <1>7 DEF Emitted
  <2> QED BY <1>1, <2>1
<1>8. CASE t.task = "else"
  <2> DEFINE b == emit(c, "JUMP", 0, 0)
  <2>1. Emitted(t, c) = Patch(b, t.at) /\ Waits(t)
    BY <1>8 DEF Emitted, Waits
  <2>2. PoolsHaveOneOfEach(b)
    BY <1>1, Zenon
  <2>3. IsCompiler(b) /\ Len(b.code) = Len(c.code) + 1
    <3>1. "JUMP" \in OpCodes /\ 0 \in Int
      BY DEF OpCodes, Jumps
    <3>2. OneMore(c, b, Instr("JUMP", 0, 0))
      BY <3>1, EmitFacts, Zenon
    <3> QED BY <3>2 DEF OneMore
  <2> HIDE DEF b
  <2>4. t.at \in 1..Len(b.code)
    <3>1. Len(c.code) \in Nat
      BY DEF IsCompiler
    <3> QED BY <2>1, <2>3, <3>1
  <2> QED BY <1>2, <2>1, <2>2, <2>3, <2>4
<1>9. CASE t.task = "land"
  <2>1. Emitted(t, c) = Patch(c, t.at) /\ Waits(t)
    BY <1>9 DEF Emitted, Waits
  <2> QED BY <1>2, <2>1
<1>10. CASE t.task = "expr"
  BY <1>10 DEF Emitted
<1> QED BY <1>4, <1>5, <1>6, <1>7, <1>8, <1>9, <1>10 DEF IsTask, IsArm

(* Every constant key, accessor and builtin of a rule is interned once,    *)
(* however often the rule has it.                                          *)
THEOREM InternedOnce == CompileSpec => []PoolsHaveOneOfEach(compiler)
<1>1. CompileInit => PoolsHaveOneOfEach(compiler)
  BY DEF CompileInit, CompileStart, NewCompiler, PoolsHaveOneOfEach, Unlike, UnlikeKeys
<1>2. CInv /\ PoolsHaveOneOfEach(compiler) /\ [CompileNext]_<<vars, compileVars>>
        => PoolsHaveOneOfEach(compiler)'
  <2> SUFFICES ASSUME CInv, PoolsHaveOneOfEach(compiler), [CompileNext]_<<vars, compileVars>>
               PROVE  PoolsHaveOneOfEach(compiler)'
    OBVIOUS
  <2>1. CASE Emit
    <3>1. work # <<>> /\ Emitting(compiler, work)
      BY <2>1 DEF Emit, CInv
    <3>2. PICK h, H : EmittingBy(compiler, work, h, H)
      BY <3>1 DEF Emitting
    <3>3. IsCompiler(compiler) /\ Head(work) = work[1] /\ Ready(compiler, h, work[1], H[1], H[2])
      BY <3>1, <3>2, HeadReady
    <3>4. /\ IsTask(work[1])
          /\ Waits(work[1]) => work[1].at \in 1..Len(compiler.code)
      BY <3>3 DEF Ready, Awaited
    <3>5. PoolsHaveOneOfEach(Emitted(work[1], compiler))
      BY <3>3, <3>4, TaskKeepsPools
    <3> QED BY <2>1, <3>3, <3>5 DEF Emit
  <2>2. CASE Evaluate \/ Evaluation \/ UNCHANGED <<vars, compileVars>>
    BY <2>2 DEF Evaluate, Evaluation, compileVars
  <2> QED BY <2>1, <2>2 DEF CompileNext
<1> QED BY <1>1, <1>2, CompileInvariance, PTL DEF CompileSpec
=============================================================================
