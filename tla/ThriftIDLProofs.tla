-------------------------- MODULE ThriftIDLProofs --------------------------
(***************************************************************************)
(* What reading .thrift files comes to, for all files and whatever order   *)
(* Go takes the structs in: which files are accepted, and what the         *)
(* registry holds.                                                         *)
(***************************************************************************)
EXTENDS ThriftIDL, FiniteSetTheorems, WellFoundedInduction, TLAPS

(* The structs whose body can be read when those in S are known.           *)
ReadableFrom(file, S) ==
    {n \in DOMAIN file.structs : \A i \in DOMAIN file.structs[n] :
        /\ file.structs[n][i] # <<>>
        /\ file.structs[n][i][1].type \in S \cup DOMAIN ScalarTypes}

(* The structs that can be described without those in V.                   *)
Without(file, V) ==
    {n \in DOMAIN file.structs :
        \A S \in SUBSET DOMAIN file.structs : ReadableFrom(file, S) \ V \subseteq S => n \in S}

(* The names being built from the i-th frame of a stack down.              *)
Under(s, i) == {s[j].name : j \in i..Len(s)}

(* The first building begun of those in progress.                          *)
Bottom(s) == s[Len(s)].name

IsSequence(s) == \E S : s \in Seq(S)

(* What a building remembers of the structs known.                         *)
Remembers(lazy, known) == \A n \in DOMAIN lazy : n \in DOMAIN known /\ lazy[n] = known[n]

(* The stack with a name of its top frame tried, and with the building of  *)
(* that name begun.                                                        *)
TopWith(s, n, lazy) ==
    <<[name |-> s[1].name, todo |-> s[1].todo \ {n}, lazy |-> lazy]>> \o Tail(s)
PushOf(file, s, n) ==
    <<[name |-> n, todo |-> DOMAIN file.structs, lazy |-> <<>>],
      [name |-> s[1].name, todo |-> s[1].todo \ {n}, lazy |-> s[1].lazy]>> \o Tail(s)

(* The stack without its top frame, with a struct more in the next one.    *)
TailWith(s, m, fields) ==
    [i \in DOMAIN Tail(s) |->
        IF i = 1 THEN [Tail(s)[1] EXCEPT !.lazy = With(@, m, fields)] ELSE Tail(s)[i]]

(* The body of a struct has its statements one after the other.            *)
Bodies(file) ==
    \A n \in DOMAIN file.structs :
        /\ Len(file.structs[n]) \in Nat
        /\ DOMAIN file.structs[n] = 1..Len(file.structs[n])

-----------------------------------------------------------------------------
PhaseInv ==
    /\ IsSequence(calls) /\ \A i \in DOMAIN calls : Bodies(calls[i].file)
    /\ phase \in {"idle", "reading"}
    /\ phase = "idle" => pending = {} /\ structs = <<>> /\ stack = <<>>
    /\ phase = "reading" => calls # <<>> /\ pending \subseteq DOMAIN rawStructs

(* What is known is known from the file alone.                             *)
StructsInv ==
    phase = "reading" =>
        /\ DOMAIN structs \subseteq Without(call.file, {})
        /\ IsDescription(structs, call.file)
        /\ \A n \in DOMAIN rawStructs :
               n \in pending \cup DOMAIN structs \/ (stack # <<>> /\ n = Bottom(stack))

(* A building takes no name that is being built, remembers nothing but     *)
(* what is known, and has every name it has tried that can be described    *)
(* without the structs being built; the last one may be above it.          *)
FrameIsSound(file, known, s, i) ==
    LET f == s[i]
    IN  /\ f = [name |-> f.name, todo |-> f.todo, lazy |-> f.lazy]
        /\ f.name \in DOMAIN file.structs \ DOMAIN known /\ f.todo \subseteq DOMAIN file.structs
        /\ \A j \in DOMAIN s : s[j].name = f.name => i = j
        /\ Remembers(f.lazy, known)
        /\ \A n \in Without(file, Under(s, i)) :
               n \in f.todo \cup DOMAIN f.lazy \/ (i > 1 /\ s[i - 1].name = n)

StackIsSound(file, known, s) ==
    IsSequence(s) /\ \A i \in DOMAIN s : FrameIsSound(file, known, s, i)

StackInv == StackIsSound(call.file, structs, stack)

Accepted == {i \in DOMAIN results : results[i].result = "ok"}
Declared(i) == Specs(results[i].call, results[i].known)

ResultsInv ==
    /\ IsSequence(results)
    /\ \A i \in Accepted :
           /\ DOMAIN results[i].known = DOMAIN results[i].call.file.structs
           /\ IsDescription(results[i].known, results[i].call.file)
    /\ methods = [k \in DOMAIN methods |-> methods[k]]
    /\ DOMAIN methods = UNION {DOMAIN Declared(i) : i \in Accepted}
    /\ \A k \in DOMAIN methods : \E i \in Accepted :
           /\ k \in DOMAIN Declared(i) /\ methods[k] = Declared(i)[k]
           /\ \A j \in Accepted : k \in DOMAIN Declared(j) => j <= i

IDLInv == PhaseInv /\ StructsInv /\ StackInv /\ ResultsInv /\ AcceptsWhatIsDescribable
-----------------------------------------------------------------------------
(* Fields                                                                  *)

(* Of indices there is a last one.                                         *)
LEMMA LastIndex ==
    ASSUME NEW n \in Nat, NEW S, S \subseteq 1..n, S # {}
    PROVE  \E i \in S : \A j \in S : j <= i
<1> DEFINE T == {n - i : i \in S}
<1>0. \A i \in S : i \in 1..n /\ n - i \in Nat
  OBVIOUS
<1>1. T \subseteq Nat /\ T # {}
  BY <1>0
<1>2. PICK x \in T : \A y \in T : ~(<<y, x>> \in OpToRel(<, Nat))
  BY <1>1, NatLessThanWellFounded, WFMin
<1>3. \A y \in T : ~(y < x)
  BY <1>1, <1>2 DEF OpToRel
<1>4. PICK i \in S : x = n - i
  BY <1>2
<1>5. ASSUME NEW j \in S PROVE j <= i
  <2>1. ~(n - j < n - i)
    BY <1>3, <1>4
  <2>2. i \in Int /\ j \in Int
    BY <1>0
  <2> HIDE DEF T
  <2> QED BY <2>1, <2>2
<1> QED BY <1>5

(* Fields that can be read keep their meaning as more becomes known.       *)
LEMMA ParseKnown ==
    ASSUME NEW body, Len(body) \in Nat, DOMAIN body = 1..Len(body),
           NEW K, NEW L, \A n \in DOMAIN K : n \in DOMAIN L /\ K[n] = L[n],
           FieldsParse(body, K)
    PROVE  FieldsParse(body, L) /\ parseThriftFields(body, K) = parseThriftFields(body, L)
<1>1. FieldsParse(body, L)
  BY DEF FieldsParse, Resolves
<1>2. ASSUME NEW i \in DOMAIN body PROVE parseThriftField(body[i], K) = parseThriftField(body[i], L)
  BY DEF FieldsParse, Resolves, parseThriftField, resolveThriftTypeDescriptor
<1> DEFINE names == {body[i][1].name : i \in DOMAIN body}
           Last(f) == CHOOSE i \in DOMAIN body :
                          body[i][1].name = f /\ \A j \in DOMAIN body : body[j][1].name = f => j <= i
<1>3. ASSUME NEW f \in names PROVE Last(f) \in DOMAIN body
  <2> DEFINE S == {i \in DOMAIN body : body[i][1].name = f}
  <2>1. S \subseteq 1..Len(body) /\ S # {}
    OBVIOUS
  <2>2. PICK i \in S : \A j \in S : j <= i
    BY <2>1, LastIndex
  <2> QED BY <2>2
<1>4. \A f \in names : parseThriftField(body[Last(f)], K) = parseThriftField(body[Last(f)], L)
  BY <1>2, <1>3
<1>5. parseThriftFields(body, K) = [f \in names |-> parseThriftField(body[Last(f)], K)]
  BY DEF parseThriftFields
<1>6. parseThriftFields(body, L) = [f \in names |-> parseThriftField(body[Last(f)], L)]
  BY DEF parseThriftFields
<1> HIDE DEF names, Last
<1> QED BY <1>1, <1>4, <1>5, <1>6

-----------------------------------------------------------------------------
(* What can be described                                                   *)

(* Describable is what can be described without leaving any struct out.    *)
LEMMA DescribableIs == \A file : Describable(file) = Without(file, {})
BY DEF Describable, Without, ReadableFrom

(* More structs make more readable.                                        *)
LEMMA ReadableMonotone ==
    ASSUME NEW file, NEW S, NEW T, S \subseteq T
    PROVE  ReadableFrom(file, S) \subseteq ReadableFrom(file, T)
BY DEF ReadableFrom

(* What can be read from such structs, and is not left out, is one.        *)
LEMMA WithoutClosed ==
    ASSUME NEW file, NEW V
    PROVE  /\ ReadableFrom(file, Without(file, V)) \ V \subseteq Without(file, V)
           /\ Without(file, V) \cap V = {}
           /\ Without(file, V) \subseteq DOMAIN file.structs
<1> DEFINE names == DOMAIN file.structs
           W == Without(file, V)
<1>1. ASSUME NEW n \in ReadableFrom(file, W) \ V, NEW S \in SUBSET names,
             ReadableFrom(file, S) \ V \subseteq S
      PROVE  n \in S
  <2>1. W \subseteq S
    BY <1>1 DEF Without
  <2>2. n \in ReadableFrom(file, S)
    BY <1>1, <2>1, ReadableMonotone
  <2> QED BY <1>1, <2>2
<1>2. \A n \in ReadableFrom(file, W) : n \in names
  BY DEF ReadableFrom
<1>3. W \cap V = {}
  <2>1. ReadableFrom(file, names \ V) \ V \subseteq names \ V
    BY DEF ReadableFrom
  <2> QED BY <2>1 DEF Without
<1> QED BY <1>1, <1>2, <1>3 DEF Without

(* A struct that can be described is readable from structs that can be     *)
(* described without it: one that needs itself cannot be described.        *)
LEMMA DescribedWithoutItself ==
    ASSUME NEW file, NEW V, NEW m \in Without(file, V)
    PROVE  m \in ReadableFrom(file, Without(file, V \cup {m}))
<1> DEFINE X == Without(file, V \cup {m})
<1> SUFFICES ASSUME m \notin ReadableFrom(file, X) PROVE FALSE
  OBVIOUS
<1>1. /\ ReadableFrom(file, X) \ (V \cup {m}) \subseteq X
      /\ X \cap (V \cup {m}) = {} /\ X \subseteq DOMAIN file.structs
  BY WithoutClosed
<1>2. ReadableFrom(file, X) \ V \subseteq X
  BY <1>1
<1>3. m \in X
  BY <1>1, <1>2 DEF Without
<1> QED BY <1>1, <1>3

-----------------------------------------------------------------------------
(* Stacks                                                                  *)

(* One frame less.                                                         *)
LEMMA TailIs ==
    ASSUME NEW s, IsSequence(s), s # <<>>
    PROVE  /\ IsSequence(Tail(s)) /\ Len(s) \in Nat \ {0} /\ DOMAIN s = 1..Len(s) /\ Head(s) = s[1]
           /\ Len(Tail(s)) = Len(s) - 1 /\ DOMAIN Tail(s) = 1..(Len(s) - 1)
           /\ \A i \in 1..(Len(s) - 1) : Tail(s)[i] = s[i + 1]
<1>1. PICK S : s \in Seq(S)
  BY DEF IsSequence
<1>2. Tail(s) \in Seq(S)
  BY <1>1
<1> QED BY <1>1, <1>2 DEF IsSequence

(* The top frame changed.                                                  *)
LEMMA TopChanged ==
    ASSUME NEW s, IsSequence(s), s # <<>>, NEW a
    PROVE  LET t == <<a>> \o Tail(s)
           IN  /\ IsSequence(t) /\ Len(t) = Len(s) /\ DOMAIN t = 1..Len(s)
               /\ t[1] = a /\ \A i \in 2..Len(s) : t[i] = s[i]
<1>1. PICK S : s \in Seq(S)
  BY DEF IsSequence
<1> DEFINE T == S \cup {a}
<1>2. s \in Seq(T) /\ a \in T
  BY <1>1
<1> HIDE DEF T
<1>3. <<a>> \o Tail(s) \in Seq(T)
  BY <1>2
<1> QED BY <1>2, <1>3 DEF IsSequence

(* The top frame changed, and one above it.                                *)
LEMMA Pushed ==
    ASSUME NEW s, IsSequence(s), s # <<>>, NEW a, NEW b
    PROVE  LET t == <<a, b>> \o Tail(s)
           IN  /\ IsSequence(t) /\ Len(t) = Len(s) + 1 /\ DOMAIN t = 1..(Len(s) + 1)
               /\ t[1] = a /\ t[2] = b /\ \A i \in 3..(Len(s) + 1) : t[i] = s[i - 1]
<1>1. PICK S : s \in Seq(S)
  BY DEF IsSequence
<1> DEFINE T == S \cup {a, b}
<1>2. s \in Seq(T) /\ a \in T /\ b \in T
  BY <1>1
<1> HIDE DEF T
<1>3. <<a, b>> \o Tail(s) \in Seq(T)
  BY <1>2
<1> QED BY <1>2, <1>3 DEF IsSequence

(* Only names count for what is being built.                               *)
LEMMA UnderKept ==
    ASSUME NEW s, NEW t, Len(s) \in Nat, Len(t) = Len(s), \A j \in 1..Len(s) : t[j].name = s[j].name
    PROVE  \A i \in 1..Len(s) : Under(t, i) = Under(s, i)
<1> SUFFICES ASSUME NEW i \in 1..Len(s) PROVE Under(t, i) = Under(s, i)
  OBVIOUS
<1>1. \A j \in i..Len(s) : j \in 1..Len(s)
  OBVIOUS
<1> QED BY <1>1 DEF Under

(* t is s with a frame on top, for all that names tell.                    *)
Shifted(s, t) ==
    /\ Len(s) \in Nat /\ Len(t) = Len(s) + 1
    /\ \A j \in 1..Len(s) : t[j + 1].name = s[j].name

(* A frame put on top is under itself and above the others.                *)
LEMMA UnderShifted ==
    ASSUME NEW s, NEW t, Shifted(s, t)
    PROVE  /\ \A i \in 1..Len(s) : Under(t, i + 1) = Under(s, i)
           /\ Under(t, 1) = {t[1].name} \cup Under(t, 2)
<1> USE DEF Shifted
<1>1. ASSUME NEW i \in 1..Len(s) PROVE Under(t, i + 1) = Under(s, i)
  <2>1. ASSUME NEW x \in Under(t, i + 1) PROVE x \in Under(s, i)
    <3>1. PICK j \in (i + 1)..(Len(s) + 1) : x = t[j].name
      BY DEF Under
    <3>2. j - 1 \in i..Len(s) /\ j - 1 \in 1..Len(s) /\ (j - 1) + 1 = j
      BY <3>1
    <3>3. x = s[j - 1].name
      BY <3>1, <3>2
    <3> QED BY <3>2, <3>3 DEF Under
  <2>2. ASSUME NEW x \in Under(s, i) PROVE x \in Under(t, i + 1)
    <3>1. PICK j \in i..Len(s) : x = s[j].name
      BY DEF Under
    <3>2. j \in 1..Len(s) /\ j + 1 \in (i + 1)..(Len(s) + 1)
      BY <3>1
    <3>3. x = t[j + 1].name
      BY <3>1, <3>2
    <3> QED BY <3>2, <3>3 DEF Under
  <2> QED BY <2>1, <2>2
<1>2. Under(t, 1) = {t[1].name} \cup Under(t, 2)
  <2>1. 1..(Len(s) + 1) = {1} \cup 2..(Len(s) + 1)
    OBVIOUS
  <2> QED BY <2>1 DEF Under
<1> QED BY <1>1, <1>2

-----------------------------------------------------------------------------
(* Buildings in progress                                                   *)

(* A building goes on to the next name.                                    *)
LEMMA TopIsSound ==
    ASSUME NEW file, NEW known, NEW s, StackIsSound(file, known, s), s # <<>>,
           NEW n \in s[1].todo, NEW lazy,
           Remembers(lazy, known), DOMAIN s[1].lazy \subseteq DOMAIN lazy,
           n \in Without(file, Under(s, 1)) => n \in DOMAIN lazy,
           NEW t, t = TopWith(s, n, lazy)
    PROVE  /\ StackIsSound(file, known, t) /\ t # <<>>
           /\ Len(t) = Len(s) /\ Bottom(t) = Bottom(s)
<1> DEFINE f == [name |-> s[1].name, todo |-> s[1].todo \ {n}, lazy |-> lazy]
<1>1. /\ IsSequence(s) /\ Len(s) \in Nat \ {0} /\ DOMAIN s = 1..Len(s)
      /\ \A i \in 1..Len(s) : FrameIsSound(file, known, s, i)
  BY TailIs DEF StackIsSound
<1>2. /\ IsSequence(t) /\ Len(t) = Len(s) /\ DOMAIN t = 1..Len(s)
      /\ t[1] = f /\ \A i \in 2..Len(s) : t[i] = s[i]
  <2> HIDE DEF f
  <2>1. t = <<f>> \o Tail(s)
    BY DEF f, TopWith
  <2> QED BY <1>1, <2>1, TopChanged
<1>3. \A j \in 1..Len(s) : t[j].name = s[j].name
  BY <1>1, <1>2
<1>4. \A i \in 1..Len(s) : Under(t, i) = Under(s, i)
  BY <1>1, <1>2, <1>3, UnderKept
<1>5. FrameIsSound(file, known, t, 1)
  <2>1. 1 \in 1..Len(s)
    BY <1>1
  <2>2. FrameIsSound(file, known, s, 1) /\ Under(t, 1) = Under(s, 1)
    BY <1>1, <1>4, <2>1
  <2>3. f.name = s[1].name /\ f.todo = s[1].todo \ {n} /\ f.lazy = lazy
    OBVIOUS
  <2>4. \A j \in DOMAIN t : t[j].name = f.name => 1 = j
    BY <1>1, <1>2, <1>3, <2>2, <2>3 DEF FrameIsSound
  <2>5. ASSUME NEW m \in Without(file, Under(t, 1)) PROVE m \in f.todo \cup DOMAIN f.lazy
    BY <2>2, <2>3, <2>5 DEF FrameIsSound
  <2>6. f.name \in DOMAIN file.structs \ DOMAIN known /\ f.todo \subseteq DOMAIN file.structs
    BY <2>2, <2>3 DEF FrameIsSound
  <2>7. f = [name |-> f.name, todo |-> f.todo, lazy |-> f.lazy] /\ t[1] = f
    BY <1>2
  <2>8. Remembers(f.lazy, known)
    BY <2>3
  <2> HIDE DEF f
  <2> QED BY <2>4, <2>5, <2>6, <2>7, <2>8 DEF FrameIsSound
<1>6. ASSUME NEW i \in 2..Len(s) PROVE FrameIsSound(file, known, t, i)
  <2>0. i \in 1..Len(s) /\ i - 1 \in 1..Len(s)
    BY <1>1
  <2>1. i \in 1..Len(s) /\ FrameIsSound(file, known, s, i) /\ Under(t, i) = Under(s, i)
    BY <1>1, <1>4, <2>0
  <2>2. t[i] = s[i] /\ t[i - 1].name = s[i - 1].name
    BY <1>2, <1>3, <2>0
  <2> QED BY <1>1, <1>2, <1>3, <2>1, <2>2 DEF FrameIsSound
<1>7. \A i \in 1..Len(s) : i = 1 \/ i \in 2..Len(s)
  BY <1>1
<1>8. t # <<>> /\ Bottom(t) = Bottom(s)
  BY <1>1, <1>2, <1>3 DEF Bottom
<1> QED BY <1>2, <1>5, <1>6, <1>7, <1>8 DEF StackIsSound

(* A building begins another, of a name that is not being built.           *)
LEMMA PushIsSound ==
    ASSUME NEW file, NEW known, NEW s, StackIsSound(file, known, s), s # <<>>,
           NEW n \in s[1].todo, n \notin DOMAIN known, n \notin Under(s, 1),
           NEW t, t = PushOf(file, s, n)
    PROVE  StackIsSound(file, known, t) /\ t # <<>> /\ Bottom(t) = Bottom(s)
<1> DEFINE f == [name |-> n, todo |-> DOMAIN file.structs, lazy |-> <<>>]
           g == [name |-> s[1].name, todo |-> s[1].todo \ {n}, lazy |-> s[1].lazy]
<1>1. /\ IsSequence(s) /\ Len(s) \in Nat \ {0} /\ DOMAIN s = 1..Len(s)
      /\ \A i \in 1..Len(s) : FrameIsSound(file, known, s, i)
  BY TailIs DEF StackIsSound
<1>2. /\ IsSequence(t) /\ Len(t) = Len(s) + 1 /\ DOMAIN t = 1..(Len(s) + 1)
      /\ t[1] = f /\ t[2] = g /\ \A i \in 3..(Len(s) + 1) : t[i] = s[i - 1]
  <2> HIDE DEF f, g
  <2>1. t = <<f, g>> \o Tail(s)
    BY DEF f, g, PushOf
  <2> QED BY <1>1, <2>1, Pushed
<1>3. ASSUME NEW j \in 1..Len(s) PROVE t[j + 1].name = s[j].name
  <2>1. CASE j = 1
    BY <1>2, <2>1
  <2>2. CASE j # 1
    <3>1. j + 1 \in 3..(Len(s) + 1) /\ (j + 1) - 1 = j
      BY <1>1, <2>2
    <3> QED BY <1>2, <3>1
  <2> QED BY <2>1, <2>2
<1>4. \A i \in 1..Len(s) : Under(t, i + 1) = Under(s, i)
  <2>1. Len(s) \in Nat /\ Len(t) = Len(s) + 1
    BY <1>1, <1>2
  <2>2. \A j \in 1..Len(s) : t[j + 1].name = s[j].name
    BY <1>3
  <2>3. Shifted(s, t)
    BY <2>1, <2>2 DEF Shifted
  <2> QED BY <2>3, UnderShifted
<1>5. \A j \in 1..(Len(s) + 1) : j = 1 \/ (j - 1 \in 1..Len(s) /\ t[j].name = s[j - 1].name)
  <2> SUFFICES ASSUME NEW j \in 1..(Len(s) + 1), j # 1 PROVE j - 1 \in 1..Len(s) /\ t[j].name = s[j - 1].name
    OBVIOUS
  <2>1. j - 1 \in 1..Len(s) /\ (j - 1) + 1 = j
    BY <1>1
  <2> QED BY <1>3, <2>1
<1>6. n \in DOMAIN file.structs
  BY <1>1 DEF FrameIsSound
<1>7. FrameIsSound(file, known, t, 1)
  <2>1. f.name = n /\ f.todo = DOMAIN file.structs /\ DOMAIN f.lazy = {}
    OBVIOUS
  <2>2. \A j \in DOMAIN t : t[j].name = n => 1 = j
    <3> HIDE DEF f, g
    <3>1. \A j \in 1..Len(s) : s[j].name # n
      BY <1>1 DEF Under
    <3> QED BY <1>2, <1>5, <3>1
  <2>3. Without(file, Under(t, 1)) \subseteq DOMAIN file.structs
    BY WithoutClosed
  <2> QED BY <1>2, <1>6, <2>1, <2>2, <2>3 DEF FrameIsSound, Remembers
<1>8. ASSUME NEW i \in 1..Len(s) PROVE FrameIsSound(file, known, t, i + 1)
  <2>1. FrameIsSound(file, known, s, i) /\ Under(t, i + 1) = Under(s, i)
    BY <1>1, <1>4
  <2>2. \A j \in DOMAIN t : t[j].name = t[i + 1].name => i + 1 = j
    <3> SUFFICES ASSUME NEW j \in DOMAIN t, t[j].name = t[i + 1].name PROVE i + 1 = j
      OBVIOUS
    <3>1. t[i + 1].name = s[i].name /\ s[i].name # n
      BY <1>1, <1>3 DEF Under
    <3>2. j # 1
      BY <1>2, <3>1
    <3>3. j - 1 \in 1..Len(s) /\ t[j].name = s[j - 1].name
      BY <1>2, <1>5, <3>2
    <3>4. i = j - 1
      BY <1>1, <2>1, <3>1, <3>3 DEF FrameIsSound
    <3> QED BY <1>2, <3>4
  <2>3. CASE i = 1
    <3>1. t[i + 1] = g /\ t[(i + 1) - 1].name = n
      BY <1>2, <2>3
    <3>2. i + 1 > 1 /\ ~(i > 1)
      BY <2>3
    <3>3. g.name = s[i].name /\ g.todo = s[i].todo \ {n} /\ g.lazy = s[i].lazy
      BY <2>3
    <3>4. g.name \in DOMAIN file.structs \ DOMAIN known /\ g.todo \subseteq DOMAIN file.structs
      BY <2>1, <3>3 DEF FrameIsSound
    <3>5. Remembers(g.lazy, known)
      BY <2>1, <3>3 DEF FrameIsSound
    <3>6. ASSUME NEW m \in Without(file, Under(t, i + 1)), m # n PROVE m \in g.todo \cup DOMAIN g.lazy
      <4> HIDE DEF g
      <4> QED BY <2>1, <3>2, <3>3, <3>6 DEF FrameIsSound
    <3>7. g = [name |-> g.name, todo |-> g.todo, lazy |-> g.lazy]
      OBVIOUS
    <3> HIDE DEF g
    <3> QED BY <2>2, <3>1, <3>2, <3>4, <3>5, <3>6, <3>7 DEF FrameIsSound
  <2>4. CASE i # 1
    <3>1. i + 1 \in 3..(Len(s) + 1) /\ (i + 1) - 1 = i /\ i - 1 \in 1..Len(s) /\ (i - 1) + 1 = i /\ i > 1
      BY <1>1, <2>4
    <3>2. t[i + 1] = s[i] /\ t[(i + 1) - 1].name = s[i - 1].name
      BY <1>2, <1>3, <3>1
    <3>3. i + 1 > 1
      BY <3>1
    <3> QED BY <2>1, <2>2, <3>1, <3>2, <3>3 DEF FrameIsSound
  <2> QED BY <2>3, <2>4
<1>9. ASSUME NEW j \in DOMAIN t PROVE FrameIsSound(file, known, t, j)
  <2>1. CASE j = 1
    BY <1>7, <2>1
  <2>2. CASE j # 1
    <3>1. j - 1 \in 1..Len(s) /\ (j - 1) + 1 = j
      BY <1>1, <1>2, <2>2
    <3>2. FrameIsSound(file, known, t, (j - 1) + 1)
      BY <1>8, <3>1
    <3> QED BY <3>1, <3>2
  <2> QED BY <2>1, <2>2
<1>10. t # <<>> /\ Bottom(t) = Bottom(s)
  BY <1>1, <1>2, <1>3 DEF Bottom
<1> QED BY <1>2, <1>9, <1>10 DEF StackIsSound

(* With every name tried, what can be described without the structs below  *)
(* it is readable.                                                         *)
LEMMA TriedIsReadable ==
    ASSUME NEW file, NEW known, NEW s, StackIsSound(file, known, s), s # <<>>,
           s[1].todo = {}, s[1].name \in Without(file, Under(s, 1) \ {s[1].name})
    PROVE  FieldsParse(file.structs[s[1].name], s[1].lazy)
<1>1. Len(s) \in Nat \ {0} /\ DOMAIN s = 1..Len(s) /\ FrameIsSound(file, known, s, 1)
  BY TailIs DEF StackIsSound
<1>2. s[1].name \in Under(s, 1)
  BY <1>1 DEF Under
<1>3. s[1].name \in ReadableFrom(file, Without(file, Under(s, 1)))
  <2>1. (Under(s, 1) \ {s[1].name}) \cup {s[1].name} = Under(s, 1)
    BY <1>2
  <2> QED BY <2>1, DescribedWithoutItself
<1>4. Without(file, Under(s, 1)) \subseteq DOMAIN s[1].lazy
  BY <1>1 DEF FrameIsSound
<1>5. s[1].name \in ReadableFrom(file, DOMAIN s[1].lazy)
  BY <1>3, <1>4, ReadableMonotone
<1> QED BY <1>5 DEF ReadableFrom, FieldsParse, Resolves

(* A building that fails leaves the one that asked for it without it.      *)
LEMMA PopIsSound ==
    ASSUME NEW file, NEW known, NEW s, StackIsSound(file, known, s), Len(s) > 1,
           s[1].todo = {}, ~FieldsParse(file.structs[s[1].name], s[1].lazy)
    PROVE  /\ StackIsSound(file, known, Tail(s)) /\ Tail(s) # <<>>
           /\ Bottom(Tail(s)) = Bottom(s)
<1> DEFINE t == Tail(s)
<1>1. s # <<>>
  OBVIOUS
<1>2. /\ IsSequence(t) /\ Len(s) \in Nat \ {0} /\ DOMAIN s = 1..Len(s)
      /\ Len(t) = Len(s) - 1 /\ DOMAIN t = 1..(Len(s) - 1)
      /\ \A i \in 1..(Len(s) - 1) : t[i] = s[i + 1]
      /\ \A i \in 1..Len(s) : FrameIsSound(file, known, s, i)
  BY <1>1, TailIs DEF StackIsSound
<1> HIDE DEF t
<1>3. Len(t) \in Nat /\ Len(s) = Len(t) + 1 /\ \A j \in 1..Len(t) : s[j + 1].name = t[j].name
  BY <1>2
<1>4. /\ \A i \in 1..Len(t) : Under(s, i + 1) = Under(t, i)
      /\ Under(s, 1) = {s[1].name} \cup Under(s, 2)
  <2>1. Shifted(t, s)
    BY <1>3 DEF Shifted
  <2> QED BY <2>1, UnderShifted
<1>5. s[1].name \notin Under(s, 2)
  <2>1. 1 \in 1..Len(s) /\ \A j \in 2..Len(s) : j \in DOMAIN s /\ j # 1
    BY <1>2
  <2>2. \A j \in DOMAIN s : s[j].name = s[1].name => 1 = j
    BY <1>2, <2>1 DEF FrameIsSound
  <2> QED BY <2>1, <2>2 DEF Under
<1>6. s[1].name \notin Without(file, Under(s, 2))
  <2>1. Under(s, 2) = Under(s, 1) \ {s[1].name}
    BY <1>4, <1>5
  <2> QED BY <1>1, <2>1, TriedIsReadable
<1>7. ASSUME NEW i \in 1..Len(t) PROVE FrameIsSound(file, known, t, i)
  <2>1. i + 1 \in 1..Len(s) /\ (i + 1) - 1 = i /\ i + 1 > 1
    BY <1>3
  <2>2. FrameIsSound(file, known, s, i + 1) /\ Under(s, i + 1) = Under(t, i) /\ t[i] = s[i + 1]
    BY <1>2, <1>3, <1>4, <2>1
  <2>3. \A j \in DOMAIN t : t[j].name = t[i].name => i = j
    <3> SUFFICES ASSUME NEW j \in DOMAIN t, t[j].name = t[i].name PROVE i = j
      OBVIOUS
    <3>1. j \in 1..Len(t) /\ j + 1 \in 1..Len(s) /\ s[j + 1].name = t[j].name
      BY <1>2, <1>3
    <3>2. i + 1 = j + 1
      BY <1>2, <2>2, <3>1 DEF FrameIsSound
    <3> QED BY <3>1, <3>2
  <2>4. ASSUME NEW n \in Without(file, Under(t, i))
        PROVE  n \in t[i].todo \cup DOMAIN t[i].lazy \/ (i > 1 /\ t[i - 1].name = n)
    <3>1. n \in t[i].todo \cup DOMAIN t[i].lazy \/ s[i].name = n
      BY <2>1, <2>2, <2>4 DEF FrameIsSound
    <3>2. CASE i = 1
      BY <1>6, <2>2, <2>4, <3>1, <3>2
    <3>3. CASE i # 1
      <4>1. i - 1 \in 1..Len(t) /\ (i - 1) + 1 = i /\ i > 1
        BY <1>3, <3>3
      <4>2. t[i - 1].name = s[i].name
        BY <1>3, <4>1
      <4> QED BY <3>1, <4>1, <4>2
    <3> QED BY <3>2, <3>3
  <2> QED BY <2>2, <2>3, <2>4 DEF FrameIsSound
<1>8. t # <<>> /\ Bottom(t) = Bottom(s)
  BY <1>2, <1>3 DEF Bottom
<1>9. DOMAIN t = 1..Len(t)
  BY <1>2
<1> QED BY <1>2, <1>7, <1>8, <1>9 DEF StackIsSound, t

(* Its frames.                                                             *)
LEMMA TailWithIs ==
    ASSUME NEW file, NEW known, NEW s, StackIsSound(file, known, s), s # <<>>, NEW m, NEW fields,
           NEW t, t = TailWith(s, m, fields)
    PROVE  /\ IsSequence(t) /\ Len(t) \in Nat /\ Len(s) = Len(t) + 1 /\ DOMAIN t = 1..Len(t)
           /\ \A i \in 1..Len(t) : s[i + 1].name = t[i].name /\ s[i + 1].todo = t[i].todo
           /\ \A i \in 1..Len(t) : t[i] = [name |-> t[i].name, todo |-> t[i].todo, lazy |-> t[i].lazy]
           /\ \A i \in 1..Len(t) :
                 t[i].lazy = IF i = 1 THEN With(s[i + 1].lazy, m, fields) ELSE s[i + 1].lazy
<1> DEFINE b == Tail(s)
           g == [b[1] EXCEPT !.lazy = With(@, m, fields)]
<1>1. /\ IsSequence(b) /\ Len(s) \in Nat \ {0} /\ DOMAIN s = 1..Len(s)
      /\ Len(b) = Len(s) - 1 /\ DOMAIN b = 1..(Len(s) - 1)
      /\ \A i \in 1..(Len(s) - 1) : b[i] = s[i + 1]
      /\ \A i \in 1..Len(s) : FrameIsSound(file, known, s, i)
  BY TailIs DEF StackIsSound
<1>2. t = [i \in DOMAIN b |-> IF i = 1 THEN g ELSE b[i]]
  BY DEF TailWith
<1>3. /\ \A i \in DOMAIN b : i # 1 => t[i] = b[i]
      /\ 1 \in DOMAIN b => t[1] = g
      /\ DOMAIN t = DOMAIN b
  <2> HIDE DEF b, g
  <2> QED BY <1>2
<1>4. IsSequence(t) /\ Len(t) = Len(s) - 1
  <2>1. PICK S : b \in Seq(S)
    BY <1>1 DEF IsSequence
  <2> DEFINE T == S \cup {g}
  <2>2. Len(b) \in Nat /\ DOMAIN b = 1..Len(b)
    BY <1>1
  <2>3. \A i \in DOMAIN b : (IF i = 1 THEN g ELSE b[i]) \in T
    BY <2>1
  <2> HIDE DEF T, b, g
  <2>4. t \in [1..Len(b) -> T]
    BY <1>2, <2>2, <2>3
  <2>5. t \in Seq(T) /\ Len(t) = Len(b)
    BY <2>2, <2>4
  <2> QED BY <1>1, <2>5 DEF IsSequence
<1>5. Len(t) \in Nat /\ Len(s) = Len(t) + 1 /\ DOMAIN t = 1..Len(t) /\ DOMAIN b = 1..Len(t)
  <2> HIDE DEF b, g
  <2> QED BY <1>1, <1>3, <1>4
<1>6. ASSUME NEW i \in 1..Len(t)
      PROVE  /\ s[i + 1].name = t[i].name /\ s[i + 1].todo = t[i].todo
             /\ t[i] = [name |-> t[i].name, todo |-> t[i].todo, lazy |-> t[i].lazy]
             /\ t[i].lazy = IF i = 1 THEN With(s[i + 1].lazy, m, fields) ELSE s[i + 1].lazy
  <2>1. /\ i + 1 \in 1..Len(s) /\ i \in 1..(Len(s) - 1)
        /\ b[i] = s[i + 1] /\ FrameIsSound(file, known, s, i + 1)
    <3>1. i + 1 \in 1..Len(s) /\ i \in 1..(Len(s) - 1)
      BY <1>5
    <3> HIDE DEF b
    <3> QED BY <1>1, <3>1
  <2> PICK name2, todo2, lazy2 : name2 = s[i + 1].name /\ todo2 = s[i + 1].todo /\ lazy2 = s[i + 1].lazy
    OBVIOUS
  <2>2. b[i] = [name |-> name2, todo |-> todo2, lazy |-> lazy2]
    BY <2>1 DEF FrameIsSound
  <2> HIDE DEF b
  <2>3. CASE i = 1
    <3>1. g = [name |-> name2, todo |-> todo2, lazy |-> With(lazy2, m, fields)]
      BY <2>2, <2>3
    <3>2. t[i] = g
      BY <1>3, <1>5, <2>3
    <3> HIDE DEF g
    <3> QED BY <2>3, <3>1, <3>2
  <2>4. CASE i # 1
    <3>1. t[i] = b[i]
      BY <1>3, <1>5, <2>4
    <3> QED BY <2>2, <2>4, <3>1
  <2> QED BY <2>3, <2>4
<1> QED BY <1>4, <1>5, <1>6

(* A struct that is built is known, also to the building that asked for it.*)
LEMMA BuiltIsSound ==
    ASSUME NEW file, NEW known, NEW s, StackIsSound(file, known, s), s # <<>>, NEW fields,
           NEW t, t = TailWith(s, s[1].name, fields)
    PROVE  /\ StackIsSound(file, With(known, s[1].name, fields), t)
           /\ Len(s) > 1 => t # <<>> /\ Bottom(t) = Bottom(s)
<1> DEFINE m == s[1].name
           k == With(known, m, fields)
<1>2. DOMAIN s = 1..Len(s) /\ \A i \in 1..Len(s) : FrameIsSound(file, known, s, i)
  BY TailIs DEF StackIsSound
<1>5. /\ DOMAIN k = DOMAIN known \cup {m} /\ m \notin DOMAIN known
      /\ k[m] = fields /\ \A n \in DOMAIN known : k[n] = known[n]
  <2>1. m \notin DOMAIN known
    <3>1. 1 \in 1..Len(s)
      OBVIOUS
    <3> QED BY <1>2, <3>1 DEF FrameIsSound
  <2> QED BY <2>1 DEF With
<1>6. /\ IsSequence(t) /\ Len(t) \in Nat /\ Len(s) = Len(t) + 1 /\ DOMAIN t = 1..Len(t)
      /\ \A i \in 1..Len(t) : t[i] = [name |-> t[i].name, todo |-> t[i].todo, lazy |-> t[i].lazy]
      /\ \A i \in 1..Len(t) : t[i].lazy = IF i = 1 THEN With(s[i + 1].lazy, m, fields) ELSE s[i + 1].lazy
  BY TailWithIs
<1>8. \A j \in 1..Len(t) : s[j + 1].name = t[j].name /\ s[j + 1].todo = t[j].todo
  BY TailWithIs
<1>9. \A i \in 1..Len(t) : Under(s, i + 1) = Under(t, i)
  <2>1. \A j \in 1..Len(t) : s[j + 1].name = t[j].name
    BY <1>8
  <2>2. Len(t) \in Nat /\ Len(s) = Len(t) + 1
    BY <1>6
  <2>3. Shifted(t, s)
    BY <2>1, <2>2 DEF Shifted
  <2> QED BY <2>3, UnderShifted
<1>a. ASSUME NEW i \in 1..Len(t), NEW n
      PROVE  /\ n \in DOMAIN t[i].lazy <=> n \in DOMAIN s[i + 1].lazy \/ (i = 1 /\ n = m)
             /\ n \in DOMAIN t[i].lazy =>
                    t[i].lazy[n] = IF i = 1 /\ n = m THEN fields ELSE s[i + 1].lazy[n]
  <2>1. CASE i = 1
    <3>1. t[i].lazy = With(s[i + 1].lazy, m, fields)
      BY <1>6, <2>1
    <3> HIDE DEF m
    <3> QED BY <2>1, <3>1 DEF With
  <2>2. CASE i # 1
    BY <1>6, <2>2
  <2> QED BY <2>1, <2>2
<1> HIDE DEF m, k
<1>10. ASSUME NEW i \in 1..Len(t) PROVE FrameIsSound(file, k, t, i)
  <2>1. i + 1 \in 1..Len(s) /\ (i + 1) - 1 = i /\ i + 1 > 1
    BY <1>6
  <2>2. FrameIsSound(file, known, s, i + 1) /\ Under(s, i + 1) = Under(t, i)
    BY <1>2, <1>9, <2>1
  <2>3. \A j \in DOMAIN t : t[j].name = t[i].name => i = j
    <3> SUFFICES ASSUME NEW j \in DOMAIN t, t[j].name = t[i].name PROVE i = j
      OBVIOUS
    <3>1. j \in 1..Len(t) /\ j + 1 \in 1..Len(s) /\ s[j + 1].name = t[j].name /\ s[i + 1].name = t[i].name
      BY <1>6, <1>8
    <3>2. i + 1 = j + 1
      BY <1>2, <2>2, <3>1 DEF FrameIsSound
    <3> QED BY <3>1, <3>2
  <2>4. t[i].name \in DOMAIN file.structs \ DOMAIN k /\ t[i].todo \subseteq DOMAIN file.structs
    <3>1. s[i + 1].name # m
      <4>1. 1 \in 1..Len(s) /\ i + 1 # 1
        BY <2>1
      <4> QED BY <1>2, <2>1, <2>2, <4>1 DEF FrameIsSound, m
    <3>2. s[i + 1].name = t[i].name /\ s[i + 1].todo = t[i].todo
      BY <1>8
    <3> QED BY <1>5, <2>2, <3>1, <3>2 DEF FrameIsSound
  <2>5. /\ t[i] = [name |-> t[i].name, todo |-> t[i].todo, lazy |-> t[i].lazy]
        /\ Remembers(t[i].lazy, k)
        /\ \A n \in DOMAIN s[i + 1].lazy : n \in DOMAIN t[i].lazy
        /\ i = 1 => m \in DOMAIN t[i].lazy
    <3>1. \A n \in DOMAIN s[i + 1].lazy : n \in DOMAIN known /\ s[i + 1].lazy[n] = known[n]
      BY <2>2 DEF FrameIsSound, Remembers
    <3>2. Remembers(t[i].lazy, k)
      BY <1>5, <1>a, <3>1 DEF Remembers
    <3>3. /\ \A n \in DOMAIN s[i + 1].lazy : n \in DOMAIN t[i].lazy
          /\ i = 1 => m \in DOMAIN t[i].lazy
      BY <1>a
    <3>4. t[i] = [name |-> t[i].name, todo |-> t[i].todo, lazy |-> t[i].lazy]
      BY <1>6
    <3> QED BY <3>2, <3>3, <3>4
  <2>6. ASSUME NEW n \in Without(file, Under(t, i))
        PROVE  n \in t[i].todo \cup DOMAIN t[i].lazy \/ (i > 1 /\ t[i - 1].name = n)
    <3>1. n \in s[i + 1].todo \cup DOMAIN s[i + 1].lazy \/ s[i].name = n
      BY <2>1, <2>2, <2>6 DEF FrameIsSound
    <3>2. n \in t[i].todo \cup DOMAIN t[i].lazy \/ s[i].name = n
      BY <1>8, <2>5, <3>1
    <3>3. CASE i = 1
      BY <2>5, <3>2, <3>3 DEF m
    <3>4. CASE i # 1
      <4>1. i - 1 \in 1..Len(t) /\ (i - 1) + 1 = i /\ i > 1
        BY <1>6, <3>4
      <4>2. t[i - 1].name = s[i].name
        BY <1>8, <4>1
      <4> QED BY <3>2, <4>1, <4>2
    <3> QED BY <3>3, <3>4
  <2> QED BY <2>3, <2>4, <2>5, <2>6 DEF FrameIsSound
<1>11. Len(s) > 1 => t # <<>> /\ Bottom(t) = Bottom(s)
  <2> SUFFICES ASSUME Len(s) > 1 PROVE t # <<>> /\ Bottom(t) = Bottom(s)
    OBVIOUS
  <2>1. Len(t) \in 1..Len(t)
    BY <1>6
  <2> QED BY <1>6, <1>8, <2>1 DEF Bottom
<1> QED BY <1>6, <1>10, <1>11 DEF StackIsSound, k, m

(* A struct that is built is described as the file does, as those known    *)
(* were.                                                                   *)
LEMMA KnownIsDescribed ==
    ASSUME NEW file, NEW known, IsDescription(known, file), DOMAIN known \subseteq Without(file, {}),
           Bodies(file),
           NEW m \in DOMAIN file.structs \ DOMAIN known,
           NEW lazy, Remembers(lazy, known),
           FieldsParse(file.structs[m], lazy),
           NEW k, k = With(known, m, parseThriftFields(file.structs[m], lazy))
    PROVE  IsDescription(k, file) /\ DOMAIN k \subseteq Without(file, {})
<1> DEFINE fields == parseThriftFields(file.structs[m], lazy)
<1>1. /\ DOMAIN k = DOMAIN known \cup {m} /\ k[m] = fields
      /\ \A n \in DOMAIN known : n \in DOMAIN k /\ k[n] = known[n]
  <2> HIDE DEF fields
  <2>1. k = With(known, m, fields)
    BY DEF fields
  <2> QED BY <2>1 DEF With
<1> HIDE DEF fields
<1>2. FieldsParse(file.structs[m], k) /\ fields = parseThriftFields(file.structs[m], k)
  <2>1. \A n \in DOMAIN lazy : n \in DOMAIN k /\ lazy[n] = k[n]
    BY <1>1 DEF Remembers
  <2> QED BY <2>1, ParseKnown DEF fields, Bodies
<1>3. ASSUME NEW n \in DOMAIN known
      PROVE  FieldsParse(file.structs[n], k) /\ k[n] = parseThriftFields(file.structs[n], k)
  <2>1. n \in DOMAIN file.structs
    BY WithoutClosed
  <2>2. FieldsParse(file.structs[n], known) /\ known[n] = parseThriftFields(file.structs[n], known)
    BY DEF IsDescription
  <2>3. \A x \in DOMAIN known : x \in DOMAIN k /\ known[x] = k[x]
    BY <1>1
  <2>4. FieldsParse(file.structs[n], k) /\ parseThriftFields(file.structs[n], known) = parseThriftFields(file.structs[n], k)
    BY <2>1, <2>2, <2>3, ParseKnown DEF Bodies
  <2> QED BY <1>1, <2>2, <2>4
<1>4. m \in Without(file, {})
  <2>1. m \in ReadableFrom(file, DOMAIN lazy)
    BY DEF FieldsParse, Resolves, ReadableFrom
  <2>2. DOMAIN lazy \subseteq Without(file, {})
    BY DEF Remembers
  <2> QED BY <2>1, <2>2, ReadableMonotone, WithoutClosed
<1> QED BY <1>1, <1>2, <1>3, <1>4 DEF IsDescription

-----------------------------------------------------------------------------
(* Reading a file                                                          *)

ReadInv == PhaseInv /\ StructsInv /\ StackInv

(* The building in progress.                                               *)
LEMMA TopIs ==
    ASSUME ReadInv, stack # <<>>
    PROVE  /\ phase = "reading" /\ calls # <<>> /\ Bodies(call.file) /\ top = stack[1]
           /\ top = [name |-> top.name, todo |-> top.todo, lazy |-> top.lazy]
           /\ top.name \in DOMAIN call.file.structs \ DOMAIN structs
           /\ Remembers(top.lazy, structs)
           /\ visiting = Under(stack, 1)
           /\ Len(stack) \in Nat \ {0} /\ DOMAIN stack = 1..Len(stack)
<1>1. phase = "reading" /\ calls # <<>>
  BY DEF ReadInv, PhaseInv
<1>2. Bodies(call.file)
  <2>1. IsSequence(calls) /\ \A i \in DOMAIN calls : Bodies(calls[i].file)
    BY DEF ReadInv, PhaseInv
  <2>2. Head(calls) = calls[1] /\ 1 \in DOMAIN calls
    BY <1>1, <2>1, TailIs
  <2> QED BY <2>1, <2>2 DEF call
<1>3. /\ IsSequence(stack) /\ Len(stack) \in Nat \ {0} /\ DOMAIN stack = 1..Len(stack)
      /\ Head(stack) = stack[1] /\ FrameIsSound(call.file, structs, stack, 1)
  <2>1. IsSequence(stack) /\ \A i \in DOMAIN stack : FrameIsSound(call.file, structs, stack, i)
    BY DEF ReadInv, StackInv, StackIsSound
  <2> QED BY <2>1, TailIs
<1>4. visiting = Under(stack, 1)
  BY <1>3 DEF visiting, Under
<1> QED BY <1>1, <1>2, <1>3, <1>4 DEF FrameIsSound, top

(* Reading goes on with the same call.                                     *)
LEMMA ReadingGoesOn ==
    ASSUME ReadInv, phase = "reading", phase' = "reading", UNCHANGED calls,
           pending' \subseteq pending,
           StackIsSound(call.file, structs', stack'),
           DOMAIN structs' \subseteq Without(call.file, {}), IsDescription(structs', call.file),
           \A n \in DOMAIN call.file.structs :
               n \in pending' \cup DOMAIN structs' \/ (stack' # <<>> /\ n = Bottom(stack'))
    PROVE  ReadInv'
<1>1. call' = call
  BY DEF call
<1>2. PhaseInv'
  BY <1>1 DEF ReadInv, PhaseInv, rawStructs
<1>3. StructsInv'
  BY <1>1 DEF StructsInv, rawStructs
<1>4. StackInv'
  BY <1>1 DEF StackInv
<1> QED BY <1>2, <1>3, <1>4 DEF ReadInv

(* What holds of the names read so far.                                    *)
LEMMA StructsAre ==
    ASSUME ReadInv, phase = "reading"
    PROVE  /\ DOMAIN structs \subseteq Without(call.file, {}) /\ IsDescription(structs, call.file)
           /\ \A n \in DOMAIN call.file.structs :
                  n \in pending \cup DOMAIN structs \/ (stack # <<>> /\ n = Bottom(stack))
           /\ StackIsSound(call.file, structs, stack) /\ pending \subseteq DOMAIN call.file.structs
BY DEF ReadInv, PhaseInv, StructsInv, StackInv, rawStructs

(* A call begins with every struct to be tried and none known.            *)
LEMMA RegisterReads == ASSUME ReadInv, RegisterThriftFile PROVE ReadInv'
<1>1. /\ calls' = calls /\ calls # <<>> /\ structs' = <<>> /\ stack' = <<>>
      /\ phase' = "reading" /\ pending' = DOMAIN rawStructs
  BY DEF ReadInv, PhaseInv, RegisterThriftFile
<1>2. call' = call /\ rawStructs' = rawStructs
  BY <1>1 DEF call, rawStructs
<1>3. PhaseInv'
  BY <1>1, <1>2 DEF ReadInv, PhaseInv
<1>4. StructsInv'
  BY <1>1, <1>2 DEF StructsInv, IsDescription
<1>5. StackInv'
  <2>1. <<>> \in Seq({}) /\ DOMAIN <<>> = {}
    OBVIOUS
  <2> QED BY <1>1, <2>1 DEF StackInv, StackIsSound, IsSequence
<1> QED BY <1>3, <1>4, <1>5 DEF ReadInv

(* parseThriftStructs takes a name: a building of it is the only one.      *)
LEMMA TakeNameReads == ASSUME ReadInv, NEW n, TakeName(n) PROVE ReadInv'
<1>1. /\ phase = "reading" /\ stack = <<>> /\ n \in pending /\ pending' = pending \ {n}
      /\ stack' = (IF n \in DOMAIN structs THEN <<>> ELSE <<Frame(n)>>)
      /\ calls' = calls /\ structs' = structs /\ phase' = "reading"
  BY DEF TakeName
<1>2. CASE n \in DOMAIN structs
  BY <1>1, <1>2, StructsAre, ReadingGoesOn
<1>3. CASE n \notin DOMAIN structs
  <2> DEFINE f == Frame(n)
  <2>1. f = [name |-> n, todo |-> DOMAIN call.file.structs, lazy |-> <<>>]
    BY DEF Frame, rawStructs
  <2>2. f.name = n /\ f.todo = DOMAIN call.file.structs /\ DOMAIN f.lazy = {}
    BY <2>1
  <2> HIDE DEF f
  <2>3. IsSequence(<<f>>) /\ <<f>> # <<>> /\ Len(<<f>>) = 1 /\ DOMAIN <<f>> = {1} /\ <<f>>[1] = f
    <3>1. <<f>> \in Seq({f})
      OBVIOUS
    <3>2. IsSequence(<<f>>)
      BY <3>1 DEF IsSequence
    <3>3. Len(<<f>>) = 1 /\ <<f>>[1] = f
      OBVIOUS
    <3>4. DOMAIN <<f>> = {1}
      OBVIOUS
    <3> QED BY <3>2, <3>3, <3>4
  <2>4. FrameIsSound(call.file, structs, <<f>>, 1)
    <3>1. n \in DOMAIN call.file.structs
      BY <1>1, StructsAre
    <3> PICK s, file : s = <<f>> /\ file = call.file
      OBVIOUS
    <3>2. Without(file, Under(s, 1)) \subseteq DOMAIN file.structs
      BY WithoutClosed
    <3>3. s[1] = f /\ DOMAIN s = {1} /\ f = [name |-> f.name, todo |-> f.todo, lazy |-> f.lazy]
      BY <2>1, <2>2, <2>3
    <3>4. f.name \in DOMAIN file.structs \ DOMAIN structs /\ f.todo = DOMAIN file.structs
      BY <1>3, <2>2, <3>1
    <3>5. Remembers(f.lazy, structs)
      BY <2>2 DEF Remembers
    <3>6. FrameIsSound(file, structs, s, 1)
      BY <3>2, <3>3, <3>4, <3>5 DEF FrameIsSound
    <3> QED BY <3>6
  <2>5. StackIsSound(call.file, structs, <<f>>)
    BY <2>3, <2>4 DEF StackIsSound
  <2>6. stack' = <<f>> /\ <<f>> # <<>>
    BY <1>1, <1>3 DEF f
  <2>7. stack' # <<>> /\ Bottom(stack') = n
    BY <2>2, <2>3, <2>6 DEF Bottom
  <2> QED BY <1>1, <2>5, <2>6, <2>7, StructsAre, ReadingGoesOn
<1> QED BY <1>2, <1>3

(* lazyStructs passes over a name: it is known, or needs what is being     *)
(* built.                                                                  *)
LEMMA TakeKnownReads ==
    ASSUME ReadInv, NEW n, TakeKnown(n) \/ TakeCyclic(n) PROVE ReadInv'
<1>1. /\ stack # <<>> /\ n \in top.todo
      /\ calls' = calls /\ structs' = structs /\ phase' = phase /\ pending' = pending
  BY DEF TakeKnown, TakeCyclic
<1>2. /\ phase = "reading" /\ top = stack[1]
      /\ top = [name |-> top.name, todo |-> top.todo, lazy |-> top.lazy]
      /\ Remembers(top.lazy, structs)
      /\ visiting = Under(stack, 1)
  BY <1>1, TopIs
<1>3. PICK lazy :
        /\ Remembers(lazy, structs)
        /\ DOMAIN top.lazy \subseteq DOMAIN lazy
        /\ n \in Without(call.file, Under(stack, 1)) => n \in DOMAIN lazy
        /\ stack' = <<[name |-> top.name, todo |-> top.todo \ {n}, lazy |-> lazy]>> \o Tail(stack)
  <2>1. CASE TakeKnown(n)
    <3> DEFINE lazy == With(top.lazy, n, structs[n])
    <3>1. n \in DOMAIN structs /\ stack' = <<[top EXCEPT !.todo = @ \ {n}, !.lazy = lazy]>> \o Tail(stack)
      BY <2>1 DEF TakeKnown
    <3>2. [top EXCEPT !.todo = @ \ {n}, !.lazy = lazy] = [name |-> top.name, todo |-> top.todo \ {n}, lazy |-> lazy]
      <4> HIDE DEF lazy
      <4> PICK a, b, c, l : a = top.name /\ b = top.todo /\ c = top.lazy /\ l = lazy
        OBVIOUS
      <4>1. top = [name |-> a, todo |-> b, lazy |-> c] /\ lazy = l
        BY <1>2
      <4> DEFINE r == [name |-> a, todo |-> b, lazy |-> c]
                 x == [r EXCEPT !.todo = b \ {n}, !.lazy = l]
      <4>2. x = [name |-> a, todo |-> b \ {n}, lazy |-> l]
        <5>1. x = [y \in {"name", "todo", "lazy"} |->
                     IF y = "lazy" THEN l ELSE IF y = "todo" THEN b \ {n} ELSE r[y]]
          BY Zenon
        <5> QED BY <5>1
      <4> QED BY <4>1, <4>2
    <3>3. /\ DOMAIN lazy = DOMAIN top.lazy \cup {n}
          /\ \A m \in DOMAIN lazy : lazy[m] = IF m = n THEN structs[n] ELSE top.lazy[m]
      BY DEF With
    <3> HIDE DEF lazy
    <3>4. Remembers(lazy, structs)
      BY <1>2, <3>1, <3>3 DEF Remembers
    <3> QED BY <3>1, <3>2, <3>3, <3>4
  <2>2. CASE TakeCyclic(n)
    <3>1. n \in visiting /\ stack' = <<[top EXCEPT !.todo = @ \ {n}]>> \o Tail(stack)
      BY <2>2 DEF TakeCyclic
    <3>2. [top EXCEPT !.todo = @ \ {n}] = [name |-> top.name, todo |-> top.todo \ {n}, lazy |-> top.lazy]
      <4> PICK a, b, c : a = top.name /\ b = top.todo /\ c = top.lazy
        OBVIOUS
      <4>1. top = [name |-> a, todo |-> b, lazy |-> c]
        BY <1>2
      <4> QED BY <4>1
    <3>3. n \notin Without(call.file, Under(stack, 1))
      BY <1>2, <3>1, WithoutClosed
    <3> QED BY <1>2, <3>1, <3>2, <3>3
  <2> QED BY <2>1, <2>2
<1>4. /\ StackIsSound(call.file, structs, stack') /\ stack' # <<>>
      /\ Bottom(stack') = Bottom(stack)
  <2>1. StackIsSound(call.file, structs, stack)
    BY <1>2, StructsAre
  <2>2. /\ stack # <<>> /\ n \in stack[1].todo /\ Remembers(lazy, structs)
        /\ DOMAIN stack[1].lazy \subseteq DOMAIN lazy
        /\ n \in Without(call.file, Under(stack, 1)) => n \in DOMAIN lazy
        /\ stack' = TopWith(stack, n, lazy)
    BY <1>1, <1>2, <1>3 DEF TopWith
  <2> PICK file : file = call.file
    OBVIOUS
  <2>3. /\ StackIsSound(file, structs, stack)
        /\ n \in Without(file, Under(stack, 1)) => n \in DOMAIN lazy
    BY <2>1, <2>2
  <2>4. StackIsSound(file, structs, stack') /\ stack' # <<>> /\ Bottom(stack') = Bottom(stack)
    BY <2>2, <2>3, TopIsSound
  <2> QED BY <2>4
<1> QED BY <1>1, <1>2, <1>4, StructsAre, ReadingGoesOn

(* lazyStructs has a struct built first.                                   *)
LEMMA TakeUnknownReads == ASSUME ReadInv, NEW n, TakeUnknown(n) PROVE ReadInv'
<1>1. /\ stack # <<>> /\ n \in top.todo /\ n \notin visiting /\ n \notin DOMAIN structs
      /\ stack' = <<Frame(n), [top EXCEPT !.todo = @ \ {n}]>> \o Tail(stack)
      /\ calls' = calls /\ structs' = structs /\ phase' = phase /\ pending' = pending
  BY DEF TakeUnknown
<1>2. /\ phase = "reading" /\ top = stack[1]
      /\ top = [name |-> top.name, todo |-> top.todo, lazy |-> top.lazy]
      /\ visiting = Under(stack, 1)
  BY <1>1, TopIs
<1>3. stack' = PushOf(call.file, stack, n)
  <2>1. [top EXCEPT !.todo = @ \ {n}] = [name |-> top.name, todo |-> top.todo \ {n}, lazy |-> top.lazy]
    <3> PICK a, b, c : a = top.name /\ b = top.todo /\ c = top.lazy
      OBVIOUS
    <3>1. top = [name |-> a, todo |-> b, lazy |-> c]
      BY <1>2
    <3> QED BY <3>1
  <2> QED BY <1>1, <1>2, <2>1 DEF Frame, rawStructs, PushOf
<1>4. /\ StackIsSound(call.file, structs, stack') /\ stack' # <<>>
      /\ Bottom(stack') = Bottom(stack)
  <2>1. StackIsSound(call.file, structs, stack)
    BY <1>2, StructsAre
  <2>2. stack # <<>> /\ n \in stack[1].todo /\ n \notin DOMAIN structs /\ n \notin Under(stack, 1)
    BY <1>1, <1>2
  <2> PICK file : file = call.file
    OBVIOUS
  <2>3. /\ StackIsSound(file, structs, stack)
        /\ stack' = PushOf(file, stack, n)
    BY <1>3, <2>1
  <2>4. StackIsSound(file, structs, stack') /\ stack' # <<>> /\ Bottom(stack') = Bottom(stack)
    BY <2>2, <2>3, PushIsSound
  <2> QED BY <2>4
<1> QED BY <1>1, <1>2, <1>4, StructsAre, ReadingGoesOn

(* The body of a struct is read: the struct is known from the file alone.  *)
LEMMA BuildReads == ASSUME ReadInv, Build PROVE ReadInv'
<1> DEFINE m == top.name
           fields == parseThriftFields(call.file.structs[m], top.lazy)
<1>1. /\ stack # <<>> /\ FieldsParse(call.file.structs[m], top.lazy)
      /\ structs' = With(structs, m, fields)
      /\ stack' = TailWith(stack, m, fields)
      /\ calls' = calls /\ phase' = phase /\ pending' = pending
  BY DEF Build, Tried, Readable, rawStructs, TailWith
<1>2. /\ phase = "reading" /\ top = stack[1] /\ Bodies(call.file)
      /\ m \in DOMAIN call.file.structs \ DOMAIN structs
      /\ Remembers(top.lazy, structs)
      /\ Len(stack) \in Nat \ {0}
  BY <1>1, TopIs
<1>3. IsDescription(structs', call.file) /\ DOMAIN structs' \subseteq Without(call.file, {})
  BY <1>1, <1>2, StructsAre, KnownIsDescribed
<1>4. StackIsSound(call.file, structs, stack)
  BY <1>2, StructsAre
<1> HIDE DEF fields
<1>8. /\ StackIsSound(call.file, structs', stack')
      /\ Len(stack) > 1 => stack' # <<>> /\ Bottom(stack') = Bottom(stack)
  <2>1. structs' = With(structs, stack[1].name, fields)
    BY <1>1, <1>2
  <2>2. /\ StackIsSound(call.file, With(structs, stack[1].name, fields), stack')
        /\ Len(stack) > 1 => stack' # <<>> /\ Bottom(stack') = Bottom(stack)
    BY <1>1, <1>2, <1>4, BuiltIsSound
  <2> QED BY <2>1, <2>2
<1>9. DOMAIN structs' = DOMAIN structs \cup {m}
  BY <1>1 DEF With
<1>10. ASSUME NEW n \in DOMAIN call.file.structs
       PROVE  n \in pending' \cup DOMAIN structs' \/ (stack' # <<>> /\ n = Bottom(stack'))
  <2>1. n \in pending \cup DOMAIN structs \/ n = Bottom(stack)
    BY <1>2, StructsAre
  <2>2. CASE Len(stack) = 1
    BY <1>1, <1>2, <1>9, <2>1, <2>2 DEF Bottom
  <2>3. CASE Len(stack) # 1
    <3>0. Len(stack) \in Nat \ {0}
      BY <1>2
    <3>1. Len(stack) > 1
      BY <2>3, <3>0
    <3> QED BY <1>1, <1>8, <1>9, <2>1, <3>1
  <2> QED BY <2>2, <2>3
<1> QED BY <1>1, <1>2, <1>3, <1>8, <1>10, ReadingGoesOn

(* lazyStructs drops an error: what failed needs what is being built.      *)
LEMMA FailedBuildReads == ASSUME ReadInv, BuildFails, Len(stack) > 1 PROVE ReadInv'
<1>1. /\ stack # <<>> /\ top.todo = {} /\ ~FieldsParse(call.file.structs[top.name], top.lazy)
      /\ stack' = Tail(stack) /\ UNCHANGED <<calls, pending, structs, phase>>
  BY DEF BuildFails, Tried, Readable, rawStructs
<1>2. phase = "reading" /\ top = stack[1]
  BY <1>1, TopIs
<1>3. StackIsSound(call.file, structs, stack)
  BY <1>2, StructsAre
<1>4. /\ StackIsSound(call.file, structs, stack') /\ stack' # <<>>
      /\ Bottom(stack') = Bottom(stack)
  BY <1>1, <1>2, <1>3, PopIsSound
<1> QED BY <1>1, <1>2, <1>4, StructsAre, ReadingGoesOn

(* After a call the next one can begin.                                    *)
LEMMA ReturnEndsReading ==
    ASSUME ReadInv, phase = "reading", NEW r, Return(r) PROVE ReadInv'
<1>1. /\ IsSequence(calls) /\ calls # <<>> /\ \A i \in DOMAIN calls : Bodies(calls[i].file)
      /\ calls' = Tail(calls) /\ phase' = "idle" /\ pending' = {} /\ structs' = <<>> /\ stack' = <<>>
  BY DEF ReadInv, PhaseInv, Return
<1>2. IsSequence(calls') /\ \A i \in DOMAIN calls' : Bodies(calls'[i].file)
  <2>1. /\ IsSequence(Tail(calls)) /\ Len(calls) \in Nat \ {0} /\ DOMAIN calls = 1..Len(calls)
        /\ DOMAIN Tail(calls) = 1..(Len(calls) - 1)
        /\ \A i \in 1..(Len(calls) - 1) : Tail(calls)[i] = calls[i + 1]
    BY <1>1, TailIs
  <2>2. \A i \in 1..(Len(calls) - 1) : i + 1 \in DOMAIN calls
    BY <2>1
  <2> QED BY <1>1, <2>1, <2>2
<1>3. PhaseInv'
  BY <1>1, <1>2 DEF PhaseInv
<1>4. StructsInv'
  BY <1>1 DEF StructsInv
<1>5. StackInv'
  <2>1. <<>> \in Seq({}) /\ DOMAIN <<>> = {}
    OBVIOUS
  <2> QED BY <1>1, <2>1 DEF StackInv, StackIsSound, IsSequence
<1> QED BY <1>3, <1>4, <1>5 DEF ReadInv

(* What every step keeps of the reading.                                   *)
LEMMA StepReads == ReadInv /\ [IDLNext]_idlVars => ReadInv'
<1> SUFFICES ASSUME ReadInv, [IDLNext]_idlVars PROVE ReadInv'
  OBVIOUS
<1>1. CASE RegisterThriftFile
  BY <1>1, RegisterReads
<1>2. ASSUME NEW n \in pending, TakeName(n) PROVE ReadInv'
  BY <1>2, TakeNameReads
<1>3. ASSUME stack # <<>>, NEW n \in top.todo, TakeKnown(n) \/ TakeCyclic(n) \/ TakeUnknown(n)
      PROVE  ReadInv'
  BY <1>3, TakeKnownReads, TakeUnknownReads
<1>4. CASE Build
  BY <1>4, BuildReads
<1>5. CASE BuildFails
  <2>1. stack # <<>>
    BY <1>5 DEF BuildFails, Tried
  <2>2. phase = "reading"
    BY <2>1, TopIs
  <2>3. CASE Len(stack) > 1
    BY <1>5, <2>3, FailedBuildReads
  <2>4. CASE ~(Len(stack) > 1)
    BY <1>5, <2>2, <2>4, ReturnEndsReading DEF BuildFails
  <2> QED BY <2>3, <2>4
<1>6. CASE ReadServices
  BY <1>6, ReturnEndsReading DEF ReadServices
<1>7. CASE UNCHANGED idlVars
  BY <1>7 DEF idlVars, ReadInv, PhaseInv, StructsInv, StackInv, call, rawStructs
<1> QED BY <1>1, <1>2, <1>3, <1>4, <1>5, <1>6, <1>7 DEF IDLNext, Step

-----------------------------------------------------------------------------
(* The verdict                                                             *)

(* When every struct can be described and every method read.               *)
Acceptable(file) ==
    LET names == DOMAIN file.structs
    IN  /\ Describable(file) = names
        /\ \A s \in DOMAIN file.services : \A m \in DOMAIN file.services[s] :
               LET method == file.services[s][m]
               IN  /\ method # <<>> /\ method[1].returns \in names \ DOMAIN ScalarTypes
                   /\ \A j \in DOMAIN method[1].params :
                          /\ method[1].params[j] # <<>>
                          /\ method[1].params[j][1].type \in names \cup DOMAIN ScalarTypes

RightVerdict(r) == r.result = "ok" <=> Acceptable(r.call.file)

(* The property is the verdict of each call.                               *)
LEMMA AcceptsIs ==
    AcceptsWhatIsDescribable <=> \A i \in DOMAIN results : RightVerdict(results[i])
BY DEF AcceptsWhatIsDescribable, RightVerdict, Acceptable

(* With every struct known the methods decide.                             *)
LEMMA MethodsDecide ==
    ASSUME ReadInv, phase = "reading", stack = <<>>, pending = {}
    PROVE  /\ DOMAIN structs = DOMAIN call.file.structs /\ IsDescription(structs, call.file)
           /\ ServicesParse(call.file.services, structs) <=> Acceptable(call.file)
<1> PICK file : file = call.file
  OBVIOUS
<1>1. /\ DOMAIN structs \subseteq Without(file, {}) /\ IsDescription(structs, file)
      /\ \A n \in DOMAIN file.structs : n \in DOMAIN structs
  BY StructsAre
<1>2. DOMAIN structs = DOMAIN file.structs /\ Describable(file) = DOMAIN file.structs
  BY <1>1, WithoutClosed, DescribableIs
<1>3. ServicesParse(file.services, structs) <=> Acceptable(file)
  <2> PICK services : services = file.services
    OBVIOUS
  <2> DEFINE P(s, m) == /\ services[s][m] # <<>>
                        /\ services[s][m][1].returns \in DOMAIN file.structs \ DOMAIN ScalarTypes
                        /\ \A j \in DOMAIN services[s][m][1].params :
                               /\ services[s][m][1].params[j] # <<>>
                               /\ services[s][m][1].params[j][1].type
                                      \in DOMAIN file.structs \cup DOMAIN ScalarTypes
  <2>1. ASSUME NEW s \in DOMAIN services, NEW m \in DOMAIN services[s]
        PROVE  MethodParses(services[s][m], structs) <=> P(s, m)
    BY <1>2 DEF MethodParses, FieldsParse, Resolves
  <2>2. ServicesParse(services, structs) <=>
            \A s \in DOMAIN services : \A m \in DOMAIN services[s] : MethodParses(services[s][m], structs)
    BY DEF ServicesParse
  <2>3. Acceptable(file) <=>
            \A s \in DOMAIN services : \A m \in DOMAIN services[s] : P(s, m)
    BY <1>2 DEF Acceptable
  <2> HIDE DEF P
  <2>4. ServicesParse(services, structs) <=> Acceptable(file)
    BY <2>1, <2>2, <2>3
  <2> QED BY <2>4
<1> QED BY <1>1, <1>2, <1>3

(* A struct whose building fails at the bottom cannot be described.        *)
LEMMA FailureIsRight ==
    ASSUME ReadInv, BuildFails, ~(Len(stack) > 1)
    PROVE  ~Acceptable(call.file)
<1>1. /\ stack # <<>> /\ top.todo = {} /\ ~FieldsParse(call.file.structs[top.name], top.lazy)
  BY DEF BuildFails, Tried, Readable, rawStructs
<1>2. phase = "reading" /\ top = stack[1] /\ top.name \in DOMAIN call.file.structs
  BY <1>1, TopIs
<1>3. Len(stack) \in Nat \ {0}
  BY <1>1, TopIs
<1>4. Under(stack, 1) \ {stack[1].name} = {}
  <2>1. Len(stack) = 1
    BY <1>3
  <2>2. \A j \in 1..1 : j = 1
    OBVIOUS
  <2> QED BY <2>1, <2>2 DEF Under
<1>5. stack[1].name \notin Without(call.file, {})
  <2> PICK file : file = call.file
    OBVIOUS
  <2>1. StackIsSound(file, structs, stack)
    BY <1>2, StructsAre
  <2>2. stack # <<>> /\ stack[1].todo = {} /\ ~FieldsParse(file.structs[stack[1].name], stack[1].lazy)
    BY <1>1, <1>2
  <2>3. stack[1].name \notin Without(file, Under(stack, 1) \ {stack[1].name})
    BY <2>1, <2>2, TriedIsReadable
  <2> QED BY <1>4, <2>3
<1> QED BY <1>2, <1>5, DescribableIs DEF Acceptable

(* A result is put after the others.                                       *)
LEMMA Appended ==
    ASSUME IsSequence(results), NEW r, results' = Append(results, r)
    PROVE  /\ IsSequence(results') /\ Len(results) \in Nat
           /\ DOMAIN results = 1..Len(results) /\ DOMAIN results' = 1..(Len(results) + 1)
           /\ results'[Len(results) + 1] = r
           /\ \A i \in 1..Len(results) : results'[i] = results[i]
<1>1. PICK S : results \in Seq(S)
  BY DEF IsSequence
<1> DEFINE T == S \cup {r}
<1>2. results \in Seq(T) /\ r \in T
  BY <1>1
<1> HIDE DEF T
<1>3. Append(results, r) \in Seq(T)
  BY <1>2
<1> QED BY <1>2, <1>3 DEF IsSequence

ResultIs(r) == [call |-> call, result |-> r, known |-> structs]

(* A verdict that is right is put after others that are.                   *)
LEMMA VerdictsStayRight ==
    ASSUME IsSequence(results), AcceptsWhatIsDescribable,
           NEW r, results' = Append(results, ResultIs(r)), r = "ok" <=> Acceptable(call.file)
    PROVE  AcceptsWhatIsDescribable'
<1> PICK x, n : x = ResultIs(r) /\ n = Len(results)
  OBVIOUS
<1>1. RightVerdict(x)
  BY DEF RightVerdict, ResultIs
<1>2. \A i \in DOMAIN results : RightVerdict(results[i])
  BY AcceptsIs
<1>3. /\ n \in Nat /\ DOMAIN results = 1..n /\ DOMAIN results' = 1..(n + 1)
      /\ results'[n + 1] = x /\ \A i \in 1..n : results'[i] = results[i]
  BY Appended
<1>4. \A i \in DOMAIN results' : RightVerdict(results'[i])
  BY <1>1, <1>2, <1>3
<1> QED BY <1>4 DEF AcceptsWhatIsDescribable, RightVerdict, Acceptable

-----------------------------------------------------------------------------
(* The registry                                                            *)

(* A call that fails registers nothing.                                    *)
LEMMA FailureRegistersNothing ==
    ASSUME ResultsInv, results' = Append(results, ResultIs("failed")), methods' = methods
    PROVE  ResultsInv'
<1> PICK x, n : x = ResultIs("failed") /\ n = Len(results)
  OBVIOUS
<1>1. IsSequence(results)
  BY DEF ResultsInv
<1>2. /\ IsSequence(results') /\ n \in Nat /\ DOMAIN results = 1..n /\ DOMAIN results' = 1..(n + 1)
      /\ results'[n + 1] = x /\ \A i \in 1..n : results'[i] = results[i]
  BY <1>1, Appended
<1>3. x.result = "failed"
  BY DEF ResultIs
<1>4. Accepted' = Accepted
  BY <1>2, <1>3 DEF Accepted
<1>5. \A i \in Accepted : results'[i] = results[i]
  BY <1>2 DEF Accepted
<1>6. \A i \in Accepted : Specs(results'[i].call, results'[i].known) = Declared(i)
  BY <1>5 DEF Declared
<1>7. \A i \in Accepted : /\ DOMAIN results'[i].known = DOMAIN results'[i].call.file.structs
                          /\ IsDescription(results'[i].known, results'[i].call.file)
  BY <1>5 DEF ResultsInv
<1>8. DOMAIN methods = UNION {DOMAIN Specs(results'[i].call, results'[i].known) : i \in Accepted}
  <2>1. ASSUME NEW k
        PROVE  k \in DOMAIN methods <=>
                   \E i \in Accepted : k \in DOMAIN Specs(results'[i].call, results'[i].known)
    <3>1. k \in DOMAIN methods <=> \E i \in Accepted : k \in DOMAIN Declared(i)
      BY DEF ResultsInv
    <3> QED BY <1>6, <3>1
  <2> QED BY <2>1
<1>9. \A k \in DOMAIN methods : \E i \in Accepted :
          /\ k \in DOMAIN Specs(results'[i].call, results'[i].known)
          /\ methods[k] = Specs(results'[i].call, results'[i].known)[k]
          /\ \A j \in Accepted : k \in DOMAIN Specs(results'[j].call, results'[j].known) => j <= i
  BY <1>6 DEF ResultsInv
<1>f. methods = [k \in DOMAIN methods |-> methods[k]]
  BY DEF ResultsInv
<1> QED BY <1>2, <1>4, <1>7, <1>8, <1>9, <1>f DEF ResultsInv, Declared

(* A call that succeeds registers its methods over the others.             *)
LEMMA SuccessRegisters ==
    ASSUME ResultsInv, results' = Append(results, ResultIs("ok")),
           DOMAIN structs = DOMAIN call.file.structs, IsDescription(structs, call.file),
           methods' = [k \in DOMAIN Specs(call, structs) \cup DOMAIN methods |->
                          IF k \in DOMAIN Specs(call, structs) THEN Specs(call, structs)[k] ELSE methods[k]]
    PROVE  ResultsInv'
<1> PICK x, n, specs : x = ResultIs("ok") /\ n = Len(results) /\ specs = Specs(call, structs)
  OBVIOUS
<1>1. IsSequence(results)
  BY DEF ResultsInv
<1>2. /\ IsSequence(results') /\ n \in Nat /\ DOMAIN results = 1..n /\ DOMAIN results' = 1..(n + 1)
      /\ results'[n + 1] = x /\ \A i \in 1..n : results'[i] = results[i]
  BY <1>1, Appended
<1>3. x.result = "ok" /\ x.call = call /\ x.known = structs
  BY DEF ResultIs
<1>4. Accepted \subseteq 1..n /\ n + 1 \notin Accepted /\ Accepted' = Accepted \cup {n + 1}
  BY <1>2, <1>3 DEF Accepted
<1> DEFINE D(i) == Specs(results'[i].call, results'[i].known)
<1>5. \A i \in Accepted : results'[i] = results[i] /\ D(i) = Declared(i)
  BY <1>2, <1>4 DEF Declared
<1>6. D(n + 1) = specs
  BY <1>2, <1>3
<1>7. /\ DOMAIN methods' = DOMAIN specs \cup DOMAIN methods
      /\ \A k \in DOMAIN specs : methods'[k] = specs[k]
      /\ \A k \in DOMAIN methods \ DOMAIN specs : methods'[k] = methods[k]
  BY DEF Specs
<1>8. \A i \in Accepted' : /\ DOMAIN results'[i].known = DOMAIN results'[i].call.file.structs
                           /\ IsDescription(results'[i].known, results'[i].call.file)
  <2>1. \A i \in Accepted : /\ DOMAIN results'[i].known = DOMAIN results'[i].call.file.structs
                            /\ IsDescription(results'[i].known, results'[i].call.file)
    BY <1>5 DEF ResultsInv
  <2>2. /\ DOMAIN results'[n + 1].known = DOMAIN results'[n + 1].call.file.structs
        /\ IsDescription(results'[n + 1].known, results'[n + 1].call.file)
    BY <1>2, <1>3
  <2> QED BY <1>4, <2>1, <2>2
<1> HIDE DEF D
<1>f. methods' = [k \in DOMAIN methods' |-> methods'[k]]
  BY DEF Specs
<1>9. DOMAIN methods' = UNION {DOMAIN D(i) : i \in Accepted'}
  <2>1. ASSUME NEW k PROVE k \in DOMAIN methods <=> \E i \in Accepted : k \in DOMAIN D(i)
    <3>1. k \in DOMAIN methods <=> \E i \in Accepted : k \in DOMAIN Declared(i)
      BY DEF ResultsInv
    <3> QED BY <1>5, <3>1
  <2>2. ASSUME NEW k PROVE k \in DOMAIN methods' <=> \E i \in Accepted' : k \in DOMAIN D(i)
    BY <1>4, <1>6, <1>7, <2>1
  <2> QED BY <2>2
<1>10. ASSUME NEW k \in DOMAIN methods'
       PROVE  \E i \in Accepted' : /\ k \in DOMAIN D(i) /\ methods'[k] = D(i)[k]
                                   /\ \A j \in Accepted' : k \in DOMAIN D(j) => j <= i
  <2>1. CASE k \in DOMAIN specs
    <3>1. \A j \in Accepted' : j <= n + 1
      BY <1>2, <1>4
    <3> QED BY <1>4, <1>6, <1>7, <2>1, <3>1
  <2>2. CASE k \notin DOMAIN specs
    <3>1. k \in DOMAIN methods /\ methods'[k] = methods[k]
      BY <1>7, <1>10, <2>2
    <3>2. PICK i \in Accepted : /\ k \in DOMAIN Declared(i) /\ methods[k] = Declared(i)[k]
                                /\ \A j \in Accepted : k \in DOMAIN Declared(j) => j <= i
      BY <3>1 DEF ResultsInv
    <3>3. k \in DOMAIN D(i) /\ methods'[k] = D(i)[k]
      BY <1>5, <3>1, <3>2
    <3>4. \A j \in Accepted' : k \in DOMAIN D(j) => j <= i
      BY <1>4, <1>5, <1>6, <2>2, <3>2
    <3> QED BY <1>4, <3>3, <3>4
  <2> QED BY <2>1, <2>2
<1> QED BY <1>2, <1>8, <1>f, <1>9, <1>10 DEF ResultsInv, Declared, D

-----------------------------------------------------------------------------
(* Before the first call nothing is read and nothing registered.           *)
LEMMA InitIDL == IDLInit => IDLInv
<1> SUFFICES ASSUME IDLInit PROVE IDLInv
  OBVIOUS
<1>1. /\ calls \in Loads /\ pending = {} /\ structs = <<>> /\ stack = <<>> /\ phase = "idle"
      /\ methods = <<>> /\ results = <<>>
  BY DEF IDLInit
<1>2. <<>> \in Seq({}) /\ DOMAIN <<>> = {} /\ IsSequence(<<>>)
  BY DEF IsSequence
<1>3. IsSequence(calls) /\ \A i \in DOMAIN calls : Bodies(calls[i].file)
  <2>1. calls \in Seq({calls[i] : i \in DOMAIN calls})
    BY <1>1, LoadsAssumption
  <2>2. ASSUME NEW i \in DOMAIN calls, NEW n \in DOMAIN calls[i].file.structs
        PROVE  /\ Len(calls[i].file.structs[n]) \in Nat
               /\ DOMAIN calls[i].file.structs[n] = 1..Len(calls[i].file.structs[n])
    <3> PICK body : body = calls[i].file.structs[n]
      OBVIOUS
    <3>0. \A m \in DOMAIN calls[i].file.structs :
             calls[i].file.structs[m] \in
                 Seq({calls[i].file.structs[m][j] : j \in DOMAIN calls[i].file.structs[m]})
      BY <1>1, LoadsAssumption, Zenon
    <3>1. body \in Seq({body[j] : j \in DOMAIN body})
      BY <3>0
    <3>2. Len(body) \in Nat /\ DOMAIN body = 1..Len(body)
      BY <3>1
    <3> QED BY <3>2
  <2> QED BY <2>1, <2>2 DEF IsSequence, Bodies
<1>4. PhaseInv
  BY <1>1, <1>3 DEF PhaseInv
<1>5. StructsInv
  BY <1>1 DEF StructsInv
<1>6. StackInv
  BY <1>1, <1>2 DEF StackInv, StackIsSound
<1>7. Accepted = {}
  BY <1>1, <1>2 DEF Accepted
<1>8. ResultsInv
  BY <1>1, <1>2, <1>7 DEF ResultsInv
<1>9. AcceptsWhatIsDescribable
  BY <1>1, <1>2, AcceptsIs
<1> QED BY <1>4, <1>5, <1>6, <1>8, <1>9 DEF IDLInv

(* Every step keeps the whole invariant.                                   *)
LEMMA StepIDL == IDLInv /\ [IDLNext]_idlVars => IDLInv'
<1> SUFFICES ASSUME IDLInv, [IDLNext]_idlVars PROVE IDLInv'
  OBVIOUS
<1>1. ReadInv /\ ResultsInv /\ AcceptsWhatIsDescribable /\ IsSequence(results)
  BY DEF IDLInv, ReadInv, ResultsInv
<1>2. ReadInv'
  BY <1>1, StepReads
<1>3. CASE UNCHANGED <<methods, results>>
  <2>1. ResultsInv'
    BY <1>1, <1>3 DEF ResultsInv, Accepted, Declared
  <2>2. AcceptsWhatIsDescribable'
    <3>1. \A i \in DOMAIN results' : RightVerdict(results'[i])
      BY <1>1, <1>3, AcceptsIs
    <3> QED BY <3>1 DEF AcceptsWhatIsDescribable, RightVerdict, Acceptable
  <2> QED BY <1>2, <2>1, <2>2 DEF IDLInv, ReadInv
<1>4. CASE BuildFails
  <2>1. CASE Len(stack) > 1
    BY <1>3, <1>4, <2>1 DEF BuildFails
  <2>2. CASE ~(Len(stack) > 1)
    <3>1. results' = Append(results, ResultIs("failed")) /\ methods' = methods
      BY <1>4, <2>2 DEF BuildFails, Return, ResultIs
    <3>2. ResultsInv'
      BY <1>1, <3>1, FailureRegistersNothing
    <3>3. "failed" = "ok" <=> Acceptable(call.file)
      BY <1>1, <1>4, <2>2, FailureIsRight
    <3>4. AcceptsWhatIsDescribable'
      BY <1>1, <3>1, <3>3, VerdictsStayRight
    <3> QED BY <1>2, <3>2, <3>4 DEF IDLInv, ReadInv
  <2> QED BY <2>1, <2>2
<1>5. CASE ReadServices
  <2>1. /\ DOMAIN structs = DOMAIN call.file.structs /\ IsDescription(structs, call.file)
        /\ ServicesParse(call.file.services, structs) <=> Acceptable(call.file)
    BY <1>1, <1>5, MethodsDecide DEF ReadServices
  <2>2. CASE ServicesParse(call.file.services, structs)
    <3>1. /\ results' = Append(results, ResultIs("ok"))
          /\ methods' = [k \in DOMAIN Specs(call, structs) \cup DOMAIN methods |->
                           IF k \in DOMAIN Specs(call, structs) THEN Specs(call, structs)[k] ELSE methods[k]]
      BY <1>5, <2>2 DEF ReadServices, Return, ResultIs
    <3>2. ResultsInv'
      BY <1>1, <2>1, <3>1, SuccessRegisters
    <3>3. "ok" = "ok" <=> Acceptable(call.file)
      BY <2>1, <2>2
    <3>4. AcceptsWhatIsDescribable'
      BY <1>1, <3>1, <3>3, VerdictsStayRight
    <3> QED BY <1>2, <3>2, <3>4 DEF IDLInv, ReadInv
  <2>3. CASE ~ServicesParse(call.file.services, structs)
    <3>1. results' = Append(results, ResultIs("failed")) /\ methods' = methods
      BY <1>5, <2>3 DEF ReadServices, Return, ResultIs
    <3>2. ResultsInv'
      BY <1>1, <3>1, FailureRegistersNothing
    <3>3. "failed" = "ok" <=> Acceptable(call.file)
      BY <2>1, <2>3
    <3>4. AcceptsWhatIsDescribable'
      BY <1>1, <3>1, <3>3, VerdictsStayRight
    <3> QED BY <1>2, <3>2, <3>4 DEF IDLInv, ReadInv
  <2> QED BY <2>2, <2>3
<1>6. CASE RegisterThriftFile
  BY <1>3, <1>6 DEF RegisterThriftFile
<1>7. CASE \E n \in pending : TakeName(n)
  BY <1>3, <1>7 DEF TakeName
<1>8. CASE \E n \in top.todo : TakeKnown(n) \/ TakeCyclic(n) \/ TakeUnknown(n)
  BY <1>3, <1>8 DEF TakeKnown, TakeCyclic, TakeUnknown
<1>9. CASE Build
  BY <1>3, <1>9 DEF Build
<1>10. CASE UNCHANGED idlVars
  BY <1>3, <1>10 DEF idlVars
<1> QED BY <1>4, <1>5, <1>6, <1>7, <1>8, <1>9, <1>10 DEF IDLNext, Step

(* The inductive invariant of reading files: what is known is known from   *)
(* the file alone, and a building in progress has not passed over a name   *)
(* it can do with (idl.go:57-260).                                         *)
THEOREM IDLInvHolds == IDLSpec => []IDLInv
BY InitIDL, StepIDL, PTL DEF IDLSpec

(* For every set of files, whatever order Go takes the structs in: a file  *)
(* is accepted exactly when every struct can be described and every method *)
(* read; an error that lazyStructs drops changes neither.                  *)
THEOREM AcceptsHolds == IDLSpec => []AcceptsWhatIsDescribable
<1>1. IDLInv => AcceptsWhatIsDescribable
  BY DEF IDLInv
<1> QED BY <1>1, IDLInvHolds, PTL

(* The registry holds what the last accepted file declared of each method, *)
(* and describes every struct in it as that file does.                     *)
THEOREM LookupHolds == IDLSpec => []LookupFindsTheLatest
<1>1. IDLInv => LookupFindsTheLatest
  <2> SUFFICES ASSUME ResultsInv PROVE LookupFindsTheLatest
    BY DEF IDLInv
  <2> DEFINE Declaring(k) == {i \in Accepted : k \in DOMAIN Declared(i)}
             Last(k) == CHOOSE i \in Declaring(k) : \A j \in Declaring(k) : j <= i
  <2>1. ASSUME NEW k \in DOMAIN methods PROVE methods[k] = Declared(Last(k))[k]
    <3>1. PICK i \in Declaring(k) : methods[k] = Declared(i)[k] /\ \A j \in Declaring(k) : j <= i
      BY DEF ResultsInv
    <3>2. Declaring(k) \subseteq Nat
      <4>1. Len(results) \in Nat /\ DOMAIN results = 1..Len(results)
        <5>1. PICK S : results \in Seq(S)
          BY DEF ResultsInv, IsSequence
        <5> QED BY <5>1
      <4> QED BY <4>1 DEF Accepted
    <3>3. Last(k) \in Declaring(k) /\ \A j \in Declaring(k) : j <= Last(k)
      BY <3>1
    <3> HIDE DEF Last
    <3>4. Last(k) = i
      BY <3>1, <3>2, <3>3
    <3> QED BY <3>1, <3>4
  <2>2. methods = [k \in UNION {DOMAIN Declared(i) : i \in Accepted} |-> Declared(Last(k))[k]]
    <3> HIDE DEF Last
    <3>1. /\ DOMAIN methods = UNION {DOMAIN Declared(i) : i \in Accepted}
          /\ methods = [k \in DOMAIN methods |-> methods[k]]
      BY DEF ResultsInv
    <3>2. methods = [k \in DOMAIN methods |-> Declared(Last(k))[k]]
      BY <2>1, <3>1
    <3> QED BY <3>1, <3>2
  <2>3. \A i \in Accepted : /\ DOMAIN results[i].known = DOMAIN results[i].call.file.structs
                            /\ IsDescription(results[i].known, results[i].call.file)
    BY DEF ResultsInv
  <2> QED BY <2>2, <2>3 DEF LookupFindsTheLatest, Accepted, Declared
<1> QED BY <1>1, IDLInvHolds, PTL

(* Of the structs in a file no more are being built than it has.           *)
RecursionIsBounded ==
    phase = "reading" /\ IsFiniteSet(DOMAIN rawStructs) =>
        Len(stack) <= Cardinality(DOMAIN rawStructs)

(* buildStructDescriptor and lazyStructs call each other no deeper than    *)
(* the file has structs, whatever cycles these make: visiting keeps a      *)
(* struct from being built within itself (idl.go:231-270).                 *)
THEOREM RecursionHolds == IDLSpec => []RecursionIsBounded
<1>1. IDLInv => RecursionIsBounded
  <2> SUFFICES ASSUME StackInv, IsFiniteSet(DOMAIN rawStructs)
               PROVE  Len(stack) <= Cardinality(DOMAIN rawStructs)
    BY DEF IDLInv, RecursionIsBounded
  <2> DEFINE name == [i \in 1..Len(stack) |-> stack[i].name]
  <2>1. Len(stack) \in Nat /\ DOMAIN stack = 1..Len(stack)
    BY DEF StackInv, StackIsSound, IsSequence
  <2>2. /\ \A i \in 1..Len(stack) : stack[i].name \in DOMAIN rawStructs
        /\ \A i, j \in 1..Len(stack) : stack[i].name = stack[j].name => i = j
    BY <2>1 DEF StackInv, StackIsSound, FrameIsSound, rawStructs
  <2>3. name \in Injection(1..Len(stack), DOMAIN rawStructs)
    BY <2>2 DEF Injection, IsInjective
  <2>4. Cardinality(1..Len(stack)) <= Cardinality(DOMAIN rawStructs)
    BY <2>3, FS_Injection
  <2>5. Cardinality(1..Len(stack)) = Len(stack)
    BY <2>1, FS_Interval
  <2> QED BY <2>4, <2>5
<1> QED BY <1>1, IDLInvHolds, PTL
=============================================================================
