--------------------------- MODULE LRUCacheProofs ---------------------------
(***************************************************************************)
(* What holds of the LRU cache for all goroutines, keys, programs and      *)
(* capacities, and that it implements the bounded cache.                   *)
(***************************************************************************)
EXTENDS LRUCache, FiniteSetTheorems, SequenceTheorems, TLAPS

Elements == [key : Keys, program : Programs]

KeysOf(s) == {s[i].key : i \in DOMAIN s}
ElementsOf(s) == {s[i] : i \in DOMAIN s}

(* A list of elements with one for each key.                               *)
Tidy(s) == s \in Seq(Elements) /\ \A i, j \in DOMAIN s : s[i].key = s[j].key => i = j
Recent(s, u) == \A i, j \in DOMAIN s : i < j => u[s[i].key] > u[s[j].key]

-----------------------------------------------------------------------------
(* The operations on the list                                              *)

(* RemoveAt closes the gap.                                                *)
LEMMA RemoveAtShape ==
    ASSUME NEW S, NEW s \in Seq(S), NEW n \in 1..Len(s)
    PROVE  /\ RemoveAt(s, n) \in Seq(S)
           /\ Len(RemoveAt(s, n)) = Len(s) - 1
           /\ \A i \in 1..(Len(s) - 1) : RemoveAt(s, n)[i] = IF i < n THEN s[i] ELSE s[i + 1]
<1> DEFINE a == SubSeq(s, 1, n - 1)
           b == SubSeq(s, n + 1, Len(s))
<1>1. Len(s) \in Nat /\ n \in Int /\ \A i \in 1..Len(s) : s[i] \in S
  BY LenProperties, ElementOfSeq
<1>2. a \in Seq(S) /\ Len(a) = n - 1 /\ \A i \in 1..(n - 1) : a[i] = s[i]
  <2>1. \A i \in 1..(n - 1) : s[i] \in S
    BY <1>1
  <2>2. /\ a \in Seq(S)
        /\ Len(a) = IF 1 <= n - 1 THEN (n - 1) - 1 + 1 ELSE 0
        /\ \A i \in 1..((n - 1) - 1 + 1) : a[i] = s[1 + i - 1]
    BY <1>1, <2>1, SubSeqProperties
  <2> QED BY <1>1, <2>2
<1>3. b \in Seq(S) /\ Len(b) = Len(s) - n /\ \A i \in 1..(Len(s) - n) : b[i] = s[n + i]
  <2>1. \A i \in (n + 1)..Len(s) : s[i] \in S
    BY <1>1
  <2>2. /\ b \in Seq(S)
        /\ Len(b) = IF n + 1 <= Len(s) THEN Len(s) - (n + 1) + 1 ELSE 0
        /\ \A i \in 1..(Len(s) - (n + 1) + 1) : b[i] = s[n + 1 + i - 1]
    BY <1>1, <2>1, SubSeqProperties
  <2> QED BY <1>1, <2>2
<1> HIDE DEF a, b
<1>4. /\ a \o b \in Seq(S)
      /\ Len(a \o b) = Len(a) + Len(b)
      /\ \A i \in 1..(Len(a) + Len(b)) : (a \o b)[i] = IF i <= Len(a) THEN a[i] ELSE b[i - Len(a)]
  BY <1>2, <1>3, ConcatProperties
<1>5. RemoveAt(s, n) = a \o b
  BY DEF RemoveAt, a, b
<1>6. \A i \in 1..(Len(s) - 1) : (a \o b)[i] = IF i < n THEN s[i] ELSE s[i + 1]
  <2> TAKE i \in 1..(Len(s) - 1)
  <2>1. CASE i < n
    BY <1>1, <1>2, <1>3, <1>4, <2>1
  <2>2. CASE ~(i < n)
    <3>1. (a \o b)[i] = b[i - (n - 1)]
      BY <1>1, <1>2, <1>3, <1>4, <2>2
    <3>2. i - (n - 1) \in 1..(Len(s) - n) /\ n + (i - (n - 1)) = i + 1
      BY <1>1, <2>2
    <3> QED BY <1>3, <2>2, <3>1, <3>2
  <2> QED BY <2>1, <2>2
<1>7. Len(a \o b) = Len(s) - 1
  BY <1>1, <1>2, <1>3, <1>4
<1> QED BY <1>4, <1>5, <1>6, <1>7

(* A new front shifts the rest.                                            *)
LEMMA PushShape ==
    ASSUME NEW S, NEW s \in Seq(S), NEW e \in S
    PROVE  /\ <<e>> \o s \in Seq(S)
           /\ Len(<<e>> \o s) = Len(s) + 1
           /\ \A i \in 1..(Len(s) + 1) : (<<e>> \o s)[i] = IF i = 1 THEN e ELSE s[i - 1]
<1>1. <<e>> \in Seq(S) /\ Len(<<e>>) = 1 /\ <<e>>[1] = e
  OBVIOUS
<1>2. Len(s) \in Nat
  OBVIOUS
<1>3. /\ <<e>> \o s \in Seq(S)
      /\ Len(<<e>> \o s) = Len(<<e>>) + Len(s)
      /\ \A i \in 1..(Len(<<e>>) + Len(s)) :
             (<<e>> \o s)[i] = IF i <= Len(<<e>>) THEN <<e>>[i] ELSE s[i - Len(<<e>>)]
  BY <1>1, ConcatProperties
<1>4. Len(<<e>> \o s) = Len(s) + 1
  BY <1>1, <1>2, <1>3
<1>5. ASSUME NEW i \in 1..(Len(s) + 1) PROVE (<<e>> \o s)[i] = IF i = 1 THEN e ELSE s[i - 1]
  <2>1. i \in 1..(Len(<<e>>) + Len(s))
    BY <1>1, <1>2
  <2>2. (<<e>> \o s)[i] = IF i <= 1 THEN <<e>>[i] ELSE s[i - 1]
    BY <1>1, <1>3, <2>1
  <2> QED BY <1>1, <1>2, <2>2
<1> QED BY <1>3, <1>4, <1>5

(* Front leaves out the last element.                                      *)
LEMMA FrontShape ==
    ASSUME NEW S, NEW s \in Seq(S), Len(s) > 0
    PROVE  /\ Front(s) \in Seq(S)
           /\ Len(Front(s)) = Len(s) - 1
           /\ \A i \in 1..(Len(s) - 1) : Front(s)[i] = s[i]
<1> DEFINE n == Len(s) - 1
           f == SubSeq(s, 1, n)
<1>1. n \in Nat /\ Len(s) = n + 1 /\ \A i \in 1..n : s[i] \in S
  BY LenProperties, ElementOfSeq
<1> HIDE DEF n
<1>2. /\ f \in Seq(S)
      /\ Len(f) = IF 1 <= n THEN n - 1 + 1 ELSE 0
      /\ \A i \in 1..(n - 1 + 1) : f[i] = s[1 + i - 1]
  BY <1>1, SubSeqProperties
<1> HIDE DEF f
<1>3. f \in Seq(S) /\ Len(f) = n /\ \A i \in 1..n : f[i] = s[i]
  BY <1>1, <1>2
<1> QED BY <1>1, <1>3 DEF Front, f, n

(* Recency when k has been used at m, after everything else.               *)
UsedAt(u, k, m) == [u EXCEPT ![k] = m]

(* A key moved to the front takes its new program with it.                 *)
LEMMA MovedIsTidy ==
    ASSUME NEW s, Tidy(s), NEW n \in DOMAIN s, NEW program \in Programs
    PROVE  LET k == s[n].key
               t == <<Element(k, program)>> \o RemoveAt(s, n)
           IN  /\ Tidy(t) /\ Len(t) = Len(s)
               /\ ElementsOf(t) = {Element(k, program)} \cup {e \in ElementsOf(s) : e.key # k}
               /\ \A u \in [Keys -> Nat], m \in Nat :
                      Recent(s, u) /\ (\A j \in Keys : u[j] < m) => Recent(t, UsedAt(u, k, m))
<1> DEFINE k == s[n].key
           r == RemoveAt(s, n)
           t == <<Element(k, program)>> \o r
<1>1. /\ s \in Seq(Elements) /\ Len(s) \in Nat /\ DOMAIN s = 1..Len(s) /\ n \in 1..Len(s)
      /\ \A i \in 1..Len(s) : s[i] \in Elements
  BY LenProperties, ElementOfSeq DEF Tidy
<1>2. /\ r \in Seq(Elements) /\ Len(r) = Len(s) - 1
      /\ \A i \in 1..(Len(s) - 1) : r[i] = IF i < n THEN s[i] ELSE s[i + 1]
  BY <1>1, RemoveAtShape
<1>3. Element(k, program) \in Elements /\ k \in Keys /\ Element(k, program).key = k
  BY <1>1 DEF Elements, Element
<1> HIDE DEF r
<1>4. /\ t \in Seq(Elements) /\ Len(t) = Len(s)
      /\ \A i \in 1..Len(s) : t[i] = IF i = 1 THEN Element(k, program) ELSE r[i - 1]
  <2>1. /\ t \in Seq(Elements) /\ Len(t) = Len(r) + 1
        /\ \A i \in 1..(Len(r) + 1) : t[i] = IF i = 1 THEN Element(k, program) ELSE r[i - 1]
    BY <1>2, <1>3, PushShape
  <2>2. Len(r) + 1 = Len(s)
    BY <1>1, <1>2
  <2> QED BY <2>1, <2>2
<1> HIDE DEF t
<1>5. \A i \in 1..Len(s) : t[i] = IF i = 1 THEN Element(k, program)
                                  ELSE IF i <= n THEN s[i - 1] ELSE s[i]
  BY <1>1, <1>2, <1>4
<1>6. DOMAIN t = 1..Len(s)
  BY <1>4
<1> HIDE DEF k
<1>7. Tidy(t)
  <2>1. \A i \in 1..Len(s) : t[i].key = k => i = 1
    BY <1>1, <1>5 DEF Tidy, k
  <2>2. \A i, j \in 1..Len(s) : t[i].key = t[j].key => i = j
    <3> TAKE i, j \in 1..Len(s)
    <3>1. CASE i = 1 \/ j = 1
      BY <1>3, <1>5, <2>1, <3>1
    <3>2. CASE i # 1 /\ j # 1
      <4> DEFINE a == IF i <= n THEN i - 1 ELSE i
                 b == IF j <= n THEN j - 1 ELSE j
      <4>1. a \in 1..Len(s) /\ b \in 1..Len(s) /\ (a = b => i = j)
        BY <1>1, <3>2
      <4>2. t[i] = s[a] /\ t[j] = s[b]
        BY <1>1, <1>5, <3>2
      <4> HIDE DEF a, b
      <4> QED BY <1>1, <4>1, <4>2 DEF Tidy
    <3> QED BY <3>1, <3>2
  <2> QED BY <1>4, <1>6, <2>2 DEF Tidy
<1>8. ElementsOf(t) = {Element(k, program)} \cup {e \in ElementsOf(s) : e.key # k}
  <2>1. ASSUME NEW i \in DOMAIN t
        PROVE  t[i] \in {Element(k, program)} \cup {e \in ElementsOf(s) : e.key # k}
    <3>1. CASE i = 1
      BY <1>5, <1>6, <2>1, <3>1
    <3>2. CASE i # 1
      <4>1. \E j \in 1..Len(s) : j # n /\ t[i] = s[j]
        <5>1. CASE i <= n
          <6>1. i - 1 \in 1..Len(s) /\ i - 1 # n /\ t[i] = s[i - 1]
            BY <1>1, <1>5, <1>6, <2>1, <3>2, <5>1
          <6> QED BY <6>1
        <5>2. CASE ~(i <= n)
          <6>1. i \in 1..Len(s) /\ i # n /\ t[i] = s[i]
            BY <1>1, <1>5, <1>6, <2>1, <3>2, <5>2
          <6> QED BY <6>1
        <5> QED BY <5>1, <5>2
      <4> QED BY <1>1, <4>1 DEF ElementsOf, Tidy, k
    <3> QED BY <3>1, <3>2
  <2>2. Element(k, program) \in ElementsOf(t)
    BY <1>1, <1>5, <1>6 DEF ElementsOf
  <2>3. ASSUME NEW i \in DOMAIN s, s[i].key # k PROVE s[i] \in ElementsOf(t)
    <3>1. i \in 1..Len(s) /\ i # n
      BY <1>1, <2>3 DEF k
    <3>2. CASE i < n
      <4>1. i + 1 \in DOMAIN t /\ t[i + 1] = s[i]
        BY <1>1, <1>5, <1>6, <3>1, <3>2
      <4> QED BY <4>1 DEF ElementsOf
    <3>3. CASE ~(i < n)
      <4>1. i \in DOMAIN t /\ t[i] = s[i]
        BY <1>1, <1>5, <1>6, <3>1, <3>3
      <4> QED BY <4>1 DEF ElementsOf
    <3> QED BY <3>2, <3>3
  <2> QED BY <2>1, <2>2, <2>3 DEF ElementsOf
<1>9. ASSUME NEW u \in [Keys -> Nat], NEW m \in Nat, Recent(s, u), \A j \in Keys : u[j] < m
      PROVE  Recent(t, UsedAt(u, k, m))
  <2> DEFINE v == UsedAt(u, k, m)
  <2>1. \A j \in Keys : v[j] = IF j = k THEN m ELSE u[j]
    BY DEF UsedAt
  <2> HIDE DEF v
  <2>2. \A i \in 1..Len(s) : t[i] \in Elements /\ t[i].key \in Keys /\ s[i].key \in Keys
    BY <1>1, <1>3, <1>5 DEF Elements
  <2>3. \A i \in 2..Len(s) : t[i].key # k
    BY <1>1, <1>5 DEF Tidy, k
  <2>4. ASSUME NEW i \in 1..Len(s), NEW j \in 1..Len(s), i < j PROVE v[t[i].key] > v[t[j].key]
    <3>1. j \in 2..Len(s)
      BY <1>1, <2>4
    <3>4. v[t[j].key] = u[t[j].key]
      BY <2>1, <2>2, <2>3, <3>1
    <3>2. CASE i = 1
      <4>1. v[t[i].key] = m
        BY <1>3, <1>5, <2>1, <3>2
      <4> QED BY <2>2, <3>4, <4>1, <1>9
    <3>3. CASE i # 1
      <4>1. v[t[i].key] = u[t[i].key]
        BY <1>1, <2>1, <2>2, <2>3, <3>3
      <4> DEFINE a == IF i <= n THEN i - 1 ELSE i
                 b == IF j <= n THEN j - 1 ELSE j
      <4>2. a \in 1..Len(s) /\ b \in 1..Len(s) /\ a < b
        BY <1>1, <2>4, <3>3
      <4>3. t[i] = s[a] /\ t[j] = s[b]
        BY <1>1, <1>5, <2>4, <3>3
      <4> HIDE DEF a, b
      <4> QED BY <1>1, <1>9, <3>4, <4>1, <4>2, <4>3 DEF Recent
    <3> QED BY <3>2, <3>3
  <2> QED BY <1>6, <2>4 DEF Recent, v
<1> QED BY <1>4, <1>7, <1>8, <1>9 DEF t, r, k

(* A new key goes to the front of the others.                              *)
LEMMA PushedIsTidy ==
    ASSUME NEW s, Tidy(s), NEW k \in Keys, k \notin KeysOf(s), NEW program \in Programs
    PROVE  LET t == <<Element(k, program)>> \o s
           IN  /\ Tidy(t) /\ Len(t) = Len(s) + 1 /\ t[1] = Element(k, program)
               /\ ElementsOf(t) = {Element(k, program)} \cup ElementsOf(s)
               /\ \A u \in [Keys -> Nat], m \in Nat :
                      Recent(s, u) /\ (\A j \in Keys : u[j] < m) => Recent(t, UsedAt(u, k, m))
<1> DEFINE t == <<Element(k, program)>> \o s
<1>1. /\ s \in Seq(Elements) /\ Len(s) \in Nat /\ DOMAIN s = 1..Len(s)
      /\ \A i \in 1..Len(s) : s[i] \in Elements /\ s[i].key # k
  BY LenProperties, ElementOfSeq DEF Tidy, KeysOf
<1>2. Element(k, program) \in Elements /\ Element(k, program).key = k
  BY DEF Elements, Element
<1>3. /\ t \in Seq(Elements) /\ Len(t) = Len(s) + 1
      /\ \A i \in 1..(Len(s) + 1) : t[i] = IF i = 1 THEN Element(k, program) ELSE s[i - 1]
  BY <1>1, <1>2, PushShape
<1> HIDE DEF t
<1>4. DOMAIN t = 1..(Len(s) + 1)
  BY <1>3
<1>5. \A i \in 2..(Len(s) + 1) : i - 1 \in 1..Len(s) /\ t[i] = s[i - 1]
  BY <1>1, <1>3
<1>6. t[1] = Element(k, program)
  BY <1>1, <1>3
<1>7. Tidy(t)
  <2>1. ASSUME NEW i \in 1..(Len(s) + 1), NEW j \in 1..(Len(s) + 1), t[i].key = t[j].key
        PROVE  i = j
    <3>1. CASE i = 1 \/ j = 1
      BY <1>1, <1>2, <1>5, <1>6, <2>1, <3>1
    <3>2. CASE i # 1 /\ j # 1
      <4>1. i - 1 = j - 1
        BY <1>1, <1>5, <2>1, <3>2 DEF Tidy
      <4> QED BY <4>1, <2>1, <1>1
    <3> QED BY <3>1, <3>2
  <2> QED BY <1>3, <1>4, <2>1 DEF Tidy
<1>8. ElementsOf(t) = {Element(k, program)} \cup ElementsOf(s)
  <2>1. ASSUME NEW i \in DOMAIN t PROVE t[i] \in {Element(k, program)} \cup ElementsOf(s)
    <3>1. CASE i = 1
      BY <1>6, <3>1
    <3>2. CASE i # 1
      <4>1. i - 1 \in DOMAIN s /\ t[i] = s[i - 1]
        BY <1>1, <1>4, <1>5, <3>2
      <4> QED BY <4>1 DEF ElementsOf
    <3> QED BY <3>1, <3>2
  <2>2. Element(k, program) \in ElementsOf(t)
    BY <1>1, <1>4, <1>6 DEF ElementsOf
  <2>3. ASSUME NEW i \in DOMAIN s PROVE s[i] \in ElementsOf(t)
    <3>1. i + 1 \in DOMAIN t /\ t[i + 1] = s[i]
      BY <1>1, <1>3, <1>4
    <3> QED BY <3>1 DEF ElementsOf
  <2> QED BY <2>1, <2>2, <2>3 DEF ElementsOf
<1>9. ASSUME NEW u \in [Keys -> Nat], NEW m \in Nat, Recent(s, u), \A j \in Keys : u[j] < m
      PROVE  Recent(t, UsedAt(u, k, m))
  <2> DEFINE v == UsedAt(u, k, m)
  <2>1. \A j \in Keys : v[j] = IF j = k THEN m ELSE u[j]
    BY DEF UsedAt
  <2> HIDE DEF v
  <2>2. \A i \in 1..Len(s) : s[i].key \in Keys /\ v[s[i].key] = u[s[i].key]
    BY <1>1, <2>1 DEF Elements
  <2>3. ASSUME NEW i \in 1..(Len(s) + 1), NEW j \in 1..(Len(s) + 1), i < j
        PROVE  v[t[i].key] > v[t[j].key]
    <3>1. j - 1 \in 1..Len(s) /\ v[t[j].key] = u[s[j - 1].key]
      BY <1>1, <1>5, <2>2, <2>3
    <3>2. CASE i = 1
      <4>1. v[t[i].key] = m
        BY <1>2, <1>6, <2>1, <3>2
      <4> QED BY <2>2, <3>1, <4>1, <1>9
    <3>3. CASE i # 1
      <4>1. i - 1 \in 1..Len(s) /\ v[t[i].key] = u[s[i - 1].key] /\ i - 1 < j - 1
        BY <1>1, <1>5, <2>2, <2>3, <3>3
      <4> QED BY <1>1, <1>9, <3>1, <4>1 DEF Recent
    <3> QED BY <3>2, <3>3
  <2> QED BY <1>4, <2>3 DEF Recent, v
<1> QED BY <1>3, <1>6, <1>7, <1>8, <1>9 DEF t

(* A key that is deleted takes its element along and no other.             *)
LEMMA RemovedIsTidy ==
    ASSUME NEW s, Tidy(s), NEW n \in DOMAIN s
    PROVE  LET t == RemoveAt(s, n)
           IN  /\ Tidy(t) /\ Len(t) = Len(s) - 1
               /\ ElementsOf(t) = {e \in ElementsOf(s) : e.key # s[n].key}
               /\ \A u \in [Keys -> Nat] : Recent(s, u) => Recent(t, u)
<1> DEFINE t == RemoveAt(s, n)
           k == s[n].key
           From(i) == IF i < n THEN i ELSE i + 1
<1>1. /\ s \in Seq(Elements) /\ Len(s) \in Nat /\ DOMAIN s = 1..Len(s) /\ n \in 1..Len(s)
      /\ \A i \in 1..Len(s) : s[i] \in Elements
  BY LenProperties, ElementOfSeq DEF Tidy
<1>2. /\ t \in Seq(Elements) /\ Len(t) = Len(s) - 1
      /\ \A i \in 1..(Len(s) - 1) : t[i] = IF i < n THEN s[i] ELSE s[i + 1]
  BY <1>1, RemoveAtShape
<1> HIDE DEF t
<1>3. DOMAIN t = 1..(Len(s) - 1)
  BY <1>1, <1>2
<1>4. \A i \in 1..(Len(s) - 1) : From(i) \in 1..Len(s) /\ From(i) # n /\ t[i] = s[From(i)]
  BY <1>1, <1>2
<1>5. \A i, j \in 1..(Len(s) - 1) : i < j => From(i) < From(j)
  BY <1>1
<1>6. \A i, j \in 1..(Len(s) - 1) : From(i) = From(j) => i = j
  BY <1>1
<1>7. \A i \in 1..Len(s) : i # n => \E j \in 1..(Len(s) - 1) : From(j) = i
  <2> TAKE i \in 1..Len(s)
  <2> HAVE i # n
  <2>1. CASE i < n
    <3>1. i \in 1..(Len(s) - 1) /\ From(i) = i
      BY <1>1, <2>1
    <3> QED BY <3>1
  <2>2. CASE ~(i < n)
    <3>1. i - 1 \in 1..(Len(s) - 1) /\ From(i - 1) = i
      BY <1>1, <2>2
    <3> QED BY <3>1
  <2> QED BY <2>1, <2>2
<1> HIDE DEF From
<1>8. Tidy(t)
  <2>1. \A i, j \in 1..(Len(s) - 1) : t[i].key = t[j].key => i = j
    BY <1>1, <1>4, <1>6 DEF Tidy
  <2> QED BY <1>2, <1>3, <2>1 DEF Tidy
<1>9. ElementsOf(t) = {e \in ElementsOf(s) : e.key # k}
  <2>1. ASSUME NEW i \in DOMAIN t PROVE t[i] \in {e \in ElementsOf(s) : e.key # k}
    BY <1>1, <1>3, <1>4 DEF ElementsOf, Tidy, k
  <2>2. ASSUME NEW i \in DOMAIN s, s[i].key # k PROVE s[i] \in ElementsOf(t)
    <3>1. PICK j \in 1..(Len(s) - 1) : From(j) = i
      BY <1>1, <1>7, <2>2 DEF k
    <3>2. j \in DOMAIN t /\ t[j] = s[i]
      BY <1>3, <1>4, <3>1
    <3> QED BY <3>2 DEF ElementsOf
  <2> QED BY <2>1, <2>2 DEF ElementsOf
<1>10. ASSUME NEW u \in [Keys -> Nat], Recent(s, u) PROVE Recent(t, u)
  <2>1. ASSUME NEW i \in 1..(Len(s) - 1), NEW j \in 1..(Len(s) - 1), i < j
        PROVE  u[t[i].key] > u[t[j].key]
    <3>1. /\ From(i) \in DOMAIN s /\ From(j) \in DOMAIN s /\ From(i) < From(j)
          /\ t[i] = s[From(i)] /\ t[j] = s[From(j)]
      BY <1>1, <1>4, <1>5, <2>1
    <3> QED BY <1>10, <3>1 DEF Recent
  <2> QED BY <1>3, <2>1 DEF Recent
<1> QED BY <1>2, <1>8, <1>9, <1>10 DEF t, k

(* The element at the back goes, and every other was used after it.        *)
LEMMA FrontIsTidy ==
    ASSUME NEW s, Tidy(s), Len(s) > 0
    PROVE  LET t == Front(s)
           IN  /\ Tidy(t) /\ Len(t) = Len(s) - 1 /\ Last(s) \in ElementsOf(s)
               /\ ElementsOf(t) = {e \in ElementsOf(s) : e.key # Last(s).key}
               /\ \A u \in [Keys -> Nat] :
                      Recent(s, u) => /\ Recent(t, u)
                                      /\ \A e \in ElementsOf(t) : u[Last(s).key] < u[e.key]
<1> DEFINE t == Front(s)
           n == Len(s)
<1>1. /\ s \in Seq(Elements) /\ n \in Nat /\ DOMAIN s = 1..n /\ n \in 1..n
      /\ \A i \in 1..n : s[i] \in Elements
  BY LenProperties, ElementOfSeq DEF Tidy
<1>2. /\ t \in Seq(Elements) /\ Len(t) = n - 1
      /\ \A i \in 1..(n - 1) : t[i] = s[i]
  BY <1>1, FrontShape
<1>3. Last(s) = s[n]
  BY DEF Last
<1> HIDE DEF t, n
<1>4. DOMAIN t = 1..(n - 1)
  BY <1>1, <1>2
<1>5. \A i \in 1..(n - 1) : i \in 1..n /\ i < n
  BY <1>1
<1>6. \A i \in 1..n : i # n => i \in 1..(n - 1)
  BY <1>1
<1>7. Tidy(t)
  BY <1>1, <1>2, <1>4, <1>5 DEF Tidy
<1>8. ElementsOf(t) = {e \in ElementsOf(s) : e.key # s[n].key}
  <2>1. ASSUME NEW i \in DOMAIN t PROVE t[i] \in {e \in ElementsOf(s) : e.key # s[n].key}
    <3>1. i \in DOMAIN s /\ i # n /\ t[i] = s[i]
      BY <1>1, <1>2, <1>4, <1>5
    <3> QED BY <1>1, <3>1 DEF ElementsOf, Tidy
  <2>2. ASSUME NEW i \in DOMAIN s, s[i].key # s[n].key PROVE s[i] \in ElementsOf(t)
    <3>1. i \in DOMAIN t /\ t[i] = s[i]
      BY <1>1, <1>2, <1>4, <1>6, <2>2
    <3> QED BY <3>1 DEF ElementsOf
  <2> QED BY <2>1, <2>2 DEF ElementsOf
<1>9. ASSUME NEW u \in [Keys -> Nat], Recent(s, u)
      PROVE  Recent(t, u) /\ \A e \in ElementsOf(t) : u[s[n].key] < u[e.key]
  <2>1. Recent(t, u)
    BY <1>1, <1>2, <1>4, <1>5, <1>9 DEF Recent
  <2>2. ASSUME NEW i \in DOMAIN t PROVE u[s[n].key] < u[t[i].key]
    <3>1. i \in DOMAIN s /\ n \in DOMAIN s /\ i < n /\ t[i] = s[i]
      BY <1>1, <1>2, <1>4, <1>5
    <3>2. u[s[i].key] > u[s[n].key]
      BY <1>9, <3>1 DEF Recent
    <3>3. u[s[i].key] \in Nat /\ u[s[n].key] \in Nat
      BY <1>1, <3>1 DEF Elements
    <3> QED BY <3>1, <3>2, <3>3
  <2> QED BY <2>1, <2>2 DEF ElementsOf
<1>10. Last(s) \in ElementsOf(s)
  BY <1>1, <1>3 DEF ElementsOf
<1> QED BY <1>2, <1>3, <1>7, <1>8, <1>9, <1>10 DEF t, n

(* A tidy list is as long as the set of its keys is large.                 *)
LEMMA TidyCounts ==
    ASSUME NEW s, Tidy(s)
    PROVE  IsFiniteSet(KeysOf(s)) /\ Cardinality(KeysOf(s)) = Len(s)
<1> DEFINE f == [i \in 1..Len(s) |-> s[i].key]
<1>1. s \in Seq(Elements) /\ Len(s) \in Nat /\ DOMAIN s = 1..Len(s)
  BY DEF Tidy
<1>2. f \in Bijection(1..Len(s), KeysOf(s))
  <2>1. f \in [1..Len(s) -> KeysOf(s)]
    BY <1>1 DEF KeysOf
  <2>2. \A i, j \in 1..Len(s) : f[i] = f[j] => i = j
    BY <1>1 DEF Tidy
  <2>3. \A k \in KeysOf(s) : \E i \in 1..Len(s) : f[i] = k
    BY <1>1 DEF KeysOf
  <2> QED BY <2>1, <2>2, <2>3 DEF Bijection, Injection, Surjection, IsInjective
<1>3. IsFiniteSet(1..Len(s)) /\ Cardinality(1..Len(s)) = Len(s)
  BY <1>1, FS_Interval
<1> HIDE DEF f
<1>4. ExistsBijection(1..Len(s), KeysOf(s))
  BY <1>2 DEF ExistsBijection
<1> QED BY <1>3, <1>4, FS_Bijection

(* The keys are those of the elements.                                     *)
LEMMA KeysAreOfElements ==
    ASSUME NEW s PROVE KeysOf(s) = {e.key : e \in ElementsOf(s)}
BY DEF KeysOf, ElementsOf

-----------------------------------------------------------------------------
(* The inductive invariant                                                 *)

Places == {"idle", "get", "set", "reported"} \cup Counters

Registers ==
    [key : Keys \cup {CHOOSE k \in Keys : TRUE}, program : Programs \cup {None},
     report : Report, pending : Nat]

TypeOK ==
    /\ count \in [Counters -> Nat]
    /\ pc \in [Procs -> Places]
    /\ reg \in [Procs -> Registers]
    /\ now \in Nat
    /\ used \in [Keys -> Nat]

(* No use of a key is after now: what Set and Get record next is later.    *)
ListInv ==
    /\ Tidy(order)
    /\ items = KeysOf(order)
    /\ Len(order) <= Capacity
    /\ Recent(order, used)
    /\ \A k \in Keys : used[k] < now + 1

CallsInv ==
    \A p \in Procs :
        /\ pc[p] \in {"get", "set"} => reg[p].key \in Keys
        /\ pc[p] = "set" => reg[p].program \in Programs

Waiting(place) == {q \in Procs : pc[q] = place}

(* A Set before its mutex is counted and has not yet added an element.     *)
CountInv ==
    /\ IsFiniteSet(Waiting("get")) /\ IsFiniteSet(Waiting("set"))
    /\ count["gets"] = count["hits"] + count["misses"] + Cardinality(Waiting("get"))
    /\ Len(order) + count["evictions"] + Cardinality(Waiting("set")) <= count["sets"]

(* What a report under way has read, against the counters it will read.    *)
ReportInv ==
    \A p \in Procs :
        LET r == reg[p].report
            pending == reg[p].pending
        IN  /\ pc[p] \in Counters \cup {"reported"} => r["entries"] <= Capacity
            /\ pc[p] = "hits" => r["gets"] <= count["hits"] + count["misses"] + pending
            /\ pc[p] = "misses" => r["gets"] <= r["hits"] + count["misses"] + pending
            /\ pc[p] \in {"sets", "evictions", "reported"} =>
                   r["gets"] <= r["hits"] + r["misses"] + pending

Inv == TypeOK /\ ListInv /\ CallsInv /\ CountInv /\ ReportInv

(* The capacity is never below one.                                        *)
LEMMA CapacityIsPositive == Capacity \in Nat /\ Capacity >= 1
BY LRUAssumption DEF Capacity

(* A key that the map has is found in the list.                            *)
LEMMA Found ==
    ASSUME ListInv, NEW k \in items
    PROVE  At(k) \in DOMAIN order /\ order[At(k)].key = k /\ order[At(k)] \in Elements
<1>1. \E i \in DOMAIN order : order[i].key = k
  BY DEF ListInv, KeysOf
<1>2. At(k) \in DOMAIN order /\ order[At(k)].key = k
  BY <1>1 DEF At
<1>3. order[At(k)] \in Elements
  BY <1>2, ElementOfSeq DEF ListInv, Tidy
<1> QED BY <1>2, <1>3

(* A step of p moves p from one set of goroutines to another.              *)
LEMMA PlaceCounts ==
    ASSUME TypeOK, NEW p \in Procs, NEW from, NEW to, Goto(p, from, to),
           NEW x, IsFiniteSet(Waiting(x))
    PROVE  /\ IsFiniteSet(Waiting(x)')
           /\ Cardinality(Waiting(x)) \in Nat /\ Cardinality(Waiting(x)') \in Nat
           /\ Cardinality(Waiting(x)') + (IF x = from THEN 1 ELSE 0)
                  = Cardinality(Waiting(x)) + (IF x = to THEN 1 ELSE 0)
<1>1. pc[p] = from /\ \A q \in Procs : pc'[q] = IF q = p THEN to ELSE pc[q]
  BY DEF TypeOK, Goto
<1>2. Cardinality(Waiting(x)) \in Nat
  BY FS_CardinalityType
<1>3. CASE x = to /\ x # from
  <2>1. Waiting(x)' = Waiting(x) \cup {p} /\ p \notin Waiting(x)
    BY <1>1, <1>3 DEF Waiting
  <2> QED BY <1>2, <1>3, <2>1, FS_AddElement
<1>4. CASE x # to /\ x = from
  <2>1. Waiting(x)' = Waiting(x) \ {p} /\ p \in Waiting(x)
    BY <1>1, <1>4 DEF Waiting
  <2>2. IsFiniteSet(Waiting(x)') /\ Cardinality(Waiting(x)') = Cardinality(Waiting(x)) - 1
    BY <2>1, FS_RemoveElement
  <2>3. Cardinality(Waiting(x)') \in Nat
    BY <2>2, FS_CardinalityType
  <2> QED BY <1>2, <1>4, <2>2, <2>3
<1>5. CASE (x = to /\ x = from) \/ (x # to /\ x # from)
  <2>1. Waiting(x)' = Waiting(x)
    BY <1>1, <1>5 DEF Waiting
  <2> QED BY <1>2, <1>5, <2>1
<1> QED BY <1>3, <1>4, <1>5

(* A critical section counts with no counter being lost.                   *)
LEMMA CountAdds ==
    ASSUME TypeOK, NEW cs, Count(cs)
    PROVE  /\ count' \in [Counters -> Nat]
           /\ IF "gets" \in cs THEN count'["gets"] = count["gets"] + 1
              ELSE count'["gets"] = count["gets"]
           /\ IF "hits" \in cs THEN count'["hits"] = count["hits"] + 1
              ELSE count'["hits"] = count["hits"]
           /\ IF "misses" \in cs THEN count'["misses"] = count["misses"] + 1
              ELSE count'["misses"] = count["misses"]
           /\ IF "sets" \in cs THEN count'["sets"] = count["sets"] + 1
              ELSE count'["sets"] = count["sets"]
           /\ IF "evictions" \in cs THEN count'["evictions"] = count["evictions"] + 1
              ELSE count'["evictions"] = count["evictions"]
<1>1. \A c \in Counters : count'[c] = count[c] + IF c \in cs THEN 1 ELSE 0
  BY DEF Count
<1>2. /\ "gets" \in Counters /\ "hits" \in Counters /\ "misses" \in Counters
      /\ "sets" \in Counters /\ "evictions" \in Counters
  BY DEF Counters
<1>3. count' \in [Counters -> Nat]
  BY DEF TypeOK, Count
<1>4. \A c \in Counters : count[c] \in Nat
  BY DEF TypeOK
<1>5. \A c \in Counters : /\ c \in cs => count'[c] = count[c] + 1
                          /\ c \notin cs => count'[c] = count[c]
  BY <1>1, <1>4
<1> QED BY <1>2, <1>3, <1>5

(* Stats reads the counters in the order of LoadOrder.                     *)
LEMMA LoadsInOrder ==
    /\ After("gets") = "hits" /\ After("hits") = "misses" /\ After("misses") = "sets"
    /\ After("sets") = "evictions" /\ After("evictions") = "reported"
<1>1. DOMAIN LoadOrder = 1..5 /\ Len(LoadOrder) = 5
  BY DEF LoadOrder
<1>2. /\ LoadOrder[1] = "gets" /\ LoadOrder[2] = "hits" /\ LoadOrder[3] = "misses"
      /\ LoadOrder[4] = "sets" /\ LoadOrder[5] = "evictions"
  BY DEF LoadOrder
<1>3. \A i \in 1..5 : i = 1 \/ i = 2 \/ i = 3 \/ i = 4 \/ i = 5
  OBVIOUS
<1>4. \A m \in 1..5 : (CHOOSE i \in DOMAIN LoadOrder : LoadOrder[i] = LoadOrder[m]) = m
  <2>1. \A i, m \in 1..5 : LoadOrder[i] = LoadOrder[m] => i = m
    BY <1>2, <1>3
  <2> QED BY <1>1, <2>1
<1>5. \A m \in 1..5 : After(LoadOrder[m]) = IF m = 5 THEN "reported" ELSE LoadOrder[m + 1]
  <2> TAKE m \in 1..5
  <2> DEFINE n == CHOOSE i \in DOMAIN LoadOrder : LoadOrder[i] = LoadOrder[m]
  <2>1. n = m
    BY <1>4
  <2>2. After(LoadOrder[m]) = IF n = Len(LoadOrder) THEN "reported" ELSE LoadOrder[n + 1]
    BY DEF After
  <2> QED BY <1>1, <2>1, <2>2
<1> QED BY <1>2, <1>5

(* The element evicted is the back of the list before the push: never the  *)
(* one just set, and every other was used after it.                        *)
LEMMA EvictedIsTidy ==
    ASSUME NEW s, Tidy(s), Len(s) > 0,
           NEW k \in Keys, k \notin KeysOf(s), NEW program \in Programs
    PROVE  LET pushed == <<Element(k, program)>> \o s
               out == Last(pushed)
               t == Front(pushed)
           IN  /\ Tidy(t) /\ Len(t) = Len(s)
               /\ out \in ElementsOf(s) /\ out.key # k
               /\ ElementsOf(t) =
                      {Element(k, program)} \cup {e \in ElementsOf(s) : e.key # out.key}
               /\ \A u \in [Keys -> Nat], m \in Nat :
                      Recent(s, u) /\ (\A j \in Keys : u[j] < m) =>
                          /\ Recent(t, UsedAt(u, k, m))
                          /\ \A e \in ElementsOf(t) : u[out.key] < UsedAt(u, k, m)[e.key]
<1> DEFINE pushed == <<Element(k, program)>> \o s
           out == Last(pushed)
           t == Front(pushed)
<1>1. /\ Tidy(pushed) /\ Len(pushed) = Len(s) + 1 /\ pushed[1] = Element(k, program)
      /\ ElementsOf(pushed) = {Element(k, program)} \cup ElementsOf(s)
      /\ \A u \in [Keys -> Nat], m \in Nat :
             Recent(s, u) /\ (\A j \in Keys : u[j] < m) => Recent(pushed, UsedAt(u, k, m))
  BY PushedIsTidy
<1> HIDE DEF pushed
<1>2. Len(s) \in Nat /\ Len(pushed) > 0 /\ pushed \in Seq(Elements) /\ DOMAIN pushed = 1..Len(pushed)
  BY <1>1, LenProperties DEF Tidy
<1>3. /\ Tidy(t) /\ Len(t) = Len(pushed) - 1 /\ out \in ElementsOf(pushed)
      /\ ElementsOf(t) = {e \in ElementsOf(pushed) : e.key # out.key}
      /\ \A v \in [Keys -> Nat] :
             Recent(pushed, v) => /\ Recent(t, v)
                                  /\ \A e \in ElementsOf(t) : v[out.key] < v[e.key]
  BY <1>1, <1>2, FrontIsTidy
<1>4. out.key # k
  <2>1. 1 \in DOMAIN pushed /\ Len(pushed) \in DOMAIN pushed /\ Len(pushed) # 1
    BY <1>1, <1>2
  <2>2. out = pushed[Len(pushed)]
    BY DEF Last
  <2>3. Element(k, program).key = k
    BY DEF Element
  <2> HIDE DEF out
  <2> QED BY <1>1, <2>1, <2>2, <2>3 DEF Tidy
<1> HIDE DEF t, out
<1>5. out \in ElementsOf(s)
  BY <1>1, <1>3, <1>4 DEF Element
<1>6. ElementsOf(t) = {Element(k, program)} \cup {e \in ElementsOf(s) : e.key # out.key}
  BY <1>1, <1>3, <1>4 DEF Element
<1>7. Len(t) = Len(s)
  BY <1>1, <1>2, <1>3
<1>8. ASSUME NEW u \in [Keys -> Nat], NEW m \in Nat, Recent(s, u), \A j \in Keys : u[j] < m
      PROVE  /\ Recent(t, UsedAt(u, k, m))
             /\ \A e \in ElementsOf(t) : u[out.key] < UsedAt(u, k, m)[e.key]
  <2> DEFINE v == UsedAt(u, k, m)
  <2>1. v \in [Keys -> Nat] /\ \A j \in Keys : j # k => v[j] = u[j]
    BY DEF UsedAt
  <2>2. Recent(pushed, v)
    BY <1>1, <1>8
  <2> HIDE DEF v
  <2>3. out.key \in Keys
    <3>1. PICK i \in DOMAIN s : out = s[i]
      BY <1>5 DEF ElementsOf
    <3>2. s[i] \in Elements
      BY ElementOfSeq DEF Tidy
    <3> QED BY <3>1, <3>2 DEF Elements
  <2>4. Recent(t, v) /\ \A e \in ElementsOf(t) : v[out.key] < v[e.key]
    BY <1>3, <2>1, <2>2
  <2> QED BY <1>4, <2>1, <2>3, <2>4 DEF v
<1> QED BY <1>3, <1>4, <1>5, <1>6, <1>7, <1>8 DEF t, out, pushed

-----------------------------------------------------------------------------
(* What the critical sections do to the list                               *)

(* A use of the list is later than all before it.                          *)
LEMMA UseIsLatest ==
    ASSUME TypeOK, ListInv, NEW k \in Keys, Use(k)
    PROVE  /\ now' \in Nat /\ used' \in [Keys -> Nat]
           /\ \A j \in Keys : used'[j] < now' + 1
           /\ now + 1 \in Nat /\ used' = UsedAt(used, k, now + 1)
           /\ \A j \in Keys : used[j] < now + 1
BY DEF TypeOK, ListInv, Use, UsedAt

(* The list is as long as the map is large; a new key adds one.            *)
LEMMA ItemsCounted ==
    ASSUME ListInv
    PROVE  /\ IsFiniteSet(items) /\ Cardinality(items) = Len(order) /\ Len(order) \in Nat
           /\ \A k \in Keys \ items : Cardinality(items \cup {k}) = Len(order) + 1
<1>1. IsFiniteSet(items) /\ Cardinality(items) = Len(order)
  BY TidyCounts DEF ListInv
<1>2. Len(order) \in Nat
  BY LenProperties DEF ListInv, Tidy
<1>3. \A k \in Keys \ items : Cardinality(items \cup {k}) = Len(order) + 1
  BY <1>1, FS_AddElement
<1> QED BY <1>1, <1>2, <1>3

(* A Get moves the element and keeps it, or changes nothing.               *)
LEMMA GetLockedList ==
    ASSUME TypeOK, ListInv, CallsInv, NEW p \in Procs, GetLocked(p)
    PROVE  /\ ListInv' /\ now' \in Nat /\ used' \in [Keys -> Nat]
           /\ Len(order') = Len(order) /\ items' = items
           /\ ElementsOf(order') = ElementsOf(order)
<1> DEFINE k == reg[p].key
           program == order[At(k)].program
<1>1. CASE k \notin items
  BY <1>1 DEF GetLocked, ListInv, TypeOK
<1>2. CASE k \in items
  <2>1. /\ order' = <<Element(k, program)>> \o RemoveAt(order, At(k))
        /\ items' = items /\ Use(k)
    BY <1>2 DEF GetLocked, MovedToFront
  <2>2. /\ At(k) \in DOMAIN order /\ order[At(k)].key = k /\ order[At(k)] \in Elements
        /\ k \in Keys /\ program \in Programs
    BY <1>2, Found DEF Elements
  <2> HIDE DEF k, program
  <2>3. /\ now' \in Nat /\ used' \in [Keys -> Nat]
        /\ \A j \in Keys : used'[j] < now' + 1
        /\ now + 1 \in Nat /\ used' = UsedAt(used, k, now + 1)
        /\ \A j \in Keys : used[j] < now + 1
    BY <2>1, <2>2, UseIsLatest
  <2>4. /\ Tidy(order') /\ Len(order') = Len(order)
        /\ ElementsOf(order') =
               {Element(k, program)} \cup {e \in ElementsOf(order) : e.key # k}
        /\ \A u \in [Keys -> Nat], m \in Nat :
               Recent(order, u) /\ (\A j \in Keys : u[j] < m) => Recent(order', UsedAt(u, k, m))
    BY <2>1, <2>2, MovedIsTidy, SMTT(30) DEF ListInv
  <2>5. Element(k, program) = order[At(k)]
    BY <2>2 DEF Element, Elements, program
  <2>6. ElementsOf(order') = ElementsOf(order)
    <3>1. \A e \in ElementsOf(order) : e.key = k => e = order[At(k)]
      BY <2>2 DEF ListInv, Tidy, ElementsOf
    <3>2. order[At(k)] \in ElementsOf(order)
      BY <2>2 DEF ElementsOf
    <3> QED BY <2>4, <2>5, <3>1, <3>2
  <2>7. KeysOf(order') = KeysOf(order)
    BY <2>6, KeysAreOfElements
  <2>8. Recent(order', used')
    BY <2>3, <2>4 DEF ListInv, TypeOK
  <2>9. ListInv'
    BY <2>1, <2>3, <2>4, <2>7, <2>8, CapacityIsPositive DEF ListInv, Capacity
  <2> QED BY <2>1, <2>3, <2>4, <2>6, <2>9
<1> QED BY <1>1, <1>2

(* What a Set that evicts nothing leaves.                                  *)
Stored(k, program) ==
    /\ UNCHANGED count
    /\ items' = items \cup {k}
    /\ Len(order') <= Len(order) + 1
    /\ ElementsOf(order') = {Element(k, program)} \cup {e \in ElementsOf(order) : e.key # k}

(* What a Set that evicts the element out leaves.                          *)
Replaced(k, program, out) ==
    /\ Count({"evictions"})
    /\ k \notin items /\ out.key # k
    /\ Len(order) = Capacity /\ Len(order') = Len(order)
    /\ items' = (items \cup {k}) \ {out.key}
    /\ ElementsOf(order') = {Element(k, program)} \cup {e \in ElementsOf(order) : e.key # out.key}
    /\ \A e \in ElementsOf(order') : used[out.key] < used'[e.key]

(* A Set moves its key, adds it, or evicts the least recently used one.    *)
LEMMA SetLockedList ==
    ASSUME TypeOK, ListInv, CallsInv, NEW p \in Procs, SetLocked(p)
    PROVE  LET k == reg[p].key
               program == reg[p].program
           IN  /\ ListInv' /\ now' \in Nat /\ used' \in [Keys -> Nat]
               /\ \/ Stored(k, program)
                  \/ \E out \in ElementsOf(order) : Replaced(k, program, out)
<1> DEFINE k == reg[p].key
           program == reg[p].program
           pushed == <<Element(k, program)>> \o order
<1>1. k \in Keys /\ program \in Programs /\ Use(k)
  BY DEF CallsInv, SetLocked, Goto
<1>2. \/ k \in items /\ order' = MovedToFront(k, program) /\ UNCHANGED <<items, count>>
      \/ /\ k \notin items /\ Cardinality(items \cup {k}) > Capacity
         /\ evictOldest(pushed, items \cup {k})
      \/ /\ k \notin items /\ ~(Cardinality(items \cup {k}) > Capacity)
         /\ order' = pushed /\ items' = items \cup {k} /\ UNCHANGED count
  BY DEF SetLocked
<1> HIDE DEF k, program
<1>3. /\ now' \in Nat /\ used' \in [Keys -> Nat]
      /\ \A j \in Keys : used'[j] < now' + 1
      /\ now + 1 \in Nat /\ used' = UsedAt(used, k, now + 1)
      /\ \A j \in Keys : used[j] < now + 1
  BY <1>1, UseIsLatest
<1>4. /\ Tidy(order) /\ items = KeysOf(order) /\ Recent(order, used)
      /\ Len(order) \in Nat /\ Len(order) <= Capacity
      /\ Capacity \in Nat /\ Capacity >= 1 /\ used \in [Keys -> Nat]
  BY ItemsCounted, CapacityIsPositive DEF ListInv, TypeOK
<1>5. CASE k \in items /\ order' = MovedToFront(k, program) /\ UNCHANGED <<items, count>>
  <2>1. At(k) \in DOMAIN order /\ order[At(k)].key = k
    BY <1>5, Found
  <2>2. /\ Tidy(order') /\ Len(order') = Len(order)
        /\ ElementsOf(order') =
               {Element(k, program)} \cup {e \in ElementsOf(order) : e.key # k}
        /\ \A u \in [Keys -> Nat], m \in Nat :
               Recent(order, u) /\ (\A j \in Keys : u[j] < m) => Recent(order', UsedAt(u, k, m))
    <3> HIDE DEF pushed
    <3>1. order' = <<Element(k, program)>> \o RemoveAt(order, At(k))
      BY <1>5 DEF MovedToFront
    <3>2. At(k) \in DOMAIN order /\ order[At(k)].key = k /\ program \in Programs /\ Tidy(order)
      BY <1>1, <1>4, <2>1
    <3> QED BY <3>1, <3>2, MovedIsTidy
  <2>3. Recent(order', used')
    BY <1>3, <1>4, <2>2
  <2>4. KeysOf(order') = items
    <3>1. \A e \in ElementsOf(order) : e.key \in items
      BY <1>4, KeysAreOfElements
    <3>2. \A j \in items : \E e \in ElementsOf(order) : e.key = j
      BY <1>4, KeysAreOfElements
    <3>3. Element(k, program).key = k
      BY DEF Element
    <3>4. KeysOf(order') = {e.key : e \in ElementsOf(order')}
      BY KeysAreOfElements
    <3> QED BY <1>5, <2>2, <3>1, <3>2, <3>3, <3>4
  <2>5. Len(order') <= Len(order) + 1
    BY <1>4, <2>2
  <2>6. ListInv'
    BY <1>3, <1>4, <1>5, <2>2, <2>3, <2>4 DEF ListInv, Capacity
  <2> QED BY <1>3, <1>5, <2>2, <2>5, <2>6 DEF Stored, k, program
<1>6. ASSUME k \notin items
      PROVE  /\ Tidy(pushed) /\ Len(pushed) = Len(order) + 1
             /\ ElementsOf(pushed) = {Element(k, program)} \cup ElementsOf(order)
             /\ Recent(pushed, used')
             /\ Cardinality(items \cup {k}) = Len(order) + 1
             /\ \A e \in ElementsOf(order) : e.key # k
  <2>1. /\ Tidy(pushed) /\ Len(pushed) = Len(order) + 1
        /\ ElementsOf(pushed) = {Element(k, program)} \cup ElementsOf(order)
        /\ \A u \in [Keys -> Nat], m \in Nat :
               Recent(order, u) /\ (\A j \in Keys : u[j] < m) => Recent(pushed, UsedAt(u, k, m))
    BY <1>1, <1>4, <1>6, PushedIsTidy
  <2>2. Recent(pushed, used')
    BY <1>3, <1>4, <2>1
  <2>3. Cardinality(items \cup {k}) = Len(order) + 1
    BY <1>1, <1>6, ItemsCounted
  <2>4. \A e \in ElementsOf(order) : e.key # k
    BY <1>4, <1>6, KeysAreOfElements
  <2> QED BY <2>1, <2>2, <2>3, <2>4
<1>7. CASE /\ k \notin items /\ ~(Cardinality(items \cup {k}) > Capacity)
           /\ order' = pushed /\ items' = items \cup {k} /\ UNCHANGED count
  <2>1. Len(order') <= Capacity /\ Len(order') <= Len(order) + 1
    BY <1>4, <1>6, <1>7
  <2>2. KeysOf(order') = items \cup {k}
    <3>1. Element(k, program).key = k
      BY DEF Element
    <3> QED BY <1>4, <1>6, <1>7, <3>1, KeysAreOfElements
  <2>3. ListInv'
    BY <1>3, <1>6, <1>7, <2>1, <2>2 DEF ListInv, Capacity
  <2>4. ElementsOf(order') = {Element(k, program)} \cup {e \in ElementsOf(order) : e.key # k}
    BY <1>6, <1>7
  <2> QED BY <1>3, <1>7, <2>1, <2>3, <2>4 DEF Stored, k, program
<1>8. CASE /\ k \notin items /\ Cardinality(items \cup {k}) > Capacity
           /\ evictOldest(pushed, items \cup {k})
  <2> DEFINE out == Last(pushed)
  <2>1. Len(order) > 0 /\ Len(order) = Capacity
    BY <1>4, <1>6, <1>8
  <2>2. order' = Front(pushed) /\ items' = (items \cup {k}) \ {out.key} /\ Count({"evictions"})
    BY <1>8 DEF evictOldest
  <2>3. /\ Tidy(order') /\ Len(order') = Len(order)
        /\ out \in ElementsOf(order) /\ out.key # k
        /\ ElementsOf(order') =
               {Element(k, program)} \cup {e \in ElementsOf(order) : e.key # out.key}
        /\ \A u \in [Keys -> Nat], m \in Nat :
               Recent(order, u) /\ (\A j \in Keys : u[j] < m) =>
                   /\ Recent(order', UsedAt(u, k, m))
                   /\ \A e \in ElementsOf(order') : u[out.key] < UsedAt(u, k, m)[e.key]
    BY <1>1, <1>4, <1>8, <2>1, <2>2, EvictedIsTidy
  <2> HIDE DEF out, pushed
  <2>4. Recent(order', used') /\ \A e \in ElementsOf(order') : used[out.key] < used'[e.key]
    BY <1>3, <1>4, <2>3
  <2>5. KeysOf(order') = items'
    <3>1. Element(k, program).key = k
      BY DEF Element
    <3>2. items = {e.key : e \in ElementsOf(order)}
      BY <1>4, KeysAreOfElements
    <3>3. KeysOf(order') = {e.key : e \in ElementsOf(order')}
      BY KeysAreOfElements
    <3> QED BY <2>2, <2>3, <3>1, <3>2, <3>3
  <2>6. ListInv'
    BY <1>3, <1>4, <2>3, <2>4, <2>5 DEF ListInv, Capacity
  <2>7. Replaced(k, program, out)
    BY <1>8, <2>1, <2>2, <2>3, <2>4 DEF Replaced
  <2> QED BY <1>3, <2>3, <2>6, <2>7 DEF k, program
<1> QED BY <1>2, <1>5, <1>7, <1>8

(* A Delete takes its key and no other.                                    *)
LEMMA DeleteList ==
    ASSUME TypeOK, ListInv, NEW p \in Procs, NEW k \in Keys, Delete(p, k)
    PROVE  /\ ListInv' /\ now' \in Nat /\ used' \in [Keys -> Nat]
           /\ Len(order') <= Len(order) /\ items' = items \ {k}
           /\ ElementsOf(order') = {e \in ElementsOf(order) : e.key # k}
<1>1. UNCHANGED <<now, used>> /\ Len(order) \in Nat
  BY ItemsCounted DEF Delete
<1>2. items = {e.key : e \in ElementsOf(order)}
  BY KeysAreOfElements DEF ListInv
<1>3. CASE k \notin items
  <2>1. order' = order /\ items' = items
    BY <1>3 DEF Delete
  <2>2. ElementsOf(order) = {e \in ElementsOf(order) : e.key # k}
    BY <1>2, <1>3
  <2> QED BY <1>1, <1>3, <2>1, <2>2 DEF ListInv, TypeOK, Capacity
<1>4. CASE k \in items
  <2>1. order' = RemoveAt(order, At(k)) /\ items' = items \ {k}
    BY <1>4 DEF Delete
  <2>2. At(k) \in DOMAIN order /\ order[At(k)].key = k
    BY <1>4, Found
  <2>3. /\ Tidy(order') /\ Len(order') = Len(order) - 1
        /\ ElementsOf(order') = {e \in ElementsOf(order) : e.key # k}
        /\ \A u \in [Keys -> Nat] : Recent(order, u) => Recent(order', u)
    BY <2>1, <2>2, RemovedIsTidy DEF ListInv
  <2>4. KeysOf(order') = items'
    <3>1. KeysOf(order') = {e.key : e \in ElementsOf(order')}
      BY KeysAreOfElements
    <3> QED BY <1>2, <2>1, <2>3, <3>1
  <2>5. Len(order') <= Len(order) /\ Len(order') <= Capacity
    BY <1>1, <2>3, CapacityIsPositive DEF ListInv
  <2>6. ListInv'
    BY <1>1, <2>3, <2>4, <2>5 DEF ListInv, TypeOK, Capacity
  <2> QED BY <1>1, <2>1, <2>3, <2>5, <2>6 DEF TypeOK
<1> QED BY <1>3, <1>4

-----------------------------------------------------------------------------
(* The invariant is inductive                                              *)

(* A register for a call that has just begun.                              *)
LEMMA IdleIsRegister == Idle \in Registers
BY DEF Idle, Registers, NoReport, Report

(* A goroutine's step moves pc and reg of no other.                        *)
LEMMA MovesOne ==
    ASSUME TypeOK, NEW p \in Procs, NEW from, NEW to \in Places, Goto(p, from, to)
    PROVE  /\ pc' \in [Procs -> Places] /\ pc[p] = from /\ pc'[p] = to
           /\ \A q \in Procs \ {p} : pc'[q] = pc[q]
BY DEF TypeOK, Goto

(* Counters that go up disturb no report under way.                        *)
LEMMA ReportKept ==
    ASSUME TypeOK, ReportInv, NEW p \in Procs,
           count' \in [Counters -> Nat],
           count'["hits"] >= count["hits"], count'["misses"] >= count["misses"],
           \A q \in Procs \ {p} : pc'[q] = pc[q] /\ reg'[q] = reg[q],
           \/ pc'[p] \in {"idle", "get", "set"}
           \/ pc'[p] = "gets" /\ reg'[p].report["entries"] <= Capacity
    PROVE  ReportInv'
<1> SUFFICES ASSUME NEW q \in Procs
             PROVE  LET r == reg'[q].report
                        pending == reg'[q].pending
                    IN  /\ pc'[q] \in Counters \cup {"reported"} => r["entries"] <= Capacity
                        /\ pc'[q] = "hits" =>
                               r["gets"] <= count'["hits"] + count'["misses"] + pending
                        /\ pc'[q] = "misses" =>
                               r["gets"] <= r["hits"] + count'["misses"] + pending
                        /\ pc'[q] \in {"sets", "evictions", "reported"} =>
                               r["gets"] <= r["hits"] + r["misses"] + pending
  BY DEF ReportInv, Capacity
<1>1. CASE q = p
  BY <1>1 DEF Counters
<1>2. CASE q # p
  <2> DEFINE r == reg[q].report
             pending == reg[q].pending
  <2>1. pc'[q] = pc[q] /\ reg'[q] = reg[q]
    BY <1>2
  <2>2. reg[q] \in Registers
    BY DEF TypeOK
  <2>3. r["gets"] \in Nat /\ r["hits"] \in Nat /\ r["misses"] \in Nat /\ pending \in Nat
    BY <2>2 DEF Registers, Report, Counters
  <2>4. /\ count["hits"] \in Nat /\ count["misses"] \in Nat
        /\ count'["hits"] \in Nat /\ count'["misses"] \in Nat
    BY DEF TypeOK, Counters
  <2>5. /\ pc[q] \in Counters \cup {"reported"} => r["entries"] <= Capacity
        /\ pc[q] = "hits" => r["gets"] <= count["hits"] + count["misses"] + pending
        /\ pc[q] = "misses" => r["gets"] <= r["hits"] + count["misses"] + pending
        /\ pc[q] \in {"sets", "evictions", "reported"} =>
               r["gets"] <= r["hits"] + r["misses"] + pending
    BY DEF ReportInv
  <2> HIDE DEF r, pending
  <2>6. /\ pc[q] \in Counters \cup {"reported"} => r["entries"] <= Capacity
        /\ pc[q] = "hits" => r["gets"] <= count'["hits"] + count'["misses"] + pending
        /\ pc[q] = "misses" => r["gets"] <= r["hits"] + count'["misses"] + pending
        /\ pc[q] \in {"sets", "evictions", "reported"} =>
               r["gets"] <= r["hits"] + r["misses"] + pending
    BY <2>3, <2>4, <2>5
  <2> QED BY <2>1, <2>6 DEF r, pending
<1> QED BY <1>1, <1>2

(* Each Load adds one counter to the report.                               *)
LEMMA LoadReport ==
    ASSUME TypeOK, ListInv, ReportInv, CountInv, NEW p \in Procs, Load(p)
    PROVE  /\ pc' \in [Procs -> Places] /\ reg' \in [Procs -> Registers]
           /\ pc[p] \in Counters /\ pc'[p] \in Counters \cup {"reported"}
           /\ ReportInv'
<1> PICK c \in Counters :
            /\ Goto(p, c, After(c))
            /\ reg' = [reg EXCEPT ![p].report[c] = count[c],
                                  ![p].pending = IF c = "gets" THEN InFlight ELSE @]
  BY DEF Load
<1>0. After(c) \in Counters \cup {"reported"} /\ After(c) \in Places
  BY LoadsInOrder DEF Counters, Places
<1>1. /\ pc' \in [Procs -> Places] /\ pc[p] = c /\ pc'[p] = After(c)
      /\ \A q \in Procs \ {p} : pc'[q] = pc[q]
  BY <1>0, MovesOne
<1> DEFINE r == reg[p].report
           pending == reg[p].pending
           pendingN == IF c = "gets" THEN InFlight ELSE pending
           n == [reg[p] EXCEPT !.report = [r EXCEPT ![c] = count[c]], !.pending = pendingN]
<1>2. /\ reg[p] \in Registers /\ r \in [Counters \cup {"entries"} -> Nat] /\ pending \in Nat
      /\ count \in [Counters -> Nat]
  BY DEF TypeOK, Registers, Report
<1>3. InFlight \in Nat /\ InFlight = Cardinality(Waiting("get"))
  BY FS_CardinalityType DEF CountInv, InFlight, Waiting
<1>4. reg' = [reg EXCEPT ![p] = n]
  OBVIOUS
<1>5. /\ n \in Registers /\ n.pending = pendingN
      /\ n.report = [r EXCEPT ![c] = count[c]]
  <2>1. [r EXCEPT ![c] = count[c]] \in Report /\ pendingN \in Nat
    BY <1>2, <1>3 DEF Report
  <2> QED BY <1>2, <2>1 DEF Registers
<1> HIDE DEF n, pendingN
<1>6. /\ reg' \in [Procs -> Registers] /\ reg'[p] = n
      /\ \A q \in Procs \ {p} : reg'[q] = reg[q]
  <2>1. reg \in [Procs -> Registers] /\ n \in Registers
    BY <1>5 DEF TypeOK
  <2> QED BY <1>4, <2>1
<1>7. UNCHANGED count
  BY DEF Load
<1>8. ReportInv'
  <2> SUFFICES ASSUME NEW q \in Procs
               PROVE  LET s == reg'[q].report
                          wait == reg'[q].pending
                      IN  /\ pc'[q] \in Counters \cup {"reported"} => s["entries"] <= Capacity
                          /\ pc'[q] = "hits" =>
                                 s["gets"] <= count["hits"] + count["misses"] + wait
                          /\ pc'[q] = "misses" =>
                                 s["gets"] <= s["hits"] + count["misses"] + wait
                          /\ pc'[q] \in {"sets", "evictions", "reported"} =>
                                 s["gets"] <= s["hits"] + s["misses"] + wait
    BY <1>7 DEF ReportInv, Capacity
  <2>1. CASE q # p
    BY <1>1, <1>6, <2>1 DEF ReportInv
  <2>2. CASE q = p
    <3> DEFINE s == n.report
    <3>1. reg'[q].report = s /\ reg'[q].pending = pendingN /\ pc'[q] = After(c)
      BY <1>1, <1>5, <1>6, <2>2
    <3>2. \A d \in Counters \cup {"entries"} : s[d] = IF d = c THEN count[c] ELSE r[d]
      BY <1>2, <1>5
    <3>3. s["entries"] <= Capacity
      <4>1. "entries" # c /\ r["entries"] <= Capacity
        BY <1>1 DEF Counters, ReportInv
      <4> QED BY <3>2, <4>1
    <3>4. /\ pc[p] = "hits" => r["gets"] <= count["hits"] + count["misses"] + pending
          /\ pc[p] = "misses" => r["gets"] <= r["hits"] + count["misses"] + pending
          /\ pc[p] \in {"sets", "evictions"} => r["gets"] <= r["hits"] + r["misses"] + pending
      BY DEF ReportInv
    <3>5. c # "gets" => pendingN = pending
      BY DEF pendingN
    <3>6. /\ "gets" \in Counters /\ "hits" \in Counters /\ "misses" \in Counters
          /\ "sets" \in Counters /\ "evictions" \in Counters
          /\ c \in {"gets", "hits", "misses", "sets", "evictions"}
      BY DEF Counters
    <3> HIDE DEF r, pending, s
    <3>7. CASE c = "gets"
      <4>1. After(c) = "hits"
        BY <3>7, LoadsInOrder
      <4>2. s["gets"] = count["gets"] /\ pendingN = InFlight
        BY <3>2, <3>6, <3>7 DEF pendingN
      <4>3. count["gets"] = count["hits"] + count["misses"] + InFlight
        BY <1>3 DEF CountInv
      <4>4. s["gets"] <= count["hits"] + count["misses"] + pendingN
        BY <1>2, <1>3, <3>6, <4>2, <4>3
      <4> QED BY <3>1, <3>3, <4>1, <4>4
    <3>8. CASE c = "hits"
      <4>1. After(c) = "misses"
        BY <3>8, LoadsInOrder
      <4>2. s["gets"] = r["gets"] /\ s["hits"] = count["hits"]
        BY <3>2, <3>6, <3>8
      <4> QED BY <1>1, <3>1, <3>3, <3>4, <3>5, <3>8, <4>1, <4>2
    <3>9. CASE c = "misses"
      <4>1. After(c) = "sets"
        BY <3>9, LoadsInOrder
      <4>2. s["gets"] = r["gets"] /\ s["hits"] = r["hits"] /\ s["misses"] = count["misses"]
        BY <3>2, <3>6, <3>9
      <4> QED BY <1>1, <3>1, <3>3, <3>4, <3>5, <3>9, <4>1, <4>2
    <3>10. CASE c \in {"sets", "evictions"}
      <4>1. After(c) \in {"evictions", "reported"}
        BY <3>10, LoadsInOrder
      <4>2. s["gets"] = r["gets"] /\ s["hits"] = r["hits"] /\ s["misses"] = r["misses"]
        BY <3>2, <3>6, <3>10
      <4> QED BY <1>1, <3>1, <3>3, <3>4, <3>5, <3>10, <4>1, <4>2
    <3> QED BY <3>6, <3>7, <3>8, <3>9, <3>10
  <2> QED BY <2>1, <2>2
<1> QED BY <1>0, <1>1, <1>6, <1>8

(* What a step does to the numbers of goroutines that wait for the mutex.  *)
LEMMA WaitingCounts ==
    ASSUME TypeOK, CountInv, NEW p \in Procs, NEW from, NEW to, Goto(p, from, to)
    PROVE  /\ IsFiniteSet(Waiting("get")') /\ IsFiniteSet(Waiting("set")')
           /\ Cardinality(Waiting("get")) \in Nat /\ Cardinality(Waiting("get")') \in Nat
           /\ Cardinality(Waiting("set")) \in Nat /\ Cardinality(Waiting("set")') \in Nat
           /\ Cardinality(Waiting("get")') + (IF from = "get" THEN 1 ELSE 0)
                  = Cardinality(Waiting("get")) + (IF to = "get" THEN 1 ELSE 0)
           /\ Cardinality(Waiting("set")') + (IF from = "set" THEN 1 ELSE 0)
                  = Cardinality(Waiting("set")) + (IF to = "set" THEN 1 ELSE 0)
BY PlaceCounts DEF CountInv

(* The counters move with the goroutines that wait.                        *)
LEMMA CountKept ==
    ASSUME TypeOK, CountInv, NEW p \in Procs, NEW from, NEW to, Goto(p, from, to),
           count' \in [Counters -> Nat], Len(order) \in Nat, Len(order') \in Nat,
           NEW a \in Nat, NEW b \in Nat, NEW c \in Nat, NEW d \in Nat,
           from = "get" => a = 1, from # "get" => a = 0,
           to = "get" => b = 1, to # "get" => b = 0,
           from = "set" => c = 1, from # "set" => c = 0,
           to = "set" => d = 1, to # "set" => d = 0,
           count'["gets"] + a + count["hits"] + count["misses"]
               = count["gets"] + b + count'["hits"] + count'["misses"],
           Len(order') + count'["evictions"] + d + count["sets"]
               <= Len(order) + count["evictions"] + c + count'["sets"]
    PROVE  CountInv'
<1> DEFINE g == Cardinality(Waiting("get"))
           gN == Cardinality(Waiting("get")')
           s == Cardinality(Waiting("set"))
           sN == Cardinality(Waiting("set")')
<1>1. /\ IsFiniteSet(Waiting("get")') /\ IsFiniteSet(Waiting("set")')
      /\ g \in Nat /\ gN \in Nat /\ s \in Nat /\ sN \in Nat
      /\ gN + a = g + b /\ sN + c = s + d
  BY WaitingCounts
<1>2. /\ count["gets"] = count["hits"] + count["misses"] + g
      /\ Len(order) + count["evictions"] + s <= count["sets"]
  BY DEF CountInv
<1> HIDE DEF g, gN, s, sN
<1>3. /\ count["gets"] \in Nat /\ count["hits"] \in Nat /\ count["misses"] \in Nat
      /\ count["sets"] \in Nat /\ count["evictions"] \in Nat
      /\ count'["gets"] \in Nat /\ count'["hits"] \in Nat /\ count'["misses"] \in Nat
      /\ count'["sets"] \in Nat /\ count'["evictions"] \in Nat
  BY DEF TypeOK, Counters
<1> DEFINE cg == count["gets"]
           ch == count["hits"]
           cm == count["misses"]
           cs == count["sets"]
           ce == count["evictions"]
           ng == count'["gets"]
           nh == count'["hits"]
           nm == count'["misses"]
           ns == count'["sets"]
           ne == count'["evictions"]
           l == Len(order)
           ln == Len(order')
<1>4. /\ cg \in Nat /\ ch \in Nat /\ cm \in Nat /\ cs \in Nat /\ ce \in Nat
      /\ ng \in Nat /\ nh \in Nat /\ nm \in Nat /\ ns \in Nat /\ ne \in Nat
      /\ l \in Nat /\ ln \in Nat
      /\ ng + a + ch + cm = cg + b + nh + nm /\ ln + ne + d + cs <= l + ce + c + ns
      /\ cg = ch + cm + g /\ l + ce + s <= cs
  BY <1>2, <1>3
<1> HIDE DEF cg, ch, cm, cs, ce, ng, nh, nm, ns, ne, l, ln
<1>5. ng = nh + nm + gN
  BY <1>1, <1>4
<1>6. ln + ne + sN <= ns
  BY <1>1, <1>4
<1> QED BY <1>1, <1>5, <1>6 DEF CountInv, gN, sN, ng, nh, nm, ns, ne, ln

(* A call before its mutex has its key, and a Set its program.             *)
LEMMA CallsKept ==
    ASSUME CallsInv, NEW p \in Procs,
           \A q \in Procs \ {p} : pc'[q] = pc[q] /\ reg'[q] = reg[q],
           pc'[p] \in {"get", "set"} => reg'[p].key \in Keys,
           pc'[p] = "set" => reg'[p].program \in Programs
    PROVE  CallsInv'
BY DEF CallsInv

(* All counters are numbers.                                               *)
LEMMA CountersAreNumbers ==
    ASSUME TypeOK
    PROVE  /\ count["gets"] \in Nat /\ count["hits"] \in Nat /\ count["misses"] \in Nat
           /\ count["sets"] \in Nat /\ count["evictions"] \in Nat
BY DEF TypeOK, Counters

(* A Get counts itself before its mutex.                                   *)
LEMMA GetKeeps ==
    ASSUME Inv, NEW p \in Procs, NEW k \in Keys, Get(p, k)
    PROVE  Inv'
<1>1. /\ Goto(p, "idle", "get") /\ Count({"gets"})
      /\ reg' = [reg EXCEPT ![p] = [Idle EXCEPT !.key = k]]
      /\ UNCHANGED <<items, order, now, used>>
  BY DEF Get, Begin
<1>2. TypeOK /\ ListInv /\ CallsInv /\ CountInv /\ ReportInv
  BY DEF Inv
<1>3. /\ pc' \in [Procs -> Places] /\ pc[p] = "idle" /\ pc'[p] = "get"
      /\ \A q \in Procs \ {p} : pc'[q] = pc[q]
  BY <1>1, <1>2, MovesOne DEF Places
<1>4. /\ reg' \in [Procs -> Registers] /\ reg'[p].key = k
      /\ \A q \in Procs \ {p} : reg'[q] = reg[q]
  BY <1>1, <1>2, IdleIsRegister DEF TypeOK, Registers
<1>5. /\ count' \in [Counters -> Nat] /\ count'["gets"] = count["gets"] + 1
      /\ count'["hits"] = count["hits"] /\ count'["misses"] = count["misses"]
      /\ count'["sets"] = count["sets"] /\ count'["evictions"] = count["evictions"]
  BY <1>1, <1>2, CountAdds
<1>6. TypeOK'
  BY <1>1, <1>2, <1>3, <1>4, <1>5 DEF TypeOK
<1>7. ListInv'
  BY <1>1, <1>2 DEF ListInv, Capacity
<1>8. CallsInv'
  BY <1>2, <1>3, <1>4, CallsKept
<1>9. CountInv'
  <2>1. Len(order) \in Nat /\ Len(order') \in Nat
    BY <1>1, <1>2, ItemsCounted
  <2>2. count'["gets"] + 0 + count["hits"] + count["misses"]
            = count["gets"] + 1 + count'["hits"] + count'["misses"]
    BY <1>1, <1>2, <1>5, CountersAreNumbers
  <2>3. Len(order') + count'["evictions"] + 0 + count["sets"]
            <= Len(order) + count["evictions"] + 0 + count'["sets"]
    BY <1>1, <1>2, <1>5, <2>1, CountersAreNumbers
  <2> QED BY <1>1, <1>2, <1>5, <2>1, <2>2, <2>3, CountKept
<1>10. ReportInv'
  BY <1>2, <1>3, <1>4, <1>5, ReportKept, CountersAreNumbers
<1> QED BY <1>6, <1>7, <1>8, <1>9, <1>10 DEF Inv

(* Under the mutex it counts a hit or a miss.                              *)
LEMMA GetLockedKeeps ==
    ASSUME Inv, NEW p \in Procs, GetLocked(p)
    PROVE  Inv'
<1>1. /\ Goto(p, "get", "idle") /\ UNCHANGED reg
      /\ Count({"hits"}) \/ Count({"misses"})
  BY DEF GetLocked
<1>2. TypeOK /\ ListInv /\ CallsInv /\ CountInv /\ ReportInv
  BY DEF Inv
<1>3. /\ pc' \in [Procs -> Places] /\ pc[p] = "get" /\ pc'[p] = "idle"
      /\ \A q \in Procs \ {p} : pc'[q] = pc[q]
  BY <1>1, <1>2, MovesOne DEF Places
<1>4. /\ count' \in [Counters -> Nat] /\ count'["gets"] = count["gets"]
      /\ \/ count'["hits"] = count["hits"] + 1 /\ count'["misses"] = count["misses"]
         \/ count'["hits"] = count["hits"] /\ count'["misses"] = count["misses"] + 1
      /\ count'["sets"] = count["sets"] /\ count'["evictions"] = count["evictions"]
  BY <1>1, <1>2, CountAdds
<1>5. /\ ListInv' /\ now' \in Nat /\ used' \in [Keys -> Nat]
      /\ Len(order') = Len(order)
  BY <1>2, GetLockedList
<1>6. TypeOK'
  BY <1>1, <1>2, <1>3, <1>4, <1>5 DEF TypeOK
<1>7. CallsInv'
  BY <1>1, <1>2, <1>3, CallsKept
<1>8. CountInv'
  <2>1. Len(order) \in Nat /\ Len(order') \in Nat
    BY <1>2, <1>5, ItemsCounted
  <2>2. count'["gets"] + 1 + count["hits"] + count["misses"]
            = count["gets"] + 0 + count'["hits"] + count'["misses"]
    <3>1. /\ count["gets"] \in Nat /\ count["hits"] \in Nat /\ count["misses"] \in Nat
          /\ count'["gets"] \in Nat /\ count'["hits"] \in Nat /\ count'["misses"] \in Nat
      BY <1>2, <1>4, CountersAreNumbers DEF Counters
    <3>2. CASE count'["hits"] = count["hits"] + 1 /\ count'["misses"] = count["misses"]
      BY <1>4, <3>1, <3>2
    <3>3. CASE count'["hits"] = count["hits"] /\ count'["misses"] = count["misses"] + 1
      BY <1>4, <3>1, <3>3
    <3> QED BY <1>4, <3>2, <3>3
  <2>3. Len(order') + count'["evictions"] + 0 + count["sets"]
            <= Len(order) + count["evictions"] + 0 + count'["sets"]
    BY <1>1, <1>2, <1>4, <1>5, <2>1, CountersAreNumbers
  <2>4. count' \in [Counters -> Nat] /\ Goto(p, "get", "idle") /\ TypeOK /\ CountInv
    BY <1>1, <1>2, <1>4
  <2> QED BY <2>1, <2>2, <2>3, <2>4, CountKept, SMTT(30)
<1>9. ReportInv'
  <2>1. count'["hits"] >= count["hits"] /\ count'["misses"] >= count["misses"]
    BY <1>2, <1>4, CountersAreNumbers
  <2> QED BY <1>1, <1>2, <1>3, <1>4, <2>1, ReportKept
<1> QED BY <1>5, <1>6, <1>7, <1>8, <1>9 DEF Inv

(* A Set counts itself before its mutex.                                   *)
LEMMA SetKeeps ==
    ASSUME Inv, NEW p \in Procs, NEW k \in Keys, NEW program \in Programs, Set(p, k, program)
    PROVE  Inv'
<1>1. /\ Goto(p, "idle", "set") /\ Count({"sets"})
      /\ reg' = [reg EXCEPT ![p] = [Idle EXCEPT !.key = k, !.program = program]]
      /\ UNCHANGED <<items, order, now, used>>
  BY DEF Set, Begin
<1>2. TypeOK /\ ListInv /\ CallsInv /\ CountInv /\ ReportInv
  BY DEF Inv
<1>3. /\ pc' \in [Procs -> Places] /\ pc[p] = "idle" /\ pc'[p] = "set"
      /\ \A q \in Procs \ {p} : pc'[q] = pc[q]
  BY <1>1, <1>2, MovesOne DEF Places
<1>4. /\ reg' \in [Procs -> Registers] /\ reg'[p].key = k /\ reg'[p].program = program
      /\ \A q \in Procs \ {p} : reg'[q] = reg[q]
  BY <1>1, <1>2, IdleIsRegister DEF TypeOK, Registers
<1>5. /\ count' \in [Counters -> Nat] /\ count'["gets"] = count["gets"]
      /\ count'["hits"] = count["hits"] /\ count'["misses"] = count["misses"]
      /\ count'["sets"] = count["sets"] + 1 /\ count'["evictions"] = count["evictions"]
  BY <1>1, <1>2, CountAdds
<1>6. TypeOK'
  BY <1>1, <1>2, <1>3, <1>4, <1>5 DEF TypeOK
<1>7. ListInv'
  BY <1>1, <1>2 DEF ListInv, Capacity
<1>8. CallsInv'
  BY <1>2, <1>3, <1>4, CallsKept
<1>9. CountInv'
  <2>1. Len(order) \in Nat /\ Len(order') \in Nat
    BY <1>1, <1>2, ItemsCounted
  <2>2. count'["gets"] + 0 + count["hits"] + count["misses"]
            = count["gets"] + 0 + count'["hits"] + count'["misses"]
    BY <1>1, <1>2, <1>5, CountersAreNumbers
  <2>3. Len(order') + count'["evictions"] + 1 + count["sets"]
            <= Len(order) + count["evictions"] + 0 + count'["sets"]
    BY <1>1, <1>2, <1>5, <2>1, CountersAreNumbers
  <2> QED BY <1>1, <1>2, <1>5, <2>1, <2>2, <2>3, CountKept
<1>10. ReportInv'
  BY <1>2, <1>3, <1>4, <1>5, ReportKept, CountersAreNumbers
<1> QED BY <1>6, <1>7, <1>8, <1>9, <1>10 DEF Inv

(* Under the mutex it adds at most one element or evicts one.              *)
LEMMA SetLockedKeeps ==
    ASSUME Inv, NEW p \in Procs, SetLocked(p)
    PROVE  Inv'
<1>1. Goto(p, "set", "idle") /\ UNCHANGED reg
  BY DEF SetLocked
<1>2. TypeOK /\ ListInv /\ CallsInv /\ CountInv /\ ReportInv
  BY DEF Inv
<1>3. /\ pc' \in [Procs -> Places] /\ pc[p] = "set" /\ pc'[p] = "idle"
      /\ \A q \in Procs \ {p} : pc'[q] = pc[q]
  BY <1>1, <1>2, MovesOne DEF Places
<1>4. /\ ListInv' /\ now' \in Nat /\ used' \in [Keys -> Nat]
      /\ \/ UNCHANGED count /\ Len(order') <= Len(order) + 1
         \/ Count({"evictions"}) /\ Len(order') = Len(order)
  BY <1>2, SetLockedList DEF Stored, Replaced
<1>5. /\ count' \in [Counters -> Nat] /\ count'["gets"] = count["gets"]
      /\ count'["hits"] = count["hits"] /\ count'["misses"] = count["misses"]
      /\ count'["sets"] = count["sets"]
      /\ Len(order') + count'["evictions"] <= Len(order) + count["evictions"] + 1
  <2>1. Len(order) \in Nat /\ Len(order') \in Nat
    BY <1>2, <1>4, ItemsCounted, LenProperties DEF ListInv, Tidy
  <2>2. CASE UNCHANGED count /\ Len(order') <= Len(order) + 1
    BY <1>2, <2>1, <2>2, CountersAreNumbers DEF TypeOK
  <2>3. CASE Count({"evictions"}) /\ Len(order') = Len(order)
    <3>1. /\ count' \in [Counters -> Nat] /\ count'["evictions"] = count["evictions"] + 1
          /\ count'["gets"] = count["gets"] /\ count'["hits"] = count["hits"]
          /\ count'["misses"] = count["misses"] /\ count'["sets"] = count["sets"]
      BY <1>2, <2>3, CountAdds
    <3> QED BY <1>2, <2>1, <2>3, <3>1, CountersAreNumbers
  <2> QED BY <1>4, <2>2, <2>3
<1>6. TypeOK'
  BY <1>1, <1>2, <1>3, <1>4, <1>5 DEF TypeOK
<1>7. CallsInv'
  BY <1>1, <1>2, <1>3, CallsKept
<1>8. CountInv'
  <2>1. Len(order) \in Nat /\ Len(order') \in Nat
    BY <1>2, <1>4, ItemsCounted, LenProperties DEF ListInv, Tidy
  <2>2. count'["gets"] + 0 + count["hits"] + count["misses"]
            = count["gets"] + 0 + count'["hits"] + count'["misses"]
    BY <1>1, <1>2, <1>5, CountersAreNumbers
  <2>0. count'["evictions"] \in Nat
    BY <1>6 DEF TypeOK, Counters
  <2>3. Len(order') + count'["evictions"] + 0 + count["sets"]
            <= Len(order) + count["evictions"] + 1 + count'["sets"]
    BY <1>1, <1>2, <1>5, <2>0, <2>1, CountersAreNumbers
  <2> QED BY <1>1, <1>2, <1>5, <2>1, <2>2, <2>3, CountKept
<1>9. ReportInv'
  BY <1>1, <1>2, <1>3, <1>5, ReportKept, CountersAreNumbers, SMTT(30)
<1> QED BY <1>4, <1>6, <1>7, <1>8, <1>9 DEF Inv

(* A Delete is counted nowhere.                                            *)
LEMMA DeleteKeeps ==
    ASSUME Inv, NEW p \in Procs, NEW k \in Keys, Delete(p, k)
    PROVE  Inv'
<1>1. Goto(p, "idle", "idle") /\ UNCHANGED <<count, reg>>
  BY DEF Delete, Begin
<1>2. TypeOK /\ ListInv /\ CallsInv /\ CountInv /\ ReportInv
  BY DEF Inv
<1>3. /\ pc' \in [Procs -> Places] /\ pc[p] = "idle" /\ pc'[p] = "idle"
      /\ \A q \in Procs \ {p} : pc'[q] = pc[q]
  BY <1>1, <1>2, MovesOne DEF Places
<1>4. /\ ListInv' /\ now' \in Nat /\ used' \in [Keys -> Nat]
      /\ Len(order') <= Len(order)
  BY <1>2, DeleteList
<1>5. Len(order) \in Nat /\ Len(order') \in Nat
  BY <1>2, <1>4, ItemsCounted, LenProperties DEF ListInv, Tidy
<1>6. TypeOK'
  BY <1>1, <1>2, <1>3, <1>4 DEF TypeOK
<1>7. CallsInv'
  BY <1>1, <1>2, <1>3, CallsKept
<1>8. CountInv'
  <2>1. count' \in [Counters -> Nat]
    BY <1>6 DEF TypeOK
  <2>2. Len(order') + count'["evictions"] + 0 + count["sets"]
            <= Len(order) + count["evictions"] + 0 + count'["sets"]
    BY <1>1, <1>2, <1>4, <1>5, CountersAreNumbers
  <2>3. count'["gets"] + 0 + count["hits"] + count["misses"]
            = count["gets"] + 0 + count'["hits"] + count'["misses"]
    BY <1>1, <1>2, CountersAreNumbers
  <2> QED BY <1>1, <1>2, <1>5, <2>1, <2>2, <2>3, CountKept
<1>9. ReportInv'
  <2>1. count'["hits"] >= count["hits"] /\ count'["misses"] >= count["misses"]
        /\ count' \in [Counters -> Nat]
    BY <1>1, <1>2, CountersAreNumbers DEF TypeOK
  <2> QED BY <1>1, <1>2, <1>3, <2>1, ReportKept
<1> QED BY <1>4, <1>6, <1>7, <1>8, <1>9 DEF Inv

(* Steps that move no counter and no element, and no goroutine to or from  *)
(* the mutex.                                                              *)
LEMMA ReadersKeep ==
    ASSUME Inv, NEW p \in Procs, NEW from \in Places, NEW to \in Places, Goto(p, from, to),
           from \notin {"get", "set"}, to \notin {"get", "set"},
           UNCHANGED <<items, order, count, now, used>>,
           reg' \in [Procs -> Registers],
           \A q \in Procs \ {p} : reg'[q] = reg[q]
    PROVE  TypeOK' /\ ListInv' /\ CallsInv' /\ CountInv'
<1>1. TypeOK /\ ListInv /\ CallsInv /\ CountInv
  BY DEF Inv
<1>2. /\ pc' \in [Procs -> Places] /\ pc[p] = from /\ pc'[p] = to
      /\ \A q \in Procs \ {p} : pc'[q] = pc[q]
  BY <1>1, MovesOne
<1>3. TypeOK' /\ ListInv'
  BY <1>1, <1>2 DEF TypeOK, ListInv, Capacity
<1>4. CallsInv'
  BY <1>1, <1>2, CallsKept
<1>5. Waiting("get")' = Waiting("get") /\ Waiting("set")' = Waiting("set")
  BY <1>2 DEF Waiting
<1>6. CountInv'
  BY <1>1, <1>5 DEF CountInv
<1> QED BY <1>3, <1>4, <1>6

(* Stats reads the number of entries under the mutex.                      *)
LEMMA StatsKeeps ==
    ASSUME Inv, NEW p \in Procs, Stats(p)
    PROVE  Inv'
<1>1. /\ Goto(p, "idle", "gets") /\ UNCHANGED <<items, order, count, now, used>>
      /\ reg' = [reg EXCEPT ![p] = [Idle EXCEPT !.report["entries"] = Cardinality(items)]]
  BY DEF Stats, Begin, LoadOrder
<1>2. TypeOK /\ ListInv /\ CallsInv /\ CountInv /\ ReportInv
  BY DEF Inv
<1>3. Cardinality(items) \in Nat /\ Cardinality(items) <= Capacity
  BY <1>2, ItemsCounted DEF ListInv
<1> DEFINE n == [Idle EXCEPT !.report = [NoReport EXCEPT !["entries"] = Cardinality(items)]]
<1>4. /\ n \in Registers /\ n.report = [NoReport EXCEPT !["entries"] = Cardinality(items)]
      /\ reg' = [reg EXCEPT ![p] = n]
  <2>1. [NoReport EXCEPT !["entries"] = Cardinality(items)] \in Report
    BY <1>3 DEF NoReport, Report
  <2>2. reg' = [reg EXCEPT ![p] = n]
    BY <1>1 DEF Idle
  <2>3. n \in Registers /\ n.report = [NoReport EXCEPT !["entries"] = Cardinality(items)]
    BY <2>1, IdleIsRegister DEF Registers, Idle
  <2> QED BY <2>2, <2>3
<1>5. n.report["entries"] = Cardinality(items)
  BY <1>4 DEF NoReport
<1> HIDE DEF n
<1>6. /\ reg' \in [Procs -> Registers] /\ reg'[p] = n
      /\ \A q \in Procs \ {p} : reg'[q] = reg[q]
  BY <1>2, <1>4 DEF TypeOK
<1>7. TypeOK' /\ ListInv' /\ CallsInv' /\ CountInv'
  BY <1>1, <1>6, ReadersKeep DEF Places, Counters
<1>8. ReportInv'
  <2>1. pc'[p] = "gets" /\ \A q \in Procs \ {p} : pc'[q] = pc[q]
    BY <1>1, <1>2, MovesOne DEF Places, Counters
  <2>2. reg'[p].report["entries"] <= Capacity
    BY <1>3, <1>5, <1>6
  <2>3. /\ count' \in [Counters -> Nat]
        /\ count'["hits"] >= count["hits"] /\ count'["misses"] >= count["misses"]
    BY <1>1, <1>2, CountersAreNumbers DEF TypeOK
  <2> QED BY <1>2, <1>6, <2>1, <2>2, <2>3, ReportKept
<1> QED BY <1>7, <1>8 DEF Inv

(* It reads the counters with no mutex.                                    *)
LEMMA LoadKeeps ==
    ASSUME Inv, NEW p \in Procs, Load(p)
    PROVE  Inv'
<1>1. TypeOK /\ ListInv /\ CallsInv /\ CountInv /\ ReportInv
  BY DEF Inv
<1>2. /\ reg' \in [Procs -> Registers] /\ ReportInv'
  BY <1>1, LoadReport
<1>3. PICK c \in Counters :
          /\ Goto(p, c, After(c))
          /\ reg' = [reg EXCEPT ![p].report[c] = count[c],
                                ![p].pending = IF c = "gets" THEN InFlight ELSE @]
  BY DEF Load
<1>4. \A q \in Procs \ {p} : reg'[q] = reg[q]
  BY <1>1, <1>3 DEF TypeOK
<1>5. UNCHANGED <<items, order, count, now, used>>
  BY DEF Load
<1>6. c \in Places /\ After(c) \in Places /\ c \notin {"get", "set"} /\ After(c) \notin {"get", "set"}
  BY LoadsInOrder DEF Places, Counters
<1>7. TypeOK' /\ ListInv' /\ CallsInv' /\ CountInv'
  BY <1>2, <1>3, <1>4, <1>5, <1>6, ReadersKeep
<1> QED BY <1>2, <1>7 DEF Inv

(* A report that was returned leaves nothing behind.                       *)
LEMMA ReportedKeeps ==
    ASSUME Inv, NEW p \in Procs, Reported(p)
    PROVE  Inv'
<1>1. /\ Goto(p, "reported", "idle") /\ UNCHANGED <<items, order, count, now, used>>
      /\ reg' = [reg EXCEPT ![p] = Idle]
  BY DEF Reported
<1>2. TypeOK /\ ListInv /\ CallsInv /\ CountInv /\ ReportInv
  BY DEF Inv
<1>3. /\ reg' \in [Procs -> Registers]
      /\ \A q \in Procs \ {p} : reg'[q] = reg[q]
  BY <1>1, <1>2, IdleIsRegister DEF TypeOK
<1>4. TypeOK' /\ ListInv' /\ CallsInv' /\ CountInv'
  BY <1>1, <1>3, ReadersKeep DEF Places
<1>5. ReportInv'
  <2>1. pc'[p] = "idle" /\ \A q \in Procs \ {p} : pc'[q] = pc[q]
    BY <1>1, <1>2, MovesOne DEF Places
  <2>2. /\ count' \in [Counters -> Nat]
        /\ count'["hits"] >= count["hits"] /\ count'["misses"] >= count["misses"]
    BY <1>1, <1>2, CountersAreNumbers DEF TypeOK
  <2> QED BY <1>2, <1>3, <2>1, <2>2, ReportKept
<1> QED BY <1>4, <1>5 DEF Inv

(* A step with nothing changed.                                            *)
LEMMA StutterKeeps ==
    ASSUME Inv, UNCHANGED vars
    PROVE  Inv'
<1>1. Waiting("get")' = Waiting("get") /\ Waiting("set")' = Waiting("set")
  BY DEF Waiting, vars
<1>2. TypeOK' /\ ListInv' /\ CallsInv'
  BY DEF Inv, TypeOK, ListInv, CallsInv, Capacity, vars
<1>3. CountInv'
  BY <1>1 DEF Inv, CountInv, vars
<1>4. ReportInv'
  BY DEF Inv, ReportInv, Capacity, vars
<1> QED BY <1>2, <1>3, <1>4 DEF Inv

(* The cache is empty at first.                                            *)
LEMMA InitInv == Init => Inv
<1> SUFFICES ASSUME Init PROVE Inv
  OBVIOUS
<1>1. TypeOK
  BY IdleIsRegister DEF Init, TypeOK, Places
<1>2. ListInv
  <2>1. Tidy(<<>>) /\ KeysOf(<<>>) = {} /\ Len(<<>>) = 0 /\ Recent(<<>>, used)
    BY DEF Tidy, KeysOf, Recent
  <2> QED BY <2>1, CapacityIsPositive DEF Init, ListInv
<1>3. CallsInv /\ ReportInv
  BY DEF Init, CallsInv, ReportInv, Counters
<1>4. CountInv
  <2>1. Waiting("get") = {} /\ Waiting("set") = {}
    BY DEF Init, Waiting
  <2>2. IsFiniteSet({}) /\ Cardinality({}) = 0
    BY FS_EmptySet
  <2>3. /\ count["gets"] = 0 /\ count["hits"] = 0 /\ count["misses"] = 0
        /\ count["sets"] = 0 /\ count["evictions"] = 0 /\ Len(order) = 0
    BY DEF Init, Counters
  <2>4. /\ IsFiniteSet(Waiting("get")) /\ IsFiniteSet(Waiting("set"))
        /\ Cardinality(Waiting("get")) = 0 /\ Cardinality(Waiting("set")) = 0
    BY <2>1, <2>2
  <2> QED BY <2>3, <2>4 DEF CountInv
<1> QED BY <1>1, <1>2, <1>3, <1>4 DEF Inv

(* The invariant holds in every reachable state.                           *)
THEOREM InvHolds == Spec => []Inv
<1>1. Inv /\ [Next]_vars => Inv'
  <2> SUFFICES ASSUME Inv, [Next]_vars PROVE Inv'
    OBVIOUS
  <2>1. ASSUME NEW p \in Procs, Step(p) PROVE Inv'
    BY <2>1, GetLockedKeeps, SetLockedKeeps, LoadKeeps, ReportedKeeps DEF Step
  <2>2. ASSUME NEW p \in Procs, Call(p) PROVE Inv'
    BY <2>2, StatsKeeps, GetKeeps, DeleteKeeps, SetKeeps DEF Call
  <2>3. CASE UNCHANGED vars
    BY <2>3, StutterKeeps
  <2> QED BY <2>1, <2>2, <2>3 DEF Next
<1> QED BY <1>1, InitInv, PTL DEF Spec

-----------------------------------------------------------------------------
(* What follows                                                            *)

(* The map and the list of LRUProgramCache have the same keys, never more  *)
(* than the capacity, and the list is in the order of use: whatever        *)
(* goroutines Get, Set and Delete, evictOldest takes the right element.    *)
THEOREM ListIsSoundHolds == Spec => []ListIsSound
<1>1. Inv => ListIsSound
  <2> SUFFICES ASSUME Inv PROVE ListIsSound
    OBVIOUS
  <2>1. ItemsMatchOrder
    BY DEF Inv, ListInv, Tidy, KeysOf, Capacity, ItemsMatchOrder
  <2>2. OrderIsRecency
    BY DEF Inv, ListInv, Recent, OrderIsRecency
  <2> QED BY <2>1, <2>2 DEF ListIsSound
<1> QED BY <1>1, InvHolds, PTL

(* The counters account for every call, and a report of Stats shows no Get *)
(* without its outcome but those then under way, for any number of         *)
(* goroutines between the reads of the counters.                           *)
THEOREM ReportAccountsHolds == Spec => []ReportAccounts
<1>1. Inv => ReportAccounts
  <2> SUFFICES ASSUME Inv PROVE ReportAccounts
    OBVIOUS
  <2>1. InFlight = Cardinality(Waiting("get"))
    BY DEF InFlight, Waiting
  <2>2. Len(order) + count["evictions"] <= count["sets"]
    <3>1. Cardinality(Waiting("set")) \in Nat
      BY FS_CardinalityType DEF Inv, CountInv
    <3>2. /\ Len(order) \in Nat /\ count["evictions"] \in Nat /\ count["sets"] \in Nat
      BY CountersAreNumbers, ItemsCounted DEF Inv
    <3>3. Len(order) + count["evictions"] + Cardinality(Waiting("set")) <= count["sets"]
      BY DEF Inv, CountInv
    <3> QED BY <3>1, <3>2, <3>3
  <2>3. CountersAddUp
    BY <2>1, <2>2 DEF Inv, CountInv, CountersAddUp
  <2>4. ReportAddsUp
    BY DEF Inv, ReportInv, ReportAddsUp
  <2> QED BY <2>3, <2>4 DEF ReportAccounts
<1> QED BY <1>1, InvHolds, PTL

(* evictOldest takes a key that every key that stays was used after, and   *)
(* no other operation evicts.                                              *)
THEOREM EvictsLeastRecentHolds == Spec => EvictsLeastRecent
<1> DEFINE Evicts ==
        count'["evictions"] # count["evictions"] =>
            \A k \in items \ items', j \in items' : used[k] < used'[j]
<1>1. ASSUME Inv, [Next]_vars PROVE Evicts
  <2> USE DEF Evicts
  <2>1. TypeOK /\ ListInv /\ CallsInv
    BY <1>1 DEF Inv
  <2>2. CASE UNCHANGED vars
    BY <2>2 DEF vars
  <2>3. ASSUME NEW p \in Procs, SetLocked(p) PROVE Evicts
    <3> DEFINE k == reg[p].key
               program == reg[p].program
    <3>1. CASE Stored(k, program)
      BY <3>1 DEF Stored
    <3>2. ASSUME NEW out \in ElementsOf(order), Replaced(k, program, out) PROVE Evicts
      <4>1. items \ items' \subseteq {out.key}
        BY <3>2 DEF Replaced
      <4>2. \A j \in items' : \E e \in ElementsOf(order') : e.key = j
        <5>1. ListInv'
          BY <2>1, <2>3, SetLockedList
        <5>2. items' = KeysOf(order')
          BY <5>1 DEF ListInv
        <5> QED BY <5>2, KeysAreOfElements
      <4>3. \A e \in ElementsOf(order') : used[out.key] < used'[e.key]
        BY <3>2 DEF Replaced
      <4> QED BY <4>1, <4>2, <4>3
    <3> HIDE DEF Evicts
    <3>3. Stored(k, program) \/ \E out \in ElementsOf(order) : Replaced(k, program, out)
      BY <2>1, <2>3, SetLockedList
    <3> QED BY <3>1, <3>2, <3>3
  <2>4. ASSUME NEW p \in Procs, GetLocked(p) PROVE Evicts
    BY <2>1, <2>4, CountAdds DEF GetLocked
  <2>5. ASSUME NEW p \in Procs, Load(p) \/ Reported(p) \/ Stats(p) PROVE Evicts
    BY <2>5 DEF Load, Reported, Stats
  <2>6. ASSUME NEW p \in Procs, NEW k \in Keys, Get(p, k) PROVE Evicts
    BY <2>6 DEF Get
  <2>7. ASSUME NEW p \in Procs, NEW k \in Keys, NEW program \in Programs, Set(p, k, program)
        PROVE  Evicts
    BY <2>7 DEF Set
  <2>8. ASSUME NEW p \in Procs, NEW k \in Keys, Delete(p, k) PROVE Evicts
    BY <2>8 DEF Delete
  <2> HIDE DEF Evicts
  <2> QED BY <1>1, <2>2, <2>3, <2>4, <2>5, <2>6, <2>7, <2>8 DEF Next, Step, Call
<1>2. Spec => [][Evicts]_vars
  BY <1>1, InvHolds, PTL DEF Spec
<1> QED BY <1>2 DEF EvictsLeastRecent

-----------------------------------------------------------------------------
(* The bounded cache                                                       *)

(* The content of a tidy list of elements.                                 *)
Holds(C, s) ==
    /\ C \in [Keys -> Programs \cup {None}]
    /\ \A e \in ElementsOf(s) : e.key \in Keys /\ C[e.key] = e.program
    /\ \A k \in Keys : k \notin KeysOf(s) => C[k] = None

(* The refinement mapping reads the program of a key off its element.      *)
LEMMA ContentHolds ==
    ASSUME ListInv
    PROVE  Holds(Content, order)
<1>1. ASSUME NEW e \in ElementsOf(order) PROVE e.key \in Keys /\ Content[e.key] = e.program
  <2>1. PICK i \in DOMAIN order : e = order[i]
    BY <1>1 DEF ElementsOf
  <2>2. e \in Elements /\ e.key \in Keys /\ e.key \in items
    <3>1. order[i] \in Elements
      BY ElementOfSeq DEF ListInv, Tidy
    <3> QED BY <2>1, <3>1 DEF ListInv, KeysOf, Elements
  <2>3. At(e.key) = i
    <3>1. At(e.key) \in DOMAIN order /\ order[At(e.key)].key = e.key
      BY <2>2, Found
    <3> QED BY <2>1, <3>1 DEF ListInv, Tidy
  <2> QED BY <2>1, <2>2, <2>3 DEF Content
<1>2. \A k \in Keys : k \notin KeysOf(order) => Content[k] = None
  BY DEF Content, ListInv
<1>3. Content \in [Keys -> Programs \cup {None}]
  <2>1. \A k \in items : order[At(k)].program \in Programs
    BY Found DEF Elements
  <2> QED BY <2>1 DEF Content
<1> QED BY <1>1, <1>2, <1>3 DEF Holds

(* What a list holds is one content, and the keys that hold a program are  *)
(* the keys of the list.                                                   *)
LEMMA HeldAreKeys ==
    ASSUME NEW C, NEW s, Tidy(s), Holds(C, s)
    PROVE  {k \in Keys : C[k] # None} = KeysOf(s)
<1>1. \A e \in ElementsOf(s) : e \in Elements
  BY ElementOfSeq DEF Tidy, ElementsOf
<1>2. ASSUME NEW k \in KeysOf(s) PROVE k \in Keys /\ C[k] # None
  <2>1. PICK e \in ElementsOf(s) : e.key = k
    BY KeysAreOfElements
  <2>2. C[k] = e.program /\ e.program \in Programs /\ k \in Keys
    BY <1>1, <2>1 DEF Holds, Elements
  <2> QED BY <2>2, LRUAssumption
<1> QED BY <1>2 DEF Holds

(* A list has one content.                                                 *)
LEMMA OneContent ==
    ASSUME NEW C, NEW D, NEW s, Holds(C, s), Holds(D, s)
    PROVE  C = D
<1>1. ASSUME NEW k \in Keys PROVE C[k] = D[k]
  <2>1. CASE k \in KeysOf(s)
    <3>1. PICK e \in ElementsOf(s) : e.key = k
      BY <2>1, KeysAreOfElements
    <3> QED BY <3>1 DEF Holds
  <2>2. CASE k \notin KeysOf(s)
    BY <2>2 DEF Holds
  <2> QED BY <2>1, <2>2
<1> QED BY <1>1 DEF Holds

(* Both modules count alike.                                               *)
LEMMA SameCardinality == \A S : Bounded!Cardinality(S) = Cardinality(S)
BY DEF Bounded!Cardinality, Cardinality

(* A Set that evicts nothing changes the program of its key.               *)
LEMMA StoredIsWith ==
    ASSUME TypeOK, ListInv, ListInv', NEW k \in Keys, NEW program \in Programs,
           Stored(k, program)
    PROVE  Content' \in Bounded!With(k, program)
<1> DEFINE filled == [Content EXCEPT ![k] = program]
           held == {j \in Keys : filled[j] # None}
<1>1. Holds(Content, order) /\ items = KeysOf(order)
  BY ContentHolds DEF ListInv
<1>2. Holds(Content, order)' /\ items' = KeysOf(order')
  <2>1. Holds(Content, order)'
    BY ContentHolds, PTL
  <2> QED BY <2>1 DEF ListInv
<1>3. Holds(Content', order')
  BY <1>2 DEF Holds
<1>4. /\ items' = items \cup {k}
      /\ ElementsOf(order') =
             {Element(k, program)} \cup {e \in ElementsOf(order) : e.key # k}
  BY DEF Stored
<1>5. filled \in [Keys -> Programs \cup {None}]
      /\ \A j \in Keys : filled[j] = IF j = k THEN program ELSE Content[j]
  BY <1>1 DEF Holds
<1> HIDE DEF filled
<1>6. Holds(filled, order')
  <2>1. \A e \in ElementsOf(order') : e.key \in Keys /\ filled[e.key] = e.program
    BY <1>1, <1>4, <1>5 DEF Holds, Element
  <2>2. \A j \in Keys : j \notin KeysOf(order') => filled[j] = None
    BY <1>1, <1>2, <1>4, <1>5 DEF Holds
  <2> QED BY <1>5, <2>1, <2>2 DEF Holds
<1>7. Content' = filled
  BY <1>3, <1>6, OneContent
<1>8. held = KeysOf(order')
  BY <1>6, HeldAreKeys DEF ListInv
<1>9. Cardinality(KeysOf(order')) = Len(order') /\ Len(order') <= Capacity
  BY TidyCounts DEF ListInv, Capacity
<1>10. Cardinality(held) <= Capacity
  BY <1>8, <1>9
<1> HIDE DEF held
<1>11. Bounded!With(k, program) = {filled}
  BY <1>10, SameCardinality DEF Bounded!With, filled, held
<1> QED BY <1>7, <1>11

(* A Set that evicts costs another key its program.                        *)
LEMMA ReplacedIsWith ==
    ASSUME TypeOK, ListInv, ListInv', NEW k \in Keys, NEW program \in Programs,
           NEW out \in ElementsOf(order), Replaced(k, program, out)
    PROVE  Content' \in Bounded!With(k, program)
<1> DEFINE filled == [Content EXCEPT ![k] = program]
           held == {j \in Keys : filled[j] # None}
           without == [i \in Keys |-> IF i = out.key THEN None ELSE filled[i]]
<1>1. Holds(Content, order) /\ items = KeysOf(order)
  BY ContentHolds DEF ListInv
<1>2. Holds(Content, order)' /\ items' = KeysOf(order')
  <2>1. Holds(Content, order)'
    BY ContentHolds, PTL
  <2> QED BY <2>1 DEF ListInv
<1>3. Holds(Content', order')
  BY <1>2 DEF Holds
<1>4. /\ k \notin items /\ out.key # k /\ Len(order) = Capacity
      /\ items' = (items \cup {k}) \ {out.key}
      /\ ElementsOf(order') =
             {Element(k, program)} \cup {e \in ElementsOf(order) : e.key # out.key}
  BY DEF Replaced
<1>5. filled \in [Keys -> Programs \cup {None}]
      /\ \A j \in Keys : filled[j] = IF j = k THEN program ELSE Content[j]
  BY <1>1 DEF Holds
<1> HIDE DEF filled
<1>6. without \in [Keys -> Programs \cup {None}]
      /\ \A j \in Keys : without[j] = IF j = out.key THEN None ELSE filled[j]
  BY <1>5
<1> HIDE DEF without
<1>7. Holds(without, order')
  <2>1. \A e \in ElementsOf(order) : e.key \in items
    BY <1>1, KeysAreOfElements
  <2>2. \A e \in ElementsOf(order') : e.key \in Keys /\ without[e.key] = e.program
    BY <1>1, <1>4, <1>5, <1>6, <2>1 DEF Holds, Element
  <2>3. \A j \in Keys : j \notin KeysOf(order') => without[j] = None
    BY <1>1, <1>2, <1>4, <1>5, <1>6 DEF Holds
  <2> QED BY <1>6, <2>2, <2>3 DEF Holds
<1>8. Content' = without
  BY <1>3, <1>7, OneContent
<1>9. held = items \cup {k}
  <2>1. {j \in Keys : Content[j] # None} = items
    BY <1>1, HeldAreKeys DEF ListInv
  <2>2. program # None
    BY LRUAssumption
  <2> QED BY <1>5, <2>1, <2>2
<1>10. Cardinality(held) = Len(order) + 1 /\ Len(order) \in Nat
  BY <1>4, <1>9, ItemsCounted
<1>11. ~(Cardinality(held) <= Capacity)
  BY <1>4, <1>10
<1>12. out.key \in held \ {k}
  BY <1>1, <1>4, <1>9, KeysAreOfElements
<1> HIDE DEF held
<1>13. Bounded!With(k, program)
           = {[i \in Keys |-> IF i = j THEN None ELSE filled[i]] : j \in held \ {k}}
  BY <1>11, SameCardinality DEF Bounded!With, filled, held
<1> QED BY <1>8, <1>12, <1>13 DEF without

(* A Delete leaves its key without a program.                              *)
LEMMA DeleteIsBounded ==
    ASSUME TypeOK, ListInv, ListInv', NEW k \in Keys,
           items' = items \ {k},
           ElementsOf(order') = {e \in ElementsOf(order) : e.key # k}
    PROVE  Content' = [Content EXCEPT ![k] = None]
<1> DEFINE emptied == [Content EXCEPT ![k] = None]
<1>1. Holds(Content, order) /\ items = KeysOf(order)
  BY ContentHolds DEF ListInv
<1>2. Holds(Content, order)' /\ items' = KeysOf(order')
  <2>1. Holds(Content, order)'
    BY ContentHolds, PTL
  <2> QED BY <2>1 DEF ListInv
<1>3. Holds(Content', order')
  BY <1>2 DEF Holds
<1>4. emptied \in [Keys -> Programs \cup {None}]
      /\ \A j \in Keys : emptied[j] = IF j = k THEN None ELSE Content[j]
  BY <1>1 DEF Holds
<1> HIDE DEF emptied
<1>5. Holds(emptied, order')
  <2>1. \A e \in ElementsOf(order') : e.key \in Keys /\ emptied[e.key] = e.program
    BY <1>1, <1>4 DEF Holds
  <2>2. \A j \in Keys : j \notin KeysOf(order') => emptied[j] = None
    BY <1>1, <1>2, <1>4 DEF Holds
  <2> QED BY <1>4, <2>1, <2>2 DEF Holds
<1>6. Content' = emptied
  BY <1>3, <1>5, OneContent
<1> QED BY <1>6 DEF emptied

(* The elements of the list are all that the mapping depends on.           *)
LEMMA SameContent ==
    ASSUME ListInv, ListInv', items' = items, ElementsOf(order') = ElementsOf(order)
    PROVE  Content' = Content
<1>1. Holds(Content, order) /\ items = KeysOf(order)
  BY ContentHolds DEF ListInv
<1>2. Holds(Content, order)' /\ items' = KeysOf(order')
  <2>1. Holds(Content, order)'
    BY ContentHolds, PTL
  <2> QED BY <2>1 DEF ListInv
<1>3. Holds(Content', order')
  BY <1>2 DEF Holds
<1>4. Holds(Content, order')
  BY <1>1, <1>2 DEF Holds
<1> QED BY <1>3, <1>4, OneContent

(* LRUProgramCache implements the bounded cache: Get changes no program    *)
(* and Set costs at most one other key its own, for all goroutines, keys,  *)
(* programs and capacities.                                                *)
THEOREM BoundedCacheImplemented == Spec => ImplementsBoundedCache
<1>1. Init => Bounded!BoundedInit
  BY DEF Init, Content, Bounded!BoundedInit
<1>2. ASSUME Inv, Inv', [Next]_vars PROVE [Bounded!BoundedNext]_Content
  <2>1. TypeOK /\ ListInv /\ CallsInv /\ ListInv'
    BY <1>2 DEF Inv
  <2>2. CASE UNCHANGED <<items, order>>
    <3>1. items' = items /\ ElementsOf(order') = ElementsOf(order)
      BY <2>2
    <3> QED BY <2>1, <3>1, SameContent
  <2>3. ASSUME NEW p \in Procs, GetLocked(p) PROVE Content' = Content
    BY <2>1, <2>3, GetLockedList, SameContent
  <2>4. ASSUME NEW p \in Procs, SetLocked(p) PROVE Bounded!BoundedNext
    <3> DEFINE k == reg[p].key
               program == reg[p].program
    <3>1. k \in Keys /\ program \in Programs
      BY <2>1, <2>4 DEF CallsInv, SetLocked, Goto
    <3>2. Stored(k, program) \/ \E out \in ElementsOf(order) : Replaced(k, program, out)
      BY <2>1, <2>4, SetLockedList
    <3> HIDE DEF k, program
    <3>3. Content' \in Bounded!With(k, program)
      BY <2>1, <3>1, <3>2, StoredIsWith, ReplacedIsWith
    <3> QED BY <3>1, <3>3 DEF Bounded!BoundedNext
  <2>5. ASSUME NEW p \in Procs, NEW k \in Keys, Delete(p, k) PROVE Bounded!BoundedNext
    <3>1. Content' = [Content EXCEPT ![k] = None]
      BY <2>1, <2>5, DeleteList, DeleteIsBounded
    <3> QED BY <3>1 DEF Bounded!BoundedNext
  <2>6. CASE UNCHANGED vars
    BY <2>2, <2>6 DEF vars
  <2>7. ASSUME NEW p \in Procs, Load(p) \/ Reported(p) \/ Stats(p) PROVE UNCHANGED <<items, order>>
    BY <2>7 DEF Load, Reported, Stats
  <2>8. ASSUME NEW p \in Procs, NEW k \in Keys, Get(p, k) PROVE UNCHANGED <<items, order>>
    BY <2>8 DEF Get
  <2>9. ASSUME NEW p \in Procs, NEW k \in Keys, NEW program \in Programs, Set(p, k, program)
        PROVE  UNCHANGED <<items, order>>
    BY <2>9 DEF Set
  <2> QED BY <1>2, <2>2, <2>3, <2>4, <2>5, <2>6, <2>7, <2>8, <2>9 DEF Next, Step, Call
<1> QED BY <1>1, <1>2, InvHolds, PTL DEF Spec, ImplementsBoundedCache, Bounded!BoundedSpec
=============================================================================
