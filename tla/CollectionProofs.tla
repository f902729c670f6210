-------------------------- MODULE CollectionProofs --------------------------
(***************************************************************************)
(* Proofs about the collection of objects: the types, that the services    *)
(* stop last, that each object counts every reference to it once, and that *)
(* an object to which there is a reference serves.  They hold for any      *)
(* objects, however many calls are made, and wherever LowestCount lies.    *)
(***************************************************************************)
EXTENDS Collection, TLAPS, FiniteSetTheorems, SequenceTheorems

-----------------------------------------------------------------------------
(* Lists without duplicates: the list of the monitor (objectmonitor.cc).   *)

(* Taking an element out of a sequence shifts the ones behind it.          *)
LEMMA RemoveAtFacts ==
  ASSUME NEW S, NEW s \in Seq(S), NEW i \in 1..Len(s)
  PROVE  /\ RemoveAt(s, i) \in Seq(S)
         /\ Len(RemoveAt(s, i)) = Len(s) - 1
         /\ \A j \in 1..Len(s)-1 : RemoveAt(s, i)[j] = IF j < i THEN s[j] ELSE s[j+1]
<1> DEFINE a == SubSeq(s, 1, i-1)
           b == SubSeq(s, i+1, Len(s))
<1>1. Len(s) \in Nat /\ \A j \in 1..Len(s) : s[j] \in S
  BY ElementOfSeq, LenProperties
<1>2. a \in Seq(S) /\ Len(a) = i-1 /\ \A j \in 1..i-1 : a[j] = s[j]
  <2>1. \A j \in 1..i-1 : s[j] \in S
    BY <1>1
  <2> HIDE DEF a
  <2>2. /\ a \in Seq(S)
        /\ Len(a) = IF 1 <= i-1 THEN (i-1)-1+1 ELSE 0
        /\ \A j \in 1..(i-1)-1+1 : a[j] = s[1+j-1]
    BY <1>1, <2>1, SubSeqProperties DEF a
  <2> QED BY <1>1, <2>2
<1>3. b \in Seq(S) /\ Len(b) = Len(s)-i /\ \A j \in 1..Len(s)-i : b[j] = s[i+j]
  <2>1. \A j \in i+1..Len(s) : s[j] \in S
    BY <1>1
  <2> HIDE DEF b
  <2>2. /\ b \in Seq(S)
        /\ Len(b) = IF i+1 <= Len(s) THEN Len(s)-(i+1)+1 ELSE 0
        /\ \A j \in 1..Len(s)-(i+1)+1 : b[j] = s[i+1+j-1]
    BY <1>1, <2>1, SubSeqProperties DEF b
  <2> QED BY <1>1, <2>2
<1>4. RemoveAt(s, i) = a \o b
  BY DEF RemoveAt
<1> HIDE DEF a, b
<1>5. /\ a \o b \in Seq(S) /\ Len(a \o b) = Len(a) + Len(b)
      /\ \A j \in 1..Len(a)+Len(b) :
           (a \o b)[j] = IF j <= Len(a) THEN a[j] ELSE b[j-Len(a)]
  BY <1>2, <1>3, ConcatProperties
<1> QED BY <1>1, <1>2, <1>3, <1>4, <1>5

(* A list of different objects, without one of them.                       *)
LEMMA WithoutFacts ==
  ASSUME NEW S, NEW s \in Seq(S), IsInjective(s), NEW o
  PROVE  /\ Without(s, o) \in Seq(S) /\ IsInjective(Without(s, o))
         /\ ToSet(Without(s, o)) = ToSet(s) \ {o}
<1> DEFINE t == Without(s, o)
<1>1. Len(s) \in Nat /\ DOMAIN s = 1..Len(s)
  BY LenProperties
<1>2. CASE ~Contains(s, o)
  <2>1. t = s
    BY <1>2 DEF Without
  <2> QED BY <1>1, <1>2, <2>1 DEF Contains, ToSet
<1>3. CASE Contains(s, o)
  <2> DEFINE i == CHOOSE k \in 1..Len(s) : s[k] = o
  <2>1. i \in 1..Len(s) /\ s[i] = o
    BY <1>3 DEF Contains
  <2>2. t = RemoveAt(s, i)
    BY <1>3 DEF Without
  <2> HIDE DEF i, t
  <2>3. /\ t \in Seq(S) /\ Len(t) = Len(s) - 1
        /\ \A j \in 1..Len(s)-1 : t[j] = IF j < i THEN s[j] ELSE s[j+1]
    BY <2>1, <2>2, RemoveAtFacts
  <2>4. DOMAIN t = 1..Len(s)-1
    BY <2>3, LenProperties
  <2>5. \A a, b \in 1..Len(s) : s[a] = s[b] => a = b
    BY <1>1 DEF IsInjective
  <2>6. IsInjective(t)
    <3> SUFFICES ASSUME NEW a \in 1..Len(s)-1, NEW b \in 1..Len(s)-1, t[a] = t[b]
                 PROVE  a = b
      BY <2>4 DEF IsInjective
    <3>1. PICK c \in 1..Len(s) : t[a] = s[c] /\ c = IF a < i THEN a ELSE a+1
      BY <1>1, <2>1, <2>3
    <3>2. PICK d \in 1..Len(s) : t[b] = s[d] /\ d = IF b < i THEN b ELSE b+1
      BY <1>1, <2>1, <2>3
    <3>3. c = d
      BY <3>1, <3>2, <2>5
    <3> QED BY <3>1, <3>2, <3>3, <1>1, <2>1
  <2>7. ToSet(t) \subseteq ToSet(s) \ {o}
    <3> SUFFICES ASSUME NEW a \in 1..Len(s)-1
                 PROVE  t[a] \in ToSet(s) \ {o}
      BY <2>4 DEF ToSet
    <3>1. PICK c \in 1..Len(s) : t[a] = s[c] /\ c # i
      BY <1>1, <2>1, <2>3
    <3> QED BY <3>1, <2>1, <2>5, <1>1 DEF ToSet
  <2>8. ToSet(s) \ {o} \subseteq ToSet(t)
    <3> SUFFICES ASSUME NEW c \in 1..Len(s), s[c] # o
                 PROVE  s[c] \in ToSet(t)
      BY <1>1 DEF ToSet
    <3>1. c # i
      BY <2>1
    <3>2. PICK a \in 1..Len(s)-1 : t[a] = s[c]
      <4>1. CASE c < i
        <5>1. c \in 1..Len(s)-1 /\ t[c] = s[c]
          BY <4>1, <1>1, <2>1, <2>3
        <5> QED BY <5>1
      <4>2. CASE c > i
        <5>1. c-1 \in 1..Len(s)-1 /\ t[c-1] = s[c]
          BY <4>2, <1>1, <2>1, <2>3
        <5> QED BY <5>1
      <4> QED BY <3>1, <4>1, <4>2, <1>1, <2>1
    <3> QED BY <3>2, <2>4 DEF ToSet
  <2> QED BY <2>3, <2>6, <2>7, <2>8 DEF t
<1> QED BY <1>2, <1>3

(* A list of different objects, with one more.                             *)
LEMMA AppendFacts ==
  ASSUME NEW S, NEW s \in Seq(S), IsInjective(s), NEW o \in S, o \notin ToSet(s)
  PROVE  /\ Append(s, o) \in Seq(S) /\ IsInjective(Append(s, o))
         /\ ToSet(Append(s, o)) = ToSet(s) \cup {o}
<1> DEFINE t == Append(s, o)
<1>1. Len(s) \in Nat /\ DOMAIN s = 1..Len(s)
  BY LenProperties
<1>2. /\ t \in Seq(S) /\ Len(t) = Len(s) + 1
      /\ \A j \in 1..Len(s) : t[j] = s[j]
      /\ t[Len(s)+1] = o
  BY AppendProperties
<1> HIDE DEF t
<1>3. DOMAIN t = 1..Len(s)+1
  BY <1>2, LenProperties
<1>4. \A j \in 1..Len(s)+1 : j \in 1..Len(s) \/ j = Len(s)+1
  BY <1>1
<1>5. \A j \in 1..Len(s) : s[j] \in ToSet(s) /\ s[j] # o
  BY <1>1 DEF ToSet
<1>6. IsInjective(t)
  <2>1. \A a, b \in 1..Len(s) : s[a] = s[b] => a = b
    BY <1>1 DEF IsInjective
  <2> QED BY <2>1, <1>2, <1>3, <1>4, <1>5 DEF IsInjective
<1>7. ToSet(t) = ToSet(s) \cup {o}
  <2>1. ToSet(t) \subseteq ToSet(s) \cup {o}
    BY <1>2, <1>3, <1>4, <1>5 DEF ToSet
  <2>2. \A j \in 1..Len(s) : j \in DOMAIN t
    BY <1>1, <1>3
  <2>3. Len(s)+1 \in DOMAIN t
    BY <1>1, <1>3
  <2> QED BY <2>1, <2>2, <2>3, <1>1, <1>2 DEF ToSet
<1> QED BY <1>2, <1>6, <1>7 DEF t

(* The empty list, and what is in a list.                                  *)
LEMMA EmptyFacts ==
  /\ IsInjective(<<>>) /\ ToSet(<<>>) = {}
  /\ \A S : \A s \in Seq(S) : ToSet(s) \subseteq S
<1>1. DOMAIN <<>> = {}
  OBVIOUS
<1>2. ASSUME NEW S, NEW s \in Seq(S)
      PROVE  ToSet(s) \subseteq S
  BY LenProperties, ElementOfSeq DEF ToSet
<1> QED BY <1>1, <1>2 DEF IsInjective, ToSet

-----------------------------------------------------------------------------
(* References: who holds one, and which messages carry one.                *)

Messages == [kind : {"seq", "conc"}, ref : Objects \cup {None}]

Held(hs, o)  == {h \in Holders : o \in hs[h]}
Marks(q, o)  == {m \in UNION {{p} \X DOMAIN q[p] : p \in Objects} : q[m[1]][m[2]].ref = o}

(* The places of the messages that carry a reference to o.                 *)
LEMMA MarksAre ==
  ASSUME NEW q \in [Objects -> Seq(Messages)], NEW o
  PROVE  /\ \A p \in Objects : \A i \in 1..Len(q[p]) :
              <<p, i>> \in Marks(q, o) <=> q[p][i].ref = o
         /\ \A m \in Marks(q, o) : \E p \in Objects : \E i \in 1..Len(q[p]) : m = <<p, i>>
<1>1. \A p \in Objects : DOMAIN q[p] = 1..Len(q[p])
  BY LenProperties
<1>2. \A p \in Objects : \A i \in 1..Len(q[p]) :
        <<p, i>> \in UNION {{y} \X DOMAIN q[y] : y \in Objects}
  BY <1>1
<1>3. \A m \in UNION {{y} \X DOMAIN q[y] : y \in Objects} :
        \E p \in Objects : \E i \in 1..Len(q[p]) : m = <<p, i>>
  BY <1>1
<1> QED BY <1>2, <1>3 DEF Marks

(* Finitely many messages carry one.                                       *)
LEMMA MarksFinite ==
  ASSUME NEW q \in [Objects -> Seq(Messages)], NEW o
  PROVE  IsFiniteSet(Marks(q, o))
<1> DEFINE f == [p \in Objects |-> {p} \X DOMAIN q[p]]
           T == {{p} \X DOMAIN q[p] : p \in Objects}
<1>1. IsFiniteSet(T)
  <2>1. f \in Surjection(Objects, T)
    BY DEF Surjection
  <2> QED BY <2>1, FS_Surjection, CollectionAssumption
<1>2. \A R \in T : IsFiniteSet(R)
  <2> SUFFICES ASSUME NEW p \in Objects
               PROVE  IsFiniteSet({p} \X DOMAIN q[p])
    OBVIOUS
  <2>1. DOMAIN q[p] = 1..Len(q[p]) /\ Len(q[p]) \in Nat
    BY LenProperties
  <2>2. IsFiniteSet({p}) /\ IsFiniteSet(DOMAIN q[p])
    <3>1. IsFiniteSet({p})
      BY FS_Singleton
    <3>2. IsFiniteSet(1..Len(q[p]))
      BY <2>1, FS_Interval
    <3> QED BY <3>1, <3>2, <2>1
  <2> QED BY <2>2, FS_Product
<1>3. IsFiniteSet(UNION T)
  BY <1>1, <1>2, FS_UNION
<1>4. Marks(q, o) \in SUBSET (UNION T)
  BY DEF Marks
<1> QED BY <1>3, <1>4, FS_Subset

(* A message is queued behind the others.                                  *)
Queued(q, n, p, r) ==
  /\ q \in [Objects -> Seq(Messages)] /\ n \in [Objects -> Seq(Messages)]
  /\ p \in Objects /\ r \in Messages
  /\ n[p] = Append(q[p], r) /\ \A y \in Objects \ {p} : n[y] = q[y]

(* One more reference may be on its way, and the others stay in place.     *)
LEMMA MarksAppend ==
  ASSUME NEW q, NEW n, NEW p, NEW r, Queued(q, n, p, r), NEW o
  PROVE  /\ Cardinality(Marks(n, o)) =
              Cardinality(Marks(q, o)) + (IF r.ref = o THEN 1 ELSE 0)
         /\ r.ref # o => Marks(n, o) = Marks(q, o)
<1> USE DEF Queued
<1> DEFINE l == Len(q[p]) + 1
<1>1. /\ Len(q[p]) \in Nat /\ n[p] \in Seq(Messages) /\ Len(n[p]) = l
      /\ \A i \in 1..Len(q[p]) : n[p][i] = q[p][i]
      /\ n[p][l] = r
  BY AppendProperties, LenProperties
<1>2. \A y \in Objects \ {p} : n[y] = q[y]
  OBVIOUS
<1>3. Marks(n, o) = Marks(q, o) \cup (IF r.ref = o THEN {<<p, l>>} ELSE {})
  <2>1. ASSUME NEW m \in Marks(q, o)
        PROVE  m \in Marks(n, o)
    <3>1. PICK y \in Objects, i \in Nat :
            i \in 1..Len(q[y]) /\ m = <<y, i>> /\ q[y][i].ref = o
      BY SMTT(20), MarksAre
    <3>2. i \in 1..Len(n[y]) /\ n[y][i] = q[y][i]
      <4>1. CASE y = p
        <5>1. i \in 1..Len(q[p])
          BY <4>1, <3>1
        <5>2. i \in 1..l
          BY <5>1, <1>1
        <5>3. n[p][i] = q[p][i] /\ i \in 1..Len(n[p])
          BY <5>1, <5>2, <1>1
        <5> QED BY <4>1, <5>3
      <4>2. CASE y # p
        BY <4>2, <3>1, <1>2
      <4> QED BY <4>1, <4>2
    <3> QED BY <3>1, <3>2, MarksAre
  <2>2. ASSUME NEW m \in Marks(n, o)
        PROVE  m \in Marks(q, o) \/ (m = <<p, l>> /\ r.ref = o)
    <3>1. PICK y \in Objects, i \in Nat :
            i \in 1..Len(n[y]) /\ m = <<y, i>> /\ n[y][i].ref = o
      BY SMTT(20), <1>2, MarksAre
    <3>2. CASE y = p /\ i = l
      BY <3>1, <3>2, <1>1
    <3>3. CASE ~(y = p /\ i = l)
      <4>1. i \in 1..Len(q[y]) /\ n[y][i] = q[y][i]
        <5>1. CASE y = p
          <6>1. i \in 1..Len(n[p]) /\ i # l
            BY <5>1, <3>1, <3>3
          <6>2. i \in 1..l
            BY <6>1, <1>1
          <6>3. i \in 1..Len(q[p])
            BY <6>1, <6>2, <1>1
          <6> QED BY <5>1, <6>3, <1>1
        <5>2. CASE y # p
          BY <5>2, <3>1, <1>2
        <5> QED BY <5>1, <5>2
      <4> QED BY <4>1, <3>1, MarksAre
    <3> QED BY <3>2, <3>3
  <2>3. r.ref = o => <<p, l>> \in Marks(n, o)
    BY <1>1, MarksAre
  <2> QED BY <2>1, <2>2, <2>3
<1>4. <<p, l>> \notin Marks(q, o)
  <2> SUFFICES ASSUME <<p, l>> \in Marks(q, o) PROVE FALSE
    OBVIOUS
  <2>1. PICK y \in Objects, i \in Nat :
            i \in 1..Len(q[y]) /\ <<p, l>> = <<y, i>>
    BY MarksAre
  <2> QED BY <2>1, <1>1
<1>5. IsFiniteSet(Marks(q, o)) /\ Cardinality(Marks(q, o)) \in Nat
  BY MarksFinite, FS_CardinalityType
<1>6. Cardinality(Marks(q, o) \cup {<<p, l>>}) = Cardinality(Marks(q, o)) + 1
  BY <1>4, <1>5, FS_AddElement
<1> HIDE DEF l
<1>7. CASE r.ref = o
  BY <1>3, <1>5, <1>6, <1>7
<1>8. CASE r.ref # o
  <2>1. Marks(n, o) = Marks(q, o)
    BY <1>3, <1>8
  <2> QED BY <2>1, <1>5, <1>8
<1> QED BY <1>7, <1>8

(* The first message of p leaves its queue, and the others move up.        *)
Dequeued(q, n, p) ==
  /\ q \in [Objects -> Seq(Messages)] /\ n \in [Objects -> Seq(Messages)]
  /\ p \in Objects /\ q[p] # <<>>
  /\ n[p] = Tail(q[p]) /\ \A y \in Objects \ {p} : n[y] = q[y]

(* The reference of that message is no longer on its way.                  *)
LEMMA MarksTail ==
  ASSUME NEW q, NEW n, NEW p, Dequeued(q, n, p), NEW o
  PROVE  /\ Head(q[p]) \in Messages
         /\ Cardinality(Marks(n, o)) =
              Cardinality(Marks(q, o)) - (IF Head(q[p]).ref = o THEN 1 ELSE 0)
         /\ Marks(n, o) # {} => Marks(q, o) # {}
         /\ Head(q[p]).ref = o => Marks(q, o) # {}
<1> USE DEF Dequeued
<1>1. /\ Len(q[p]) \in Nat \ {0} /\ n[p] \in Seq(Messages) /\ Len(n[p]) = Len(q[p]) - 1
      /\ \A i \in 1..Len(q[p])-1 : n[p][i] = q[p][i+1]
      /\ Head(q[p]) = q[p][1] /\ Head(q[p]) \in Messages
  BY HeadTailProperties, LenProperties, EmptySeq
<1>2. \A y \in Objects \ {p} : n[y] = q[y]
  OBVIOUS
<1> DEFINE A == Marks(q, o) \ {<<p, 1>>}
           B == Marks(n, o)
           f == [m \in A |-> IF m[1] = p THEN <<p, m[2] - 1>> ELSE m]
<1>3. ASSUME NEW m \in A
      PROVE  /\ f[m] \in B
             /\ m[1] = p => m = <<p, f[m][2] + 1>> /\ f[m][1] = p
             /\ m[1] # p => m = f[m]
  <2>1. PICK y \in Objects, i \in Nat :
            i \in 1..Len(q[y]) /\ m = <<y, i>> /\ q[y][i].ref = o
    BY MarksAre
  <2>2. CASE y = p
    <3>1. i # 1 /\ i - 1 \in 1..Len(q[p])-1 /\ (i-1)+1 = i
      BY <2>1, <2>2, <1>1
    <3>2. n[p][i-1].ref = o
      BY <3>1, <2>1, <2>2, <1>1
    <3>3. f[m] = <<p, i-1>>
      BY <2>1, <2>2
    <3>4. <<p, i-1>> \in Marks(n, o)
      BY <3>1, <3>2, <1>1, <1>2, MarksAre
    <3> QED BY <2>1, <2>2, <3>1, <3>3, <3>4
  <2>3. CASE y # p
    <3>1. i \in 1..Len(n[y]) /\ n[y][i].ref = o
      BY <2>1, <2>3, <1>2
    <3>2. <<y, i>> \in Marks(n, o)
      BY <3>1, <1>2, MarksAre
    <3> QED BY <2>1, <2>3, <3>2
  <2> QED BY <2>2, <2>3
<1>4. ASSUME NEW m \in B
      PROVE  \E k \in A : f[k] = m
  <2>1. PICK y \in Objects, i \in Nat :
            i \in 1..Len(n[y]) /\ m = <<y, i>> /\ n[y][i].ref = o
    BY <1>2, MarksAre
  <2>2. CASE y = p
    <3>1. i + 1 \in 1..Len(q[p]) /\ (i+1) - 1 = i /\ i + 1 # 1 /\ q[p][i+1].ref = o
      BY <2>1, <2>2, <1>1
    <3>2. <<p, i+1>> \in A
      BY <3>1, MarksAre
    <3>3. f[<<p, i+1>>] = <<p, i>>
      BY <3>1, <3>2
    <3> QED BY <3>2, <3>3, <2>1, <2>2
  <2>3. CASE y # p
    <3>1. i \in 1..Len(q[y]) /\ q[y][i].ref = o
      BY <2>1, <2>3, <1>2
    <3>2. <<y, i>> \in A
      BY <3>1, <2>3, MarksAre
    <3> QED BY <3>2, <2>1, <2>3
  <2> QED BY <2>2, <2>3
<1>5. f \in Bijection(A, B)
  <2>1. f \in [A -> B]
    BY <1>3
  <2>2. \A a, b \in A : f[a] = f[b] => a = b
    <3> SUFFICES ASSUME NEW a \in A, NEW b \in A, f[a] = f[b]
                 PROVE  a = b
      OBVIOUS
    <3>1. /\ a[1] = p => a = <<p, f[a][2] + 1>> /\ f[a][1] = p
          /\ a[1] # p => a = f[a]
      BY <1>3
    <3>2. /\ b[1] = p => b = <<p, f[b][2] + 1>> /\ f[b][1] = p
          /\ b[1] # p => b = f[b]
      BY <1>3
    <3> HIDE DEF A, f
    <3> QED BY <3>1, <3>2
  <2> HIDE DEF A, B, f
  <2>3. IsInjective(f) /\ \A m \in B : \E k \in A : f[k] = m
    BY <2>1, <2>2, <1>4 DEF IsInjective
  <2> QED BY <2>1, <2>3 DEF Bijection, Injection, Surjection
<1>6. IsFiniteSet(Marks(q, o)) /\ Cardinality(Marks(q, o)) \in Nat
  BY MarksFinite, FS_CardinalityType
<1>7. IsFiniteSet(A)
      /\ Cardinality(A) = Cardinality(Marks(q, o)) - (IF <<p, 1>> \in Marks(q, o) THEN 1 ELSE 0)
  <2> DEFINE M == Marks(q, o)
             e == <<p, 1>>
  <2>1. IsFiniteSet(M)
    BY <1>6
  <2> HIDE DEF M, e
  <2>2. IsFiniteSet(M \ {e}) /\ Cardinality(M \ {e}) = IF e \in M THEN Cardinality(M) - 1 ELSE Cardinality(M)
    BY <2>1, FS_RemoveElement
  <2> QED BY <1>6, <2>2 DEF M, e
<1>8. Cardinality(B) = Cardinality(A)
  BY <1>5, <1>7, FS_Bijection DEF ExistsBijection
<1>9. <<p, 1>> \in Marks(q, o) <=> Head(q[p]).ref = o
  BY <1>1, MarksAre
<1>10. B # {} => A # {}
  BY <1>4
<1> HIDE DEF A, B, f
<1>11. Marks(n, o) # {} => Marks(q, o) # {}
  BY <1>10 DEF A, B
<1> QED BY <1>1, <1>2, <1>7, <1>8, <1>9, <1>11 DEF B

(* A holder gets a reference, drops one, or drops all.                     *)
Gets(hs, n, h, x) ==
  hs \in [Holders -> SUBSET Objects] /\ h \in Holders /\ x \in Objects
    /\ n = [hs EXCEPT ![h] = @ \cup {x}]
Drops(hs, n, h, S) ==
  hs \in [Holders -> SUBSET Objects] /\ h \in Holders /\ n = [hs EXCEPT ![h] = @ \ S]

(* Finitely many hold a reference.                                         *)
LEMMA HeldFinite ==
  ASSUME NEW hs, NEW o PROVE IsFiniteSet(Held(hs, o)) /\ Cardinality(Held(hs, o)) \in Nat
<1>1. IsFiniteSet(Holders)
  BY CollectionAssumption, FS_AddElement DEF Holders
<1> QED BY <1>1, FS_Subset, FS_CardinalityType DEF Held

(* One more holds a reference to x, unless it had one.                     *)
LEMMA GetsFacts ==
  ASSUME NEW hs, NEW n, NEW h, NEW x, Gets(hs, n, h, x), NEW o
  PROVE  /\ n \in [Holders -> SUBSET Objects]
         /\ Held(n, o) = IF o = x THEN Held(hs, o) \cup {h} ELSE Held(hs, o)
         /\ Cardinality(Held(n, o)) =
              Cardinality(Held(hs, o)) + (IF o = x /\ x \notin hs[h] THEN 1 ELSE 0)
<1> DEFINE M == Held(hs, o)
<1>1. /\ n \in [Holders -> SUBSET Objects]
      /\ Held(n, o) = IF o = x THEN M \cup {h} ELSE M
      /\ h \in M <=> o \in hs[h]
  BY DEF Held, Gets
<1>2. IsFiniteSet(M) /\ Cardinality(M) \in Nat
  BY HeldFinite
<1> HIDE DEF M
<1>3. Cardinality(M \cup {h}) = IF h \in M THEN Cardinality(M) ELSE Cardinality(M) + 1
  BY <1>2, FS_AddElement
<1> QED BY <1>1, <1>2, <1>3 DEF M

(* One less holds a reference to what was dropped.                         *)
LEMMA DropsFacts ==
  ASSUME NEW hs, NEW n, NEW h, NEW S, Drops(hs, n, h, S), NEW o
  PROVE  /\ n \in [Holders -> SUBSET Objects]
         /\ Held(n, o) \subseteq Held(hs, o)
         /\ Cardinality(Held(n, o)) =
              Cardinality(Held(hs, o)) - (IF o \in S /\ o \in hs[h] THEN 1 ELSE 0)
<1> DEFINE M == Held(hs, o)
<1>1. /\ n \in [Holders -> SUBSET Objects]
      /\ Held(n, o) = IF o \in S THEN M \ {h} ELSE M
      /\ h \in M <=> o \in hs[h]
  BY DEF Held, Drops
<1>2. IsFiniteSet(M) /\ Cardinality(M) \in Nat
  BY HeldFinite
<1> HIDE DEF M
<1>3. Cardinality(M \ {h}) = IF h \in M THEN Cardinality(M) - 1 ELSE Cardinality(M)
  BY <1>2, FS_RemoveElement
<1> QED BY <1>1, <1>2, <1>3 DEF M

-----------------------------------------------------------------------------
(* The invariant.                                                          *)

Types ==
  /\ state \in [Objects -> {"unborn", "live", "draining", "aborting", "ended"}]
  /\ refcount \in [Objects -> Int]
  /\ holds \in [Holders -> SUBSET Objects]
  /\ run \in [Objects -> {None, "seq", "conc"}]
  /\ queue \in [Objects -> Seq(Messages)]
  /\ calls \in 0..MaxCalls
  /\ finalizing \in BOOLEAN /\ isActive \in BOOLEAN /\ active \in BOOLEAN
  /\ managed \in Seq(Objects) /\ IsInjective(managed) /\ todo \in Seq(Objects)
  /\ mon \in {"off", "sleep", "ask", "decide", "stopped"}
  /\ taken \in [Objects -> Nat] /\ lost \in [Objects -> Nat]
  /\ mon = "decide" => todo # <<>>
  /\ ~finalizing => mon = "off"

(* A process that was not started or has ended does nothing and has        *)
(* nothing.                                                                *)
Idle ==
  \A o \in Objects : state[o] \in {"unborn", "ended"} =>
    run[o] = None /\ queue[o] = <<>> /\ holds[o] = {} /\ refcount[o] = 0

(* Nobody knows an object that was not created.                            *)
Unknown ==
  \A o \in Objects : state[o] = "unborn" =>
    /\ o \notin ToSet(managed) /\ Held(holds, o) = {} /\ Marks(queue, o) = {}
    /\ lost[o] = 0 /\ taken[o] = 0

(* The monitor has every object that serves.                               *)
Listed == \A o \in Objects : Serving(o) => o \in ToSet(managed)

(* RefsAccounted and ReferencedServes, in the words of this module.        *)
Asked(o) == IF mon = "decide" /\ Head(todo) = o THEN 1 ELSE 0

Counted ==
  \A o \in Objects : Serving(o) =>
    refcount[o] = Cardinality(Held(holds, o)) + Cardinality(Marks(queue, o)) + lost[o]
                    - taken[o] + Asked(o)

NoReference ==
  \A o \in Objects : state[o] = "draining" /\ taken[o] = 0 =>
    Held(holds, o) = {} /\ Marks(queue, o) = {}

CInv == Types /\ Idle /\ Unknown /\ Listed /\ ServicesLast /\ Counted /\ NoReference

(* The types hold at first.                                                *)
LEMMA TypesInit == ASSUME Init PROVE Types
<1>1. /\ [o \in Objects |-> <<>>] \in [Objects -> Seq(Messages)] /\ <<>> \in Seq(Objects)
      /\ IsInjective(<<>>) /\ 0 \in 0..MaxCalls
  BY EmptySeq, EmptyFacts, CollectionAssumption
<1>2. /\ state \in [Objects -> {"unborn", "live", "draining", "aborting", "ended"}]
      /\ refcount \in [Objects -> Int] /\ taken \in [Objects -> Nat] /\ lost \in [Objects -> Nat]
      /\ holds \in [Holders -> SUBSET Objects]
      /\ run \in [Objects -> {None, "seq", "conc"}]
  BY DEF Init
<1> QED BY <1>1, <1>2 DEF Init, Types

(* No object is called None, and none is the main program.                 *)
LEMMA Names ==
  /\ None \notin Objects /\ Main \notin Objects /\ Objects \subseteq Holders
  /\ \A h \in Holders : h # Main => h \in Objects
BY CollectionAssumption DEF Holders

(* The steps keep the types.                                               *)
LEMMA TypesStep == ASSUME CInv, [Next]_vars PROVE Types'
<1> Types /\ Unknown /\ ServicesLast
  BY DEF CInv
<1>0. /\ refcount \in [Objects -> Int] /\ holds \in [Holders -> SUBSET Objects]
      /\ lost \in [Objects -> Nat] /\ taken \in [Objects -> Nat]
  BY DEF Types
<1>1. ASSUME NEW h \in Holders, NEW o \in Objects, Create(h, o)
      PROVE  Types'
  <2>1. /\ Append(managed, o) \in Seq(Objects) /\ IsInjective(Append(managed, o))
    BY <1>1, AppendFacts DEF Types, Unknown, Create
  <2>2. /\ state' \in [Objects -> {"unborn", "live", "draining", "aborting", "ended"}]
    BY <1>1 DEF Types, Create
  <2>4. refcount' \in [Objects -> Int] /\ holds' \in [Holders -> SUBSET Objects]
    BY <1>0, <1>1 DEF Create
  <2>3. managed' \in Seq(Objects) /\ IsInjective(managed')
    BY <1>1, <2>1 DEF Create
  <2> QED BY <1>1, <2>2, <2>3, <2>4 DEF Types, Create, monitorVars
<1>2. ASSUME NEW h \in Holders, NEW x \in Objects, Release(h, x)
      PROVE  Types'
  <2>1. Released({x}, refcount) \in [Objects -> Int]
    BY DEF Types, Released
  <2> QED BY <1>2, <2>1 DEF Types, Release, monitorVars
<1>3. ASSUME NEW h \in Holders, NEW p \in Objects, NEW x \in Objects \cup {None},
             NEW kind \in {"seq", "conc"}, Send(h, p, x, kind)
      PROVE  Types'
  <2>1. Pack(x) \in [Objects -> Int]
    BY <1>0 DEF Pack
  <2>2. queue' \in [Objects -> Seq(Messages)]
    <3>1. CASE Serving(p)
      <4>1. [kind |-> kind, ref |-> x] \in Messages
        BY DEF Messages
      <4>2. Append(queue[p], [kind |-> kind, ref |-> x]) \in Seq(Messages)
        BY <4>1, AppendProperties DEF Types
      <4> QED BY <1>3, <3>1, <4>2 DEF Types, Send
    <3> QED BY <1>3, <3>1 DEF Types, Send
  <2>3. lost' \in [Objects -> Nat]
    <3>1. CASE lost' = lost
      BY <3>1 DEF Types
    <3>2. CASE x \in Objects /\ lost' = [lost EXCEPT ![x] = @ + 1]
      <4>1. lost[x] + 1 \in Nat
        BY <1>0, <3>2
      <4> QED BY <1>0, <3>2, <4>1
    <3>3. lost' = lost \/ (x \in Objects /\ lost' = [lost EXCEPT ![x] = @ + 1])
      BY <1>3 DEF Send
    <3> QED BY <3>1, <3>2, <3>3
  <2>4. calls' \in 0..MaxCalls
    BY <1>3, CollectionAssumption DEF Types, Send
  <2> QED BY <1>3, <2>1, <2>2, <2>3, <2>4 DEF Types, Send, monitorVars
<1>4. ASSUME NEW p \in Objects, Start(p)
      PROVE  Types'
  <2> DEFINE r == Head(queue[p])
  <2>1. r \in Messages /\ Tail(queue[p]) \in Seq(Messages)
    BY <1>4, HeadTailProperties DEF Types, Start
  <2>2. r.kind \in {"seq", "conc"} /\ r.ref \in Objects \cup {None}
    BY <2>1 DEF Messages
  <2> HIDE DEF r
  <2>3. queue' \in [Objects -> Seq(Messages)]
    BY <1>4, <2>1 DEF Types, Start
  <2>4. \/ UNCHANGED <<refcount, holds, run>>
        \/ /\ run' = [run EXCEPT ![p] = r.kind]
           /\ \/ UNCHANGED <<refcount, holds>>
              \/ /\ r.ref \in Objects /\ refcount' = Unpack(p, r.ref)
                 /\ holds' = [holds EXCEPT ![p] = @ \cup {r.ref}]
    BY <1>4, <2>2 DEF Start, r
  <2>5. /\ run' \in [Objects -> {None, "seq", "conc"}]
        /\ holds' \in [Holders -> SUBSET Objects]
        /\ refcount' \in [Objects -> Int]
    <3>1. run' \in [Objects -> {None, "seq", "conc"}]
      BY <2>2, <2>4 DEF Types
    <3>2. holds' \in [Holders -> SUBSET Objects]
      <4>1. ASSUME NEW x \in Objects
            PROVE  [holds EXCEPT ![p] = @ \cup {x}] \in [Holders -> SUBSET Objects]
        BY <1>0, GetsFacts, Names DEF Gets
      <4>2. \/ holds' = holds
            \/ \E x \in Objects : holds' = [holds EXCEPT ![p] = @ \cup {x}]
        BY <2>4
      <4>3. holds \in [Holders -> SUBSET Objects]
        BY DEF Types
      <4> QED BY <4>1, <4>2, <4>3
    <3>3. refcount' \in [Objects -> Int]
      <4>1. ASSUME NEW x \in Objects
            PROVE  Unpack(p, x) \in [Objects -> Int]
        <5>1. refcount[x] \in Int /\ refcount[x] - 1 \in Int
          BY DEF Types
        <5>2. (IF x \in holds[p] THEN refcount[x] - 1 ELSE refcount[x]) \in Int
          BY <5>1
        <5> QED BY <5>2 DEF Types, Unpack
      <4> QED BY <2>4, <4>1 DEF Types
    <3> QED BY <3>1, <3>2, <3>3
  <2> QED BY <1>4, <2>3, <2>5 DEF Types, Start, monitorVars
<1>5. ASSUME NEW p \in Objects, Finish(p)
      PROVE  Types'
  BY <1>5 DEF Types, Finish, monitorVars
<1>6. ASSUME NEW p \in Objects, Drain(p)
      PROVE  Types'
  BY <1>6 DEF Types, Drain, monitorVars
<1>7. ASSUME NEW o \in Objects, End(o)
      PROVE  Types'
  <2>1. Released(holds[o], refcount) \in [Objects -> Int]
    BY DEF Types, Released
  <2>2. /\ state' \in [Objects -> {"unborn", "live", "draining", "aborting", "ended"}]
        /\ refcount' \in [Objects -> Int]
    BY <1>7, <2>1 DEF Types, End
  <2>3. holds' \in [Holders -> SUBSET Objects] /\ queue' \in [Objects -> Seq(Messages)]
    BY <1>7, Names, EmptySeq DEF Types, End
  <2>4. lost' \in [Objects -> Nat] /\ run' \in [Objects -> {None, "seq", "conc"}]
    BY <1>7 DEF Types, End
  <2> QED BY <1>7, <2>2, <2>3, <2>4 DEF Types, End, monitorVars
<1>8. ASSUME NEW o \in Objects, UnManage(o)
      PROVE  Types'
  <2>1. Without(managed, o) \in Seq(Objects) /\ IsInjective(Without(managed, o))
    BY WithoutFacts DEF Types
  <2> QED BY <1>8, <2>1 DEF Types, UnManage, objectVars, monitorVars
<1>9. ASSUME NEW p \in Objects, Throws(p)
      PROVE  Types'
  <2>1. Without(managed, p) \in Seq(Objects) /\ IsInjective(Without(managed, p))
    BY WithoutFacts DEF Types
  <2> QED BY <1>9, <2>1 DEF Types, Throws, monitorVars
<1>10. ASSUME NEW S, Exit(S)
       PROVE  /\ state' \in [Objects -> {"unborn", "live", "draining", "aborting", "ended"}]
              /\ refcount' \in [Objects -> Int]
              /\ holds' \in [Holders -> SUBSET Objects]
              /\ run' \in [Objects -> {None, "seq", "conc"}]
              /\ queue' \in [Objects -> Seq(Messages)]
  <2>1. <<>> \in Seq(Messages)
    BY EmptySeq
  <2> QED BY <1>10, <2>1 DEF Types, Exit
<1>11. <<>> \in Seq(Objects) /\ IsInjective(<<>>)
  BY EmptySeq, EmptyFacts
<1>12. ASSUME NEW p \in Objects, Abort(p)
       PROVE  Types'
  <2>1. PICK S : Exit(S)
    BY <1>12 DEF Abort
  <2>2. managed' = managed \/ managed' = <<>>
    BY <1>12 DEF Abort
  <2> HIDE DEF CInv
  <2>3. Types
    BY DEF CInv
  <2>4. UNCHANGED <<calls, lost, monitorVars>>
    BY <1>12 DEF Abort
  <2> QED BY <1>10, <1>11, <2>1, <2>2, <2>3, <2>4 DEF Types, monitorVars
<1>13. CASE MainEnds
  BY <1>13 DEF Types, MainEnds, objectVars
<1>14. CASE MainFails
  <2>1. Exit(ToSet(managed))
    BY <1>14 DEF MainFails
  <2> QED BY <1>10, <1>11, <2>1, <1>14 DEF Types, MainFails
<1>15. CASE StartRound
  BY <1>15 DEF Types, StartRound, objectVars
<1>16. CASE Ask
  <2> DEFINE o == Head(todo)
  <2>1. /\ o \in Objects /\ Tail(todo) \in Seq(Objects)
    BY <1>16, HeadTailProperties DEF Ask, Types
  <2>2. Without(managed, o) \in Seq(Objects) /\ IsInjective(Without(managed, o))
    BY WithoutFacts DEF Types
  <2>3. active' \in BOOLEAN
    BY <1>16 DEF Ask, Types
  <2> HIDE DEF o
  <2>4. /\ refcount' \in [Objects -> Int] /\ todo' \in Seq(Objects)
        /\ managed' \in Seq(Objects) /\ IsInjective(managed')
        /\ mon' \in {"ask", "decide"} /\ (mon' = "decide" => todo' # <<>>)
    <3>1. CASE Serving(o)
      <4>1. /\ refcount' = [refcount EXCEPT ![o] = @ + 1]
            /\ UNCHANGED <<managed, todo>> /\ mon' = "decide" /\ todo # <<>>
        BY <1>16, <3>1 DEF Ask, o
      <4> QED BY <4>1, <2>1 DEF Types
    <3>2. CASE ~Serving(o)
      BY <1>16, <2>1, <2>2, <3>2 DEF Types, Ask, o
    <3> QED BY <3>1, <3>2
  <2>5. UNCHANGED <<state, holds, queue, run, calls, lost, finalizing, isActive, taken>>
        /\ mon = "ask"
    BY <1>16 DEF Ask
  <2> QED BY <2>3, <2>4, <2>5 DEF Types
<1>17. CASE Decide
  <2> DEFINE o == Head(todo)
  <2>1. /\ o \in Objects /\ Tail(todo) \in Seq(Objects)
    BY <1>17, HeadTailProperties DEF Decide, Types
  <2>2. Without(managed, o) \in Seq(Objects) /\ IsInjective(Without(managed, o))
    BY WithoutFacts DEF Types
  <2> HIDE DEF o
  <2>3. refcount' \in [Objects -> Int] /\ taken' \in [Objects -> Nat]
    <3>1. CASE UNCHANGED <<refcount, taken>>
      BY <3>1 DEF Types
    <3>2. ASSUME NEW a \in 1..2, NEW b \in 0..1,
                 refcount' = [refcount EXCEPT ![o] = @ - a], taken' = [taken EXCEPT ![o] = @ + b]
          PROVE  refcount' \in [Objects -> Int] /\ taken' \in [Objects -> Nat]
      <4>1. refcount[o] - a \in Int /\ taken[o] + b \in Nat
        BY <1>0, <2>1
      <4>2. refcount' \in [Objects -> Int]
        BY <3>2, <4>1 DEF Types
      <4> QED BY <3>2, <4>1, <4>2 DEF Types
    <3>3. \/ UNCHANGED <<refcount, taken>>
          \/ \E a \in 1..2, b \in 0..1 : /\ refcount' = [refcount EXCEPT ![o] = @ - a]
                                       /\ taken' = [taken EXCEPT ![o] = @ + b]
      BY <1>17 DEF Decide, o
    <3> QED BY <3>1, <3>2, <3>3
  <2>4. managed' \in Seq(Objects) /\ IsInjective(managed')
    BY <1>17, <2>2 DEF Types, Decide, o
  <2> QED BY <1>17, <2>1, <2>3, <2>4 DEF Types, Decide
<1>18. CASE EndRound
  BY <1>18 DEF Types, EndRound, objectVars
<1>19. CASE UNCHANGED vars
  BY <1>19 DEF Types, vars, objectVars, monitorVars
<1> HIDE DEF CInv
<1> QED
  BY <1>1, <1>2, <1>3, <1>4, <1>5, <1>6, <1>7, <1>8, <1>9, <1>12, <1>13, <1>14,
     <1>15, <1>16, <1>17, <1>18, <1>19 DEF Next, ObjectStep, MonitorStep

(* At first nothing lives.                                                 *)
LEMMA LivesInit == ASSUME Init PROVE Idle /\ Listed /\ ServicesLast
BY Names DEF Init, Idle, Listed, ServicesLast, Serving

(* A step that ends every object of the list leaves none that serves.      *)
LEMMA ExitEndsAll ==
  ASSUME Types, Listed, NEW S, ToSet(managed) \subseteq S, Exit(S)
  PROVE  \A o \in Objects : ~Serving(o)'
BY DEF Types, Listed, Exit, Serving

(* The list keeps all that serve, and the services stop after them.        *)
LEMMA ListedStep == ASSUME CInv, [Next]_vars PROVE Listed' /\ ServicesLast'
<1> USE DEF CInv
<1> DEFINE Fewer == \A o \in Objects : Serving(o)' => Serving(o)
<1>1. ASSUME NEW h \in Holders, NEW o \in Objects, Create(h, o)
      PROVE  Listed' /\ ServicesLast'
  <2>1. ToSet(managed') = ToSet(managed) \cup {o}
    BY <1>1, AppendFacts DEF Types, Unknown, Create
  <2> QED BY <1>1, <2>1 DEF Types, Listed, ServicesLast, Serving, Create, MutexFree, monitorVars
<1>2. ASSUME Fewer, UNCHANGED managed
      PROVE  Listed'
  BY <1>2 DEF Listed
<1>3. ASSUME Fewer, mon' = "stopped" => mon = "stopped"
      PROVE  ServicesLast'
  BY <1>3 DEF ServicesLast
<1>4. ASSUME UNCHANGED state
      PROVE  Fewer
  BY <1>4 DEF Serving
<1>5. ASSUME NEW h \in Holders, NEW x \in Objects, Release(h, x)
      PROVE  Listed' /\ ServicesLast'
  BY <1>2, <1>3, <1>4, <1>5 DEF Release, monitorVars
<1>6. ASSUME NEW h \in Holders, NEW p \in Objects, NEW x \in Objects \cup {None},
             NEW kind \in {"seq", "conc"}, Send(h, p, x, kind)
      PROVE  Listed' /\ ServicesLast'
  BY <1>2, <1>3, <1>4, <1>6 DEF Send, monitorVars
<1>7. ASSUME NEW p \in Objects, Start(p) \/ Finish(p)
      PROVE  Listed' /\ ServicesLast'
  BY <1>2, <1>3, <1>4, <1>7 DEF Start, Finish, monitorVars
<1>8. ASSUME NEW o \in Objects, Drain(o) \/ End(o)
      PROVE  Listed' /\ ServicesLast'
  <2>1. Fewer
    BY <1>8 DEF Types, Serving, Drain, CanDrain, End, CanEnd
  <2>2. UNCHANGED <<managed, mon>>
    BY <1>8 DEF Drain, End, monitorVars
  <2> HIDE DEF Fewer
  <2> QED BY <1>2, <1>3, <2>1, <2>2
<1>9. ASSUME NEW o \in Objects, UnManage(o)
      PROVE  Listed' /\ ServicesLast'
  <2>1. ToSet(managed') = ToSet(managed) \ {o}
    BY <1>9, WithoutFacts DEF Types, UnManage
  <2>2. UNCHANGED <<state, mon>> /\ state[o] = "ended"
    BY <1>9 DEF UnManage, objectVars, monitorVars
  <2> QED BY <1>3, <1>4, <2>1, <2>2 DEF Listed, Serving
<1>10. ASSUME NEW p \in Objects, Throws(p)
       PROVE  Listed' /\ ServicesLast'
  <2>1. ToSet(managed') = ToSet(managed) \ {p}
    BY <1>10, WithoutFacts DEF Types, Throws
  <2>2. UNCHANGED mon /\ state' = [state EXCEPT ![p] = "aborting"]
    BY <1>10 DEF Throws, monitorVars
  <2>3. Fewer /\ ~Serving(p)'
    BY <2>2 DEF Types, Serving
  <2> HIDE DEF Fewer
  <2>4. Listed'
    BY <2>1, <2>3 DEF Listed, Fewer
  <2> QED BY <1>3, <2>2, <2>3, <2>4
<1>11. ASSUME NEW p \in Objects, Abort(p)
       PROVE  Listed' /\ ServicesLast'
  <2>1. UNCHANGED mon
    BY <1>11 DEF Abort, monitorVars
  <2>2. CASE mon = "stopped"
    <3>1. Exit({p}) /\ UNCHANGED managed
      BY <1>11, <2>2 DEF Abort
    <3>2. Fewer
      BY <3>1 DEF Exit, Types, Serving
    <3> HIDE DEF Fewer
    <3> QED BY <1>2, <1>3, <2>1, <3>1, <3>2
  <2>3. CASE mon # "stopped"
    <3>1. \A o \in Objects : ~Serving(o)'
      BY <1>11, <2>3, ExitEndsAll DEF Abort
    <3> QED BY <3>1 DEF Listed, ServicesLast
  <2> QED BY <2>2, <2>3
<1>12. CASE MainFails
  <2>1. \A o \in Objects : ~Serving(o)'
    BY <1>12, ExitEndsAll DEF MainFails
  <2> QED BY <2>1 DEF Listed, ServicesLast
<1>13. CASE MainEnds \/ StartRound
  BY <1>2, <1>3, <1>4, <1>13 DEF MainEnds, StartRound, objectVars
<1>14. CASE Ask \/ Decide
  <2>1. /\ UNCHANGED state /\ mon' # "stopped"
        /\ managed' = managed \/ (managed' = Without(managed, Head(todo)) /\ ~Serving(Head(todo)))
    BY <1>14 DEF Ask, Decide
  <2>2. ToSet(managed') = ToSet(managed)
        \/ (ToSet(managed') = ToSet(managed) \ {Head(todo)} /\ ~Serving(Head(todo)))
    BY <2>1, WithoutFacts DEF Types
  <2> QED BY <2>1, <2>2 DEF Listed, ServicesLast, Serving
<1>15. CASE EndRound
  <2>1. UNCHANGED <<state, managed>> /\ (mon' = "stopped" => managed = <<>>)
    BY <1>15 DEF EndRound, objectVars
  <2>2. managed = <<>> => \A o \in Objects : ~Serving(o)
    BY EmptyFacts DEF Listed
  <2> QED BY <1>2, <1>4, <2>1, <2>2 DEF ServicesLast
<1>16. CASE UNCHANGED vars
  BY <1>2, <1>3, <1>4, <1>16 DEF vars, objectVars, monitorVars
<1> HIDE DEF CInv, Fewer
<1> QED
  BY <1>1, <1>5, <1>6, <1>7, <1>8, <1>9, <1>10, <1>11, <1>12, <1>13,
     <1>14, <1>15, <1>16 DEF Next, ObjectStep, MonitorStep

(* A process that was not started, or has ended, has nothing.              *)
LEMMA IdleStep == ASSUME CInv, [Next]_vars PROVE Idle'
<1> USE DEF CInv
<1>0. \A h \in Holders : Runs(h) => h \notin Objects \/ Serving(h)
  BY Names DEF Runs
<1>1. ASSUME NEW h \in Holders, NEW o \in Objects, Create(h, o)
      PROVE  Idle'
  BY <1>0, <1>1, Names DEF Types, Idle, Create, Serving
<1>2. ASSUME NEW h \in Holders, NEW x \in Objects, Release(h, x)
      PROVE  Idle'
  <2>1. \A y \in Objects : ~Serving(y) => holds'[y] = holds[y] /\ refcount'[y] = refcount[y]
    BY <1>0, <1>2, Names DEF Types, Release, Released
  <2>2. UNCHANGED <<state, run, queue>>
    BY <1>2 DEF Release
  <2> QED BY <2>1, <2>2 DEF Idle, Serving
<1>3. ASSUME NEW h \in Holders, NEW p \in Objects, NEW x \in Objects \cup {None},
             NEW kind \in {"seq", "conc"}, Send(h, p, x, kind)
      PROVE  Idle'
  <2>1. \A y \in Objects : ~Serving(y) => queue'[y] = queue[y]
    BY <1>3 DEF Types, Send
  <2>2. \A y \in Objects : ~Serving(y) => refcount'[y] = refcount[y]
    BY <1>3 DEF Types, Send, Pack
  <2>3. UNCHANGED <<state, run, holds>>
    BY <1>3 DEF Send
  <2> QED BY <2>1, <2>2, <2>3 DEF Idle, Serving
<1>4. ASSUME NEW p \in Objects, Start(p)
      PROVE  Idle'
  <2> DEFINE r == Head(queue[p])
  <2>1. \A y \in Objects : y # p => queue'[y] = queue[y] /\ run'[y] = run[y] /\ holds'[y] = holds[y]
    BY <1>4, Names DEF Types, Start
  <2>2. \A y \in Objects : ~Serving(y) => refcount'[y] = refcount[y]
    <3>1. \/ UNCHANGED refcount
          \/ /\ r.ref # None /\ Serving(r.ref) /\ refcount' = Unpack(p, r.ref)
      BY <1>4 DEF Start
    <3> HIDE DEF r
    <3> QED BY <3>1 DEF Types, Unpack
  <2>3. UNCHANGED state /\ Serving(p)
    BY <1>4 DEF Start
  <2> QED BY <2>1, <2>2, <2>3 DEF Idle, Serving
<1>5. ASSUME NEW p \in Objects, Finish(p)
      PROVE  Idle'
  BY <1>5 DEF Types, Idle, Finish, Serving
<1>6. ASSUME NEW o \in Objects, Drain(o)
      PROVE  Idle'
  BY <1>6 DEF Types, Idle, Drain, CanDrain
<1>7. ASSUME NEW o \in Objects, End(o)
      PROVE  Idle'
  <2>1. \A y \in Objects : ~Serving(y) => holds'[y] = holds[y] /\ refcount'[y] = refcount[y]
    BY <1>7, Names DEF Types, End, CanEnd, Released, Serving
  <2>2. UNCHANGED <<run, queue>> /\ run[o] = None /\ queue[o] = <<>>
    BY <1>7 DEF End, CanEnd
  <2>3. holds'[o] = {} /\ refcount'[o] = 0
    BY <1>7, Names DEF Types, End, Released
  <2>4. \A y \in Objects : y # o => state'[y] = state[y]
    BY <1>7 DEF Types, End
  <2> QED BY <2>1, <2>2, <2>3, <2>4 DEF Idle, Serving
<1>8. ASSUME NEW p \in Objects, Throws(p)
      PROVE  Idle'
  BY <1>8 DEF Types, Idle, Throws
<1>9. ASSUME NEW S, Exit(S)
      PROVE  Idle'
  BY <1>9, Names DEF Types, Idle, Exit
<1>10. ASSUME NEW p \in Objects, Abort(p)
       PROVE  Idle'
  BY <1>9, <1>10 DEF Abort
<1>11. CASE MainFails
  BY <1>9, <1>11 DEF MainFails
<1>12. CASE Ask \/ Decide
  <2>1. Head(todo) \in Objects
    BY <1>12, HeadTailProperties DEF Types, Ask, Decide
  <2>2. UNCHANGED <<state, run, queue, holds>>
    BY <1>12 DEF Ask, Decide
  <2>3. \A y \in Objects : ~Serving(y) => refcount'[y] = refcount[y]
    BY <1>12, <2>1 DEF Types, Ask, Decide
  <2> QED BY <2>2, <2>3 DEF Idle, Serving
<1>13. ASSUME UNCHANGED <<state, run, queue, holds, refcount>>
       PROVE  Idle'
  BY <1>13 DEF Idle
<1>14. ASSUME NEW o \in Objects, UnManage(o)
       PROVE  Idle'
  BY <1>13, <1>14 DEF UnManage, objectVars
<1>15. CASE MainEnds \/ StartRound \/ EndRound \/ UNCHANGED vars
  BY <1>13, <1>15 DEF MainEnds, StartRound, EndRound, vars, objectVars
<1> HIDE DEF CInv
<1> QED
  BY <1>1, <1>2, <1>3, <1>4, <1>5, <1>6, <1>7, <1>8, <1>10, <1>11, <1>12,
     <1>14, <1>15 DEF Next, ObjectStep, MonitorStep

-----------------------------------------------------------------------------
(* What the steps do to the references.                                    *)

(* A created object is connected to its creator alone.                     *)
LEMMA CreateRefs ==
  ASSUME Types, NEW h \in Holders, NEW x \in Objects, Create(h, x)
  PROVE  /\ UNCHANGED queue
         /\ \A o \in Objects \ {x} : Held(holds', o) = Held(holds, o)
         /\ Held(holds, x) = {} => Cardinality(Held(holds', x)) = 1
<1>1. holds \in [Holders -> SUBSET Objects] /\ holds' = [holds EXCEPT ![h] = @ \cup {x}]
      /\ UNCHANGED queue
  BY DEF Types, Create
<1>2. Held(holds', x) = Held(holds, x) \cup {h}
      /\ \A o \in Objects \ {x} : Held(holds', o) = Held(holds, o)
  <2>1. Gets(holds, holds', h, x)
    BY <1>1 DEF Gets
  <2> QED BY <2>1, GetsFacts
<1>3. Cardinality({h}) = 1
  BY FS_Singleton
<1>4. Held(holds, x) = {} => Held(holds', x) = {h}
  BY <1>2
<1> QED BY <1>1, <1>2, <1>3, <1>4

(* A call may put one more on its way, of one that the caller has.         *)
LEMMA SendRefs ==
  ASSUME Types, NEW h \in Holders, NEW p \in Objects, NEW x \in Objects \cup {None},
         NEW kind \in {"seq", "conc"}, Send(h, p, x, kind), NEW o \in Objects
  PROVE  /\ UNCHANGED holds /\ (x = o => Held(holds, o) # {})
         /\ Cardinality(Marks(queue', o)) =
              Cardinality(Marks(queue, o)) + (IF Serving(p) /\ x = o THEN 1 ELSE 0)
         /\ x # o => Marks(queue', o) = Marks(queue, o)
<1>1. UNCHANGED holds /\ x \in holds[h] \cup {None}
  BY DEF Send
<1>2. x = o => Held(holds, o) # {}
  BY <1>1, Names DEF Held
<1>3. CASE ~Serving(p)
  <2>1. queue' = queue
    BY <1>3 DEF Send
  <2>2. Cardinality(Marks(queue, o)) \in Nat
    BY MarksFinite, FS_CardinalityType DEF Types
  <2> QED BY <1>1, <1>2, <1>3, <2>1, <2>2
<1>4. CASE Serving(p)
  <2> DEFINE r == [kind |-> kind, ref |-> x]
  <2>1. r \in Messages /\ r.ref = x
    BY DEF Messages
  <2> HIDE DEF r
  <2>2. queue' = [queue EXCEPT ![p] = Append(@, r)] /\ queue \in [Objects -> Seq(Messages)]
    BY <1>4 DEF Send, r, Types
  <2>3. Append(queue[p], r) \in Seq(Messages)
    BY <2>1, <2>2, AppendProperties
  <2>4. /\ queue' \in [Objects -> Seq(Messages)] /\ queue'[p] = Append(queue[p], r)
        /\ \A y \in Objects \ {p} : queue'[y] = queue[y]
    BY <2>2, <2>3
  <2>5. /\ Cardinality(Marks(queue', o)) = Cardinality(Marks(queue, o)) + (IF r.ref = o THEN 1 ELSE 0)
        /\ r.ref # o => Marks(queue', o) = Marks(queue, o)
    <3>1. Queued(queue, queue', p, r)
      BY <2>1, <2>2, <2>4 DEF Queued
    <3> QED BY <3>1, MarksAppend
  <2> QED BY <1>1, <1>2, <1>4, <2>1, <2>5
<1> QED BY <1>3, <1>4

(* When a method starts its message is gone; the object may have the       *)
(* reference that the message carried.                                     *)
LEMMA StartRefs ==
  ASSUME Types, NEW p \in Objects, Start(p), NEW o \in Objects
  PROVE  LET x == Head(queue[p]).ref
             gets == x # None /\ Serving(x) IN
         /\ x \in Objects \cup {None}
         /\ Cardinality(Marks(queue', o)) =
              Cardinality(Marks(queue, o)) - (IF x = o THEN 1 ELSE 0)
         /\ Cardinality(Held(holds', o)) =
              Cardinality(Held(holds, o)) + (IF gets /\ x = o /\ o \notin holds[p] THEN 1 ELSE 0)
         /\ (~gets \/ x # o) => Held(holds', o) = Held(holds, o)
         /\ x = o => Marks(queue, o) # {}
         /\ Marks(queue', o) # {} => Marks(queue, o) # {}
         /\ gets => refcount' = Unpack(p, x)
         /\ ~gets => UNCHANGED refcount
<1> DEFINE x == Head(queue[p]).ref
           gets == x # None /\ Serving(x)
<1>1. queue \in [Objects -> Seq(Messages)] /\ queue[p] # <<>>
      /\ queue' = [queue EXCEPT ![p] = Tail(@)]
  BY DEF Types, Start
<1>2. Tail(queue[p]) \in Seq(Messages) /\ Head(queue[p]) \in Messages
  BY <1>1, HeadTailProperties
<1>3. /\ queue' \in [Objects -> Seq(Messages)] /\ queue'[p] = Tail(queue[p])
      /\ \A y \in Objects \ {p} : queue'[y] = queue[y]
  BY <1>1, <1>2
<1>4. /\ Cardinality(Marks(queue', o)) = Cardinality(Marks(queue, o)) - (IF x = o THEN 1 ELSE 0)
      /\ Marks(queue', o) # {} => Marks(queue, o) # {}
      /\ x = o => Marks(queue, o) # {}
  <2>1. Dequeued(queue, queue', p)
    BY <1>1, <1>3 DEF Dequeued
  <2> QED BY <2>1, MarksTail
<1>5. x \in Objects \cup {None}
  BY <1>2 DEF Messages
<1>6. /\ gets => refcount' = Unpack(p, x) /\ holds' = [holds EXCEPT ![p] = @ \cup {x}]
      /\ ~gets => UNCHANGED <<refcount, holds>>
  BY DEF Start
<1>7. holds \in [Holders -> SUBSET Objects] /\ p \in Holders
  BY Names DEF Types
<1> HIDE DEF x
<1>8. Cardinality(Held(holds, o)) \in Nat
  BY HeldFinite
<1> DEFINE more == IF gets /\ x = o /\ o \notin holds[p] THEN 1 ELSE 0
<1>9. /\ Cardinality(Held(holds', o)) = Cardinality(Held(holds, o)) + more
      /\ (~gets \/ x # o) => Held(holds', o) = Held(holds, o)
  <2>1. CASE ~gets
    <3>1. holds' = holds /\ more = 0
      BY <1>6, <2>1
    <3> HIDE DEF more
    <3> QED BY <1>8, <2>1, <3>1
  <2>2. CASE gets
    <3>1. Gets(holds, holds', p, x)
      BY <1>5, <1>6, <1>7, <2>2 DEF Gets
    <3>2. /\ Held(holds', o) = IF o = x THEN Held(holds, o) \cup {p} ELSE Held(holds, o)
          /\ Cardinality(Held(holds', o)) =
               Cardinality(Held(holds, o)) + (IF o = x /\ x \notin holds[p] THEN 1 ELSE 0)
      BY <3>1, GetsFacts
    <3>3. more = IF o = x /\ x \notin holds[p] THEN 1 ELSE 0
      BY <2>2
    <3> HIDE DEF more, gets
    <3> QED BY <2>2, <3>2, <3>3
  <2> QED BY <2>1, <2>2
<1> QED BY <1>4, <1>5, <1>6, <1>9 DEF x

(* Who ends gives up what it has, and the messages in its queue are gone.  *)
LEMMA EndRefs ==
  ASSUME Types, NEW x \in Objects, End(x), NEW o \in Objects
  PROVE  /\ UNCHANGED queue /\ Held(holds', o) \subseteq Held(holds, o)
         /\ Cardinality(Held(holds', o)) =
              Cardinality(Held(holds, o)) - (IF o \in holds[x] THEN 1 ELSE 0)
<1>1. Drops(holds, holds', x, Objects) /\ UNCHANGED queue
  BY Names DEF Types, End, Drops
<1> QED BY <1>1, DropsFacts

(* An interface that is destroyed is one reference less.                   *)
LEMMA ReleaseRefs ==
  ASSUME Types, NEW h \in Holders, NEW x \in Objects, Release(h, x), NEW o \in Objects
  PROVE  /\ UNCHANGED queue /\ Held(holds', o) \subseteq Held(holds, o)
         /\ Cardinality(Held(holds', o)) =
              Cardinality(Held(holds, o)) - (IF o = x THEN 1 ELSE 0)
<1>1. Drops(holds, holds', h, {x}) /\ UNCHANGED queue /\ x \in holds[h]
  BY DEF Types, Release, Drops
<1> QED BY <1>1, DropsFacts

(* Processes that are killed leave no new reference behind.                *)
LEMMA ExitRefs ==
  ASSUME Types, Types', NEW S, Exit(S), NEW o
  PROVE  Held(holds', o) \subseteq Held(holds, o) /\ Marks(queue', o) \subseteq Marks(queue, o)
<1>1. Held(holds', o) \subseteq Held(holds, o)
  BY DEF Held, Exit
<1>2. ASSUME NEW m \in Marks(queue', o)
      PROVE  m \in Marks(queue, o)
  <2> DEFINE n == queue'
  <2>1. n \in [Objects -> Seq(Messages)] /\ queue \in [Objects -> Seq(Messages)]
    BY DEF Types
  <2>2. \A p \in Objects : n[p] = queue[p] \/ n[p] = <<>>
    BY DEF Exit
  <2>3. m \in Marks(n, o)
    OBVIOUS
  <2> HIDE DEF n
  <2>4. PICK p \in Objects, i \in Nat : i \in 1..Len(n[p]) /\ m = <<p, i>>
    BY <2>1, <2>3, MarksAre
  <2>5. n[p][i].ref = o
    <3>1. <<p, i>> \in Marks(n, o)
      BY <2>3, <2>4
    <3>2. \A y \in Objects : \A j \in 1..Len(n[y]) : <<y, j>> \in Marks(n, o) <=> n[y][j].ref = o
      BY <2>1, MarksAre
    <3> QED BY <2>4, <3>1, <3>2
  <2>6. n[p] # <<>>
    BY <2>4, EmptySeq
  <2>7. i \in 1..Len(queue[p]) /\ queue[p][i].ref = o
    BY <2>2, <2>4, <2>5, <2>6
  <2> QED BY <2>1, <2>4, <2>7, MarksAre
<1> QED BY <1>1, <1>2

(* References come from references: there is none to an object to which    *)
(* there was none, unless it was created.                                  *)
LEMMA NothingFromNothing ==
  ASSUME Types, Types', [Next]_vars, NEW o \in Objects,
         Held(holds, o) = {}, Marks(queue, o) = {},
         ~ \E h \in Holders : Create(h, o)
  PROVE  Held(holds', o) = {} /\ Marks(queue', o) = {}
<1> DEFINE Goal == Held(holds', o) = {} /\ Marks(queue', o) = {}
<1> SUFFICES Goal
  OBVIOUS
<1>0. ASSUME UNCHANGED <<holds, queue>>
      PROVE  Goal
  BY <1>0
<1>1. ASSUME NEW h \in Holders, NEW x \in Objects, Create(h, x)
      PROVE  Goal
  BY <1>1, CreateRefs
<1>2. ASSUME NEW h \in Holders, NEW x \in Objects, Release(h, x)
      PROVE  Goal
  BY <1>2, ReleaseRefs
<1>3. ASSUME NEW h \in Holders, NEW p \in Objects, NEW x \in Objects \cup {None},
             NEW kind \in {"seq", "conc"}, Send(h, p, x, kind)
      PROVE  Goal
  BY <1>3, SendRefs
<1>4. ASSUME NEW p \in Objects, Start(p)
      PROVE  Goal
  BY <1>4, StartRefs
<1>5. ASSUME NEW x \in Objects, End(x)
      PROVE  Goal
  BY <1>5, EndRefs
<1>6. ASSUME NEW S, Exit(S)
      PROVE  Goal
  BY <1>6, ExitRefs
<1>7. ASSUME NEW p \in Objects, Abort(p)
      PROVE  Goal
  BY <1>6, <1>7 DEF Abort
<1>8. CASE MainFails
  BY <1>6, <1>8 DEF MainFails
<1>9. ASSUME NEW p \in Objects, Finish(p) \/ Drain(p) \/ UnManage(p) \/ Throws(p)
      PROVE  Goal
  BY <1>0, <1>9 DEF Finish, Drain, UnManage, Throws, objectVars
<1>10. CASE MainEnds \/ StartRound \/ Ask \/ Decide \/ EndRound \/ UNCHANGED vars
  BY <1>0, <1>10 DEF MainEnds, StartRound, Ask, Decide, EndRound, vars, objectVars
<1> HIDE DEF Goal
<1> QED
  BY <1>1, <1>2, <1>3, <1>4, <1>5, <1>7, <1>8, <1>9, <1>10 DEF Next, ObjectStep, MonitorStep

-----------------------------------------------------------------------------
(* Unknown and NoReference.                                                *)

(* At first nobody knows of anything.                                      *)
LEMMA RefsInit == ASSUME Init PROVE Unknown /\ NoReference /\ Counted
<1>1. \A o \in Objects : state[o] = "unborn" /\ lost[o] = 0 /\ taken[o] = 0
  BY DEF Init
<1>2. ToSet(managed) = {}
  BY EmptyFacts DEF Init
<1>3. \A o : Held(holds, o) = {}
  BY DEF Init, Held
<1>4. \A o : Marks(queue, o) = {}
  BY DEF Init, Marks
<1> QED BY <1>1, <1>2, <1>3, <1>4 DEF Unknown, NoReference, Counted, Serving

(* What a step does to the history and the list of an object that was not  *)
(* created before it nor in it: nothing.                                   *)
LEMMA UnbornStays ==
  ASSUME CInv, [Next]_vars, NEW o \in Objects, state'[o] = "unborn"
  PROVE  /\ state[o] = "unborn" /\ o \notin ToSet(managed')
         /\ lost'[o] = lost[o] /\ taken'[o] = taken[o]
         /\ ~ \E h \in Holders : Create(h, o)
<1> USE DEF CInv
<1> DEFINE Goal == /\ state[o] = "unborn" /\ o \notin ToSet(managed')
                   /\ lost'[o] = lost[o] /\ taken'[o] = taken[o]
<1>0. ~ \E h \in Holders : Create(h, o)
  BY DEF Create, Types
<1> SUFFICES Goal
  BY <1>0
<1>1. ASSUME UNCHANGED <<state, managed, lost, taken>>
      PROVE  Goal
  BY <1>1 DEF Unknown
<1>2. ASSUME NEW h \in Holders, NEW x \in Objects, Create(h, x)
      PROVE  Goal
  <2>1. ToSet(managed') = ToSet(managed) \cup {x}
    BY <1>2, AppendFacts DEF Types, Unknown, Create
  <2>2. x # o /\ state'[o] = state[o]
    BY <1>0, <1>2 DEF Create, Types
  <2> QED BY <1>2, <2>1, <2>2 DEF Unknown, Create, monitorVars
<1>3. ASSUME NEW h \in Holders, NEW p \in Objects, NEW x \in Objects \cup {None},
             NEW kind \in {"seq", "conc"}, Send(h, p, x, kind)
      PROVE  Goal
  <2>1. UNCHANGED <<state, managed, taken>> /\ (x = None \/ Serving(x))
        /\ (lost' = lost \/ (x # None /\ lost' = [lost EXCEPT ![x] = @ + 1]))
    BY <1>3 DEF Send, monitorVars
  <2>2. state[o] = "unborn"
    BY <2>1
  <2>3. lost'[o] = lost[o]
    BY <2>1, <2>2 DEF Serving, Types
  <2> QED BY <2>1, <2>2, <2>3 DEF Unknown
<1>4. ASSUME NEW p \in Objects, Start(p) \/ Finish(p)
      PROVE  Goal
  BY <1>1, <1>4 DEF Start, Finish, monitorVars
<1>5. ASSUME NEW p \in Objects, Drain(p) \/ End(p)
      PROVE  Goal
  BY <1>5 DEF Drain, End, CanDrain, CanEnd, monitorVars, Types, Unknown
<1>6. ASSUME NEW p \in Objects, UnManage(p)
      PROVE  Goal
  <2>1. ToSet(managed') = ToSet(managed) \ {p}
    BY <1>6, WithoutFacts DEF Types, UnManage
  <2> QED BY <1>6, <2>1 DEF UnManage, objectVars, monitorVars, Unknown
<1>7. ASSUME NEW p \in Objects, Throws(p)
      PROVE  Goal
  <2>1. ToSet(managed') = ToSet(managed) \ {p}
    BY <1>7, WithoutFacts DEF Types, Throws
  <2> QED BY <1>7, <2>1 DEF Throws, Types, monitorVars, Unknown
<1>8. ASSUME NEW S, Exit(S), managed' = managed \/ managed' = <<>>, UNCHANGED <<lost, taken>>
      PROVE  Goal
  <2>1. state[o] = "unborn"
    BY <1>8 DEF Exit
  <2>2. o \notin ToSet(managed')
    BY <1>8, <2>1, EmptyFacts DEF Unknown
  <2> QED BY <1>8, <2>1, <2>2
<1>9. ASSUME NEW p \in Objects, Abort(p)
      PROVE  Goal
  BY <1>8, <1>9 DEF Abort, monitorVars
<1>10. CASE MainFails
  <2>1. Exit(ToSet(managed)) /\ managed' = <<>> /\ UNCHANGED <<lost, taken>>
    BY <1>10 DEF MainFails
  <2> QED BY <1>8, <2>1
<1>11. ASSUME NEW h \in Holders, NEW x \in Objects, Release(h, x)
       PROVE  Goal
  BY <1>1, <1>11 DEF Release, monitorVars
<1>12. CASE Ask \/ Decide
  <2>1. UNCHANGED <<state, lost>>
        /\ (managed' = managed \/ managed' = Without(managed, Head(todo)))
        /\ (taken' = taken \/ (Serving(Head(todo)) /\ \E b \in 0..1 : taken' = [taken EXCEPT ![Head(todo)] = @ + b]))
    BY <1>12 DEF Ask, Decide
  <2>2. ToSet(managed') \subseteq ToSet(managed)
    BY <2>1, WithoutFacts DEF Types
  <2>3. taken'[o] = taken[o]
    <3>1. state[o] = "unborn"
      BY <2>1
    <3>2. CASE Head(todo) = o
      BY <2>1, <3>1, <3>2 DEF Serving
    <3>3. CASE Head(todo) # o
      BY <2>1, <3>3 DEF Types
    <3> QED BY <3>2, <3>3
  <2>4. state[o] = "unborn" /\ lost'[o] = lost[o]
    BY <2>1
  <2> QED BY <2>2, <2>3, <2>4 DEF Unknown
<1>13. CASE MainEnds \/ StartRound \/ EndRound \/ UNCHANGED vars
  <2>1. UNCHANGED <<state, managed, lost, taken>>
    BY <1>13 DEF MainEnds, StartRound, EndRound, vars, objectVars, monitorVars
  <2> QED BY <1>1, <2>1
<1> HIDE DEF CInv, Goal
<1> QED
  BY <1>2, <1>3, <1>4, <1>5, <1>6, <1>7, <1>9, <1>10, <1>11, <1>12,
     <1>13 DEF Next, ObjectStep, MonitorStep

(* Nobody knows an object before it is created.                            *)
LEMMA UnknownStep == ASSUME CInv, [Next]_vars, Types' PROVE Unknown'
<1> SUFFICES ASSUME NEW o \in Objects, state'[o] = "unborn"
             PROVE  /\ o \notin ToSet(managed') /\ Held(holds', o) = {} /\ Marks(queue', o) = {}
                    /\ lost'[o] = 0 /\ taken'[o] = 0
  BY DEF Unknown
<1>1. /\ state[o] = "unborn" /\ o \notin ToSet(managed')
      /\ lost'[o] = lost[o] /\ taken'[o] = taken[o]
      /\ ~ \E h \in Holders : Create(h, o)
  BY UnbornStays
<1>2. Held(holds', o) = {} /\ Marks(queue', o) = {}
  BY <1>1, NothingFromNothing DEF CInv, Unknown
<1> QED BY <1>1, <1>2 DEF CInv, Unknown

(* An object begins to drain in one step only, and what the monitor took   *)
(* stays taken.                                                            *)
LEMMA DrainingStays ==
  ASSUME Types, [Next]_vars, NEW o \in Objects
  PROVE  /\ state'[o] = "draining" => state[o] = "draining" \/ Drain(o)
         /\ taken'[o] = 0 => taken[o] = 0
<1> DEFINE Goal == /\ state'[o] = "draining" => state[o] = "draining" \/ Drain(o)
                   /\ taken'[o] = 0 => taken[o] = 0
<1> SUFFICES Goal
  OBVIOUS
<1>1. ASSUME UNCHANGED <<state, taken>>
      PROVE  Goal
  BY <1>1
<1>2. ASSUME NEW h \in Holders, NEW x \in Objects, Create(h, x) \/ Release(h, x)
      PROVE  Goal
  BY <1>2 DEF Create, Release, Types, monitorVars
<1>3. ASSUME NEW h \in Holders, NEW p \in Objects, NEW x \in Objects \cup {None},
             NEW kind \in {"seq", "conc"}, Send(h, p, x, kind)
      PROVE  Goal
  BY <1>1, <1>3 DEF Send, monitorVars
<1>4. ASSUME NEW p \in Objects, Start(p) \/ Finish(p) \/ UnManage(p)
      PROVE  Goal
  BY <1>1, <1>4 DEF Start, Finish, UnManage, objectVars, monitorVars
<1>5. ASSUME NEW p \in Objects, Drain(p)
      PROVE  Goal
  <2>1. taken' = taken /\ state' = [state EXCEPT ![p] = "draining"]
    BY <1>5 DEF Drain, monitorVars
  <2>2. CASE p = o
    BY <1>5, <2>1, <2>2
  <2>3. CASE p # o
    BY <2>1, <2>3 DEF Types
  <2> QED BY <2>2, <2>3
<1>6. ASSUME NEW p \in Objects, End(p) \/ Throws(p)
      PROVE  Goal
  BY <1>6 DEF End, Throws, Types, monitorVars
<1>7. ASSUME NEW S, Exit(S), UNCHANGED taken
      PROVE  Goal
  BY <1>7 DEF Exit
<1>8. ASSUME NEW p \in Objects, Abort(p)
      PROVE  Goal
  BY <1>7, <1>8 DEF Abort, monitorVars
<1>9. CASE MainFails
  <2>1. Exit(ToSet(managed)) /\ UNCHANGED taken
    BY <1>9 DEF MainFails
  <2> QED BY <1>7, <2>1
<1>10. CASE Decide
  <2>1. UNCHANGED state
    BY <1>10 DEF Decide
  <2>2. taken' = taken \/ \E b \in 0..1 : taken' = [taken EXCEPT ![Head(todo)] = @ + b]
    BY <1>10 DEF Decide
  <2>3. taken'[o] = 0 => taken[o] = 0
    <3>1. ASSUME NEW b \in 0..1, taken' = [taken EXCEPT ![Head(todo)] = @ + b], taken'[o] = 0
          PROVE  taken[o] = 0
      BY <3>1 DEF Types
    <3> QED BY <2>2, <3>1
  <2> QED BY <2>1, <2>3
<1>11. CASE MainEnds \/ StartRound \/ Ask \/ EndRound \/ UNCHANGED vars
  <2>1. UNCHANGED <<state, taken>>
    BY <1>11 DEF MainEnds, StartRound, Ask, EndRound, vars, objectVars, monitorVars
  <2> QED BY <1>1, <2>1
<1> HIDE DEF Goal
<1> QED
  BY <1>2, <1>3, <1>4, <1>5, <1>6, <1>8, <1>9, <1>10, <1>11 DEF Next, ObjectStep, MonitorStep

(* An object drains when it counts no reference, and then there is none.   *)
LEMMA NoReferenceStep == ASSUME CInv, [Next]_vars, Types' PROVE NoReference'
<1> SUFFICES ASSUME NEW o \in Objects, state'[o] = "draining", taken'[o] = 0
             PROVE  Held(holds', o) = {} /\ Marks(queue', o) = {}
  BY DEF NoReference
<1>1. taken[o] = 0 /\ (state[o] = "draining" \/ Drain(o))
  BY DrainingStays DEF CInv
<1>2. CASE state[o] = "draining"
  <2>1. Held(holds, o) = {} /\ Marks(queue, o) = {}
    BY <1>1, <1>2 DEF CInv, NoReference
  <2>2. ~ \E h \in Holders : Create(h, o)
    BY <1>2 DEF Create
  <2> QED BY <2>1, <2>2, NothingFromNothing DEF CInv
<1>3. CASE Drain(o)
  <2>1. refcount[o] <= 0 /\ Serving(o) /\ UNCHANGED <<holds, queue>>
    BY <1>3 DEF Drain, CanDrain, Serving
  <2> DEFINE a == Cardinality(Held(holds, o))
             b == Cardinality(Marks(queue, o))
  <2>2. refcount[o] = a + b + lost[o] - taken[o] + Asked(o)
    BY <2>1 DEF CInv, Counted
  <2>3. a \in Nat /\ IsFiniteSet(Held(holds, o))
    BY HeldFinite
  <2>4. b \in Nat /\ IsFiniteSet(Marks(queue, o))
    BY MarksFinite, FS_CardinalityType DEF CInv, Types
  <2>5. lost[o] \in Nat /\ Asked(o) \in Nat /\ refcount[o] \in Int
    BY DEF CInv, Types, Asked
  <2> HIDE DEF a, b
  <2>6. a = 0 /\ b = 0
    BY <1>1, <2>1, <2>2, <2>3, <2>4, <2>5
  <2> QED BY <2>1, <2>3, <2>4, <2>6, FS_EmptySet DEF a, b
<1> QED BY <1>1, <1>2, <1>3

-----------------------------------------------------------------------------
(* The counters.  In each step the counter of an object that serves moves  *)
(* as the references to it do.                                             *)

NHeld(o)  == Cardinality(Held(holds, o))
NMarks(o) == Cardinality(Marks(queue, o))

(* What the step does to the two sides, if it is right.                    *)
Balanced(o) ==
  refcount'[o] - refcount[o] =
    (NHeld(o)' - NHeld(o)) + (NMarks(o)' - NMarks(o)) + (lost'[o] - lost[o])
      - (taken'[o] - taken[o]) + (Asked(o)' - Asked(o))

(* Both sides are numbers.                                                 *)
LEMMA SidesAreNumbers ==
  ASSUME Types, NEW o \in Objects
  PROVE  /\ NHeld(o) \in Nat /\ NMarks(o) \in Nat /\ Asked(o) \in Nat
         /\ refcount[o] \in Int /\ lost[o] \in Nat /\ taken[o] \in Nat
<1>1. NHeld(o) \in Nat
  BY HeldFinite DEF NHeld
<1>2. NMarks(o) \in Nat
  BY MarksFinite, FS_CardinalityType DEF Types, NMarks
<1> QED BY <1>1, <1>2 DEF Types, Asked

(* An object whose two sides move alike still counts its references.       *)
LEMMA BalancedKeeps ==
  ASSUME CInv, Types', NEW o \in Objects, Serving(o), Balanced(o)
  PROVE  refcount'[o] = NHeld(o)' + NMarks(o)' + lost'[o] - taken'[o] + Asked(o)'
<1>1. refcount[o] = NHeld(o) + NMarks(o) + lost[o] - taken[o] + Asked(o)
  BY DEF CInv, Counted, NHeld, NMarks
<1>2. /\ NHeld(o) \in Nat /\ NMarks(o) \in Nat /\ Asked(o) \in Nat
      /\ refcount[o] \in Int /\ lost[o] \in Nat /\ taken[o] \in Nat
  BY SidesAreNumbers DEF CInv
<1>3. /\ NHeld(o)' \in Nat /\ NMarks(o)' \in Nat /\ Asked(o)' \in Nat
      /\ refcount'[o] \in Int /\ lost'[o] \in Nat /\ taken'[o] \in Nat
  <2>1. NHeld(o)' \in Nat
    BY HeldFinite DEF NHeld
  <2>2. Cardinality(Marks(queue', o)) \in Nat
    BY MarksFinite, FS_CardinalityType DEF Types
  <2> QED BY <2>1, <2>2 DEF Types, Asked, NMarks
<1>4. \A a, b, c, d, e, f, r, l, t, rr, ll, tt \in Int :
        /\ r = a + b + l - t + c
        /\ rr - r = (d - a) + (e - b) + (ll - l) - (tt - t) + (f - c)
        => rr = d + e + ll - tt + f
  OBVIOUS
<1> DEFINE a == NHeld(o)
           b == NMarks(o)
           c == Asked(o)
           d == NHeld(o)'
           e == NMarks(o)'
           f == Asked(o)'
           r == refcount[o]
           l == lost[o]
           t == taken[o]
           rr == refcount'[o]
           ll == lost'[o]
           tt == taken'[o]
<1>5. /\ a \in Int /\ b \in Int /\ c \in Int /\ d \in Int /\ e \in Int /\ f \in Int
      /\ r \in Int /\ l \in Int /\ t \in Int /\ rr \in Int /\ ll \in Int /\ tt \in Int
  BY <1>2, <1>3
<1>6. rr - r = (d - a) + (e - b) + (ll - l) - (tt - t) + (f - c)
  BY DEF Balanced
<1>7. r = a + b + l - t + c
  BY <1>1
<1> HIDE DEF a, b, c, d, e, f, r, l, t, rr, ll, tt
<1>8. rr = d + e + ll - tt + f
  BY <1>4, <1>5, <1>6, <1>7
<1> QED BY <1>8 DEF d, e, f, rr, ll, tt

(* A step that moves neither side.                                         *)
LEMMA StillBalanced ==
  ASSUME Types, NEW o \in Objects, UNCHANGED <<holds, queue, Asked(o)>>,
         refcount'[o] = refcount[o], lost'[o] = lost[o], taken'[o] = taken[o]
  PROVE  Balanced(o)
<1>1. NHeld(o)' = NHeld(o) /\ NMarks(o)' = NMarks(o)
  BY DEF NHeld, NMarks
<1> QED BY <1>1, SidesAreNumbers DEF Balanced

(* The 1 that an object begins with is its creator's connection.           *)
LEMMA CreateBalanced ==
  ASSUME CInv, Types', NEW h \in Holders, NEW x \in Objects, Create(h, x), NEW o \in Objects
  PROVE  \/ refcount'[o] = NHeld(o)' + NMarks(o)' + lost'[o] - taken'[o] + Asked(o)'
         \/ Balanced(o) /\ state'[o] = state[o]
<1>1. UNCHANGED <<queue, lost, taken, mon, todo>> /\ state[x] = "unborn" /\ mon # "decide"
  BY DEF Create, monitorVars, MutexFree
<1>2. /\ NMarks(o)' = NMarks(o) /\ Asked(o)' = 0 /\ Asked(o) = 0
  BY <1>1 DEF NMarks, Asked
<1>3. CASE o = x
  <2>1. NHeld(o)' = 1
    BY <1>1, <1>3, CreateRefs DEF CInv, Unknown, NHeld
  <2>2. NMarks(o) = 0 /\ lost[o] = 0 /\ taken[o] = 0
    BY <1>1, <1>3, FS_EmptySet DEF CInv, Unknown, NMarks
  <2>3. refcount'[o] = 1
    BY <1>3 DEF Create, CInv, Types
  <2>4. NMarks(o)' = 0 /\ lost'[o] = 0 /\ taken'[o] = 0 /\ Asked(o)' = 0
    BY <1>1, <1>2, <2>2
  <2>5. refcount'[o] = NHeld(o)' + NMarks(o)' + lost'[o] - taken'[o] + Asked(o)'
    BY <2>1, <2>3, <2>4
  <2> QED BY <2>5
<1>4. CASE o # x
  <2>1. NHeld(o)' = NHeld(o)
    BY <1>4, CreateRefs DEF CInv, NHeld
  <2>2. refcount'[o] = refcount[o] /\ state'[o] = state[o]
    BY <1>4 DEF Create, CInv, Types
  <2> QED BY <1>1, <1>2, <2>1, <2>2, SidesAreNumbers DEF CInv, Balanced
<1> QED BY <1>3, <1>4

(* Destroying an interface takes one from both sides.                      *)
LEMMA ReleaseBalanced ==
  ASSUME CInv, Types', NEW h \in Holders, NEW x \in Objects, Release(h, x), NEW o \in Objects, Serving(o)
  PROVE  Balanced(o)
<1>1. UNCHANGED <<queue, lost, taken, mon, todo>>
  BY DEF Release, monitorVars
<1>2. /\ NMarks(o)' = NMarks(o) /\ Asked(o)' = Asked(o)
  BY <1>1 DEF NMarks, Asked
<1>3. NHeld(o)' = NHeld(o) - (IF o = x THEN 1 ELSE 0)
  BY ReleaseRefs DEF CInv, NHeld
<1>4. refcount'[o] = refcount[o] - (IF o = x THEN 1 ELSE 0)
  BY SidesAreNumbers DEF Release, Released, CInv
<1> QED BY <1>1, <1>2, <1>3, <1>4, SidesAreNumbers DEF CInv, Balanced

(* So does the end of an object, for each that it was connected to.        *)
LEMMA EndBalanced ==
  ASSUME CInv, Types', NEW x \in Objects, End(x), NEW o \in Objects, o # x, Serving(o)
  PROVE  Balanced(o)
<1>1. UNCHANGED <<queue, lost, taken, mon, todo>>
  BY DEF End, monitorVars
<1>2. /\ NMarks(o)' = NMarks(o) /\ Asked(o)' = Asked(o)
  BY <1>1 DEF NMarks, Asked
<1>3. NHeld(o)' = NHeld(o) - (IF o \in holds[x] THEN 1 ELSE 0)
  BY EndRefs DEF CInv, NHeld
<1>4. refcount'[o] = refcount[o] - (IF o \in holds[x] THEN 1 ELSE 0)
  BY SidesAreNumbers DEF End, Released, CInv
<1> QED BY <1>1, <1>2, <1>3, <1>4, SidesAreNumbers DEF CInv, Balanced

(* A packed reference is counted: it is on its way, or lost for good.      *)
LEMMA SendBalanced ==
  ASSUME CInv, Types', NEW h \in Holders, NEW p \in Objects, NEW x \in Objects \cup {None},
         NEW kind \in {"seq", "conc"}, Send(h, p, x, kind), NEW o \in Objects, Serving(o)
  PROVE  Balanced(o)
<1>1. UNCHANGED <<taken, mon, todo>> /\ (x # None => Serving(x)) /\ o # None
  BY Names DEF Send, monitorVars
<1>2. Asked(o)' = Asked(o)
  BY <1>1 DEF Asked
<1>3. NHeld(o)' = NHeld(o)
  BY SendRefs DEF CInv, NHeld
<1>4. NMarks(o)' = NMarks(o) + (IF Serving(p) /\ x = o THEN 1 ELSE 0)
  BY SendRefs DEF CInv, NMarks
<1>5. refcount'[o] = refcount[o] + (IF x = o THEN 1 ELSE 0)
  <2>1. CASE x = None
    BY <1>1, <2>1, SidesAreNumbers DEF Send, Pack, CInv
  <2>2. CASE x # None
    <3>1. refcount' = [refcount EXCEPT ![x] = @ + 1]
      BY <1>1, <2>2 DEF Send, Pack
    <3>2. CASE x = o
      BY <3>1, <3>2 DEF CInv, Types
    <3>3. CASE x # o
      <4>1. refcount'[o] = refcount[o] /\ refcount[o] \in Int
        BY <3>1, <3>3 DEF CInv, Types
      <4> QED BY <3>3, <4>1
    <3> QED BY <3>2, <3>3
  <2> QED BY <2>1, <2>2
<1>6. lost'[o] = lost[o] + (IF ~Serving(p) /\ x = o THEN 1 ELSE 0)
  <2>1. CASE Serving(p)
    BY <2>1, SidesAreNumbers DEF Send, CInv
  <2>2. CASE ~Serving(p)
    <3>1. lost' = IF x = None THEN lost ELSE [lost EXCEPT ![x] = @ + 1]
      BY <2>2 DEF Send
    <3>2. CASE x = o
      BY <1>1, <2>2, <3>1, <3>2 DEF CInv, Types
    <3>3. CASE x # o
      BY SMTT(20), <2>2, <3>1, <3>3, SidesAreNumbers DEF CInv, Types
    <3> QED BY <3>2, <3>3
  <2> QED BY <2>1, <2>2
<1> QED BY <1>1, <1>2, <1>3, <1>4, <1>5, <1>6, SidesAreNumbers DEF CInv, Balanced

(* Unpacking takes back what packing counted, once the connection stands;  *)
(* a reference that replaces an equal one closes that one.                 *)
LEMMA StartBalanced ==
  ASSUME CInv, Types', NEW p \in Objects, Start(p), NEW o \in Objects, Serving(o)
  PROVE  Balanced(o)
<1> DEFINE x == Head(queue[p]).ref
           gets == x # None /\ Serving(x)
<1>1. UNCHANGED <<lost, taken, mon, todo>> /\ o # None
  BY Names DEF Start, monitorVars
<1>2. Asked(o)' = Asked(o)
  BY <1>1 DEF Asked
<1>3. /\ NMarks(o)' = NMarks(o) - (IF x = o THEN 1 ELSE 0)
      /\ NHeld(o)' = NHeld(o) + (IF gets /\ x = o /\ o \notin holds[p] THEN 1 ELSE 0)
      /\ gets => refcount' = Unpack(p, x)
      /\ ~gets => UNCHANGED refcount
  BY StartRefs DEF CInv, NMarks, NHeld
<1> HIDE DEF x
<1>4. x = o => gets
  BY <1>1
<1>5. refcount'[o] = refcount[o] - (IF x = o /\ o \in holds[p] THEN 1 ELSE 0)
  <2>1. CASE gets
    <3>1. refcount' = [refcount EXCEPT ![x] = IF x \in holds[p] THEN @ - 1 ELSE @]
      BY <1>3, <2>1 DEF Unpack
    <3>2. CASE x = o
      BY <3>1, <3>2, SidesAreNumbers DEF CInv, Types
    <3>3. CASE x # o
      <4>1. refcount'[o] = refcount[o] /\ refcount[o] \in Int
        BY <3>1, <3>3 DEF CInv, Types
      <4> QED BY <3>3, <4>1
    <3> QED BY <3>2, <3>3
  <2>2. CASE ~gets
    BY <1>3, <1>4, <2>2, SidesAreNumbers DEF CInv
  <2> QED BY <2>1, <2>2
<1>6. NHeld(o)' = NHeld(o) + (IF x = o /\ o \notin holds[p] THEN 1 ELSE 0)
  BY <1>3, <1>4
<1> HIDE DEF gets
<1> QED BY <1>1, <1>2, <1>3, <1>5, <1>6, SidesAreNumbers DEF CInv, Balanced

(* The monitor's connection counts while it asks; what it takes away is    *)
(* in the history.                                                         *)
LEMMA AskBalanced ==
  ASSUME CInv, Types', Ask \/ Decide, NEW o \in Objects, Serving(o)
  PROVE  Balanced(o)
<1>1. NHeld(o)' = NHeld(o) /\ NMarks(o)' = NMarks(o) /\ lost' = lost
  BY DEF Ask, Decide, NHeld, NMarks
<1>2. Head(todo) \in Objects
  BY HeadTailProperties DEF Ask, Decide, CInv, Types
<1>3. CASE Ask
  <2>1. taken' = taken /\ Asked(o) = 0
    BY <1>3 DEF Ask, Asked
  <2>2. CASE Head(todo) = o
    <3>1. refcount' = [refcount EXCEPT ![o] = @ + 1] /\ mon' = "decide" /\ todo' = todo
      BY <1>3, <2>2 DEF Ask
    <3>2. refcount'[o] = refcount[o] + 1 /\ Asked(o)' = 1
      BY <2>2, <3>1 DEF CInv, Types, Asked
    <3> QED BY <1>1, <2>1, <3>2, SidesAreNumbers DEF CInv, Balanced
  <2>3. CASE Head(todo) # o
    <3>1. refcount'[o] = refcount[o]
      BY <1>2, <1>3, <2>3 DEF Ask, CInv, Types
    <3>2. Asked(o)' = 0
      BY <1>3, <2>3 DEF Ask, Asked
    <3> QED BY <1>1, <2>1, <3>1, <3>2, SidesAreNumbers DEF CInv, Balanced
  <2> QED BY <2>2, <2>3
<1>4. CASE Decide
  <2>1. Asked(o)' = 0 /\ mon = "decide"
    BY <1>4 DEF Decide, Asked
  <2>2. CASE Head(todo) = o
    <3>1. Asked(o) = 1
      BY <2>1, <2>2 DEF Asked
    <3>2. PICK b \in 0..1 : refcount' = [refcount EXCEPT ![o] = @ - (1 + b)]
                            /\ taken' = [taken EXCEPT ![o] = @ + b]
      BY <1>4, <2>2 DEF Decide
    <3>3. refcount'[o] = refcount[o] - (1 + b) /\ taken'[o] = taken[o] + b
      BY <3>2 DEF CInv, Types
    <3> QED BY <1>1, <2>1, <3>1, <3>3, SidesAreNumbers DEF CInv, Balanced
  <2>3. CASE Head(todo) # o
    <3>1. refcount'[o] = refcount[o] /\ taken'[o] = taken[o]
      BY <1>2, <1>4, <2>3 DEF Decide, CInv, Types
    <3>2. Asked(o) = 0
      BY <2>3 DEF Asked
    <3> QED BY <1>1, <2>1, <3>1, <3>2, SidesAreNumbers DEF CInv, Balanced
  <2> QED BY <2>2, <2>3
<1> QED BY <1>3, <1>4

(* An object that serves served before, unless it was created.             *)
LEMMA ServedBefore ==
  ASSUME Types, [Next]_vars, NEW o \in Objects, Serving(o)', ~ \E h \in Holders : Create(h, o)
  PROVE  Serving(o)
<1> SUFFICES state'[o] # state[o] => Serving(o)
  BY DEF Serving
<1> DEFINE Goal == state'[o] # state[o] => Serving(o)
<1> SUFFICES Goal
  OBVIOUS
<1>1. ASSUME UNCHANGED state
      PROVE  Goal
  BY <1>1
<1>2. ASSUME NEW h \in Holders, NEW x \in Objects, Create(h, x)
      PROVE  Goal
  BY <1>2 DEF Create, Types
<1>3. ASSUME NEW h \in Holders, NEW p \in Objects, NEW x \in Objects \cup {None},
             NEW kind \in {"seq", "conc"}, Release(h, p) \/ Send(h, p, x, kind)
      PROVE  Goal
  BY <1>1, <1>3 DEF Release, Send
<1>4. ASSUME NEW p \in Objects, Start(p) \/ Finish(p) \/ UnManage(p)
      PROVE  Goal
  BY <1>1, <1>4 DEF Start, Finish, UnManage, objectVars
<1>5. ASSUME NEW p \in Objects, Drain(p) \/ End(p) \/ Throws(p)
      PROVE  Goal
  BY <1>5 DEF Drain, End, Throws, CanDrain, CanEnd, Serving, Types
<1>6. ASSUME NEW S, Exit(S)
      PROVE  Goal
  BY <1>6 DEF Exit, Serving
<1>7. ASSUME NEW p \in Objects, Abort(p)
      PROVE  Goal
  BY <1>6, <1>7 DEF Abort
<1>8. CASE MainFails
  BY <1>6, <1>8 DEF MainFails
<1>9. CASE MainEnds \/ StartRound \/ Ask \/ Decide \/ EndRound \/ UNCHANGED vars
  BY <1>1, <1>9 DEF MainEnds, StartRound, Ask, Decide, EndRound, vars, objectVars
<1>10. ASSUME NEW h \in Holders, NEW x \in Objects, Release(h, x)
       PROVE  Goal
  BY <1>1, <1>10 DEF Release
<1> HIDE DEF Goal
<1> QED
  BY <1>2, <1>3, <1>4, <1>5, <1>7, <1>8, <1>9, <1>10 DEF Next, ObjectStep, MonitorStep

(* Every step keeps the counters of those that serve.                      *)
LEMMA CountedStep == ASSUME CInv, [Next]_vars, Types', ServicesLast', Listed' PROVE Counted'
<1> SUFFICES ASSUME NEW o \in Objects, Serving(o)'
             PROVE  refcount'[o] = NHeld(o)' + NMarks(o)' + lost'[o] - taken'[o] + Asked(o)'
  BY DEF Counted, NHeld, NMarks
<1> DEFINE Goal == refcount'[o] = NHeld(o)' + NMarks(o)' + lost'[o] - taken'[o] + Asked(o)'
<1> SUFFICES Goal
  OBVIOUS
<1> HIDE DEF Goal
<1>1. ASSUME Balanced(o), Serving(o)
      PROVE  Goal
  BY <1>1, BalancedKeeps DEF Goal
<1>2. Types
  BY DEF CInv
<1>3. ASSUME NEW h \in Holders, Create(h, o)
      PROVE  Goal
  <2>1. Goal \/ (Balanced(o) /\ state'[o] = state[o])
    BY <1>3, CreateBalanced DEF Goal
  <2>2. state'[o] # state[o]
    BY <1>3 DEF Create, CInv, Types
  <2> QED BY <2>1, <2>2
<1> SUFFICES ASSUME ~ \E h \in Holders : Create(h, o)
             PROVE  Goal
  BY <1>3
<1>4. Serving(o)
  BY <1>2, ServedBefore
<1>5. ASSUME UNCHANGED <<holds, queue, refcount, lost, taken, Asked(o)>>
      PROVE  Goal
  BY <1>1, <1>2, <1>4, <1>5, StillBalanced
<1>6. ASSUME NEW h \in Holders, NEW x \in Objects, Create(h, x)
      PROVE  Goal
  <2>1. Goal \/ Balanced(o)
    BY <1>6, CreateBalanced DEF Goal
  <2> QED BY <1>1, <1>4, <2>1
<1>7. ASSUME NEW h \in Holders, NEW x \in Objects, Release(h, x)
      PROVE  Goal
  BY <1>1, <1>4, <1>7, ReleaseBalanced
<1>8. ASSUME NEW h \in Holders, NEW p \in Objects, NEW x \in Objects \cup {None},
             NEW kind \in {"seq", "conc"}, Send(h, p, x, kind)
      PROVE  Goal
  BY <1>1, <1>4, <1>8, SendBalanced
<1>9. ASSUME NEW p \in Objects, Start(p)
      PROVE  Goal
  BY <1>1, <1>4, <1>9, StartBalanced
<1>10. ASSUME NEW p \in Objects, End(p)
       PROVE  Goal
  <2>1. p # o
    BY <1>10 DEF End, CInv, Types, Serving
  <2> QED BY <1>1, <1>4, <1>10, <2>1, EndBalanced
<1>11. ASSUME NEW p \in Objects, Finish(p) \/ Drain(p) \/ UnManage(p) \/ Throws(p)
       PROVE  Goal
  <2>1. UNCHANGED <<holds, queue, refcount, lost, taken, mon, todo>>
    BY <1>11 DEF Finish, Drain, UnManage, Throws, objectVars, monitorVars
  <2> QED BY <1>5, <2>1 DEF Asked
<1>12. ASSUME NEW p \in Objects, Abort(p)
       PROVE  Goal
  <2>1. \A x \in Objects : ~Serving(x)'
    <3>1. CASE mon = "stopped"
      <4>1. ~Serving(o)
        BY <3>1 DEF CInv, ServicesLast
      <4> QED BY <4>1, <1>4
    <3>2. CASE mon # "stopped"
      BY <1>12, <3>2, ExitEndsAll DEF Abort, CInv
    <3> QED BY <3>1, <3>2
  <2> QED BY <2>1
<1>13. CASE MainFails
  <2>1. \A x \in Objects : ~Serving(x)'
    BY <1>13, ExitEndsAll DEF MainFails, CInv
  <2> QED BY <2>1
<1>14. CASE Ask \/ Decide
  BY <1>1, <1>4, <1>14, AskBalanced
<1>15. CASE MainEnds \/ StartRound \/ EndRound \/ UNCHANGED vars
  <2>1. UNCHANGED <<holds, queue, refcount, lost, taken>>
    BY <1>15 DEF MainEnds, StartRound, EndRound, vars, objectVars, monitorVars
  <2>2. Asked(o)' = Asked(o)
    BY <1>15 DEF MainEnds, StartRound, EndRound, vars, objectVars, monitorVars, Asked, CInv, Types
  <2> QED BY <1>5, <2>1, <2>2
<1> QED
  BY <1>6, <1>7, <1>8, <1>9, <1>10, <1>11, <1>12, <1>13, <1>14, <1>15
     DEF Next, ObjectStep, MonitorStep

-----------------------------------------------------------------------------
(* The invariant holds, and what it says.                                  *)

(* The invariant holds at first, ...                                       *)
LEMMA CInvInit == ASSUME Init PROVE CInv
BY TypesInit, LivesInit, RefsInit DEF CInv

(* ... every step keeps it, ...                                            *)
LEMMA CInvStep == ASSUME CInv, [Next]_vars PROVE CInv'
<1>1. Types' /\ Listed' /\ ServicesLast' /\ Idle'
  BY TypesStep, ListedStep, IdleStep
<1>2. Unknown' /\ NoReference' /\ Counted'
  BY <1>1, UnknownStep, NoReferenceStep, CountedStep
<1> QED BY <1>1, <1>2 DEF CInv

(* ... so it always holds.                                                 *)
LEMMA Inductive == Spec => []CInv
<1>1. Init => CInv
  BY CInvInit
<1>2. CInv /\ [Next]_vars => CInv'
  BY CInvStep
<1> QED BY <1>1, <1>2, PTL DEF Spec

(* The variables have their types, an object that was not started or has   *)
(* ended has nothing, and the monitor has each object once.                *)
THEOREM CollectionTypeCorrect == Spec => []CollectionTypeOK
<1>1. CInv => CollectionTypeOK
  <2> SUFFICES ASSUME CInv PROVE CollectionTypeOK
    OBVIOUS
  <2>1. \A o \in Objects : \A i \in DOMAIN queue[o] : queue[o][i] \in Messages
    BY LenProperties, ElementOfSeq DEF CInv, Types
  <2>2. ToSet(managed) \subseteq Objects
    BY EmptyFacts DEF CInv, Types
  <2> QED BY <2>1, <2>2 DEF CInv, Types, Idle, CollectionTypeOK, Messages
<1> QED BY <1>1, Inductive, PTL

(* The services stop after the objects (system.cc:416).                    *)
THEOREM ServicesStopLast == Spec => []ServicesLast
<1>1. CInv => ServicesLast
  BY DEF CInv
<1> QED BY <1>1, Inductive, PTL

(* However references are packed, sent, unpacked, replaced and lost, an    *)
(* object counts each of them once, less what the monitor took.            *)
THEOREM EachReferenceCounted == Spec => []RefsAccounted
<1>1. CInv => RefsAccounted
  BY DEF CInv, Counted, RefsAccounted, Held, Marks, Connections, Carried, Asked
<1> QED BY <1>1, Inductive, PTL

(* An object to which there is a reference serves, unless the monitor took *)
(* some away or the application was ended by an error.                     *)
THEOREM ReferencedIsServed == Spec => []ReferencedServes
<1>1. CInv => ReferencedServes
  BY DEF CInv, NoReference, ReferencedServes, Held, Marks, Connections, Carried
<1> QED BY <1>1, Inductive, PTL
=============================================================================
