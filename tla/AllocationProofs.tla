-------------------------- MODULE AllocationProofs --------------------------
(***************************************************************************)
(* Proofs about the job managers' reservations and the calls that make     *)
(* them, for any nodes, calls and numbers of objects: the types, that the  *)
(* ledgers balance, that an Id names one reservation, that a running       *)
(* object keeps its own, and that a call creates all its objects or none.  *)
(***************************************************************************)
EXTENDS Allocation, TLAPS, WellFoundedInduction, FiniteSetTheorems, SequenceTheorems

-----------------------------------------------------------------------------
(* Numbers and lists.                                                      *)

(* A set of numbers has a least one.                                       *)
LEMMA LeastNumber ==
  ASSUME NEW U \in SUBSET Nat, U # {}
  PROVE  \E x \in U : \A y \in U : x <= y
<1> DEFINE T == {1..n : n \in U}
           R == StrictSubsetOrdering(Nat)
<1>1. IsWellFoundedOn(R, FiniteSubsetsOf(Nat))
  BY FS_StrictSubsetOrderingWellFounded
<1>2. T \subseteq FiniteSubsetsOf(Nat) /\ T # {}
  <2>1. ASSUME NEW n \in U PROVE 1..n \in FiniteSubsetsOf(Nat)
    <3>1. 1..n \in SUBSET Nat
      OBVIOUS
    <3> QED BY <3>1, FS_Interval DEF FiniteSubsetsOf
  <2> QED BY <2>1
<1> HIDE DEF T, R
<1>3. PICK A \in T : \A B \in T : ~ (<<B, A>> \in R)
  BY <1>1, <1>2, WFMin
<1>4. PICK x \in U : A = 1..x
  BY <1>3 DEF T
<1>5. ASSUME NEW y \in U, y < x PROVE FALSE
  <2>1. 1..y \in T
    BY DEF T
  <2>2. x \in 1..x /\ x \notin 1..y /\ 1..y \subseteq 1..x
    BY <1>5
  <2>3. <<1..y, 1..x>> \in R
    BY <2>2 DEF R, StrictSubsetOrdering
  <2> QED BY <1>3, <1>4, <2>1, <2>3
<1> QED BY <1>5

(* So Min is one of them.                                                  *)
LEMMA MinFacts ==
  ASSUME NEW U \in SUBSET Nat, U # {}
  PROVE  Min(U) \in U /\ \A y \in U : Min(U) <= y
BY LeastNumber DEF Min

(* Induction, for a set of numbers.                                        *)
LEMMA SetInduction ==
  ASSUME NEW T, 0 \in T, \A n \in T \cap Nat : n + 1 \in T
  PROVE  Nat \subseteq T
<1> SUFFICES ASSUME Nat \ T # {} PROVE FALSE
  OBVIOUS
<1> DEFINE U == Nat \ T
<1>1. PICK x \in U : \A y \in U : x <= y
  <2> U \in SUBSET Nat /\ U # {}
    OBVIOUS
  <2> HIDE DEF U
  <2> QED BY LeastNumber
<1>2. x # 0 /\ x - 1 \in Nat
  OBVIOUS
<1>3. x - 1 \in T
  <2>1. x \in Nat /\ ~(x <= x - 1)
    OBVIOUS
  <2> QED BY <1>1, <1>2, <2>1
<1>4. (x - 1) + 1 = x
  OBVIOUS
<1> HIDE DEF U
<1>5. (x - 1) + 1 \in T
  BY <1>2, <1>3
<1> QED BY <1>1, <1>4, <1>5 DEF U

(* Induction, for a set of lists.                                          *)
LEMMA ListInduction ==
  ASSUME NEW R, NEW T, <<>> \in T,
         \A s \in T \cap Seq(R) : \A e \in R : Append(s, e) \in T
  PROVE  Seq(R) \subseteq T
<1> DEFINE L == {n \in Nat : \A s \in Seq(R) : Len(s) = n => s \in T}
<1>1. 0 \in L
  <2>1. \A s \in Seq(R) : Len(s) = 0 => s = <<>>
    BY EmptySeq
  <2> QED BY <2>1
<1>2. ASSUME NEW n \in L \cap Nat PROVE n + 1 \in L
  <2>1. ASSUME NEW s \in Seq(R), Len(s) = n + 1 PROVE s \in T
    <3>1. s # <<>>
      BY <2>1, EmptySeq
    <3>2. PICK f \in Seq(R), e \in R : s = Append(f, e)
      BY <3>1, SequenceEmptyOrAppend
    <3>3. Len(s) = Len(f) + 1 /\ Len(f) \in Nat
      BY <3>2, AppendProperties, LenProperties
    <3>4. f \in T
      BY <2>1, <3>3
    <3> QED BY <3>2, <3>4
  <2> QED BY <2>1
<1> HIDE DEF L
<1>3. Nat \subseteq L
  BY <1>1, <1>2, SetInduction
<1> QED BY <1>3, LenProperties DEF L

-----------------------------------------------------------------------------
(* The sum of a list's power, and the part of a list that is in a set.     *)

(* What the recursion of SumFlops and of Those says of a function.         *)
Sums(f, s, n) ==
  f = [i \in 0..n |-> IF i = 0 THEN 0 ELSE f[i-1] + s[i].flops]
Parts(f, s, S, n) ==
  f = [i \in 0..n |-> IF i = 0 THEN <<>>
                      ELSE IF s[i] \in S THEN Append(f[i-1], s[i]) ELSE f[i-1]]

(* There is such a function: the sums up to each place, ...                *)
LEMMA SumsExist ==
  ASSUME NEW s, NEW n \in Nat
  PROVE  \E f : Sums(f, s, n)
<1> DEFINE T == {m \in Nat : \E f : Sums(f, s, m)}
<1>1. 0 \in T
  <2> DEFINE f == [i \in 0..0 |-> 0]
  <2>1. Sums(f, s, 0)
    BY DEF Sums
  <2> QED BY <2>1
<1>2. ASSUME NEW m \in T \cap Nat PROVE m + 1 \in T
  <2>1. PICK f : Sums(f, s, m)
    OBVIOUS
  <2> DEFINE g == [i \in 0..m+1 |-> IF i = m+1 THEN f[m] + s[m+1].flops ELSE f[i]]
  <2>2. ASSUME NEW i \in 0..m+1
        PROVE  g[i] = IF i = 0 THEN 0 ELSE g[i-1] + s[i].flops
    <3>1. CASE i = m+1
      <4>1. g[i] = f[m] + s[m+1].flops /\ g[m] = f[m] /\ i # 0 /\ i - 1 = m
        BY <3>1
      <4> QED BY <4>1, <3>1
    <3>2. CASE i # m+1
      <4>1. i \in 0..m /\ g[i] = f[i]
        BY <3>2
      <4>2. i # 0 => i - 1 \in 0..m /\ g[i-1] = f[i-1]
        BY <4>1
      <4>3. f[i] = IF i = 0 THEN 0 ELSE f[i-1] + s[i].flops
        BY <2>1, <4>1 DEF Sums
      <4> HIDE DEF g
      <4> QED BY <4>1, <4>2, <4>3
    <3> QED BY <3>1, <3>2
  <2>3. Sums(g, s, m+1)
    BY <2>2 DEF Sums
  <2> HIDE DEF g
  <2> QED BY <2>3
<1> HIDE DEF T
<1>3. Nat \subseteq T
  BY <1>1, <1>2, SetInduction
<1> QED BY <1>3 DEF T

(* ... and the parts.                                                      *)
LEMMA PartsExist ==
  ASSUME NEW s, NEW S, NEW n \in Nat
  PROVE  \E f : Parts(f, s, S, n)
<1> DEFINE T == {m \in Nat : \E f : Parts(f, s, S, m)}
<1>1. 0 \in T
  <2> DEFINE f == [i \in 0..0 |-> <<>>]
  <2>1. Parts(f, s, S, 0)
    BY DEF Parts
  <2> QED BY <2>1
<1>2. ASSUME NEW m \in T \cap Nat PROVE m + 1 \in T
  <2>1. PICK f : Parts(f, s, S, m)
    OBVIOUS
  <2> DEFINE e == IF s[m+1] \in S THEN Append(f[m], s[m+1]) ELSE f[m]
             g == [i \in 0..m+1 |-> IF i = m+1 THEN e ELSE f[i]]
  <2>2. ASSUME NEW i \in 0..m+1
        PROVE  g[i] = IF i = 0 THEN <<>>
                      ELSE IF s[i] \in S THEN Append(g[i-1], s[i]) ELSE g[i-1]
    <3>1. CASE i = m+1
      <4>1. g[i] = e /\ g[m] = f[m] /\ i # 0 /\ i - 1 = m
        BY <3>1
      <4> QED BY <4>1, <3>1
    <3>2. CASE i # m+1
      <4>1. i \in 0..m /\ g[i] = f[i]
        BY <3>2
      <4>2. i # 0 => i - 1 \in 0..m /\ g[i-1] = f[i-1]
        BY <4>1
      <4>3. f[i] = IF i = 0 THEN <<>>
                   ELSE IF s[i] \in S THEN Append(f[i-1], s[i]) ELSE f[i-1]
        BY <2>1, <4>1 DEF Parts
      <4> HIDE DEF g
      <4> QED BY <4>1, <4>2, <4>3
    <3> QED BY <3>1, <3>2
  <2>3. Parts(g, s, S, m+1)
    BY <2>2 DEF Parts
  <2> HIDE DEF g
  <2> QED BY <2>3
<1> HIDE DEF T
<1>3. Nat \subseteq T
  BY <1>1, <1>2, SetInduction
<1> QED BY <1>3 DEF T

(* Lists that agree at their first places have the same sums there, ...    *)
LEMMA SumsAgree ==
  ASSUME NEW n \in Nat, NEW m \in Nat, n <= m, NEW s, NEW t, NEW f, NEW g,
         Sums(f, s, n), Sums(g, t, m), \A i \in 1..n : s[i].flops = t[i].flops
  PROVE  f[n] = g[n]
<1> DEFINE T == {k \in Nat : k <= n => f[k] = g[k]}
<1>1. 0 \in T
  BY DEF Sums
<1>2. ASSUME NEW k \in T \cap Nat PROVE k + 1 \in T
  <2>1. CASE k + 1 <= n
    <3>1. k+1 \in 0..n /\ k+1 \in 0..m /\ k+1 # 0 /\ (k+1)-1 = k /\ k+1 \in 1..n
      BY <2>1
    <3>2. f[k+1] = f[k] + s[k+1].flops
      BY <3>1 DEF Sums
    <3>3. g[k+1] = g[k] + t[k+1].flops
      BY <3>1 DEF Sums
    <3> QED BY <2>1, <3>1, <3>2, <3>3
  <2> QED BY <2>1
<1> HIDE DEF T
<1>3. Nat \subseteq T
  BY <1>1, <1>2, SetInduction
<1> QED BY <1>3 DEF T

(* ... and the same parts.                                                 *)
LEMMA PartsAgree ==
  ASSUME NEW n \in Nat, NEW m \in Nat, n <= m, NEW s, NEW t, NEW S, NEW f, NEW g,
         Parts(f, s, S, n), Parts(g, t, S, m), \A i \in 1..n : s[i] = t[i]
  PROVE  f[n] = g[n]
<1> DEFINE T == {k \in Nat : k <= n => f[k] = g[k]}
<1>1. 0 \in T
  BY DEF Parts
<1>2. ASSUME NEW k \in T \cap Nat PROVE k + 1 \in T
  <2>1. CASE k + 1 <= n
    <3>1. k+1 \in 0..n /\ k+1 \in 0..m /\ k+1 # 0 /\ (k+1)-1 = k /\ k+1 \in 1..n
      BY <2>1
    <3>2. f[k+1] = IF s[k+1] \in S THEN Append(f[k], s[k+1]) ELSE f[k]
      BY <3>1 DEF Parts
    <3>3. g[k+1] = IF t[k+1] \in S THEN Append(g[k], t[k+1]) ELSE g[k]
      BY <3>1 DEF Parts
    <3> QED BY <2>1, <3>1, <3>2, <3>3
  <2> QED BY <2>1
<1> HIDE DEF T
<1>3. Nat \subseteq T
  BY <1>1, <1>2, SetInduction
<1> QED BY <1>3 DEF T

(* The definitions choose such a function.                                 *)
LEMMA SumIs ==
  ASSUME NEW s, Len(s) \in Nat
  PROVE  \E f : Sums(f, s, Len(s)) /\ SumFlops(s) = f[Len(s)]
<1> DEFINE h == CHOOSE f : f = [i \in 0..Len(s) |->
                                  IF i = 0 THEN 0 ELSE f[i-1] + s[i].flops]
<1>1. Sums(h, s, Len(s))
  BY SumsExist DEF Sums
<1>2. SumFlops(s) = h[Len(s)]
  BY DEF SumFlops
<1> QED BY <1>1, <1>2

(* The definitions choose such a function.                                 *)
LEMMA ThoseAre ==
  ASSUME NEW s, NEW S, Len(s) \in Nat
  PROVE  \E f : Parts(f, s, S, Len(s)) /\ Those(s, S) = f[Len(s)]
<1> DEFINE h == CHOOSE f : f = [i \in 0..Len(s) |-> IF i = 0 THEN <<>>
                    ELSE IF s[i] \in S THEN Append(f[i-1], s[i]) ELSE f[i-1]]
<1>0. \E f : Parts(f, s, S, Len(s))
  BY PartsExist
<1>1. Parts(h, s, S, Len(s))
  BY <1>0 DEF Parts
<1>2. Those(s, S) = h[Len(s)]
  BY DEF Those
<1> QED BY <1>1, <1>2

(* Of the empty list there is nothing.                                     *)
LEMMA Nothing ==
  SumFlops(<<>>) = 0 /\ ToSet(<<>>) = {} /\ \A S : Those(<<>>, S) = <<>>
<1>1. Len(<<>>) = 0
  BY EmptySeq
<1>2. SumFlops(<<>>) = 0
  <2>1. PICK h : Sums(h, <<>>, 0) /\ SumFlops(<<>>) = h[0]
    BY <1>1, SumIs
  <2> QED BY <2>1 DEF Sums
<1>3. ASSUME NEW S PROVE Those(<<>>, S) = <<>>
  <2>1. PICK h : Parts(h, <<>>, S, 0) /\ Those(<<>>, S) = h[0]
    BY <1>1, ThoseAre
  <2> QED BY <2>1 DEF Parts
<1> QED BY <1>2, <1>3 DEF ToSet

(* An entry at the end of a list adds its power to the sum, ...            *)
LEMMA SumAppend ==
  ASSUME NEW R, NEW s \in Seq(R), NEW e \in R
  PROVE  SumFlops(Append(s, e)) = SumFlops(s) + e.flops
<1> DEFINE t == Append(s, e)
           n == Len(s)
<1>1. /\ n \in Nat /\ t \in Seq(R) /\ Len(t) = n + 1
      /\ \A i \in 1..n : t[i] = s[i]
      /\ t[n+1] = e
  BY AppendProperties, LenProperties
<1> HIDE DEF t
<1>2. PICK f : Sums(f, s, n) /\ SumFlops(s) = f[n]
  BY <1>1, SumIs
<1> HIDE DEF n
<1>3. PICK g : Sums(g, t, n+1) /\ SumFlops(t) = g[n+1]
  BY <1>1, SumIs
<1>4. f[n] = g[n]
  BY <1>1, <1>2, <1>3, SumsAgree
<1>5. g[n+1] = g[n] + t[n+1].flops
  <2>1. n+1 \in 0..n+1 /\ n+1 # 0 /\ (n+1)-1 = n
    BY <1>1
  <2> QED BY <1>3, <2>1 DEF Sums
<1> QED BY <1>1, <1>2, <1>3, <1>4, <1>5 DEF t

(* ... and is in the part if it is in the set.                             *)
LEMMA ThoseAppend ==
  ASSUME NEW R, NEW s \in Seq(R), NEW e \in R, NEW S
  PROVE  Those(Append(s, e), S) = IF e \in S THEN Append(Those(s, S), e) ELSE Those(s, S)
<1> DEFINE t == Append(s, e)
           n == Len(s)
<1>1. /\ n \in Nat /\ t \in Seq(R) /\ Len(t) = n + 1
      /\ \A i \in 1..n : t[i] = s[i]
      /\ t[n+1] = e
  BY AppendProperties, LenProperties
<1> HIDE DEF t
<1>2. PICK f : Parts(f, s, S, n) /\ Those(s, S) = f[n]
  BY <1>1, ThoseAre
<1> HIDE DEF n
<1>3. PICK g : Parts(g, t, S, n+1) /\ Those(t, S) = g[n+1]
  BY <1>1, ThoseAre
<1>4. f[n] = g[n]
  BY <1>1, <1>2, <1>3, PartsAgree
<1>5. g[n+1] = IF t[n+1] \in S THEN Append(g[n], t[n+1]) ELSE g[n]
  <2>1. n+1 \in 0..n+1 /\ n+1 # 0 /\ (n+1)-1 = n
    BY <1>1
  <2> QED BY <1>3, <2>1 DEF Parts
<1> QED BY <1>1, <1>2, <1>3, <1>4, <1>5 DEF t

(* Lists of the same power at every place have the same sum.               *)
LEMMA SumSame ==
  ASSUME NEW R, NEW s \in Seq(R), NEW t \in Seq(R), Len(s) = Len(t),
         \A i \in 1..Len(s) : s[i].flops = t[i].flops
  PROVE  SumFlops(s) = SumFlops(t)
<1>1. Len(s) \in Nat
  BY LenProperties
<1>2. PICK f : Sums(f, s, Len(s)) /\ SumFlops(s) = f[Len(s)]
  BY <1>1, SumIs
<1>3. PICK g : Sums(g, t, Len(s)) /\ SumFlops(t) = g[Len(s)]
  BY <1>1, SumIs
<1> QED BY <1>1, <1>2, <1>3, SumsAgree

(* What a list holds with one more entry.                                  *)
LEMMA AppendHas ==
  ASSUME NEW R, NEW s \in Seq(R), NEW e \in R
  PROVE  ToSet(Append(s, e)) = ToSet(s) \cup {e}
<1>1. /\ Len(s) \in Nat /\ DOMAIN s = 1..Len(s)
      /\ Append(s, e) \in Seq(R) /\ Len(Append(s, e)) = Len(s) + 1
      /\ \A i \in 1..Len(s) : Append(s, e)[i] = s[i]
      /\ Append(s, e)[Len(s)+1] = e
  BY AppendProperties, LenProperties
<1>2. DOMAIN Append(s, e) = 1..Len(s)+1
  BY <1>1, LenProperties
<1>3. ASSUME NEW x \in ToSet(Append(s, e)) PROVE x \in ToSet(s) \cup {e}
  <2>1. PICK i \in 1..Len(s)+1 : x = Append(s, e)[i]
    BY <1>2 DEF ToSet
  <2>2. CASE i = Len(s)+1
    BY <1>1, <2>1, <2>2
  <2>3. CASE i # Len(s)+1
    <3>1. i \in 1..Len(s)
      BY <1>1, <2>3
    <3> QED BY <1>1, <2>1, <3>1 DEF ToSet
  <2> QED BY <2>2, <2>3
<1>4. ASSUME NEW x \in ToSet(s) PROVE x \in ToSet(Append(s, e))
  <2>1. PICK i \in 1..Len(s) : x = s[i]
    BY <1>1 DEF ToSet
  <2>2. i \in 1..Len(s)+1 /\ Append(s, e)[i] = x
    BY <1>1, <2>1
  <2> QED BY <1>2, <2>2 DEF ToSet
<1>5. e \in ToSet(Append(s, e))
  <2>1. Len(s)+1 \in 1..Len(s)+1
    BY <1>1
  <2> QED BY <1>1, <1>2, <2>1 DEF ToSet
<1> QED BY <1>3, <1>4, <1>5

(* No two entries of a list have one Id.                                   *)
OwnIds(s) == \A i, j \in 1..Len(s) : s[i].Id = s[j].Id => i = j

(* A list without an Id keeps different Ids with an entry of that Id.      *)
LEMMA AppendOwnIds ==
  ASSUME NEW R, NEW s \in Seq(R), NEW e \in R
  PROVE  OwnIds(Append(s, e)) <=> OwnIds(s) /\ \A t \in ToSet(s) : t.Id # e.Id
<1>1. /\ Len(s) \in Nat /\ DOMAIN s = 1..Len(s)
      /\ Append(s, e) \in Seq(R) /\ Len(Append(s, e)) = Len(s) + 1
      /\ \A i \in 1..Len(s) : Append(s, e)[i] = s[i]
      /\ Append(s, e)[Len(s)+1] = e
  BY AppendProperties, LenProperties
<1>2. \A i \in 1..Len(s)+1 : i = Len(s)+1 \/ i \in 1..Len(s)
  BY <1>1
<1>3. \A i \in 1..Len(s) : i \in 1..Len(s)+1 /\ i # Len(s)+1
  BY <1>1
<1>4. Len(s)+1 \in 1..Len(s)+1
  BY <1>1
<1>5. ASSUME OwnIds(Append(s, e)) PROVE OwnIds(s) /\ \A t \in ToSet(s) : t.Id # e.Id
  <2>1. OwnIds(s)
    BY <1>1, <1>3, <1>5 DEF OwnIds
  <2>2. ASSUME NEW i \in 1..Len(s) PROVE s[i].Id # e.Id
    BY <1>1, <1>3, <1>4, <1>5 DEF OwnIds
  <2> QED BY <1>1, <2>1, <2>2 DEF ToSet
<1>6. ASSUME OwnIds(s), \A t \in ToSet(s) : t.Id # e.Id PROVE OwnIds(Append(s, e))
  <2>1. \A i \in 1..Len(s) : s[i].Id # e.Id
    BY <1>1, <1>6 DEF ToSet
  <2>2. ASSUME NEW i \in 1..Len(s)+1, NEW j \in 1..Len(s)+1,
               Append(s, e)[i].Id = Append(s, e)[j].Id
        PROVE  i = j
    BY <1>1, <1>2, <1>6, <2>1, <2>2 DEF OwnIds
  <2> QED BY <1>1, <2>2 DEF OwnIds
<1> QED BY <1>5, <1>6

(* The part of a list in a set: its entries are those of the list in the   *)
(* set, and have different Ids if those of the list have.                  *)
LEMMA ThoseFacts ==
  ASSUME NEW R, NEW S, NEW s \in Seq(R)
  PROVE  /\ Those(s, S) \in Seq(R) /\ ToSet(Those(s, S)) = ToSet(s) \cap S
         /\ OwnIds(s) => OwnIds(Those(s, S))
<1> DEFINE T == {u \in Seq(R) : /\ Those(u, S) \in Seq(R)
                                /\ ToSet(Those(u, S)) = ToSet(u) \cap S
                                /\ OwnIds(u) => OwnIds(Those(u, S))}
<1>1. <<>> \in T
  BY Nothing, EmptySeq
<1>2. ASSUME NEW u \in T \cap Seq(R), NEW e \in R PROVE Append(u, e) \in T
  <2>1. Append(u, e) \in Seq(R)
    BY AppendProperties
  <2>2. ToSet(Append(u, e)) = ToSet(u) \cup {e}
    BY AppendHas
  <2>3. /\ Those(u, S) \in Seq(R) /\ ToSet(Those(u, S)) = ToSet(u) \cap S
        /\ OwnIds(u) => OwnIds(Those(u, S))
    OBVIOUS
  <2>4. OwnIds(Append(u, e)) => OwnIds(u) /\ \A t \in ToSet(u) : t.Id # e.Id
    BY AppendOwnIds
  <2>5. Those(Append(u, e), S) = IF e \in S THEN Append(Those(u, S), e) ELSE Those(u, S)
    BY ThoseAppend
  <2>6. CASE e \in S
    <3>1. Append(Those(u, S), e) \in Seq(R)
      BY <2>3, AppendProperties
    <3>2. ToSet(Append(Those(u, S), e)) = ToSet(Those(u, S)) \cup {e}
      BY <2>3, AppendHas
    <3>3. OwnIds(Append(Those(u, S), e)) <=>
            OwnIds(Those(u, S)) /\ \A t \in ToSet(Those(u, S)) : t.Id # e.Id
      BY <2>3, AppendOwnIds
    <3>4. OwnIds(Append(u, e)) => OwnIds(Append(Those(u, S), e))
      BY <2>3, <2>4, <3>3
    <3> QED BY <2>1, <2>2, <2>3, <2>5, <2>6, <3>1, <3>2, <3>4
  <2>7. CASE e \notin S
    BY <2>1, <2>2, <2>3, <2>4, <2>5, <2>7
  <2> QED BY <2>6, <2>7
<1> HIDE DEF T
<1>3. Seq(R) \subseteq T
  BY <1>1, <1>2, ListInduction
<1> QED BY <1>3 DEF T

(* The sum of entries with a power is a number.                            *)
LEMMA SumIsNumber ==
  ASSUME NEW R, \A r \in R : r.flops \in Nat, NEW s \in Seq(R)
  PROVE  SumFlops(s) \in Nat
<1> DEFINE T == {u \in Seq(R) : SumFlops(u) \in Nat}
<1>2. <<>> \in T
  BY Nothing, EmptySeq
<1>3. ASSUME NEW u \in T \cap Seq(R), NEW e \in R PROVE Append(u, e) \in T
  BY AppendProperties, SumAppend
<1> HIDE DEF T
<1>4. Seq(R) \subseteq T
  BY <1>2, <1>3, ListInduction
<1> QED BY <1>4 DEF T

(* The part of a list in a set and the rest of it have together the power  *)
(* of the list.                                                            *)
LEMMA SumSplits ==
  ASSUME NEW R, \A r \in R : r.flops \in Nat, NEW S, NEW s \in Seq(R)
  PROVE  SumFlops(Those(s, S)) + SumFlops(Others(s, S)) = SumFlops(s)
<1> DEFINE T == {u \in Seq(R) : \A V \in SUBSET R : ToSet(u) \subseteq V =>
                   SumFlops(Those(u, S)) + SumFlops(Those(u, V \ S)) = SumFlops(u)}
<1>1. <<>> \in T
  BY Nothing, EmptySeq
<1>2. ASSUME NEW u \in T \cap Seq(R), NEW e \in R PROVE Append(u, e) \in T
  <2>1. Append(u, e) \in Seq(R) /\ ToSet(Append(u, e)) = ToSet(u) \cup {e}
    BY AppendProperties, AppendHas
  <2>2. ASSUME NEW V \in SUBSET R, ToSet(Append(u, e)) \subseteq V
        PROVE  SumFlops(Those(Append(u, e), S)) + SumFlops(Those(Append(u, e), V \ S))
                 = SumFlops(Append(u, e))
    <3> DEFINE a == Those(u, S)
               b == Those(u, V \ S)
    <3>1. SumFlops(a) + SumFlops(b) = SumFlops(u) /\ e \in V
      BY <2>1, <2>2
    <3>2. a \in Seq(R) /\ b \in Seq(R)
      BY ThoseFacts
    <3>3. /\ Those(Append(u, e), S) = IF e \in S THEN Append(a, e) ELSE a
          /\ Those(Append(u, e), V \ S) = IF e \in V \ S THEN Append(b, e) ELSE b
      BY ThoseAppend
    <3> HIDE DEF a, b
    <3>4. /\ SumFlops(Append(a, e)) = SumFlops(a) + e.flops
          /\ SumFlops(Append(b, e)) = SumFlops(b) + e.flops
          /\ SumFlops(Append(u, e)) = SumFlops(u) + e.flops
      BY <3>2, SumAppend
    <3>5. SumFlops(a) \in Nat /\ SumFlops(b) \in Nat /\ e.flops \in Nat
      BY <3>2, SumIsNumber
    <3>6. CASE e \in S
      <4>1. Those(Append(u, e), S) = Append(a, e) /\ Those(Append(u, e), V \ S) = b
        BY <3>3, <3>6
      <4> QED BY <3>1, <3>4, <3>5, <4>1
    <3>7. CASE e \notin S
      <4>1. Those(Append(u, e), S) = a /\ Those(Append(u, e), V \ S) = Append(b, e)
        BY <3>1, <3>3, <3>7
      <4>2. /\ SumFlops(Those(Append(u, e), S)) = SumFlops(a)
            /\ SumFlops(Those(Append(u, e), V \ S)) = SumFlops(b) + e.flops
        BY <3>4, <4>1
      <4>3. \A x, y, z, w \in Nat : x + y = z => x + (y + w) = z + w
        OBVIOUS
      <4>4. SumFlops(u) \in Nat
        BY SumIsNumber
      <4>5. SumFlops(a) + (SumFlops(b) + e.flops) = SumFlops(u) + e.flops
        BY <3>1, <3>5, <4>3, <4>4
      <4> QED BY <3>4, <4>2, <4>5
    <3> QED BY <3>6, <3>7
  <2> QED BY <2>1, <2>2
<1> HIDE DEF T
<1>3. Seq(R) \subseteq T
  BY <1>1, <1>2, ListInduction
<1>4. ToSet(s) \in SUBSET R
  BY LenProperties, ElementOfSeq DEF ToSet
<1> QED BY <1>3, <1>4 DEF T, Others
-----------------------------------------------------------------------------
(* What a call has at each place of its way.                               *)

Reserving == {"local", "search", "discover", "reserve", "check"}
Launching == {"code", "launch", "receive"}

(* slots, batch and got are functions of the calls.                        *)
Shapes ==
  /\ slots = [c \in Calls |-> slots[c]] /\ batch = [c \in Calls |-> batch[c]]
  /\ got = [c \in Calls |-> got[c]]

(* Of an attempt under way, the places reserved so far are known by node   *)
(* and Id, and the batch that is launched has a node and Ids.              *)
Way(c) ==
  /\ pc[c] \in Reserving \cup Launching \cup {"exec"} => retry[c] > 0
  /\ pc[c] = "exec" => cursor[c] > 0
  /\ pc[c] = "reserve" => turn[c] \in 1..Len(responses[c])
  /\ \A i \in 1..HowMany[c] :
       /\ slots[c][i].id = 0 => slots[c][i].contact = None /\ slots[c][i].flops = 0
       /\ pc[c] \in Reserving /\ slots[c][i].contact = None => slots[c][i].flops = 0
  /\ pc[c] \in Launching =>
       /\ cursor[c] \in batch[c] /\ Host(c) # None /\ got[c] # batch[c]
       /\ \A i \in batch[c] : slots[c][i].id # 0

TInv ==
  /\ CreateTypeOK /\ Shapes
  /\ \A n \in Nodes : available[n] >= 0
  /\ \A c \in Calls : Way(c)

-----------------------------------------------------------------------------
(* Every Id was given before the next one, and a reservation names the     *)
(* application of its call, or none.                                       *)
Numbered == \A n \in Nodes : \A t \in ToSet(jobs[n]) : t.Id < counter[n]
Tagged   == \A n \in Nodes : \A t \in ToSet(jobs[n]) : t.popAppId \in {NoApp, AppOf[t.by]}
Alone    == \A n \in Nodes : OwnIds(jobs[n])

(* The Id is of a reservation of c, or of none any more.                   *)
Own(c, n, id) == id < counter[n] /\ \A t \in ToSet(jobs[n]) : t.Id = id => t.by = c

(* The object of that reservation keeps it.                                *)
Keeps(c, n, id) ==
  managerUp[n] /\ appUp[AppOf[c]] =>
    \E t \in ToSet(jobs[n]) : t.Id = id /\ t.held /\ t.by = c

(* The places of a call, the batch it launches, those of it that reported, *)
(* and the objects that are there.                                         *)
OwnPlaces(c) ==
  \A i \in 1..HowMany[c] :
    slots[c][i].contact # None => Own(c, slots[c][i].contact, slots[c][i].id)
OwnBatch(c)  == pc[c] \in Launching => \A i \in batch[c] : Own(c, Host(c), slots[c][i].id)
HeldBatch(c) == pc[c] \in Launching => \A i \in got[c] : Keeps(c, Host(c), slots[c][i].id)
HeldMade(c)  == \A p \in made[c] : \A id \in p.ids : Keeps(c, p.node, id)

HoldsAll(c) == OwnPlaces(c) /\ OwnBatch(c) /\ HeldBatch(c) /\ HeldMade(c)

(* The places and the objects of a call have different numbers: each place *)
(* has one of its own, ...                                                 *)
PlaceIds(c) ==
  /\ \A i \in 1..HowMany[c] :
       slots[c][i].contact # None => slots[c][i].id < counter[slots[c][i].contact]
  /\ \A i, j \in 1..HowMany[c] :
       slots[c][i].contact # None /\ slots[c][i].contact = slots[c][j].contact /\ i # j =>
         slots[c][i].id # slots[c][j].id

(* ... no place still to launch has that of an object, ...                 *)
Pending(c, i) ==
  /\ slots[c][i].contact # None
  /\ \/ pc[c] \in Reserving
     \/ pc[c] = "exec" /\ i >= cursor[c]
     \/ pc[c] \in Launching /\ i > cursor[c]

ObjectIds(c) ==
  /\ \A x \in Objects(c) : x[2] < counter[x[1]]
  /\ \A i \in 1..HowMany[c] :
       Pending(c, i) => <<slots[c][i].contact, slots[c][i].id>> \notin Objects(c)

(* ... and the batch is of all the places on its node.                     *)
BatchIds(c) ==
  pc[c] \in Launching =>
    /\ \A i \in batch[c] : /\ slots[c][i].id < counter[Host(c)]
                           /\ <<Host(c), slots[c][i].id>> \notin Objects(c)
                           /\ i # cursor[c] => slots[c][i].contact = None
    /\ \A i, j \in batch[c] : i # j => slots[c][i].id # slots[c][j].id
    /\ \A j \in 1..HowMany[c] : j > cursor[c] => slots[c][j].contact # Host(c)

Counts(c) ==
  /\ IsFiniteSet(Objects(c)) /\ Cardinality(Objects(c)) = count[c]
  /\ count[c] <= HowMany[c]
  /\ pc[c] = "exec" => count[c] + Cardinality(Places(c)) <= HowMany[c]
  /\ pc[c] \in Launching =>
       count[c] + Cardinality(batch[c] \cup (Places(c) \ {cursor[c]})) <= HowMany[c]

(* The processes of a call are its objects, and the one it launches, and   *)
(* those on nodes whose manager is gone.                                   *)
Lives(c) ==
  /\ \A p \in made[c] : p.call = c
  /\ pc[c] = "done" => count[c] = HowMany[c]
  /\ pc[c] # "failed" => made[c] \subseteq processes
  /\ pc[c] = "receive" => [call |-> c, node |-> Host(c), ids |-> Ids(c)] \in processes
  /\ \A p \in processes : p.call = c =>
       \/ pc[c] # "failed" /\ p \in made[c]
       \/ pc[c] = "receive" /\ p \in Launched(c)
       \/ ~managerUp[p.node]

Whole(c) == PlaceIds(c) /\ ObjectIds(c) /\ BatchIds(c) /\ Counts(c) /\ Lives(c)
-----------------------------------------------------------------------------
(* What a step does to the ledgers.                                        *)

Takes(n, c, a) == Take(n, Reservation(n, Grant(n, Require[c]), a, c))
Orphans(n, c) ==
  /\ ~searchUp[n]
  /\ jobs' = [jobs EXCEPT ![n] =
                Append(@, Reservation(n, Grant(n, Require[c]), AppOf[c], c))]
  /\ UNCHANGED <<available, counter>>
Frees(n, S) ==
  /\ jobs' = [jobs EXCEPT ![n] = Others(@, S)]
  /\ available' = [available EXCEPT ![n] = @ + SumFlops(Those(jobs[n], S))]
  /\ UNCHANGED counter
  /\ (\A t \in S : ~t.held) \/ \E a \in Apps : ~appUp[a] /\ \A t \in S : t.popAppId = a
Throws(n, k) ==
  /\ ~searchUp[n] /\ ~jobs[n][k].held
  /\ jobs' = [jobs EXCEPT ![n] = RemoveAt(@, k)]
  /\ available' = [available EXCEPT ![n] = @ + jobs[n][k].flops]
  /\ UNCHANGED counter
HeldAt(s, k) == [s EXCEPT ![k].held = TRUE]
Holds(n, k) ==
  /\ jobs' = [jobs EXCEPT ![n] = HeldAt(@, k)]
  /\ UNCHANGED <<available, counter>>

LedgerStep ==
  \/ UNCHANGED <<jobs, available, counter>>
  \/ \E n \in Nodes, c \in Calls : Takes(n, c, AppOf[c]) \/ Takes(n, c, NoApp) \/ Orphans(n, c)
  \/ \E n \in Nodes : \E S \in SUBSET ToSet(jobs[n]) : Frees(n, S)
  \/ \E n \in Nodes : \E k \in 1..Len(jobs[n]) : Throws(n, k) \/ Holds(n, k)

(* A cancellation frees entries without a contact.                         *)
LEMMA CancelWrites ==
  ASSUME LedgerTypeOK, NEW n \in Nodes, NEW ids, Cancel(n, ids)
  PROVE  LedgerStep
<1> DEFINE S == Cancelled(n, ids)
<1>1. S \in SUBSET ToSet(jobs[n]) /\ \A t \in S : ~t.held
  BY DEF Cancelled, Cancellable
<1>2. CASE UNCHANGED ledgerVars
  BY <1>2 DEF ledgerVars, LedgerStep
<1>3. CASE S # {} /\ searchUp[n] /\ UNCHANGED counter
           /\ jobs' = [jobs EXCEPT ![n] = Others(@, S)]
           /\ available' = [available EXCEPT ![n] = @ + SumFlops(Those(jobs[n], S))]
  <2> HIDE DEF S
  <2>1. Frees(n, S)
    BY <1>1, <1>3 DEF Frees
  <2> QED BY <1>1, <2>1 DEF LedgerStep
<1>4. ASSUME CancelThrows(n, ids), NEW k,
             k = SelectInSeq(jobs[n], LAMBDA t : Cancellable(t, ids)),
             jobs' = [jobs EXCEPT ![n] = RemoveAt(@, k)],
             available' = [available EXCEPT ![n] = @ + jobs[n][k].flops],
             UNCHANGED counter
      PROVE  LedgerStep
  <2> DEFINE I == {i \in 1..Len(jobs[n]) : Cancellable(jobs[n][i], ids)}
  <2>1. DOMAIN jobs[n] = 1..Len(jobs[n])
    BY LenProperties DEF LedgerTypeOK
  <2>2. I # {}
    BY <1>4, <2>1 DEF CancelThrows, Cancelled, ToSet
  <2>3. k = Min(I)
    BY <1>4, <2>2 DEF SelectInSeq
  <2>4. k \in I
    <3>1. I \in SUBSET Nat
      OBVIOUS
    <3> HIDE DEF I
    <3> QED BY <2>2, <2>3, <3>1, MinFacts
  <2>5. Throws(n, k)
    BY <1>4, <2>4 DEF Throws, Cancellable, CancelThrows
  <2> QED BY <2>4, <2>5 DEF LedgerStep
<1> QED BY <1>2, <1>3, <1>4 DEF Cancel

(* A call that is launched has a node, and its Ids are numbers.            *)
LEMMA LaunchFacts ==
  ASSUME CreateTypeOK, NEW c \in Calls, Way(c), pc[c] \in Launching
  PROVE  Host(c) \in Nodes /\ batch[c] # {} /\ Ids(c) \in SUBSET (1..MaxId)
<1>1. /\ slots[c] \in [1..HowMany[c] -> Slot] /\ batch[c] \subseteq 1..HowMany[c]
      /\ cursor[c] \in batch[c] /\ Host(c) # None
      /\ \A i \in batch[c] : slots[c][i].id # 0
  BY DEF CreateTypeOK, Way
<1>2. \A i \in 1..HowMany[c] :
        slots[c][i].contact \in Nodes \cup {None} /\ slots[c][i].id \in 0..MaxId
  BY <1>1 DEF Slot
<1>3. \A i \in batch[c] : slots[c][i].id \in 1..MaxId
  <2>1. MaxId \in Nat
    BY LedgerAssumption
  <2> QED BY <1>1, <1>2, <2>1
<1> QED BY <1>1, <1>2, <1>3 DEF Host, Ids

(* An entry that is found by its Id is one of the list.                    *)
LEMMA ValidateWrites ==
  ASSUME LedgerTypeOK, NEW n \in Nodes, NEW id, ValidateReservation(n, id)
  PROVE  \E k \in 1..Len(jobs[n]) : Holds(n, k) /\ jobs[n][k].Id = id
<1> DEFINE I == {i \in 1..Len(jobs[n]) : jobs[n][i].Id = id}
           k == SelectInSeq(jobs[n], LAMBDA t : t.Id = id)
<1>1. k > 0 /\ jobs' = [jobs EXCEPT ![n][k].held = TRUE] /\ UNCHANGED <<available, counter>>
  BY DEF ValidateReservation
<1>2. k = IF I # {} THEN Min(I) ELSE 0
  BY DEF SelectInSeq
<1>3. I # {} /\ k = Min(I)
  <2> HIDE DEF I, k
  <2> QED BY <1>1, <1>2
<1>4. Min(I) \in I
  <2>1. I \in SUBSET Nat
    OBVIOUS
  <2> HIDE DEF I
  <2> QED BY <1>3, <2>1, MinFacts
<1> HIDE DEF k
<1>5. k \in 1..Len(jobs[n]) /\ jobs[n][k].Id = id
  BY <1>3, <1>4
<1> QED BY <1>1, <1>5 DEF Holds, HeldAt

(* What any step does to the ledgers.                                      *)
LEMMA LedgerWriters ==
  ASSUME TInv, [Next]_createVars
  PROVE  LedgerStep
<1>1. CreateTypeOK /\ LedgerTypeOK /\ \A c \in Calls : Way(c)
  BY DEF TInv, CreateTypeOK
<1>2. ASSUME NEW c \in Calls, MatchLocal(c)
      PROVE  LedgerStep
  <2>1. Home[c] \in Nodes
    BY CreateAssumption
  <2>2. \/ UNCHANGED nodeVars
        \/ \E id : MatchAndReserve(Home[c], c, Require[c], Minimum[c], id)
    BY <1>2 DEF MatchLocal, Jump
  <2>3. CASE UNCHANGED nodeVars
    BY <2>3 DEF nodeVars, LedgerStep
  <2>4. CASE \E id : MatchAndReserve(Home[c], c, Require[c], Minimum[c], id)
    <3>1. UNCHANGED ledgerVars \/ Takes(Home[c], c, NoApp)
      BY <2>4 DEF MatchAndReserve, Takes
    <3> QED BY <2>1, <3>1 DEF ledgerVars, LedgerStep
  <2> QED BY <2>2, <2>3, <2>4
<1>3. ASSUME NEW c \in Calls, ReserveRemote(c)
      PROVE  LedgerStep
  <2> DEFINE n == responses[c][turn[c]]
  <2>1. n \in Nodes
    <3>1. responses[c] \in Seq(Nodes) /\ turn[c] \in 1..Len(responses[c])
      BY <1>1, <1>3 DEF CreateTypeOK, Way, ReserveRemote, At
    <3> QED BY <3>1, ElementOfSeq
  <2>2. UNCHANGED nodeVars \/ \E id : Reserve(n, c, AppOf[c], Require[c], id)
    BY <1>3 DEF ReserveRemote, Jump
  <2> HIDE DEF n
  <2>3. CASE UNCHANGED nodeVars
    BY <2>3 DEF nodeVars, LedgerStep
  <2>4. CASE \E id : Reserve(n, c, AppOf[c], Require[c], id)
    <3>1. UNCHANGED ledgerVars \/ Takes(n, c, AppOf[c]) \/ Orphans(n, c)
      BY <2>4 DEF Reserve, Takes, Orphans
    <3> QED BY <2>1, <3>1 DEF ledgerVars, LedgerStep
  <2> QED BY <2>2, <2>3, <2>4
<1>4. ASSUME NEW c \in Calls, pc[c] \in Launching, ExecFails(c)
      PROVE  LedgerStep
  BY <1>1, <1>4, LaunchFacts, CancelWrites DEF ExecFails
<1>5. ASSUME NEW c \in Calls, pc[c] \in Launching, ValidateReservation(Host(c), slots[c][NextSlot(c)].id)
      PROVE  LedgerStep
  BY <1>1, <1>5, LaunchFacts, ValidateWrites DEF LedgerStep
<1>6. ASSUME NEW c \in Calls, QueryCode(c) \/ Launch(c) \/ Receive(c)
      PROVE  LedgerStep
  <2>1. pc[c] \in Launching
    BY <1>6 DEF QueryCode, Launch, Receive, At, Launching
  <2>2. \/ UNCHANGED nodeVars
        \/ ExecFails(c) \/ ValidateReservation(Host(c), slots[c][NextSlot(c)].id)
    BY <1>6 DEF QueryCode, Launch, Receive, Jump
  <2> QED BY <2>1, <2>2, <1>4, <1>5 DEF nodeVars, LedgerStep
<1>7. ASSUME NEW m \in cancels, CancelReservation(m)
      PROVE  LedgerStep
  <2>1. m.node \in Nodes
    BY <1>1 DEF CreateTypeOK
  <2>2. Cancel(m.node, m.ids) \/ UNCHANGED ledgerVars
    BY <1>7 DEF CancelReservation
  <2> QED BY <2>1, <2>2, <1>1, CancelWrites DEF LedgerStep, ledgerVars
<1>8. ASSUME NEW n \in Nodes, NEW a \in Apps, EndReaches(n, a)
      PROVE  LedgerStep
  <2> DEFINE S == Named(n, a)
  <2>1. S \in SUBSET ToSet(jobs[n]) /\ \A t \in S : t.popAppId = a
    BY DEF Named, Names
  <2>2. /\ jobs' = [jobs EXCEPT ![n] = Others(@, S)]
        /\ available' = [available EXCEPT ![n] = @ + SumFlops(Those(jobs[n], S))]
        /\ UNCHANGED counter /\ ~appUp[a]
    BY <1>8 DEF EndReaches, ApplicationEnd
  <2> HIDE DEF S
  <2>3. Frees(n, S)
    BY <2>1, <2>2 DEF Frees
  <2> QED BY <2>1, <2>3 DEF LedgerStep
<1>9. ASSUME NEW c \in Calls,
             \/ Attempt(c) \/ StartDiscovery(c) \/ EndDiscovery(c) \/ Check(c) \/ Exec(c)
             \/ ExecThrows(c) \/ KillObjects(c) \/ \E n \in Nodes : Respond(c, n)
      PROVE  UNCHANGED ledgerVars
  <2>1. CASE Attempt(c)
    BY <2>1 DEF Attempt, Jump, Return, nodeVars, ledgerVars
  <2>2. CASE StartDiscovery(c)
    BY <2>2 DEF StartDiscovery, Jump, nodeVars, ledgerVars
  <2>3. CASE EndDiscovery(c)
    BY <2>3 DEF EndDiscovery, Jump, nodeVars, ledgerVars
  <2>4. CASE Check(c) \/ Exec(c)
    BY <2>4 DEF Check, Exec, nodeVars, ledgerVars
  <2>5. CASE ExecThrows(c) \/ KillObjects(c) \/ \E n \in Nodes : Respond(c, n)
    BY <2>5 DEF ExecThrows, KillObjects, Return, Respond, nodeVars, ledgerVars
  <2> QED BY <1>9, <2>1, <2>2, <2>3, <2>4, <2>5
<1>10. ASSUME NEW a \in Apps,
              AppEnds(a) \/ \E n \in Nodes : EndStep(n, a)
       PROVE  UNCHANGED <<jobs, available, counter>>
  BY <1>10 DEF AppEnds, EndStep, ReadAvailable, SendAvailable, nodeVars, ledgerVars
<1>11. ASSUME NEW n \in Nodes, StopSearch(n)
       PROVE  UNCHANGED <<jobs, available, counter>>
  BY <1>11 DEF StopSearch, SearchNodeStops, ledgerVars
<1>12. CASE UNCHANGED createVars
  BY <1>12 DEF createVars, nodeVars, LedgerStep
<1> QED BY <1>2, <1>3, <1>6, <1>7, <1>8, <1>9, <1>10, <1>11, <1>12
        DEF Next, CallStep, LedgerStep, ledgerVars

(* An entry that is held from now on stays what it was otherwise.          *)
LEMMA HoldFacts ==
  ASSUME NEW s \in Seq(Resources), NEW k \in 1..Len(s)
  PROVE  /\ HeldAt(s, k) \in Seq(Resources) /\ Len(HeldAt(s, k)) = Len(s)
         /\ \A j \in 1..Len(s) :
              /\ HeldAt(s, k)[j].Id = s[j].Id /\ HeldAt(s, k)[j].flops = s[j].flops
              /\ HeldAt(s, k)[j].popAppId = s[j].popAppId /\ HeldAt(s, k)[j].by = s[j].by
              /\ HeldAt(s, k)[j].held <=> s[j].held \/ j = k
<1> DEFINE u == HeldAt(s, k)
           e == [s[k] EXCEPT !.held = TRUE]
<1>1. \A j \in 1..Len(s) : s[j] \in Resources
  BY ElementOfSeq
<1>2. /\ e \in Resources /\ e.Id = s[k].Id /\ e.flops = s[k].flops
      /\ e.popAppId = s[k].popAppId /\ e.by = s[k].by /\ e.held = TRUE
  BY <1>1 DEF Resources
<1>3. u = [s EXCEPT ![k] = e]
  BY DEF HeldAt
<1> HIDE DEF e, u
<1>7. /\ [s EXCEPT ![k] = e] \in Seq(Resources) /\ Len([s EXCEPT ![k] = e]) = Len(s)
      /\ \A j \in 1..Len(s) : [s EXCEPT ![k] = e][j] = IF j = k THEN e ELSE s[j]
  <2>1. e \in Resources
    BY <1>2
  <2> QED BY <2>1, ExceptSeq
<1>4. /\ u \in Seq(Resources) /\ Len(u) = Len(s)
      /\ \A j \in 1..Len(s) : u[j] = IF j = k THEN e ELSE s[j]
  BY <1>3, <1>7
<1>5. \A j \in 1..Len(s) : s[j].held \in BOOLEAN
  BY <1>1 DEF Resources
<1>6. /\ u \in Seq(Resources) /\ Len(u) = Len(s)
      /\ \A j \in 1..Len(s) :
           /\ u[j].Id = s[j].Id /\ u[j].flops = s[j].flops
           /\ u[j].popAppId = s[j].popAppId /\ u[j].by = s[j].by
           /\ u[j].held <=> s[j].held \/ j = k
  BY <1>2, <1>4, <1>5
<1> QED BY <1>6 DEF u

(* A list without one of its entries.                                      *)
LEMMA RemoveAtIsList ==
  ASSUME NEW R, NEW s \in Seq(R), NEW k \in 1..Len(s)
  PROVE  RemoveAt(s, k) \in Seq(R)
<1>1. Len(s) \in Nat /\ \A j \in 1..Len(s) : s[j] \in R
  BY ElementOfSeq, LenProperties
<1>2. (\A j \in 1..k-1 : s[j] \in R) /\ \A j \in k+1..Len(s) : s[j] \in R
  BY <1>1
<1>3. SubSeq(s, 1, k-1) \in Seq(R) /\ SubSeq(s, k+1, Len(s)) \in Seq(R)
  BY <1>1, <1>2, SubSeqProperties
<1> QED BY <1>3, ConcatProperties DEF RemoveAt

(* A grant is a power, and never more than there is.                       *)
LEMMA GrantFacts ==
  ASSUME LedgerTypeOK, NEW n \in Nodes, available[n] >= 0, NEW c \in Calls
  PROVE  Grant(n, Require[c]) \in Nat /\ Grant(n, Require[c]) <= available[n]
<1>1. available[n] \in Int /\ Require[c] \in Nat /\ Limit \in Nat
  BY CreateAssumption, LedgerAssumption DEF LedgerTypeOK
<1> QED BY <1>1 DEF Grant, Least

(* A new reservation has the next Id and a power that was granted.         *)
LEMMA ReservationFacts ==
  ASSUME LedgerTypeOK, NEW n \in Nodes, available[n] >= 0, NEW c \in Calls,
         NEW a \in Apps \cup {NoApp}
  PROVE  LET t == Reservation(n, Grant(n, Require[c]), a, c)
         IN  /\ t \in Resources /\ t.Id = counter[n] /\ t.flops = Grant(n, Require[c])
             /\ t.popAppId = a /\ ~t.held /\ t.by = c
<1>1. Grant(n, Require[c]) \in Nat /\ counter[n] \in 1..MaxId
  BY GrantFacts DEF LedgerTypeOK
<1> HIDE DEF Grant
<1> QED BY <1>1 DEF Reservation, Resources

(* The next number after one is one.                                       *)
LEMMA NextNumber ==
  ASSUME NEW i \in 1..MaxId
  PROVE  (i % MaxId) + 1 \in 1..MaxId /\ (i % MaxId) + 1 = IF i = MaxId THEN 1 ELSE i + 1
<1>1. MaxId \in Nat \ {0}
  BY LedgerAssumption
<1>2. CASE i = MaxId
  <2>1. MaxId % MaxId = 0
    BY <1>1
  <2> QED BY <1>1, <1>2, <2>1
<1>3. CASE i < MaxId
  <2>1. i % MaxId = i
    BY <1>1, <1>3
  <2> QED BY <1>1, <1>3, <2>1
<1> QED BY <1>1, <1>2, <1>3

(* What a reservation does to each ledger.                                 *)
LEMMA TakesFacts ==
  ASSUME LedgerTypeOK, NEW n \in Nodes, available[n] >= 0, NEW c \in Calls,
         NEW a \in Apps \cup {NoApp}, Takes(n, c, a), NEW m \in Nodes
  PROVE  LET t == Reservation(n, Grant(n, Require[c]), a, c)
         IN  /\ m # n => /\ jobs'[m] = jobs[m] /\ available'[m] = available[m]
                         /\ counter'[m] = counter[m]
             /\ m = n => /\ jobs'[m] = Append(jobs[m], t)
                         /\ available'[m] = available[m] - t.flops
                         /\ counter'[m] = (counter[m] % MaxId) + 1
BY DEF Takes, Take, LedgerTypeOK

(* The ledgers keep their types, and nobody reserves what is not there.    *)
LEMMA LedgerTypesStep ==
  ASSUME TInv, LedgerStep
  PROVE  /\ jobs' \in [Nodes -> Seq(Resources)] /\ available' \in [Nodes -> Int]
         /\ counter' \in [Nodes -> 1..MaxId]
         /\ \A n \in Nodes : available'[n] >= 0
<1>1. /\ LedgerTypeOK /\ \A n \in Nodes : available[n] >= 0
      /\ jobs \in [Nodes -> Seq(Resources)] /\ available \in [Nodes -> Int]
      /\ counter \in [Nodes -> 1..MaxId]
  BY DEF TInv, CreateTypeOK, LedgerTypeOK
<1>2. \A r \in Resources : r.flops \in Nat
  BY DEF Resources
<1>3. CASE UNCHANGED <<jobs, available, counter>>
  BY <1>1, <1>3
<1>4. ASSUME NEW n \in Nodes, NEW c \in Calls, NEW a \in Apps \cup {NoApp}, Takes(n, c, a)
      PROVE  /\ jobs' \in [Nodes -> Seq(Resources)] /\ available' \in [Nodes -> Int]
             /\ counter' \in [Nodes -> 1..MaxId]
             /\ \A m \in Nodes : available'[m] >= 0
  <2> DEFINE t == Reservation(n, Grant(n, Require[c]), a, c)
  <2>1. t \in Resources /\ t.flops \in Nat /\ t.flops <= available[n]
    BY <1>1, GrantFacts, ReservationFacts
  <2>2. Append(jobs[n], t) \in Seq(Resources)
    BY <1>1, <2>1, AppendProperties
  <2>3. (counter[n] % MaxId) + 1 \in 1..MaxId
    BY <1>1, NextNumber
  <2>4. /\ jobs' = [jobs EXCEPT ![n] = Append(jobs[n], t)]
        /\ available' = [available EXCEPT ![n] = available[n] - t.flops]
        /\ counter' = [counter EXCEPT ![n] = (counter[n] % MaxId) + 1]
    BY <1>4 DEF Takes, Take
  <2> HIDE DEF t
  <2>5. available[n] - t.flops \in Int /\ available[n] - t.flops >= 0
    BY <1>1, <2>1
  <2>6. jobs' \in [Nodes -> Seq(Resources)]
    BY <1>1, <2>2, <2>4
  <2>7. available' \in [Nodes -> Int] /\ \A m \in Nodes : available'[m] >= 0
    BY <1>1, <2>4, <2>5
  <2>8. counter' \in [Nodes -> 1..MaxId]
    BY <1>1, <2>3, <2>4
  <2> QED BY <2>6, <2>7, <2>8
<1>5. ASSUME NEW n \in Nodes, NEW c \in Calls, Orphans(n, c)
      PROVE  jobs' \in [Nodes -> Seq(Resources)] /\ UNCHANGED <<available, counter>>
  <2> DEFINE t == Reservation(n, Grant(n, Require[c]), AppOf[c], c)
  <2>1. t \in Resources
    BY <1>1, CreateAssumption, ReservationFacts
  <2>2. Append(jobs[n], t) \in Seq(Resources)
    BY <1>1, <2>1, AppendProperties
  <2> QED BY <1>1, <1>5, <2>2 DEF Orphans
<1>6. ASSUME NEW n \in Nodes, NEW S, Frees(n, S)
      PROVE  /\ jobs' \in [Nodes -> Seq(Resources)] /\ available' \in [Nodes -> Int]
             /\ UNCHANGED counter
             /\ \A m \in Nodes : available'[m] >= 0
  <2>1. Others(jobs[n], S) \in Seq(Resources) /\ Those(jobs[n], S) \in Seq(Resources)
    BY <1>1, ThoseFacts DEF Others
  <2>2. SumFlops(Those(jobs[n], S)) \in Nat
    BY <1>2, <2>1, SumIsNumber
  <2>3. /\ available[n] + SumFlops(Those(jobs[n], S)) \in Int
        /\ available[n] + SumFlops(Those(jobs[n], S)) >= 0
    BY <1>1, <2>2
  <2>4. jobs' \in [Nodes -> Seq(Resources)] /\ UNCHANGED counter
    BY <1>1, <1>6, <2>1 DEF Frees
  <2>5. available' \in [Nodes -> Int] /\ \A m \in Nodes : available'[m] >= 0
    BY <1>1, <1>6, <2>3 DEF Frees
  <2> QED BY <2>4, <2>5
<1>7. ASSUME NEW n \in Nodes, NEW k \in 1..Len(jobs[n]), Throws(n, k)
      PROVE  /\ jobs' \in [Nodes -> Seq(Resources)] /\ available' \in [Nodes -> Int]
             /\ UNCHANGED counter
             /\ \A m \in Nodes : available'[m] >= 0
  <2>1. RemoveAt(jobs[n], k) \in Seq(Resources)
    BY <1>1, RemoveAtIsList
  <2>2. jobs[n][k].flops \in Nat
    BY <1>1, <1>2, ElementOfSeq
  <2>3. /\ available[n] + jobs[n][k].flops \in Int
        /\ available[n] + jobs[n][k].flops >= 0
    BY <1>1, <2>2
  <2>4. jobs' \in [Nodes -> Seq(Resources)] /\ UNCHANGED counter
    BY <1>1, <1>7, <2>1 DEF Throws
  <2>5. available' \in [Nodes -> Int] /\ \A m \in Nodes : available'[m] >= 0
    BY <1>1, <1>7, <2>3 DEF Throws
  <2> QED BY <2>4, <2>5
<1>8. ASSUME NEW n \in Nodes, NEW k \in 1..Len(jobs[n]), Holds(n, k)
      PROVE  jobs' \in [Nodes -> Seq(Resources)] /\ UNCHANGED <<available, counter>>
  <2>1. HeldAt(jobs[n], k) \in Seq(Resources)
    BY <1>1, HoldFacts
  <2> QED BY <1>1, <1>8, <2>1 DEF Holds
<1>9. \A c \in Calls : AppOf[c] \in Apps
  BY CreateAssumption
<1> QED BY <1>1, <1>3, <1>4, <1>5, <1>6, <1>7, <1>8, <1>9 DEF LedgerStep

-----------------------------------------------------------------------------
(* A step of a call leaves the other calls as they are.                    *)
Funs ==
  /\ pc = [c \in Calls |-> pc[c]] /\ count = [c \in Calls |-> count[c]]
  /\ retry = [c \in Calls |-> retry[c]] /\ slots = [c \in Calls |-> slots[c]]
  /\ cursor = [c \in Calls |-> cursor[c]] /\ responses = [c \in Calls |-> responses[c]]
  /\ turn = [c \in Calls |-> turn[c]] /\ failed = [c \in Calls |-> failed[c]]
  /\ batch = [c \in Calls |-> batch[c]] /\ got = [c \in Calls |-> got[c]]
  /\ made = [c \in Calls |-> made[c]]

Still(d) ==
  /\ pc'[d] = pc[d] /\ count'[d] = count[d] /\ retry'[d] = retry[d] /\ slots'[d] = slots[d]
  /\ cursor'[d] = cursor[d] /\ responses'[d] = responses[d] /\ turn'[d] = turn[d]
  /\ failed'[d] = failed[d] /\ batch'[d] = batch[d] /\ got'[d] = got[d] /\ made'[d] = made[d]

Only(c) == Funs' /\ \A d \in Calls \ {c} : Still(d)

(* A jump moves the program counter and nothing else, ...                  *)
LEMMA JumpOnly ==
  ASSUME Funs, NEW c \in Calls, NEW l, Jump(c, l)
  PROVE  Only(c)
BY DEF Funs, Only, Still, Jump, Goto

(* ... of one call.                                                        *)
LEMMA JumpIs ==
  ASSUME Funs, NEW c \in Calls, NEW l, Jump(c, l)
  PROVE  /\ pc'[c] = l /\ count'[c] = count[c] /\ retry'[c] = retry[c]
         /\ slots'[c] = slots[c] /\ cursor'[c] = cursor[c] /\ responses'[c] = responses[c]
         /\ turn'[c] = turn[c] /\ failed'[c] = failed[c] /\ batch'[c] = batch[c]
         /\ got'[c] = got[c] /\ made'[c] = made[c]
         /\ UNCHANGED <<nodeVars, processes, cancels, appUp>>
BY DEF Funs, Jump, Goto

(* A call returns without its local variables, ...                         *)
LEMMA ReturnOnly ==
  ASSUME Funs, NEW c \in Calls, NEW l, Return(c, l)
  PROVE  Only(c)
BY DEF Funs, Only, Still, Return, Goto

(* ... which nobody reads from then on.                                    *)
LEMMA ReturnIs ==
  ASSUME Funs, NEW c \in Calls, NEW l, Return(c, l)
  PROVE  /\ pc'[c] = l /\ count'[c] = count[c] /\ retry'[c] = retry[c]
         /\ slots'[c] = [i \in 1..HowMany[c] |-> NoSlot] /\ cursor'[c] = 0
         /\ responses'[c] = <<>> /\ turn'[c] = 0 /\ failed'[c] = 0 /\ batch'[c] = {}
         /\ got'[c] = {} /\ made'[c] = made[c]
         /\ UNCHANGED <<nodeVars, cancels, appUp>>
BY DEF Funs, Return, Goto

(* The retry loop is of one call, ...                                       *)
LEMMA AttemptOnly ==
  ASSUME Funs, NEW c \in Calls, Attempt(c)
  PROVE  Only(c)
BY JumpOnly, ReturnOnly DEF Funs, Only, Still, Attempt, Goto

(* ... the reservation on the own node, ...                                 *)
LEMMA MatchLocalOnly ==
  ASSUME Funs, NEW c \in Calls, MatchLocal(c)
  PROVE  Only(c)
BY JumpOnly, ReturnOnly DEF Funs, Only, Still, MatchLocal, Goto

(* ... the request for others, ...                                          *)
LEMMA StartDiscoveryOnly ==
  ASSUME Funs, NEW c \in Calls, StartDiscovery(c)
  PROVE  Only(c)
BY JumpOnly, ReturnOnly DEF Funs, Only, Still, StartDiscovery, Goto

(* ... the end of the wait, ...                                             *)
LEMMA EndDiscoveryOnly ==
  ASSUME Funs, NEW c \in Calls, EndDiscovery(c)
  PROVE  Only(c)
BY JumpOnly, ReturnOnly DEF Funs, Only, Still, EndDiscovery, Goto

(* ... the reservation there, ...                                           *)
LEMMA ReserveRemoteOnly ==
  ASSUME Funs, NEW c \in Calls, ReserveRemote(c)
  PROVE  Only(c)
BY JumpOnly, ReturnOnly DEF Funs, Only, Still, ReserveRemote, Goto

(* ... the check of the places, ...                                         *)
LEMMA CheckOnly ==
  ASSUME Funs, NEW c \in Calls, Check(c)
  PROVE  Only(c)
BY JumpOnly, ReturnOnly DEF Funs, Only, Still, Check, Goto

(* ... the next launch, ...                                                 *)
LEMMA ExecOnly ==
  ASSUME Funs, NEW c \in Calls, Exec(c)
  PROVE  Only(c)
BY JumpOnly, ReturnOnly DEF Funs, Only, Still, Exec, Goto

(* ... a launch that fails, ...                                             *)
LEMMA ExecFailsOnly ==
  ASSUME Funs, NEW c \in Calls, ExecFails(c)
  PROVE  Only(c)
BY JumpOnly, ReturnOnly DEF Funs, Only, Still, ExecFails, NextPlace, Goto

(* ... or that nobody answers, ...                                          *)
LEMMA ExecThrowsOnly ==
  ASSUME Funs, NEW c \in Calls, ExecThrows(c)
  PROVE  Only(c)
BY JumpOnly, ReturnOnly DEF Funs, Only, Still, ExecThrows, NextPlace, Goto

(* ... the code, ...                                                        *)
LEMMA QueryCodeOnly ==
  ASSUME Funs, NEW c \in Calls, QueryCode(c)
  PROVE  Only(c)
BY JumpOnly, ReturnOnly, ExecFailsOnly DEF Funs, Only, Still, QueryCode, Goto

(* ... the process, ...                                                     *)
LEMMA LaunchOnly ==
  ASSUME Funs, NEW c \in Calls, Launch(c)
  PROVE  Only(c)
BY JumpOnly, ReturnOnly, ExecFailsOnly DEF Funs, Only, Still, Launch, Goto

(* ... the reports, ...                                                     *)
LEMMA ReceiveOnly ==
  ASSUME Funs, NEW c \in Calls, Receive(c)
  PROVE  Only(c)
BY JumpOnly, ReturnOnly, ExecFailsOnly DEF Funs, Only, Still, Receive, NextPlace, Goto

(* ... and the end of a call that failed.                                   *)
LEMMA KillObjectsOnly ==
  ASSUME Funs, NEW c \in Calls, KillObjects(c)
  PROVE  Only(c)
BY JumpOnly, ReturnOnly DEF Funs, Only, Still, KillObjects, Goto

(* An answer is of the call that waits for it.                             *)
LEMMA RespondOnly ==
  ASSUME Funs, NEW c \in Calls, NEW n \in Nodes, Respond(c, n)
  PROVE  Only(c)
BY DEF Funs, Only, Still, Respond

(* A step is one of a call, or none of any call.                           *)
OfCall(c) == CallStep(c) \/ \E n \in Nodes : Respond(c, n)

(* No step moves two calls.                                                *)
LEMMA OneCall ==
  ASSUME Funs, [Next]_createVars
  PROVE  \/ UNCHANGED <<callVars, processes>>
         \/ \E c \in Calls : OfCall(c) /\ Only(c)
<1>1. ASSUME NEW c \in Calls, CallStep(c)
      PROVE  Only(c)
  BY <1>1, AttemptOnly, MatchLocalOnly, StartDiscoveryOnly, EndDiscoveryOnly, ReserveRemoteOnly,
     CheckOnly, ExecOnly, QueryCodeOnly, LaunchOnly, ReceiveOnly, ExecThrowsOnly, KillObjectsOnly
     DEF CallStep
<1>2. ASSUME NEW c \in Calls, NEW n \in Nodes, Respond(c, n)
      PROVE  Only(c)
  BY <1>2, RespondOnly
<1>3. ASSUME NEW m \in cancels, CancelReservation(m)
      PROVE  UNCHANGED <<callVars, processes>>
  BY <1>3 DEF CancelReservation
<1>4. ASSUME NEW a \in Apps, AppEnds(a) \/ \E n \in Nodes : EndReaches(n, a) \/ EndStep(n, a)
      PROVE  UNCHANGED <<callVars, processes>>
  BY <1>4 DEF AppEnds, EndReaches, EndStep
<1>5. ASSUME NEW n \in Nodes, StopSearch(n)
      PROVE  UNCHANGED <<callVars, processes>>
  BY <1>5 DEF StopSearch
<1> QED BY <1>1, <1>2, <1>3, <1>4, <1>5 DEF Next, OfCall, createVars

-----------------------------------------------------------------------------
(* The types, call by call.                                                *)

CallTypes(c) ==
  /\ pc[c] \in Locs /\ count[c] \in Nat /\ retry[c] \in 0..Retries
  /\ slots[c] \in [1..HowMany[c] -> Slot] /\ cursor[c] \in Nat
  /\ responses[c] \in Seq(Nodes) /\ turn[c] \in Nat /\ failed[c] \in Nat
  /\ batch[c] \subseteq 1..HowMany[c] /\ got[c] \subseteq batch[c]
  /\ made[c] \subseteq Process

OtherTypes ==
  /\ processes \subseteq Process /\ cancels \subseteq [node: Nodes, ids: SUBSET (1..MaxId)]
  /\ appUp \in [Apps -> BOOLEAN]

(* The variables of the calls have their types when each call's have, ...  *)
LEMMA TypesSplit ==
  CreateTypeOK /\ Shapes <=>
    LedgerTypeOK /\ Funs /\ OtherTypes /\ \A c \in Calls : CallTypes(c)
<1>1. ASSUME CreateTypeOK, Shapes
      PROVE  LedgerTypeOK /\ Funs /\ OtherTypes /\ \A c \in Calls : CallTypes(c)
  <2>1. LedgerTypeOK /\ OtherTypes
    BY <1>1 DEF CreateTypeOK, OtherTypes
  <2>2. Funs
    BY <1>1 DEF CreateTypeOK, Shapes, Funs
  <2>3. ASSUME NEW c \in Calls
        PROVE  CallTypes(c)
    BY <1>1 DEF CreateTypeOK, CallTypes
  <2> QED BY <2>1, <2>2, <2>3
<1>2. ASSUME LedgerTypeOK, Funs, OtherTypes, \A c \in Calls : CallTypes(c)
      PROVE  CreateTypeOK /\ Shapes
  <2>1. Shapes
    BY <1>2 DEF Funs, Shapes
  <2>2. /\ pc \in [Calls -> Locs] /\ count \in [Calls -> Nat] /\ retry \in [Calls -> 0..Retries]
        /\ cursor \in [Calls -> Nat]
    BY <1>2 DEF Funs, CallTypes
  <2>3. /\ responses \in [Calls -> Seq(Nodes)] /\ turn \in [Calls -> Nat]
        /\ failed \in [Calls -> Nat] /\ made \in [Calls -> SUBSET Process]
    BY <1>2 DEF Funs, CallTypes
  <2>4. \A c \in Calls : /\ slots[c] \in [1..HowMany[c] -> Slot]
                         /\ batch[c] \subseteq 1..HowMany[c] /\ got[c] \subseteq batch[c]
    BY <1>2 DEF CallTypes
  <2>5. CreateTypeOK
    BY <1>2, <2>2, <2>3, <2>4 DEF CreateTypeOK, OtherTypes
  <2> QED BY <2>1, <2>5
<1> QED BY <1>1, <1>2

(* ... and a call that does not move keeps its own.                        *)
LEMMA StillKeeps ==
  ASSUME NEW d \in Calls, Still(d), CallTypes(d), Way(d)
  PROVE  CallTypes(d)' /\ Way(d)'
<1>1. CallTypes(d)'
  BY DEF Still, CallTypes
<1>2. Way(d)'
  BY DEF Still, Way, Host
<1> QED BY <1>1, <1>2

(* What the types say of the places of a call.                             *)
LEMMA SlotFacts ==
  ASSUME NEW c \in Calls, CallTypes(c), NEW i \in 1..HowMany[c]
  PROVE  /\ slots[c][i] \in Slot /\ slots[c][i].contact \in Nodes \cup {None}
         /\ slots[c][i].id \in 0..MaxId /\ slots[c][i].flops \in Nat
BY DEF CallTypes, Slot

(* The places before any is granted.                                       *)
LEMMA NoPlaces ==
  ASSUME NEW c \in Calls
  PROVE  [i \in 1..HowMany[c] |-> NoSlot] \in [1..HowMany[c] -> Slot]
<1>1. NoSlot \in Slot
  BY LedgerAssumption DEF NoSlot, Slot
<1> QED BY <1>1

TypedStep(c) == CallTypes(c)' /\ Way(c)'

(* A jump keeps the types of its call.                                     *)
LEMMA JumpTyped ==
  ASSUME Funs, NEW c \in Calls, CallTypes(c), Way(c), NEW l \in Locs, Jump(c, l),
         \/ l \in {"kill", "done", "failed"}
         \/ l \in Reserving /\ l # "reserve" /\ pc[c] \in Reserving
         \/ pc[c] \in Launching /\ l \in Launching
  PROVE  TypedStep(c)
<1>1. /\ pc'[c] = l /\ count'[c] = count[c] /\ retry'[c] = retry[c]
      /\ slots'[c] = slots[c] /\ cursor'[c] = cursor[c] /\ responses'[c] = responses[c]
      /\ turn'[c] = turn[c] /\ failed'[c] = failed[c] /\ batch'[c] = batch[c]
      /\ got'[c] = got[c] /\ made'[c] = made[c]
  BY JumpIs
<1>2. CallTypes(c)'
  BY <1>1 DEF CallTypes
<1>3. Way(c)'
  BY <1>1 DEF Way, Host, Reserving, Launching
<1> QED BY <1>2, <1>3 DEF TypedStep

(* So does a return.                                                       *)
LEMMA ReturnTyped ==
  ASSUME Funs, NEW c \in Calls, CallTypes(c), Way(c), NEW l \in {"done", "failed"}, Return(c, l)
  PROVE  TypedStep(c)
<1>1. /\ pc'[c] = l /\ count'[c] = count[c] /\ retry'[c] = retry[c]
      /\ slots'[c] = [i \in 1..HowMany[c] |-> NoSlot] /\ cursor'[c] = 0
      /\ responses'[c] = <<>> /\ turn'[c] = 0 /\ failed'[c] = 0 /\ batch'[c] = {}
      /\ got'[c] = {} /\ made'[c] = made[c]
  BY ReturnIs
<1>2. CallTypes(c)'
  <2>1. slots'[c] \in [1..HowMany[c] -> Slot] /\ responses'[c] \in Seq(Nodes)
    BY <1>1, NoPlaces, EmptySeq
  <2> QED BY <1>1, <2>1 DEF CallTypes, Locs
<1>3. Way(c)'
  <2>1. \A i \in 1..HowMany[c] : slots'[c][i] = NoSlot
    BY <1>1
  <2> QED BY <1>1, <2>1 DEF Way, NoSlot, Reserving, Launching
<1> QED BY <1>2, <1>3 DEF TypedStep

(* The retry loop keeps the types of its call, ...                         *)
LEMMA AttemptTyped ==
  ASSUME Funs, NEW c \in Calls, CallTypes(c), Way(c), Attempt(c)
  PROVE  TypedStep(c)
<1>1. CASE Return(c, "done")
  BY <1>1, ReturnTyped
<1>2. CASE Jump(c, "kill")
  BY <1>2, JumpTyped DEF Locs
<1>3. CASE /\ count[c] < HowMany[c] /\ retry[c] > 0
           /\ Goto(c, IF Search[c] THEN "search" ELSE "local")
           /\ slots' = [slots EXCEPT ![c] = [i \in 1..HowMany[c] |-> NoSlot]]
           /\ cursor' = [cursor EXCEPT ![c] = HowMany[c]]
           /\ responses' = [responses EXCEPT ![c] = <<>>]
           /\ batch' = [batch EXCEPT ![c] = {}] /\ got' = [got EXCEPT ![c] = {}]
           /\ UNCHANGED <<nodeVars, count, retry, turn, failed,
                          made, processes, cancels, appUp>>
  <2>1. /\ pc'[c] \in {"search", "local"} /\ retry'[c] = retry[c] /\ count'[c] = count[c]
        /\ slots'[c] = [i \in 1..HowMany[c] |-> NoSlot] /\ cursor'[c] = HowMany[c]
        /\ responses'[c] = <<>> /\ turn'[c] = turn[c] /\ failed'[c] = failed[c]
        /\ batch'[c] = {} /\ got'[c] = {} /\ made'[c] = made[c]
    BY <1>3 DEF Goto, Funs
  <2>2. CallTypes(c)'
    <3>1. slots'[c] \in [1..HowMany[c] -> Slot] /\ responses'[c] \in Seq(Nodes)
          /\ cursor'[c] \in Nat
      BY <2>1, NoPlaces, EmptySeq, CreateAssumption
    <3> QED BY <2>1, <3>1 DEF CallTypes, Locs
  <2>3. Way(c)'
    <3>1. \A i \in 1..HowMany[c] : slots'[c][i] = NoSlot
      BY <2>1
    <3> QED BY <1>3, <2>1, <3>1 DEF Way, NoSlot, Launching
  <2> QED BY <2>2, <2>3 DEF TypedStep
<1> QED BY <1>1, <1>2, <1>3 DEF Attempt

(* A place that is granted has a node, a number and a power.               *)
LEMMA GrantTyped ==
  ASSUME LedgerTypeOK, Funs, NEW c \in Calls, CallTypes(c), Way(c), pc[c] \in Reserving,
         NEW n \in Nodes, available[n] >= 0, NEW k,
         slots' = [slots EXCEPT ![c][k] =
                     [contact |-> n, id |-> counter[n], flops |-> Grant(n, Require[c])]]
  PROVE  /\ slots'[c] \in [1..HowMany[c] -> Slot]
         /\ \A i \in 1..HowMany[c] :
              /\ slots'[c][i].id = 0 => slots'[c][i].contact = None /\ slots'[c][i].flops = 0
              /\ slots'[c][i].contact = None => slots'[c][i].flops = 0
<1> DEFINE e == [contact |-> n, id |-> counter[n], flops |-> Grant(n, Require[c])]
<1>1. Grant(n, Require[c]) \in Nat
  BY GrantFacts
<1>2. counter[n] \in 1..MaxId
  BY DEF LedgerTypeOK
<1>3. e \in Slot /\ e.id # 0 /\ e.contact # None
  <2> HIDE DEF Grant
  <2> QED BY <1>1, <1>2, CreateAssumption, LedgerAssumption DEF Slot
<1>5. slots'[c] = [slots[c] EXCEPT ![k] = e]
  <2>1. slots' = [slots EXCEPT ![c] = [slots[c] EXCEPT ![k] = e]]
    OBVIOUS
  <2>2. DOMAIN slots = Calls
    BY DEF Funs
  <2> HIDE DEF e
  <2> QED BY <2>1, <2>2
<1> HIDE DEF e
<1>4. /\ slots'[c] \in [1..HowMany[c] -> Slot]
      /\ \A i \in 1..HowMany[c] : slots'[c][i] = IF i = k THEN e ELSE slots[c][i]
  <2>1. slots[c] \in [1..HowMany[c] -> Slot]
    BY DEF CallTypes
  <2> DEFINE s == slots[c]
             u == slots'[c]
  <2>2. s \in [1..HowMany[c] -> Slot] /\ u = [s EXCEPT ![k] = e] /\ e \in Slot
    BY <1>3, <1>5, <2>1
  <2> HIDE DEF s, u
  <2>3. u \in [1..HowMany[c] -> Slot]
    BY <2>2
  <2>4. \A i \in 1..HowMany[c] : u[i] = IF i = k THEN e ELSE s[i]
    BY <2>2
  <2> QED BY <2>3, <2>4 DEF s, u
<1> QED BY <1>3, <1>4 DEF Way

(* ... the reservations on the own node, ...                               *)
LEMMA MatchLocalTyped ==
  ASSUME LedgerTypeOK, \A n \in Nodes : available[n] >= 0,
         Funs, NEW c \in Calls, CallTypes(c), Way(c), MatchLocal(c)
  PROVE  TypedStep(c)
<1>0. pc[c] = "local" /\ pc[c] \in Reserving /\ Home[c] \in Nodes
  BY CreateAssumption DEF MatchLocal, At, Reserving
<1>1. ASSUME NEW l \in {"search", "kill", "check"}, Jump(c, l)
      PROVE  TypedStep(c)
  BY <1>0, <1>1, JumpTyped DEF Locs, Reserving
<1>2. ASSUME cursor[c] > count[c],
             NEW id, MatchAndReserve(Home[c], c, Require[c], Minimum[c], id),
             UNCHANGED <<managerUp, searchUp, ending, count, retry, responses, turn, failed,
                         batch, got, made, processes, cancels, appUp>>
      PROVE  /\ id = 0 /\ Goto(c, "search") /\ UNCHANGED <<slots, cursor>> => TypedStep(c)
             /\ id # 0 /\ slots' = [slots EXCEPT ![c][cursor[c]] =
                          [contact |-> Home[c], id |-> id, flops |-> Grant(Home[c], Require[c])]]
                /\ cursor' = [cursor EXCEPT ![c] = @ - 1]
                /\ UNCHANGED pc => TypedStep(c)
  <2>1. ASSUME Goto(c, "search"), UNCHANGED <<slots, cursor>>
        PROVE  TypedStep(c)
    <3>1. pc'[c] = "search"
      BY <2>1 DEF Goto, Funs
    <3>2. CallTypes(c)'
      BY <1>2, <2>1, <3>1 DEF CallTypes, Locs
    <3>3. Way(c)'
      BY <1>0, <1>2, <2>1, <3>1 DEF Way, Reserving, Launching
    <3> QED BY <3>2, <3>3 DEF TypedStep
  <2>2. ASSUME id # 0,
               slots' = [slots EXCEPT ![c][cursor[c]] =
                     [contact |-> Home[c], id |-> id, flops |-> Grant(Home[c], Require[c])]],
               cursor' = [cursor EXCEPT ![c] = @ - 1],
               UNCHANGED pc
        PROVE  TypedStep(c)
    <3>1. id = counter[Home[c]]
      BY <1>2, <2>2 DEF MatchAndReserve, Reservation
    <3>2. /\ slots'[c] \in [1..HowMany[c] -> Slot]
          /\ \A i \in 1..HowMany[c] :
               /\ slots'[c][i].id = 0 => slots'[c][i].contact = None /\ slots'[c][i].flops = 0
               /\ slots'[c][i].contact = None => slots'[c][i].flops = 0
      <4> HIDE DEF Grant
      <4> QED BY <1>0, <2>2, <3>1, GrantTyped
    <3>3. cursor'[c] \in Nat
      <4>1. cursor[c] \in Nat /\ count[c] \in Nat /\ cursor'[c] = cursor[c] - 1
        BY <2>2 DEF CallTypes, Funs
      <4> QED BY <1>2, <4>1
    <3>4. CallTypes(c)'
      BY <1>2, <2>2, <3>2, <3>3 DEF CallTypes
    <3>5. Way(c)'
      BY <1>0, <1>2, <2>2, <3>2 DEF Way, Reserving, Launching
    <3> QED BY <3>4, <3>5 DEF TypedStep
  <2> HIDE DEF TypedStep, Grant
  <2> QED BY <2>1, <2>2
<1>3. \/ \E l \in {"search", "kill", "check"} : Jump(c, l)
      \/ /\ cursor[c] > count[c]
         /\ \E id \in 0..MaxId :
              /\ MatchAndReserve(Home[c], c, Require[c], Minimum[c], id)
              /\ \/ id = 0 /\ Goto(c, "search") /\ UNCHANGED <<slots, cursor>>
                 \/ /\ id # 0
                    /\ slots' = [slots EXCEPT ![c][cursor[c]] =
                          [contact |-> Home[c], id |-> id, flops |-> Grant(Home[c], Require[c])]]
                    /\ cursor' = [cursor EXCEPT ![c] = @ - 1]
                    /\ UNCHANGED pc
         /\ UNCHANGED <<managerUp, searchUp, ending, count, retry, responses, turn, failed,
                        batch, got, made, processes, cancels, appUp>>
  <2> HIDE DEF Grant, MatchAndReserve, Jump, Goto
  <2> QED BY DEF MatchLocal
<1> HIDE DEF TypedStep, Grant, MatchAndReserve, Jump, Goto
<1> QED BY <1>1, <1>2, <1>3

(* ... the wait for answers, ...                                           *)
LEMMA DiscoveryTyped ==
  ASSUME LedgerTypeOK, Funs, NEW c \in Calls, CallTypes(c), Way(c),
         StartDiscovery(c) \/ EndDiscovery(c) \/ \E n \in Nodes : Respond(c, n)
  PROVE  TypedStep(c)
<1>1. CASE Jump(c, "kill")
  BY <1>1, JumpTyped DEF Locs
<1>2. CASE /\ At(c, "search") /\ Goto(c, "discover")
           /\ responses' = [responses EXCEPT ![c] = <<>>]
           /\ UNCHANGED <<nodeVars, count, retry, slots, cursor, turn, failed, batch, got,
                          made, processes, cancels, appUp>>
  <2>1. pc[c] = "search" /\ pc'[c] = "discover" /\ responses'[c] = <<>>
    BY <1>2 DEF Goto, Funs, At
  <2>2. CallTypes(c)'
    BY <1>2, <2>1, EmptySeq DEF CallTypes, Locs
  <2>3. Way(c)'
    BY <1>2, <2>1 DEF Way, Reserving, Launching
  <2> QED BY <2>2, <2>3 DEF TypedStep
<1>3. ASSUME NEW n \in Nodes, Respond(c, n)
      PROVE  TypedStep(c)
  <2>1. pc[c] = "discover" /\ responses'[c] = Append(responses[c], n)
    BY <1>3 DEF Funs, At, Respond
  <2>2. Append(responses[c], n) \in Seq(Nodes)
    BY AppendProperties DEF CallTypes
  <2>3. CallTypes(c)'
    BY <1>3, <2>1, <2>2 DEF CallTypes, Respond
  <2>4. Way(c)'
    BY <1>3, <2>1 DEF Way, Reserving, Launching, Respond
  <2> QED BY <2>3, <2>4 DEF TypedStep
<1>4. CASE /\ At(c, "discover") /\ responses[c] # <<>> /\ Goto(c, "reserve")
           /\ cursor' = [cursor EXCEPT ![c] = count[c] + 1]
           /\ turn' = [turn EXCEPT ![c] = 1] /\ failed' = [failed EXCEPT ![c] = 0]
           /\ UNCHANGED <<nodeVars, count, retry, slots, responses, batch, got,
                          made, processes, cancels, appUp>>
  <2>1. /\ pc[c] = "discover" /\ pc'[c] = "reserve" /\ cursor'[c] = count[c] + 1
        /\ turn'[c] = 1 /\ failed'[c] = 0
    BY <1>4 DEF Goto, Funs, At
  <2>2. CallTypes(c)'
    BY <1>4, <2>1 DEF CallTypes, Locs
  <2>3. 1 \in 1..Len(responses[c])
    <3>1. Len(responses[c]) \in Nat /\ Len(responses[c]) # 0
      BY <1>4, LenProperties, EmptySeq DEF CallTypes
    <3> QED BY <3>1
  <2>4. Way(c)'
    BY <1>4, <2>1, <2>3 DEF Way, Reserving, Launching
  <2> QED BY <2>2, <2>4 DEF TypedStep
<1> QED BY <1>1, <1>2, <1>3, <1>4 DEF StartDiscovery, EndDiscovery

(* The turn goes round the nodes that answered.                            *)
LEMMA NextTurn ==
  ASSUME NEW l \in Nat, NEW i \in 1..l
  PROVE  (i % l) + 1 \in 1..l
<1>1. l \in Nat \ {0}
  OBVIOUS
<1>2. CASE i = l
  <2>1. l % l = 0
    BY <1>1
  <2> QED BY <1>1, <1>2, <2>1
<1>3. CASE i < l
  <2>1. i % l = i
    BY <1>1, <1>3
  <2> QED BY <1>1, <1>3, <2>1
<1> QED BY <1>1, <1>2, <1>3

(* ... the reservations on the others, ...                                 *)
LEMMA ReserveRemoteTyped ==
  ASSUME LedgerTypeOK, \A n \in Nodes : available[n] >= 0,
         Funs, NEW c \in Calls, CallTypes(c), Way(c), ReserveRemote(c)
  PROVE  TypedStep(c)
<1> DEFINE n == responses[c][turn[c]]
<1>0. /\ pc[c] = "reserve" /\ pc[c] \in Reserving
      /\ responses[c] \in Seq(Nodes) /\ Len(responses[c]) \in Nat
      /\ turn[c] \in 1..Len(responses[c])
  BY LenProperties DEF ReserveRemote, At, Reserving, Way, CallTypes
<1>1. n \in Nodes
  BY <1>0, ElementOfSeq
<1>2. CASE Jump(c, "kill")
  BY <1>2, JumpTyped DEF Locs
<1>3. ASSUME NEW id, Reserve(n, c, AppOf[c], Require[c], id),
             turn' = [turn EXCEPT ![c] = (@ % Len(responses[c])) + 1],
             UNCHANGED <<count, retry, responses, batch, got, made>>,
             pc'[c] \in {"reserve", "kill", "check"}, cursor'[c] \in Nat, failed'[c] \in Nat,
             \/ UNCHANGED slots
             \/ id # 0 /\ slots' = [slots EXCEPT ![c][cursor[c]] =
                          [contact |-> n, id |-> id, flops |-> Grant(n, Require[c])]]
      PROVE  TypedStep(c)
  <2>1. turn'[c] \in 1..Len(responses[c])
    <3>1. turn'[c] = (turn[c] % Len(responses[c])) + 1
      BY <1>3 DEF Funs
    <3> QED BY <1>0, <3>1, NextTurn
  <2>2. /\ slots'[c] \in [1..HowMany[c] -> Slot]
        /\ \A i \in 1..HowMany[c] :
             /\ slots'[c][i].id = 0 => slots'[c][i].contact = None /\ slots'[c][i].flops = 0
             /\ slots'[c][i].contact = None => slots'[c][i].flops = 0
    <3>1. CASE UNCHANGED slots
      BY <1>0, <3>1 DEF CallTypes, Way
    <3>2. CASE id # 0 /\ slots' = [slots EXCEPT ![c][cursor[c]] =
                            [contact |-> n, id |-> id, flops |-> Grant(n, Require[c])]]
      <4>1. id = counter[n]
        BY <1>3, <3>2 DEF Reserve, Reservation
      <4> HIDE DEF Grant, n
      <4> QED BY <1>0, <1>1, <3>2, <4>1, GrantTyped
    <3> QED BY <1>3, <3>1, <3>2
  <2>3. CallTypes(c)'
    BY <1>0, <1>3, <2>1, <2>2 DEF CallTypes, Locs
  <2>4. Way(c)'
    BY <1>0, <1>3, <2>1, <2>2 DEF Way, Reserving, Launching
  <2> QED BY <2>3, <2>4 DEF TypedStep
<1>4. ASSUME NEW id, Reserve(n, c, AppOf[c], Require[c], id),
             turn' = [turn EXCEPT ![c] = (@ % Len(responses[c])) + 1],
             UNCHANGED <<count, retry, responses, batch, got, made>>,
             IF id = 0
             THEN /\ failed' = [failed EXCEPT ![c] = @ + 1]
                  /\ IF failed[c] + 1 = Len(responses[c])
                     THEN Goto(c, "kill") ELSE UNCHANGED pc
                  /\ UNCHANGED <<slots, cursor>>
             ELSE /\ slots' = [slots EXCEPT ![c][cursor[c]] =
                       [contact |-> n, id |-> id, flops |-> Grant(n, Require[c])]]
                  /\ cursor' = [cursor EXCEPT ![c] = @ + 1]
                  /\ IF cursor[c] = HowMany[c] THEN Goto(c, "check") ELSE UNCHANGED pc
                  /\ UNCHANGED failed
      PROVE  TypedStep(c)
  <2>1. pc'[c] \in {"reserve", "kill", "check"}
    BY <1>0, <1>4 DEF Funs, Goto
  <2>2. cursor[c] \in Nat /\ failed[c] \in Nat /\ DOMAIN cursor = Calls /\ DOMAIN failed = Calls
    BY DEF CallTypes, Funs
  <2>3. cursor'[c] \in Nat /\ failed'[c] \in Nat
    BY <1>4, <2>2
  <2>4. \/ UNCHANGED slots
        \/ id # 0 /\ slots' = [slots EXCEPT ![c][cursor[c]] =
                          [contact |-> n, id |-> id, flops |-> Grant(n, Require[c])]]
    BY <1>4
  <2> HIDE DEF n, TypedStep
  <2> QED BY <1>3, <1>4, <2>1, <2>3, <2>4
<1> HIDE DEF TypedStep, Grant, Reserve, Jump, Goto
<1> QED BY <1>2, <1>4 DEF ReserveRemote

(* ... the check, ...                                                      *)
LEMMA CheckTyped ==
  ASSUME Funs, NEW c \in Calls, CallTypes(c), Way(c), Check(c)
  PROVE  TypedStep(c)
<1>1. /\ pc[c] = "check" /\ pc'[c] \in {"exec", "kill"}
      /\ cursor'[c] \in {cursor[c], count[c] + 1} /\ cursor'[c] \in Nat
      /\ pc'[c] = "exec" => cursor'[c] > 0
      /\ UNCHANGED <<count, retry, slots, responses, turn, failed, batch, got, made>>
  <2>1. count[c] \in Nat /\ cursor[c] \in Nat /\ DOMAIN cursor = Calls /\ DOMAIN pc = Calls
    BY DEF CallTypes, Funs
  <2> QED BY <2>1 DEF Check, At, Goto
<1>2. CallTypes(c)'
  BY <1>1 DEF CallTypes, Locs
<1>3. Way(c)'
  BY <1>1 DEF Way, Reserving, Launching
<1> QED BY <1>2, <1>3 DEF TypedStep

(* The first place is a place.                                             *)
LEMMA FirstFacts ==
  ASSUME NEW c \in Calls, CallTypes(c), cursor[c] > 0, Places(c) # {}
  PROVE  /\ First(c) \in Places(c) /\ \A i \in Places(c) : First(c) <= i
         /\ Places(c) \subseteq 1..HowMany[c] /\ First(c) >= cursor[c]
         /\ slots[c][First(c)].contact # None
<1>1. cursor[c] \in Nat /\ HowMany[c] \in Nat
  BY CreateAssumption DEF CallTypes
<1>2. Places(c) \in SUBSET Nat
  BY <1>1 DEF Places
<1>3. First(c) \in Places(c) /\ \A i \in Places(c) : First(c) <= i
  BY <1>2, MinFacts DEF First
<1> QED BY <1>1, <1>2, <1>3 DEF Places

(* ... the choice of the next batch, ...                                   *)
LEMMA ExecTyped ==
  ASSUME Funs, NEW c \in Calls, CallTypes(c), Way(c), Exec(c)
  PROVE  TypedStep(c)
<1> DEFINE B == {i \in Places(c) : slots[c][i].contact = Contact(c)}
           f == [i \in 1..HowMany[c] |->
                  IF i \in B /\ i # First(c) THEN [slots[c][i] EXCEPT !.contact = None]
                                             ELSE slots[c][i]]
<1>0. /\ pc[c] = "exec" /\ retry[c] \in 1..Retries /\ cursor[c] \in Nat /\ cursor[c] > 0
      /\ UNCHANGED <<count, responses, turn, failed, made>>
  BY CreateAssumption DEF Exec, At, Way, CallTypes
<1>1. CASE /\ Goto(c, "attempt") /\ retry' = [retry EXCEPT ![c] = @ - 1]
           /\ UNCHANGED <<slots, cursor, batch, got>>
  <2>1. pc'[c] = "attempt" /\ retry'[c] = retry[c] - 1 /\ retry'[c] \in 0..Retries
    <3>1. Retries \in Nat /\ DOMAIN retry = Calls /\ DOMAIN pc = Calls
      BY CreateAssumption DEF Funs
    <3> QED BY <1>0, <1>1, <3>1 DEF Goto
  <2>2. CallTypes(c)'
    BY <1>0, <1>1, <2>1 DEF CallTypes, Locs
  <2>3. Way(c)'
    BY <1>0, <1>1, <2>1 DEF Way, Reserving, Launching
  <2> QED BY <2>2, <2>3 DEF TypedStep
<1>2. CASE /\ Places(c) # {}
           /\ batch' = [batch EXCEPT ![c] = B] /\ slots' = [slots EXCEPT ![c] = f]
           /\ got' = [got EXCEPT ![c] = {}] /\ UNCHANGED retry
           /\ \/ Goto(c, "code") /\ cursor' = [cursor EXCEPT ![c] = First(c)]
              \/ UNCHANGED pc /\ cursor' = [cursor EXCEPT ![c] = First(c) + 1]
  <2>1. batch'[c] = B /\ slots'[c] = f /\ got'[c] = {}
    BY <1>2 DEF Funs
  <2>2. \/ pc'[c] = "code" /\ cursor'[c] = First(c)
        \/ pc'[c] = "exec" /\ cursor'[c] = First(c) + 1
    BY <1>0, <1>2 DEF Goto, Funs
  <2>3. /\ First(c) \in B /\ B \subseteq 1..HowMany[c] /\ slots[c][First(c)].contact # None
        /\ First(c) \in Nat /\ First(c) > 0
    BY <1>0, <1>2, FirstFacts DEF Contact
  <2>4. \A i \in 1..HowMany[c] :
          /\ slots'[c][i].id = slots[c][i].id /\ slots'[c][i].flops = slots[c][i].flops
          /\ slots'[c][i].contact \in {slots[c][i].contact, None}
          /\ slots'[c][i] \in Slot
    <3>1. ASSUME NEW r \in Slot
          PROVE  /\ [r EXCEPT !.contact = None] \in Slot /\ [r EXCEPT !.contact = None].id = r.id
                 /\ [r EXCEPT !.contact = None].flops = r.flops
                 /\ [r EXCEPT !.contact = None].contact = None
      BY DEF Slot
    <3>2. ASSUME NEW i \in 1..HowMany[c]
          PROVE  slots[c][i] \in Slot
      BY SlotFacts
    <3>3. \A i \in 1..HowMany[c] : slots'[c][i] \in {slots[c][i], [slots[c][i] EXCEPT !.contact = None]}
      <4> HIDE DEF B
      <4> QED BY <2>1
    <3>4. ASSUME NEW i \in 1..HowMany[c]
          PROVE  /\ slots'[c][i].id = slots[c][i].id /\ slots'[c][i].flops = slots[c][i].flops
                 /\ slots'[c][i].contact \in {slots[c][i].contact, None}
                 /\ slots'[c][i] \in Slot
      <4> DEFINE r == slots[c][i]
      <4>1. r \in Slot
        BY <3>2
      <4>2. slots'[c][i] \in {r, [r EXCEPT !.contact = None]}
        BY <3>3
      <4> HIDE DEF r
      <4>3. /\ slots'[c][i].id = r.id /\ slots'[c][i].flops = r.flops
            /\ slots'[c][i].contact \in {r.contact, None} /\ slots'[c][i] \in Slot
        BY <4>1, <4>2, <3>1
      <4> QED BY <4>3 DEF r
    <3> QED BY <3>4
  <2>5. slots'[c] \in [1..HowMany[c] -> Slot] /\ slots'[c][First(c)] = slots[c][First(c)]
    <3> HIDE DEF B
    <3> QED BY <2>1, <2>3, <2>4
  <2> HIDE DEF B, f
  <2>6. CallTypes(c)'
    <3>1. pc'[c] \in Locs /\ cursor'[c] \in Nat
      BY <2>2, <2>3 DEF Locs
    <3>2. retry'[c] = retry[c] /\ got'[c] \subseteq batch'[c] /\ batch'[c] \subseteq 1..HowMany[c]
      BY <1>2, <2>1, <2>3
    <3> QED BY <1>0, <2>5, <3>1, <3>2 DEF CallTypes
  <2>7. \A i \in 1..HowMany[c] : slots'[c][i].id = 0 => slots'[c][i].contact = None /\ slots'[c][i].flops = 0
    BY <2>4 DEF Way
  <2>8. \A i \in B : slots'[c][i].id # 0
    <3>1. \A i \in B : slots[c][i].contact # None
      BY DEF B, Places
    <3> QED BY <2>3, <2>4, <3>1 DEF Way
  <2>9. \/ slots'[c][cursor'[c]].contact # None /\ cursor'[c] \in B
        \/ pc'[c] = "exec" /\ cursor'[c] > 0
    BY <2>2, <2>3, <2>5
  <2>10. Way(c)'
    <3>1. retry'[c] > 0 /\ got'[c] # batch'[c] /\ batch'[c] = B
      BY <1>0, <1>2, <2>1, <2>3
    <3>2. CASE pc'[c] = "exec"
      BY <2>2, <2>3, <2>7, <3>1, <3>2 DEF Way, Reserving, Launching
    <3>3. CASE pc'[c] = "code"
      BY <2>2, <2>3, <2>7, <2>8, <2>9, <3>1, <3>3 DEF Way, Host, Reserving, Launching
    <3> QED BY <2>2, <3>2, <3>3
  <2> QED BY <2>6, <2>10 DEF TypedStep
<1>3. \/ /\ Goto(c, "attempt") /\ retry' = [retry EXCEPT ![c] = @ - 1]
         /\ UNCHANGED <<slots, cursor, batch, got>>
      \/ /\ Places(c) # {}
         /\ batch' = [batch EXCEPT ![c] = B] /\ slots' = [slots EXCEPT ![c] = f]
         /\ got' = [got EXCEPT ![c] = {}] /\ UNCHANGED retry
         /\ \/ Goto(c, "code") /\ cursor' = [cursor EXCEPT ![c] = First(c)]
            \/ UNCHANGED pc /\ cursor' = [cursor EXCEPT ![c] = First(c) + 1]
  <2>1. CASE Places(c) = {}
    BY <2>1 DEF Exec
  <2>2. CASE Places(c) # {}
    <3>1. batch' = [batch EXCEPT ![c] = B] /\ batch'[c] = B
      BY <2>2 DEF Exec, Funs
    <3> HIDE DEF Goto, Places, Contact, First, VerifyReservation, B
    <3>2. slots' = [slots EXCEPT ![c] = f]
      BY <2>2, <3>1 DEF Exec
    <3> QED BY <2>2, <3>1, <3>2 DEF Exec
  <2> QED BY <2>1, <2>2
<1> HIDE DEF B, f
<1> QED BY <1>1, <1>2, <1>3

(* Finite sets of places.                                                  *)
LEMMA PlacesFinite ==
  ASSUME NEW c \in Calls, NEW S \in SUBSET (1..HowMany[c])
  PROVE  IsFiniteSet(S) /\ Cardinality(S) \in Nat
<1>1. HowMany[c] \in Int
  BY CreateAssumption
<1>2. IsFiniteSet(1..HowMany[c])
  BY <1>1, FS_Interval
<1> QED BY <1>2, FS_Subset, FS_CardinalityType

(* ... its failures, ...                                                   *)
LEMMA NextPlaceTyped ==
  ASSUME Funs, NEW c \in Calls, CallTypes(c), Way(c), pc[c] \in Launching, NextPlace(c),
         UNCHANGED <<retry, slots, responses, turn, failed, batch>>,
         count'[c] \in Nat, got'[c] \subseteq batch[c], made'[c] \subseteq Process
  PROVE  TypedStep(c)
<1>1. pc'[c] = "exec" /\ cursor'[c] \in Nat /\ cursor'[c] > 0
  <2>1. cursor[c] \in Nat /\ DOMAIN cursor = Calls /\ DOMAIN pc = Calls
    BY DEF CallTypes, Funs
  <2> QED BY <2>1 DEF NextPlace, Goto
<1>2. CallTypes(c)'
  BY <1>1 DEF CallTypes, Locs
<1>3. Way(c)'
  BY <1>1 DEF Way, Reserving, Launching
<1> QED BY <1>2, <1>3 DEF TypedStep

(* ... a failure of the launch among them, ...                             *)
LEMMA ExecFailsTyped ==
  ASSUME Funs, NEW c \in Calls, CallTypes(c), Way(c), pc[c] \in Launching,
         ExecFails(c) \/ ExecThrows(c)
  PROVE  TypedStep(c)
<1>1. /\ NextPlace(c)
      /\ UNCHANGED <<count, retry, slots, responses, turn, failed, batch, got, made>>
  BY DEF ExecFails, ExecThrows
<1>2. count'[c] \in Nat /\ got'[c] \subseteq batch[c] /\ made'[c] \subseteq Process
  BY <1>1 DEF CallTypes
<1> QED BY <1>1, <1>2, NextPlaceTyped

(* The batch that is launched has places, the first of them to report.     *)
LEMMA NextFacts ==
  ASSUME NEW c \in Calls, CallTypes(c), Way(c), pc[c] \in Launching
  PROVE  NextSlot(c) \in batch[c] \ got[c]
<1>1. batch[c] \ got[c] \in SUBSET Nat /\ batch[c] \ got[c] # {}
  <2>1. batch[c] \subseteq 1..HowMany[c] /\ got[c] \subseteq batch[c] /\ got[c] # batch[c]
    BY DEF CallTypes, Way
  <2>2. 1..HowMany[c] \subseteq Nat
    BY CreateAssumption
  <2> QED BY <2>1, <2>2
<1> QED BY <1>1, MinFacts DEF NextSlot

(* ... the code and the process of the objects, ...                        *)
LEMMA LaunchTyped ==
  ASSUME Funs, NEW c \in Calls, CallTypes(c), Way(c), QueryCode(c) \/ Launch(c)
  PROVE  TypedStep(c)
<1>0. pc[c] \in Launching
  BY DEF QueryCode, Launch, At, Launching
<1>1. CASE ExecFails(c)
  BY <1>0, <1>1, ExecFailsTyped
<1>2. CASE Jump(c, "launch")
  BY <1>0, <1>2, JumpTyped DEF Locs, Launching
<1>3. CASE /\ Goto(c, "receive")
           /\ UNCHANGED <<nodeVars, count, retry, slots, cursor, responses, turn, failed, batch,
                          got, made, cancels, appUp>>
  <2>1. pc'[c] = "receive"
    BY <1>3 DEF Goto, Funs
  <2>2. CallTypes(c)'
    BY <1>3, <2>1 DEF CallTypes, Locs
  <2>3. Way(c)'
    BY <1>0, <1>3, <2>1 DEF Way, Host, Reserving, Launching
  <2> QED BY <2>2, <2>3 DEF TypedStep
<1> QED BY <1>1, <1>2, <1>3 DEF QueryCode, Launch

(* ... and their reports.                                                  *)
LEMMA ReceiveTyped ==
  ASSUME Funs, NEW c \in Calls, CallTypes(c), Way(c), processes \subseteq Process, Receive(c)
  PROVE  TypedStep(c)
<1>0. pc[c] \in Launching /\ pc[c] = "receive"
  BY DEF Receive, At, Launching
<1>1. CASE ExecFails(c)
  BY <1>0, <1>1, ExecFailsTyped
<1>2. ASSUME got' = [got EXCEPT ![c] = @ \cup {NextSlot(c)}],
             UNCHANGED <<retry, slots, responses, turn, failed, batch>>
      PROVE  /\ got'[c] = got[c] \cup {NextSlot(c)} /\ got'[c] \subseteq batch[c]
             /\ batch'[c] = batch[c]
  <2>1. NextSlot(c) \in batch[c] \ got[c]
    BY <1>0, NextFacts
  <2>2. got'[c] = got[c] \cup {NextSlot(c)}
    BY <1>2 DEF Funs
  <2> QED BY <1>2, <2>1, <2>2 DEF CallTypes
<1>3. CASE /\ got' = [got EXCEPT ![c] = @ \cup {NextSlot(c)}]
           /\ count' = [count EXCEPT ![c] = @ + Cardinality(batch[c])]
           /\ made' = [made EXCEPT ![c] = @ \cup Launched(c)]
           /\ NextPlace(c)
           /\ UNCHANGED <<retry, slots, responses, turn, failed, batch>>
  <2>1. count'[c] \in Nat
    <3>1. count[c] \in Nat /\ Cardinality(batch[c]) \in Nat
      BY PlacesFinite DEF CallTypes
    <3>2. count'[c] = count[c] + Cardinality(batch[c])
      BY <1>3 DEF Funs
    <3> QED BY <3>1, <3>2
  <2>2. made'[c] \subseteq Process
    BY <1>3 DEF Funs, CallTypes, Launched
  <2> QED BY <1>0, <1>2, <1>3, <2>1, <2>2, NextPlaceTyped
<1>4. CASE /\ got' = [got EXCEPT ![c] = @ \cup {NextSlot(c)}] /\ got'[c] # batch[c]
           /\ UNCHANGED <<pc, cursor, count, made>>
           /\ UNCHANGED <<retry, slots, responses, turn, failed, batch>>
  <2>1. CallTypes(c)'
    BY <1>2, <1>4 DEF CallTypes
  <2>2. Way(c)'
    BY <1>0, <1>2, <1>4 DEF Way, Host, Reserving, Launching
  <2> QED BY <2>1, <2>2 DEF TypedStep
<1>5. \/ /\ got' = [got EXCEPT ![c] = @ \cup {NextSlot(c)}]
         /\ IF got'[c] = batch[c]
            THEN /\ count' = [count EXCEPT ![c] = @ + Cardinality(batch[c])]
                 /\ made' = [made EXCEPT ![c] = @ \cup Launched(c)]
                 /\ NextPlace(c)
            ELSE UNCHANGED <<pc, cursor, count, made>>
         /\ UNCHANGED <<retry, slots, responses, turn, failed, batch>>
      \/ ExecFails(c)
  <2> HIDE DEF Launched, NextPlace, NextSlot, ExecFails
  <2> QED BY DEF Receive
<1> HIDE DEF TypedStep, Launched, NextPlace, NextSlot, ExecFails
<1> QED BY <1>1, <1>3, <1>4, <1>5

(* A step of a call keeps its types.                                       *)
LEMMA CallTyped ==
  ASSUME TInv, NEW c \in Calls, OfCall(c)
  PROVE  TypedStep(c)
<1>1. /\ LedgerTypeOK /\ Funs /\ OtherTypes /\ CallTypes(c) /\ Way(c)
      /\ \A n \in Nodes : available[n] >= 0
  BY TypesSplit DEF TInv
<1>2. CASE Attempt(c)
  BY <1>1, <1>2, AttemptTyped
<1>3. CASE MatchLocal(c)
  BY <1>1, <1>3, MatchLocalTyped
<1>4. CASE StartDiscovery(c) \/ EndDiscovery(c) \/ \E n \in Nodes : Respond(c, n)
  BY <1>1, <1>4, DiscoveryTyped
<1>5. CASE ReserveRemote(c)
  BY <1>1, <1>5, ReserveRemoteTyped
<1>6. CASE Check(c)
  BY <1>1, <1>6, CheckTyped
<1>7. CASE Exec(c)
  BY <1>1, <1>7, ExecTyped
<1>8. CASE QueryCode(c) \/ Launch(c)
  BY <1>1, <1>8, LaunchTyped
<1>9. CASE Receive(c)
  BY <1>1, <1>9, ReceiveTyped DEF OtherTypes
<1>10. CASE ExecThrows(c)
  <2>1. pc[c] \in Launching
    BY <1>10 DEF ExecThrows, At, Launching
  <2> QED BY <1>1, <1>10, <2>1, ExecFailsTyped
<1>11. CASE KillObjects(c)
  BY <1>1, <1>11, ReturnTyped DEF KillObjects
<1> QED BY <1>2, <1>3, <1>4, <1>5, <1>6, <1>7, <1>8, <1>9, <1>10, <1>11 DEF OfCall, CallStep

-----------------------------------------------------------------------------
(* The other variables of a node.                                          *)

Views == [Nodes -> [flops: Int, jobs: Int]]

(* The search node's copy is written by those who add and remove jobs.     *)
LEMMA ViewTyped ==
  ASSUME view \in Views, NEW n \in Nodes, NEW f \in Int, NEW k \in Int
  PROVE  AddJob(n, f) \/ RemoveJob(n, f, k) => view' \in Views
<1>1. view[n].flops \in Int /\ view[n].jobs \in Int
  BY DEF Views
<1>2. view[n].flops - f \in Int /\ view[n].jobs + 1 \in Int /\ view[n].jobs - k \in Int
  BY <1>1
<1>3. CASE AddJob(n, f)
  <2>1. view' = [view EXCEPT ![n] = [flops |-> view[n].flops - f, jobs |-> view[n].jobs + 1]]
    BY <1>3 DEF AddJob, Views
  <2> QED BY <1>2, <2>1 DEF Views
<1>4. CASE RemoveJob(n, f, k)
  <2>1. view' = [view EXCEPT ![n] = [flops |-> f, jobs |-> view[n].jobs - k]]
    BY <1>4 DEF RemoveJob, Views
  <2> QED BY <1>2, <2>1 DEF Views
<1> QED BY <1>3, <1>4

(* A cancellation tells the search node some power of the node.            *)
LEMMA CancelView ==
  ASSUME LedgerTypeOK, NEW n \in Nodes, NEW ids, Cancel(n, ids)
  PROVE  view' \in Views
<1> DEFINE gone == Those(jobs[n], Cancelled(n, ids))
<1>1. view \in Views
  BY DEF LedgerTypeOK, Views
<1>2. Len(gone) \in Int
  <2>1. jobs[n] \in Seq(Resources)
    BY DEF LedgerTypeOK
  <2>2. gone \in Seq(Resources)
    BY <2>1, ThoseFacts
  <2> QED BY <2>2, LenProperties
<1>3. UNCHANGED view \/ \E v \in 0..Power[n] : RemoveJob(n, v, Len(gone))
  BY DEF Cancel, ledgerVars
<1> HIDE DEF gone
<1>4. \A v \in 0..Power[n] : v \in Int
  OBVIOUS
<1> QED BY <1>1, <1>2, <1>3, <1>4, ViewTyped

(* ApplicationEnd remembers what it has to send, ...                       *)
LEMMA EndingTyped ==
  ASSUME LedgerTypeOK, NEW n \in Nodes, NEW a \in Apps, NEW e \in Ending,
         ending' = [ending EXCEPT ![n][a] = e]
  PROVE  ending' \in [Nodes -> [Apps -> Ending]]
<1>1. ending \in [Nodes -> [Apps -> Ending]]
  BY DEF LedgerTypeOK
<1>2. ending' = [ending EXCEPT ![n] = [ending[n] EXCEPT ![a] = e]]
  OBVIOUS
<1>3. [ending[n] EXCEPT ![a] = e] \in [Apps -> Ending]
  BY <1>1
<1> QED BY <1>1, <1>2, <1>3

(* ... which is what it reads after the unlock.                            *)
LEMMA EndTypes ==
  ASSUME LedgerTypeOK, NEW n \in Nodes, NEW a \in Apps,
         ApplicationEnd(n, a) \/ ReadAvailable(n, a) \/ SendAvailable(n, a)
  PROVE  /\ ending' \in [Nodes -> [Apps -> Ending]] /\ view' \in Views
         /\ UNCHANGED <<managerUp, searchUp>>
<1>1. /\ view \in Views /\ ending[n][a] \in Ending /\ jobs[n] \in Seq(Resources)
      /\ available[n] \in Int /\ ending \in [Nodes -> [Apps -> Ending]]
  BY DEF LedgerTypeOK, Views
<1>2. CASE ApplicationEnd(n, a)
  <2> DEFINE k == Len(Those(jobs[n], Named(n, a)))
             e == [ending[n][a] EXCEPT !.pc = "read", !.nbJob = k]
  <2>1. k \in Nat
    <3>1. Those(jobs[n], Named(n, a)) \in Seq(Resources)
      BY <1>1, ThoseFacts
    <3> QED BY <3>1, LenProperties
  <2>2. e \in Ending
    <3> HIDE DEF k
    <3> QED BY <1>1, <2>1 DEF Ending
  <2>3. ending' = [ending EXCEPT ![n][a] = e]
    BY <1>2 DEF ApplicationEnd
  <2> HIDE DEF e, k
  <2>4. ending' \in [Nodes -> [Apps -> Ending]]
    BY <2>2, <2>3, EndingTyped
  <2> QED BY <1>1, <1>2, <2>4 DEF ApplicationEnd
<1>3. CASE ReadAvailable(n, a)
  <2> DEFINE e == [ending[n][a] EXCEPT !.pc = "send", !.flops = available[n]]
  <2>1. e \in Ending
    BY <1>1 DEF Ending
  <2>2. ending' = [ending EXCEPT ![n][a] = e]
    BY <1>3 DEF ReadAvailable
  <2> HIDE DEF e
  <2>3. ending' \in [Nodes -> [Apps -> Ending]]
    BY <2>1, <2>2, EndingTyped
  <2> QED BY <1>1, <1>3, <2>3 DEF ReadAvailable, ledgerVars
<1>4. CASE SendAvailable(n, a)
  <2>1. ending' = [ending EXCEPT ![n][a] = NotEnding]
    BY <1>4 DEF SendAvailable
  <2>2. NotEnding \in Ending
    BY DEF NotEnding, Ending
  <2>3. ending' \in [Nodes -> [Apps -> Ending]]
    BY <2>1, <2>2, EndingTyped
  <2>4. ending[n][a].flops \in Int /\ ending[n][a].nbJob \in Int
    BY <1>1 DEF Ending
  <2>5. UNCHANGED view \/ RemoveJob(n, ending[n][a].flops, ending[n][a].nbJob)
    BY <1>4 DEF SendAvailable
  <2>6. view' \in Views
    BY <1>1, <2>4, <2>5, ViewTyped
  <2> QED BY <1>4, <2>3, <2>6 DEF SendAvailable
<1> QED BY <1>2, <1>3, <1>4

(* A step keeps the types of what the nodes have.                          *)
NodeTypes ==
  /\ managerUp \in [Nodes -> BOOLEAN] /\ view \in Views /\ searchUp \in [Nodes -> BOOLEAN]
  /\ ending \in [Nodes -> [Apps -> Ending]]

(* They keep them.                                                         *)
LEMMA NodeTyped ==
  ASSUME TInv, [Next]_createVars
  PROVE  NodeTypes'
<1>1. /\ LedgerTypeOK /\ NodeTypes /\ \A n \in Nodes : available[n] >= 0
      /\ \A c \in Calls : CallTypes(c) /\ Way(c)
      /\ CreateTypeOK
  BY TypesSplit DEF TInv, LedgerTypeOK, NodeTypes, Views
<1>2. ASSUME UNCHANGED nodeVars
      PROVE  NodeTypes'
  BY <1>1, <1>2 DEF nodeVars, NodeTypes, Views
<1>3. ASSUME view' \in Views, UNCHANGED <<managerUp, searchUp, ending>>
      PROVE  NodeTypes'
  BY <1>1, <1>3 DEF NodeTypes
<1>4. ASSUME NEW c \in Calls, MatchLocal(c)
      PROVE  NodeTypes'
  <2>1. UNCHANGED nodeVars \/ UNCHANGED <<managerUp, searchUp, ending, view>>
    BY <1>4 DEF MatchLocal, MatchAndReserve, Jump, ledgerVars, nodeVars
  <2> QED BY <1>1, <1>2, <1>3, <2>1 DEF NodeTypes
<1>5. ASSUME NEW c \in Calls, ReserveRemote(c)
      PROVE  NodeTypes'
  <2> DEFINE n == responses[c][turn[c]]
             t == Reservation(n, Grant(n, Require[c]), AppOf[c], c)
  <2>1. n \in Nodes
    <3>1. responses[c] \in Seq(Nodes) /\ turn[c] \in 1..Len(responses[c])
      BY <1>1, <1>5 DEF CallTypes, Way, ReserveRemote, At
    <3> QED BY <3>1, ElementOfSeq
  <2>2. \/ UNCHANGED nodeVars
        \/ /\ \E id : Reserve(n, c, AppOf[c], Require[c], id)
           /\ UNCHANGED <<managerUp, searchUp, ending>>
    BY <1>5 DEF ReserveRemote, Jump
  <2> HIDE DEF n
  <2>3. t.flops \in Int
    <3>1. Grant(n, Require[c]) \in Nat /\ t.flops = Grant(n, Require[c])
      BY <1>1, <2>1, GrantFacts DEF Reservation
    <3> QED BY <3>1
  <2>4. ASSUME NEW id, Reserve(n, c, AppOf[c], Require[c], id)
        PROVE  view' \in Views
    <3>1. UNCHANGED view \/ AddJob(n, t.flops)
      BY <2>4 DEF Reserve, ledgerVars
    <3> HIDE DEF t
    <3> QED BY <1>1, <2>1, <2>3, <3>1, ViewTyped DEF NodeTypes
  <2> QED BY <1>2, <1>3, <2>2, <2>4
<1>6. ASSUME NEW c \in Calls, QueryCode(c) \/ Launch(c) \/ Receive(c)
      PROVE  NodeTypes'
  <2>1. Host(c) \in Nodes
    <3>1. pc[c] \in Launching
      BY <1>6 DEF QueryCode, Launch, Receive, At, Launching
    <3> QED BY <1>1, <3>1, LaunchFacts
  <2>2. \/ UNCHANGED nodeVars
        \/ UNCHANGED <<managerUp, searchUp, ending>> /\ Cancel(Host(c), Ids(c))
        \/ UNCHANGED <<managerUp, searchUp, ending, view>>
    BY <1>6 DEF QueryCode, Launch, Receive, Jump, ExecFails, ValidateReservation
  <2> QED BY <1>1, <1>2, <1>3, <2>1, <2>2, CancelView DEF NodeTypes
<1>7. ASSUME NEW c \in Calls, Exec(c)
      PROVE  NodeTypes'
  <2>1. UNCHANGED <<view, searchUp, ending>>
    BY <1>7 DEF Exec, ledgerVars
  <2>2. managerUp' \in [Nodes -> BOOLEAN]
    <3>1. UNCHANGED managerUp \/ managerUp' = [managerUp EXCEPT ![Contact(c)] = FALSE]
      BY <1>7 DEF Exec
    <3> QED BY <1>1, <3>1 DEF NodeTypes
  <2> QED BY <1>1, <2>1, <2>2 DEF NodeTypes
<1>8. ASSUME NEW c \in Calls,
             \/ Attempt(c) \/ StartDiscovery(c) \/ EndDiscovery(c) \/ Check(c)
             \/ ExecThrows(c) \/ KillObjects(c) \/ \E n \in Nodes : Respond(c, n)
      PROVE  UNCHANGED nodeVars
  BY <1>8 DEF Attempt, Jump, Return, StartDiscovery, EndDiscovery, Check, ExecThrows,
     KillObjects, Respond
<1>9. ASSUME NEW m \in cancels, CancelReservation(m)
      PROVE  NodeTypes'
  <2>1. m.node \in Nodes
    BY <1>1 DEF CreateTypeOK
  <2>2. /\ UNCHANGED <<managerUp, searchUp, ending>>
        /\ Cancel(m.node, m.ids) \/ UNCHANGED view
    BY <1>9 DEF CancelReservation, ledgerVars
  <2> QED BY <1>1, <1>3, <2>1, <2>2, CancelView DEF NodeTypes
<1>10. ASSUME NEW a \in Apps, AppEnds(a)
       PROVE  UNCHANGED nodeVars
  BY <1>10 DEF AppEnds
<1>11. ASSUME NEW n \in Nodes, NEW a \in Apps, EndReaches(n, a) \/ EndStep(n, a)
       PROVE  NodeTypes'
  BY <1>1, <1>11, EndTypes DEF EndReaches, EndStep, NodeTypes
<1>12. ASSUME NEW n \in Nodes, StopSearch(n)
       PROVE  NodeTypes'
  BY <1>1, <1>12 DEF StopSearch, SearchNodeStops, NodeTypes, ledgerVars
<1>13. CASE UNCHANGED createVars
  BY <1>2, <1>13 DEF createVars
<1> QED BY <1>2, <1>4, <1>5, <1>6, <1>7, <1>8, <1>9, <1>10, <1>11, <1>12, <1>13
        DEF Next, CallStep

(* A step keeps the types of the processes and the cancellations.          *)
LEMMA OtherTyped ==
  ASSUME TInv, [Next]_createVars
  PROVE  OtherTypes'
<1>1. /\ OtherTypes /\ CreateTypeOK
      /\ \A c \in Calls : CallTypes(c) /\ Way(c)
  BY TypesSplit DEF TInv
<1>2. ASSUME processes' \subseteq processes, cancels' \subseteq cancels, UNCHANGED appUp
      PROVE  OtherTypes'
  BY <1>1, <1>2 DEF OtherTypes
<1>3. ASSUME NEW c \in Calls,
             \/ Attempt(c) \/ MatchLocal(c) \/ StartDiscovery(c) \/ EndDiscovery(c)
             \/ ReserveRemote(c) \/ Exec(c) \/ ExecThrows(c)
             \/ \E n \in Nodes : Respond(c, n)
      PROVE  UNCHANGED <<processes, cancels, appUp>>
  <2>1. CASE Attempt(c) \/ MatchLocal(c)
    BY <2>1 DEF Attempt, MatchLocal, Jump, Return
  <2>2. CASE StartDiscovery(c) \/ EndDiscovery(c) \/ \E n \in Nodes : Respond(c, n)
    BY <2>2 DEF StartDiscovery, EndDiscovery, Respond, Jump
  <2>3. CASE ReserveRemote(c) \/ Exec(c) \/ ExecThrows(c)
    BY <2>3 DEF ReserveRemote, Exec, ExecThrows, Jump
  <2> QED BY <1>3, <2>1, <2>2, <2>3
<1>4. ASSUME NEW c \in Calls, KillObjects(c)
      PROVE  processes' \subseteq processes /\ UNCHANGED <<cancels, appUp>>
  BY <1>4 DEF KillObjects, Return
<1>5. ASSUME NEW c \in Calls, Check(c)
      PROVE  OtherTypes'
  <2>1. pc[c] \in Reserving
    BY <1>5 DEF Check, At, Reserving
  <2>2. ASSUME NEW i \in Rest(c), slots[c][i].flops > 0
        PROVE  [node |-> slots[c][i].contact, ids |-> {slots[c][i].id}]
                 \in [node: Nodes, ids: SUBSET (1..MaxId)]
    <3>1. i \in 1..HowMany[c]
      BY <1>1, CreateAssumption DEF Rest, CallTypes
    <3>2. slots[c][i].contact \in Nodes \cup {None} /\ slots[c][i].id \in 0..MaxId
      BY <1>1, <3>1, SlotFacts
    <3>3. slots[c][i].contact # None /\ slots[c][i].id # 0
      BY <1>1, <2>1, <2>2, <3>1 DEF Way
    <3>4. slots[c][i].id \in 1..MaxId
      BY <3>2, <3>3, LedgerAssumption
    <3> QED BY <3>2, <3>3, <3>4
  <2>3. UNCHANGED <<processes, appUp>>
    BY <1>5 DEF Check
  <2>4. cancels' \subseteq [node: Nodes, ids: SUBSET (1..MaxId)]
    BY <1>1, <1>5, <2>2 DEF Check, OtherTypes
  <2> QED BY <1>1, <2>3, <2>4 DEF OtherTypes
<1>6. ASSUME NEW c \in Calls, QueryCode(c) \/ Launch(c) \/ Receive(c)
      PROVE  OtherTypes'
  <2>1. Host(c) \in Nodes /\ Ids(c) \in SUBSET (1..MaxId)
    <3>1. pc[c] \in Launching
      BY <1>6 DEF QueryCode, Launch, Receive, At, Launching
    <3> QED BY <1>1, <3>1, LaunchFacts
  <2>2. [call |-> c, node |-> Host(c), ids |-> Ids(c)] \in Process
    BY <2>1 DEF Process
  <2>3. [node |-> Host(c), ids |-> Ids(c)] \in [node: Nodes, ids: SUBSET (1..MaxId)]
    BY <2>1
  <2>4. CASE ExecFails(c)
    <3>1. UNCHANGED appUp /\ processes' \subseteq processes
          /\ cancels' \subseteq cancels \cup {[node |-> Host(c), ids |-> Ids(c)]}
      BY <2>4 DEF ExecFails
    <3> QED BY <1>1, <2>3, <3>1 DEF OtherTypes
  <2>5. CASE UNCHANGED <<cancels, appUp>> /\
             \/ UNCHANGED processes
             \/ processes' = processes \cup {[call |-> c, node |-> Host(c), ids |-> Ids(c)]}
    BY <1>1, <2>2, <2>5 DEF OtherTypes
  <2> QED BY <1>6, <2>4, <2>5 DEF QueryCode, Launch, Receive, Jump
<1>7. ASSUME NEW m \in cancels, CancelReservation(m)
      PROVE  UNCHANGED <<processes, appUp>> /\ cancels' \subseteq cancels
  BY <1>7 DEF CancelReservation
<1>8. ASSUME NEW a \in Apps, AppEnds(a)
      PROVE  OtherTypes'
  BY <1>1, <1>8 DEF AppEnds, OtherTypes
<1>9. ASSUME NEW n \in Nodes, NEW a \in Apps, EndReaches(n, a) \/ EndStep(n, a) \/ StopSearch(n)
      PROVE  UNCHANGED <<processes, cancels, appUp>>
  BY <1>9 DEF EndReaches, EndStep, StopSearch
<1>10. ASSUME NEW n \in Nodes, StopSearch(n)
       PROVE  UNCHANGED <<processes, cancels, appUp>>
  BY <1>10 DEF StopSearch
<1>11. CASE UNCHANGED createVars
  BY <1>2, <1>11 DEF createVars
<1> QED BY <1>2, <1>3, <1>4, <1>5, <1>6, <1>7, <1>8, <1>9, <1>10, <1>11 DEF Next, CallStep

(* What the types are made of, after a step.                               *)
LEMMA TypesJoined ==
  (LedgerTypeOK /\ Funs /\ OtherTypes /\ \A c \in Calls : CallTypes(c))' =>
    CreateTypeOK' /\ Shapes'
<1>1. LedgerTypeOK /\ Funs /\ OtherTypes /\ (\A c \in Calls : CallTypes(c)) =>
        CreateTypeOK /\ Shapes
  BY TypesSplit
<1> QED BY <1>1, PTL

(* The types and the ways of the calls are an invariant.                   *)
LEMMA TypesHold ==
  ASSUME TInv, [Next]_createVars
  PROVE  TInv'
<1>1. /\ LedgerTypeOK /\ Funs /\ OtherTypes
      /\ \A c \in Calls : CallTypes(c) /\ Way(c)
  BY TypesSplit DEF TInv
<1>2. /\ LedgerTypeOK' /\ \A n \in Nodes : available'[n] >= 0
  <2>1. LedgerStep
    BY LedgerWriters
  <2>2. NodeTypes'
    BY NodeTyped
  <2> QED BY <2>1, <2>2, LedgerTypesStep DEF NodeTypes, LedgerTypeOK, Views
<1>3. OtherTypes'
  BY OtherTyped
<1>4. Funs' /\ \A d \in Calls : TypedStep(d)
  <2>1. CASE UNCHANGED <<callVars, processes>>
    <3>1. Funs' /\ \A d \in Calls : Still(d)
      BY <1>1, <2>1 DEF callVars, Funs, Still
    <3> QED BY <1>1, <3>1, StillKeeps DEF TypedStep
  <2>2. ASSUME NEW c \in Calls, OfCall(c), Only(c)
        PROVE  Funs' /\ \A d \in Calls : TypedStep(d)
    <3>1. Funs' /\ \A d \in Calls \ {c} : Still(d)
      BY <2>2 DEF Only
    <3>2. TypedStep(c)
      BY <2>2, CallTyped
    <3>3. ASSUME NEW d \in Calls, d # c
          PROVE  TypedStep(d)
      BY <1>1, <3>1, <3>3, StillKeeps DEF TypedStep
    <3> HIDE DEF TypedStep
    <3> QED BY <3>1, <3>2, <3>3
  <2> QED BY <1>1, <2>1, <2>2, OneCall
<1>5. CreateTypeOK' /\ Shapes'
  <2>1. \A d \in Calls : CallTypes(d)'
    BY <1>4 DEF TypedStep
  <2>2. (LedgerTypeOK /\ Funs /\ OtherTypes /\ \A d \in Calls : CallTypes(d))'
    BY <1>2, <1>3, <1>4, <2>1
  <2> QED BY <2>2, TypesJoined
<1>6. \A d \in Calls : Way(d)'
  BY <1>4 DEF TypedStep
<1> QED BY <1>2, <1>5, <1>6 DEF TInv

(* They hold at first.                                                     *)
LEMMA TypesInit ==
  ASSUME CreateInit
  PROVE  TInv
<1>1. LedgerTypeOK /\ \A n \in Nodes : available[n] >= 0
  <2>1. Power \in [Nodes -> Nat]
    <3>1. \A n \in Nodes : Np[n] * Limit \in Nat
      BY LedgerAssumption
    <3> QED BY <3>1 DEF Power
  <2>2. MaxId \in Nat \ {0}
    BY LedgerAssumption
  <2>3. 1 \in 1..MaxId
    BY <2>2
  <2>4. NotEnding \in Ending
    BY DEF NotEnding, Ending
  <2> QED BY <2>1, <2>3, <2>4, EmptySeq DEF CreateInit, LedgerInit, LedgerTypeOK
<1>2. Funs
  BY DEF CreateInit, Funs
<1>3. OtherTypes
  BY DEF CreateInit, OtherTypes
<1>4. ASSUME NEW c \in Calls
      PROVE  CallTypes(c) /\ Way(c)
  <2>1. /\ pc[c] = "attempt" /\ count[c] = 0 /\ retry[c] = Retries
        /\ slots[c] = [i \in 1..HowMany[c] |-> NoSlot] /\ cursor[c] = 0 /\ responses[c] = <<>>
        /\ turn[c] = 0 /\ failed[c] = 0 /\ batch[c] = {} /\ got[c] = {} /\ made[c] = {}
    BY DEF CreateInit
  <2>2. slots[c] \in [1..HowMany[c] -> Slot] /\ Retries \in 0..Retries /\ responses[c] \in Seq(Nodes)
    BY <2>1, NoPlaces, CreateAssumption, EmptySeq
  <2>3. CallTypes(c)
    BY <2>1, <2>2 DEF CallTypes, Locs
  <2>4. \A i \in 1..HowMany[c] : slots[c][i] = NoSlot
    BY <2>1
  <2>5. Way(c)
    BY <2>1, <2>4 DEF Way, NoSlot, Reserving, Launching
  <2> QED BY <2>3, <2>5
<1>5. CreateTypeOK /\ Shapes
  BY <1>1, <1>2, <1>3, <1>4, TypesSplit
<1> QED BY <1>1, <1>4, <1>5 DEF TInv

(* They hold of every behaviour.                                           *)
LEMMA TypesAlways == Spec => []TInv
<1>1. CreateInit => TInv
  BY TypesInit
<1>2. TInv /\ [Next]_createVars => TInv'
  BY TypesHold
<1> QED BY <1>1, <1>2, PTL DEF Spec

(* Every variable of the job managers keeps its type, for any nodes, calls *)
(* and bounds: in particular no slot is granted a power or a number that   *)
(* the ledger cannot have given, and no index leaves its list.             *)
THEOREM CreateTypeCorrect == Spec => []CreateTypeOK
<1>1. TInv => CreateTypeOK
  BY DEF TInv
<1> QED BY <1>1, TypesAlways, PTL

-----------------------------------------------------------------------------
(* The power of a node.                                                    *)

(* A search node only stops by itself.                                     *)
LEMMA SearchStays ==
  ASSUME MayStop = {}, [Next]_createVars
  PROVE  UNCHANGED searchUp
<1>1. ASSUME NEW c \in Calls, CallStep(c)
      PROVE  UNCHANGED searchUp
  <2>1. CASE Attempt(c) \/ MatchLocal(c) \/ StartDiscovery(c) \/ EndDiscovery(c)
    BY <2>1 DEF Attempt, MatchLocal, StartDiscovery, EndDiscovery, Jump, Return, nodeVars
  <2>2. CASE ReserveRemote(c) \/ Check(c) \/ Exec(c) \/ KillObjects(c) \/ ExecThrows(c)
    BY <2>2 DEF ReserveRemote, Check, Exec, KillObjects, ExecThrows, Jump, Return, nodeVars
  <2>3. CASE QueryCode(c) \/ Launch(c) \/ Receive(c)
    BY <2>3 DEF QueryCode, Launch, Receive, ExecFails, Jump, nodeVars
  <2> QED BY <1>1, <2>1, <2>2, <2>3 DEF CallStep
<1>2. ASSUME NEW c \in Calls, NEW n \in Nodes, Respond(c, n)
      PROVE  UNCHANGED searchUp
  BY <1>2 DEF Respond, nodeVars
<1>3. ASSUME NEW m \in cancels, CancelReservation(m)
      PROVE  UNCHANGED searchUp
  BY <1>3 DEF CancelReservation
<1>4. ASSUME NEW a \in Apps, AppEnds(a) \/ \E n \in Nodes : EndReaches(n, a) \/ EndStep(n, a)
      PROVE  UNCHANGED searchUp
  BY <1>4 DEF AppEnds, EndReaches, EndStep, ApplicationEnd, ReadAvailable, SendAvailable, nodeVars
<1>5. ~ \E n \in Nodes : StopSearch(n)
  BY DEF StopSearch
<1>6. CASE UNCHANGED createVars
  BY <1>6 DEF createVars, nodeVars
<1> QED BY <1>1, <1>2, <1>3, <1>4, <1>5, <1>6 DEF Next

(* A step moves power between what is available and what is reserved.      *)
LEMMA BalanceStep ==
  ASSUME TInv, LedgerStep, \A n \in Nodes : searchUp[n], LedgerBalanced
  PROVE  LedgerBalanced'
<1> DEFINE Same(n) == available'[n] + SumFlops(jobs'[n]) = available[n] + SumFlops(jobs[n])
<1>1. /\ LedgerTypeOK /\ \A n \in Nodes : available[n] >= 0
      /\ jobs \in [Nodes -> Seq(Resources)] /\ available \in [Nodes -> Int]
  BY DEF TInv, CreateTypeOK, LedgerTypeOK
<1>2. \A n \in Nodes : available'[n] >= 0
  BY LedgerTypesStep
<1>3. \A r \in Resources : r.flops \in Nat
  BY DEF Resources
<1>4. \A n \in Nodes : SumFlops(jobs[n]) \in Nat
  BY <1>1, <1>3, SumIsNumber
<1>5. CASE UNCHANGED <<jobs, available, counter>>
  BY <1>5 DEF LedgerBalanced, Power
<1>6. ASSUME NEW n \in Nodes, NEW c \in Calls, NEW a \in Apps \cup {NoApp}, Takes(n, c, a),
             NEW m \in Nodes
      PROVE  Same(m)
  <2> DEFINE t == Reservation(n, Grant(n, Require[c]), a, c)
  <2>1. CASE m # n
    BY <1>1, <1>6, <2>1, TakesFacts
  <2>2. CASE m = n
    <3>1. jobs'[n] = Append(jobs[n], t) /\ available'[n] = available[n] - t.flops
      BY <1>1, <1>6, TakesFacts
    <3>2. t \in Resources /\ t.flops \in Nat
      BY <1>1, <1>3, ReservationFacts
    <3> HIDE DEF t
    <3>3. SumFlops(Append(jobs[n], t)) = SumFlops(jobs[n]) + t.flops
      BY <1>1, <3>2, SumAppend
    <3> QED BY <1>1, <1>4, <2>2, <3>1, <3>2, <3>3
  <2> QED BY <2>1, <2>2
<1>7. ASSUME NEW n \in Nodes, NEW S, Frees(n, S), NEW m \in Nodes
      PROVE  Same(m)
  <2>1. CASE m # n
    BY <1>1, <1>7, <2>1 DEF Frees
  <2>2. CASE m = n
    <3>1. /\ jobs'[n] = Others(jobs[n], S)
          /\ available'[n] = available[n] + SumFlops(Those(jobs[n], S))
      BY <1>1, <1>7 DEF Frees
    <3>2. SumFlops(Those(jobs[n], S)) + SumFlops(Others(jobs[n], S)) = SumFlops(jobs[n])
      BY <1>1, <1>3, SumSplits
    <3>3. SumFlops(Those(jobs[n], S)) \in Nat /\ SumFlops(Others(jobs[n], S)) \in Nat
      <4>1. Those(jobs[n], S) \in Seq(Resources) /\ Others(jobs[n], S) \in Seq(Resources)
        BY <1>1, ThoseFacts DEF Others
      <4> QED BY <1>3, <4>1, SumIsNumber
    <3> QED BY <1>1, <1>4, <2>2, <3>1, <3>2, <3>3
  <2> QED BY <2>1, <2>2
<1>8. ASSUME NEW n \in Nodes, NEW k \in 1..Len(jobs[n]), Holds(n, k), NEW m \in Nodes
      PROVE  Same(m)
  <2>1. CASE m # n
    BY <1>1, <1>8, <2>1 DEF Holds
  <2>2. CASE m = n
    <3>1. jobs'[n] = HeldAt(jobs[n], k) /\ available'[n] = available[n]
      BY <1>1, <1>8 DEF Holds
    <3>2. jobs[n] \in Seq(Resources)
      BY <1>1
    <3>3. /\ HeldAt(jobs[n], k) \in Seq(Resources) /\ Len(HeldAt(jobs[n], k)) = Len(jobs[n])
          /\ \A j \in 1..Len(jobs[n]) : HeldAt(jobs[n], k)[j].flops = jobs[n][j].flops
      BY <3>2, HoldFacts
    <3>4. SumFlops(HeldAt(jobs[n], k)) = SumFlops(jobs[n])
      BY <3>2, <3>3, SumSame
    <3> QED BY <2>2, <3>1, <3>4
  <2> QED BY <2>1, <2>2
<1>9. \A n \in Nodes : Same(n)
  <2>1. \A c \in Calls : AppOf[c] \in Apps
    BY CreateAssumption
  <2> HIDE DEF Same
  <2>2. ~ \E n \in Nodes, c \in Calls : Orphans(n, c)
    BY DEF Orphans
  <2>3. ~ \E n \in Nodes : \E k \in 1..Len(jobs[n]) : Throws(n, k)
    BY DEF Throws
  <2>4. CASE UNCHANGED <<jobs, available, counter>>
    BY <2>4 DEF Same
  <2> QED BY <1>6, <1>7, <1>8, <2>1, <2>2, <2>3, <2>4 DEF LedgerStep
<1> QED BY <1>2, <1>9 DEF LedgerBalanced, Power

(* As long as the search nodes live, no reservation, cancellation or end   *)
(* of an application, in whatever order and however often, loses power of  *)
(* a node or returns it twice, and nobody is granted what is not there.    *)
(* (Reserve leaves an entry it has not charged when its search node has    *)
(* stopped: the ledger is off from then on.)                               *)
THEOREM PowerBalanced ==
  ASSUME MayStop = {}
  PROVE  Spec => []LedgerBalanced
<1> DEFINE I == TInv /\ (\A n \in Nodes : searchUp[n]) /\ LedgerBalanced
<1>1. CreateInit => I
  <2> SUFFICES ASSUME CreateInit
               PROVE  I
    OBVIOUS
  <2>1. TInv
    BY TypesInit
  <2>2. \A n \in Nodes : /\ searchUp[n] /\ jobs[n] = <<>> /\ available[n] = Power[n]
                         /\ available[n] >= 0 /\ available[n] \in Int
    BY <2>1 DEF CreateInit, LedgerInit, TInv, CreateTypeOK, LedgerTypeOK
  <2>3. LedgerBalanced
    BY <2>2, Nothing DEF LedgerBalanced
  <2> QED BY <2>1, <2>2, <2>3
<1>2. I /\ [Next]_createVars => I'
  <2> SUFFICES ASSUME I, [Next]_createVars
               PROVE  I'
    OBVIOUS
  <2>1. TInv'
    BY TypesHold
  <2>2. \A n \in Nodes : searchUp'[n]
    BY SearchStays
  <2>3. LedgerBalanced'
    BY LedgerWriters, BalanceStep
  <2> QED BY <2>1, <2>2, <2>3
<1>3. I => LedgerBalanced
  OBVIOUS
<1> QED BY <1>1, <1>2, <1>3, PTL DEF Spec

-----------------------------------------------------------------------------
(* The numbers of the reservations.                                        *)

(* The hypothesis of the theorems that speak of numbers: none is given a   *)
(* second time, because fewer than MaxId (1000000000 in the code) are      *)
(* given by a node.                                                        *)
Grow        == \A n \in Nodes : counter[n] <= counter'[n]
NumbersGrow == [][Grow]_counter

(* The entries of a list whose k-th is held from now on.                   *)
LEMMA HeldEntries ==
  ASSUME NEW s \in Seq(Resources), NEW k \in 1..Len(s)
  PROVE  /\ \A u \in ToSet(HeldAt(s, k)) : \E t \in ToSet(s) :
              /\ u.Id = t.Id /\ u.popAppId = t.popAppId /\ u.by = t.by
              /\ u.held => t.held \/ t = s[k]
         /\ \A t \in ToSet(s) : \E u \in ToSet(HeldAt(s, k)) :
              u.Id = t.Id /\ u.popAppId = t.popAppId /\ u.by = t.by /\ (t.held => u.held)
         /\ \E u \in ToSet(HeldAt(s, k)) : u.Id = s[k].Id /\ u.by = s[k].by /\ u.held
         /\ OwnIds(s) => OwnIds(HeldAt(s, k))
<1> DEFINE v == HeldAt(s, k)
<1>1. /\ v \in Seq(Resources) /\ Len(v) = Len(s)
      /\ \A j \in 1..Len(s) :
           /\ v[j].Id = s[j].Id /\ v[j].flops = s[j].flops
           /\ v[j].popAppId = s[j].popAppId /\ v[j].by = s[j].by
           /\ v[j].held <=> s[j].held \/ j = k
  BY HoldFacts
<1> HIDE DEF v
<1>2. ToSet(s) = {s[j] : j \in 1..Len(s)} /\ ToSet(v) = {v[j] : j \in 1..Len(s)}
  BY <1>1, LenProperties DEF ToSet
<1>3. ASSUME NEW u \in ToSet(v)
      PROVE  \E t \in ToSet(s) : /\ u.Id = t.Id /\ u.popAppId = t.popAppId /\ u.by = t.by
                                 /\ u.held => t.held \/ t = s[k]
  <2>1. PICK j \in 1..Len(s) : u = v[j]
    BY <1>2
  <2>2. s[j] \in ToSet(s)
    BY <1>2
  <2> QED BY <1>1, <2>1, <2>2
<1>4. ASSUME NEW t \in ToSet(s)
      PROVE  \E u \in ToSet(v) :
               u.Id = t.Id /\ u.popAppId = t.popAppId /\ u.by = t.by /\ (t.held => u.held)
  <2>1. PICK j \in 1..Len(s) : t = s[j]
    BY <1>2
  <2>2. v[j] \in ToSet(v)
    BY <1>2
  <2> QED BY <1>1, <2>1, <2>2
<1>5. \E u \in ToSet(v) : u.Id = s[k].Id /\ u.by = s[k].by /\ u.held
  <2>1. v[k] \in ToSet(v)
    BY <1>2
  <2> QED BY <1>1, <2>1
<1>6. OwnIds(s) => OwnIds(v)
  BY <1>1 DEF OwnIds
<1> QED BY <1>3, <1>4, <1>5, <1>6 DEF v

(* With the search nodes up and no number given twice, a step adds entries *)
(* of the next number, without a contact and of their call's application,  *)
(* and keeps those that are held, unless their application has ended.      *)
LEMMA EntriesStep ==
  ASSUME TInv, LedgerStep, \A n \in Nodes : searchUp[n], MaxId > 1, [Grow]_counter,
         NEW m \in Nodes
  PROVE  /\ counter[m] <= counter'[m]
         /\ \A u \in ToSet(jobs'[m]) :
              \/ \E t \in ToSet(jobs[m]) :
                   u.Id = t.Id /\ u.popAppId = t.popAppId /\ u.by = t.by
              \/ /\ u.Id = counter[m] /\ counter'[m] = counter[m] + 1
                 /\ u.popAppId \in {NoApp, AppOf[u.by]}
         /\ \A t \in ToSet(jobs[m]) : t.held =>
              \/ \E u \in ToSet(jobs'[m]) : u.Id = t.Id /\ u.held /\ u.by = t.by
              \/ \E a \in Apps : ~appUp[a] /\ t.popAppId = a
<1> DEFINE Goal(n) ==
             /\ counter[n] <= counter'[n]
             /\ \A u \in ToSet(jobs'[n]) :
                  \/ \E t \in ToSet(jobs[n]) :
                       u.Id = t.Id /\ u.popAppId = t.popAppId /\ u.by = t.by
                  \/ /\ u.Id = counter[n] /\ counter'[n] = counter[n] + 1
                     /\ u.popAppId \in {NoApp, AppOf[u.by]}
             /\ \A t \in ToSet(jobs[n]) : t.held =>
                  \/ \E u \in ToSet(jobs'[n]) : u.Id = t.Id /\ u.held /\ u.by = t.by
                  \/ \E a \in Apps : ~appUp[a] /\ t.popAppId = a
<1>1. /\ LedgerTypeOK /\ \A n \in Nodes : available[n] >= 0
      /\ jobs \in [Nodes -> Seq(Resources)] /\ counter \in [Nodes -> 1..MaxId]
  BY DEF TInv, CreateTypeOK, LedgerTypeOK
<1>2. ASSUME NEW n \in Nodes, jobs'[n] = jobs[n], counter'[n] = counter[n]
      PROVE  Goal(n)
  BY <1>1, <1>2
<1>3. ASSUME NEW n \in Nodes, NEW c \in Calls, NEW a, a = NoApp \/ a = AppOf[c],
             Takes(n, c, a)
      PROVE  Goal(m)
  <2> DEFINE t == Reservation(n, Grant(n, Require[c]), a, c)
  <2>1. a \in Apps \cup {NoApp}
    BY <1>3, CreateAssumption
  <2>2. CASE m # n
    BY <1>1, <1>2, <1>3, <2>1, <2>2, TakesFacts
  <2>3. CASE m = n
    <3>1. jobs'[m] = Append(jobs[m], t) /\ counter'[m] = (counter[m] % MaxId) + 1
      BY <1>1, <1>3, <2>1, <2>3, TakesFacts
    <3>2. /\ t \in Resources /\ t.Id = counter[m] /\ t.popAppId \in {NoApp, AppOf[t.by]}
      <4>1. t \in Resources /\ t.Id = counter[n] /\ t.popAppId = a /\ t.by = c
        <5>1. available[n] >= 0
          BY <1>1
        <5>2. t \in Resources /\ t.Id = counter[n] /\ t.popAppId = a
          BY <1>1, <2>1, <5>1, ReservationFacts
        <5>3. t.by = c
          BY DEF Reservation
        <5> QED BY <5>2, <5>3
      <4> HIDE DEF t
      <4> QED BY <1>3, <2>3, <4>1
    <3>3. counter'[m] = counter[m] + 1
      <4>1. counter[m] \in 1..MaxId /\ MaxId \in Nat
        BY <1>1, LedgerAssumption
      <4>2. counter'[m] = IF counter[m] = MaxId THEN 1 ELSE counter[m] + 1
        BY <3>1, <4>1, NextNumber
      <4>3. counter[m] <= counter'[m]
        <5>1. UNCHANGED counter \/ Grow
          OBVIOUS
        <5> QED BY <4>1, <5>1 DEF Grow
      <4> QED BY <4>1, <4>2, <4>3
    <3> HIDE DEF t
    <3>4. ToSet(jobs'[m]) = ToSet(jobs[m]) \cup {t}
      BY <1>1, <3>1, <3>2, AppendHas
    <3>5. counter[m] \in Int
      BY <1>1
    <3> QED BY <3>2, <3>3, <3>4, <3>5
  <2> HIDE DEF Goal
  <2> QED BY <2>2, <2>3
<1>4. ASSUME NEW n \in Nodes, NEW S, Frees(n, S)
      PROVE  Goal(m)
  <2>1. CASE m # n
    <3>1. jobs'[m] = jobs[m] /\ counter'[m] = counter[m]
      BY <1>1, <1>4, <2>1 DEF Frees
    <3> QED BY <1>2, <3>1
  <2>2. CASE m = n
    <3>1. jobs'[m] = Others(jobs[m], S) /\ counter'[m] = counter[m] /\ counter[m] \in Int
      BY <1>1, <1>4, <2>2 DEF Frees
    <3>2. ToSet(jobs'[m]) = ToSet(jobs[m]) \ S
      <4>1. ToSet(Others(jobs[m], S)) = ToSet(jobs[m]) \cap (ToSet(jobs[m]) \ S)
        BY <1>1, ThoseFacts DEF Others
      <4> QED BY <3>1, <4>1
    <3>3. (\A t \in S : ~t.held) \/ \E a \in Apps : ~appUp[a] /\ \A t \in S : t.popAppId = a
      BY <1>4 DEF Frees
    <3> QED BY <3>1, <3>2, <3>3
  <2> HIDE DEF Goal
  <2> QED BY <2>1, <2>2
<1>5. ASSUME NEW n \in Nodes, NEW k \in 1..Len(jobs[n]), Holds(n, k)
      PROVE  Goal(m)
  <2>1. CASE m # n
    <3>1. jobs'[m] = jobs[m] /\ counter'[m] = counter[m]
      BY <1>1, <1>5, <2>1 DEF Holds
    <3> QED BY <1>2, <3>1
  <2>2. CASE m = n
    <3>1. jobs'[m] = HeldAt(jobs[m], k) /\ counter'[m] = counter[m] /\ counter[m] \in Int
      BY <1>1, <1>5, <2>2 DEF Holds
    <3>2. jobs[m] \in Seq(Resources) /\ k \in 1..Len(jobs[m])
      BY <1>1, <2>2
    <3> QED BY <3>1, <3>2, HeldEntries
  <2> HIDE DEF Goal
  <2> QED BY <2>1, <2>2
<1>6. ASSUME UNCHANGED <<jobs, available, counter>>
      PROVE  Goal(m)
  BY <1>2, <1>6
<1>7. ~ \E n \in Nodes, c \in Calls : Orphans(n, c)
  BY DEF Orphans
<1>8. ~ \E n \in Nodes : \E k \in 1..Len(jobs[n]) : Throws(n, k)
  BY DEF Throws
<1>9. Goal(m)
  <2> HIDE DEF Goal
  <2>1. ASSUME NEW n \in Nodes, NEW c \in Calls, Takes(n, c, AppOf[c]) \/ Takes(n, c, NoApp)
        PROVE  Goal(m)
    BY <1>3, <2>1
  <2>2. ASSUME NEW n \in Nodes, NEW k \in 1..Len(jobs[n]), Throws(n, k) \/ Holds(n, k)
        PROVE  Goal(m)
    BY <1>5, <1>8, <2>2
  <2>3. ASSUME NEW n \in Nodes, NEW S \in SUBSET ToSet(jobs[n]), Frees(n, S)
        PROVE  Goal(m)
    BY <1>4, <2>3
  <2>4. ~ \E n \in Nodes, c \in Calls : Orphans(n, c)
    BY <1>7
  <2>5. CASE \E n \in Nodes, c \in Calls :
               Takes(n, c, AppOf[c]) \/ Takes(n, c, NoApp) \/ Orphans(n, c)
    BY <2>1, <2>4, <2>5
  <2>6. CASE \E n \in Nodes : \E S \in SUBSET ToSet(jobs[n]) : Frees(n, S)
    BY <2>3, <2>6
  <2>7. CASE \E n \in Nodes : \E k \in 1..Len(jobs[n]) : Throws(n, k) \/ Holds(n, k)
    BY <2>2, <2>7
  <2> QED BY <2>5, <2>6, <2>7, <1>6 DEF LedgerStep
<1> QED BY <1>9

(* The ledger of numbers: every Id is below the next, of one entry, and an *)
(* entry names no application but its call's.                              *)
NInv == TInv /\ (\A n \in Nodes : searchUp[n]) /\ Numbered /\ Tagged /\ Alone

(* A new entry has a number of its own.                                    *)
LEMMA AloneStep ==
  ASSUME NInv, LedgerStep
  PROVE  Alone'
<1>1. /\ LedgerTypeOK /\ \A n \in Nodes : available[n] >= 0
      /\ jobs \in [Nodes -> Seq(Resources)] /\ counter \in [Nodes -> 1..MaxId]
  BY DEF NInv, TInv, CreateTypeOK, LedgerTypeOK
<1>2. \A n \in Nodes : OwnIds(jobs[n])
  BY DEF NInv, Alone
<1>3. ASSUME NEW n \in Nodes, NEW c \in Calls, NEW a \in Apps \cup {NoApp}, Takes(n, c, a),
             NEW m \in Nodes
      PROVE  OwnIds(jobs'[m])
  <2> DEFINE t == Reservation(n, Grant(n, Require[c]), a, c)
  <2>1. CASE m # n
    BY <1>1, <1>2, <1>3, <2>1, TakesFacts
  <2>2. CASE m = n
    <3>1. jobs'[m] = Append(jobs[m], t)
      BY <1>1, <1>3, <2>2, TakesFacts
    <3>2. t \in Resources /\ t.Id = counter[m]
      BY <1>1, <2>2, ReservationFacts
    <3> HIDE DEF t
    <3>3. \A u \in ToSet(jobs[m]) : u.Id # t.Id
      <4>1. \A u \in ToSet(jobs[m]) : u.Id < counter[m]
        BY DEF NInv, Numbered
      <4>2. \A u \in ToSet(jobs[m]) : u.Id \in Int
        <5>1. ToSet(jobs[m]) \subseteq Resources
          BY <1>1, LenProperties, ElementOfSeq DEF ToSet
        <5> QED BY <5>1 DEF Resources
      <4>3. counter[m] \in Int
        BY <1>1
      <4> QED BY <3>2, <4>1, <4>2, <4>3
    <3> QED BY <1>1, <1>2, <3>1, <3>2, <3>3, AppendOwnIds
  <2> QED BY <2>1, <2>2
<1>4. ASSUME NEW n \in Nodes, NEW S, Frees(n, S), NEW m \in Nodes
      PROVE  OwnIds(jobs'[m])
  <2>1. jobs'[m] = IF m = n THEN Others(jobs[n], S) ELSE jobs[m]
    BY <1>1, <1>4 DEF Frees
  <2>2. OwnIds(Others(jobs[n], S))
    BY <1>1, <1>2, ThoseFacts DEF Others
  <2> QED BY <1>2, <2>1, <2>2
<1>5. ASSUME NEW n \in Nodes, NEW k \in 1..Len(jobs[n]), Holds(n, k), NEW m \in Nodes
      PROVE  OwnIds(jobs'[m])
  <2>1. jobs'[m] = IF m = n THEN HeldAt(jobs[n], k) ELSE jobs[m]
    BY <1>1, <1>5 DEF Holds
  <2>2. OwnIds(HeldAt(jobs[n], k))
    BY <1>1, <1>2, HeldEntries
  <2> QED BY <1>2, <2>1, <2>2
<1>6. ASSUME UNCHANGED <<jobs, available, counter>>, NEW m \in Nodes
      PROVE  OwnIds(jobs'[m])
  BY <1>2, <1>6
<1>7. /\ ~ \E n \in Nodes, c \in Calls : Orphans(n, c)
      /\ ~ \E n \in Nodes : \E k \in 1..Len(jobs[n]) : Throws(n, k)
  BY DEF Orphans, Throws, NInv
<1>8. \A c \in Calls : AppOf[c] \in Apps
  BY CreateAssumption
<1>9. ASSUME NEW m \in Nodes
      PROVE  OwnIds(jobs'[m])
  BY <1>3, <1>4, <1>5, <1>6, <1>7, <1>8 DEF LedgerStep
<1> QED BY <1>9 DEF Alone

(* Numbers and applications of the entries are an invariant, ...           *)
LEMMA NumbersHold ==
  ASSUME MayStop = {}, MaxId > 1, NInv, [Next]_createVars, [Grow]_counter
  PROVE  NInv'
<1>1. TInv' /\ LedgerStep /\ (\A n \in Nodes : searchUp[n]) /\ \A n \in Nodes : searchUp'[n]
  BY TypesHold, LedgerWriters, SearchStays DEF NInv
<1>2. Alone'
  BY <1>1, AloneStep
<1>3. ASSUME NEW m \in Nodes
      PROVE  \A u \in ToSet(jobs'[m]) : u.Id < counter'[m] /\ u.popAppId \in {NoApp, AppOf[u.by]}
  <2>1. /\ counter[m] \in Int /\ counter'[m] \in Int
        /\ ToSet(jobs[m]) \subseteq Resources
    <3>1. jobs[m] \in Seq(Resources) /\ counter[m] \in Int
      BY DEF NInv, TInv, CreateTypeOK, LedgerTypeOK
    <3>2. counter'[m] \in Int
      BY <1>1 DEF TInv, CreateTypeOK, LedgerTypeOK
    <3>3. ToSet(jobs[m]) \subseteq Resources
      BY <3>1, LenProperties, ElementOfSeq DEF ToSet
    <3> QED BY <3>1, <3>2, <3>3
  <2>2. \A t \in ToSet(jobs[m]) :
          t.Id \in Int /\ t.Id < counter[m] /\ t.popAppId \in {NoApp, AppOf[t.by]}
    BY <2>1 DEF NInv, Numbered, Tagged, Resources
  <2>3. /\ counter[m] <= counter'[m]
        /\ \A u \in ToSet(jobs'[m]) :
             \/ \E t \in ToSet(jobs[m]) :
                  u.Id = t.Id /\ u.popAppId = t.popAppId /\ u.by = t.by
             \/ /\ u.Id = counter[m] /\ counter'[m] = counter[m] + 1
                /\ u.popAppId \in {NoApp, AppOf[u.by]}
    BY <1>1, EntriesStep DEF NInv
  <2> QED BY <2>1, <2>2, <2>3
<1> QED BY <1>1, <1>2, <1>3 DEF NInv, Numbered, Tagged

(* ... from the empty ledgers on.                                          *)
LEMMA NumbersInit ==
  ASSUME CreateInit
  PROVE  NInv
<1>1. TInv
  BY TypesInit
<1>2. \A n \in Nodes : searchUp[n] /\ jobs[n] = <<>>
  BY DEF CreateInit, LedgerInit
<1>3. \A n \in Nodes : ToSet(jobs[n]) = {} /\ OwnIds(jobs[n])
  <2>1. OwnIds(<<>>)
    BY EmptySeq DEF OwnIds
  <2> QED BY <1>2, <2>1, Nothing
<1> QED BY <1>1, <1>2, <1>3 DEF NInv, Numbered, Tagged, Alone

(* The Ids of a node's reservations are different, for any number of calls *)
(* and nodes: what a call validates or cancels is its own.  (Not when a    *)
(* search node has stopped: Reserve leaves an entry then, and gives its    *)
(* number once more; nor when the numbers start again.)                    *)
THEOREM IdsAreDistinct ==
  ASSUME MayStop = {}, MaxId > 1
  PROVE  Spec /\ NumbersGrow => []IdsDistinct
<1>1. CreateInit => NInv
  BY NumbersInit
<1>2. NInv /\ [Next]_createVars /\ [Grow]_counter => NInv'
  BY NumbersHold
<1>3. NInv => IdsDistinct
  <2>1. ASSUME NInv, NEW n \in Nodes
        PROVE  OwnIds(jobs[n]) /\ DOMAIN jobs[n] = 1..Len(jobs[n])
    <3>1. jobs[n] \in Seq(Resources) /\ OwnIds(jobs[n])
      BY <2>1 DEF NInv, TInv, CreateTypeOK, LedgerTypeOK, Alone
    <3> QED BY <3>1, LenProperties
  <2> QED BY <2>1 DEF IdsDistinct, OwnIds
<1> QED BY <1>1, <1>2, <1>3, PTL DEF Spec, NumbersGrow

-----------------------------------------------------------------------------
(* The reservations of the objects that run.                               *)

(* A step that keeps the ledgers of numbers.                               *)
GoodStep ==
  NInv /\ NInv' /\ LedgerStep /\ [Next]_createVars /\ [Grow]_counter /\ MaxId > 1

OwnNext(c, n, id) == id < counter'[n] /\ \A t \in ToSet(jobs'[n]) : t.Id = id => t.by = c
KeepsNext(c, n, id) ==
  managerUp'[n] /\ appUp'[AppOf[c]] =>
    \E t \in ToSet(jobs'[n]) : t.Id = id /\ t.held /\ t.by = c

(* No manager and no application comes back.                               *)
LEMMA NobodyReturns ==
  ASSUME CreateTypeOK, [Next]_createVars
  PROVE  /\ \A n \in Nodes : managerUp'[n] => managerUp[n]
         /\ \A a \in Apps : appUp'[a] => appUp[a]
<1>1. managerUp \in [Nodes -> BOOLEAN] /\ appUp \in [Apps -> BOOLEAN]
  BY DEF CreateTypeOK, LedgerTypeOK
<1>2. ASSUME NEW c \in Calls, Exec(c)
      PROVE  (\A n \in Nodes : managerUp'[n] => managerUp[n]) /\ UNCHANGED appUp
  <2>1. UNCHANGED managerUp \/ managerUp' = [managerUp EXCEPT ![Contact(c)] = FALSE]
    BY <1>2 DEF Exec
  <2> QED BY <1>1, <1>2, <2>1 DEF Exec
<1>3. ASSUME NEW c \in Calls,
             \/ Attempt(c) \/ MatchLocal(c) \/ StartDiscovery(c) \/ EndDiscovery(c)
             \/ ReserveRemote(c) \/ Check(c) \/ KillObjects(c) \/ ExecThrows(c)
             \/ \E n \in Nodes : Respond(c, n)
      PROVE  UNCHANGED <<managerUp, appUp>>
  <2>1. CASE Attempt(c) \/ MatchLocal(c) \/ StartDiscovery(c) \/ EndDiscovery(c)
    BY <2>1 DEF Attempt, MatchLocal, StartDiscovery, EndDiscovery, Jump, Return, nodeVars
  <2>2. CASE ReserveRemote(c) \/ Check(c) \/ KillObjects(c) \/ ExecThrows(c)
    BY <2>2 DEF ReserveRemote, Check, KillObjects, ExecThrows, Jump, Return, nodeVars
  <2>3. CASE \E n \in Nodes : Respond(c, n)
    BY <2>3 DEF Respond, nodeVars
  <2> QED BY <1>3, <2>1, <2>2, <2>3
<1>4. ASSUME NEW c \in Calls, QueryCode(c) \/ Launch(c) \/ Receive(c)
      PROVE  UNCHANGED <<managerUp, appUp>>
  BY <1>4 DEF QueryCode, Launch, Receive, ExecFails, Jump, nodeVars
<1>5. ASSUME NEW m \in cancels, CancelReservation(m)
      PROVE  UNCHANGED <<managerUp, appUp>>
  BY <1>5 DEF CancelReservation
<1>6. ASSUME NEW a \in Apps, AppEnds(a)
      PROVE  (\A b \in Apps : appUp'[b] => appUp[b]) /\ UNCHANGED managerUp
  <2>1. appUp[a] /\ appUp' = [appUp EXCEPT ![a] = FALSE]
    BY <1>6 DEF AppEnds
  <2> QED BY <1>1, <1>6, <2>1 DEF AppEnds, nodeVars
<1>7. ASSUME NEW n \in Nodes, NEW a \in Apps, EndReaches(n, a) \/ EndStep(n, a)
      PROVE  UNCHANGED <<managerUp, appUp>>
  BY <1>7 DEF EndReaches, EndStep, ApplicationEnd, ReadAvailable, SendAvailable
<1>8. ASSUME NEW n \in Nodes, StopSearch(n)
      PROVE  UNCHANGED <<managerUp, appUp>>
  BY <1>8 DEF StopSearch, SearchNodeStops
<1>9. CASE UNCHANGED createVars
  BY <1>9 DEF createVars, nodeVars
<1> QED BY <1>2, <1>3, <1>4, <1>5, <1>6, <1>7, <1>8, <1>9 DEF Next, CallStep

(* What the entries of a ledger are.                                       *)
LEMMA EntryFacts ==
  ASSUME NInv, NEW n \in Nodes
  PROVE  /\ jobs[n] \in Seq(Resources) /\ counter[n] \in Int
         /\ \A t \in ToSet(jobs[n]) :
              /\ t \in Resources /\ t.Id \in Int /\ t.Id < counter[n]
              /\ t.popAppId \in {NoApp, AppOf[t.by]}
<1>1. jobs[n] \in Seq(Resources) /\ counter[n] \in 1..MaxId
  BY DEF NInv, TInv, CreateTypeOK, LedgerTypeOK
<1>2. ToSet(jobs[n]) \subseteq Resources
  BY <1>1, LenProperties, ElementOfSeq DEF ToSet
<1>3. \A t \in ToSet(jobs[n]) : t.Id \in Int
  BY <1>2 DEF Resources
<1> QED BY <1>1, <1>2, <1>3 DEF NInv, Numbered, Tagged

(* An Id stays its call's, ...                                             *)
LEMMA OwnStays ==
  ASSUME GoodStep, NEW c \in Calls, NEW n \in Nodes, NEW id \in Int, Own(c, n, id)
  PROVE  OwnNext(c, n, id)
<1>1. /\ counter[n] <= counter'[n]
      /\ \A u \in ToSet(jobs'[n]) :
           (\E t \in ToSet(jobs[n]) : u.Id = t.Id /\ u.by = t.by) \/ u.Id = counter[n]
  BY EntriesStep DEF GoodStep, NInv
<1>2. counter[n] \in Int /\ counter'[n] \in Int
  BY DEF GoodStep, NInv, TInv, CreateTypeOK, LedgerTypeOK
<1> QED BY <1>1, <1>2 DEF Own, OwnNext

(* ... and an object keeps its reservation.                                *)
LEMMA KeepsStays ==
  ASSUME GoodStep, NEW c \in Calls, NEW n \in Nodes, NEW id, Keeps(c, n, id)
  PROVE  KeepsNext(c, n, id)
<1>1. \A t \in ToSet(jobs[n]) : t.held =>
        \/ \E u \in ToSet(jobs'[n]) : u.Id = t.Id /\ u.held /\ u.by = t.by
        \/ \E a \in Apps : ~appUp[a] /\ t.popAppId = a
  BY EntriesStep DEF GoodStep, NInv
<1>2. (managerUp'[n] => managerUp[n]) /\ \A a \in Apps : appUp'[a] => appUp[a]
  BY NobodyReturns DEF GoodStep, NInv, TInv
<1>3. \A t \in ToSet(jobs[n]) : t.popAppId \in {NoApp, AppOf[t.by]}
  BY DEF GoodStep, NInv, Tagged
<1>4. AppOf[c] \in Apps /\ NoApp \notin Apps
  BY CreateAssumption, LedgerAssumption
<1> QED BY <1>1, <1>2, <1>3, <1>4 DEF Keeps, KeepsNext

(* A number that is given to a call is its own.                            *)
LEMMA TakenIsOwn ==
  ASSUME GoodStep, NEW c \in Calls, NEW n \in Nodes, NEW a \in Apps \cup {NoApp}, Takes(n, c, a)
  PROVE  OwnNext(c, n, counter[n])
<1> DEFINE t == Reservation(n, Grant(n, Require[c]), a, c)
<1>1. LedgerTypeOK /\ available[n] >= 0 /\ jobs[n] \in Seq(Resources)
  BY DEF GoodStep, NInv, TInv, CreateTypeOK, LedgerTypeOK
<1>2. jobs'[n] = Append(jobs[n], t)
  BY <1>1, TakesFacts
<1>3. t \in Resources /\ t.Id = counter[n]
  BY <1>1, ReservationFacts
<1>4. t.by = c
  BY DEF Reservation
<1> HIDE DEF t
<1>5. ToSet(jobs'[n]) = ToSet(jobs[n]) \cup {t}
  BY <1>1, <1>2, <1>3, AppendHas
<1>6. counter[n] < counter'[n]
  <2>1. NInv'
    BY DEF GoodStep
  <2>2. \A u \in ToSet(jobs'[n]) : u.Id < counter'[n]
    BY <2>1 DEF NInv, Numbered
  <2> QED BY <1>3, <1>5, <2>2
<1>7. \A u \in ToSet(jobs[n]) : u.Id < counter[n] /\ u.Id \in Int
  BY EntryFacts DEF GoodStep
<1>8. counter[n] \in Int
  BY EntryFacts DEF GoodStep
<1> QED BY <1>3, <1>4, <1>5, <1>6, <1>7, <1>8 DEF OwnNext

(* What the types say of a call's places, batch and objects.               *)
LEMMA CallFacts ==
  ASSUME TInv, NEW c \in Calls
  PROVE  /\ Funs /\ CallTypes(c) /\ Way(c)
         /\ \A i \in 1..HowMany[c] :
              slots[c][i].contact \in Nodes \cup {None} /\ slots[c][i].id \in Int
         /\ batch[c] \subseteq 1..HowMany[c] /\ got[c] \subseteq batch[c]
         /\ \A p \in made[c] : p.node \in Nodes
         /\ pc[c] \in Launching => Host(c) \in Nodes
<1>1. Funs /\ CallTypes(c) /\ Way(c) /\ CreateTypeOK
  BY TypesSplit DEF TInv
<1>2. \A i \in 1..HowMany[c] : slots[c][i].contact \in Nodes \cup {None} /\ slots[c][i].id \in Int
  BY <1>1, SlotFacts
<1>3. batch[c] \subseteq 1..HowMany[c] /\ got[c] \subseteq batch[c] /\ made[c] \subseteq Process
  BY <1>1 DEF CallTypes
<1>4. pc[c] \in Launching => Host(c) \in Nodes
  BY <1>1, LaunchFacts
<1> QED BY <1>1, <1>2, <1>3, <1>4 DEF Process

(* Places that are as before, or just given, are the call's own.           *)
LEMMA PlacesStay ==
  ASSUME GoodStep, NEW c \in Calls, OwnPlaces(c),
         \A i \in 1..HowMany[c] : slots'[c][i].contact # None =>
           \/ slots'[c][i].contact = slots[c][i].contact /\ slots'[c][i].id = slots[c][i].id
           \/ OwnNext(c, slots'[c][i].contact, slots'[c][i].id)
  PROVE  OwnPlaces(c)'
<1>1. \A i \in 1..HowMany[c] : slots[c][i].contact \in Nodes \cup {None} /\ slots[c][i].id \in Int
  BY CallFacts DEF GoodStep, NInv
<1>2. ASSUME NEW i \in 1..HowMany[c], slots'[c][i].contact # None
      PROVE  OwnNext(c, slots'[c][i].contact, slots'[c][i].id)
  <2>1. CASE slots'[c][i].contact = slots[c][i].contact /\ slots'[c][i].id = slots[c][i].id
    <3>1. slots[c][i].contact \in Nodes /\ slots[c][i].id \in Int
      BY <1>1, <1>2, <2>1
    <3>2. Own(c, slots[c][i].contact, slots[c][i].id)
      BY <1>2, <2>1 DEF OwnPlaces
    <3>3. OwnNext(c, slots[c][i].contact, slots[c][i].id)
      BY <3>1, <3>2, OwnStays
    <3> QED BY <2>1, <3>3
  <2> QED BY <1>2, <2>1
<1> QED BY <1>2 DEF OwnPlaces, Own, OwnNext

(* So is the batch while it is launched, ...                               *)
LEMMA BatchStays ==
  ASSUME GoodStep, NEW c \in Calls, OwnBatch(c), HeldBatch(c),
         pc[c] \in Launching, slots'[c] = slots[c], cursor'[c] = cursor[c], batch'[c] = batch[c],
         \A i \in got'[c] : i \in got[c] \/ KeepsNext(c, Host(c), slots[c][i].id)
  PROVE  OwnBatch(c)' /\ HeldBatch(c)'
<1>1. /\ \A i \in 1..HowMany[c] : slots[c][i].id \in Int
      /\ batch[c] \subseteq 1..HowMany[c] /\ Host(c) \in Nodes
  BY CallFacts DEF GoodStep, NInv
<1>2. \A i \in batch[c] : OwnNext(c, Host(c), slots[c][i].id)
  BY <1>1, OwnStays DEF OwnBatch
<1>3. \A i \in got'[c] : KeepsNext(c, Host(c), slots[c][i].id)
  BY <1>1, KeepsStays DEF HeldBatch
<1>4. Host(c)' = Host(c)
  BY DEF Host
<1>5. OwnBatch(c)'
  BY <1>2, <1>4 DEF OwnBatch, Own, OwnNext
<1>6. HeldBatch(c)'
  BY <1>3, <1>4 DEF HeldBatch, Keeps, KeepsNext
<1> QED BY <1>5, <1>6

(* ... and the objects.                                                    *)
LEMMA MadeStays ==
  ASSUME GoodStep, NEW c \in Calls, HeldMade(c),
         \A p \in made'[c] : p \in made[c] \/ \A id \in p.ids : KeepsNext(c, p.node, id)
  PROVE  HeldMade(c)'
<1>1. \A p \in made[c] : p.node \in Nodes
  BY CallFacts DEF GoodStep, NInv
<1>2. \A p \in made'[c] : \A id \in p.ids : KeepsNext(c, p.node, id)
  BY <1>1, KeepsStays DEF HeldMade
<1> QED BY <1>2 DEF HeldMade, Keeps, KeepsNext

(* The other calls keep their own.                                         *)
LEMMA StillHolds ==
  ASSUME GoodStep, NEW d \in Calls, HoldsAll(d), Still(d)
  PROVE  HoldsAll(d)'
<1>1. OwnPlaces(d)'
  BY PlacesStay DEF Still, HoldsAll
<1>2. HeldMade(d)'
  BY MadeStays DEF Still, HoldsAll
<1>3. CASE pc[d] \in Launching
  BY <1>1, <1>2, <1>3, BatchStays DEF Still, HoldsAll
<1>4. CASE pc[d] \notin Launching
  BY <1>1, <1>2, <1>4 DEF Still, HoldsAll, OwnBatch, HeldBatch
<1> QED BY <1>3, <1>4

(* A call that has no batch keeps what it has.                             *)
LEMMA IdleHolds ==
  ASSUME GoodStep, NEW c \in Calls, HoldsAll(c), pc'[c] \notin Launching, made'[c] = made[c],
         \A i \in 1..HowMany[c] : slots'[c][i].contact # None =>
           \/ slots'[c][i].contact = slots[c][i].contact /\ slots'[c][i].id = slots[c][i].id
           \/ OwnNext(c, slots'[c][i].contact, slots'[c][i].id)
  PROVE  HoldsAll(c)'
<1>1. OwnPlaces(c)'
  BY PlacesStay DEF HoldsAll
<1>2. HeldMade(c)'
  BY MadeStays DEF HoldsAll
<1> QED BY <1>1, <1>2 DEF HoldsAll, OwnBatch, HeldBatch

(* One that goes on launching, too.                                        *)
LEMMA LaunchHolds ==
  ASSUME GoodStep, NEW c \in Calls, HoldsAll(c), pc[c] \in Launching, made'[c] = made[c],
         slots'[c] = slots[c], cursor'[c] = cursor[c], batch'[c] = batch[c],
         \A i \in got'[c] : i \in got[c] \/ KeepsNext(c, Host(c), slots[c][i].id)
  PROVE  HoldsAll(c)'
<1>1. OwnPlaces(c)'
  BY PlacesStay DEF HoldsAll
<1>2. HeldMade(c)'
  BY MadeStays DEF HoldsAll
<1>3. OwnBatch(c)' /\ HeldBatch(c)'
  BY BatchStays DEF HoldsAll
<1> QED BY <1>1, <1>2, <1>3 DEF HoldsAll

(* The retry loop and a return forget the places, ...                      *)
LEMMA ReturnHolds ==
  ASSUME GoodStep, NEW c \in Calls, HoldsAll(c), Attempt(c) \/ KillObjects(c)
  PROVE  HoldsAll(c)'
<1>1. Funs
  BY CallFacts DEF GoodStep, NInv
<1>2. ASSUME NEW l \in {"done", "failed"}, Return(c, l)
      PROVE  HoldsAll(c)'
  <2>1. pc'[c] = l /\ slots'[c] = [i \in 1..HowMany[c] |-> NoSlot] /\ made'[c] = made[c]
    BY <1>1, <1>2, ReturnIs
  <2>2. \A i \in 1..HowMany[c] : slots'[c][i].contact = None
    BY <2>1 DEF NoSlot
  <2> QED BY <2>1, <2>2, IdleHolds DEF Launching
<1>3. ASSUME Jump(c, "kill")
      PROVE  HoldsAll(c)'
  <2>1. pc'[c] = "kill" /\ slots'[c] = slots[c] /\ made'[c] = made[c]
    BY <1>1, <1>3, JumpIs
  <2> QED BY <2>1, IdleHolds DEF Launching
<1>4. ASSUME Goto(c, IF Search[c] THEN "search" ELSE "local"),
             slots' = [slots EXCEPT ![c] = [i \in 1..HowMany[c] |-> NoSlot]], UNCHANGED made
      PROVE  HoldsAll(c)'
  <2>1. pc'[c] \in {"search", "local"}
    BY <1>1, <1>4 DEF Goto, Funs
  <2>2. slots'[c] = [i \in 1..HowMany[c] |-> NoSlot]
    BY <1>1, <1>4 DEF Funs
  <2>3. \A i \in 1..HowMany[c] : slots'[c][i].contact = None
    BY <2>2 DEF NoSlot
  <2> QED BY <1>4, <2>1, <2>3, IdleHolds DEF Launching
<1> QED BY <1>2, <1>3, <1>4 DEF Attempt, KillObjects

(* ... discovery and the check leave them, ...                             *)
LEMMA DiscoveryHolds ==
  ASSUME GoodStep, NEW c \in Calls, HoldsAll(c),
         \/ StartDiscovery(c) \/ EndDiscovery(c) \/ Check(c) \/ \E n \in Nodes : Respond(c, n)
  PROVE  HoldsAll(c)'
<1>1. Funs
  BY CallFacts DEF GoodStep, NInv
<1>2. slots' = slots /\ made' = made
  BY DEF StartDiscovery, EndDiscovery, Check, Respond, Jump
<1>3. pc'[c] \in {"discover", "reserve", "kill", "exec"}
  BY <1>1 DEF StartDiscovery, EndDiscovery, Check, Respond, Jump, Goto, At, Funs
<1> QED BY <1>2, <1>3, IdleHolds DEF Launching
(* ... a reservation adds one, ...                                         *)
LEMMA GrantHolds ==
  ASSUME GoodStep, NEW c \in Calls, HoldsAll(c), NEW n \in Nodes, NEW a \in Apps \cup {NoApp},
         Takes(n, c, a), NEW k, NEW f,
         slots' = [slots EXCEPT ![c][k] = [contact |-> n, id |-> counter[n], flops |-> f]],
         pc'[c] \notin Launching, made'[c] = made[c]
  PROVE  HoldsAll(c)'
<1> DEFINE e == [contact |-> n, id |-> counter[n], flops |-> f]
<1>1. slots'[c] = [slots[c] EXCEPT ![k] = e] /\ DOMAIN slots[c] = 1..HowMany[c]
  <2>1. slots' = [slots EXCEPT ![c] = [slots[c] EXCEPT ![k] = e]]
    OBVIOUS
  <2>2. DOMAIN slots = Calls /\ DOMAIN slots[c] = 1..HowMany[c]
    BY CallFacts DEF GoodStep, NInv, Funs, CallTypes
  <2> HIDE DEF e
  <2> QED BY <2>1, <2>2
<1>2. e.contact = n /\ e.id = counter[n]
  OBVIOUS
<1> HIDE DEF e
<1>3. \A i \in 1..HowMany[c] : slots'[c][i] = IF i = k THEN e ELSE slots[c][i]
  <2> DEFINE s == slots[c]
             u == slots'[c]
  <2>1. u = [s EXCEPT ![k] = e] /\ DOMAIN s = 1..HowMany[c]
    BY <1>1
  <2> HIDE DEF s, u
  <2>2. \A i \in 1..HowMany[c] : u[i] = IF i = k THEN e ELSE s[i]
    BY <2>1
  <2> QED BY <2>2 DEF s, u
<1>4. OwnNext(c, n, counter[n])
  BY TakenIsOwn
<1>5. \A i \in 1..HowMany[c] :
        \/ slots'[c][i].contact = slots[c][i].contact /\ slots'[c][i].id = slots[c][i].id
        \/ OwnNext(c, slots'[c][i].contact, slots'[c][i].id)
  BY <1>2, <1>3, <1>4
<1> QED BY <1>5, IdleHolds

(* ... on the own node, ...                                                *)
LEMMA MatchLocalHolds ==
  ASSUME GoodStep, NEW c \in Calls, HoldsAll(c), MatchLocal(c)
  PROVE  HoldsAll(c)'
<1>1. Funs /\ pc[c] = "local" /\ Home[c] \in Nodes
  BY CallFacts, CreateAssumption DEF GoodStep, NInv, MatchLocal, At
<1>2. ASSUME NEW l \in {"search", "kill", "check"}, Jump(c, l)
      PROVE  HoldsAll(c)'
  <2>1. pc'[c] = l /\ slots'[c] = slots[c] /\ made'[c] = made[c]
    BY <1>1, <1>2, JumpIs
  <2> QED BY <2>1, IdleHolds DEF Launching
<1>3. ASSUME Goto(c, "search"), UNCHANGED <<slots, made>>
      PROVE  HoldsAll(c)'
  <2>1. pc'[c] = "search"
    BY <1>1, <1>3 DEF Goto, Funs
  <2> QED BY <1>3, <2>1, IdleHolds DEF Launching
<1>4. ASSUME NEW id, MatchAndReserve(Home[c], c, Require[c], Minimum[c], id), id # 0,
             slots' = [slots EXCEPT ![c][cursor[c]] =
                   [contact |-> Home[c], id |-> id, flops |-> Grant(Home[c], Require[c])]],
             UNCHANGED <<pc, made>>
      PROVE  HoldsAll(c)'
  <2>1. id = counter[Home[c]] /\ Takes(Home[c], c, NoApp)
    BY <1>4 DEF MatchAndReserve, Takes, Reservation
  <2>2. pc'[c] \notin Launching /\ made'[c] = made[c]
    BY <1>1, <1>4 DEF Launching
  <2> HIDE DEF Grant
  <2> QED BY <1>1, <1>4, <2>1, <2>2, GrantHolds
<1>5. \/ \E l \in {"search", "kill", "check"} : Jump(c, l)
      \/ Goto(c, "search") /\ UNCHANGED <<slots, made>>
      \/ \E id : /\ MatchAndReserve(Home[c], c, Require[c], Minimum[c], id) /\ id # 0
                 /\ slots' = [slots EXCEPT ![c][cursor[c]] =
                      [contact |-> Home[c], id |-> id, flops |-> Grant(Home[c], Require[c])]]
                 /\ UNCHANGED <<pc, made>>
  <2> HIDE DEF Grant, MatchAndReserve, Jump, Goto
  <2> QED BY DEF MatchLocal
<1> HIDE DEF Grant, MatchAndReserve, Jump, Goto, HoldsAll
<1> QED BY <1>2, <1>3, <1>4, <1>5

(* ... or on another, ...                                                  *)
LEMMA ReserveRemoteHolds ==
  ASSUME GoodStep, NEW c \in Calls, HoldsAll(c), ReserveRemote(c)
  PROVE  HoldsAll(c)'
<1> DEFINE n == responses[c][turn[c]]
<1>1. Funs /\ pc[c] = "reserve"
  BY CallFacts DEF GoodStep, NInv, ReserveRemote, At
<1>2. n \in Nodes
  <2>1. responses[c] \in Seq(Nodes) /\ turn[c] \in 1..Len(responses[c])
    BY <1>1, CallFacts DEF GoodStep, NInv, CallTypes, Way
  <2> QED BY <2>1, ElementOfSeq
<1>3. ASSUME Jump(c, "kill")
      PROVE  HoldsAll(c)'
  <2>1. pc'[c] = "kill" /\ slots'[c] = slots[c] /\ made'[c] = made[c]
    BY <1>1, <1>3, JumpIs
  <2> QED BY <2>1, IdleHolds DEF Launching
<1>4. ASSUME NEW id, Reserve(n, c, AppOf[c], Require[c], id), UNCHANGED made,
             IF id = 0
             THEN /\ IF failed[c] + 1 = Len(responses[c])
                     THEN Goto(c, "kill") ELSE UNCHANGED pc
                  /\ UNCHANGED slots
             ELSE /\ slots' = [slots EXCEPT ![c][cursor[c]] =
                       [contact |-> n, id |-> id, flops |-> Grant(n, Require[c])]]
                  /\ IF cursor[c] = HowMany[c] THEN Goto(c, "check") ELSE UNCHANGED pc
      PROVE  HoldsAll(c)'
  <2>1. pc'[c] \notin Launching
    <3>1. pc'[c] \in {"reserve", "kill", "check"}
      BY <1>1, <1>4 DEF Goto, Funs
    <3> QED BY <3>1 DEF Launching
  <2>2. CASE id = 0
    BY <1>4, <2>1, <2>2, IdleHolds
  <2>3. CASE id # 0
    <3>1. id = counter[n] /\ Takes(n, c, AppOf[c])
      BY <1>4, <2>3 DEF Reserve, Takes, Reservation
    <3>2. AppOf[c] \in Apps \cup {NoApp}
      BY CreateAssumption
    <3>3. slots' = [slots EXCEPT ![c][cursor[c]] =
                      [contact |-> n, id |-> id, flops |-> Grant(n, Require[c])]]
      BY <1>4, <2>3
    <3> HIDE DEF Grant, n
    <3> QED BY <1>2, <1>4, <2>1, <3>1, <3>2, <3>3, GrantHolds
  <2> QED BY <2>2, <2>3
<1> HIDE DEF Grant, Reserve, Jump, Goto, HoldsAll
<1> QED BY <1>3, <1>4 DEF ReserveRemote

(* ... and a launch takes its batch from them.                             *)
LEMMA ExecHolds ==
  ASSUME GoodStep, NEW c \in Calls, HoldsAll(c), Exec(c)
  PROVE  HoldsAll(c)'
<1> DEFINE B == {i \in Places(c) : slots[c][i].contact = Contact(c)}
<1>1. Funs /\ CallTypes(c) /\ Way(c) /\ pc[c] = "exec" /\ cursor[c] > 0 /\ made' = made
  BY CallFacts DEF GoodStep, NInv, Exec, At, Way
<1>2. ASSUME Goto(c, "attempt"), UNCHANGED slots
      PROVE  HoldsAll(c)'
  <2>1. pc'[c] = "attempt"
    BY <1>1, <1>2 DEF Goto, Funs
  <2> QED BY <1>1, <1>2, <2>1, IdleHolds DEF Launching
<1>3. ASSUME Places(c) # {},
             batch' = [batch EXCEPT ![c] = B],
             slots' = [slots EXCEPT ![c] = [i \in 1..HowMany[c] |->
                         IF i \in batch'[c] /\ i # First(c) THEN [@[i] EXCEPT !.contact = None]
                                                            ELSE @[i]]],
             got' = [got EXCEPT ![c] = {}],
             \/ Goto(c, "code") /\ cursor' = [cursor EXCEPT ![c] = First(c)]
             \/ UNCHANGED pc
      PROVE  HoldsAll(c)'
  <2>1. batch'[c] = B /\ got'[c] = {}
    BY <1>1, <1>3 DEF Funs
  <2>2. /\ First(c) \in B /\ B \subseteq 1..HowMany[c]
        /\ \A i \in B : slots[c][i].contact = Contact(c) /\ slots[c][i].contact # None
    BY <1>1, <1>3, FirstFacts DEF Contact, Places
  <2>3. \A i \in 1..HowMany[c] :
          slots'[c][i] = IF i \in B /\ i # First(c) THEN [slots[c][i] EXCEPT !.contact = None]
                                                    ELSE slots[c][i]
    <3>1. slots'[c] = [i \in 1..HowMany[c] |->
             IF i \in batch'[c] /\ i # First(c) THEN [slots[c][i] EXCEPT !.contact = None]
                                                ELSE slots[c][i]]
      BY <1>1, <1>3 DEF Funs
    <3> HIDE DEF B
    <3> QED BY <2>1, <3>1
  <2>4. \A i \in 1..HowMany[c] : /\ slots'[c][i].id = slots[c][i].id
                                 /\ slots'[c][i].contact \in {slots[c][i].contact, None}
    <3>1. ASSUME NEW r \in Slot
          PROVE  /\ [r EXCEPT !.contact = None].id = r.id
                 /\ [r EXCEPT !.contact = None].contact = None
      BY DEF Slot
    <3>2. \A i \in 1..HowMany[c] : slots[c][i] \in Slot
      BY <1>1, SlotFacts
    <3> HIDE DEF B
    <3> QED BY <2>3, <3>1, <3>2
  <2> HIDE DEF B
  <2>5. CASE UNCHANGED pc
    BY <1>1, <2>4, <2>5, IdleHolds DEF Launching
  <2>6. CASE Goto(c, "code") /\ cursor' = [cursor EXCEPT ![c] = First(c)]
    <3>1. pc'[c] = "code" /\ cursor'[c] = First(c)
      BY <1>1, <2>6 DEF Goto, Funs
    <3>2. OwnPlaces(c)'
      BY <2>4, PlacesStay DEF HoldsAll
    <3>3. HeldMade(c)'
      BY <1>1, MadeStays DEF HoldsAll
    <3>4. HeldBatch(c)'
      BY <2>1 DEF HeldBatch
    <3>5. Host(c)' = Contact(c)
      <4>1. slots'[c][First(c)] = slots[c][First(c)]
        BY <2>2, <2>3
      <4> QED BY <3>1, <4>1 DEF Host, Contact
    <3>6. ASSUME NEW i \in B
          PROVE  OwnNext(c, Contact(c), slots[c][i].id)
      <4>1. i \in 1..HowMany[c] /\ slots[c][i].contact = Contact(c) /\ slots[c][i].contact # None
        BY <2>2
      <4>2. slots[c][i].contact \in Nodes /\ slots[c][i].id \in Int
        BY <4>1, CallFacts DEF GoodStep, NInv
      <4>3. Own(c, slots[c][i].contact, slots[c][i].id)
        BY <4>1 DEF HoldsAll, OwnPlaces
      <4>4. OwnNext(c, slots[c][i].contact, slots[c][i].id)
        BY <4>2, <4>3, OwnStays
      <4> QED BY <4>1, <4>4
    <3>7. OwnBatch(c)'
      <4>1. \A i \in B : slots'[c][i].id = slots[c][i].id
        BY <2>2, <2>4
      <4> QED BY <2>1, <3>5, <3>6, <4>1 DEF OwnBatch, Own, OwnNext
    <3> QED BY <3>2, <3>3, <3>4, <3>7 DEF HoldsAll
  <2> QED BY <1>3, <2>5, <2>6
<1>4. \/ Goto(c, "attempt") /\ UNCHANGED slots
      \/ /\ Places(c) # {} /\ batch' = [batch EXCEPT ![c] = B]
         /\ slots' = [slots EXCEPT ![c] = [i \in 1..HowMany[c] |->
                         IF i \in batch'[c] /\ i # First(c) THEN [@[i] EXCEPT !.contact = None]
                                                            ELSE @[i]]]
         /\ got' = [got EXCEPT ![c] = {}]
         /\ \/ Goto(c, "code") /\ cursor' = [cursor EXCEPT ![c] = First(c)]
            \/ UNCHANGED pc
  <2> HIDE DEF Goto, Places, First, VerifyReservation
  <2> QED BY DEF Exec
<1> HIDE DEF HoldsAll, Goto, B
<1> QED BY <1>2, <1>3, <1>4

(* A batch that fails leaves its places to later.                          *)
LEMMA FailsHolds ==
  ASSUME GoodStep, NEW c \in Calls, HoldsAll(c), ExecFails(c) \/ ExecThrows(c)
  PROVE  HoldsAll(c)'
<1>1. Funs
  BY CallFacts DEF GoodStep, NInv
<1>2. pc'[c] = "exec" /\ slots'[c] = slots[c] /\ made'[c] = made[c]
  BY <1>1 DEF ExecFails, ExecThrows, NextPlace, Goto, Funs
<1> QED BY <1>2, IdleHolds DEF Launching

(* The code is there and the process is, and nobody has reported.          *)
LEMMA LaunchStepHolds ==
  ASSUME GoodStep, NEW c \in Calls, HoldsAll(c), QueryCode(c) \/ Launch(c)
  PROVE  HoldsAll(c)'
<1>1. Funs /\ pc[c] \in Launching
  BY CallFacts DEF GoodStep, NInv, QueryCode, Launch, At, Launching
<1>2. CASE ExecFails(c)
  BY <1>2, FailsHolds
<1>3. ASSUME UNCHANGED <<slots, cursor, batch, got, made>>
      PROVE  HoldsAll(c)'
  BY <1>1, <1>3, LaunchHolds
<1> QED BY <1>2, <1>3 DEF QueryCode, Launch, Jump

(* The reservation of an object that reports is its call's, and held.      *)
LEMMA ValidatedKeeps ==
  ASSUME GoodStep, NEW c \in Calls, NEW n \in Nodes, NEW id, Own(c, n, id),
         ValidateReservation(n, id)
  PROVE  KeepsNext(c, n, id)
<1>1. LedgerTypeOK /\ jobs[n] \in Seq(Resources) /\ DOMAIN jobs = Nodes
  BY DEF GoodStep, NInv, TInv, CreateTypeOK, LedgerTypeOK
<1>2. PICK k \in 1..Len(jobs[n]) : Holds(n, k) /\ jobs[n][k].Id = id
  BY <1>1, ValidateWrites
<1>3. jobs'[n] = HeldAt(jobs[n], k)
  BY <1>1, <1>2 DEF Holds
<1>4. jobs[n][k] \in ToSet(jobs[n])
  BY <1>1, LenProperties DEF ToSet
<1>5. jobs[n][k].by = c
  BY <1>2, <1>4 DEF Own
<1>6. \E u \in ToSet(HeldAt(jobs[n], k)) : u.Id = jobs[n][k].Id /\ u.by = jobs[n][k].by /\ u.held
  BY <1>1, HeldEntries
<1> QED BY <1>2, <1>3, <1>5, <1>6 DEF KeepsNext

(* So an object that has reported has its reservation, and so have all     *)
(* that the call counts.                                                   *)
LEMMA ReceiveHolds ==
  ASSUME GoodStep, NEW c \in Calls, HoldsAll(c), Receive(c)
  PROVE  HoldsAll(c)'
<1> DEFINE id == slots[c][NextSlot(c)].id
<1>1. /\ Funs /\ CallTypes(c) /\ Way(c) /\ pc[c] = "receive" /\ pc[c] \in Launching
      /\ Host(c) \in Nodes /\ batch[c] \subseteq 1..HowMany[c]
  BY CallFacts DEF GoodStep, NInv, Receive, At, Launching
<1>2. CASE ExecFails(c)
  BY <1>2, FailsHolds
<1>3. NextSlot(c) \in batch[c]
  BY <1>1, NextFacts
<1>4. ASSUME ValidateReservation(Host(c), id), got' = [got EXCEPT ![c] = @ \cup {NextSlot(c)}]
      PROVE  /\ KeepsNext(c, Host(c), id) /\ got'[c] = got[c] \cup {NextSlot(c)}
             /\ \A i \in got'[c] : i \in got[c] \/ KeepsNext(c, Host(c), slots[c][i].id)
  <2>1. Own(c, Host(c), id)
    BY <1>1, <1>3 DEF HoldsAll, OwnBatch
  <2>2. KeepsNext(c, Host(c), id)
    BY <1>1, <1>4, <2>1, ValidatedKeeps
  <2>3. got'[c] = got[c] \cup {NextSlot(c)}
    BY <1>1, <1>4 DEF Funs
  <2> QED BY <2>2, <2>3
<1>5. ASSUME ValidateReservation(Host(c), id), got' = [got EXCEPT ![c] = @ \cup {NextSlot(c)}],
             UNCHANGED <<slots, cursor, batch, made>>
      PROVE  HoldsAll(c)'
  BY <1>1, <1>4, <1>5, LaunchHolds
<1>6. ASSUME ValidateReservation(Host(c), id), got' = [got EXCEPT ![c] = @ \cup {NextSlot(c)}],
             got'[c] = batch[c], NextPlace(c), made' = [made EXCEPT ![c] = @ \cup Launched(c)],
             UNCHANGED <<slots, batch>>
      PROVE  HoldsAll(c)'
  <2>1. pc'[c] = "exec"
    BY <1>1, <1>6 DEF NextPlace, Goto, Funs
  <2>2. OwnPlaces(c)'
    BY <1>6, PlacesStay DEF HoldsAll
  <2>3. \A i \in batch[c] : KeepsNext(c, Host(c), slots[c][i].id)
    <3>1. \A i \in got[c] : Keeps(c, Host(c), slots[c][i].id)
      BY <1>1 DEF HoldsAll, HeldBatch
    <3> QED BY <1>1, <1>4, <1>6, <3>1, KeepsStays
  <2>4. made'[c] = made[c] \cup Launched(c)
    BY <1>1, <1>6 DEF Funs
  <2>5. \A p \in Launched(c) : \A x \in p.ids : KeepsNext(c, p.node, x)
    BY <2>3 DEF Launched, Ids
  <2>6. HeldMade(c)'
    BY <2>4, <2>5, MadeStays DEF HoldsAll
  <2> QED BY <2>1, <2>2, <2>6 DEF HoldsAll, OwnBatch, HeldBatch, Launching
<1>7. \/ ExecFails(c)
      \/ /\ ValidateReservation(Host(c), id) /\ got' = [got EXCEPT ![c] = @ \cup {NextSlot(c)}]
         /\ \/ UNCHANGED <<slots, cursor, batch, made>>
            \/ /\ got'[c] = batch[c] /\ NextPlace(c)
               /\ made' = [made EXCEPT ![c] = @ \cup Launched(c)]
               /\ UNCHANGED <<slots, batch>>
  <2> HIDE DEF Launched, NextPlace, NextSlot, ExecFails, ValidateReservation
  <2> QED BY DEF Receive
<1> HIDE DEF HoldsAll, Launched, NextPlace, NextSlot, ExecFails, id, ValidateReservation
<1> QED BY <1>2, <1>5, <1>6, <1>7

(* A step of any call keeps what all have.                                 *)
LEMMA AllHold ==
  ASSUME GoodStep, \A c \in Calls : HoldsAll(c)
  PROVE  \A c \in Calls : HoldsAll(c)'
<1>1. Funs
  BY TypesSplit DEF GoodStep, NInv, TInv
<1>2. CASE UNCHANGED <<callVars, processes>>
  <2>1. \A d \in Calls : Still(d)
    BY <1>2 DEF callVars, Still
  <2> QED BY <2>1, StillHolds
<1>3. ASSUME NEW c \in Calls, OfCall(c), Only(c), NEW d \in Calls
      PROVE  HoldsAll(d)'
  <2>1. CASE d # c
    BY <1>3, <2>1, StillHolds DEF Only
  <2>2. CASE d = c
    <3>1. HoldsAll(c)'
      BY <1>3, ReturnHolds, DiscoveryHolds, MatchLocalHolds, ReserveRemoteHolds, ExecHolds,
         FailsHolds, LaunchStepHolds, ReceiveHolds DEF OfCall, CallStep
    <3> QED BY <2>2, <3>1
  <2> QED BY <2>1, <2>2
<1> QED BY <1>1, <1>2, <1>3, OneCall DEF GoodStep

(* For any number of calls, nodes and applications, whatever fails, is     *)
(* cancelled late or twice, or ends: the reservation of an object that its *)
(* call has counted stays in the ledger of its node, held, as long as its  *)
(* application and the manager live.                                       *)
THEOREM ObjectsKeepTheirPower ==
  ASSUME MayStop = {}, MaxId > 1
  PROVE  Spec /\ NumbersGrow => []RunningHolds
<1> DEFINE I == NInv /\ \A c \in Calls : HoldsAll(c)
<1>1. CreateInit => I
  <2> SUFFICES ASSUME CreateInit
               PROVE  I
    OBVIOUS
  <2>1. NInv
    BY NumbersInit
  <2>2. ASSUME NEW c \in Calls
        PROVE  HoldsAll(c)
    <3>1. pc[c] = "attempt" /\ made[c] = {} /\ \A i \in 1..HowMany[c] : slots[c][i].contact = None
      BY DEF CreateInit, NoSlot
    <3> QED BY <3>1 DEF HoldsAll, OwnPlaces, OwnBatch, HeldBatch, HeldMade, Launching
  <2> QED BY <2>1, <2>2
<1>2. I /\ [Next]_createVars /\ [Grow]_counter => I'
  <2> SUFFICES ASSUME I, [Next]_createVars, [Grow]_counter
               PROVE  I'
    OBVIOUS
  <2>1. NInv'
    BY NumbersHold
  <2>2. GoodStep
    BY <2>1, LedgerWriters DEF GoodStep, NInv
  <2> QED BY <2>1, <2>2, AllHold
<1>3. I => RunningHolds
  BY DEF RunningHolds, HoldsAll, HeldMade, Keeps
<1> QED BY <1>1, <1>2, <1>3, PTL DEF Spec, NumbersGrow

-----------------------------------------------------------------------------
(* All or nothing.                                                         *)

(* A step that gives no number twice.                                      *)
LiveStep ==
  /\ TInv /\ TInv' /\ LedgerStep /\ [Next]_createVars
  /\ MaxId > 1 /\ [Grow]_counter

(* The next number only grows.                                             *)
LEMMA NumbersRise ==
  ASSUME LiveStep, NEW n \in Nodes
  PROVE  counter[n] \in Int /\ counter'[n] \in Int /\ counter[n] <= counter'[n]
<1>1. counter[n] \in Int /\ counter'[n] \in Int
  BY DEF LiveStep, TInv, CreateTypeOK, LedgerTypeOK
<1>2. UNCHANGED counter \/ Grow
  BY DEF LiveStep
<1> QED BY <1>1, <1>2 DEF Grow

(* A number that is given is below the next one.                           *)
LEMMA NumberTaken ==
  ASSUME LiveStep, NEW c \in Calls, NEW n \in Nodes, NEW a \in Apps \cup {NoApp}, Takes(n, c, a)
  PROVE  counter[n] < counter'[n]
<1>1. LedgerTypeOK /\ available[n] >= 0 /\ counter[n] \in 1..MaxId /\ MaxId \in Nat /\ MaxId > 1
  BY LedgerAssumption DEF LiveStep, TInv, CreateTypeOK, LedgerTypeOK
<1>2. counter'[n] = (counter[n] % MaxId) + 1
  BY <1>1, TakesFacts
<1>3. counter'[n] = IF counter[n] = MaxId THEN 1 ELSE counter[n] + 1
  BY <1>1, <1>2, NextNumber
<1> QED BY <1>1, <1>3, NumbersRise

(* The objects of a call are on nodes and have numbers.                    *)
LEMMA ObjectFacts ==
  ASSUME TInv, NEW c \in Calls
  PROVE  \A x \in Objects(c) : x[1] \in Nodes /\ x[2] \in Int
<1>1. made[c] \subseteq Process
  BY CallFacts DEF CallTypes
<1>2. \A p \in made[c] : p.node \in Nodes /\ p.ids \subseteq Int
  BY <1>1 DEF Process
<1> QED BY <1>2 DEF Objects

(* Places that are as before have their own numbers.                       *)
LEMMA PlacesKeep ==
  ASSUME LiveStep, NEW c \in Calls, PlaceIds(c),
         \A i \in 1..HowMany[c] : slots'[c][i].contact # None =>
           slots'[c][i].contact = slots[c][i].contact /\ slots'[c][i].id = slots[c][i].id
  PROVE  PlaceIds(c)'
<1>1. \A i \in 1..HowMany[c] : slots[c][i].contact \in Nodes \cup {None} /\ slots[c][i].id \in Int
  BY CallFacts DEF LiveStep
<1>2. ASSUME NEW i \in 1..HowMany[c], slots'[c][i].contact # None
      PROVE  slots'[c][i].id < counter'[slots'[c][i].contact]
  <2>1. slots[c][i].contact \in Nodes /\ slots[c][i].id \in Int
    BY <1>1, <1>2
  <2>2. slots[c][i].id < counter[slots[c][i].contact]
    BY <1>2 DEF PlaceIds
  <2>3. /\ counter[slots[c][i].contact] \in Int /\ counter'[slots[c][i].contact] \in Int
        /\ counter[slots[c][i].contact] <= counter'[slots[c][i].contact]
    BY <2>1, NumbersRise
  <2> QED BY <1>2, <2>1, <2>2, <2>3
<1>3. ASSUME NEW i \in 1..HowMany[c], NEW j \in 1..HowMany[c], i # j,
             slots'[c][i].contact # None, slots'[c][i].contact = slots'[c][j].contact
      PROVE  slots'[c][i].id # slots'[c][j].id
  BY <1>3 DEF PlaceIds
<1> QED BY <1>2, <1>3 DEF PlaceIds

(* Objects that are as before have theirs.                                 *)
LEMMA ObjectsKeep ==
  ASSUME LiveStep, NEW c \in Calls, ObjectIds(c), made'[c] = made[c],
         \A i \in 1..HowMany[c] : Pending(c, i)' =>
           /\ Pending(c, i)
           /\ slots'[c][i].contact = slots[c][i].contact /\ slots'[c][i].id = slots[c][i].id
  PROVE  ObjectIds(c)'
<1>1. Objects(c)' = Objects(c)
  BY DEF Objects
<1>2. ASSUME NEW x \in Objects(c)
      PROVE  x[2] < counter'[x[1]]
  <2>1. x[1] \in Nodes /\ x[2] \in Int
    BY ObjectFacts DEF LiveStep
  <2>2. x[2] < counter[x[1]]
    BY DEF ObjectIds
  <2>3. counter[x[1]] \in Int /\ counter'[x[1]] \in Int /\ counter[x[1]] <= counter'[x[1]]
    BY <2>1, NumbersRise
  <2> QED BY <2>1, <2>2, <2>3
<1>3. ASSUME NEW i \in 1..HowMany[c], Pending(c, i)'
      PROVE  <<slots'[c][i].contact, slots'[c][i].id>> \notin Objects(c)
  BY <1>3 DEF ObjectIds
<1> QED BY <1>1, <1>2, <1>3 DEF ObjectIds

(* A batch that is launched on has its own, and is counted as before.      *)
LEMMA BatchKeeps ==
  ASSUME LiveStep, NEW c \in Calls, Whole(c), pc[c] \in Launching, pc'[c] \in Launching,
         slots'[c] = slots[c], cursor'[c] = cursor[c], batch'[c] = batch[c],
         made'[c] = made[c], count'[c] = count[c]
  PROVE  PlaceIds(c)' /\ ObjectIds(c)' /\ BatchIds(c)' /\ Counts(c)'
<1>1. PlaceIds(c)'
  BY PlacesKeep DEF Whole
<1>2. ObjectIds(c)'
  <2>1. \A i \in 1..HowMany[c] : Pending(c, i)' => Pending(c, i)
    BY DEF Pending, Reserving, Launching
  <2> QED BY <2>1, ObjectsKeep DEF Whole
<1>3. Objects(c)' = Objects(c) /\ Host(c)' = Host(c) /\ Places(c)' = Places(c)
  BY DEF Objects, Host, Places
<1>4. BatchIds(c)'
  <2>1. /\ Host(c) \in Nodes /\ batch[c] \subseteq 1..HowMany[c]
        /\ \A i \in 1..HowMany[c] : slots[c][i].id \in Int
    BY CallFacts DEF LiveStep
  <2>2. /\ counter[Host(c)] \in Int /\ counter'[Host(c)] \in Int
        /\ counter[Host(c)] <= counter'[Host(c)]
    BY <2>1, NumbersRise
  <2>3. \A i \in batch[c] : slots[c][i].id < counter[Host(c)] /\ slots[c][i].id \in Int
    BY <2>1 DEF Whole, BatchIds
  <2>4. \A i \in batch[c] : slots[c][i].id < counter'[Host(c)]
    BY <2>2, <2>3
  <2>5. /\ \A i \in batch[c] : /\ <<Host(c), slots[c][i].id>> \notin Objects(c)
                               /\ i # cursor[c] => slots[c][i].contact = None
        /\ \A i, j \in batch[c] : i # j => slots[c][i].id # slots[c][j].id
        /\ \A j \in 1..HowMany[c] : j > cursor[c] => slots[c][j].contact # Host(c)
    BY DEF Whole, BatchIds
  <2> QED BY <1>3, <2>4, <2>5 DEF BatchIds
<1>5. Counts(c)'
  <2>1. pc'[c] # "exec"
    BY DEF Launching
  <2> QED BY <1>3, <2>1 DEF Whole, Counts
<1> QED BY <1>1, <1>2, <1>4, <1>5

(* A call that has no batch is counted as before, too.                     *)
LEMMA IdleKeeps ==
  ASSUME LiveStep, NEW c \in Calls, Whole(c), pc'[c] \notin Launching \cup {"exec"},
         made'[c] = made[c], count'[c] = count[c],
         \A i \in 1..HowMany[c] : slots'[c][i].contact # None =>
           /\ slots'[c][i].contact = slots[c][i].contact /\ slots'[c][i].id = slots[c][i].id
           /\ pc'[c] \in Reserving => pc[c] \in Reserving
  PROVE  PlaceIds(c)' /\ ObjectIds(c)' /\ BatchIds(c)' /\ Counts(c)'
<1>1. PlaceIds(c)'
  BY PlacesKeep DEF Whole
<1>2. ObjectIds(c)'
  <2>1. ASSUME NEW i \in 1..HowMany[c], Pending(c, i)'
        PROVE  /\ Pending(c, i)
               /\ slots'[c][i].contact = slots[c][i].contact /\ slots'[c][i].id = slots[c][i].id
    BY <2>1 DEF Pending
  <2> QED BY <2>1, ObjectsKeep DEF Whole
<1>3. BatchIds(c)'
  BY DEF BatchIds
<1>4. Counts(c)'
  <2>1. Objects(c)' = Objects(c)
    BY DEF Objects
  <2> QED BY <2>1 DEF Whole, Counts
<1> QED BY <1>1, <1>2, <1>3, <1>4

(* A job manager that is gone stays away.                                  *)
LEMMA ManagersFall ==
  ASSUME LiveStep
  PROVE  \A p \in processes : managerUp'[p.node] => managerUp[p.node]
<1>1. managerUp \in [Nodes -> BOOLEAN] /\ processes \subseteq Process
  BY DEF LiveStep, TInv, CreateTypeOK, LedgerTypeOK
<1>2. \A p \in processes : p.node \in Nodes
  BY <1>1 DEF Process
<1>3. UNCHANGED managerUp \/ \E n : managerUp' = [managerUp EXCEPT ![n] = FALSE]
  <2>1. CASE UNCHANGED createVars
    BY <2>1 DEF createVars, nodeVars
  <2>2. ASSUME NEW c \in Calls, CallStep(c)
        PROVE  UNCHANGED managerUp \/ \E n : managerUp' = [managerUp EXCEPT ![n] = FALSE]
    <3>1. CASE Attempt(c) \/ MatchLocal(c) \/ StartDiscovery(c) \/ EndDiscovery(c)
      BY <3>1 DEF Attempt, MatchLocal, StartDiscovery, EndDiscovery, Jump, Return, nodeVars
    <3>2. CASE ReserveRemote(c) \/ Check(c) \/ KillObjects(c) \/ ExecThrows(c)
      BY <3>2 DEF ReserveRemote, Check, KillObjects, ExecThrows, Jump, Return, nodeVars
    <3>3. CASE QueryCode(c) \/ Launch(c) \/ Receive(c)
      BY <3>3 DEF QueryCode, Launch, Receive, ExecFails, Jump, nodeVars
    <3>4. CASE Exec(c)
      BY <3>4 DEF Exec
    <3> QED BY <2>2, <3>1, <3>2, <3>3, <3>4 DEF CallStep
  <2>3. ASSUME NEW c \in Calls, NEW n \in Nodes, Respond(c, n)
        PROVE  UNCHANGED managerUp
    BY <2>3 DEF Respond, nodeVars
  <2>4. ASSUME NEW m \in cancels, CancelReservation(m)
        PROVE  UNCHANGED managerUp
    BY <2>4 DEF CancelReservation
  <2>5. ASSUME NEW a \in Apps, NEW n \in Nodes, AppEnds(a) \/ EndReaches(n, a) \/ EndStep(n, a)
        PROVE  UNCHANGED managerUp
    BY <2>5 DEF AppEnds, EndReaches, EndStep, ApplicationEnd, ReadAvailable, SendAvailable, nodeVars
  <2>6. ASSUME NEW a \in Apps, AppEnds(a)
        PROVE  UNCHANGED managerUp
    BY <2>6 DEF AppEnds, nodeVars
  <2>7. ASSUME NEW n \in Nodes, StopSearch(n)
        PROVE  UNCHANGED managerUp
    BY <2>7 DEF StopSearch, SearchNodeStops
  <2> QED BY <2>1, <2>2, <2>3, <2>4, <2>5, <2>6, <2>7 DEF LiveStep, Next
<1> QED BY <1>1, <1>2, <1>3

(* The processes of a call that launches none live on.                     *)
LEMMA IdleLives ==
  ASSUME LiveStep, NEW c \in Calls, Lives(c), pc[c] \notin {"failed", "receive"},
         pc'[c] \notin {"done", "failed", "receive"}, made'[c] = made[c], processes' = processes
  PROVE  Lives(c)'
BY ManagersFall DEF Lives

(* The processes of other calls are not touched, ...                       *)
LEMMA OtherProcesses ==
  ASSUME TInv, NEW c \in Calls, OfCall(c), Lives(c)
  PROVE  \A p : p.call # c => (p \in processes' <=> p \in processes)
<1>1. CASE UNCHANGED processes
  BY <1>1
<1>2. CASE processes' = processes \ made[c]
  BY <1>2 DEF Lives
<1>3. CASE processes' = processes \ Launched(c)
  BY <1>3 DEF Launched
<1>4. CASE processes' = processes \cup {[call |-> c, node |-> Host(c), ids |-> Ids(c)]}
  BY <1>4
<1>5. \/ UNCHANGED processes \/ processes' = processes \ made[c]
      \/ processes' = processes \ Launched(c)
      \/ processes' = processes \cup {[call |-> c, node |-> Host(c), ids |-> Ids(c)]}
  <2>1. CASE Attempt(c) \/ MatchLocal(c) \/ StartDiscovery(c) \/ EndDiscovery(c)
    BY <2>1 DEF Attempt, MatchLocal, StartDiscovery, EndDiscovery, Jump
  <2>2. CASE ReserveRemote(c) \/ Check(c) \/ Exec(c) \/ KillObjects(c) \/ ExecThrows(c)
    BY <2>2 DEF ReserveRemote, Check, Exec, KillObjects, ExecThrows, Jump
  <2>3. CASE QueryCode(c) \/ Launch(c) \/ Receive(c)
    BY <2>3 DEF QueryCode, Launch, Receive, ExecFails, Jump
  <2>4. CASE \E n \in Nodes : Respond(c, n)
    BY <2>4 DEF Respond
  <2> QED BY <2>1, <2>2, <2>3, <2>4 DEF OfCall, CallStep
<1> QED BY <1>1, <1>2, <1>3, <1>4, <1>5

(* ... so the other calls keep all or nothing.                             *)
LEMMA StillWhole ==
  ASSUME LiveStep, NEW d \in Calls, Whole(d), Still(d),
         \A p : p.call = d => (p \in processes' <=> p \in processes)
  PROVE  Whole(d)'
<1>1. PlaceIds(d)' /\ ObjectIds(d)' /\ BatchIds(d)' /\ Counts(d)'
  <2>1. CASE pc[d] \in Launching
    BY <2>1, BatchKeeps DEF Still
  <2>2. CASE pc[d] \notin Launching
    <3>1. PlaceIds(d)'
      BY PlacesKeep DEF Still, Whole
    <3>2. \A i \in 1..HowMany[d] : Pending(d, i)' => Pending(d, i)
      BY DEF Pending, Still
    <3>3. ObjectIds(d)'
      BY <3>2, ObjectsKeep DEF Still, Whole
    <3>4. BatchIds(d)'
      BY <2>2 DEF Still, BatchIds
    <3>5. Objects(d)' = Objects(d) /\ Places(d)' = Places(d)
      BY DEF Objects, Places, Still
    <3>6. Counts(d)'
      BY <2>2, <3>5 DEF Still, Whole, Counts
    <3> QED BY <3>1, <3>3, <3>4, <3>6
  <2> QED BY <2>1, <2>2
<1>2. Lives(d)'
  <2>1. Host(d)' = Host(d) /\ Ids(d)' = Ids(d)
    BY DEF Host, Ids, Still
  <2>2. \A p : p \in Launched(d)' <=> p \in Launched(d)
    BY <2>1 DEF Launched
  <2>3. LET p == [call |-> d, node |-> Host(d), ids |-> Ids(d)]
        IN  p.call = d /\ (p \in processes' <=> p \in processes)
    OBVIOUS
  <2>4. /\ \A p \in made[d] : p.call = d
        /\ pc[d] = "done" => count[d] = HowMany[d]
        /\ pc[d] # "failed" => made[d] \subseteq processes
        /\ pc[d] = "receive" => [call |-> d, node |-> Host(d), ids |-> Ids(d)] \in processes
        /\ \A p \in processes : p.call = d =>
             \/ pc[d] # "failed" /\ p \in made[d]
             \/ pc[d] = "receive" /\ p \in Launched(d)
             \/ ~managerUp[p.node]
    BY DEF Whole, Lives
  <2>5. pc[d] # "failed" => made[d] \subseteq processes'
    BY <2>4
  <2>6. pc[d] = "receive" => [call |-> d, node |-> Host(d), ids |-> Ids(d)] \in processes'
    BY <2>3, <2>4
  <2>7. \A p \in processes' : p.call = d =>
          \/ pc[d] # "failed" /\ p \in made[d]
          \/ pc[d] = "receive" /\ p \in Launched(d)
          \/ ~managerUp'[p.node]
    BY <2>4, ManagersFall
  <2> QED BY <2>1, <2>2, <2>4, <2>5, <2>6, <2>7 DEF Lives, Still
<1> QED BY <1>1, <1>2 DEF Whole

(* A call that jumps or returns, ...                                       *)
LEMMA JumpWhole ==
  ASSUME LiveStep, NEW c \in Calls, Whole(c), pc[c] \notin {"failed", "receive"},
         NEW l \in {"kill", "search", "check"}, Jump(c, l),
         l = "kill" \/ pc[c] \in Reserving
  PROVE  Whole(c)'
<1>1. Funs
  BY CallFacts DEF LiveStep
<1>2. /\ pc'[c] = l /\ slots'[c] = slots[c] /\ made'[c] = made[c] /\ count'[c] = count[c]
      /\ processes' = processes
  BY <1>1, JumpIs
<1>3. Lives(c)'
  BY <1>2, IdleLives DEF Whole
<1>4. PlaceIds(c)' /\ ObjectIds(c)' /\ BatchIds(c)' /\ Counts(c)'
  BY <1>2, IdleKeeps DEF Reserving, Launching
<1> QED BY <1>3, <1>4 DEF Whole

(* ... with all its objects, or with none, ...                             *)
LEMMA ReturnWhole ==
  ASSUME LiveStep, NEW c \in Calls, Whole(c), Attempt(c) \/ KillObjects(c)
  PROVE  Whole(c)'
<1>1. Funs /\ pc[c] \in {"attempt", "kill"}
  BY CallFacts DEF LiveStep, Attempt, KillObjects, At
<1>2. ASSUME NEW l \in {"done", "failed"}, Return(c, l)
      PROVE  /\ pc'[c] = l /\ made'[c] = made[c] /\ count'[c] = count[c]
             /\ PlaceIds(c)' /\ ObjectIds(c)' /\ BatchIds(c)' /\ Counts(c)'
  <2>1. /\ pc'[c] = l /\ slots'[c] = [i \in 1..HowMany[c] |-> NoSlot] /\ made'[c] = made[c]
        /\ count'[c] = count[c]
    BY <1>1, <1>2, ReturnIs
  <2>2. \A i \in 1..HowMany[c] : slots'[c][i].contact = None
    BY <2>1 DEF NoSlot
  <2>3. PlaceIds(c)' /\ ObjectIds(c)' /\ BatchIds(c)' /\ Counts(c)'
    BY <2>1, <2>2, IdleKeeps DEF Launching
  <2> QED BY <2>1, <2>3
<1>3. ASSUME count[c] >= HowMany[c], Return(c, "done"), UNCHANGED processes
      PROVE  Whole(c)'
  <2>1. count[c] = HowMany[c]
    <3>1. count[c] \in Int /\ HowMany[c] \in Int /\ count[c] <= HowMany[c]
      BY CallFacts, CreateAssumption DEF LiveStep, CallTypes, Whole, Counts
    <3> QED BY <1>3, <3>1
  <2>2. Lives(c)'
    BY <1>1, <1>2, <1>3, <2>1, ManagersFall DEF Whole, Lives
  <2> QED BY <1>2, <1>3, <2>2 DEF Whole
<1>4. ASSUME Return(c, "failed"), processes' = processes \ made[c]
      PROVE  Whole(c)'
  <2>1. Lives(c)'
    BY <1>1, <1>2, <1>4, ManagersFall DEF Whole, Lives
  <2> QED BY <1>2, <1>4, <2>1 DEF Whole
<1>5. ASSUME Jump(c, "kill")
      PROVE  Whole(c)'
  BY <1>1, <1>5, JumpWhole
<1>6. ASSUME Goto(c, IF Search[c] THEN "search" ELSE "local"),
             slots' = [slots EXCEPT ![c] = [i \in 1..HowMany[c] |-> NoSlot]],
             UNCHANGED <<made, count, processes>>
      PROVE  Whole(c)'
  <2>1. pc'[c] \in {"search", "local"}
    BY <1>1, <1>6 DEF Goto, Funs
  <2>2. slots'[c] = [i \in 1..HowMany[c] |-> NoSlot]
    BY <1>1, <1>6 DEF Funs
  <2>3. \A i \in 1..HowMany[c] : slots'[c][i].contact = None
    BY <2>2 DEF NoSlot
  <2>4. PlaceIds(c)' /\ ObjectIds(c)' /\ BatchIds(c)' /\ Counts(c)'
    BY <1>6, <2>1, <2>3, IdleKeeps DEF Launching
  <2>5. Lives(c)'
    BY <1>1, <1>6, <2>1, IdleLives DEF Whole
  <2> QED BY <2>4, <2>5 DEF Whole
<1> HIDE DEF Whole, Goto, Return
<1> QED BY <1>3, <1>4, <1>5, <1>6 DEF Attempt, KillObjects

(* ... one that waits for answers, ...                                     *)
LEMMA DiscoveryWhole ==
  ASSUME LiveStep, NEW c \in Calls, Whole(c),
         StartDiscovery(c) \/ EndDiscovery(c) \/ \E n \in Nodes : Respond(c, n)
  PROVE  Whole(c)'
<1>1. Funs /\ pc[c] \in {"search", "discover"} /\ pc[c] \in Reserving
  BY CallFacts DEF LiveStep, StartDiscovery, EndDiscovery, Respond, At, Reserving
<1>2. UNCHANGED <<slots, made, count, processes>>
  BY DEF StartDiscovery, EndDiscovery, Respond, Jump
<1>3. pc'[c] \in {"discover", "reserve", "kill"}
  BY <1>1 DEF StartDiscovery, EndDiscovery, Respond, Jump, Goto, At, Funs
<1>4. PlaceIds(c)' /\ ObjectIds(c)' /\ BatchIds(c)' /\ Counts(c)'
  BY <1>1, <1>2, <1>3, IdleKeeps DEF Launching
<1>5. Lives(c)'
  BY <1>1, <1>2, <1>3, IdleLives DEF Whole
<1> QED BY <1>4, <1>5 DEF Whole

(* As many places are launched as objects are missing, ...                 *)
LEMMA CheckWhole ==
  ASSUME LiveStep, NEW c \in Calls, Whole(c), Check(c)
  PROVE  Whole(c)'
<1>1. /\ Funs /\ pc[c] = "check" /\ pc[c] \in Reserving
      /\ UNCHANGED <<slots, made, count, processes>>
  BY CallFacts DEF LiveStep, Check, At, Reserving
<1>2. \/ pc'[c] = "kill"
      \/ pc'[c] = "exec" /\ cursor'[c] = count[c] + 1
  <2>1. DOMAIN pc = Calls /\ DOMAIN cursor = Calls
    BY <1>1 DEF Funs
  <2> QED BY <2>1 DEF Check, Goto
<1>3. Lives(c)'
  BY <1>1, <1>2, IdleLives DEF Whole
<1>4. CASE pc'[c] = "kill"
  <2>1. PlaceIds(c)' /\ ObjectIds(c)' /\ BatchIds(c)' /\ Counts(c)'
    BY <1>1, <1>4, IdleKeeps DEF Launching
  <2> QED BY <1>3, <2>1 DEF Whole
<1>5. CASE pc'[c] = "exec" /\ cursor'[c] = count[c] + 1
  <2>1. PlaceIds(c)'
    BY <1>1, PlacesKeep DEF Whole
  <2>2. \A i \in 1..HowMany[c] : Pending(c, i)' => Pending(c, i)
    BY <1>1, <1>5 DEF Pending
  <2>3. ObjectIds(c)'
    BY <1>1, <2>2, ObjectsKeep DEF Whole
  <2>4. BatchIds(c)'
    BY <1>5 DEF BatchIds, Launching
  <2>5. Counts(c)'
    <3>1. count[c] \in Nat /\ HowMany[c] \in Nat /\ count[c] <= HowMany[c]
      BY CallFacts, CreateAssumption DEF LiveStep, CallTypes, Whole, Counts
    <3>2. Places(c)' \in SUBSET (count[c] + 1 .. HowMany[c])
      BY <1>5, <1>1 DEF Places
    <3>3. /\ IsFiniteSet(count[c] + 1 .. HowMany[c])
          /\ Cardinality(count[c] + 1 .. HowMany[c]) = HowMany[c] - count[c]
      <4>1. count[c] + 1 \in Int /\ HowMany[c] \in Int
        BY <3>1
      <4>2. /\ IsFiniteSet(count[c] + 1 .. HowMany[c])
            /\ Cardinality(count[c] + 1 .. HowMany[c]) =
                 IF count[c] + 1 > HowMany[c] THEN 0 ELSE HowMany[c] - (count[c] + 1) + 1
        BY <4>1, FS_Interval
      <4> QED BY <3>1, <4>2
    <3>4. Cardinality(Places(c)') <= HowMany[c] - count[c] /\ Cardinality(Places(c)') \in Nat
      BY <3>2, <3>3, FS_Subset, FS_CardinalityType
    <3>5. count[c] + Cardinality(Places(c)') <= HowMany[c]
      BY <3>1, <3>4
    <3>6. Objects(c)' = Objects(c)
      BY <1>1 DEF Objects
    <3> QED BY <1>1, <1>5, <3>5, <3>6 DEF Whole, Counts, Launching
  <2> QED BY <1>3, <2>1, <2>3, <2>4, <2>5 DEF Whole
<1> QED BY <1>2, <1>4, <1>5

(* ... a place that is given has a number nobody had, ...                  *)
LEMMA GrantWhole ==
  ASSUME LiveStep, NEW c \in Calls, Whole(c), pc[c] \in Reserving,
         NEW n \in Nodes, NEW a \in Apps \cup {NoApp}, Takes(n, c, a), NEW k, NEW f,
         slots' = [slots EXCEPT ![c][k] = [contact |-> n, id |-> counter[n], flops |-> f]],
         pc'[c] \in Reserving \cup {"kill"}, UNCHANGED <<made, count, processes>>
  PROVE  Whole(c)'
<1> DEFINE e == [contact |-> n, id |-> counter[n], flops |-> f]
<1>1. slots'[c] = [slots[c] EXCEPT ![k] = e] /\ DOMAIN slots[c] = 1..HowMany[c]
  <2>1. slots' = [slots EXCEPT ![c] = [slots[c] EXCEPT ![k] = e]]
    OBVIOUS
  <2>2. DOMAIN slots = Calls /\ DOMAIN slots[c] = 1..HowMany[c]
    BY CallFacts DEF LiveStep, Funs, CallTypes
  <2> HIDE DEF e
  <2> QED BY <2>1, <2>2
<1>2. e.contact = n /\ e.id = counter[n]
  OBVIOUS
<1> HIDE DEF e
<1>3. \A i \in 1..HowMany[c] : slots'[c][i] = IF i = k THEN e ELSE slots[c][i]
  <2> DEFINE s == slots[c]
             u == slots'[c]
  <2>1. u = [s EXCEPT ![k] = e] /\ DOMAIN s = 1..HowMany[c]
    BY <1>1
  <2> HIDE DEF s, u
  <2>2. \A i \in 1..HowMany[c] : u[i] = IF i = k THEN e ELSE s[i]
    BY <2>1
  <2> QED BY <2>2 DEF s, u
<1>4. /\ counter[n] < counter'[n] /\ counter[n] \in Int /\ counter'[n] \in Int
      /\ \A m \in Nodes : counter[m] \in Int /\ counter'[m] \in Int /\ counter[m] <= counter'[m]
  BY NumberTaken, NumbersRise
<1>5. /\ \A i \in 1..HowMany[c] : slots[c][i].contact \in Nodes \cup {None} /\ slots[c][i].id \in Int
      /\ \A i \in 1..HowMany[c] :
           slots[c][i].contact # None => slots[c][i].id < counter[slots[c][i].contact]
      /\ None \notin Nodes
  BY CallFacts, CreateAssumption DEF LiveStep, Whole, PlaceIds
<1>6. PlaceIds(c)'
  <2>1. ASSUME NEW i \in 1..HowMany[c], slots'[c][i].contact # None
        PROVE  slots'[c][i].id < counter'[slots'[c][i].contact]
    <3>1. CASE i = k
      BY <1>2, <1>3, <1>4, <3>1
    <3>2. CASE i # k
      <4>1. slots'[c][i] = slots[c][i]
        BY <1>3, <3>2
      <4>2. slots[c][i].contact \in Nodes /\ slots[c][i].id \in Int
        BY <1>5, <2>1, <4>1
      <4>3. slots[c][i].id < counter[slots[c][i].contact]
        BY <1>5, <2>1, <4>1
      <4> QED BY <1>4, <4>1, <4>2, <4>3
    <3> QED BY <3>1, <3>2
  <2>2. ASSUME NEW i \in 1..HowMany[c], NEW j \in 1..HowMany[c], i # j,
               slots'[c][i].contact # None, slots'[c][i].contact = slots'[c][j].contact
        PROVE  slots'[c][i].id # slots'[c][j].id
    <3>1. \A x \in 1..HowMany[c] : slots[c][x].contact = n => slots[c][x].id < counter[n]
      BY <1>5
    <3>2. CASE i = k
      <4>1. slots'[c][i] = e /\ slots'[c][j] = slots[c][j]
        BY <1>3, <2>2, <3>2
      <4>2. slots[c][j].id < counter[n] /\ slots[c][j].id \in Int
        BY <1>2, <1>5, <2>2, <3>1, <4>1
      <4> QED BY <1>2, <1>4, <4>1, <4>2
    <3>3. CASE j = k
      <4>1. slots'[c][j] = e /\ slots'[c][i] = slots[c][i]
        BY <1>3, <2>2, <3>3
      <4>2. slots[c][i].id < counter[n] /\ slots[c][i].id \in Int
        BY <1>2, <1>5, <2>2, <3>1, <4>1
      <4> QED BY <1>2, <1>4, <4>1, <4>2
    <3>4. CASE i # k /\ j # k
      <4>1. slots'[c][i] = slots[c][i] /\ slots'[c][j] = slots[c][j]
        BY <1>3, <3>4
      <4> QED BY <2>2, <4>1 DEF Whole, PlaceIds
    <3> QED BY <3>2, <3>3, <3>4
  <2> QED BY <2>1, <2>2 DEF PlaceIds
<1>7. Objects(c)' = Objects(c)
  BY DEF Objects
<1>8. ObjectIds(c)'
  <2>1. \A x \in Objects(c) : x[2] < counter[x[1]] /\ x[1] \in Nodes /\ x[2] \in Int
    BY ObjectFacts DEF LiveStep, Whole, ObjectIds
  <2>2. \A x \in Objects(c) : x[2] < counter'[x[1]]
    BY <1>4, <2>1
  <2>3. ASSUME NEW i \in 1..HowMany[c], Pending(c, i)'
        PROVE  <<slots'[c][i].contact, slots'[c][i].id>> \notin Objects(c)
    <3>1. CASE i = k
      <4>1. slots'[c][i].contact = n /\ slots'[c][i].id = counter[n]
        BY <1>2, <1>3, <3>1
      <4>2. <<n, counter[n]>> \notin Objects(c)
        BY <1>4, <2>1
      <4> QED BY <4>1, <4>2
    <3>2. CASE i # k
      <4>1. slots'[c][i] = slots[c][i]
        BY <1>3, <3>2
      <4>2. Pending(c, i)
        BY <2>3, <4>1 DEF Pending
      <4> QED BY <4>1, <4>2 DEF Whole, ObjectIds
    <3> QED BY <3>1, <3>2
  <2> QED BY <1>7, <2>2, <2>3 DEF ObjectIds
<1>9. pc'[c] \notin Launching \cup {"exec", "done", "failed"} /\ pc[c] \notin {"failed", "receive"}
  BY DEF Reserving, Launching
<1>10. BatchIds(c)' /\ Counts(c)'
  BY <1>7, <1>9 DEF Whole, BatchIds, Counts
<1>11. Lives(c)'
  BY <1>9, IdleLives DEF Whole, Launching
<1> QED BY <1>6, <1>8, <1>10, <1>11 DEF Whole

(* ... on the own node, ...                                                *)
LEMMA MatchLocalWhole ==
  ASSUME LiveStep, NEW c \in Calls, Whole(c), MatchLocal(c)
  PROVE  Whole(c)'
<1>1. Funs /\ pc[c] = "local" /\ pc[c] \in Reserving /\ Home[c] \in Nodes
  BY CallFacts, CreateAssumption DEF LiveStep, MatchLocal, At, Reserving
<1>2. ASSUME NEW l \in {"search", "kill", "check"}, Jump(c, l)
      PROVE  Whole(c)'
  BY <1>1, <1>2, JumpWhole
<1>3. ASSUME Goto(c, "search"), UNCHANGED <<slots, made, count, processes>>
      PROVE  Whole(c)'
  <2>1. pc'[c] = "search"
    BY <1>1, <1>3 DEF Goto, Funs
  <2>2. PlaceIds(c)' /\ ObjectIds(c)' /\ BatchIds(c)' /\ Counts(c)'
    BY <1>1, <1>3, <2>1, IdleKeeps DEF Launching
  <2>3. Lives(c)'
    BY <1>1, <1>3, <2>1, IdleLives DEF Whole
  <2> QED BY <2>2, <2>3 DEF Whole
<1>4. ASSUME NEW id, MatchAndReserve(Home[c], c, Require[c], Minimum[c], id), id # 0,
             slots' = [slots EXCEPT ![c][cursor[c]] =
                   [contact |-> Home[c], id |-> id, flops |-> Grant(Home[c], Require[c])]],
             UNCHANGED <<pc, made, count, processes>>
      PROVE  Whole(c)'
  <2>1. id = counter[Home[c]] /\ Takes(Home[c], c, NoApp)
    BY <1>4 DEF MatchAndReserve, Takes, Reservation
  <2>2. pc'[c] \in Reserving \cup {"kill"}
    BY <1>1, <1>4
  <2> HIDE DEF Grant
  <2> QED BY <1>1, <1>4, <2>1, <2>2, GrantWhole
<1>5. \/ \E l \in {"search", "kill", "check"} : Jump(c, l)
      \/ Goto(c, "search") /\ UNCHANGED <<slots, made, count, processes>>
      \/ \E id : /\ MatchAndReserve(Home[c], c, Require[c], Minimum[c], id) /\ id # 0
                 /\ slots' = [slots EXCEPT ![c][cursor[c]] =
                      [contact |-> Home[c], id |-> id, flops |-> Grant(Home[c], Require[c])]]
                 /\ UNCHANGED <<pc, made, count, processes>>
  <2> HIDE DEF Grant, MatchAndReserve, Jump, Goto
  <2> QED BY DEF MatchLocal
<1> HIDE DEF Grant, MatchAndReserve, Jump, Goto, Whole
<1> QED BY <1>2, <1>3, <1>4, <1>5

(* ... or on another, ...                                                  *)
LEMMA ReserveRemoteWhole ==
  ASSUME LiveStep, NEW c \in Calls, Whole(c), ReserveRemote(c)
  PROVE  Whole(c)'
<1> DEFINE n == responses[c][turn[c]]
<1>1. Funs /\ pc[c] = "reserve" /\ pc[c] \in Reserving
  BY CallFacts DEF LiveStep, ReserveRemote, At, Reserving
<1>2. n \in Nodes
  <2>1. responses[c] \in Seq(Nodes) /\ turn[c] \in 1..Len(responses[c])
    BY <1>1, CallFacts DEF LiveStep, CallTypes, Way
  <2> QED BY <2>1, ElementOfSeq
<1>3. ASSUME Jump(c, "kill")
      PROVE  Whole(c)'
  BY <1>1, <1>3, JumpWhole
<1>4. ASSUME NEW id, Reserve(n, c, AppOf[c], Require[c], id),
             UNCHANGED <<made, count, processes>>,
             IF id = 0
             THEN /\ IF failed[c] + 1 = Len(responses[c])
                     THEN Goto(c, "kill") ELSE UNCHANGED pc
                  /\ UNCHANGED slots
             ELSE /\ slots' = [slots EXCEPT ![c][cursor[c]] =
                       [contact |-> n, id |-> id, flops |-> Grant(n, Require[c])]]
                  /\ IF cursor[c] = HowMany[c] THEN Goto(c, "check") ELSE UNCHANGED pc
      PROVE  Whole(c)'
  <2>1. pc'[c] \in {"reserve", "kill", "check"}
    BY <1>1, <1>4 DEF Goto, Funs
  <2>2. CASE id = 0
    <3>1. PlaceIds(c)' /\ ObjectIds(c)' /\ BatchIds(c)' /\ Counts(c)'
      BY <1>1, <1>4, <2>1, <2>2, IdleKeeps DEF Launching
    <3>2. Lives(c)'
      BY <1>1, <1>4, <2>1, IdleLives DEF Whole
    <3> QED BY <3>1, <3>2 DEF Whole
  <2>3. CASE id # 0
    <3>1. id = counter[n] /\ Takes(n, c, AppOf[c])
      BY <1>4, <2>3 DEF Reserve, Takes, Reservation
    <3>2. AppOf[c] \in Apps \cup {NoApp}
      BY CreateAssumption
    <3>3. slots' = [slots EXCEPT ![c][cursor[c]] =
                      [contact |-> n, id |-> id, flops |-> Grant(n, Require[c])]]
      BY <1>4, <2>3
    <3>4. pc'[c] \in Reserving \cup {"kill"}
      BY <2>1 DEF Reserving
    <3> HIDE DEF Grant, n
    <3> QED BY <1>1, <1>2, <1>4, <3>1, <3>2, <3>3, <3>4, GrantWhole
  <2> QED BY <2>2, <2>3
<1> HIDE DEF Grant, Reserve, Jump, Goto, Whole
<1> QED BY <1>3, <1>4 DEF ReserveRemote

(* ... the launch that follows takes its batch from the places, ...        *)
LEMMA ExecWhole ==
  ASSUME LiveStep, NEW c \in Calls, Whole(c), Exec(c)
  PROVE  Whole(c)'
<1> DEFINE B == {i \in Places(c) : slots[c][i].contact = Contact(c)}
           F == First(c)
<1>1. /\ Funs /\ CallTypes(c) /\ Way(c) /\ pc[c] = "exec" /\ cursor[c] \in Nat /\ cursor[c] > 0
      /\ HowMany[c] \in Nat /\ UNCHANGED <<made, count, processes>>
  BY CallFacts, CreateAssumption DEF LiveStep, Exec, At, Way, CallTypes
<1>2. ASSUME Goto(c, "attempt"), UNCHANGED slots
      PROVE  Whole(c)'
  <2>1. pc'[c] = "attempt"
    BY <1>1, <1>2 DEF Goto, Funs
  <2>2. PlaceIds(c)' /\ ObjectIds(c)' /\ BatchIds(c)' /\ Counts(c)'
    BY <1>1, <1>2, <2>1, IdleKeeps DEF Launching, Reserving
  <2>3. Lives(c)'
    BY <1>1, <2>1, IdleLives DEF Whole
  <2> QED BY <2>2, <2>3 DEF Whole
<1>3. ASSUME Places(c) # {},
             batch' = [batch EXCEPT ![c] = B],
             slots' = [slots EXCEPT ![c] = [i \in 1..HowMany[c] |->
                         IF i \in batch'[c] /\ i # F THEN [@[i] EXCEPT !.contact = None]
                                                     ELSE @[i]]],
             \/ Goto(c, "code") /\ cursor' = [cursor EXCEPT ![c] = F]
             \/ UNCHANGED pc /\ cursor' = [cursor EXCEPT ![c] = F + 1]
      PROVE  Whole(c)'
  <2>1. /\ batch'[c] = B
        /\ \/ pc'[c] = "code" /\ cursor'[c] = F
           \/ pc'[c] = "exec" /\ cursor'[c] = F + 1
    <3> HIDE DEF B, F
    <3> QED BY <1>1, <1>3 DEF Goto, Funs
  <2>2. /\ F \in B /\ B \subseteq 1..HowMany[c] /\ B \subseteq Places(c)
        /\ \A i \in B : slots[c][i].contact = Contact(c) /\ slots[c][i].contact # None
        /\ \A i \in B : i \in Nat /\ i >= cursor[c]
        /\ F \in Nat
        /\ \A i \in Places(c) : slots[c][i].contact = Contact(c) => i \in B
    BY <1>1, <1>3, FirstFacts DEF Contact, Places
  <2>3. \A i \in 1..HowMany[c] :
          slots'[c][i] = IF i \in B /\ i # F THEN [slots[c][i] EXCEPT !.contact = None]
                                             ELSE slots[c][i]
    <3>1. slots'[c] = [i \in 1..HowMany[c] |->
             IF i \in batch'[c] /\ i # F THEN [slots[c][i] EXCEPT !.contact = None]
                                         ELSE slots[c][i]]
      BY <1>1, <1>3 DEF Funs
    <3> HIDE DEF B, F
    <3> QED BY <2>1, <3>1
  <2>4. \A i \in 1..HowMany[c] :
          /\ slots'[c][i].id = slots[c][i].id
          /\ slots'[c][i].contact = IF i \in B /\ i # F THEN None ELSE slots[c][i].contact
    <3>1. ASSUME NEW r \in Slot
          PROVE  /\ [r EXCEPT !.contact = None].id = r.id
                 /\ [r EXCEPT !.contact = None].contact = None
      BY DEF Slot
    <3>2. \A i \in 1..HowMany[c] : slots[c][i] \in Slot
      BY <1>1, SlotFacts
    <3> HIDE DEF B, F
    <3> QED BY <2>3, <3>1, <3>2
  <2>5. Contact(c) = slots[c][F].contact
    BY DEF Contact
  <2> HIDE DEF B, F
  <2>6. Contact(c) \in Nodes /\ Contact(c) # None
    BY <1>1, <2>2, SlotFacts
  <2>7. ASSUME cursor'[c] = F
        PROVE  Host(c)' = Contact(c)
    BY <2>2, <2>4, <2>5, <2>7 DEF Host
  <2>8. PlaceIds(c)'
    BY <2>4, PlacesKeep DEF Whole
  <2>9. ASSUME NEW i \in 1..HowMany[c], i >= F, slots[c][i].contact # None
        PROVE  Pending(c, i) /\ i \in Places(c)
    BY <1>1, <2>2, <2>9 DEF Pending, Places
  <2>10. ObjectIds(c)'
    <3>1. ASSUME NEW i \in 1..HowMany[c], Pending(c, i)'
          PROVE  /\ Pending(c, i)
                 /\ slots'[c][i].contact = slots[c][i].contact /\ slots'[c][i].id = slots[c][i].id
      <4>1. slots'[c][i].contact # None /\ i >= F
        BY <2>1, <2>2, <3>1 DEF Pending, Reserving, Launching
      <4>2. slots'[c][i].contact = slots[c][i].contact /\ slots'[c][i].id = slots[c][i].id
        BY <2>4, <4>1
      <4> QED BY <2>9, <4>1, <4>2
    <3> QED BY <1>1, <3>1, ObjectsKeep DEF Whole
  <2>11. Objects(c)' = Objects(c)
    BY <1>1 DEF Objects
  <2>12. BatchIds(c)'
    <3>1. ASSUME NEW i \in B
          PROVE  /\ slots'[c][i].id < counter'[Contact(c)]
                 /\ <<Contact(c), slots'[c][i].id>> \notin Objects(c)
                 /\ i # F => slots'[c][i].contact = None
      <4>1. i \in 1..HowMany[c] /\ slots'[c][i].id = slots[c][i].id
        BY <2>2, <2>4
      <4>2. slots[c][i].id < counter[Contact(c)] /\ slots[c][i].id \in Int
        BY <1>1, <2>2, <4>1, SlotFacts, LedgerAssumption DEF Whole, PlaceIds
      <4>3. /\ counter[Contact(c)] \in Int /\ counter'[Contact(c)] \in Int
            /\ counter[Contact(c)] <= counter'[Contact(c)]
        BY <2>6, NumbersRise
      <4>4. Pending(c, i)
        BY <1>1, <2>2, <4>1 DEF Pending
      <4>5. <<Contact(c), slots[c][i].id>> \notin Objects(c)
        BY <2>2, <4>1, <4>4 DEF Whole, ObjectIds
      <4>6. i # F => slots'[c][i].contact = None
        BY <2>4, <4>1
      <4> QED BY <4>1, <4>2, <4>3, <4>5, <4>6
    <3>2. \A i, j \in B : i # j => slots'[c][i].id # slots'[c][j].id
      <4>1. \A i, j \in B : i # j => slots[c][i].id # slots[c][j].id
        BY <2>2 DEF Whole, PlaceIds
      <4> QED BY <2>2, <2>4, <4>1
    <3>3. ASSUME NEW j \in 1..HowMany[c], j > F
          PROVE  slots'[c][j].contact # Contact(c)
      <4>1. CASE j \in B
        <5>1. j # F
          BY <1>1, <2>2, <3>3
        <5> QED BY <2>4, <2>6, <4>1, <5>1
      <4>2. CASE j \notin B
        <5>1. j >= F
          BY <1>1, <2>2, <3>3
        <5> QED BY <2>2, <2>4, <2>6, <2>9, <4>2, <5>1
      <4> QED BY <4>1, <4>2
    <3>4. CASE pc'[c] = "code" /\ cursor'[c] = F
      BY <2>1, <2>7, <2>11, <3>1, <3>2, <3>3, <3>4 DEF BatchIds
    <3>5. CASE pc'[c] = "exec"
      BY <3>5 DEF BatchIds, Launching
    <3> QED BY <2>1, <3>4, <3>5
  <2>13. Counts(c)'
    <3>1. IsFiniteSet(Places(c)) /\ Cardinality(Places(c)) \in Nat
      <4>1. Places(c) \in SUBSET (1..HowMany[c])
        BY <1>1, <1>3, FirstFacts
      <4> QED BY <4>1, PlacesFinite
    <3>2. B \cup (Places(c)' \ {F}) \in SUBSET Places(c) /\ Places(c)' \in SUBSET Places(c)
      <4>1. ASSUME NEW i \in Places(c)'
            PROVE  i \in Places(c)
        <5>1. i \in cursor'[c]..HowMany[c] /\ slots'[c][i].contact # None
          BY DEF Places
        <5>2. i \in 1..HowMany[c] /\ i >= F
          BY <1>1, <2>1, <2>2, <5>1
        <5>3. slots[c][i].contact # None
          BY <2>4, <5>1, <5>2
        <5> QED BY <2>9, <5>2, <5>3
      <4> QED BY <2>2, <4>1
    <3>3. /\ Cardinality(B \cup (Places(c)' \ {F})) <= Cardinality(Places(c))
          /\ Cardinality(B \cup (Places(c)' \ {F})) \in Nat
          /\ Cardinality(Places(c)') <= Cardinality(Places(c)) /\ Cardinality(Places(c)') \in Nat
      BY <3>1, <3>2, FS_Subset, FS_CardinalityType
    <3>4. count[c] \in Nat /\ count[c] + Cardinality(Places(c)) <= HowMany[c]
      BY <1>1 DEF Whole, Counts, CallTypes
    <3>5. /\ count[c] + Cardinality(B \cup (Places(c)' \ {F})) <= HowMany[c]
          /\ count[c] + Cardinality(Places(c)') <= HowMany[c]
      BY <1>1, <3>1, <3>3, <3>4
    <3>6. CASE pc'[c] = "code" /\ cursor'[c] = F
      BY <1>1, <2>1, <2>11, <3>5, <3>6 DEF Whole, Counts
    <3>7. CASE pc'[c] = "exec"
      BY <1>1, <2>11, <3>5, <3>7 DEF Whole, Counts, Launching
    <3> QED BY <2>1, <3>6, <3>7
  <2>14. Lives(c)'
    BY <1>1, <2>1, IdleLives DEF Whole
  <2> QED BY <2>8, <2>10, <2>12, <2>13, <2>14 DEF Whole
<1>4. \/ Goto(c, "attempt") /\ UNCHANGED slots
      \/ /\ Places(c) # {} /\ batch' = [batch EXCEPT ![c] = B]
         /\ slots' = [slots EXCEPT ![c] = [i \in 1..HowMany[c] |->
                         IF i \in batch'[c] /\ i # F THEN [@[i] EXCEPT !.contact = None]
                                                     ELSE @[i]]]
         /\ \/ Goto(c, "code") /\ cursor' = [cursor EXCEPT ![c] = F]
            \/ UNCHANGED pc /\ cursor' = [cursor EXCEPT ![c] = F + 1]
  <2> HIDE DEF Goto, Places, First, VerifyReservation
  <2> QED BY DEF Exec
<1> HIDE DEF Whole, Goto, B, F
<1> QED BY <1>2, <1>3, <1>4

(* ... a batch that fails leaves its places to later, ...                 *)
LEMMA FailedKeeps ==
  ASSUME LiveStep, NEW c \in Calls, Whole(c), pc[c] \in Launching, NextPlace(c),
         UNCHANGED <<slots, made, count, batch>>
  PROVE  /\ pc'[c] = "exec"
         /\ PlaceIds(c)' /\ ObjectIds(c)' /\ BatchIds(c)' /\ Counts(c)'
<1>1. /\ Funs /\ CallTypes(c) /\ cursor[c] \in Nat /\ HowMany[c] \in Nat
      /\ cursor[c] \in batch[c] /\ batch[c] \subseteq 1..HowMany[c]
  BY CallFacts, CreateAssumption DEF LiveStep, CallTypes, Way
<1>2. pc'[c] = "exec" /\ cursor'[c] = cursor[c] + 1 /\ UNCHANGED <<slots, made, count, batch>>
  BY <1>1 DEF NextPlace, Goto, Funs
<1>3. PlaceIds(c)'
  BY <1>2, PlacesKeep DEF Whole
<1>4. ObjectIds(c)'
  <2>1. \A i \in 1..HowMany[c] : Pending(c, i)' => Pending(c, i)
    BY <1>1, <1>2 DEF Pending, Reserving, Launching
  <2> QED BY <1>2, <2>1, ObjectsKeep DEF Whole
<1>5. BatchIds(c)'
  BY <1>2 DEF BatchIds, Launching
<1>6. Counts(c)'
  <2> DEFINE U == batch[c] \cup (Places(c) \ {cursor[c]})
  <2>1. U \in SUBSET (1..HowMany[c]) /\ Places(c)' \in SUBSET U
    <3>1. Places(c) \subseteq 1..HowMany[c]
      BY <1>1 DEF Places
    <3>2. Places(c)' \subseteq Places(c) \ {cursor[c]}
      BY <1>1, <1>2 DEF Places
    <3> QED BY <1>1, <3>1, <3>2
  <2>2. count[c] \in Nat /\ count[c] + Cardinality(U) <= HowMany[c]
    BY <1>1 DEF Whole, Counts, CallTypes
  <2>3. IsFiniteSet(U) /\ Cardinality(U) \in Nat
    BY <2>1, PlacesFinite
  <2>4. Cardinality(Places(c)') <= Cardinality(U) /\ Cardinality(Places(c)') \in Nat
    BY <2>1, <2>3, FS_Subset, FS_CardinalityType
  <2>5. Objects(c)' = Objects(c)
    BY <1>2 DEF Objects
  <2>6. count[c] + Cardinality(Places(c)') <= HowMany[c]
    BY <1>1, <2>2, <2>3, <2>4
  <2> QED BY <1>2, <2>5, <2>6 DEF Whole, Counts, Launching
<1> QED BY <1>2, <1>3, <1>4, <1>5, <1>6

(* ... and none of its objects, unless the manager is gone, ...            *)
LEMMA FailsWhole ==
  ASSUME LiveStep, NEW c \in Calls, Whole(c), pc[c] \in Launching,
         ExecFails(c) \/ ExecThrows(c)
  PROVE  Whole(c)'
<1>1. Funs /\ cursor[c] \in batch[c] /\ batch[c] \subseteq 1..HowMany[c]
  BY CallFacts DEF LiveStep, Way
<1>2. /\ NextPlace(c) /\ UNCHANGED <<slots, made, count, batch, managerUp>>
      /\ \/ processes' = processes \ Launched(c)
         \/ ~managerUp[Host(c)] /\ processes' = processes
  BY DEF ExecFails, ExecThrows, nodeVars
<1>3. pc'[c] = "exec" /\ PlaceIds(c)' /\ ObjectIds(c)' /\ BatchIds(c)' /\ Counts(c)'
  BY <1>2, FailedKeeps
<1>4. Lives(c)'
  <2>1. ASSUME NEW p \in made[c], p \in Launched(c)
        PROVE  FALSE
    <3>1. p.node = Host(c) /\ slots[c][cursor[c]].id \in p.ids
      BY <1>1, <2>1 DEF Launched, Ids
    <3>2. <<Host(c), slots[c][cursor[c]].id>> \in Objects(c)
      BY <3>1 DEF Objects
    <3> QED BY <1>1, <3>2 DEF Whole, BatchIds
  <2>2. /\ made[c] \subseteq processes
        /\ \A p \in processes : p.call = c =>
             p \in made[c] \/ p \in Launched(c) \/ ~managerUp[p.node]
    BY DEF Whole, Lives, Launching
  <2>3. made'[c] \subseteq processes'
    BY <1>2, <2>1, <2>2
  <2>4. \A p \in processes' : p.call = c => p \in made'[c] \/ ~managerUp'[p.node]
    BY <1>2, <2>2 DEF Launched
  <2> QED BY <1>2, <1>3, <2>3, <2>4 DEF Whole, Lives
<1> QED BY <1>3, <1>4 DEF Whole

(* ... one that goes on is the one process that is not yet counted, ...    *)
LEMMA LaunchStepWhole ==
  ASSUME LiveStep, NEW c \in Calls, Whole(c), QueryCode(c) \/ Launch(c)
  PROVE  Whole(c)'
<1>1. Funs /\ pc[c] \in {"code", "launch"} /\ pc[c] \in Launching
  BY CallFacts DEF LiveStep, QueryCode, Launch, At, Launching
<1>2. CASE ExecFails(c)
  BY <1>1, <1>2, FailsWhole
<1>3. ASSUME pc'[c] \in {"launch", "receive"}, UNCHANGED <<slots, cursor, batch, made, count>>
      PROVE  PlaceIds(c)' /\ ObjectIds(c)' /\ BatchIds(c)' /\ Counts(c)'
  BY <1>1, <1>3, BatchKeeps DEF Launching
<1>4. CASE Jump(c, "launch")
  <2>1. pc'[c] = "launch" /\ UNCHANGED <<slots, cursor, batch, made, count, processes>>
    BY <1>1, <1>4 DEF Jump, Goto, Funs
  <2>2. Lives(c)'
    BY <1>1, <2>1, IdleLives DEF Whole
  <2> QED BY <1>3, <2>1, <2>2 DEF Whole
<1>5. ASSUME processes' = processes \cup {[call |-> c, node |-> Host(c), ids |-> Ids(c)]},
             Goto(c, "receive"), UNCHANGED <<slots, cursor, batch, made, count>>
      PROVE  Whole(c)'
  <2> DEFINE p == [call |-> c, node |-> Host(c), ids |-> Ids(c)]
  <2>1. pc'[c] = "receive"
    BY <1>1, <1>5 DEF Goto, Funs
  <2>2. Host(c)' = Host(c) /\ Ids(c)' = Ids(c)
    BY <1>5 DEF Host, Ids
  <2>3. p \in processes' /\ p \in Launched(c)'
    BY <1>5, <2>2 DEF Launched
  <2>4. /\ \A q \in made[c] : q.call = c
        /\ made[c] \subseteq processes
        /\ \A q \in processes : q.call = c => q \in made[c] \/ ~managerUp[q.node]
    BY <1>1 DEF Whole, Lives
  <2>5. made'[c] \subseteq processes'
    BY <1>5, <2>4
  <2>6. \A q \in processes' : q.call = c =>
          q \in made'[c] \/ q \in Launched(c)' \/ ~managerUp'[q.node]
    BY <1>5, <2>3, <2>4, ManagersFall
  <2>7. Lives(c)'
    BY <1>5, <2>1, <2>2, <2>3, <2>4, <2>5, <2>6 DEF Lives
  <2> QED BY <1>3, <1>5, <2>1, <2>7 DEF Whole
<1> HIDE DEF Whole, Goto, Jump
<1> QED BY <1>2, <1>4, <1>5 DEF QueryCode, Launch

(* ... and as many objects report as the batch has places.                 *)
LEMMA BatchObjects ==
  ASSUME LiveStep, NEW c \in Calls, Whole(c), pc[c] \in Launching
  PROVE  LET new == {Host(c)} \X Ids(c)
         IN  /\ IsFiniteSet(new) /\ Cardinality(new) = Cardinality(batch[c])
             /\ new \cap Objects(c) = {}
             /\ \A x \in new : x[1] = Host(c) /\ \E i \in batch[c] : x[2] = slots[c][i].id
<1> DEFINE new == {Host(c)} \X Ids(c)
           f == [i \in batch[c] |-> <<Host(c), slots[c][i].id>>]
<1>1. batch[c] \in SUBSET (1..HowMany[c])
  BY CallFacts DEF LiveStep
<1>2. IsFiniteSet(batch[c])
  BY <1>1, PlacesFinite
<1>3. \A x \in new : x[1] = Host(c) /\ \E i \in batch[c] : x = <<Host(c), slots[c][i].id>>
  BY DEF Ids
<1>4. f \in [batch[c] -> new] /\ \A x \in new : \E i \in batch[c] : f[i] = x
  BY <1>3 DEF Ids
<1>5. \A i, j \in batch[c] : f[i] = f[j] => i = j
  BY DEF Whole, BatchIds
<1> HIDE DEF f
<1>6. f \in Bijection(batch[c], new)
  BY <1>4, <1>5 DEF Bijection, Injection, Surjection, IsInjective
<1>7. IsFiniteSet(new) /\ Cardinality(new) = Cardinality(batch[c])
  BY <1>2, <1>6, FS_Bijection DEF ExistsBijection
<1>8. new \cap Objects(c) = {}
  BY <1>3 DEF Whole, BatchIds
<1> QED BY <1>3, <1>7, <1>8

(* Sets that have nothing in common are counted one after the other.       *)
LEMMA TogetherCount ==
  ASSUME NEW S, IsFiniteSet(S), NEW T, IsFiniteSet(T), S \cap T = {}
  PROVE  IsFiniteSet(S \cup T) /\ Cardinality(S \cup T) = Cardinality(S) + Cardinality(T)
<1>1. Cardinality(S \cap T) = 0
  BY FS_EmptySet
<1>2. Cardinality(S) \in Nat /\ Cardinality(T) \in Nat
  BY FS_CardinalityType
<1>3. /\ IsFiniteSet(S \cup T)
      /\ Cardinality(S \cup T) = Cardinality(S) + Cardinality(T) - Cardinality(S \cap T)
  BY FS_Union
<1> QED BY <1>1, <1>2, <1>3

(* The last report makes objects of the batch.                             *)
LEMMA ReceiveWhole ==
  ASSUME LiveStep, NEW c \in Calls, Whole(c), Receive(c)
  PROVE  Whole(c)'
<1> DEFINE new == {Host(c)} \X Ids(c)
           P == [call |-> c, node |-> Host(c), ids |-> Ids(c)]
<1>1. /\ Funs /\ CallTypes(c) /\ pc[c] = "receive" /\ pc[c] \in Launching
      /\ cursor[c] \in Nat /\ HowMany[c] \in Nat /\ count[c] \in Nat
      /\ cursor[c] \in batch[c] /\ batch[c] \in SUBSET (1..HowMany[c]) /\ Host(c) \in Nodes
  BY CallFacts, CreateAssumption DEF LiveStep, CallTypes, Way, Receive, At, Launching
<1>2. CASE ExecFails(c)
  BY <1>1, <1>2, FailsWhole
<1>3. ASSUME UNCHANGED <<pc, slots, cursor, batch, count, made, processes>>
      PROVE  Whole(c)'
  <2>1. PlaceIds(c)' /\ ObjectIds(c)' /\ BatchIds(c)' /\ Counts(c)'
    BY <1>1, <1>3, BatchKeeps
  <2>2. Host(c)' = Host(c) /\ Ids(c)' = Ids(c) /\ Launched(c)' = Launched(c)
    BY <1>3 DEF Host, Ids, Launched
  <2>3. Lives(c)'
    BY <1>3, <2>2, ManagersFall DEF Whole, Lives
  <2> QED BY <2>1, <2>3 DEF Whole
<1>4. ASSUME count' = [count EXCEPT ![c] = @ + Cardinality(batch[c])],
             made' = [made EXCEPT ![c] = @ \cup Launched(c)], NextPlace(c),
             UNCHANGED <<slots, batch, processes>>
      PROVE  Whole(c)'
  <2>1. /\ pc'[c] = "exec" /\ cursor'[c] = cursor[c] + 1
        /\ made'[c] = made[c] \cup Launched(c) /\ count'[c] = count[c] + Cardinality(batch[c])
    BY <1>1, <1>4 DEF NextPlace, Goto, Funs
  <2>2. Launched(c) = {P}
    <3>1. P \in Launched(c)
      BY <1>1 DEF Whole, Lives, Launched
    <3>2. processes \subseteq Process
      BY DEF LiveStep, TInv, CreateTypeOK
    <3>3. \A p \in Launched(c) : p = P
      BY <3>2 DEF Launched, Process
    <3> QED BY <3>1, <3>3
  <2>3. Objects(c)' = Objects(c) \cup new
    <3>1. \A x : x \in Objects(c)' <=> \E p \in made'[c] : x \in {p.node} \X p.ids
      BY DEF Objects
    <3>2. \A x : x \in Objects(c) <=> \E p \in made[c] : x \in {p.node} \X p.ids
      BY DEF Objects
    <3>3. P.node = Host(c) /\ P.ids = Ids(c)
      OBVIOUS
    <3> HIDE DEF P
    <3>4. \A x : x \in Objects(c)' <=> x \in Objects(c) \/ x \in {P.node} \X P.ids
      BY <2>1, <2>2, <3>1, <3>2
    <3> QED BY <3>3, <3>4
  <2>4. /\ IsFiniteSet(new) /\ Cardinality(new) = Cardinality(batch[c]) /\ new \cap Objects(c) = {}
        /\ \A x \in new : x[1] = Host(c) /\ \E i \in batch[c] : x[2] = slots[c][i].id
    BY <1>1, BatchObjects
  <2> HIDE DEF new, P
  <2>5. PlaceIds(c)'
    BY <1>4, PlacesKeep DEF Whole
  <2>6. ObjectIds(c)'
    <3>1. ASSUME NEW x \in Objects(c) \cup new
          PROVE  x[2] < counter'[x[1]]
      <4>1. x[1] \in Nodes /\ x[2] \in Int /\ x[2] < counter[x[1]]
        <5>1. CASE x \in Objects(c)
          BY <5>1, ObjectFacts DEF LiveStep, Whole, ObjectIds
        <5>2. CASE x \in new
          <6>1. PICK i \in batch[c] : x[2] = slots[c][i].id
            BY <2>4, <5>2
          <6>2. slots[c][i].id \in Int
            BY <1>1, CallFacts DEF LiveStep
          <6> QED BY <1>1, <2>4, <5>2, <6>1, <6>2 DEF Whole, BatchIds
        <5> QED BY <5>1, <5>2
      <4>2. /\ counter[x[1]] \in Int /\ counter'[x[1]] \in Int
            /\ counter[x[1]] <= counter'[x[1]]
        BY <4>1, NumbersRise
      <4> QED BY <4>1, <4>2
    <3>2. ASSUME NEW i \in 1..HowMany[c], Pending(c, i)'
          PROVE  <<slots'[c][i].contact, slots'[c][i].id>> \notin Objects(c) \cup new
      <4>1. slots[c][i].contact # None /\ i > cursor[c]
        BY <1>1, <1>4, <2>1, <3>2 DEF Pending, Reserving, Launching
      <4>2. Pending(c, i)
        BY <1>1, <4>1 DEF Pending
      <4>3. <<slots[c][i].contact, slots[c][i].id>> \notin Objects(c)
        BY <4>2 DEF Whole, ObjectIds
      <4>4. slots[c][i].contact # Host(c)
        BY <1>1, <4>1 DEF Whole, BatchIds
      <4> QED BY <1>4, <2>4, <4>3, <4>4
    <3> QED BY <2>3, <3>1, <3>2 DEF ObjectIds
  <2>7. BatchIds(c)'
    BY <2>1 DEF BatchIds, Launching
  <2>8. Counts(c)'
    <3> DEFINE U == batch[c] \cup (Places(c) \ {cursor[c]})
               L == Places(c)'
    <3>1. U \in SUBSET (1..HowMany[c]) /\ L \in SUBSET U /\ L \in SUBSET (1..HowMany[c])
      <4>1. Places(c) \subseteq 1..HowMany[c]
        BY <1>1 DEF Places
      <4>2. L \subseteq Places(c) \ {cursor[c]}
        BY <1>1, <1>4, <2>1 DEF Places
      <4> QED BY <1>1, <4>1, <4>2
    <3>2. batch[c] \cap L = {}
      <4>1. \A i \in batch[c] : i # cursor[c] => slots[c][i].contact = None
        BY <1>1 DEF Whole, BatchIds
      <4>2. \A i \in L : i # cursor[c] /\ slots[c][i].contact # None
        BY <1>1, <1>4, <2>1 DEF Places
      <4> QED BY <4>1, <4>2
    <3>3. /\ IsFiniteSet(Objects(c)) /\ Cardinality(Objects(c)) = count[c]
          /\ count[c] + Cardinality(U) <= HowMany[c]
      BY <1>1 DEF Whole, Counts
    <3>4. /\ IsFiniteSet(U) /\ Cardinality(U) \in Nat
          /\ IsFiniteSet(L) /\ Cardinality(L) \in Nat
          /\ IsFiniteSet(batch[c]) /\ Cardinality(batch[c]) \in Nat
      BY <1>1, <3>1, PlacesFinite
    <3> HIDE DEF U, L
    <3>5. batch[c] \cup L \in SUBSET U
      BY <3>1 DEF U
    <3>6. Cardinality(batch[c]) + Cardinality(L) <= Cardinality(U)
      <4>1. /\ IsFiniteSet(batch[c] \cup L)
            /\ Cardinality(batch[c] \cup L) = Cardinality(batch[c]) + Cardinality(L)
        BY <3>2, <3>4, TogetherCount
      <4> QED BY <3>4, <3>5, <4>1, FS_Subset
    <3>7. /\ IsFiniteSet(Objects(c)')
          /\ Cardinality(Objects(c)') = count[c] + Cardinality(batch[c])
      <4>1. Objects(c) \cap new = {}
        BY <2>4
      <4>2. /\ IsFiniteSet(Objects(c) \cup new)
            /\ Cardinality(Objects(c) \cup new) = Cardinality(Objects(c)) + Cardinality(new)
        BY <2>4, <3>3, <4>1, TogetherCount
      <4> QED BY <2>3, <2>4, <3>3, <4>2
    <3>8. /\ count'[c] <= HowMany[c]
          /\ count'[c] + Cardinality(L) <= HowMany[c]
      BY <1>1, <2>1, <3>3, <3>4, <3>6
    <3> QED BY <2>1, <3>7, <3>8 DEF Counts, Launching, L
  <2>9. Lives(c)'
    <3>1. /\ \A p \in made[c] : p.call = c
          /\ made[c] \subseteq processes
          /\ \A p \in processes : p.call = c =>
               p \in made[c] \/ p \in Launched(c) \/ ~managerUp[p.node]
      BY <1>1 DEF Whole, Lives
    <3>2. Launched(c) \subseteq processes /\ \A p \in Launched(c) : p.call = c
      BY DEF Launched
    <3>3. /\ \A p \in made'[c] : p.call = c
          /\ made'[c] \subseteq processes'
          /\ \A p \in processes' : p.call = c => p \in made'[c] \/ ~managerUp'[p.node]
      BY <1>4, <2>1, <3>1, <3>2, ManagersFall
    <3> QED BY <2>1, <3>3 DEF Lives
  <2> QED BY <2>5, <2>6, <2>7, <2>8, <2>9 DEF Whole
<1>5. \/ ExecFails(c)
      \/ UNCHANGED <<pc, slots, cursor, batch, count, made, processes>>
      \/ /\ count' = [count EXCEPT ![c] = @ + Cardinality(batch[c])]
         /\ made' = [made EXCEPT ![c] = @ \cup Launched(c)] /\ NextPlace(c)
         /\ UNCHANGED <<slots, batch, processes>>
  <2> HIDE DEF Launched, NextPlace, NextSlot, ExecFails, ValidateReservation
  <2> QED BY DEF Receive
<1> HIDE DEF Whole, Launched, NextPlace, ExecFails
<1> QED BY <1>2, <1>3, <1>4, <1>5

(* A step of any call keeps all or nothing.                                *)
LEMMA AllWhole ==
  ASSUME LiveStep, \A c \in Calls : Whole(c)
  PROVE  \A c \in Calls : Whole(c)'
<1>1. Funs
  BY TypesSplit DEF LiveStep, TInv
<1>2. CASE UNCHANGED <<callVars, processes>>
  <2>1. \A d \in Calls : Still(d)
    BY <1>2 DEF callVars, Still
  <2> QED BY <1>2, <2>1, StillWhole
<1>3. ASSUME NEW c \in Calls, OfCall(c), Only(c), NEW d \in Calls
      PROVE  Whole(d)'
  <2>1. CASE d # c
    <3>1. \A p : p.call # c => (p \in processes' <=> p \in processes)
      BY <1>3, OtherProcesses DEF LiveStep, Whole
    <3>2. Still(d)
      BY <1>3, <2>1 DEF Only
    <3> QED BY <2>1, <3>1, <3>2, StillWhole
  <2>2. CASE d = c
    <3>1. Whole(c)'
      <4>1. CASE ExecThrows(c)
        <5>1. pc[c] \in Launching
          BY <4>1 DEF ExecThrows, At, Launching
        <5> QED BY <4>1, <5>1, FailsWhole
      <4>2. CASE Attempt(c) \/ KillObjects(c)
        BY <4>2, ReturnWhole
      <4>3. CASE StartDiscovery(c) \/ EndDiscovery(c) \/ \E n \in Nodes : Respond(c, n)
        BY <4>3, DiscoveryWhole
      <4>4. CASE MatchLocal(c)
        BY <4>4, MatchLocalWhole
      <4>5. CASE ReserveRemote(c)
        BY <4>5, ReserveRemoteWhole
      <4>6. CASE Check(c)
        BY <4>6, CheckWhole
      <4>7. CASE Exec(c)
        BY <4>7, ExecWhole
      <4>8. CASE QueryCode(c) \/ Launch(c)
        BY <4>8, LaunchStepWhole
      <4>9. CASE Receive(c)
        BY <4>9, ReceiveWhole
      <4>10. OfCall(c)
        BY <1>3
      <4> HIDE DEF Whole
      <4> QED BY <4>1, <4>2, <4>3, <4>4, <4>5, <4>6, <4>7, <4>8, <4>9, <4>10
              DEF OfCall, CallStep
    <3> QED BY <2>2, <3>1
  <2> QED BY <2>1, <2>2
<1> QED BY <1>1, <1>2, <1>3, OneCall DEF LiveStep

(* For any number of calls, objects, nodes and applications, whatever is   *)
(* refused, cancelled or stopped, as long as no number is given twice: a   *)
(* call that failed leaves no process but on nodes whose manager is gone,  *)
(* and one that succeeded has all its objects.                             *)
THEOREM AllOrNone ==
  ASSUME MaxId > 1
  PROVE  Spec /\ NumbersGrow => []AllOrNothing
<1> DEFINE I == TInv /\ \A c \in Calls : Whole(c)
<1>1. CreateInit => I
  <2> SUFFICES ASSUME CreateInit
               PROVE  I
    OBVIOUS
  <2>1. TInv
    BY TypesInit
  <2>2. ASSUME NEW c \in Calls
        PROVE  Whole(c)
    <3>1. /\ pc[c] = "attempt" /\ made[c] = {} /\ count[c] = 0 /\ processes = {}
          /\ \A i \in 1..HowMany[c] : slots[c][i].contact = None
      BY DEF CreateInit, NoSlot
    <3>2. Objects(c) = {}
      BY <3>1 DEF Objects
    <3>3. PlaceIds(c) /\ BatchIds(c) /\ Lives(c)
      BY <3>1 DEF PlaceIds, BatchIds, Lives, Launching
    <3>4. ObjectIds(c)
      BY <3>1, <3>2 DEF ObjectIds, Pending
    <3>5. Counts(c)
      BY <3>1, <3>2, FS_EmptySet, CreateAssumption DEF Counts, Launching
    <3> QED BY <3>3, <3>4, <3>5 DEF Whole
  <2> QED BY <2>1, <2>2
<1>2. I /\ [Next]_createVars /\ [Grow]_counter => I'
  <2> SUFFICES ASSUME I, [Next]_createVars, [Grow]_counter
               PROVE  I'
    OBVIOUS
  <2>1. TInv'
    BY TypesHold
  <2>2. LiveStep
    BY <2>1, LedgerWriters DEF LiveStep
  <2> QED BY <2>1, <2>2, AllWhole
<1>3. I => AllOrNothing
  <2> SUFFICES ASSUME I, NEW c \in Calls
               PROVE  /\ pc[c] = "failed" =>
                           \A p \in processes : p.call = c => ~managerUp[p.node]
                      /\ pc[c] = "done" => /\ made[c] \subseteq processes
                                           /\ Cardinality(Objects(c)) = HowMany[c]
    BY DEF AllOrNothing
  <2> QED BY DEF Whole, Lives, Counts
<1> QED BY <1>1, <1>2, <1>3, PTL DEF Spec, NumbersGrow
=============================================================================
