-------------------------- MODULE DiscoveryProofs --------------------------
(***************************************************************************)
(* What is proved about the discovery of resources (Discovery), for every  *)
(* network, however many nodes and requests there are:                     *)
(*   - the variables keep their types (DiscoveryTypeCorrect): a request    *)
(*     knows its way back, and is never sent back to where it came from;   *)
(*   - no node answers from further away than was asked for (NotTooFar);   *)
(*   - a launch collects nodes with the resources only, each of them once, *)
(*     and nothing after its end, as long as no node forgets a request     *)
(*     that is still on its way (SearchImplemented), as when there are no  *)
(*     more requests than a history holds (FewImplemented).                *)
(***************************************************************************)
EXTENDS Discovery, TLAPS, WellFoundedInduction, FiniteSetTheorems, SequenceTheorems

-----------------------------------------------------------------------------
(* Bags and lists.                                                         *)
(* One copy more.                                                          *)
LEMMA BagAdds ==
  ASSUME NEW B, NEW x
  PROVE  LET C == B (+) SetToBag({x}) IN
         /\ BagToSet(C) = BagToSet(B) \cup {x}
         /\ \A e \in BagToSet(B) : e # x => C[e] = B[e] + 0
         /\ x \notin BagToSet(B) => C[x] = 0 + 1
BY DEF BagToSet, SetToBag, (+)

(* Other copies of an element are as many as before.                       *)
AsMany(B, C, e) == C[e] = B[e] + 0

(* The copies of another element stay.                                     *)
LEMMA BagKeeps ==
  ASSUME NEW B, NEW x, NEW e \in BagToSet(B), e # x
  PROVE  AsMany(B, B (+) SetToBag({x}), e)
BY DEF BagToSet, SetToBag, (+), AsMany

(* One copy less.                                                          *)
LEMMA BagDrops ==
  ASSUME NEW B, NEW x
  PROVE  LET C == B (-) SetToBag({x}) IN
         /\ BagToSet(C) \subseteq BagToSet(B)
         /\ \A e \in BagToSet(C) : e # x => C[e] = B[e]
         /\ \A e \in BagToSet(B) : e # x /\ B[e] > 0 => e \in BagToSet(C)
         /\ x \in BagToSet(B) /\ B[x] = 1 => x \notin BagToSet(C)
BY DEF BagToSet, SetToBag, (-)

(* Nothing is in the empty ones.                                           *)
LEMMA Empties == BagToSet(EmptyBag) = {} /\ ToSet(<<>>) = {}
BY DEF BagToSet, EmptyBag, SetToBag, ToSet

(* A list and one element more.                                            *)
LEMMA AppendSet ==
  ASSUME NEW R, NEW s \in Seq(R), NEW e \in R
  PROVE  /\ Append(s, e) \in Seq(R) /\ Append(s, e) # <<>>
         /\ ToSet(Append(s, e)) = ToSet(s) \cup {e}
         /\ Last(Append(s, e)) = e
         /\ s # <<>> => Head(Append(s, e)) = Head(s)
<1>1. /\ Append(s, e) \in Seq(R) /\ Len(Append(s, e)) = Len(s) + 1 /\ Len(s) \in Nat
      /\ \A i \in 1..Len(s) : Append(s, e)[i] = s[i]
      /\ Append(s, e)[Len(s) + 1] = e
      /\ DOMAIN s = 1..Len(s)
      /\ DOMAIN Append(s, e) = 1..(Len(s) + 1)
  BY AppendProperties, LenProperties
<1> DEFINE t == Append(s, e)
<1> HIDE DEF t
<1>2. ToSet(t) = ToSet(s) \cup {e}
  BY <1>1 DEF ToSet, t
<1>3. t # <<>> /\ Last(t) = e
  BY <1>1 DEF Last, t
<1>4. s # <<>> => Head(t) = Head(s)
  BY <1>1, EmptySeq, HeadTailProperties DEF t
<1> QED BY <1>1, <1>2, <1>3, <1>4 DEF t

(* A list without its first element ...                                    *)
LEMMA TailSet ==
  ASSUME NEW R, NEW s \in Seq(R), s # <<>>
  PROVE  /\ Head(s) \in ToSet(s) /\ Head(s) \in R
         /\ Tail(s) \in Seq(R) /\ ToSet(Tail(s)) \subseteq ToSet(s)
<1>1. /\ Head(s) = s[1] /\ Tail(s) \in Seq(R) /\ Len(Tail(s)) = Len(s) - 1
      /\ Len(s) \in Nat /\ Len(s) # 0
      /\ \A i \in 1..Len(Tail(s)) : Tail(s)[i] = s[i+1]
      /\ DOMAIN s = 1..Len(s) /\ DOMAIN Tail(s) = 1..(Len(s) - 1)
  BY HeadTailProperties, LenProperties, EmptySeq
<1>2. s[1] \in R
  BY <1>1
<1> QED BY <1>1, <1>2 DEF ToSet

(* ... and without its last one.                                           *)
LEMMA FrontSet ==
  ASSUME NEW R, NEW s \in Seq(R), s # <<>>
  PROVE  /\ Last(s) \in ToSet(s) /\ Last(s) \in R
         /\ Front(s) \in Seq(R) /\ ToSet(Front(s)) \subseteq ToSet(s)
<1>1. Len(s) \in Nat /\ Len(s) # 0 /\ DOMAIN s = 1..Len(s)
  BY LenProperties, EmptySeq
<1>2. PICK f \in Seq(R), e \in R : s = Append(f, e)
  BY SequenceEmptyOrAppend
<1>3. Front(s) = f /\ Last(s) = e
  BY <1>2, AppendProperties, AppendInjective, LenProperties DEF Front, Last
<1> QED BY <1>2, <1>3, AppendSet

(* Two lists, one after the other.                                         *)
LEMMA ConcatSet ==
  ASSUME NEW R, NEW s \in Seq(R), NEW t \in Seq(R)
  PROVE  s \o t \in Seq(R) /\ ToSet(s \o t) = ToSet(s) \cup ToSet(t)
<1>1. /\ s \o t \in Seq(R) /\ Len(s \o t) = Len(s) + Len(t)
      /\ \A i \in 1..(Len(s) + Len(t)) : (s \o t)[i] = IF i <= Len(s) THEN s[i] ELSE t[i - Len(s)]
      /\ DOMAIN s = 1..Len(s) /\ DOMAIN t = 1..Len(t) /\ Len(s) \in Nat /\ Len(t) \in Nat
      /\ DOMAIN (s \o t) = 1..(Len(s) + Len(t))
  BY ConcatProperties, LenProperties
<1> DEFINE c == s \o t
<1> HIDE DEF c
<1>2. ASSUME NEW x \in ToSet(c) PROVE x \in ToSet(s) \cup ToSet(t)
  BY <1>1 DEF ToSet, c
<1>3. ASSUME NEW i \in DOMAIN s PROVE i \in DOMAIN c /\ c[i] = s[i]
  BY <1>1 DEF c
<1>4. ASSUME NEW i \in DOMAIN t PROVE Len(s) + i \in DOMAIN c /\ c[Len(s) + i] = t[i]
  BY <1>1 DEF c
<1>5. ToSet(c) = ToSet(s) \cup ToSet(t)
  BY <1>2, <1>3, <1>4 DEF ToSet
<1> QED BY <1>1, <1>5 DEF c

(* A list of copies.                                                       *)
LEMMA Repeated ==
  ASSUME NEW R, NEW r \in R, NEW k \in Nat
  PROVE  /\ [i \in 1..k |-> r] \in Seq(R)
         /\ ToSet([i \in 1..k |-> r]) \subseteq {r}
<1> DEFINE g == [i \in 1..k |-> r]
<1>1. g \in Seq(R)
  OBVIOUS
<1>2. ToSet(g) \subseteq {r}
  BY DEF ToSet
<1> QED BY <1>1, <1>2

(* The elements of a list are of its type.                                 *)
LEMMA SeqSet ==
  ASSUME NEW R, NEW s \in Seq(R)
  PROVE  ToSet(s) \subseteq R
BY LenProperties DEF ToSet
-----------------------------------------------------------------------------
(* Requests.                                                               *)
Lists     == UNION {[S -> SUBSET Nodes] : S \in SUBSET Nodes}
Requests  == [s: Searches, hops: Int, el: Lists, wb: Seq(Nodes)]
Responses == [s: Searches \ Ends, node: Nodes, at: Nodes, wb: Seq(Nodes)]
Calls     == [op: {"RegisterNode", "UnregisterNode"}, at: Nodes, node: Nodes]

ListsOK == neighborsList \in [Nodes -> [Nodes -> Nat]]
AsksOK == asks \in [Nodes -> [Nodes -> Seq(Requests)]]

(* The requests on their way from m to n.                                  *)
Way(m, n) == ToSet(asks[m][n])

(* An exploration list gets one node more, whichever list is cleared.      *)
LEMMA ListAdds ==
  ASSUME NEW el \in Lists, NEW n \in Nodes, NEW S \in SUBSET Nodes,
         NEW x \in addListNode(el, n, S)
  PROVE  x \in Lists /\ DOMAIN x = DOMAIN el \cup {n}
<1> DEFINE all == [y \in DOMAIN el \cup {n} |-> IF y \in DOMAIN el THEN el[y] ELSE S]
<1>0. DOMAIN el \subseteq Nodes /\ el \in [DOMAIN el -> SUBSET Nodes]
  BY DEF Lists
<1>1. all \in [DOMAIN el \cup {n} -> SUBSET Nodes]
  BY <1>0
<1> HIDE DEF all
<1>2. \/ x = all
      \/ \E k \in DOMAIN all : x = [all EXCEPT ![k] = {}]
  BY DEF addListNode, all
<1>3. x \in [DOMAIN el \cup {n} -> SUBSET Nodes]
  BY <1>1, <1>2
<1> QED BY <1>0, <1>3 DEF Lists

(* The exploration list of a request that was not sent yet.                *)
LEMMA NoList == <<>> \in Lists /\ DOMAIN <<>> = {} /\ \A n : ~isIn(<<>>, n)
<1>1. DOMAIN <<>> = {}
  OBVIOUS
<1>2. <<>> \in [{} -> SUBSET Nodes]
  BY <1>1
<1> QED BY <1>1, <1>2 DEF Lists, isIn

(* The request knows the nodes of its exploration list.                    *)
LEMMA ListedIn == ASSUME NEW el, NEW n, n \in DOMAIN el PROVE isIn(el, n)
BY DEF isIn

(* What is sent on.                                                        *)
SentAs(out, q, old, T, y) ==
  /\ out[y] \in Seq(Requests) /\ ToSet(out[y]) \subseteq {q}
  /\ out[y] # <<>> => y \in T /\ MayPropagate(q.hops) /\ ~isIn(old, y)

(* A node forwards one request, to those that it does not know of.         *)
LEMMA Sends ==
  ASSUME NEW x \in Nodes, NEW q \in Requests, NEW old, NEW T, NEW y \in Nodes,
         ListsOK, NEW out, out = Forwarded(x, q, old, T)
  PROVE  SentAs(out, q, old, T, y)
<1> USE DEF SentAs
<1> DEFINE c == y \in T /\ MayPropagate(q.hops) /\ ~isIn(old, y)
           g == [i \in 1..neighborsList[x][y] |-> q]
           f == out[y]
<1>1. f = IF c THEN g ELSE <<>>
  BY DEF Forwarded
<1>2. g \in Seq(Requests) /\ ToSet(g) \subseteq {q}
  <2>1. neighborsList[x][y] \in Nat
    BY DEF ListsOK
  <2> QED BY <2>1, Repeated
<1>3. <<>> \in Seq(Requests) /\ ToSet(<<>>) = {}
  BY EmptySeq, Empties
<1> QED BY <1>1, <1>2, <1>3

(* n sends r to p, on behalf of a launch ...                               *)
First(s, n, p, f) ==
  /\ n = Origin[s] /\ p \in NeighborsOf(n)
  /\ f.s = s /\ f.hops = Decremented(Hops[s]) /\ MayPropagate(f.hops)
  /\ DOMAIN f.el = {n}
  /\ f.wb = IF s \in Ends THEN <<>> ELSE <<n>>

(* ... and after a visit.                                                  *)
Onward(r, n, p, f) ==
  /\ p \in NeighborsOf(n) /\ ~isIn(r.el, p)
  /\ f.s = r.s /\ f.hops = Decremented(r.hops) /\ MayPropagate(f.hops)
  /\ DOMAIN f.el = DOMAIN r.el \cup {n}
  /\ f.wb = IF r.s \in Ends THEN r.wb ELSE Append(r.wb, n)

(* A depth stays a number.                                                 *)
LEMMA DecrementedInt == ASSUME NEW h \in Int, DiscoveryAssumption PROVE Decremented(h) \in Int
BY DEF Decremented

(* A row of asks to which more is appended.                                *)
Table == [Nodes -> [Nodes -> Seq(Requests)]]
Grown(t, x, out, u) ==
  \A m, p \in Nodes : ToSet(u[m][p]) = ToSet(t[m][p]) \cup (IF m = x THEN ToSet(out[p]) ELSE {})

Extended(t, x, out) == [t EXCEPT ![x] = [p \in Nodes |-> @[p] \o out[p]]]

(* Nothing else changes in the table.                                      *)
LEMMA RowGrows ==
  ASSUME NEW t \in Table, NEW x \in Nodes,
         NEW out, \A p \in Nodes : out[p] \in Seq(Requests),
         NEW u, u = Extended(t, x, out)
  PROVE  u \in Table /\ Grown(t, x, out, u)
<1> USE DEF Table, Grown
<1> DEFINE row == [p \in Nodes |-> t[x][p] \o out[p]]
<1>0. u = [t EXCEPT ![x] = row]
  BY DEF Extended
<1>1. ASSUME NEW p \in Nodes
      PROVE  row[p] \in Seq(Requests) /\ ToSet(row[p]) = ToSet(t[x][p]) \cup ToSet(out[p])
  <2>1. t[x][p] \in Seq(Requests) /\ out[p] \in Seq(Requests)
    OBVIOUS
  <2>2. row[p] = t[x][p] \o out[p]
    OBVIOUS
  <2> HIDE DEF row
  <2> QED BY <2>1, <2>2, ConcatSet
<1>2. row \in [Nodes -> Seq(Requests)]
  BY <1>1
<1> HIDE DEF row
<1>3. u \in [Nodes -> [Nodes -> Seq(Requests)]]
  BY <1>0, <1>2
<1>4. ASSUME NEW m \in Nodes, NEW p \in Nodes
      PROVE  ToSet(u[m][p]) = ToSet(t[m][p]) \cup (IF m = x THEN ToSet(out[p]) ELSE {})
  BY <1>0, <1>1
<1> QED BY <1>3, <1>4

(* A request is taken.                                                     *)
LEMMA TakenAway ==
  ASSUME AsksOK, NEW m \in Nodes, NEW n \in Nodes, asks[m][n] # <<>>
  PROVE  /\ Taken(m, n) \in [Nodes -> [Nodes -> Seq(Requests)]]
         /\ \A a, b \in Nodes : ToSet(Taken(m, n)[a][b]) \subseteq Way(a, b)
         /\ Head(asks[m][n]) \in Way(m, n) /\ Head(asks[m][n]) \in Requests
<1>1. asks[m][n] \in Seq(Requests)
  BY DEF AsksOK
<1>2. /\ Head(asks[m][n]) \in Way(m, n) /\ Head(asks[m][n]) \in Requests
      /\ Tail(asks[m][n]) \in Seq(Requests) /\ ToSet(Tail(asks[m][n])) \subseteq Way(m, n)
  BY <1>1, TailSet DEF Way
<1>3. \A a, b \in Nodes : Taken(m, n)[a][b] = IF a = m /\ b = n THEN Tail(asks[m][n]) ELSE asks[a][b]
  BY DEF AsksOK, Taken
<1>4. Taken(m, n) \in [Nodes -> [Nodes -> Seq(Requests)]]
  BY <1>2 DEF AsksOK, Taken
<1> QED BY <1>2, <1>3, <1>4 DEF Way

(* A launch sends its request to neighbours of its origin.                 *)
LEMMA ForwardsFirst ==
  ASSUME DiscoveryAssumption, AsksOK, NEW s \in Searches, ForwardFirst(s),
         ListsOK, listed \in [Searches -> SUBSET Nodes]
  PROVE  /\ AsksOK'
         /\ \A a, b \in Nodes : \A f \in Way(a, b)' : f \in Way(a, b) \/ First(s, a, b, f)
<1> DEFINE n == Origin[s]
<1>1. n \in Nodes
  BY DEF DiscoveryAssumption
<1>2. PICK targets \in SUBSET (NeighborsOf(n) \ dead), el \in addListNode(<<>>, n, listed[s]) :
        asks' = [asks EXCEPT ![n] = [m \in Nodes |-> @[m] \o
            Forwarded(n, [s |-> s, hops |-> Decremented(Hops[s]), el |-> el,
                          wb |-> IF s \in Ends THEN <<>> ELSE <<n>>], <<>>, targets)[m]]]
  BY DEF ForwardFirst
<1> DEFINE r == [s |-> s, hops |-> Decremented(Hops[s]), el |-> el,
                 wb |-> IF s \in Ends THEN <<>> ELSE <<n>>]
           F == Forwarded(n, r, <<>>, targets)
<1>3. el \in Lists /\ DOMAIN el = {n}
  <2>1. listed[s] \in SUBSET Nodes
    OBVIOUS
  <2>2. el \in Lists /\ DOMAIN el = DOMAIN <<>> \cup {n}
    BY <1>1, <2>1, NoList, ListAdds
  <2> QED BY <2>2, NoList
<1>4. r \in Requests
  <2>1. Decremented(Hops[s]) \in Int
    BY DecrementedInt DEF DiscoveryAssumption
  <2>2. (IF s \in Ends THEN <<>> ELSE <<n>>) \in Seq(Nodes)
    BY <1>1
  <2> QED BY <1>3, <2>1, <2>2 DEF Requests
<1>5. r.s = s /\ r.hops = Decremented(Hops[s]) /\ r.el = el /\ r.wb = IF s \in Ends THEN <<>> ELSE <<n>>
  OBVIOUS
<1> HIDE DEF r
<1>6. ASSUME NEW p \in Nodes
      PROVE  /\ F[p] \in Seq(Requests) /\ ToSet(F[p]) \subseteq {r}
             /\ F[p] # <<>> => p \in targets /\ MayPropagate(r.hops)
  <2>1. F = Forwarded(n, r, <<>>, targets)
    OBVIOUS
  <2> HIDE DEF n, F
  <2>2. SentAs(F, r, <<>>, targets, p)
    BY <1>1, <1>4, <2>1, Sends
  <2> QED BY <2>2 DEF SentAs
<1>7. asks' = Extended(asks, n, F)
  BY <1>2 DEF r, Extended
<1> HIDE DEF F, n
<1>8. /\ asks' \in [Nodes -> [Nodes -> Seq(Requests)]]
      /\ \A a, b \in Nodes : ToSet(asks'[a][b]) = ToSet(asks[a][b]) \cup (IF a = n THEN ToSet(F[b]) ELSE {})
  <2>1. asks \in [Nodes -> [Nodes -> Seq(Requests)]]
    BY DEF AsksOK
  <2>2. \A p \in Nodes : F[p] \in Seq(Requests)
    BY <1>6
  <2>3. asks \in Table
    BY <2>1 DEF Table
  <2>4. asks' \in Table /\ Grown(asks, n, F, asks')
    BY <1>1, <1>7, <2>3, <2>2, RowGrows
  <2> QED BY <2>4 DEF Table, Grown
<1>9. ASSUME NEW a \in Nodes, NEW b \in Nodes, NEW f \in Way(a, b)', f \notin Way(a, b)
      PROVE  First(s, a, b, f)
  <2>1. a = n /\ f \in ToSet(F[b])
    <3>1. f \in ToSet(asks'[a][b]) /\ f \notin ToSet(asks[a][b])
      BY <1>9 DEF Way
    <3>2. ToSet(asks'[a][b]) = ToSet(asks[a][b]) \cup (IF a = n THEN ToSet(F[b]) ELSE {})
      BY <1>8
    <3> QED BY <3>1, <3>2
  <2>2. f = r /\ F[b] # <<>>
    BY <2>1, <1>6, Empties
  <2>3. b \in NeighborsOf(n)
    BY <2>2, <1>6
  <2> QED BY <2>1, <2>2, <2>3, <1>3, <1>5, <1>6 DEF First, n
<1> QED BY <1>8, <1>9 DEF AsksOK

(* A visit takes a request and sends it on.                                *)
LEMMA VisitsOnward ==
  ASSUME DiscoveryAssumption, AsksOK, NEW m \in Nodes, NEW n \in Nodes, Visit(m, n),
         ListsOK
  PROVE  /\ AsksOK'
         /\ Head(asks[m][n]) \in Way(m, n) /\ Head(asks[m][n]) \in Requests
         /\ \A a, b \in Nodes : \A f \in Way(a, b)' :
              f \in Way(a, b) \/ (a = n /\ Onward(Head(asks[m][n]), n, b, f))
<1> DEFINE r == Head(asks[m][n])
           A == Taken(m, n)
<1>1. /\ A \in [Nodes -> [Nodes -> Seq(Requests)]]
      /\ \A a, b \in Nodes : ToSet(A[a][b]) \subseteq Way(a, b)
      /\ r \in Way(m, n) /\ r \in Requests
  BY TakenAway DEF Visit
<1>2. CASE asks' = A
  <2> HIDE DEF A, r
  <2> SUFFICES ASSUME TRUE
      PROVE  AsksOK' /\ \A a, b \in Nodes : \A f \in Way(a, b)' : f \in Way(a, b)
    BY <1>1 DEF r
  <2> QED BY <1>1, <1>2 DEF AsksOK, Way
<1>3. ASSUME NEW el \in addListNode(r.el, n, NeighborsOf(n)),
             LET fwd == [r EXCEPT !.el = el, !.hops = Decremented(@),
                                  !.wb = IF r.s \in Ends THEN @ ELSE Append(@, n)] IN
             asks' = [A EXCEPT ![n] = [p \in Nodes |-> @[p] \o Forwarded(n, fwd, r.el, NeighborsOf(n))[p]]]
      PROVE  /\ AsksOK'
             /\ \A a, b \in Nodes : \A f \in Way(a, b)' : f \in Way(a, b) \/ (a = n /\ Onward(r, n, b, f))
  <2> DEFINE fwd == [r EXCEPT !.el = el, !.hops = Decremented(@),
                              !.wb = IF r.s \in Ends THEN @ ELSE Append(@, n)]
             F == Forwarded(n, fwd, r.el, NeighborsOf(n))
  <2>1. el \in Lists /\ DOMAIN el = DOMAIN r.el \cup {n}
    <3>1. NeighborsOf(n) \in SUBSET Nodes /\ r.el \in Lists
      BY <1>1 DEF NeighborsOf, Requests
    <3> QED BY <3>1, ListAdds
  <2>2. r.s \in Searches /\ r.hops \in Int /\ r.wb \in Seq(Nodes) /\ Append(r.wb, n) \in Seq(Nodes)
    BY <1>1, AppendSet DEF Requests
  <2>3. /\ fwd \in Requests /\ fwd.s = r.s /\ fwd.el = el /\ fwd.hops = Decremented(r.hops)
        /\ fwd.wb = IF r.s \in Ends THEN r.wb ELSE Append(r.wb, n)
    BY <1>1, <2>1, <2>2, DecrementedInt DEF Requests
  <2> HIDE DEF fwd
  <2>4. ASSUME NEW p \in Nodes
        PROVE  /\ F[p] \in Seq(Requests) /\ ToSet(F[p]) \subseteq {fwd}
               /\ F[p] # <<>> => p \in NeighborsOf(n) /\ MayPropagate(fwd.hops) /\ ~isIn(r.el, p)
    <3>1. F = Forwarded(n, fwd, r.el, NeighborsOf(n))
      OBVIOUS
    <3> HIDE DEF r, F
    <3>2. SentAs(F, fwd, r.el, NeighborsOf(n), p)
      BY <2>3, <3>1, Sends
    <3> QED BY <3>2 DEF SentAs
  <2>5. asks' = Extended(A, n, F)
    BY <1>3 DEF fwd, Extended
  <2> HIDE DEF F, A, r
  <2>6. /\ asks' \in [Nodes -> [Nodes -> Seq(Requests)]]
        /\ \A a, b \in Nodes : ToSet(asks'[a][b]) = ToSet(A[a][b]) \cup (IF a = n THEN ToSet(F[b]) ELSE {})
    <3>1. \A p \in Nodes : F[p] \in Seq(Requests)
      BY <2>4
    <3>2. A \in Table
      BY <1>1 DEF Table
    <3>3. asks' \in Table /\ Grown(A, n, F, asks')
      BY <2>5, <3>1, <3>2, RowGrows
    <3> QED BY <3>3 DEF Table, Grown
  <2>7. ASSUME NEW a \in Nodes, NEW b \in Nodes, NEW f \in Way(a, b)', f \notin Way(a, b)
        PROVE  a = n /\ Onward(r, n, b, f)
    <3>1. a = n /\ f \in ToSet(F[b])
      <4>1. f \in ToSet(asks'[a][b])
        BY <2>7 DEF Way
      <4> QED BY <1>1, <2>6, <2>7, <4>1
    <3>2. f = fwd /\ F[b] # <<>>
      BY <3>1, <2>4, Empties
    <3> QED BY <3>1, <3>2, <2>1, <2>3, <2>4 DEF Onward
  <2> QED BY <2>6, <2>7 DEF AsksOK
<1> QED BY <1>1, <1>2, <1>3 DEF Visit

-----------------------------------------------------------------------------
(* Which steps change what.                                                *)
LEMMA AsksWriters ==
  ASSUME [Next]_vars, asks' # asks
  PROVE  \/ \E s \in Searches : ForwardFirst(s)
         \/ \E m, n \in Nodes : AlreadyAsked(m, n) \/ Visit(m, n)
<1> USE DEF vars, treeVars, waitVars, worldVars
<1>1. \A s \in Searches : ~Launch(s) /\ ~InitSem(s) /\ ~Woken(s) /\ ~SleptEnough(s) /\ ~TimerFires(s)
  BY DEF Launch, InitSem, Woken, SleptEnough, TimerFires, Collect
<1>2. \A n \in Nodes : ~unlockDiscovery(n) /\ ~Die(n)
  BY DEF unlockDiscovery, Die
<1>3. \A l \in Parents : ~SelfRegister(l[1], l[2])
  BY DEF SelfRegister
<1>4. \A j \in BagToSet(jobmgr) : ~JobMgrStep(j)
  BY DEF JobMgrStep
<1>5. \A m \in BagToSet(mail) : ~Receive(m)
  BY DEF Receive, rerouteResponse, callbackResult
<1> QED BY <1>1, <1>2, <1>3, <1>4, <1>5 DEF Next, Goes, LaunchStep, Serve

(* The lists of neighbours, and the calls to change them.                  *)
LEMMA ListsWriters ==
  ASSUME [Next]_vars, ~UNCHANGED <<neighborsList, jobmgr>>
  PROVE  \/ \E m, n \in Nodes : AlreadyAsked(m, n)
         \/ \E j \in BagToSet(jobmgr) : JobMgrStep(j)
         \/ \E l \in Parents : SelfRegister(l[1], l[2])
<1> USE DEF vars, treeVars, waitVars, worldVars
<1>1. \A s \in Searches : ~Launch(s) /\ ~ForwardFirst(s) /\ ~InitSem(s) /\ ~Woken(s) /\ ~SleptEnough(s) /\ ~TimerFires(s)
  BY DEF Launch, ForwardFirst, InitSem, Woken, SleptEnough, TimerFires, Collect
<1>2. \A m, n \in Nodes : ~Visit(m, n)
  BY DEF Visit
<1>3. \A m \in BagToSet(mail) : ~rerouteResponse(m) /\ ~callbackResult(m)
  BY DEF rerouteResponse, callbackResult
<1>4. \A n \in Nodes : ~unlockDiscovery(n) /\ ~Die(n)
  BY DEF unlockDiscovery, Die
<1> QED BY <1>1, <1>2, <1>3, <1>4 DEF Next, Goes, LaunchStep, Serve, Receive

(* The histories.                                                          *)
LEMMA KnownWriters ==
  ASSUME [Next]_vars, ~UNCHANGED knownRequests
  PROVE  \/ \E s \in Searches : Launch(s)
         \/ \E m, n \in Nodes : Visit(m, n)
<1> USE DEF vars, treeVars, waitVars, worldVars
<1>1. \A s \in Searches : ~ForwardFirst(s) /\ ~InitSem(s) /\ ~Woken(s) /\ ~SleptEnough(s) /\ ~TimerFires(s)
  BY DEF ForwardFirst, InitSem, Woken, SleptEnough, TimerFires, Collect
<1>2. \A m, n \in Nodes : ~AlreadyAsked(m, n)
  BY DEF AlreadyAsked
<1>3. \A m \in BagToSet(mail) : ~rerouteResponse(m) /\ ~callbackResult(m)
  BY DEF rerouteResponse, callbackResult
<1>4. \A j \in BagToSet(jobmgr) : ~JobMgrStep(j)
  BY DEF JobMgrStep
<1>5. \A n \in Nodes : ~unlockDiscovery(n) /\ ~Die(n)
  BY DEF unlockDiscovery, Die
<1>6. \A l \in Parents : ~SelfRegister(l[1], l[2])
  BY DEF SelfRegister
<1> QED BY <1>1, <1>2, <1>3, <1>4, <1>5, <1>6 DEF Next, Goes, LaunchStep, Serve, Receive

(* The responses under way.                                                *)
LEMMA MailWriters ==
  ASSUME [Next]_vars, ~UNCHANGED mail
  PROVE  \/ \E s \in Searches : Launch(s)
         \/ \E m, n \in Nodes : Visit(m, n)
         \/ \E m \in BagToSet(mail) : rerouteResponse(m) \/ callbackResult(m)
<1> USE DEF vars, treeVars, waitVars, worldVars
<1>1. \A s \in Searches : ~ForwardFirst(s) /\ ~InitSem(s) /\ ~Woken(s) /\ ~SleptEnough(s) /\ ~TimerFires(s)
  BY DEF ForwardFirst, InitSem, Woken, SleptEnough, TimerFires, Collect
<1>2. \A m, n \in Nodes : ~AlreadyAsked(m, n)
  BY DEF AlreadyAsked
<1>3. \A j \in BagToSet(jobmgr) : ~JobMgrStep(j)
  BY DEF JobMgrStep
<1>4. \A n \in Nodes : ~unlockDiscovery(n) /\ ~Die(n)
  BY DEF unlockDiscovery, Die
<1>5. \A l \in Parents : ~SelfRegister(l[1], l[2])
  BY DEF SelfRegister
<1> QED BY <1>1, <1>2, <1>3, <1>4, <1>5 DEF Next, Goes, LaunchStep, Serve, Receive

(* The answers.                                                            *)
LEMMA AnswerWriters ==
  ASSUME [Next]_vars, ~UNCHANGED <<actualReq, found>>
  PROVE  \/ \E s \in Searches : Launch(s) \/ Woken(s) \/ SleptEnough(s)
         \/ \E m \in BagToSet(mail) : callbackResult(m)
<1> USE DEF vars, treeVars, waitVars, worldVars
<1>1. \A s \in Searches : ~ForwardFirst(s) /\ ~InitSem(s) /\ ~TimerFires(s)
  BY DEF ForwardFirst, InitSem, TimerFires
<1>2. \A m, n \in Nodes : ~AlreadyAsked(m, n) /\ ~Visit(m, n)
  <2>1. \A m, n \in Nodes : ~AlreadyAsked(m, n)
    BY DEF AlreadyAsked
  <2>2. \A m, n \in Nodes : ~Visit(m, n)
    BY DEF Visit
  <2> QED BY <2>1, <2>2
<1>3. \A m \in BagToSet(mail) : ~rerouteResponse(m)
  BY DEF rerouteResponse
<1>4. \A j \in BagToSet(jobmgr) : ~JobMgrStep(j)
  BY DEF JobMgrStep
<1>5. \A n \in Nodes : ~unlockDiscovery(n) /\ ~Die(n)
  BY DEF unlockDiscovery, Die
<1>6. \A l \in Parents : ~SelfRegister(l[1], l[2])
  BY DEF SelfRegister
<1> QED BY <1>1, <1>2, <1>3, <1>4, <1>5, <1>6 DEF Next, Goes, LaunchStep, Serve, Receive

(* Where a launch is.                                                      *)
LEMMA PhaseWriters ==
  ASSUME [Next]_vars, ~UNCHANGED <<phase, listed>>
  PROVE  \E s \in Searches : Launch(s) \/ ForwardFirst(s) \/ InitSem(s) \/ Woken(s) \/ SleptEnough(s)
<1> USE DEF vars, treeVars, waitVars, worldVars
<1>1. \A s \in Searches : ~TimerFires(s)
  BY DEF TimerFires
<1>2. \A m, n \in Nodes : ~AlreadyAsked(m, n) /\ ~Visit(m, n)
  <2>1. \A m, n \in Nodes : ~AlreadyAsked(m, n)
    BY DEF AlreadyAsked
  <2>2. \A m, n \in Nodes : ~Visit(m, n)
    BY DEF Visit
  <2> QED BY <2>1, <2>2
<1>3. \A m \in BagToSet(mail) : ~rerouteResponse(m) /\ ~callbackResult(m)
  BY DEF rerouteResponse, callbackResult
<1>4. \A j \in BagToSet(jobmgr) : ~JobMgrStep(j)
  BY DEF JobMgrStep
<1>5. \A n \in Nodes : ~unlockDiscovery(n) /\ ~Die(n)
  BY DEF unlockDiscovery, Die
<1>6. \A l \in Parents : ~SelfRegister(l[1], l[2])
  BY DEF SelfRegister
<1> QED BY <1>1, <1>2, <1>3, <1>4, <1>5, <1>6 DEF Next, Goes, LaunchStep, Serve, Receive

(* What a launch waits for.                                                *)
LEMMA WaitWriters ==
  ASSUME [Next]_vars, ~UNCHANGED <<locker, timer, unlocks>>
  PROVE  \/ \E s \in Searches : InitSem(s) \/ Woken(s) \/ TimerFires(s)
         \/ \E m \in BagToSet(mail) : callbackResult(m)
         \/ \E n \in Nodes : unlockDiscovery(n)
<1> USE DEF vars, treeVars, waitVars, worldVars
<1>1. \A s \in Searches : ~Launch(s) /\ ~ForwardFirst(s) /\ ~SleptEnough(s)
  BY DEF Launch, ForwardFirst, SleptEnough, Collect
<1>2. \A m, n \in Nodes : ~AlreadyAsked(m, n) /\ ~Visit(m, n)
  <2>1. \A m, n \in Nodes : ~AlreadyAsked(m, n)
    BY DEF AlreadyAsked
  <2>2. \A m, n \in Nodes : ~Visit(m, n)
    BY DEF Visit
  <2> QED BY <2>1, <2>2
<1>3. \A m \in BagToSet(mail) : ~rerouteResponse(m)
  BY DEF rerouteResponse
<1>4. \A j \in BagToSet(jobmgr) : ~JobMgrStep(j)
  BY DEF JobMgrStep
<1>5. \A n \in Nodes : ~Die(n)
  BY DEF Die
<1>6. \A l \in Parents : ~SelfRegister(l[1], l[2])
  BY DEF SelfRegister
<1> QED BY <1>1, <1>2, <1>3, <1>4, <1>5, <1>6 DEF Next, Goes, LaunchStep, Serve, Receive

(* The world.                                                              *)
LEMMA WorldWriters ==
  ASSUME [Next]_vars, ~UNCHANGED worldVars
  PROVE  \/ \E n \in Nodes : Die(n)
         \/ \E l \in Parents : SelfRegister(l[1], l[2])
<1> USE DEF vars, treeVars, waitVars, worldVars
<1>1. \A s \in Searches : ~Launch(s) /\ ~ForwardFirst(s) /\ ~InitSem(s) /\ ~Woken(s) /\ ~SleptEnough(s) /\ ~TimerFires(s)
  BY DEF Launch, ForwardFirst, InitSem, Woken, SleptEnough, TimerFires, Collect
<1>2. \A m, n \in Nodes : ~AlreadyAsked(m, n) /\ ~Visit(m, n)
  <2>1. \A m, n \in Nodes : ~AlreadyAsked(m, n)
    BY DEF AlreadyAsked
  <2>2. \A m, n \in Nodes : ~Visit(m, n)
    BY DEF Visit
  <2> QED BY <2>1, <2>2
<1>3. \A m \in BagToSet(mail) : ~rerouteResponse(m) /\ ~callbackResult(m)
  BY DEF rerouteResponse, callbackResult
<1>4. \A j \in BagToSet(jobmgr) : ~JobMgrStep(j)
  BY DEF JobMgrStep
<1>5. \A n \in Nodes : ~unlockDiscovery(n)
  BY DEF unlockDiscovery
<1> QED BY <1>1, <1>2, <1>3, <1>4, <1>5 DEF Next, Goes, LaunchStep, Serve, Receive

(* What is told of an end.                                                 *)
LEMMA EndedWriters ==
  ASSUME [Next]_vars, ~UNCHANGED <<ended, met>>
  PROVE  \/ \E s \in Searches : Launch(s) \/ ForwardFirst(s)
         \/ \E m, n \in Nodes : Visit(m, n)
         \/ \E l \in Parents : SelfRegister(l[1], l[2])
<1> USE DEF vars, treeVars, waitVars, worldVars
<1>1. \A s \in Searches : ~InitSem(s) /\ ~Woken(s) /\ ~SleptEnough(s) /\ ~TimerFires(s)
  BY DEF InitSem, Woken, SleptEnough, TimerFires, Collect
<1>2. \A m, n \in Nodes : ~AlreadyAsked(m, n)
  BY DEF AlreadyAsked
<1>3. \A m \in BagToSet(mail) : ~rerouteResponse(m) /\ ~callbackResult(m)
  BY DEF rerouteResponse, callbackResult
<1>4. \A j \in BagToSet(jobmgr) : ~JobMgrStep(j)
  BY DEF JobMgrStep
<1>5. \A n \in Nodes : ~unlockDiscovery(n) /\ ~Die(n)
  BY DEF unlockDiscovery, Die
<1> QED BY <1>1, <1>2, <1>3, <1>4, <1>5 DEF Next, Goes, LaunchStep, Serve, Receive

-----------------------------------------------------------------------------
(* The types, with what they need.                                         *)
Started == {s \in Searches : phase[s] # "idle"}

WorldOK == fitting \subseteq Nodes /\ dead \subseteq Nodes /\ registers \in Nat
CountOK == IsFiniteSet(dead) /\ IsFiniteSet(Started) /\ Events <= MaxEvents

LinksOK ==
  /\ ListsOK /\ \A n \in Nodes : neighborsList[n][n] = 0
  /\ BagToSet(jobmgr) \subseteq Calls /\ \A j \in BagToSet(jobmgr) : j.at # j.node

KnownOK ==
  /\ knownRequests \in [Nodes -> Seq(Searches \ Ends)]
  /\ \A n \in Nodes : Len(knownRequests[n]) <= MaxReqToSave

(* A request that m sends to n is not sent back, and knows its way.        *)
Travels(m, n, r) ==
  /\ m # n /\ n \notin DOMAIN r.el
  /\ r.s \notin Ends => r.wb # <<>> /\ Head(r.wb) = Origin[r.s] /\ Last(r.wb) = m
WaysOK == AsksOK /\ \A m, n \in Nodes : \A r \in Way(m, n) : Travels(m, n, r)

MailOK == BagToSet(mail) \subseteq Responses /\ \A j \in BagToSet(mail) : j.node \in fitting

Phases == {"idle", "listed", "asked", "waiting", "returned", "failed"}
LaunchOK ==
  /\ phase \in [Searches -> Phases]
  /\ listed \in [Searches -> SUBSET Nodes]

AnswersOK ==
  /\ actualReq \in [Searches -> {None} \cup Seq(Nodes)]
  /\ found \in [Searches -> Seq(Nodes)]
  /\ \A s \in Searches : phase[s] \in {"listed", "asked", "waiting"} => actualReq[s] # None

WaitOK ==
  /\ locker \in [Nodes -> Nat \cup {Overwritten}] /\ unlocks \in [Nodes -> Nat]
  /\ timer \in [Searches -> {"off", "running", "stopped", "fired"}]

EndedOK == ended \in [Searches -> SUBSET Nodes] /\ met \in BOOLEAN

DInv == /\ WorldOK /\ CountOK /\ LinksOK /\ KnownOK /\ WaysOK /\ MailOK
        /\ LaunchOK /\ AnswersOK /\ WaitOK /\ EndedOK

(* The types follow.                                                       *)
LEMMA DInvTypes == ASSUME DInv PROVE DiscoveryTypeOK
<1> USE DEF DInv
<1>1. \A n \in Nodes : ToSet(knownRequests[n]) \subseteq Searches \ Ends
  BY SeqSet DEF KnownOK
<1>2. ASSUME NEW m \in Nodes, NEW n \in Nodes, NEW i \in DOMAIN asks[m][n]
      PROVE  LET r == asks[m][n][i] IN
       /\ r.s \in Searches /\ r.hops \in Int
       /\ DOMAIN r.el \subseteq Nodes /\ n \notin DOMAIN r.el
       /\ r.s \notin Ends => r.wb # <<>> /\ Head(r.wb) = Origin[r.s] /\ Last(r.wb) = m
  <2> DEFINE r == asks[m][n][i]
  <2>1. r \in Way(m, n)
    BY DEF Way, ToSet
  <2>2. r \in Requests
    <3>1. asks[m][n] \in Seq(Requests)
      BY DEF WaysOK, AsksOK
    <3> QED BY <2>1, <3>1, SeqSet DEF Way
  <2>3. Travels(m, n, r)
    BY <2>1 DEF WaysOK
  <2> HIDE DEF r
  <2>4. DOMAIN r.el \subseteq Nodes
    BY <2>2 DEF Requests, Lists
  <2> QED BY <2>2, <2>3, <2>4 DEF Requests, Travels, r
<1> QED BY <1>1, <1>2 DEF DiscoveryTypeOK, WorldOK, CountOK, LinksOK, ListsOK, KnownOK,
                          LaunchOK, Phases, AnswersOK, WaitOK, EndedOK

(* They hold at the start.                                                 *)
LEMMA DInvInit == ASSUME DiscoveryAssumption, Init PROVE DInv
<1> USE DEF Init, DiscoveryAssumption
<1>1. WorldOK
  BY DEF WorldOK
<1>2. CountOK
  <2>1. Started = {}
    BY DEF Started
  <2>2. IsFiniteSet({}) /\ Cardinality({}) = 0
    BY FS_EmptySet
  <2>3. Events = registers + Cardinality(dead) + Cardinality(Started)
    BY DEF Events, Started
  <2> QED BY <2>1, <2>2, <2>3 DEF CountOK
<1>3. LinksOK
  BY Empties DEF LinksOK, ListsOK
<1>4. KnownOK
  BY EmptySeq DEF KnownOK
<1>5. WaysOK
  <2>1. AsksOK
    BY EmptySeq DEF AsksOK
  <2>2. \A m, n \in Nodes : Way(m, n) = {}
    BY Empties DEF Way
  <2> QED BY <2>1, <2>2 DEF WaysOK
<1>6. MailOK
  BY Empties DEF MailOK
<1>7. LaunchOK
  BY DEF LaunchOK, Phases
<1>8. AnswersOK
  BY EmptySeq DEF AnswersOK
<1>9. WaitOK /\ EndedOK
  BY DEF WaitOK, EndedOK
<1> QED BY <1>1, <1>2, <1>3, <1>4, <1>5, <1>6, <1>7, <1>8, <1>9 DEF DInv

-----------------------------------------------------------------------------
(* Each step preserves them.                                               *)

(* A response that is sent, if one is.                                     *)
Responds(s, n, j) == s \notin Ends /\ n \in fitting /\ j \in Responses /\ j.s = s /\ j.node = n

(* It answers this request, for this node.                                 *)
LEMMA Responded ==
  ASSUME DiscoveryAssumption, NEW s \in Searches, NEW n \in Nodes, NEW wb \in Seq(Nodes), Respond(s, n, wb)
  PROVE  \/ mail' = mail
         \/ \E j : Responds(s, n, j) /\ mail' = mail (+) SetToBag({j})
<1> DEFINE j == Response(s, n, wb)
<1>1. Origin[s] \in Nodes /\ <<>> \in Seq(Nodes) /\ Len(wb) \in Nat
  BY EmptySeq, LenProperties DEF DiscoveryAssumption
<1>2. Len(wb) > 1 => Last(wb) \in Nodes /\ Front(wb) \in Seq(Nodes)
  <2>1. Len(wb) > 1 => wb # <<>>
    BY EmptySeq
  <2> QED BY <2>1, FrontSet
<1>3. ASSUME s \notin Ends, n \in fitting PROVE Responds(s, n, j)
  <2>1. j \in Responses /\ j.s = s /\ j.node = n
    BY <1>1, <1>2, <1>3 DEF Response, Responses
  <2> QED BY <1>3, <2>1 DEF Responds
<1> QED BY <1>3 DEF Respond

(* Nodes die and register, and nothing else happens to the world.          *)
LEMMA StepWorld ==
  ASSUME DiscoveryAssumption, DInv, [Next]_vars PROVE WorldOK'
<1>1. CASE UNCHANGED worldVars
  BY <1>1 DEF worldVars, DInv, WorldOK
<1>2. ASSUME NEW n \in Nodes, Die(n) PROVE WorldOK'
  BY <1>2 DEF Die, DInv, WorldOK
<1>3. ASSUME NEW l \in Parents, SelfRegister(l[1], l[2]) PROVE WorldOK'
  BY <1>3 DEF SelfRegister, DInv, WorldOK
<1> QED BY <1>1, <1>2, <1>3, WorldWriters

(* What is started stays so; a launch counts one more.                     *)
LEMMA StepPhase ==
  ASSUME DiscoveryAssumption, DInv, [Next]_vars
  PROVE  LaunchOK' /\ (Started' = Started \/ \E s \in Searches : Launch(s) /\ Started' = Started \cup {s})
<1> USE DEF DInv, LaunchOK, Phases, Started
<1>1. CASE UNCHANGED <<phase, listed>>
  BY <1>1
<1>2. ASSUME NEW s \in Searches, Launch(s)
      PROVE  LaunchOK' /\ Started' = Started \cup {s}
  <2>1. /\ \E p \in Phases \ {"idle"} : phase' = [phase EXCEPT ![s] = p]
        /\ listed' = listed \/ listed' = [listed EXCEPT ![s] = NeighborsOf(Origin[s])]
    BY <1>2 DEF Launch
  <2>2. NeighborsOf(Origin[s]) \in SUBSET Nodes
    BY DEF NeighborsOf
  <2>3. listed' \in [Searches -> SUBSET Nodes]
    BY <2>1, <2>2
  <2>4. phase' \in [Searches -> Phases] /\ Started' = Started \cup {s}
    BY <2>1
  <2> QED BY <2>3, <2>4
<1>3. ASSUME NEW s \in Searches, ForwardFirst(s) \/ InitSem(s) \/ Woken(s) \/ SleptEnough(s)
      PROVE  LaunchOK' /\ Started' = Started
  <2>1. CASE ForwardFirst(s)
    BY <2>1 DEF ForwardFirst
  <2>2. CASE InitSem(s)
    BY <2>2 DEF InitSem
  <2>3. CASE Woken(s) \/ SleptEnough(s)
    BY <2>3 DEF Woken, SleptEnough, Collect
  <2> QED BY <1>3, <2>1, <2>2, <2>3
<1> QED BY <1>1, <1>2, <1>3, PhaseWriters

(* What comes from outside is counted.                                     *)
LEMMA StepCount ==
  ASSUME DiscoveryAssumption, DInv, [Next]_vars PROVE CountOK'
<1> DEFINE d == Cardinality(dead)
           c == Cardinality(Started)
<1>0. /\ IsFiniteSet(dead) /\ IsFiniteSet(Started) /\ registers \in Nat
      /\ registers + d + c <= MaxEvents /\ MaxEvents \in Nat
      /\ d \in Nat /\ c \in Nat
  BY FS_CardinalityType DEF DInv, WorldOK, CountOK, Events, Started, DiscoveryAssumption
<1>1. Events = registers + d + c /\ Events' = registers' + Cardinality(dead') + Cardinality(Started')
  BY DEF Events, Started
<1> HIDE DEF d, c
<1>2. CASE UNCHANGED worldVars /\ Started' = Started
  BY <1>0, <1>1, <1>2 DEF worldVars, CountOK, d, c
<1>3. ASSUME NEW s \in Searches, Launch(s), Started' = Started \cup {s} PROVE CountOK'
  <2>1. UNCHANGED worldVars /\ Events < MaxEvents
    BY <1>3 DEF Launch
  <2>2. IsFiniteSet(Started') /\ Cardinality(Started') \in {c, c + 1}
    BY <1>0, <1>3, FS_AddElement DEF c
  <2> QED BY <1>0, <1>1, <2>1, <2>2 DEF worldVars, CountOK, d
<1>4. ASSUME NEW n \in Nodes, Die(n), UNCHANGED <<phase, listed>> PROVE CountOK'
  <2>1. registers' = registers /\ dead' = dead \cup {n} /\ Started' = Started /\ Events < MaxEvents
    BY <1>4 DEF Die, Started
  <2>2. IsFiniteSet(dead') /\ Cardinality(dead') \in {d, d + 1}
    BY <1>0, <2>1, FS_AddElement DEF d
  <2> QED BY <1>0, <1>1, <2>1, <2>2 DEF CountOK, c
<1>5. ASSUME NEW l \in Parents, SelfRegister(l[1], l[2]), UNCHANGED <<phase, listed>> PROVE CountOK'
  <2>1. registers' = registers + 1 /\ dead' = dead /\ Started' = Started /\ Events < MaxEvents
    BY <1>5 DEF SelfRegister, Started
  <2> QED BY <1>0, <1>1, <2>1 DEF CountOK, c, d
<1>6. /\ \A n \in Nodes : Die(n) => UNCHANGED <<phase, listed>>
      /\ \A l \in Parents : SelfRegister(l[1], l[2]) => UNCHANGED <<phase, listed>>
  BY DEF Die, SelfRegister
<1> QED BY <1>2, <1>3, <1>4, <1>5, <1>6, StepPhase, WorldWriters

(* A list never names its own node.                                        *)
LEMMA StepLinks ==
  ASSUME DiscoveryAssumption, DInv, [Next]_vars PROVE LinksOK'
<1> USE DEF DInv, LinksOK, ListsOK
<1>1. CASE UNCHANGED <<neighborsList, jobmgr>>
  BY <1>1
<1>2. ASSUME NEW m \in Nodes, NEW n \in Nodes, AlreadyAsked(m, n) PROVE LinksOK'
  <2>1. CASE UNCHANGED <<neighborsList, jobmgr>>
    BY <2>1
  <2> DEFINE r == Head(asks[m][n])
             j == [op |-> "UnregisterNode", at |-> m, node |-> n]
  <2>2. ASSUME jobmgr' = jobmgr (+) SetToBag({j}), neighborsList' = removeNeighbor(n, m)
        PROVE  LinksOK'
    <3>1. r \in Way(m, n) /\ r \in Requests
      BY <1>2, TakenAway DEF AlreadyAsked, WaysOK
    <3>2. m # n /\ r.s \in Searches
      BY <3>1 DEF WaysOK, Travels, Requests
    <3> HIDE DEF r
    <3>3. j \in Calls /\ j.at # j.node
      BY <3>2 DEF Calls
    <3>4. BagToSet(jobmgr') = BagToSet(jobmgr) \cup {j}
      BY <2>2, BagAdds
    <3>5. ListsOK' /\ \A k \in Nodes : neighborsList'[k][k] = 0
      BY <2>2, <3>2 DEF removeNeighbor
    <3> HIDE DEF j
    <3> QED BY <3>3, <3>4, <3>5
  <2> QED BY <1>2, <2>1, <2>2 DEF AlreadyAsked
<1>3. ASSUME NEW j \in BagToSet(jobmgr), JobMgrStep(j) PROVE LinksOK'
  <2>1. BagToSet(jobmgr') \subseteq BagToSet(jobmgr)
    BY <1>3, BagDrops DEF JobMgrStep
  <2>2. j \in Calls /\ j.at # j.node
    OBVIOUS
  <2>3. j.at \in Nodes /\ j.node \in Nodes /\ j.op \in {"RegisterNode", "UnregisterNode"}
    BY <2>2 DEF Calls
  <2>4. \/ neighborsList' = neighborsList
        \/ neighborsList' = removeNeighbor(j.at, j.node)
        \/ neighborsList' = [neighborsList EXCEPT ![j.at][j.node] = @ + 1]
    BY <1>3, <2>3 DEF JobMgrStep
  <2>5. ListsOK' /\ \A k \in Nodes : neighborsList'[k][k] = 0
    <3> DEFINE a == j.at
               b == j.node
    <3>1. a \in Nodes /\ b \in Nodes /\ a # b
      BY <2>2, <2>3
    <3> HIDE DEF a, b
    <3>2. CASE neighborsList' = neighborsList
      BY <3>2
    <3>3. CASE neighborsList' = removeNeighbor(a, b)
      BY <3>1, <3>3 DEF removeNeighbor
    <3>4. CASE neighborsList' = [neighborsList EXCEPT ![a][b] = @ + 1]
      BY <3>1, <3>4
    <3> QED BY <2>4, <3>2, <3>3, <3>4 DEF a, b
  <2> QED BY <2>1, <2>5
<1>4. ASSUME NEW l \in Parents, SelfRegister(l[1], l[2]) PROVE LinksOK'
  <2> DEFINE n == l[1]
             p == l[2]
             j == [op |-> "RegisterNode", at |-> p, node |-> n]
  <2>1. n \in Nodes /\ p \in Nodes /\ n # p
    BY DEF DiscoveryAssumption
  <2>2. j \in Calls /\ j.at # j.node
    BY <2>1 DEF Calls
  <2>3. BagToSet(jobmgr') = BagToSet(jobmgr) \cup {j}
    BY <1>4, BagAdds DEF SelfRegister
  <2>4. neighborsList' = [neighborsList EXCEPT ![n][p] = @ + 1]
    BY <1>4 DEF SelfRegister
  <2> HIDE DEF j, n, p
  <2>5. ListsOK' /\ \A k \in Nodes : neighborsList'[k][k] = 0
    <3>1. neighborsList[n][p] \in Nat
      BY <2>1
    <3>2. neighborsList' \in [Nodes -> [Nodes -> Nat]]
      <4> DEFINE old == neighborsList[n]
                 row == [old EXCEPT ![p] = @ + 1]
      <4>1. neighborsList' = [neighborsList EXCEPT ![n] = row]
        BY <2>4
      <4>2. old \in [Nodes -> Nat]
        BY <2>1
      <4>3. row \in [Nodes -> Nat]
        <5>1. p \in Nodes
          BY <2>1
        <5> HIDE DEF old, DInv, LinksOK, ListsOK
        <5>2. old[p] + 1 \in Nat
          BY <4>2, <5>1
        <5> QED BY <4>2, <5>1, <5>2
      <4> HIDE DEF row
      <4> QED BY <2>1, <4>1, <4>3
    <3>3. \A k \in Nodes : neighborsList'[k][k] = neighborsList[k][k]
      BY <2>1, <2>4
    <3> QED BY <3>2, <3>3
  <2> QED BY <2>2, <2>3, <2>5
<1> QED BY <1>1, <1>2, <1>3, <1>4, ListsWriters

(* The history after a request is remembered.                              *)
LEMMA Remembers ==
  ASSUME DiscoveryAssumption, KnownOK, NEW n \in Nodes, NEW s \in Searches, Remember(n, s)
  PROVE  /\ KnownOK'
         /\ \A k \in Nodes : k # n => knownRequests'[k] = knownRequests[k]
         /\ MaxReqToSave > 0 /\ s \notin Ends => s \in ToSet(knownRequests'[n])
         /\ ToSet(knownRequests'[n]) \subseteq ToSet(knownRequests[n]) \cup {s}
<1> USE DEF KnownOK
<1>1. CASE s \in Ends
  BY <1>1 DEF Remember
<1>2. CASE s \notin Ends
  <2> DEFINE old == knownRequests[n]
             longer == Append(old, s)
             new == IF Len(longer) > MaxReqToSave THEN Tail(longer) ELSE longer
  <2>1. old \in Seq(Searches \ Ends) /\ Len(old) <= MaxReqToSave /\ Len(old) \in Nat
    BY LenProperties
  <2>2. /\ longer \in Seq(Searches \ Ends) /\ longer # <<>> /\ Len(longer) = Len(old) + 1
        /\ ToSet(longer) = ToSet(old) \cup {s}
        /\ longer[Len(old) + 1] = s
    <3>1. s \in Searches \ Ends
      BY <1>2
    <3> HIDE DEF old
    <3>2. Len(longer) = Len(old) + 1 /\ longer[Len(old) + 1] = s
      BY <2>1, <3>1, AppendProperties
    <3> DEFINE R == Searches \ Ends
    <3>3. old \in Seq(R) /\ s \in R
      BY <2>1, <3>1
    <3> HIDE DEF R
    <3>4. longer \in Seq(R) /\ longer # <<>> /\ ToSet(longer) = ToSet(old) \cup {s}
      <4> HIDE DEF KnownOK
      <4>1. longer = Append(old, s)
        OBVIOUS
      <4> HIDE DEF longer
      <4>2. longer \in Seq(R) /\ longer # <<>>
        BY <3>3, <4>1, AppendSet
      <4>3. ToSet(longer) = ToSet(old) \cup {s}
        BY <3>3, <4>1, AppendSet
      <4> QED BY <4>2, <4>3
    <3> QED BY <3>2, <3>4 DEF R
  <2>3. knownRequests' = [knownRequests EXCEPT ![n] = new]
    BY <1>2 DEF Remember
  <2> HIDE DEF longer
  <2>4. /\ Tail(longer) \in Seq(Searches \ Ends) /\ ToSet(Tail(longer)) \subseteq ToSet(longer)
        /\ Len(Tail(longer)) = Len(old)
        /\ \A i \in 1..Len(old) : Tail(longer)[i] = longer[i + 1]
        /\ DOMAIN Tail(longer) = 1..Len(old)
    <3> HIDE DEF old
    <3>1. Tail(longer) \in Seq(Searches \ Ends) /\ ToSet(Tail(longer)) \subseteq ToSet(longer)
      BY <2>2, TailSet
    <3>2. Len(Tail(longer)) = Len(longer) - 1 /\ \A i \in 1..Len(Tail(longer)) : Tail(longer)[i] = longer[i + 1]
      BY <2>2, HeadTailProperties
    <3>3. Len(Tail(longer)) = Len(old)
      BY <2>1, <2>2, <3>2
    <3> QED BY <3>1, <3>2, <3>3, LenProperties
  <2>5. new \in Seq(Searches \ Ends) /\ Len(new) <= MaxReqToSave
        /\ ToSet(new) \subseteq ToSet(old) \cup {s}
    BY <2>1, <2>2, <2>4 DEF DiscoveryAssumption
  <2>6. ASSUME MaxReqToSave > 0 PROVE s \in ToSet(new)
    <3>1. CASE Len(longer) > MaxReqToSave
      <4>1. Len(old) > 0
        BY <2>1, <2>2, <2>6, <3>1 DEF DiscoveryAssumption
      <4>2. Len(old) \in DOMAIN Tail(longer) /\ Tail(longer)[Len(old)] = s
        <5> HIDE DEF old
        <5>1. Len(old) \in 1..Len(old)
          BY <2>1, <4>1
        <5>2. Tail(longer)[Len(old)] = longer[Len(old) + 1]
          BY <2>4, <5>1
        <5> QED BY <2>2, <2>4, <5>1, <5>2
      <4> QED BY <3>1, <4>2 DEF ToSet
    <3>2. CASE ~(Len(longer) > MaxReqToSave)
      BY <2>2, <3>2
    <3> QED BY <3>1, <3>2
  <2> HIDE DEF new
  <2>7. \A k \in Nodes : knownRequests'[k] = IF k = n THEN new ELSE knownRequests[k]
    BY <2>3
  <2>8. knownRequests' \in [Nodes -> Seq(Searches \ Ends)]
    BY <2>3, <2>5
  <2> QED BY <2>5, <2>6, <2>7, <2>8
<1> QED BY <1>1, <1>2

(* A history keeps its length.                                             *)
LEMMA StepKnown ==
  ASSUME DiscoveryAssumption, DInv, [Next]_vars PROVE KnownOK'
<1>1. CASE UNCHANGED knownRequests
  BY <1>1 DEF DInv, KnownOK
<1>2. ASSUME NEW s \in Searches, Launch(s) PROVE KnownOK'
  <2>1. Origin[s] \in Nodes /\ Remember(Origin[s], s)
    BY <1>2 DEF DiscoveryAssumption, Launch
  <2> QED BY <2>1, Remembers DEF DInv
<1>3. ASSUME NEW m \in Nodes, NEW n \in Nodes, Visit(m, n) PROVE KnownOK'
  <2> DEFINE s == Head(asks[m][n]).s
  <2>1. s \in Searches
    BY <1>3, TakenAway DEF DInv, WaysOK, Visit, Requests
  <2>2. Remember(n, s)
    BY <1>3 DEF Visit
  <2> HIDE DEF s
  <2> QED BY <2>1, <2>2, Remembers DEF DInv
<1> QED BY <1>1, <1>2, <1>3, KnownWriters

(* A request is sent on to another node than it came from.                 *)
LEMMA StepWays ==
  ASSUME DiscoveryAssumption, DInv, [Next]_vars PROVE WaysOK'
<1> USE DEF DInv, WaysOK
<1>0. ListsOK /\ listed \in [Searches -> SUBSET Nodes] /\ \A n \in Nodes : n \notin NeighborsOf(n)
  BY DEF LinksOK, ListsOK, LaunchOK, NeighborsOf
<1>1. CASE UNCHANGED asks
  BY <1>1 DEF AsksOK, Way
<1>2. ASSUME NEW s \in Searches, ForwardFirst(s) PROVE WaysOK'
  <2>1. /\ AsksOK'
        /\ \A a, b \in Nodes : \A f \in Way(a, b)' : f \in Way(a, b) \/ First(s, a, b, f)
    BY <1>0, <1>2, ForwardsFirst
  <2>2. ASSUME NEW a \in Nodes, NEW b \in Nodes, NEW f, First(s, a, b, f)
        PROVE  Travels(a, b, f)
    <3>1. a # b
      BY <1>0, <2>2 DEF First
    <3>2. f.s = s /\ a = Origin[s] /\ DOMAIN f.el = {a}
      BY <2>2 DEF First
    <3>3. s \notin Ends => f.wb # <<>> /\ Head(f.wb) = a /\ Last(f.wb) = a
      <4>1. s \notin Ends => f.wb = <<a>>
        BY <2>2, <3>2 DEF First
      <4>2. <<a>> # <<>> /\ Head(<<a>>) = a /\ Last(<<a>>) = a
        BY DEF Last
      <4> QED BY <4>1, <4>2
    <3> QED BY <3>1, <3>2, <3>3 DEF Travels
  <2> QED BY <2>1, <2>2
<1>3. ASSUME NEW m \in Nodes, NEW n \in Nodes, AlreadyAsked(m, n) PROVE WaysOK'
  <2>1. asks' = Taken(m, n) /\ asks[m][n] # <<>>
    BY <1>3 DEF AlreadyAsked
  <2>2. AsksOK' /\ \A a, b \in Nodes : Way(a, b)' \subseteq Way(a, b)
    BY <2>1, TakenAway DEF AsksOK, Way
  <2> QED BY <2>2
<1>4. ASSUME NEW m \in Nodes, NEW n \in Nodes, Visit(m, n) PROVE WaysOK'
  <2> DEFINE r == Head(asks[m][n])
  <2>1. /\ AsksOK' /\ r \in Way(m, n) /\ r \in Requests
        /\ \A a, b \in Nodes : \A f \in Way(a, b)' :
              f \in Way(a, b) \/ (a = n /\ Onward(r, n, b, f))
    BY <1>0, <1>4, VisitsOnward
  <2>2. Travels(m, n, r) /\ r.wb \in Seq(Nodes)
    BY <2>1 DEF Requests
  <2> HIDE DEF r
  <2>3. ASSUME NEW b \in Nodes, NEW f, Onward(r, n, b, f)
        PROVE  Travels(n, b, f)
    <3>1. n # b /\ b \notin DOMAIN r.el
      BY <1>0, <2>3, ListedIn DEF Onward
    <3>2. f.s = r.s /\ DOMAIN f.el = DOMAIN r.el \cup {n}
      BY <2>3 DEF Onward
    <3>3. r.s \notin Ends => f.wb # <<>> /\ Head(f.wb) = Origin[r.s] /\ Last(f.wb) = n
      <4> DEFINE w == Append(r.wb, n)
      <4>1. w # <<>> /\ Last(w) = n /\ (r.wb # <<>> => Head(w) = Head(r.wb))
        BY <2>2, AppendSet
      <4>2. r.s \notin Ends => f.wb = w /\ r.wb # <<>> /\ Head(r.wb) = Origin[r.s]
        BY <2>2, <2>3 DEF Onward, Travels
      <4> HIDE DEF w
      <4> QED BY <4>1, <4>2
    <3> QED BY <3>1, <3>2, <3>3 DEF Travels
  <2> QED BY <2>1, <2>3
<1> QED BY <1>1, <1>2, <1>3, <1>4, AsksWriters

(* Only nodes with the resources answer.                                   *)
LEMMA StepMail ==
  ASSUME DiscoveryAssumption, DInv, [Next]_vars PROVE MailOK'
<1> USE DEF DInv, MailOK
<1>0. fitting' = fitting
  BY WorldWriters DEF Die, SelfRegister, worldVars
<1>1. ASSUME UNCHANGED mail PROVE MailOK'
  BY <1>0, <1>1
<1>2. ASSUME NEW s \in Searches, NEW n \in Nodes, NEW wb \in Seq(Nodes), Respond(s, n, wb)
      PROVE  MailOK'
  <2>1. CASE mail' = mail
    BY <2>1, <1>1
  <2>2. ASSUME NEW j, Responds(s, n, j), mail' = mail (+) SetToBag({j}) PROVE MailOK'
    <3>1. BagToSet(mail') = BagToSet(mail) \cup {j}
      BY <2>2, BagAdds
    <3> QED BY <1>0, <2>2, <3>1 DEF Responds
  <2> QED BY <1>2, <2>1, <2>2, Responded
<1>3. ASSUME NEW s \in Searches, Launch(s) PROVE MailOK'
  BY <1>1, <1>2, <1>3, EmptySeq DEF Launch, DiscoveryAssumption
<1>4. ASSUME NEW m \in Nodes, NEW n \in Nodes, Visit(m, n) PROVE MailOK'
  <2> DEFINE r == Head(asks[m][n])
  <2>1. r \in Requests
    BY <1>4, TakenAway DEF Visit, WaysOK
  <2>2. r.s \in Searches /\ r.wb \in Seq(Nodes)
    BY <2>1 DEF Requests
  <2>3. UNCHANGED mail \/ Respond(r.s, n, r.wb)
    BY <1>4 DEF Visit
  <2> HIDE DEF r
  <2> QED BY <1>1, <1>2, <2>2, <2>3
<1>5. ASSUME NEW m \in BagToSet(mail), rerouteResponse(m) PROVE MailOK'
  <2> DEFINE j == [m EXCEPT !.at = Last(m.wb), !.wb = Front(m.wb)]
             rest == mail (-) SetToBag({m})
  <2>1. m.wb \in Seq(Nodes) /\ m.wb # <<>> /\ m \in Responses
    BY <1>5 DEF Responses, rerouteResponse
  <2>2. Last(m.wb) \in Nodes /\ Front(m.wb) \in Seq(Nodes)
    BY <2>1, FrontSet
  <2>3. j \in Responses /\ j.node = m.node
    BY <2>1, <2>2 DEF Responses
  <2>4. mail' = rest (+) SetToBag({j})
    BY <1>5 DEF rerouteResponse
  <2> HIDE DEF j
  <2>5. BagToSet(rest) \subseteq BagToSet(mail)
    BY BagDrops
  <2> HIDE DEF rest
  <2>6. BagToSet(mail') = BagToSet(rest) \cup {j}
    BY <2>4, BagAdds
  <2> QED BY <1>0, <2>3, <2>5, <2>6
<1>6. ASSUME NEW m \in BagToSet(mail), callbackResult(m) PROVE MailOK'
  BY <1>0, <1>6, BagDrops DEF callbackResult
<1> QED BY <1>1, <1>3, <1>4, <1>5, <1>6, MailWriters

(* A launch has its place for answers until it returns.                    *)
LEMMA StepAnswers ==
  ASSUME DiscoveryAssumption, DInv, [Next]_vars PROVE AnswersOK'
<1> USE DEF DInv, AnswersOK
<1> DEFINE Waits(s) == phase[s] \in {"listed", "asked", "waiting"}
<1>0. /\ phase \in [Searches -> Phases]
      /\ <<>> \in Seq(Nodes) /\ None \notin Seq(Nodes) /\ <<>> # None
  <2>1. phase \in [Searches -> Phases]
    BY DEF LaunchOK
  <2>2. <<>> \in Seq(Nodes)
    BY EmptySeq
  <2>3. None \notin Seq(Nodes)
    BY DEF DiscoveryAssumption
  <2> QED BY <2>1, <2>2, <2>3
<1>1. ASSUME UNCHANGED <<actualReq, found>>, \A s \in Searches : Waits(s)' => Waits(s)
      PROVE  AnswersOK'
  BY <1>1
<1>2. ASSUME NEW s \in Searches, Launch(s) PROVE AnswersOK'
  <2>1. /\ actualReq' = [actualReq EXCEPT ![s] = <<>>] /\ found' = found
        /\ \A q \in Searches : q # s => phase'[q] = phase[q]
    BY <1>0, <1>2 DEF Launch, waitVars
  <2> QED BY <1>0, <2>1
<1>3. ASSUME NEW s \in Searches, Woken(s) \/ SleptEnough(s) PROVE AnswersOK'
  <2>1. Collect(s) /\ Waits(s)
    BY <1>3 DEF Woken, SleptEnough
  <2>2. actualReq[s] \in Seq(Nodes)
    BY <2>1
  <2> QED BY <1>0, <2>1, <2>2 DEF Collect
<1>4. ASSUME NEW m \in BagToSet(mail), callbackResult(m) PROVE AnswersOK'
  <2>1. m.node \in Nodes
    BY DEF MailOK, Responses
  <2>2. ASSUME NEW s \in Searches, actualReq[s] # None
        PROVE  Append(actualReq[s], m.node) \in Seq(Nodes) \ {None}
    <3>1. actualReq[s] \in Seq(Nodes)
      BY <2>2
    <3>2. Append(actualReq[s], m.node) \in Seq(Nodes)
      BY <2>1, <3>1, AppendSet
    <3> QED BY <1>0, <3>2
  <2>3. UNCHANGED <<phase, found>>
    BY <1>4 DEF callbackResult
  <2> DEFINE F(s) == IF s = m.s /\ m.at = Origin[s] /\ actualReq[s] # None
                       THEN Append(actualReq[s], m.node) ELSE actualReq[s]
  <2>4. actualReq' = [s \in Searches |-> F(s)]
    BY <1>4 DEF callbackResult
  <2>5. \A s \in Searches : F(s) \in {None} \cup Seq(Nodes) /\ (actualReq[s] # None => F(s) # None)
    BY <2>2
  <2> HIDE DEF F
  <2> QED BY <2>3, <2>4, <2>5
<1>5. ASSUME NEW s \in Searches, ForwardFirst(s) \/ InitSem(s) PROVE AnswersOK'
  <2>1. UNCHANGED <<actualReq, found>> /\ \A q \in Searches : Waits(q)' => Waits(q)
    BY <1>0, <1>5 DEF ForwardFirst, InitSem, waitVars
  <2> QED BY <1>1, <2>1
<1>6. ASSUME UNCHANGED <<phase, listed>>, UNCHANGED <<actualReq, found>> PROVE AnswersOK'
  BY <1>6
<1> QED BY <1>2, <1>3, <1>4, <1>5, <1>6, AnswerWriters, PhaseWriters

(* A semaphore is not taken below zero: it holds a count, or what the main *)
(* thread left there.                                                      *)
LEMMA CellsLeft ==
  ASSUME DiscoveryAssumption, WaitOK, NEW n \in Nodes
  PROVE  /\ \A value \in Nat : Leaves(n, value) => locker' \in [Nodes -> Nat \cup {Overwritten}]
         /\ Post(n) => locker' \in [Nodes -> Nat \cup {Overwritten}]
<1>1. \A value \in Nat : Leaves(n, value) => locker' \in [Nodes -> Nat \cup {Overwritten}]
  BY DEF Leaves, DiscoveryAssumption, WaitOK
<1>2. (IF locker[n] = Overwritten THEN 1 ELSE locker[n] + 1) \in Nat
  BY DEF WaitOK
<1> QED BY <1>1, <1>2 DEF Post

LEMMA StepWait ==
  ASSUME DiscoveryAssumption, DInv, [Next]_vars PROVE WaitOK'
<1>0. /\ \A s \in Searches : Origin[s] \in Nodes
      /\ WaitOK
  BY DEF DiscoveryAssumption, DInv
<1>1. CASE UNCHANGED <<locker, timer, unlocks>>
  BY <1>0, <1>1 DEF WaitOK
<1>2. ASSUME NEW s \in Searches, InitSem(s) PROVE WaitOK'
  <2>1. locker' \in [Nodes -> Nat \cup {Overwritten}]
    BY <1>0, <1>2, CellsLeft DEF InitSem
  <2> QED BY <1>0, <1>2, <2>1 DEF InitSem, WaitOK
<1>3. ASSUME NEW s \in Searches, Woken(s) PROVE WaitOK'
  <2>1. locker[Origin[s]] - 1 \in Nat
    <3>1. locker[Origin[s]] \in Nat \cup {-1}
      BY <1>0 DEF WaitOK, Overwritten
    <3>2. locker[Origin[s]] > 0
      BY <1>3 DEF Woken
    <3> QED BY <3>1, <3>2
  <2>2. locker' \in [Nodes -> Nat \cup {Overwritten}]
    BY <1>0, <1>3, <2>1, CellsLeft DEF Woken
  <2>3. /\ timer' = [timer EXCEPT ![s] = IF @ = "running" THEN "stopped" ELSE @]
        /\ unlocks' = unlocks
    BY <1>3 DEF Woken, Collect
  <2> QED BY <1>0, <2>2, <2>3 DEF WaitOK
<1>4. ASSUME NEW s \in Searches, TimerFires(s) PROVE WaitOK'
  BY <1>0, <1>4 DEF TimerFires, WaitOK
<1>5. ASSUME NEW m \in BagToSet(mail), callbackResult(m) PROVE WaitOK'
  <2>1. m.at \in Nodes
    BY DEF DInv, MailOK, Responses
  <2>2. locker' \in [Nodes -> Nat \cup {Overwritten}]
    BY <1>0, <1>5, <2>1, CellsLeft DEF callbackResult
  <2> QED BY <1>0, <1>5, <2>2 DEF callbackResult, WaitOK
<1>6. ASSUME NEW n \in Nodes, unlockDiscovery(n) PROVE WaitOK'
  <2>1. locker' \in [Nodes -> Nat \cup {Overwritten}]
    BY <1>0, <1>6, CellsLeft DEF unlockDiscovery
  <2>2. unlocks' \in [Nodes -> Nat] /\ timer' = timer
    BY <1>0, <1>6 DEF unlockDiscovery, WaitOK
  <2> QED BY <1>0, <2>1, <2>2 DEF WaitOK
<1> QED BY <1>1, <1>2, <1>3, <1>4, <1>5, <1>6, WaitWriters

(* Only nodes are told of an end.                                          *)
LEMMA StepEnded ==
  ASSUME DiscoveryAssumption, DInv, [Next]_vars PROVE EndedOK'
<1> USE DEF DInv, EndedOK
<1>1. CASE UNCHANGED <<ended, met>>
  BY <1>1
<1>2. ASSUME NEW s \in Searches, Launch(s) PROVE EndedOK'
  <2>1. ended' = ended /\ met' = (met \/ Flooding \/ Called("RegisterNode"))
    BY <1>2 DEF Launch
  <2> QED BY <2>1 DEF Flooding, Called
<1>3. ASSUME NEW s \in Searches, NEW n \in Nodes, ApplicationEnd(s, n) \/ UNCHANGED ended, met' = met
      PROVE  EndedOK'
  BY <1>3 DEF ApplicationEnd
<1>4. ASSUME NEW s \in Searches, ForwardFirst(s) PROVE EndedOK'
  <2>1. Origin[s] \in Nodes
    BY DEF DiscoveryAssumption
  <2> QED BY <1>3, <1>4, <2>1 DEF ForwardFirst
<1>5. ASSUME NEW m \in Nodes, NEW n \in Nodes, Visit(m, n) PROVE EndedOK'
  <2> DEFINE s == Head(asks[m][n]).s
  <2>1. s \in Searches
    BY <1>5, TakenAway DEF WaysOK, Visit, Requests
  <2>2. (ApplicationEnd(s, n) \/ UNCHANGED ended) /\ met' = met
    BY <1>5 DEF Visit
  <2> HIDE DEF s
  <2> QED BY <1>3, <2>1, <2>2
<1>6. ASSUME NEW l \in Parents, SelfRegister(l[1], l[2]) PROVE EndedOK'
  <2>1. ended' = ended /\ met' = (met \/ Flooding)
    BY <1>6 DEF SelfRegister
  <2> QED BY <2>1
<1> QED BY <1>1, <1>2, <1>4, <1>5, <1>6, EndedWriters

(* Together.                                                               *)
LEMMA DInvStep ==
  ASSUME DiscoveryAssumption, DInv, [Next]_vars PROVE DInv'
BY StepWorld, StepCount, StepLinks, StepKnown, StepWays, StepMail, StepPhase, StepAnswers,
   StepWait, StepEnded DEF DInv

(* They hold always.                                                       *)
LEMMA DInvAlways == Spec => []DInv
<1> USE DiscoveryAssumption
<1>1. Init => DInv
  BY DInvInit
<1>2. DInv /\ [Next]_vars => DInv'
  BY DInvStep
<1> QED BY <1>1, <1>2, PTL DEF Spec

(* The variables of the search nodes keep their types.                     *)
THEOREM DiscoveryTypeCorrect == Spec => []DiscoveryTypeOK
<1>1. DInv => DiscoveryTypeOK
  BY DInvTypes
<1> QED BY <1>1, DInvAlways, PTL

-----------------------------------------------------------------------------
(* The nodes near to the origin of a request.                              *)
(* A set of numbers has a least one.                                       *)
LEMMA LeastNumber ==
  ASSUME NEW U \in SUBSET Nat, U # {}
  PROVE  \E x \in U : \A y \in U : x <= y
<1> DEFINE T == {1..n : n \in U}
           R == StrictSubsetOrdering(Nat)
<1>1. IsWellFoundedOn(R, FiniteSubsetsOf(Nat))
  BY FS_StrictSubsetOrderingWellFounded
<1>2. T \subseteq FiniteSubsetsOf(Nat) /\ T # {}
  <2>1. ASSUME NEW n \in U PROVE 1..n \in FiniteSubsetsOf(Nat)
    <3>1. 1..n \in SUBSET Nat
      OBVIOUS
    <3> QED BY <3>1, FS_Interval DEF FiniteSubsetsOf
  <2> QED BY <2>1
<1> HIDE DEF T, R
<1>3. PICK A \in T : \A B \in T : ~ (<<B, A>> \in R)
  BY <1>1, <1>2, WFMin
<1>4. PICK x \in U : A = 1..x
  BY <1>3 DEF T
<1>5. ASSUME NEW y \in U, y < x PROVE FALSE
  <2>1. 1..y \in T
    BY DEF T
  <2>2. x \in 1..x /\ x \notin 1..y /\ 1..y \subseteq 1..x
    BY <1>5
  <2>3. <<1..y, 1..x>> \in R
    BY <2>2 DEF R, StrictSubsetOrdering
  <2> QED BY <1>3, <1>4, <2>1, <2>3
<1> QED BY <1>5

(* Induction, for a set of numbers.                                        *)
LEMMA SetInduction ==
  ASSUME NEW T, 0 \in T, \A n \in T \cap Nat : n + 1 \in T
  PROVE  Nat \subseteq T
<1> SUFFICES ASSUME Nat \ T # {} PROVE FALSE
  OBVIOUS
<1> DEFINE U == Nat \ T
<1>1. PICK x \in U : \A y \in U : x <= y
  <2> U \in SUBSET Nat /\ U # {}
    OBVIOUS
  <2> HIDE DEF U
  <2> QED BY LeastNumber
<1>2. x # 0 /\ x - 1 \in Nat
  OBVIOUS
<1>3. x - 1 \in T
  <2>1. x \in Nat /\ ~(x <= x - 1)
    OBVIOUS
  <2> QED BY <1>1, <1>2, <2>1
<1>4. (x - 1) + 1 = x
  OBVIOUS
<1> HIDE DEF U
<1>5. (x - 1) + 1 \in T
  BY <1>2, <1>3
<1> QED BY <1>1, <1>4, <1>5 DEF U

Around(b) == b \cup {l[2] : l \in {l \in Links : l[1] \in b}}

(* What the recursion in Near says of a function.                          *)
Balls(f, s, n) == f = [i \in 0..n |-> IF i = 0 THEN {Origin[s]} ELSE Around(f[i-1])]

(* There is such a function ...                                            *)
LEMMA BallsExist ==
  ASSUME NEW s, NEW n \in Nat
  PROVE  \E f : Balls(f, s, n)
<1> DEFINE T == {m \in Nat : \E f : Balls(f, s, m)}
<1>1. 0 \in T
  <2> DEFINE f == [i \in 0..0 |-> {Origin[s]}]
  <2>1. Balls(f, s, 0)
    BY DEF Balls
  <2> QED BY <2>1
<1>2. ASSUME NEW m \in T \cap Nat PROVE m + 1 \in T
  <2>1. PICK f : Balls(f, s, m)
    OBVIOUS
  <2> DEFINE g == [i \in 0..m+1 |-> IF i = m+1 THEN Around(f[m]) ELSE f[i]]
  <2>2. ASSUME NEW i \in 0..m+1
        PROVE  g[i] = IF i = 0 THEN {Origin[s]} ELSE Around(g[i-1])
    <3>1. CASE i = m+1
      <4>1. g[i] = Around(f[m]) /\ g[m] = f[m] /\ i # 0 /\ i - 1 = m
        BY <3>1
      <4> QED BY <4>1, <3>1
    <3>2. CASE i # m+1
      <4>1. i \in 0..m /\ g[i] = f[i]
        BY <3>2
      <4>2. i # 0 => i - 1 \in 0..m /\ g[i-1] = f[i-1]
        BY <4>1
      <4>3. f[i] = IF i = 0 THEN {Origin[s]} ELSE Around(f[i-1])
        BY <2>1, <4>1 DEF Balls
      <4> HIDE DEF g
      <4> QED BY <4>1, <4>2, <4>3
    <3> QED BY <3>1, <3>2
  <2>3. Balls(g, s, m+1)
    BY <2>2 DEF Balls
  <2> HIDE DEF g
  <2> QED BY <2>3
<1> HIDE DEF T
<1>3. Nat \subseteq T
  BY <1>1, <1>2, SetInduction
<1> QED BY <1>3 DEF T

(* ... and only one.                                                       *)
LEMMA BallsAgree ==
  ASSUME NEW s, NEW n \in Nat, NEW m \in Nat, NEW f, NEW g, Balls(f, s, n), Balls(g, s, m),
         NEW k \in Nat, k <= n, k <= m
  PROVE  f[k] = g[k]
<1> DEFINE T == {i \in Nat : i <= n /\ i <= m => f[i] = g[i]}
<1>1. 0 \in T
  BY DEF Balls
<1>2. ASSUME NEW i \in T \cap Nat PROVE i + 1 \in T
  <2>1. CASE i + 1 <= n /\ i + 1 <= m
    <3>1. i+1 \in 0..n /\ i+1 \in 0..m /\ i+1 # 0 /\ (i+1)-1 = i
      BY <2>1
    <3>2. f[i+1] = Around(f[i]) /\ g[i+1] = Around(g[i])
      BY <3>1 DEF Balls
    <3> QED BY <2>1, <3>1, <3>2
  <2> QED BY <2>1
<1> HIDE DEF T
<1>3. Nat \subseteq T
  BY <1>1, <1>2, SetInduction
<1> QED BY <1>3 DEF T

(* The nodes at most i links from the origin of s.                         *)
Ball(s, i) == CHOOSE b : \E f : Balls(f, s, i) /\ b = f[i]

(* Any such function gives the ball.                                       *)
LEMMA BallIs ==
  ASSUME NEW s, NEW n \in Nat, NEW f, Balls(f, s, n), NEW i \in Nat, i <= n
  PROVE  f[i] = Ball(s, i)
<1>1. \E b : \E g : Balls(g, s, i) /\ b = g[i]
  BY BallsExist
<1>2. PICK g : Balls(g, s, i) /\ Ball(s, i) = g[i]
  BY <1>1 DEF Ball
<1> QED BY <1>2, BallsAgree

(* One link more.                                                          *)
LEMMA BallSteps ==
  ASSUME NEW s
  PROVE  /\ Ball(s, 0) = {Origin[s]}
         /\ \A i \in Nat : Ball(s, i + 1) = Around(Ball(s, i))
<1>1. Ball(s, 0) = {Origin[s]}
  <2>1. PICK f : Balls(f, s, 0)
    BY BallsExist
  <2>2. f[0] = Ball(s, 0)
    BY <2>1, BallIs
  <2> QED BY <2>1, <2>2 DEF Balls
<1>2. ASSUME NEW i \in Nat PROVE Ball(s, i + 1) = Around(Ball(s, i))
  <2>1. PICK f : Balls(f, s, i + 1)
    BY BallsExist
  <2>2. f[i] = Ball(s, i) /\ f[i+1] = Ball(s, i + 1)
    BY <2>1, BallIs
  <2>3. i+1 \in 0..(i+1) /\ i+1 # 0 /\ (i+1)-1 = i
    OBVIOUS
  <2> QED BY <2>1, <2>2, <2>3 DEF Balls
<1> QED BY <1>1, <1>2

(* What is near is so with more links, too.                                *)
LEMMA BallGrows ==
  ASSUME NEW s, NEW i \in Nat, NEW j \in Nat, i <= j
  PROVE  Ball(s, i) \subseteq Ball(s, j)
<1> DEFINE T == {d \in Nat : Ball(s, i) \subseteq Ball(s, i + d)}
<1>1. 0 \in T
  OBVIOUS
<1>2. ASSUME NEW d \in T \cap Nat PROVE d + 1 \in T
  <2>0. i + d \in Nat
    OBVIOUS
  <2>1. Ball(s, (i + d) + 1) = Around(Ball(s, i + d))
    BY <2>0, BallSteps
  <2>2. (i + d) + 1 = i + (d + 1)
    OBVIOUS
  <2> QED BY <2>1, <2>2 DEF Around
<1> HIDE DEF T
<1>3. Nat \subseteq T
  BY <1>1, <1>2, SetInduction
<1>4. j - i \in T /\ i + (j - i) = j
  BY <1>3
<1> QED BY <1>4 DEF T

(* Only nodes are near.                                                    *)
LEMMA BallNodes ==
  ASSUME DiscoveryAssumption, NEW s \in Searches, NEW i \in Nat
  PROVE  Ball(s, i) \subseteq Nodes
<1> DEFINE T == {k \in Nat : Ball(s, k) \subseteq Nodes}
<1>1. 0 \in T
  BY BallSteps DEF DiscoveryAssumption
<1>2. ASSUME NEW k \in T \cap Nat PROVE k + 1 \in T
  BY BallSteps DEF Around, DiscoveryAssumption
<1> HIDE DEF T
<1>3. Nat \subseteq T
  BY <1>1, <1>2, SetInduction
<1> QED BY <1>3 DEF T

(* Once nothing new is near, nothing more is.                              *)
LEMMA BallStays ==
  ASSUME NEW s, NEW k \in Nat, Ball(s, k + 1) = Ball(s, k), NEW j \in Nat, k <= j
  PROVE  Ball(s, j) = Ball(s, k)
<1> DEFINE T == {d \in Nat : Ball(s, k + d) = Ball(s, k)}
<1>1. 0 \in T
  OBVIOUS
<1>2. ASSUME NEW d \in T \cap Nat PROVE d + 1 \in T
  <2>0. k + d \in Nat
    OBVIOUS
  <2>1. Ball(s, (k + d) + 1) = Around(Ball(s, k + d)) /\ Ball(s, k + 1) = Around(Ball(s, k))
    BY <2>0, BallSteps
  <2>2. (k + d) + 1 = k + (d + 1)
    OBVIOUS
  <2> QED BY <2>1, <2>2
<1> HIDE DEF T
<1>3. Nat \subseteq T
  BY <1>1, <1>2, SetInduction
<1>4. j - k \in T /\ k + (j - k) = j
  BY <1>3
<1> QED BY <1>4 DEF T

(* With a link for each node, everything that can be reached is.           *)
LEMMA BallFull ==
  ASSUME DiscoveryAssumption, IsFiniteSet(Nodes), NEW s \in Searches, NEW i \in Nat
  PROVE  Ball(s, i) \subseteq Ball(s, Cardinality(Nodes))
<1> DEFINE c == Cardinality(Nodes)
           Closed(k) == \A j \in Nat : k <= j => Ball(s, j) = Ball(s, k)
           T == {k \in Nat : Closed(k) \/ Cardinality(Ball(s, k)) >= k + 1}
<1>0. c \in Nat
  BY FS_CardinalityType
<1>1. ASSUME NEW k \in Nat
      PROVE  /\ IsFiniteSet(Ball(s, k)) /\ Cardinality(Ball(s, k)) \in Nat
             /\ Cardinality(Ball(s, k)) <= c
  BY BallNodes, FS_Subset, FS_CardinalityType
<1>2. 0 \in T
  <2>1. Cardinality(Ball(s, 0)) = 1
    <3>1. Ball(s, 0) = {Origin[s]}
      BY BallSteps
    <3>2. Cardinality({Origin[s]}) = 1
      BY FS_Singleton
    <3> QED BY <3>1, <3>2
  <2> QED BY <2>1
<1>3. ASSUME NEW k \in T \cap Nat PROVE k + 1 \in T
  <2>1. ASSUME Closed(k) PROVE Closed(k + 1)
    BY <2>1
  <2>2. ASSUME Ball(s, k + 1) = Ball(s, k) PROVE Closed(k + 1)
    BY <2>2, BallStays
  <2>3. ASSUME Ball(s, k + 1) # Ball(s, k), Cardinality(Ball(s, k)) >= k + 1
        PROVE  Cardinality(Ball(s, k + 1)) >= (k + 1) + 1
    <3>1. Ball(s, k) \subseteq Ball(s, k + 1)
      BY BallGrows
    <3>2. Cardinality(Ball(s, k)) < Cardinality(Ball(s, k + 1))
      <4> DEFINE A == Ball(s, k)
                 B == Ball(s, k + 1)
      <4>1. A \subseteq B /\ A # B /\ IsFiniteSet(A) /\ IsFiniteSet(B)
            /\ Cardinality(A) \in Nat /\ Cardinality(B) \in Nat
        BY <1>1, <2>3, <3>1
      <4> HIDE DEF A, B
      <4>2. Cardinality(A) < Cardinality(B)
        BY <4>1, FS_Subset
      <4> QED BY <4>2 DEF A, B
    <3> QED BY <1>1, <2>3, <3>2
  <2> QED BY <2>1, <2>2, <2>3
<1> HIDE DEF T, Closed, c
<1>4. Nat \subseteq T
  BY <1>2, <1>3, SetInduction
<1>5. Closed(c)
  BY <1>0, <1>1, <1>4 DEF T
<1>6. CASE i <= c
  BY <1>0, <1>6, BallGrows DEF c
<1>7. CASE c <= i
  BY <1>0, <1>5, <1>7 DEF Closed, c
<1> QED BY <1>0, <1>6, <1>7

(* What the model calls near.                                              *)
LEMMA NearIs ==
  ASSUME NEW s \in Searches, NEW far \in Nat, far = IF Wide(s) THEN Cardinality(Nodes) ELSE Hops[s]
  PROVE  Near[s] = Ball(s, far)
<1> DEFINE h == CHOOSE f : f = [i \in 0..far |-> IF i = 0 THEN {Origin[s]} ELSE
                     LET b == f[i-1] IN b \cup {l[2] : l \in {l \in Links : l[1] \in b}}]
<1>0. \E f : Balls(f, s, far)
  BY BallsExist
<1>1. Balls(h, s, far)
  BY <1>0 DEF Balls, Around
<1>2. Near[s] = h[far]
  BY DEF Near
<1> HIDE DEF h
<1> QED BY <1>1, <1>2, BallIs

-----------------------------------------------------------------------------
(* No answer from further away than was asked for.                         *)
DepthsOK == \A s \in Searches : Hops[s] >= 0 \/ Hops[s] = UnlimitedHops

(* A request that reaches n with a number of hops left: n is as near as    *)
(* the hops that are gone.                                                 *)
Reaches(s, n, hops) ==
  \E i \in Nat :
    /\ n \in Ball(s, i)
    /\ Hops[s] = UnlimitedHops => hops = UnlimitedHops
    /\ Hops[s] # UnlimitedHops => hops >= 0 /\ hops + i <= Hops[s]

LinksOnly ==
  /\ \A j \in BagToSet(jobmgr) : j.op # "RegisterNode"
  /\ \A n, m \in Nodes : neighborsList[n][m] > 0 => <<n, m>> \in Links

WaysNear == \A m, n \in Nodes : \A r \in Way(m, n) : Reaches(r.s, n, r.hops)

AnswersNear ==
  /\ \A j \in BagToSet(mail) : j.node \in Near[j.s]
  /\ \A s \in Searches :
       /\ actualReq[s] # None => ToSet(actualReq[s]) \subseteq Near[s]
       /\ ToSet(found[s]) \subseteq Near[s]

NearInv == registers = 0 => LinksOnly /\ WaysNear /\ AnswersNear

(* A request goes no further than the hops that it has.                    *)
LEMMA ReachedIsNear ==
  ASSUME DiscoveryAssumption, IsFiniteSet(Nodes), DepthsOK, NEW s \in Searches, NEW n,
         NEW hops \in Int, Reaches(s, n, hops)
  PROVE  n \in Near[s]
<1>1. PICK i \in Nat : /\ n \in Ball(s, i)
                       /\ Hops[s] # UnlimitedHops => hops >= 0 /\ hops + i <= Hops[s]
  BY DEF Reaches
<1>2. Cardinality(Nodes) \in Nat
  BY FS_CardinalityType
<1>3. CASE Wide(s)
  <2>1. Near[s] = Ball(s, Cardinality(Nodes))
    BY <1>2, <1>3, NearIs
  <2> QED BY <1>1, <2>1, BallFull
<1>4. CASE ~Wide(s)
  <2>1. Hops[s] \in Nat /\ i <= Hops[s]
    BY <1>1, <1>4 DEF Wide, DepthsOK, DiscoveryAssumption
  <2>2. Near[s] = Ball(s, Hops[s])
    BY <1>4, <2>1, NearIs
  <2> QED BY <1>1, <2>1, <2>2, BallGrows
<1> QED BY <1>3, <1>4

(* The origin is near to itself.                                           *)
LEMMA OriginIsNear ==
  ASSUME DiscoveryAssumption, IsFiniteSet(Nodes), DepthsOK, NEW s \in Searches
  PROVE  Reaches(s, Origin[s], Hops[s]) /\ Origin[s] \in Near[s]
<1>1. Origin[s] \in Ball(s, 0)
  BY BallSteps
<1>2. Hops[s] \in Int
  BY DEF DiscoveryAssumption
<1>3. Hops[s] # UnlimitedHops => Hops[s] >= 0 /\ Hops[s] + 0 <= Hops[s]
  BY <1>2 DEF DepthsOK
<1>4. Reaches(s, Origin[s], Hops[s])
  BY <1>1, <1>3 DEF Reaches
<1> QED BY <1>2, <1>4, ReachedIsNear

(* One link further with one hop less.                                     *)
LEMMA ReachesOn ==
  ASSUME DiscoveryAssumption, NEW s \in Searches, NEW n \in Nodes, NEW p \in Nodes, NEW hops \in Int,
         Reaches(s, n, hops), <<n, p>> \in Links, MayPropagate(Decremented(hops))
  PROVE  Reaches(s, p, Decremented(hops))
<1>1. PICK i \in Nat : /\ n \in Ball(s, i)
                       /\ Hops[s] = UnlimitedHops => hops = UnlimitedHops
                       /\ Hops[s] # UnlimitedHops => hops >= 0 /\ hops + i <= Hops[s]
  BY DEF Reaches
<1>2. p \in Ball(s, i + 1)
  <2>1. Ball(s, i + 1) = Around(Ball(s, i))
    BY BallSteps
  <2>2. <<n, p>>[1] = n /\ <<n, p>>[2] = p
    OBVIOUS
  <2> QED BY <1>1, <2>1, <2>2 DEF Around
<1>3. Hops[s] = UnlimitedHops => Decremented(hops) = UnlimitedHops
  BY <1>1 DEF Decremented
<1>4. ASSUME Hops[s] # UnlimitedHops
      PROVE  Decremented(hops) >= 0 /\ Decremented(hops) + (i + 1) <= Hops[s]
  <2>1. UnlimitedHops < -1 /\ Hops[s] \in Int
    BY DEF DiscoveryAssumption
  <2>2. hops # UnlimitedHops /\ hops >= 0 /\ hops + i <= Hops[s]
    <3>1. hops >= 0 /\ hops + i <= Hops[s]
      BY <1>1, <1>4
    <3>2. CASE hops = UnlimitedHops
      BY <2>1, <3>1, <3>2
    <3> QED BY <3>1, <3>2
  <2>3. Decremented(hops) = hops - 1
    BY <2>2 DEF Decremented
  <2>4. hops - 1 >= 0
    <3>1. hops - 1 >= 0 \/ hops - 1 = UnlimitedHops
      BY <2>3 DEF MayPropagate
    <3>2. CASE hops - 1 = UnlimitedHops
      BY <2>1, <2>2, <3>2
    <3> QED BY <3>1, <3>2
  <2> QED BY <2>1, <2>2, <2>3, <2>4
<1>5. i + 1 \in Nat
  OBVIOUS
<1> QED BY <1>2, <1>3, <1>4, <1>5 DEF Reaches

(* While no node registers, there are no links but those of the start.     *)
LEMMA LinksOnlyStep ==
  ASSUME DiscoveryAssumption, DInv, [Next]_vars, registers = 0, registers' = 0, LinksOnly
  PROVE  LinksOnly'
<1> USE DEF LinksOnly
<1>0. neighborsList \in [Nodes -> [Nodes -> Nat]]
  BY DEF DInv, LinksOK, ListsOK
<1>1. CASE UNCHANGED <<neighborsList, jobmgr>>
  BY <1>1
<1>2. ASSUME NEW a \in Nodes, NEW b \in Nodes,
             neighborsList' = neighborsList \/ neighborsList' = removeNeighbor(a, b)
      PROVE  \A n, m \in Nodes : neighborsList'[n][m] > 0 => <<n, m>> \in Links
  <2>1. \A n, m \in Nodes : neighborsList'[n][m] > 0 => neighborsList[n][m] > 0
    <3>1. CASE neighborsList' = neighborsList
      BY <3>1
    <3>2. CASE neighborsList' = removeNeighbor(a, b)
      <4>1. ASSUME NEW n \in Nodes, NEW m \in Nodes
            PROVE  neighborsList'[n][m] = IF n = a /\ m = b /\ neighborsList[n][m] # 0
                                          THEN neighborsList[n][m] - 1 ELSE neighborsList[n][m]
        BY <1>0, <3>2 DEF removeNeighbor
      <4>2. \A n, m \in Nodes : neighborsList[n][m] \in Nat
        BY <1>0
      <4> QED BY <4>1, <4>2
    <3> QED BY <1>2, <3>1, <3>2
  <2> QED BY <2>1
<1>3. ASSUME NEW m \in Nodes, NEW n \in Nodes, AlreadyAsked(m, n) PROVE LinksOnly'
  <2> DEFINE j == [op |-> "UnregisterNode", at |-> m, node |-> n]
  <2>1. \/ UNCHANGED <<neighborsList, jobmgr>>
        \/ jobmgr' = jobmgr (+) SetToBag({j}) /\ neighborsList' = removeNeighbor(n, m)
    BY <1>3 DEF AlreadyAsked
  <2>2. j.op = "UnregisterNode"
    OBVIOUS
  <2> HIDE DEF j
  <2>3. BagToSet(jobmgr') \subseteq BagToSet(jobmgr) \cup {j}
    <3>1. CASE jobmgr' = jobmgr
      BY <3>1
    <3>2. CASE jobmgr' = jobmgr (+) SetToBag({j})
      <4>1. BagToSet(jobmgr') = BagToSet(jobmgr) \cup {j}
        BY <3>2, BagAdds
      <4> QED BY <4>1
    <3> QED BY <2>1, <3>1, <3>2
  <2>4. \A k \in BagToSet(jobmgr') : k.op # "RegisterNode"
    BY <2>2, <2>3
  <2> QED BY <1>2, <2>1, <2>4
<1>4. ASSUME NEW j \in BagToSet(jobmgr), JobMgrStep(j) PROVE LinksOnly'
  <2>1. BagToSet(jobmgr') \subseteq BagToSet(jobmgr)
    BY <1>4, BagDrops DEF JobMgrStep
  <2>2. j \in Calls
    BY DEF DInv, LinksOK
  <2>3. j.at \in Nodes /\ j.node \in Nodes /\ j.op = "UnregisterNode"
    BY <2>2 DEF Calls
  <2>4. neighborsList' = neighborsList \/ neighborsList' = removeNeighbor(j.at, j.node)
    BY <1>4, <2>3 DEF JobMgrStep
  <2> QED BY <1>2, <2>1, <2>3, <2>4
<1>5. ASSUME NEW l \in Parents, SelfRegister(l[1], l[2]) PROVE FALSE
  BY <1>5 DEF SelfRegister
<1> QED BY <1>1, <1>3, <1>4, <1>5, ListsWriters

(* A request loses a hop with every link.                                  *)
LEMMA WaysNearStep ==
  ASSUME DiscoveryAssumption, IsFiniteSet(Nodes), DepthsOK, DInv, [Next]_vars, LinksOnly, WaysNear
  PROVE  WaysNear'
<1> USE DEF WaysNear
<1>0. ListsOK /\ listed \in [Searches -> SUBSET Nodes] /\ AsksOK
  BY DEF DInv, LinksOK, LaunchOK, WaysOK
<1>1. CASE UNCHANGED asks
  BY <1>1 DEF Way
<1>2. ASSUME NEW n \in Nodes, NEW p \in NeighborsOf(n) PROVE <<n, p>> \in Links
  BY DEF NeighborsOf, LinksOnly
<1>3. ASSUME NEW s \in Searches, ForwardFirst(s) PROVE WaysNear'
  <2>1. \A a, b \in Nodes : \A f \in Way(a, b)' : f \in Way(a, b) \/ First(s, a, b, f)
    BY <1>0, <1>3, ForwardsFirst
  <2>2. ASSUME NEW a \in Nodes, NEW b \in Nodes, NEW f, First(s, a, b, f)
        PROVE  Reaches(f.s, b, f.hops)
    <3>1. /\ a = Origin[s] /\ b \in NeighborsOf(a) /\ f.s = s
          /\ f.hops = Decremented(Hops[s]) /\ MayPropagate(Decremented(Hops[s]))
      BY <2>2 DEF First
    <3>2. Reaches(s, a, Hops[s]) /\ Hops[s] \in Int
      BY <3>1, OriginIsNear DEF DiscoveryAssumption
    <3>3. <<a, b>> \in Links
      BY <1>2, <3>1
    <3>4. Reaches(s, b, Decremented(Hops[s]))
      BY <3>1, <3>2, <3>3, ReachesOn
    <3> QED BY <3>1, <3>4
  <2> QED BY <2>1, <2>2
<1>4. ASSUME NEW m \in Nodes, NEW n \in Nodes, AlreadyAsked(m, n) PROVE WaysNear'
  <2>1. \A a, b \in Nodes : Way(a, b)' \subseteq Way(a, b)
    BY <1>0, <1>4, TakenAway DEF AlreadyAsked, Way
  <2> QED BY <2>1
<1>5. ASSUME NEW m \in Nodes, NEW n \in Nodes, Visit(m, n) PROVE WaysNear'
  <2> DEFINE r == Head(asks[m][n])
  <2>1. /\ r \in Way(m, n) /\ r \in Requests
        /\ \A a, b \in Nodes : \A f \in Way(a, b)' :
              f \in Way(a, b) \/ (a = n /\ Onward(r, n, b, f))
    BY <1>0, <1>5, VisitsOnward
  <2> HIDE DEF r
  <2>2. r.s \in Searches /\ r.hops \in Int /\ Reaches(r.s, n, r.hops)
    BY <2>1 DEF Requests
  <2>3. ASSUME NEW b \in Nodes, NEW f, Onward(r, n, b, f)
        PROVE  Reaches(f.s, b, f.hops)
    <3>1. b \in NeighborsOf(n) /\ f.s = r.s /\ f.hops = Decremented(r.hops) /\ MayPropagate(Decremented(r.hops))
      BY <2>3 DEF Onward
    <3>2. <<n, b>> \in Links
      BY <1>2, <3>1
    <3>3. Reaches(r.s, b, Decremented(r.hops))
      <4> DEFINE s == r.s
                 h == r.hops
      <4>1. s \in Searches /\ h \in Int /\ Reaches(s, n, h) /\ MayPropagate(Decremented(h))
        BY <2>2, <3>1
      <4> HIDE DEF s, h
      <4>2. Reaches(s, b, Decremented(h))
        BY <3>2, <4>1, ReachesOn
      <4> QED BY <4>2 DEF s, h
    <3> QED BY <3>1, <3>3
  <2> QED BY <2>1, <2>3
<1> QED BY <1>1, <1>3, <1>4, <1>5, AsksWriters

(* Who answers was reached.                                                *)
LEMMA AnswersNearStep ==
  ASSUME DiscoveryAssumption, IsFiniteSet(Nodes), DepthsOK, DInv, [Next]_vars, WaysNear, AnswersNear
  PROVE  AnswersNear'
<1> DEFINE MailNear == \A j \in BagToSet(mail) : j.node \in Near[j.s]
           FoundNear == \A s \in Searches :
              /\ actualReq[s] # None => ToSet(actualReq[s]) \subseteq Near[s]
              /\ ToSet(found[s]) \subseteq Near[s]
<1>0. MailNear /\ FoundNear /\ AnswersOK /\ AsksOK /\ BagToSet(mail) \subseteq Responses
  BY DEF AnswersNear, DInv, WaysOK, MailOK
<1>a. SUFFICES MailNear' /\ FoundNear'
  BY DEF AnswersNear
<1>1. MailNear'
  <2>1. CASE UNCHANGED mail
    BY <1>0, <2>1
  <2>2. ASSUME NEW s \in Searches, NEW n \in Near[s], NEW wb \in Seq(Nodes), n \in Nodes, Respond(s, n, wb)
        PROVE  MailNear'
    <3>1. CASE mail' = mail
      BY <1>0, <3>1
    <3>2. ASSUME NEW j, Responds(s, n, j), mail' = mail (+) SetToBag({j}) PROVE MailNear'
      <4>1. BagToSet(mail') = BagToSet(mail) \cup {j}
        BY <3>2, BagAdds
      <4> QED BY <1>0, <3>2, <4>1 DEF Responds
    <3> QED BY <2>2, <3>1, <3>2, Responded
  <2>3. ASSUME NEW s \in Searches, Launch(s) PROVE MailNear'
    <3>1. Origin[s] \in Nodes /\ Origin[s] \in Near[s] /\ <<>> \in Seq(Nodes)
      BY OriginIsNear, EmptySeq DEF DiscoveryAssumption
    <3>2. UNCHANGED mail \/ Respond(s, Origin[s], <<>>)
      BY <2>3 DEF Launch
    <3> HIDE DEF MailNear
    <3> QED BY <2>1, <2>2, <3>1, <3>2
  <2>4. ASSUME NEW m \in Nodes, NEW n \in Nodes, Visit(m, n) PROVE MailNear'
    <3> DEFINE r == Head(asks[m][n])
    <3>1. r \in Requests /\ r \in Way(m, n)
      BY <1>0, <2>4, TakenAway DEF Visit
    <3>2. UNCHANGED mail \/ Respond(r.s, n, r.wb)
      BY <2>4 DEF Visit
    <3> HIDE DEF r
    <3>3. r.s \in Searches /\ r.wb \in Seq(Nodes) /\ r.hops \in Int /\ Reaches(r.s, n, r.hops)
      BY <3>1 DEF Requests, WaysNear
    <3>4. n \in Near[r.s]
      BY <3>3, ReachedIsNear
    <3> HIDE DEF MailNear
    <3> QED BY <2>1, <2>2, <3>2, <3>3, <3>4
  <2>5. ASSUME NEW m \in BagToSet(mail), rerouteResponse(m) PROVE MailNear'
    <3> DEFINE j == [m EXCEPT !.at = Last(m.wb), !.wb = Front(m.wb)]
               rest == mail (-) SetToBag({m})
    <3>1. m \in Responses
      BY <1>0
    <3>2. j.s = m.s /\ j.node = m.node
      BY <3>1 DEF Responses
    <3>3. mail' = rest (+) SetToBag({j})
      BY <2>5 DEF rerouteResponse
    <3> HIDE DEF j
    <3>4. BagToSet(rest) \subseteq BagToSet(mail)
      BY BagDrops
    <3> HIDE DEF rest
    <3>5. BagToSet(mail') = BagToSet(rest) \cup {j}
      BY <3>3, BagAdds
    <3> QED BY <1>0, <3>2, <3>4, <3>5
  <2>6. ASSUME NEW m \in BagToSet(mail), callbackResult(m) PROVE MailNear'
    <3>1. BagToSet(mail') \subseteq BagToSet(mail)
      BY <2>6, BagDrops DEF callbackResult
    <3> QED BY <1>0, <3>1
  <2> QED BY <2>1, <2>3, <2>4, <2>5, <2>6, MailWriters
<1>2. FoundNear'
  <2>1. CASE UNCHANGED <<actualReq, found>>
    BY <1>0, <2>1
  <2>2. ASSUME NEW s \in Searches, Launch(s) PROVE FoundNear'
    <3>1. actualReq' = [actualReq EXCEPT ![s] = <<>>] /\ found' = found
      BY <2>2 DEF Launch, waitVars
    <3> QED BY <1>0, <3>1, Empties DEF AnswersOK
  <2>3. ASSUME NEW s \in Searches, Woken(s) \/ SleptEnough(s) PROVE FoundNear'
    <3>1. Collect(s) /\ phase[s] \in {"asked", "waiting"}
      BY <2>3 DEF Woken, SleptEnough
    <3>2. actualReq[s] # None
      BY <1>0, <3>1 DEF AnswersOK
    <3>3. /\ found' = [found EXCEPT ![s] = actualReq[s]]
          /\ actualReq' = [actualReq EXCEPT ![s] = None]
      BY <3>1 DEF Collect
    <3> QED BY <1>0, <3>2, <3>3 DEF AnswersOK
  <2>4. ASSUME NEW m \in BagToSet(mail), callbackResult(m) PROVE FoundNear'
    <3>1. m.node \in Nodes /\ m.node \in Near[m.s]
      BY <1>0 DEF Responses
    <3>2. /\ found' = found
          /\ \A s \in Searches : actualReq'[s] = IF s = m.s /\ m.at = Origin[s] /\ actualReq[s] # None
                                              THEN Append(actualReq[s], m.node) ELSE actualReq[s]
      BY <2>4 DEF callbackResult
    <3>3. ASSUME NEW s \in Searches, actualReq[s] # None
          PROVE  ToSet(Append(actualReq[s], m.node)) = ToSet(actualReq[s]) \cup {m.node}
      <4> DEFINE h == actualReq[s]
                 e == m.node
      <4>1. h \in Seq(Nodes) /\ e \in Nodes
        BY <1>0, <3>1, <3>3 DEF AnswersOK
      <4> HIDE DEF h, e
      <4>2. ToSet(Append(h, e)) = ToSet(h) \cup {e}
        BY <4>1, AppendSet
      <4> QED BY <4>2 DEF h, e
    <3>4. ASSUME NEW s \in Searches, actualReq'[s] # None
          PROVE  ToSet(actualReq'[s]) \subseteq Near[s]
      <4>1. CASE s = m.s /\ m.at = Origin[s] /\ actualReq[s] # None
        <5>1. actualReq'[s] = Append(actualReq[s], m.node)
          BY <3>2, <4>1
        <5>2. ToSet(Append(actualReq[s], m.node)) = ToSet(actualReq[s]) \cup {m.node}
          BY <3>3, <4>1
        <5>3. ToSet(actualReq[s]) \subseteq Near[s] /\ m.node \in Near[s]
          BY <1>0, <3>1, <4>1
        <5> QED BY <5>1, <5>2, <5>3
      <4>2. CASE ~(s = m.s /\ m.at = Origin[s] /\ actualReq[s] # None)
        BY <1>0, <3>2, <3>4, <4>2
      <4> QED BY <4>1, <4>2
    <3>5. \A s \in Searches : ToSet(found'[s]) \subseteq Near[s]
      BY <1>0, <3>2
    <3> QED BY <3>4, <3>5
  <2> QED BY <2>1, <2>2, <2>3, <2>4, AnswerWriters
<1> QED BY <1>1, <1>2

(* Together.                                                               *)
LEMMA NearInvStep ==
  ASSUME DiscoveryAssumption, IsFiniteSet(Nodes), DepthsOK, DInv, [Next]_vars, NearInv
  PROVE  NearInv'
<1> SUFFICES ASSUME registers' = 0 PROVE LinksOnly' /\ WaysNear' /\ AnswersNear'
  BY DEF NearInv
<1>1. registers = 0
  <2>1. registers \in Nat
    BY DEF DInv, WorldOK
  <2>2. registers' = registers \/ registers' = registers + 1
    BY WorldWriters DEF Die, SelfRegister, worldVars
  <2> QED BY <2>1, <2>2
<1> QED BY <1>1, LinksOnlyStep, WaysNearStep, AnswersNearStep DEF NearInv

(* They hold at the start.                                                 *)
LEMMA NearInvInit == ASSUME DiscoveryAssumption, Init PROVE NearInv
<1> USE DEF Init
<1>1. LinksOnly
  <2>1. \A n, m \in Nodes : neighborsList[n][m] = IF <<n, m>> \in Links THEN 1 ELSE 0
    OBVIOUS
  <2> QED BY <2>1, Empties DEF LinksOnly
<1>2. WaysNear
  <2>1. \A m, n \in Nodes : Way(m, n) = {}
    BY Empties DEF Way
  <2> QED BY <2>1 DEF WaysNear
<1>3. AnswersNear
  BY Empties DEF AnswersNear
<1> QED BY <1>1, <1>2, <1>3 DEF NearInv

(* No node answers that is further from the origin than the depth asked    *)
(* for, whatever links were cut, nodes died and requests met meanwhile.    *)
THEOREM NotTooFar ==
  ASSUME IsFiniteSet(Nodes), DepthsOK
  PROVE  Spec => []AnswersWithinDepth
<1> USE DiscoveryAssumption
<1>1. Init => NearInv
  BY NearInvInit
<1>2. DInv /\ NearInv /\ [Next]_vars => NearInv'
  BY NearInvStep
<1>3. DInv /\ NearInv => AnswersWithinDepth
  <2> SUFFICES ASSUME DInv, NearInv, registers = 0, NEW s \in Searches \ Ends
               PROVE  ToSet(found[s]) \cup Answers(s) \subseteq Near[s]
    BY DEF AnswersWithinDepth
  <2>1. AnswersNear
    BY DEF NearInv
  <2> QED BY <2>1 DEF AnswersNear, Answers
<1> QED BY <1>1, <1>2, <1>3, DInvAlways, PTL DEF Spec

-----------------------------------------------------------------------------
(* A node answers a request once, as long as it remembers it.              *)

(* What was not launched is not known anywhere.                            *)
Unstarted ==
  \A s \in Searches : phase[s] = "idle" =>
    /\ actualReq[s] = None /\ found[s] = <<>>
    /\ \A m, n \in Nodes : \A r \in Way(m, n) : r.s # s
    /\ \A j \in BagToSet(mail) : j.s # s
    /\ \A n \in Nodes : s \notin ToSet(knownRequests[n])

(* The requests on their way, by the nodes they are sent to.               *)
LEMMA OnItsWayIs ==
  ASSUME NEW s
  PROVE  OnItsWay(s) <=>
           \/ phase[s] = "listed" /\ Origin[s] \notin dead
           \/ \E m, n \in Nodes : n \notin dead /\ \E r \in Way(m, n) : r.s = s
BY DEF OnItsWay, Way, ToSet

(* Nobody comes back from the dead.                                        *)
LEMMA DeadStay == ASSUME [Next]_vars PROVE dead \subseteq dead'
BY WorldWriters DEF Die, SelfRegister, worldVars

(* What is idle now was idle before.                                       *)
LEMMA Idle ==
  ASSUME DInv, [Next]_vars, NEW s \in Searches, phase'[s] = "idle"
  PROVE  phase[s] = "idle" /\ ~Launch(s) /\ ~ForwardFirst(s)
<1>0. phase \in [Searches -> Phases]
  BY DEF DInv, LaunchOK
<1>1. CASE UNCHANGED <<phase, listed>>
  BY <1>0, <1>1 DEF Launch, ForwardFirst
<1>2. ASSUME NEW q \in Searches, NEW p, phase' = [phase EXCEPT ![q] = p], p # "idle"
      PROVE  phase[s] = "idle" /\ s # q
  BY <1>0, <1>2
<1>3. ASSUME NEW q \in Searches, Launch(q) \/ ForwardFirst(q) \/ InitSem(q) \/ Woken(q) \/ SleptEnough(q)
      PROVE  \E p \in Phases : phase' = [phase EXCEPT ![q] = p] /\ p # "idle"
  <2>1. CASE Launch(q)
    BY <2>1 DEF Launch, Phases
  <2>2. CASE ForwardFirst(q)
    BY <2>2 DEF ForwardFirst, Phases
  <2>3. CASE InitSem(q)
    BY <2>3 DEF InitSem, Phases
  <2>4. CASE Woken(q) \/ SleptEnough(q)
    BY <2>4 DEF Woken, SleptEnough, Collect, Phases
  <2> QED BY <1>3, <2>1, <2>2, <2>3, <2>4
<1>4. phase[s] = "idle"
  BY <1>1, <1>2, <1>3, PhaseWriters
<1>5. ~Launch(s) /\ ~ForwardFirst(s)
  BY <1>2, <1>3
<1> QED BY <1>4, <1>5

(* Where the requests on their way come from.                              *)
LEMMA WaysFrom ==
  ASSUME DiscoveryAssumption, DInv, [Next]_vars, NEW a \in Nodes, NEW b \in Nodes, NEW f \in Way(a, b)'
  PROVE  /\ f.s \in Searches
         /\ \/ f \in Way(a, b)
            \/ ForwardFirst(f.s)
            \/ \E m, n \in Nodes : Visit(m, n) /\ Head(asks[m][n]) \in Way(m, n) /\ Head(asks[m][n]).s = f.s
<1>0. ListsOK /\ listed \in [Searches -> SUBSET Nodes] /\ AsksOK /\ AsksOK'
  BY StepWays DEF DInv, LinksOK, LaunchOK, WaysOK
<1>a. f.s \in Searches
  <2>1. asks'[a][b] \in Seq(Requests)
    BY <1>0 DEF AsksOK
  <2>2. f \in Requests
    BY <2>1, SeqSet DEF Way
  <2> QED BY <2>2 DEF Requests
<1>1. CASE UNCHANGED asks
  BY <1>a, <1>1 DEF Way
<1>2. ASSUME NEW s \in Searches, ForwardFirst(s)
      PROVE  f \in Way(a, b) \/ ForwardFirst(f.s)
  <2>1. f \in Way(a, b) \/ First(s, a, b, f)
    BY <1>0, <1>2, ForwardsFirst
  <2>2. First(s, a, b, f) => f.s = s
    BY DEF First
  <2> QED BY <1>2, <2>1, <2>2
<1>3. ASSUME NEW m \in Nodes, NEW n \in Nodes, AlreadyAsked(m, n) PROVE f \in Way(a, b)
  BY <1>0, <1>3, TakenAway DEF AlreadyAsked, Way
<1>4. ASSUME NEW m \in Nodes, NEW n \in Nodes, Visit(m, n)
      PROVE  \/ f \in Way(a, b)
             \/ Head(asks[m][n]) \in Way(m, n) /\ Head(asks[m][n]).s = f.s
  <2> DEFINE r == Head(asks[m][n])
  <2>1. r \in Way(m, n) /\ (f \in Way(a, b) \/ (a = n /\ Onward(r, n, b, f)))
    BY <1>0, <1>4, VisitsOnward
  <2> HIDE DEF r
  <2>2. Onward(r, n, b, f) => f.s = r.s
    BY DEF Onward
  <2> QED BY <2>1, <2>2 DEF r
<1> QED BY <1>a, <1>1, <1>2, <1>3, <1>4, AsksWriters

(* A request is under way from its launch on, until it is no more.         *)
LEMMA OnItsWayFrom ==
  ASSUME DiscoveryAssumption, DInv, [Next]_vars, NEW s \in Searches, OnItsWay(s)'
  PROVE  OnItsWay(s) \/ Launch(s)
<1>0. \/ phase'[s] = "listed" /\ Origin[s] \notin dead'
      \/ \E m, n \in Nodes : n \notin dead' /\ \E r \in Way(m, n)' : r.s = s
  BY DEF OnItsWay, Way, ToSet
<1>1. CASE phase'[s] = "listed" /\ Origin[s] \notin dead'
  <2>0. phase \in [Searches -> Phases] /\ Origin[s] \notin dead
    BY <1>1, DeadStay DEF DInv, LaunchOK
  <2>1. CASE UNCHANGED <<phase, listed>>
    BY <1>1, <2>0, <2>1 DEF OnItsWay
  <2>2. ASSUME NEW q \in Searches, ForwardFirst(q) \/ InitSem(q) \/ Woken(q) \/ SleptEnough(q)
        PROVE  phase[s] = "listed"
    <3>1. \E p \in Phases : phase' = [phase EXCEPT ![q] = p] /\ p # "listed"
      <4>1. CASE ForwardFirst(q)
        BY <4>1 DEF ForwardFirst, Phases
      <4>2. CASE InitSem(q)
        BY <4>2 DEF InitSem, Phases
      <4>3. CASE Woken(q) \/ SleptEnough(q)
        BY <4>3 DEF Woken, SleptEnough, Collect, Phases
      <4> QED BY <2>2, <4>1, <4>2, <4>3
    <3> QED BY <1>1, <2>0, <3>1
  <2>3. ASSUME NEW q \in Searches, Launch(q), q # s
        PROVE  phase[s] = "listed"
    <3>1. \E p : phase' = [phase EXCEPT ![q] = p]
      BY <2>3 DEF Launch
    <3> QED BY <1>1, <2>0, <2>3, <3>1
  <2> QED BY <2>0, <2>1, <2>2, <2>3, PhaseWriters DEF OnItsWay
<1>2. ASSUME NEW a \in Nodes, NEW b \in Nodes, b \notin dead', NEW f \in Way(a, b)', f.s = s
      PROVE  OnItsWay(s)
  <2>1. b \notin dead
    BY <1>2, DeadStay
  <2>2. CASE f \in Way(a, b)
    BY <1>2, <2>1, <2>2, OnItsWayIs
  <2>3. CASE ForwardFirst(s)
    BY <2>3 DEF ForwardFirst, OnItsWay
  <2>4. ASSUME NEW m \in Nodes, NEW n \in Nodes, Visit(m, n), Head(asks[m][n]) \in Way(m, n),
               Head(asks[m][n]).s = s
        PROVE  OnItsWay(s)
    BY <2>4, OnItsWayIs DEF Visit
  <2> QED BY <1>2, <2>2, <2>3, <2>4, WaysFrom
<1> QED BY <1>0, <1>1, <1>2

(* A response that is passed on stays one response.                        *)
LEMMA Rerouted ==
  ASSUME DInv, NEW m \in BagToSet(mail), rerouteResponse(m)
  PROVE  \E j : /\ j.s = m.s /\ j.node = m.node
                /\ mail' = (mail (-) SetToBag({m})) (+) SetToBag({j})
                /\ BagToSet(mail') \subseteq BagToSet(mail) \cup {j}
<1> DEFINE j == [m EXCEPT !.at = Last(m.wb), !.wb = Front(m.wb)]
           rest == mail (-) SetToBag({m})
<1>1. m \in Responses
  BY DEF DInv, MailOK
<1>2. j.s = m.s /\ j.node = m.node
  BY <1>1 DEF Responses
<1>3. mail' = rest (+) SetToBag({j})
  BY DEF rerouteResponse
<1> HIDE DEF j
<1>4. BagToSet(rest) \subseteq BagToSet(mail)
  BY BagDrops
<1> HIDE DEF rest
<1>5. BagToSet(mail') = BagToSet(rest) \cup {j}
  BY <1>3, BagAdds
<1>6. BagToSet(mail') \subseteq BagToSet(mail) \cup {j}
  BY <1>4, <1>5
<1> QED BY <1>2, <1>3, <1>6 DEF rest

(* What was not launched stays unknown.                                    *)
LEMMA UnstartedStep ==
  ASSUME DiscoveryAssumption, DInv, [Next]_vars, Unstarted PROVE Unstarted'
<1> SUFFICES ASSUME NEW s \in Searches, phase'[s] = "idle"
             PROVE  /\ actualReq'[s] = None /\ found'[s] = <<>>
                    /\ \A m, n \in Nodes : \A r \in Way(m, n)' : r.s # s
                    /\ \A j \in BagToSet(mail') : j.s # s
                    /\ \A n \in Nodes : s \notin ToSet(knownRequests'[n])
  BY DEF Unstarted
<1>0. phase[s] = "idle" /\ ~Launch(s) /\ ~ForwardFirst(s)
  BY Idle
<1>1. /\ actualReq[s] = None /\ found[s] = <<>>
      /\ \A m, n \in Nodes : \A r \in Way(m, n) : r.s # s
      /\ \A j \in BagToSet(mail) : j.s # s
      /\ \A n \in Nodes : s \notin ToSet(knownRequests[n])
  BY <1>0 DEF Unstarted
<1>v. ASSUME NEW m \in Nodes, NEW n \in Nodes, Visit(m, n)
      PROVE  /\ Head(asks[m][n]) \in Requests /\ Head(asks[m][n]).s # s
             /\ Head(asks[m][n]).s \in Searches /\ Head(asks[m][n]).wb \in Seq(Nodes)
  <2> DEFINE r == Head(asks[m][n])
  <2>1. r \in Way(m, n) /\ r \in Requests
    BY <1>v, TakenAway DEF Visit, DInv, WaysOK
  <2> HIDE DEF r
  <2>2. r.s # s /\ r.s \in Searches /\ r.wb \in Seq(Nodes)
    BY <1>1, <2>1 DEF Requests
  <2> QED BY <2>1, <2>2 DEF r
<1>2. actualReq'[s] = None /\ found'[s] = <<>>
  <2>0. actualReq \in [Searches -> {None} \cup Seq(Nodes)] /\ found \in [Searches -> Seq(Nodes)]
        /\ phase[s] \notin {"asked", "waiting"}
    BY <1>0 DEF DInv, AnswersOK
  <2>1. CASE UNCHANGED <<actualReq, found>>
    BY <1>1, <2>1
  <2>2. ASSUME NEW q \in Searches, Launch(q) PROVE actualReq'[s] = None /\ found'[s] = <<>>
    <3>1. actualReq' = [actualReq EXCEPT ![q] = <<>>] /\ found' = found /\ q # s
      BY <1>0, <2>2 DEF Launch, waitVars
    <3> QED BY <1>1, <2>0, <3>1
  <2>3. ASSUME NEW q \in Searches, Woken(q) \/ SleptEnough(q)
        PROVE  actualReq'[s] = None /\ found'[s] = <<>>
    <3>1. q # s /\ Collect(q)
      BY <2>0, <2>3 DEF Woken, SleptEnough
    <3> QED BY <1>1, <2>0, <3>1 DEF Collect
  <2>4. ASSUME NEW m \in BagToSet(mail), callbackResult(m)
        PROVE  actualReq'[s] = None /\ found'[s] = <<>>
    <3>1. m.s # s /\ found' = found
      BY <1>1, <2>4 DEF callbackResult
    <3>2. actualReq'[s] = actualReq[s]
      BY <2>4, <3>1 DEF callbackResult
    <3> QED BY <1>1, <3>1, <3>2
  <2> QED BY <2>1, <2>2, <2>3, <2>4, AnswerWriters
<1>3. ASSUME NEW a \in Nodes, NEW b \in Nodes, NEW f \in Way(a, b)' PROVE f.s # s
  <2>1. CASE f \in Way(a, b)
    BY <1>1, <2>1
  <2>2. CASE ForwardFirst(f.s)
    BY <1>0, <2>2
  <2>3. ASSUME NEW m \in Nodes, NEW n \in Nodes, Visit(m, n), Head(asks[m][n]).s = f.s
        PROVE  f.s # s
    BY <1>v, <2>3
  <2> QED BY <2>1, <2>2, <2>3, WaysFrom
<1>4. ASSUME NEW i \in BagToSet(mail') PROVE i.s # s
  <2>1. CASE UNCHANGED mail
    BY <1>1, <2>1
  <2>2. ASSUME NEW q \in Searches, q # s, NEW n \in Nodes, NEW wb \in Seq(Nodes), Respond(q, n, wb)
        PROVE  i.s # s
    <3>1. CASE mail' = mail
      BY <2>1, <3>1
    <3>2. ASSUME NEW j, Responds(q, n, j), mail' = mail (+) SetToBag({j}) PROVE i.s # s
      <4>1. BagToSet(mail') = BagToSet(mail) \cup {j}
        BY <3>2, BagAdds
      <4> QED BY <1>1, <2>2, <3>2, <4>1 DEF Responds
    <3> QED BY <2>2, <3>1, <3>2, Responded
  <2>3. ASSUME NEW q \in Searches, Launch(q) PROVE i.s # s
    <3>1. Origin[q] \in Nodes /\ <<>> \in Seq(Nodes) /\ q # s
      BY <1>0, <2>3, EmptySeq DEF DiscoveryAssumption
    <3>2. UNCHANGED mail \/ Respond(q, Origin[q], <<>>)
      BY <2>3 DEF Launch
    <3> QED BY <2>1, <2>2, <3>1, <3>2
  <2>4. ASSUME NEW m \in Nodes, NEW n \in Nodes, Visit(m, n) PROVE i.s # s
    <3> DEFINE r == Head(asks[m][n])
    <3>1. r.s # s /\ r.s \in Searches /\ r.wb \in Seq(Nodes)
      BY <1>v, <2>4
    <3>2. UNCHANGED mail \/ Respond(r.s, n, r.wb)
      BY <2>4 DEF Visit
    <3> HIDE DEF r
    <3> QED BY <2>1, <2>2, <3>1, <3>2
  <2>5. ASSUME NEW m \in BagToSet(mail), rerouteResponse(m) PROVE i.s # s
    <3>1. \E j : j.s = m.s /\ BagToSet(mail') \subseteq BagToSet(mail) \cup {j}
      BY <2>5, Rerouted
    <3> QED BY <1>1, <3>1
  <2>6. ASSUME NEW m \in BagToSet(mail), callbackResult(m) PROVE i.s # s
    <3>1. BagToSet(mail') \subseteq BagToSet(mail)
      BY <2>6, BagDrops DEF callbackResult
    <3> QED BY <1>1, <3>1
  <2> QED BY <2>1, <2>3, <2>4, <2>5, <2>6, MailWriters
<1>5. ASSUME NEW k \in Nodes PROVE s \notin ToSet(knownRequests'[k])
  <2>0. KnownOK
    BY DEF DInv
  <2>1. CASE UNCHANGED knownRequests
    BY <1>1, <2>1
  <2>2. ASSUME NEW q \in Searches, q # s, NEW n \in Nodes, Remember(n, q)
        PROVE  s \notin ToSet(knownRequests'[k])
    <3>1. k # n => knownRequests'[k] = knownRequests[k]
      BY <2>0, <2>2, Remembers
    <3>2. ToSet(knownRequests'[n]) \subseteq ToSet(knownRequests[n]) \cup {q}
      BY <2>0, <2>2, Remembers
    <3> QED BY <1>1, <2>2, <3>1, <3>2
  <2>3. ASSUME NEW q \in Searches, Launch(q) PROVE s \notin ToSet(knownRequests'[k])
    <3>1. Origin[q] \in Nodes /\ q # s /\ Remember(Origin[q], q)
      BY <1>0, <2>3 DEF DiscoveryAssumption, Launch
    <3> QED BY <2>2, <3>1
  <2>4. ASSUME NEW m \in Nodes, NEW n \in Nodes, Visit(m, n) PROVE s \notin ToSet(knownRequests'[k])
    <3> DEFINE q == Head(asks[m][n]).s
    <3>1. q # s /\ q \in Searches
      BY <1>v, <2>4
    <3>2. Remember(n, q)
      BY <2>4 DEF Visit
    <3> HIDE DEF q
    <3> QED BY <2>2, <3>1, <3>2
  <2> QED BY <2>1, <2>3, <2>4, KnownWriters
<1> QED BY <1>2, <1>3, <1>4, <1>5

(* No node forgets a request that is still on its way.                     *)
Keeps == \A n \in Nodes, s \in Searches :
           s \in ToSet(knownRequests[n]) /\ OnItsWay(s)' => s \in ToSet(knownRequests'[n])
NoneForgotten == [][Keeps]_vars

(* The responses under way are all different, also in what they answer.    *)
MailOnce ==
  /\ \A j \in BagToSet(mail) : mail[j] = 1
  /\ \A i, j \in BagToSet(mail) : i.s = j.s /\ i.node = j.node => i = j

(* What was collected is not under way any more.                           *)
CollectedOnce ==
  \A j \in BagToSet(mail) : actualReq[j.s] # None => j.node \notin ToSet(actualReq[j.s])

(* A node that answered remembers it, as long as it may be asked again.    *)
Remembered ==
  \A s \in Searches \ Ends, n \in Nodes :
    n \in Answers(s) /\ OnItsWay(s) => s \in ToSet(knownRequests[n])

OnceInv == Unstarted /\ MailOnce /\ CollectedOnce /\ Remembered

(* Where new answers come from: a node that did not answer and remembers   *)
(* the request now.                                                        *)
LEMMA Asked ==
  ASSUME DiscoveryAssumption, DInv, OnceInv, NEW m \in Nodes, NEW n \in Nodes, Visit(m, n),
         NEW s, s = Head(asks[m][n]).s, s \notin Ends
  PROVE  s \in Searches /\ n \notin Answers(s) /\ Remember(n, s)
<1> DEFINE r == Head(asks[m][n])
<1>1. r \in Way(m, n) /\ r \in Requests /\ n \notin dead
  BY TakenAway DEF Visit, DInv, WaysOK
<1>2. r.s \notin Ends => r.s \notin ToSet(knownRequests[n])
  BY DEF Visit
<1>3. Remember(n, r.s)
  BY DEF Visit
<1>4. r.s = s
  OBVIOUS
<1> HIDE DEF r
<1>5. s \in Searches
  BY <1>1, <1>4 DEF Requests
<1>6. OnItsWay(s)
  BY <1>1, <1>4, OnItsWayIs
<1>7. n \notin Answers(s)
  BY <1>2, <1>4, <1>5, <1>6 DEF OnceInv, Remembered
<1> QED BY <1>3, <1>4, <1>5, <1>7

(* Nobody answered a request that was not launched.                        *)
LEMMA NotYet ==
  ASSUME OnceInv, NEW s \in Searches, phase[s] = "idle"
  PROVE  Answers(s) = {} /\ actualReq[s] = None /\ found[s] = <<>>
BY DEF OnceInv, Unstarted, Answers

(* A response that is sent is the first of its node.                       *)
LEMMA RespondedOnce ==
  ASSUME DiscoveryAssumption, DInv, MailOnce, NEW s \in Searches, NEW n \in Nodes, n \notin Answers(s),
         NEW wb \in Seq(Nodes), Respond(s, n, wb)
  PROVE  /\ MailOnce'
         /\ \A i \in BagToSet(mail') : i \in BagToSet(mail) \/ (i.s = s /\ i.node = n /\ s \notin Ends)
<1>1. CASE mail' = mail
  BY <1>1 DEF MailOnce
<1>2. ASSUME NEW j, Responds(s, n, j), mail' = mail (+) SetToBag({j})
      PROVE  /\ MailOnce'
             /\ \A i \in BagToSet(mail') : i \in BagToSet(mail) \/ (i.s = s /\ i.node = n /\ s \notin Ends)
  <2>1. j.s = s /\ j.node = n /\ s \notin Ends
    BY <1>2 DEF Responds
  <2>2. \A i \in BagToSet(mail) : ~(i.s = j.s /\ i.node = j.node)
    BY <2>1 DEF Answers
  <2>3. j \notin BagToSet(mail)
    BY <2>2
  <2>4. BagToSet(mail') = BagToSet(mail) \cup {j}
    BY <1>2, BagAdds
  <2>5. ASSUME NEW i \in BagToSet(mail), i # j PROVE mail'[i] = mail[i] + 0
    <3>1. AsMany(mail, mail', i)
      BY <1>2, <2>5, BagKeeps
    <3> QED BY <3>1 DEF AsMany
  <2>6. mail'[j] = 0 + 1
    BY <1>2, <2>3, BagAdds
  <2>7. ASSUME NEW i \in BagToSet(mail') PROVE mail'[i] = 1
    <3>1. CASE i = j
      BY <2>6, <3>1
    <3>2. CASE i # j
      <4>1. i \in BagToSet(mail) /\ mail[i] = 1
        BY <2>4, <3>2 DEF MailOnce
      <4> QED BY <2>5, <3>2, <4>1
    <3> QED BY <3>1, <3>2
  <2>8. \A h, i \in BagToSet(mail') : h.s = i.s /\ h.node = i.node => h = i
    BY <2>2, <2>4 DEF MailOnce
  <2> QED BY <2>1, <2>4, <2>7, <2>8 DEF MailOnce
<1> QED BY <1>1, <1>2, Responded

Without(m, B) ==
  /\ BagToSet(B) \subseteq BagToSet(mail) \ {m}
  /\ \A i \in BagToSet(B) : B[i] = 1 /\ ~(i.s = m.s /\ i.node = m.node)

(* A response that is taken is gone.                                       *)
LEMMA TakenOnce ==
  ASSUME MailOnce, NEW m \in BagToSet(mail), NEW B, B = mail (-) SetToBag({m})
  PROVE  Without(m, B)
<1>1. mail[m] = 1
  BY DEF MailOnce
<1>2. m \notin BagToSet(B)
  BY <1>1, BagDrops
<1>3. BagToSet(B) \subseteq BagToSet(mail)
  BY BagDrops
<1>4. \A i \in BagToSet(B) : i # m => B[i] = mail[i]
  BY BagDrops
<1> QED BY <1>2, <1>3, <1>4 DEF MailOnce, Without

(* The mail and the answers change together.                               *)
LEMMA MailOnceStep ==
  ASSUME DiscoveryAssumption, DInv, [Next]_vars, OnceInv PROVE MailOnce'
<1>0. MailOnce
  BY DEF OnceInv
<1>1. CASE UNCHANGED mail
  BY <1>0, <1>1 DEF MailOnce
<1>2. ASSUME NEW s \in Searches, Launch(s) PROVE MailOnce'
  <2>1. Origin[s] \in Nodes /\ <<>> \in Seq(Nodes)
    BY EmptySeq DEF DiscoveryAssumption
  <2>2. Origin[s] \notin Answers(s)
    BY <1>2, NotYet DEF Launch
  <2>3. UNCHANGED mail \/ Respond(s, Origin[s], <<>>)
    BY <1>2 DEF Launch
  <2> QED BY <1>0, <1>1, <2>1, <2>2, <2>3, RespondedOnce
<1>3. ASSUME NEW m \in Nodes, NEW n \in Nodes, Visit(m, n) PROVE MailOnce'
  <2> DEFINE r == Head(asks[m][n])
  <2>1. r \in Requests
    BY <1>3, TakenAway DEF Visit, DInv, WaysOK
  <2>2. UNCHANGED mail \/ Respond(r.s, n, r.wb)
    BY <1>3 DEF Visit
  <2>3. r.s \notin Ends => n \notin Answers(r.s)
    BY <1>3, Asked
  <2> HIDE DEF r
  <2>4. r.s \in Searches /\ r.wb \in Seq(Nodes)
    BY <2>1 DEF Requests
  <2>5. CASE r.s \in Ends
    <3>1. UNCHANGED mail
      BY <2>2, <2>5 DEF Respond
    <3> QED BY <1>1, <3>1
  <2> QED BY <1>0, <1>1, <2>2, <2>3, <2>4, <2>5, RespondedOnce
<1>4. ASSUME NEW m \in BagToSet(mail), rerouteResponse(m) PROVE MailOnce'
  <2> DEFINE B == mail (-) SetToBag({m})
  <2>1. PICK j : j.s = m.s /\ j.node = m.node /\ mail' = B (+) SetToBag({j})
    BY <1>4, Rerouted
  <2>2. /\ BagToSet(B) \subseteq BagToSet(mail) \ {m}
        /\ \A i \in BagToSet(B) : B[i] = 1 /\ ~(i.s = m.s /\ i.node = m.node)
    <3>1. Without(m, B)
      BY <1>0, TakenOnce
    <3> QED BY <3>1 DEF Without
  <2> HIDE DEF B
  <2>3. j \notin BagToSet(B)
    BY <2>1, <2>2
  <2>4. BagToSet(mail') = BagToSet(B) \cup {j}
    BY <2>1, BagAdds
  <2>5. ASSUME NEW i \in BagToSet(B), i # j PROVE mail'[i] = B[i] + 0
    <3>1. AsMany(B, mail', i)
      BY <2>1, <2>5, BagKeeps
    <3> QED BY <3>1 DEF AsMany
  <2>6. mail'[j] = 0 + 1
    BY <2>1, <2>3, BagAdds
  <2>7. ASSUME NEW i \in BagToSet(mail') PROVE mail'[i] = 1
    <3>1. CASE i = j
      BY <2>6, <3>1
    <3>2. CASE i # j
      <4>1. i \in BagToSet(B) /\ B[i] = 1
        BY <2>2, <2>4, <3>2
      <4> QED BY <2>5, <3>2, <4>1
    <3> QED BY <3>1, <3>2
  <2>8. \A h, i \in BagToSet(mail') : h.s = i.s /\ h.node = i.node => h = i
    <3>1. \A h, i \in BagToSet(B) : h.s = i.s /\ h.node = i.node => h = i
      BY <1>0, <2>2 DEF MailOnce
    <3>2. \A i \in BagToSet(B) : ~(i.s = j.s /\ i.node = j.node)
      BY <2>1, <2>2
    <3> QED BY <2>4, <3>1, <3>2
  <2> QED BY <2>7, <2>8 DEF MailOnce
<1>5. ASSUME NEW m \in BagToSet(mail), callbackResult(m) PROVE MailOnce'
  <2>1. mail' = mail (-) SetToBag({m})
    BY <1>5 DEF callbackResult
  <2>2. /\ BagToSet(mail') \subseteq BagToSet(mail) \ {m}
        /\ \A i \in BagToSet(mail') : mail'[i] = 1 /\ ~(i.s = m.s /\ i.node = m.node)
    <3>1. Without(m, mail')
      BY <1>0, <2>1, TakenOnce
    <3> QED BY <3>1 DEF Without
  <2> QED BY <1>0, <2>2 DEF MailOnce
<1> QED BY <1>1, <1>2, <1>3, <1>4, <1>5, MailWriters

(* A response that is new answers for a node that did not; one that is     *)
(* collected is gone.                                                      *)
NewIn(i) == i.s \in Searches \ Ends /\ i.node \notin Answers(i.s)
(* Where the responses come from.                                          *)
LEMMA MailFrom ==
  ASSUME DiscoveryAssumption, DInv, [Next]_vars, OnceInv, NEW i \in BagToSet(mail')
  PROVE  \/ i \in BagToSet(mail)
         \/ NewIn(i) /\ Remember(i.node, i.s)
         \/ \E m \in BagToSet(mail) : rerouteResponse(m) /\ i.s = m.s /\ i.node = m.node
<1>0. MailOnce
  BY DEF OnceInv
<1>1. CASE UNCHANGED mail
  BY <1>1
<1>2. ASSUME NEW s \in Searches, Launch(s), i \notin BagToSet(mail)
      PROVE  NewIn(i) /\ Remember(i.node, i.s)
  <2>1. Origin[s] \in Nodes /\ <<>> \in Seq(Nodes)
    BY EmptySeq DEF DiscoveryAssumption
  <2>2. Origin[s] \notin Answers(s)
    BY <1>2, NotYet DEF Launch
  <2>3. (UNCHANGED mail \/ Respond(s, Origin[s], <<>>)) /\ Remember(Origin[s], s)
    BY <1>2 DEF Launch
  <2>4. Respond(s, Origin[s], <<>>)
    BY <1>1, <1>2, <2>3
  <2>5. i.s = s /\ i.node = Origin[s] /\ s \notin Ends
    BY <1>0, <1>2, <2>1, <2>2, <2>4, RespondedOnce
  <2> QED BY <2>2, <2>3, <2>5 DEF NewIn
<1>3. ASSUME NEW m \in Nodes, NEW n \in Nodes, Visit(m, n), i \notin BagToSet(mail)
      PROVE  NewIn(i) /\ Remember(i.node, i.s)
  <2> DEFINE r == Head(asks[m][n])
  <2>1. r \in Requests
    BY <1>3, TakenAway DEF Visit, DInv, WaysOK
  <2>2. (UNCHANGED mail \/ Respond(r.s, n, r.wb)) /\ Remember(n, r.s)
    BY <1>3 DEF Visit
  <2>3. r.s \notin Ends => n \notin Answers(r.s)
    BY <1>3, Asked
  <2> HIDE DEF r
  <2>4. r.s \in Searches /\ r.wb \in Seq(Nodes)
    BY <2>1 DEF Requests
  <2>5. r.s \notin Ends /\ Respond(r.s, n, r.wb)
    BY <1>3, <2>2 DEF Respond
  <2>6. i.s = r.s /\ i.node = n
    BY <1>0, <1>3, <2>3, <2>4, <2>5, RespondedOnce
  <2> QED BY <2>2, <2>3, <2>4, <2>5, <2>6 DEF NewIn
<1>4. ASSUME NEW m \in BagToSet(mail), rerouteResponse(m), i \notin BagToSet(mail)
      PROVE  i.s = m.s /\ i.node = m.node
  BY <1>4, Rerouted
<1>5. ASSUME NEW m \in BagToSet(mail), callbackResult(m) PROVE i \in BagToSet(mail)
  BY <1>5, BagDrops DEF callbackResult
<1> QED BY <1>1, <1>2, <1>3, <1>4, <1>5, MailWriters

(* A response under way was not collected yet.                             *)
LEMMA Fresh ==
  ASSUME DiscoveryAssumption, DInv, [Next]_vars, OnceInv, NEW i \in BagToSet(mail'),
         actualReq[i.s] # None
  PROVE  i.node \notin ToSet(actualReq[i.s])
<1>0. CollectedOnce
  BY DEF OnceInv
<1>1. CASE i \in BagToSet(mail)
  BY <1>0, <1>1 DEF CollectedOnce
<1>2. CASE NewIn(i)
  BY <1>2 DEF NewIn, Answers
<1>3. ASSUME NEW m \in BagToSet(mail), i.s = m.s /\ i.node = m.node
      PROVE  i.node \notin ToSet(actualReq[i.s])
  BY <1>0, <1>3 DEF CollectedOnce
<1> QED BY <1>1, <1>2, <1>3, MailFrom

(* An answer is collected where its request has a place.                   *)
LEMMA Collects ==
  ASSUME DInv, NEW m \in BagToSet(mail), callbackResult(m), NEW s \in Searches, actualReq'[s] # None
  PROVE  /\ actualReq[s] # None
         /\ \/ actualReq'[s] = actualReq[s]
            \/ /\ s = m.s /\ actualReq'[s] = Append(actualReq[s], m.node)
               /\ ToSet(actualReq'[s]) = ToSet(actualReq[s]) \cup {m.node}
<1>1. actualReq'[s] = IF s = m.s /\ m.at = Origin[s] /\ actualReq[s] # None
                        THEN Append(actualReq[s], m.node) ELSE actualReq[s]
  BY DEF callbackResult
<1>2. actualReq[s] # None
  BY <1>1
<1>3. actualReq[s] \in Seq(Nodes) /\ m.node \in Nodes
  BY <1>2 DEF DInv, AnswersOK, MailOK, Responses
<1>4. ToSet(Append(actualReq[s], m.node)) = ToSet(actualReq[s]) \cup {m.node}
  BY <1>3, AppendSet
<1> QED BY <1>1, <1>2, <1>4

(* A response is collected once.                                           *)
LEMMA CollectedOnceStep ==
  ASSUME DiscoveryAssumption, DInv, [Next]_vars, OnceInv PROVE CollectedOnce'
<1> SUFFICES ASSUME NEW i \in BagToSet(mail'), actualReq'[i.s] # None
             PROVE  i.node \notin ToSet(actualReq'[i.s])
  BY DEF CollectedOnce
<1>0. i.s \in Searches /\ actualReq \in [Searches -> {None} \cup Seq(Nodes)]
  BY StepMail DEF MailOK, Responses, DInv, AnswersOK
<1>1. CASE actualReq'[i.s] = actualReq[i.s]
  BY <1>1, Fresh
<1>2. CASE UNCHANGED <<actualReq, found>>
  BY <1>1, <1>2
<1>3. ASSUME NEW s \in Searches, Launch(s) PROVE i.node \notin ToSet(actualReq'[i.s])
  <2>1. actualReq' = [actualReq EXCEPT ![s] = <<>>]
    BY <1>3 DEF Launch
  <2>2. CASE i.s = s
    <3>1. actualReq'[i.s] = <<>>
      BY <1>0, <2>1, <2>2
    <3> QED BY <3>1, Empties
  <2>3. CASE i.s # s
    BY <1>0, <1>1, <2>1, <2>3
  <2> QED BY <2>2, <2>3
<1>4. ASSUME NEW s \in Searches, Woken(s) \/ SleptEnough(s) PROVE actualReq'[i.s] = actualReq[i.s]
  <2>1. actualReq' = [actualReq EXCEPT ![s] = None]
    BY <1>4 DEF Woken, SleptEnough, Collect
  <2> QED BY <1>0, <2>1
<1>5. ASSUME NEW m \in BagToSet(mail), callbackResult(m) PROVE i.node \notin ToSet(actualReq'[i.s])
  <2>1. mail' = mail (-) SetToBag({m}) /\ MailOnce
    BY <1>5 DEF callbackResult, OnceInv
  <2>2. Without(m, mail')
    BY <2>1, TakenOnce
  <2>3. ~(i.s = m.s /\ i.node = m.node)
    BY <2>2 DEF Without
  <2>4. /\ actualReq[i.s] # None
        /\ \/ actualReq'[i.s] = actualReq[i.s]
           \/ i.s = m.s /\ ToSet(actualReq'[i.s]) = ToSet(actualReq[i.s]) \cup {m.node}
    BY <1>0, <1>5, Collects
  <2>5. i.node \notin ToSet(actualReq[i.s])
    BY <2>4, Fresh
  <2> QED BY <2>3, <2>4, <2>5
<1> QED BY <1>1, <1>2, <1>3, <1>4, <1>5, AnswerWriters

(* A node that has answered did so before, or remembers the request now.   *)
LEMMA AnswersFrom ==
  ASSUME DiscoveryAssumption, DInv, [Next]_vars, OnceInv, NEW s \in Searches, NEW n \in Answers(s)'
  PROVE  n \in Answers(s) \/ (Remember(n, s) /\ s \notin Ends)
<1>1. ASSUME NEW i \in BagToSet(mail'), i.s = s, i.node = n
      PROVE  n \in Answers(s) \/ (Remember(n, s) /\ s \notin Ends)
  <2>1. \A m \in BagToSet(mail) : m.s = s /\ m.node = n => n \in Answers(s)
    BY DEF Answers
  <2> QED BY <1>1, <2>1, MailFrom DEF NewIn
<1>2. ASSUME actualReq'[s] # None, n \in ToSet(actualReq'[s]) PROVE n \in Answers(s)
  <2>0. actualReq \in [Searches -> {None} \cup Seq(Nodes)]
    BY DEF DInv, AnswersOK
  <2>1. CASE actualReq'[s] = actualReq[s]
    BY <1>2, <2>1 DEF Answers
  <2>2. CASE UNCHANGED <<actualReq, found>>
    BY <2>1, <2>2
  <2>3. ASSUME NEW q \in Searches, Launch(q) PROVE n \in Answers(s)
    <3>1. actualReq' = [actualReq EXCEPT ![q] = <<>>]
      BY <2>3 DEF Launch
    <3>2. q # s
      BY <1>2, <2>0, <3>1, Empties
    <3> QED BY <2>0, <2>1, <3>1, <3>2
  <2>4. ASSUME NEW q \in Searches, Woken(q) \/ SleptEnough(q) PROVE n \in Answers(s)
    <3>1. actualReq' = [actualReq EXCEPT ![q] = None]
      BY <2>4 DEF Woken, SleptEnough, Collect
    <3>2. actualReq'[s] = actualReq[s]
      BY <1>2, <2>0, <3>1
    <3> QED BY <2>1, <3>2
  <2>5. ASSUME NEW m \in BagToSet(mail), callbackResult(m) PROVE n \in Answers(s)
    <3>1. /\ actualReq[s] # None
          /\ \/ actualReq'[s] = actualReq[s]
             \/ s = m.s /\ ToSet(actualReq'[s]) = ToSet(actualReq[s]) \cup {m.node}
      BY <1>2, <2>5, Collects
    <3> QED BY <1>2, <2>1, <3>1 DEF Answers
  <2> QED BY <2>2, <2>3, <2>4, <2>5, AnswerWriters
<1>3. \/ \E i \in BagToSet(mail') : i.s = s /\ i.node = n
      \/ actualReq'[s] # None /\ n \in ToSet(actualReq'[s])
  BY DEF Answers
<1> QED BY <1>1, <1>2, <1>3

(* Who answered remembers.                                                 *)
LEMMA RememberedStep ==
  ASSUME DiscoveryAssumption, MaxReqToSave > 0, DInv, [Next]_vars, OnceInv, Keeps PROVE Remembered'
<1> SUFFICES ASSUME NEW s \in Searches \ Ends, NEW n \in Nodes, n \in Answers(s)', OnItsWay(s)'
             PROVE  s \in ToSet(knownRequests'[n])
  BY DEF Remembered
<1>1. CASE Remember(n, s)
  BY <1>1, Remembers DEF DInv
<1>2. CASE n \in Answers(s)
  <2>1. ~Launch(s)
    BY <1>2, NotYet DEF Launch
  <2>2. OnItsWay(s)
    BY <2>1, OnItsWayFrom
  <2>3. s \in ToSet(knownRequests[n])
    BY <1>2, <2>2 DEF OnceInv, Remembered
  <2> QED BY <2>3 DEF Keeps
<1> QED BY <1>1, <1>2, AnswersFrom

(* Together.                                                               *)
LEMMA OnceInvStep ==
  ASSUME DiscoveryAssumption, MaxReqToSave > 0, DInv, [Next]_vars, OnceInv, [Keeps]_vars PROVE OnceInv'
<1>1. Keeps
  BY DEF Keeps, vars, treeVars
<1> QED BY <1>1, UnstartedStep, MailOnceStep, CollectedOnceStep, RememberedStep DEF OnceInv

(* They hold at the start.                                                 *)
LEMMA OnceInvInit == ASSUME DiscoveryAssumption, Init PROVE OnceInv
<1> USE DEF Init
<1>1. BagToSet(mail) = {} /\ ToSet(<<>>) = {}
  BY Empties
<1>2. \A m, n \in Nodes : Way(m, n) = {}
  BY Empties DEF Way
<1>3. Unstarted
  BY <1>1, <1>2 DEF Unstarted
<1>4. MailOnce /\ CollectedOnce
  BY <1>1 DEF MailOnce, CollectedOnce
<1>5. Remembered
  BY <1>1 DEF Remembered, Answers
<1> QED BY <1>3, <1>4, <1>5 DEF OnceInv

-----------------------------------------------------------------------------
(* The discovery keeps its promise.                                        *)
LEMMA SearchStep ==
  ASSUME DiscoveryAssumption, DInv, [Next]_vars, OnceInv
  PROVE  [Search!Next]_(Search!vars)
<1> DEFINE answers == [s \in Searches |-> IF actualReq[s] = None THEN found[s] ELSE actualReq[s]]
           open == {s \in Searches : actualReq[s] # None}
<1>0. /\ actualReq \in [Searches -> {None} \cup Seq(Nodes)]
      /\ found \in [Searches -> Seq(Nodes)] /\ <<>> # None
      /\ \A s \in Searches : phase[s] \in {"asked", "waiting"} => actualReq[s] # None
  <2>1. <<>> \in Seq(Nodes) /\ None \notin Seq(Nodes)
    BY EmptySeq DEF DiscoveryAssumption
  <2> QED BY <2>1 DEF DInv, AnswersOK
<1>1. fitting' = fitting
  BY WorldWriters DEF Die, SelfRegister, worldVars
<1>2. CASE UNCHANGED <<actualReq, found>>
  BY <1>1, <1>2 DEF Search!vars
<1>3. ASSUME NEW s \in Searches, Launch(s) PROVE Search!Launch(s)
  <2>1. actualReq[s] = None /\ found[s] = <<>>
    BY <1>3, NotYet DEF Launch
  <2>2. actualReq' = [actualReq EXCEPT ![s] = <<>>] /\ found' = found
    BY <1>3 DEF Launch, waitVars
  <2>3. s \notin open /\ answers[s] = <<>>
    BY <2>1
  <2>4. open' = open \cup {s}
    BY <1>0, <2>2
  <2>5. answers' = answers
    BY <1>0, <2>1, <2>2
  <2> QED BY <1>1, <2>3, <2>4, <2>5 DEF Search!Launch
<1>4. ASSUME NEW s \in Searches, Woken(s) \/ SleptEnough(s) PROVE Search!Close(s)
  <2>1. Collect(s) /\ phase[s] \in {"asked", "waiting"}
    BY <1>4 DEF Woken, SleptEnough
  <2>2. /\ found' = [found EXCEPT ![s] = actualReq[s]]
        /\ actualReq' = [actualReq EXCEPT ![s] = None] /\ actualReq[s] # None
    BY <1>0, <2>1 DEF Collect
  <2>3. s \in open /\ open' = open \ {s}
    BY <1>0, <2>2
  <2>4. answers' = answers
    BY <1>0, <2>2
  <2> QED BY <1>1, <2>3, <2>4 DEF Search!Close
<1>5. ASSUME NEW m \in BagToSet(mail), callbackResult(m), ~UNCHANGED <<actualReq, found>>
      PROVE  m.s \in Searches /\ m.node \in Nodes /\ Search!Answer(m.s, m.node)
  <2>1. m.s \in Searches /\ m.node \in Nodes /\ m.node \in fitting
    BY DEF DInv, MailOK, Responses
  <2>2. found' = found
    BY <1>5 DEF callbackResult
  <2>3. m.at = Origin[m.s] /\ actualReq[m.s] # None
    <3>1. SUFFICES ASSUME ~(m.at = Origin[m.s] /\ actualReq[m.s] # None) PROVE actualReq' = actualReq
      BY <1>5, <2>2
    <3>2. actualReq' = [s \in Searches |-> actualReq[s]]
      BY <1>5, <3>1 DEF callbackResult
    <3> QED BY <1>0, <3>2
  <2>4. actualReq' = [actualReq EXCEPT ![m.s] = Append(@, m.node)]
    BY <1>0, <1>5, <2>1, <2>3 DEF callbackResult
  <2>5. m.node \notin ToSet(actualReq[m.s])
    BY <2>3 DEF OnceInv, CollectedOnce
  <2>6. Append(actualReq[m.s], m.node) # None
    <3>1. actualReq[m.s] \in Seq(Nodes)
      BY <1>0, <2>1, <2>3
    <3>2. Append(actualReq[m.s], m.node) \in Seq(Nodes)
      BY <2>1, <3>1, AppendSet
    <3> QED BY <3>2 DEF DiscoveryAssumption
  <2>7. answers[m.s] = actualReq[m.s] /\ m.s \in open
    BY <2>1, <2>3
  <2>8. open' = open
    BY <1>0, <2>1, <2>3, <2>4, <2>6
  <2>9. answers' = [answers EXCEPT ![m.s] = Append(@, m.node)]
    BY <1>0, <2>1, <2>2, <2>3, <2>4, <2>6
  <2>10. m.node \notin Search!Range(answers[m.s])
    BY <2>5, <2>7 DEF ToSet, Search!Range
  <2> QED BY <1>1, <2>1, <2>7, <2>8, <2>9, <2>10 DEF Search!Answer
<1> HIDE DEF answers, open
<1>6. ASSUME NEW s \in Searches, Search!Launch(s) \/ Search!Close(s) \/ \E n \in Nodes : Search!Answer(s, n)
      PROVE  Search!Next
  BY <1>6 DEF Search!Next
<1> QED BY <1>2, <1>3, <1>4, <1>5, <1>6, AnswerWriters

(* As long as no node forgets a request that is still on its way (the      *)
(* history keeps the last MAXREQTOSAVE ones), a discovery collects nodes   *)
(* with the resources only, each of them once, and nothing after its end,  *)
(* whatever nodes die, links are cut and launches meet.                    *)
THEOREM SearchImplemented ==
  ASSUME MaxReqToSave > 0
  PROVE  Spec /\ NoneForgotten => ImplementsSearch
<1> USE DiscoveryAssumption
<1>1. Init => OnceInv
  BY OnceInvInit
<1>2. DInv /\ OnceInv /\ [Next]_vars /\ [Keeps]_vars => OnceInv'
  BY OnceInvStep
<1>3. Init => Search!Init
  <2>1. SUFFICES ASSUME Init PROVE Search!Init
    OBVIOUS
  <2>2. <<>> # None
    <3>1. <<>> \in Seq(Nodes) /\ None \notin Seq(Nodes)
      BY EmptySeq DEF DiscoveryAssumption
    <3> QED BY <3>1
  <2> QED BY <2>1, <2>2 DEF Init, Search!Init
<1>4. DInv /\ OnceInv /\ [Next]_vars => [Search!Next]_(Search!vars)
  BY SearchStep
<1>5. Spec => []DInv
  BY DInvAlways
<1> QED BY <1>1, <1>2, <1>3, <1>4, <1>5, PTL DEF Spec, NoneForgotten, ImplementsSearch, Search!Spec

-----------------------------------------------------------------------------
(* With no more requests than the history holds, nothing is forgotten.     *)
FewRequests == IsFiniteSet(Searches \ Ends) /\ Cardinality(Searches \ Ends) <= MaxReqToSave

(* A history names each request once.                                      *)
Distinct(h) == \A i, j \in DOMAIN h : h[i] = h[j] => i = j
KnownOnce   == \A n \in Nodes : Distinct(knownRequests[n])

(* What is new may be added ...                                            *)
LEMMA DistinctAppend ==
  ASSUME NEW R, NEW h \in Seq(R), Distinct(h), NEW e \in R, e \notin ToSet(h)
  PROVE  Distinct(Append(h, e))
<1> DEFINE t == Append(h, e)
<1>1. /\ Len(h) \in Nat /\ DOMAIN h = 1..Len(h) /\ DOMAIN t = 1..(Len(h) + 1)
      /\ \A i \in 1..Len(h) : t[i] = h[i]
      /\ t[Len(h) + 1] = e
  BY AppendProperties, LenProperties
<1> HIDE DEF t
<1>2. \A i \in 1..Len(h) : t[i] # e
  BY <1>1 DEF ToSet
<1>3. \A i, j \in DOMAIN t : t[i] = t[j] => i = j
  BY <1>1, <1>2 DEF Distinct
<1> QED BY <1>3 DEF Distinct, t

(* ... and the first be dropped.                                           *)
LEMMA DistinctTail ==
  ASSUME NEW R, NEW h \in Seq(R), Distinct(h), h # <<>>
  PROVE  Distinct(Tail(h))
<1> DEFINE t == Tail(h)
<1>1. /\ t \in Seq(R) /\ Len(t) = Len(h) - 1 /\ \A i \in 1..Len(t) : t[i] = h[i + 1]
      /\ Len(h) \in Nat /\ DOMAIN h = 1..Len(h)
  BY HeadTailProperties, LenProperties
<1> HIDE DEF t
<1>2. DOMAIN t = 1..Len(t)
  BY <1>1, LenProperties
<1>3. ASSUME NEW i \in DOMAIN t, NEW j \in DOMAIN t, t[i] = t[j] PROVE i = j
  <2>1. h[i + 1] = h[j + 1] /\ i + 1 \in DOMAIN h /\ j + 1 \in DOMAIN h
    BY <1>1, <1>2, <1>3
  <2>2. i + 1 = j + 1
    BY <2>1 DEF Distinct
  <2> QED BY <1>1, <1>2, <2>2
<1> QED BY <1>3 DEF Distinct, t

(* Requests that differ from each other are as many as there are at most.  *)
LEMMA DistinctFew ==
  ASSUME NEW R, IsFiniteSet(R), NEW h \in Seq(R), Distinct(h)
  PROVE  Len(h) <= Cardinality(R)
<1> DEFINE S == 1..Len(h)
<1>1. Len(h) \in Nat /\ DOMAIN h = S /\ h \in [S -> R]
  BY LenProperties
<1>2. IsFiniteSet(S) /\ Cardinality(S) = Len(h)
  <2>1. 1 \in Int /\ Len(h) \in Int /\ (IF 1 > Len(h) THEN 0 ELSE Len(h) - 1 + 1) = Len(h)
    BY <1>1
  <2> QED BY <2>1, FS_Interval
<1>3. Cardinality(R) \in Nat
  BY FS_CardinalityType
<1> HIDE DEF S
<1>4. ASSUME Cardinality(R) < Cardinality(S) PROVE FALSE
  <2>1. \E x, y \in S : x # y /\ h[x] = h[y]
    BY <1>1, <1>2, <1>4, FS_PigeonHole
  <2> QED BY <1>1, <2>1 DEF Distinct
<1> QED BY <1>1, <1>2, <1>3, <1>4

(* A request that a node does not know is added to its history.            *)
LEMMA RemembersOnce ==
  ASSUME DiscoveryAssumption, FewRequests, KnownOK, KnownOnce, NEW n \in Nodes, NEW s \in Searches,
         Remember(n, s), s \in Ends \/ s \notin ToSet(knownRequests[n])
  PROVE  KnownOnce' /\ \A k \in Nodes : ToSet(knownRequests[k]) \subseteq ToSet(knownRequests'[k])
<1>1. CASE s \in Ends
  BY <1>1 DEF Remember, KnownOnce
<1>2. CASE s \notin Ends
  <2> DEFINE R == Searches \ Ends
             old == knownRequests[n]
             longer == Append(old, s)
  <2>1. old \in Seq(R) /\ s \in R /\ Distinct(old) /\ s \notin ToSet(old)
    BY <1>2 DEF KnownOK, KnownOnce
  <2> HIDE DEF R, old
  <2>2. longer \in Seq(R) /\ ToSet(longer) = ToSet(old) \cup {s}
    BY <2>1, AppendSet
  <2>3. Distinct(longer)
    BY <2>1, DistinctAppend
  <2>4. knownRequests' = [knownRequests EXCEPT ![n] =
                            IF Len(longer) > MaxReqToSave THEN Tail(longer) ELSE longer]
    BY <1>2 DEF Remember, old
  <2> HIDE DEF longer
  <2>5. ~(Len(longer) > MaxReqToSave)
    <3>1. IsFiniteSet(R) /\ Cardinality(R) <= MaxReqToSave /\ MaxReqToSave \in Nat
      BY DEF FewRequests, R, DiscoveryAssumption
    <3>2. Len(longer) <= Cardinality(R)
      BY <2>2, <2>3, <3>1, DistinctFew
    <3>3. Len(longer) \in Nat /\ Cardinality(R) \in Nat
      BY <2>2, <3>1, LenProperties, FS_CardinalityType
    <3> QED BY <3>1, <3>2, <3>3
  <2>6. \A k \in Nodes : knownRequests'[k] = IF k = n THEN longer ELSE knownRequests[k]
    BY <2>4, <2>5 DEF KnownOK
  <2>7. KnownOnce'
    BY <2>3, <2>6 DEF KnownOnce
  <2>8. \A k \in Nodes : ToSet(knownRequests[k]) \subseteq ToSet(knownRequests'[k])
    BY <2>2, <2>6 DEF old
  <2> QED BY <2>7, <2>8
<1> QED BY <1>1, <1>2

(* A node remembers a request when it visits it, and not a second time.    *)
LEMMA KnownOnceStep ==
  ASSUME DiscoveryAssumption, FewRequests, DInv, [Next]_vars, Unstarted, KnownOnce
  PROVE  KnownOnce' /\ Keeps
<1>0. KnownOK
  BY DEF DInv
<1>1. SUFFICES KnownOnce' /\ \A k \in Nodes : ToSet(knownRequests[k]) \subseteq ToSet(knownRequests'[k])
  BY DEF Keeps
<1>2. CASE UNCHANGED knownRequests
  BY <1>2 DEF KnownOnce
<1>3. ASSUME NEW s \in Searches, Launch(s)
      PROVE  KnownOnce' /\ \A k \in Nodes : ToSet(knownRequests[k]) \subseteq ToSet(knownRequests'[k])
  <2>1. Origin[s] \in Nodes /\ Remember(Origin[s], s) /\ phase[s] = "idle"
    BY <1>3 DEF DiscoveryAssumption, Launch
  <2>2. s \notin ToSet(knownRequests[Origin[s]])
    BY <2>1 DEF Unstarted
  <2> QED BY <1>0, <2>1, <2>2, RemembersOnce
<1>4. ASSUME NEW m \in Nodes, NEW n \in Nodes, Visit(m, n)
      PROVE  KnownOnce' /\ \A k \in Nodes : ToSet(knownRequests[k]) \subseteq ToSet(knownRequests'[k])
  <2> DEFINE r == Head(asks[m][n])
  <2>1. r \in Requests
    BY <1>4, TakenAway DEF Visit, DInv, WaysOK
  <2>2. Remember(n, r.s) /\ (r.s \in Ends \/ r.s \notin ToSet(knownRequests[n]))
    BY <1>4 DEF Visit
  <2> HIDE DEF r
  <2>3. r.s \in Searches
    BY <2>1 DEF Requests
  <2> QED BY <1>0, <2>2, <2>3, RemembersOnce
<1> QED BY <1>2, <1>3, <1>4, KnownWriters

(* Nothing is forgotten, and the discovery keeps its promise, as long as   *)
(* no more requests are made than a history holds.                         *)
THEOREM FewImplemented ==
  ASSUME MaxReqToSave > 0, FewRequests
  PROVE  Spec => ImplementsSearch
<1> USE DiscoveryAssumption
<1>1. Init => Unstarted /\ KnownOnce
  <2>1. SUFFICES ASSUME Init PROVE Unstarted /\ KnownOnce
    OBVIOUS
  <2>2. Unstarted
    BY <2>1, OnceInvInit DEF OnceInv
  <2> QED BY <2>1, <2>2 DEF Init, KnownOnce, Distinct
<1>2. DInv /\ Unstarted /\ KnownOnce /\ [Next]_vars => Unstarted' /\ KnownOnce' /\ Keeps
  BY UnstartedStep, KnownOnceStep
<1>3. Spec => []DInv
  BY DInvAlways
<1>4. Spec => NoneForgotten
  BY <1>1, <1>2, <1>3, PTL DEF Spec, NoneForgotten
<1>5. Spec /\ NoneForgotten => ImplementsSearch
  BY SearchImplemented
<1> QED BY <1>4, <1>5
=============================================================================
