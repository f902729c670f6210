--------------------------- MODULE DiscoveryFlood ---------------------------
(***************************************************************************)
(* What is proved about a flood that meets no other, no new link and no    *)
(* dead node, for every network:                                           *)
(*   - the links that it leaves still lead wherever they led, and both     *)
(*     ends of a link know of it (LinksRemain);                            *)
(*   - when it is over, every node that has the resources has answered     *)
(*     (AllAnswer), or knows that the application ended (AllEnd).          *)
(***************************************************************************)
EXTENDS DiscoveryProofs

-----------------------------------------------------------------------------
(* How many copies of a call are under way.                                *)
Copies(e, B) == IF e \in BagToSet(B) THEN B[e] ELSE 0
Counted(B) == B \in [BagToSet(B) -> Nat \ {0}]
CallsOK == Counted(jobmgr)
OneMore(B, C, x) == \A e : Copies(e, C) = IF e = x THEN Copies(e, B) + 1 ELSE Copies(e, B)
OneLess(B, C, x) == \A e : Copies(e, C) = IF e = x THEN Copies(e, B) - 1 ELSE Copies(e, B)

(* One more.                                                               *)
LEMMA CopiesAdd ==
  ASSUME NEW B, Counted(B), NEW x
  PROVE  Counted(B (+) SetToBag({x})) /\ OneMore(B, B (+) SetToBag({x}), x)
<1> DEFINE C == B (+) SetToBag({x})
<1> USE DEF Counted
<1>1. /\ BagToSet(C) = BagToSet(B) \cup {x}
      /\ C = [e \in BagToSet(B) \cup {x} |-> (IF e \in BagToSet(B) THEN B[e] ELSE 0) + (IF e \in {x} THEN 1 ELSE 0)]
  BY DEF BagToSet, SetToBag, (+)
<1> HIDE DEF C
<1>2. ASSUME NEW e \in BagToSet(B) PROVE B[e] \in Nat \ {0}
  OBVIOUS
<1>3. ASSUME NEW e \in BagToSet(C)
      PROVE  C[e] = (IF e \in BagToSet(B) THEN B[e] ELSE 0) + (IF e = x THEN 1 ELSE 0) /\ C[e] \in Nat \ {0}
  <2>1. C[e] = (IF e \in BagToSet(B) THEN B[e] ELSE 0) + (IF e = x THEN 1 ELSE 0)
    BY <1>1
  <2> QED BY <1>1, <1>2, <2>1
<1>4. C \in [BagToSet(C) -> Nat \ {0}]
  <2>1. C = [e \in BagToSet(C) |-> C[e]]
    BY <1>1
  <2> QED BY <1>3, <2>1
<1>5. ASSUME NEW e PROVE Copies(e, C) = IF e = x THEN Copies(e, B) + 1 ELSE Copies(e, B)
  <2>1. CASE e \in BagToSet(C)
    <3>1. Copies(e, C) = C[e] /\ C[e] = (IF e \in BagToSet(B) THEN B[e] ELSE 0) + (IF e = x THEN 1 ELSE 0)
      BY <1>3, <2>1 DEF Copies
    <3>2. (IF e \in BagToSet(B) THEN B[e] ELSE 0) = Copies(e, B) /\ Copies(e, B) \in Nat
      BY <1>2 DEF Copies
    <3> QED BY <3>1, <3>2
  <2>2. CASE e \notin BagToSet(C)
    BY <1>1, <2>2 DEF Copies
  <2> QED BY <2>1, <2>2
<1> QED BY <1>4, <1>5 DEF OneMore, C

(* One less.                                                               *)
LEMMA CopiesDrop ==
  ASSUME NEW B, Counted(B), NEW x \in BagToSet(B)
  PROVE  Counted(B (-) SetToBag({x})) /\ OneLess(B, B (-) SetToBag({x}), x)
<1> DEFINE C == B (-) SetToBag({x})
           D == [e \in BagToSet(B) |-> IF e \in {x} THEN B[e] - 1 ELSE B[e]]
<1> USE DEF Counted
<1>1. C = [e \in {d \in BagToSet(B) : D[d] > 0} |-> D[e]]
  BY DEF BagToSet, SetToBag, (-)
<1>2. ASSUME NEW e \in BagToSet(B) PROVE B[e] \in Nat \ {0} /\ D[e] = (IF e = x THEN B[e] - 1 ELSE B[e])
  OBVIOUS
<1> HIDE DEF C, D
<1>3. BagToSet(C) = {d \in BagToSet(B) : D[d] > 0}
  BY <1>1 DEF BagToSet
<1>4. ASSUME NEW e \in BagToSet(C) PROVE C[e] = D[e] /\ e \in BagToSet(B) /\ C[e] \in Nat \ {0}
  <2>1. C[e] = D[e] /\ e \in BagToSet(B) /\ D[e] > 0
    BY <1>1, <1>3
  <2> QED BY <1>2, <2>1
<1>5. C \in [BagToSet(C) -> Nat \ {0}]
  <2>1. C = [e \in BagToSet(C) |-> C[e]]
    BY <1>1, <1>3
  <2> QED BY <1>4, <2>1
<1>6. ASSUME NEW e PROVE Copies(e, C) = IF e = x THEN Copies(e, B) - 1 ELSE Copies(e, B)
  <2>1. CASE e \in BagToSet(C)
    BY <1>2, <1>4, <2>1 DEF Copies
  <2>2. CASE e \in BagToSet(B) /\ e \notin BagToSet(C)
    BY <1>2, <1>3, <2>2 DEF Copies
  <2>3. CASE e \notin BagToSet(B)
    BY <1>4, <2>3 DEF Copies
  <2> QED BY <2>1, <2>2, <2>3
<1> QED BY <1>5, <1>6 DEF OneLess, C

(* The calls of the job managers, by what they ask for.                    *)
Calling(op, n, m) == [op |-> op, at |-> n, node |-> m]
Cuts(n, m)  == Copies(Calling("UnregisterNode", n, m), jobmgr)
Joins(n, m) == Copies(Calling("RegisterNode", n, m), jobmgr)

(* How often m will be in the list of n when the calls under way are done. *)
Left(n, m) ==
  LET more == neighborsList[n][m] + Joins(n, m) IN
  IF more > Cuts(n, m) THEN more - Cuts(n, m) ELSE 0

Fewer(k) == IF k = 0 THEN 0 ELSE k - 1

(* A link is cut, or made, on both sides; or all are left.                 *)
Cut(m, n)  == \A a, b \in Nodes : Left(a, b)' = IF {a, b} = {m, n} THEN Fewer(Left(a, b)) ELSE Left(a, b)
Made(m, n) == \A a, b \in Nodes : Left(a, b)' = IF {a, b} = {m, n} THEN Left(a, b) + 1 ELSE Left(a, b)
AllLeft    == \A a, b \in Nodes : Left(a, b)' = Left(a, b)

(* They are numbers.                                                       *)
LEMMA LeftNat ==
  ASSUME CallsOK, ListsOK, NEW n \in Nodes, NEW m \in Nodes
  PROVE  Left(n, m) \in Nat /\ Cuts(n, m) \in Nat /\ Joins(n, m) \in Nat /\ neighborsList[n][m] \in Nat
<1>1. ASSUME NEW e PROVE Copies(e, jobmgr) \in Nat
  BY DEF Copies, CallsOK, Counted
<1>2. neighborsList[n][m] \in Nat
  BY DEF ListsOK
<1>3. Cuts(n, m) \in Nat /\ Joins(n, m) \in Nat
  BY <1>1 DEF Cuts, Joins
<1> QED BY <1>2, <1>3 DEF Left

(* Without calls of a kind there are no copies of them.                    *)
LEMMA NoCalls ==
  ASSUME NEW n, NEW m
  PROVE  /\ ~Called("RegisterNode") => Joins(n, m) = 0
         /\ ~Called("UnregisterNode") => Cuts(n, m) = 0
BY DEF Called, Joins, Cuts, Copies, Calling

(* The name of a call.                                                     *)
LEMMA CallIs ==
  ASSUME NEW o, NEW a, NEW b, NEW p, NEW c, NEW d, Calling(o, a, b) = Calling(p, c, d)
  PROVE  o = p /\ a = c /\ b = d
<1>1. Calling(o, a, b).op = o /\ Calling(o, a, b).at = a /\ Calling(o, a, b).node = b
  BY DEF Calling
<1>2. Calling(p, c, d).op = p /\ Calling(p, c, d).at = c /\ Calling(p, c, d).node = d
  BY DEF Calling
<1> QED BY <1>1, <1>2

(* A call has a name.                                                      *)
LEMMA CallOf ==
  ASSUME NEW j \in Calls
  PROVE  j = Calling(j.op, j.at, j.node) /\ j.at \in Nodes /\ j.node \in Nodes
         /\ j.op \in {"RegisterNode", "UnregisterNode"}
BY DEF Calls, Calling

-----------------------------------------------------------------------------
(* What the steps do to the links that are left.                           *)
(* A link that is not touched.                                             *)
LEMMA LeftStays ==
  ASSUME NEW n, NEW m, neighborsList'[n][m] = neighborsList[n][m],
         Cuts(n, m)' = Cuts(n, m), Joins(n, m)' = Joins(n, m)
  PROVE  Left(n, m)' = Left(n, m)
BY DEF Left

(* A link that is cut loses one copy on each side, ...                     *)
LEMMA CutLeft ==
  ASSUME DInv, CallsOK, dead = {}, ~Called("RegisterNode"),
         NEW m \in Nodes, NEW n \in Nodes, AlreadyAsked(m, n)
  PROVE  /\ CallsOK' /\ m # n /\ ~Called("RegisterNode")'
         /\ Cut(m, n)
<1> DEFINE j == Calling("UnregisterNode", m, n)
<1>0. ListsOK
  BY DEF DInv, LinksOK
<1>1. m # n
  <2>1. Head(asks[m][n]) \in Way(m, n)
    BY TakenAway DEF AlreadyAsked, DInv, WaysOK
  <2> QED BY <2>1 DEF DInv, WaysOK, Travels
<1>2. jobmgr' = jobmgr (+) SetToBag({j}) /\ neighborsList' = removeNeighbor(n, m)
  BY DEF AlreadyAsked, Calling
<1>3. CallsOK' /\ \A e : Copies(e, jobmgr') = IF e = j THEN Copies(e, jobmgr) + 1 ELSE Copies(e, jobmgr)
  <2> HIDE DEF j
  <2>1. Counted(jobmgr') /\ OneMore(jobmgr, jobmgr', j)
    BY <1>2, CopiesAdd DEF CallsOK
  <2> QED BY <2>1 DEF CallsOK, OneMore
<1>4. ~Called("RegisterNode")'
  <2>1. BagToSet(jobmgr') = BagToSet(jobmgr) \cup {j}
    BY <1>2, BagAdds
  <2>2. j.op = "UnregisterNode"
    BY DEF Calling
  <2> QED BY <2>1, <2>2 DEF Called
<1>5. ASSUME NEW a \in Nodes, NEW b \in Nodes
      PROVE  Left(a, b)' = IF {a, b} = {m, n} THEN Fewer(Left(a, b)) ELSE Left(a, b)
  <2>1. Cuts(a, b)' = IF a = m /\ b = n THEN Cuts(a, b) + 1 ELSE Cuts(a, b)
    <3>1. Calling("UnregisterNode", a, b) = j <=> a = m /\ b = n
      BY CallIs
    <3> QED BY <1>3, <3>1 DEF Cuts
  <2>2. Joins(a, b)' = 0 /\ Joins(a, b) = 0
    <3>1. Joins(a, b) = 0
      BY NoCalls
    <3>2. Calling("RegisterNode", a, b) \notin BagToSet(jobmgr')
      BY <1>4 DEF Called, Calling
    <3> QED BY <3>1, <3>2 DEF Joins, Copies
  <2>3. neighborsList'[a][b] = IF a = n /\ b = m THEN Fewer(neighborsList[a][b]) ELSE neighborsList[a][b]
    BY <1>0, <1>2 DEF removeNeighbor, Fewer, ListsOK
  <2>4. Cuts(a, b) \in Nat /\ neighborsList[a][b] \in Nat
    BY <1>0, LeftNat
  <2>5. {a, b} = {m, n} <=> (a = m /\ b = n) \/ (a = n /\ b = m)
    OBVIOUS
  <2>6. Left(a, b) = IF neighborsList[a][b] > Cuts(a, b) THEN neighborsList[a][b] - Cuts(a, b) ELSE 0
    BY <2>2, <2>4 DEF Left
  <2>7. Left(a, b)' = IF neighborsList'[a][b] > Cuts(a, b)' THEN neighborsList'[a][b] - Cuts(a, b)' ELSE 0
    <3>1. neighborsList'[a][b] \in Nat
      BY <2>3, <2>4 DEF Fewer
    <3> QED BY <2>2, <3>1 DEF Left
  <2> HIDE DEF j
  <2>8. CASE a = m /\ b = n
    <3>1. ~(a = n /\ b = m)
      BY <1>1, <2>8
    <3> QED BY <2>1, <2>3, <2>4, <2>5, <2>6, <2>7, <2>8, <3>1 DEF Fewer
  <2>9. CASE a = n /\ b = m
    <3>1. ~(a = m /\ b = n)
      BY <1>1, <2>9
    <3> QED BY <2>1, <2>3, <2>4, <2>5, <2>6, <2>7, <2>9, <3>1 DEF Fewer
  <2>10. CASE {a, b} # {m, n}
    BY <2>1, <2>3, <2>5, <2>6, <2>7, <2>10
  <2> QED BY <2>5, <2>8, <2>9, <2>10
<1> QED BY <1>1, <1>3, <1>4, <1>5 DEF Cut

(* ... which a call that was already counted does not change, ...          *)
LEMMA CallLeft ==
  ASSUME DInv, CallsOK, dead = {}, NEW j \in BagToSet(jobmgr), JobMgrStep(j),
         ~(Called("RegisterNode") /\ Called("UnregisterNode"))
  PROVE  CallsOK' /\ AllLeft
<1>0. ListsOK
  BY DEF DInv, LinksOK
<1>1. /\ j = Calling(j.op, j.at, j.node) /\ j.at \in Nodes /\ j.node \in Nodes
      /\ j.op \in {"RegisterNode", "UnregisterNode"}
  <2>1. j \in Calls
    BY DEF DInv, LinksOK
  <2> QED BY <2>1, CallOf
<1>2. CallsOK' /\ \A e : Copies(e, jobmgr') = IF e = j THEN Copies(e, jobmgr) - 1 ELSE Copies(e, jobmgr)
  <2>1. Counted(jobmgr') /\ OneLess(jobmgr, jobmgr', j)
    BY CopiesDrop DEF CallsOK, JobMgrStep
  <2> QED BY <2>1 DEF CallsOK, OneLess
<1>3. Copies(j, jobmgr) > 0
  BY DEF Copies, CallsOK, Counted
<1>4. ASSUME NEW a \in Nodes, NEW b \in Nodes PROVE Left(a, b)' = Left(a, b)
  <2>0. /\ Cuts(a, b) \in Nat /\ Joins(a, b) \in Nat /\ neighborsList[a][b] \in Nat
    BY <1>0, LeftNat
  <2>1. CASE j.op = "UnregisterNode"
    <3>1. Joins(a, b) = 0 /\ Joins(a, b)' = 0
      <4>1. ~Called("RegisterNode")
        BY <2>1 DEF Called
      <4>2. Joins(a, b) = 0
        BY <4>1, NoCalls
      <4>3. Calling("RegisterNode", a, b) # j
        BY <1>1, <2>1, CallIs
      <4> QED BY <1>2, <4>2, <4>3 DEF Joins
    <3>2. CASE a = j.at /\ b = j.node
      <4>1. Calling("UnregisterNode", a, b) = j
        BY <1>1, <2>1, <3>2
      <4>2. Cuts(a, b)' = Cuts(a, b) - 1 /\ Cuts(a, b) > 0
        BY <1>2, <1>3, <4>1 DEF Cuts
      <4>3. neighborsList'[a][b] = IF neighborsList[a][b] = 0 THEN 0 ELSE neighborsList[a][b] - 1
        BY <1>0, <2>1, <3>2 DEF JobMgrStep, removeNeighbor, ListsOK
      <4> QED BY <2>0, <3>1, <4>2, <4>3 DEF Left
    <3>3. CASE ~(a = j.at /\ b = j.node)
      <4>1. Calling("UnregisterNode", a, b) # j
        BY <1>1, <3>3, CallIs
      <4>2. Cuts(a, b)' = Cuts(a, b)
        BY <1>2, <4>1 DEF Cuts
      <4>3. neighborsList'[a][b] = neighborsList[a][b]
        BY <1>0, <1>1, <2>1, <3>3 DEF JobMgrStep, removeNeighbor, ListsOK
      <4> QED BY <3>1, <4>2, <4>3, LeftStays
    <3> QED BY <3>2, <3>3
  <2>2. CASE j.op = "RegisterNode"
    <3>1. Calling("UnregisterNode", a, b) # j
      BY <1>1, <2>2, CallIs
    <3>2. Cuts(a, b)' = Cuts(a, b)
      BY <1>2, <3>1 DEF Cuts
    <3>3. neighborsList' = [neighborsList EXCEPT ![j.at][j.node] = @ + 1]
      BY <2>2 DEF JobMgrStep
    <3>4. CASE a = j.at /\ b = j.node
      <4>1. Calling("RegisterNode", a, b) = j
        BY <1>1, <2>2, <3>4
      <4>2. Joins(a, b)' = Joins(a, b) - 1 /\ Joins(a, b) > 0
        BY <1>2, <1>3, <4>1 DEF Joins
      <4>3. neighborsList'[a][b] = neighborsList[a][b] + 1
        BY <1>0, <3>3, <3>4 DEF ListsOK
      <4> QED BY <2>0, <3>2, <4>2, <4>3 DEF Left
    <3>5. CASE ~(a = j.at /\ b = j.node)
      <4>1. Calling("RegisterNode", a, b) # j
        BY <1>1, <3>5, CallIs
      <4>2. Joins(a, b)' = Joins(a, b)
        BY <1>2, <4>1 DEF Joins
      <4>3. neighborsList'[a][b] = neighborsList[a][b]
        BY <1>0, <1>1, <3>3, <3>5 DEF ListsOK
      <4> QED BY <3>2, <4>2, <4>3, LeftStays
    <3> QED BY <3>4, <3>5
  <2> QED BY <1>1, <2>1, <2>2
<1> QED BY <1>2, <1>4 DEF AllLeft

(* ... and one that a node registers gains a copy on each side.            *)
LEMMA JoinLeft ==
  ASSUME DiscoveryAssumption, DInv, CallsOK, ~Called("UnregisterNode"),
         NEW l \in Parents, SelfRegister(l[1], l[2])
  PROVE  /\ CallsOK' /\ ~Called("UnregisterNode")'
         /\ Made(l[1], l[2])
<1> DEFINE n == l[1]
           p == l[2]
           j == Calling("RegisterNode", p, n)
<1>0. ListsOK
  BY DEF DInv, LinksOK
<1>1. n \in Nodes /\ p \in Nodes /\ n # p
  BY DEF DiscoveryAssumption
<1>2. jobmgr' = jobmgr (+) SetToBag({j}) /\ neighborsList' = [neighborsList EXCEPT ![n][p] = @ + 1]
  BY DEF SelfRegister, Calling
<1> HIDE DEF n, p
<1>3. CallsOK' /\ \A e : Copies(e, jobmgr') = IF e = j THEN Copies(e, jobmgr) + 1 ELSE Copies(e, jobmgr)
  <2> HIDE DEF j
  <2>1. Counted(jobmgr') /\ OneMore(jobmgr, jobmgr', j)
    BY <1>2, CopiesAdd DEF CallsOK
  <2> QED BY <2>1 DEF CallsOK, OneMore
<1>4. ~Called("UnregisterNode")'
  <2>1. BagToSet(jobmgr') = BagToSet(jobmgr) \cup {j}
    BY <1>2, BagAdds
  <2>2. j.op = "RegisterNode"
    BY DEF Calling
  <2> QED BY <2>1, <2>2 DEF Called
<1>5. ASSUME NEW a \in Nodes, NEW b \in Nodes
      PROVE  Left(a, b)' = IF {a, b} = {n, p} THEN Left(a, b) + 1 ELSE Left(a, b)
  <2>1. Joins(a, b)' = IF a = p /\ b = n THEN Joins(a, b) + 1 ELSE Joins(a, b)
    <3>1. Calling("RegisterNode", a, b) = j <=> a = p /\ b = n
      BY CallIs
    <3> QED BY <1>3, <3>1 DEF Joins
  <2>2. Cuts(a, b)' = 0 /\ Cuts(a, b) = 0
    <3>1. Cuts(a, b) = 0
      BY NoCalls
    <3>2. Calling("UnregisterNode", a, b) \notin BagToSet(jobmgr')
      BY <1>4 DEF Called, Calling
    <3> QED BY <3>1, <3>2 DEF Cuts, Copies
  <2>3. neighborsList'[a][b] = IF a = n /\ b = p THEN neighborsList[a][b] + 1 ELSE neighborsList[a][b]
    BY <1>0, <1>1, <1>2 DEF ListsOK
  <2>4. Joins(a, b) \in Nat /\ neighborsList[a][b] \in Nat
    BY <1>0, LeftNat
  <2>5. {a, b} = {n, p} <=> (a = n /\ b = p) \/ (a = p /\ b = n)
    OBVIOUS
  <2>6. Left(a, b) = neighborsList[a][b] + Joins(a, b)
    BY <2>2, <2>4 DEF Left
  <2>7. Left(a, b)' = neighborsList'[a][b] + Joins(a, b)'
    <3>1. neighborsList'[a][b] \in Nat /\ Joins(a, b)' \in Nat
      BY <2>1, <2>3, <2>4
    <3> QED BY <2>2, <3>1 DEF Left
  <2> HIDE DEF j
  <2>8. CASE a = n /\ b = p
    <3>1. ~(a = p /\ b = n)
      BY <1>1, <2>8
    <3>2. {a, b} = {n, p}
      BY <2>5, <2>8
    <3>3. Joins(a, b)' = Joins(a, b) /\ neighborsList'[a][b] = neighborsList[a][b] + 1
      BY <2>1, <2>3, <2>8, <3>1
    <3>4. Left(a, b)' = Left(a, b) + 1
      BY <2>4, <2>6, <2>7, <3>3
    <3> QED BY <3>2, <3>4
  <2>9. CASE a = p /\ b = n
    <3>1. ~(a = n /\ b = p)
      BY <1>1, <2>9
    <3>2. {a, b} = {n, p}
      BY <2>5, <2>9
    <3>3. Joins(a, b)' = Joins(a, b) + 1 /\ neighborsList'[a][b] = neighborsList[a][b]
      BY <2>1, <2>3, <2>9, <3>1
    <3>4. Left(a, b)' = Left(a, b) + 1
      <4>1. \A x, y \in Nat : x + (y + 1) = (x + y) + 1
        OBVIOUS
      <4>2. Left(a, b)' = neighborsList[a][b] + (Joins(a, b) + 1)
        BY <2>7, <3>3
      <4> QED BY <2>4, <2>6, <4>1, <4>2
    <3> QED BY <3>2, <3>4
  <2>10. CASE {a, b} # {n, p}
    BY <2>1, <2>3, <2>5, <2>6, <2>7, <2>10
  <2> QED BY <2>5, <2>8, <2>9, <2>10
<1> QED BY <1>3, <1>4, <1>5 DEF n, p, Made

-----------------------------------------------------------------------------
(* What is sent, in full.                                                  *)
(* The neighbours that n sends f to, when the request as it came knows old.*)
Told(n, f, old, b) == b \in NeighborsOf(n) /\ MayPropagate(f.hops) /\ ~isIn(old, b)

(* A row of asks, with what n forwards.                                    *)
Passed(n, f, old, t, u) == \A b \in Nodes : u[b] = t[b] \o Forwarded(n, f, old, NeighborsOf(n))[b]

(* Each neighbour that is told gets as many copies as it is in the list.   *)
PassedAs(n, f, old, t, u, b) ==
  /\ Len(u[b]) = Len(t[b]) + (IF Told(n, f, old, b) THEN neighborsList[n][b] ELSE 0)
  /\ ToSet(u[b]) = ToSet(t[b]) \cup (IF Told(n, f, old, b) THEN {f} ELSE {})

(* One entry of such a row.                                                *)
LEMMA PassedOn ==
  ASSUME ListsOK, NEW n \in Nodes, NEW f \in Requests, NEW old, NEW t \in [Nodes -> Seq(Requests)], NEW u,
         Passed(n, f, old, t, u), NEW b \in Nodes
  PROVE  PassedAs(n, f, old, t, u, b)
<1> USE DEF PassedAs
<1> DEFINE g == Forwarded(n, f, old, NeighborsOf(n))[b]
           k == neighborsList[n][b]
           c == [i \in 1..k |-> f]
<1>0. k \in Nat /\ t[b] \in Seq(Requests)
  BY DEF ListsOK
<1>1. g = IF Told(n, f, old, b) THEN c ELSE <<>>
  BY DEF Forwarded, Told
<1>2. u[b] = t[b] \o g
  BY DEF Passed
<1> HIDE DEF g
<1>3. CASE Told(n, f, old, b)
  <2>1. k > 0
    BY <1>3 DEF Told, NeighborsOf
  <2>2. c \in Seq(Requests) /\ Len(c) = k /\ ToSet(c) = {f}
    <3>1. c \in Seq(Requests) /\ ToSet(c) \subseteq {f}
      BY <1>0, Repeated
    <3>2. Len(c) = k /\ DOMAIN c = 1..k
      BY <1>0
    <3>3. 1 \in DOMAIN c /\ c[1] = f
      BY <1>0, <2>1
    <3> HIDE DEF c
    <3>4. f \in ToSet(c)
      BY <3>3 DEF ToSet
    <3> QED BY <3>1, <3>2, <3>4
  <2> HIDE DEF c, k
  <2>3. Len(t[b] \o c) = Len(t[b]) + Len(c)
    BY <1>0, <2>2, ConcatProperties
  <2>4. ToSet(t[b] \o c) = ToSet(t[b]) \cup ToSet(c)
    BY <1>0, <2>2, ConcatSet
  <2> QED BY <1>1, <1>2, <1>3, <2>2, <2>3, <2>4 DEF k
<1>4. CASE ~Told(n, f, old, b)
  <2>1. u[b] = t[b]
    <3>1. g = <<>>
      BY <1>1, <1>4
    <3> HIDE DEF c, k
    <3> QED BY <1>0, <1>2, <3>1, ConcatEmptySeq
  <2>2. Len(t[b]) \in Nat
    BY <1>0, LenProperties
  <2> QED BY <1>4, <2>1, <2>2
<1> QED BY <1>3, <1>4

(* Nothing changes but the row of n, and what n took.                      *)
LeavesRows(m, n) ==
  \A a, b \in Nodes : a # n => asks'[a][b] = IF a = m /\ b = n THEN Tail(asks[m][n]) ELSE asks[a][b]
KeepsRows(n) == \A a, b \in Nodes : a # n => asks'[a][b] = asks[a][b]

(* A visit, when no machine died.                                          *)
Forwards(m, n, r, f) ==
  /\ f \in Requests /\ f.s = r.s /\ f.hops = Decremented(r.hops)
  /\ f.el \in addListNode(r.el, n, NeighborsOf(n))
  /\ Passed(n, f, r.el, asks[n], asks'[n])
  /\ LeavesRows(m, n)

(* It takes the request and tells every neighbour.                         *)
LEMMA VisitSends ==
  ASSUME DiscoveryAssumption, DInv, dead = {}, NEW m \in Nodes, NEW n \in Nodes, Visit(m, n)
  PROVE  /\ \E f : Forwards(m, n, Head(asks[m][n]), f)
         /\ m # n /\ Head(asks[m][n]) \in Requests /\ Head(asks[m][n]) \in Way(m, n)
         /\ Respond(Head(asks[m][n]).s, n, Head(asks[m][n]).wb)
         /\ ApplicationEnd(Head(asks[m][n]).s, n)
<1> DEFINE r == Head(asks[m][n])
           A == Taken(m, n)
<1>0. AsksOK /\ ListsOK
  BY DEF DInv, LinksOK, WaysOK
<1>1. A \in Table /\ r \in Way(m, n) /\ r \in Requests
  BY <1>0, TakenAway DEF Visit, Table
<1>2. m # n
  BY <1>1 DEF DInv, WaysOK, Travels
<1>3. ~Unreachable(n)
  BY DEF Unreachable
<1>4. PICK el \in addListNode(r.el, n, NeighborsOf(n)) :
             LET fwd == [r EXCEPT !.el = el, !.hops = Decremented(@),
                                  !.wb = IF r.s \in Ends THEN @ ELSE Append(@, n)] IN
             asks' = [A EXCEPT ![n] = [p \in Nodes |-> @[p] \o Forwarded(n, fwd, r.el, NeighborsOf(n))[p]]]
  BY <1>3 DEF Visit
<1>5. Respond(r.s, n, r.wb) /\ ApplicationEnd(r.s, n)
  BY <1>3 DEF Visit
<1> DEFINE fwd == [r EXCEPT !.el = el, !.hops = Decremented(@),
                              !.wb = IF r.s \in Ends THEN @ ELSE Append(@, n)]
           F == Forwarded(n, fwd, r.el, NeighborsOf(n))
<1>6. fwd \in Requests /\ fwd.s = r.s /\ fwd.el = el /\ fwd.hops = Decremented(r.hops)
  <2> HIDE DEF r
  <2>1. NeighborsOf(n) \in SUBSET Nodes /\ r.el \in Lists
    BY <1>1 DEF NeighborsOf, Requests
  <2>2. el \in Lists
    BY <2>1, ListAdds
  <2>3. r.s \in Searches /\ r.hops \in Int /\ r.wb \in Seq(Nodes) /\ Append(r.wb, n) \in Seq(Nodes)
    BY <1>1, AppendSet DEF Requests
  <2> QED BY <1>1, <2>2, <2>3, DecrementedInt DEF Requests
<1>7. asks' = [A EXCEPT ![n] = [p \in Nodes |-> @[p] \o F[p]]]
  BY <1>4
<1>8. A[n] = asks[n] /\ \A a, b \in Nodes : A[a][b] = IF a = m /\ b = n THEN Tail(asks[m][n]) ELSE asks[a][b]
  BY <1>0, <1>2 DEF AsksOK, Taken
<1> HIDE DEF r, A, fwd
<1>9. Passed(n, fwd, r.el, asks[n], asks'[n])
  <2> DEFINE row == [p \in Nodes |-> A[n][p] \o F[p]]
  <2>1. asks' = [A EXCEPT ![n] = row]
    BY <1>7
  <2>2. \A p \in Nodes : row[p] = asks[n][p] \o F[p]
    BY <1>8
  <2> HIDE DEF row
  <2>3. asks'[n] = row
    BY <1>1, <2>1 DEF Table
  <2> QED BY <2>2, <2>3 DEF Passed, F
<1> HIDE DEF F
<1>10. LeavesRows(m, n)
  <2>1. ASSUME NEW a \in Nodes, NEW b \in Nodes, a # n PROVE asks'[a][b] = A[a][b]
    BY <1>1, <1>7, <2>1 DEF Table
  <2> QED BY <1>8, <2>1 DEF LeavesRows
<1>11. Forwards(m, n, r, fwd)
  BY <1>6, <1>9, <1>10 DEF Forwards
<1> QED BY <1>1, <1>2, <1>5, <1>11 DEF r

(* The first step of a flood, when no machine died.                        *)
Starts(s, f) ==
  /\ f \in Requests /\ f.s = s /\ f.hops = Decremented(Hops[s])
  /\ f.el \in addListNode(<<>>, Origin[s], listed[s])
  /\ Passed(Origin[s], f, <<>>, asks[Origin[s]], asks'[Origin[s]])
  /\ KeepsRows(Origin[s])

(* The origin tells every neighbour.                                       *)
LEMMA FirstSends ==
  ASSUME DiscoveryAssumption, DInv, dead = {}, NEW s \in Searches, ForwardFirst(s)
  PROVE  /\ \E f : Starts(s, f)
         /\ Origin[s] \in Nodes /\ ApplicationEnd(s, Origin[s])
         /\ phase' = [phase EXCEPT ![s] = "asked"]
<1> DEFINE n == Origin[s]
<1>0. AsksOK /\ ListsOK /\ n \in Nodes /\ listed[s] \in SUBSET Nodes
  BY DEF DInv, LinksOK, WaysOK, LaunchOK, DiscoveryAssumption
<1>1. ~Unreachable(n) /\ NeighborsOf(n) \ dead = NeighborsOf(n)
  BY DEF Unreachable
<1>2. PICK targets \in SUBSET (NeighborsOf(n) \ dead), el \in addListNode(<<>>, n, listed[s]) :
        /\ (MayPropagate(Decremented(Hops[s])) /\ Unreachable(n)) \/ targets = NeighborsOf(n) \ dead
        /\ asks' = [asks EXCEPT ![n] = [m \in Nodes |-> @[m] \o
            Forwarded(n, [s |-> s, hops |-> Decremented(Hops[s]), el |-> el,
                          wb |-> IF s \in Ends THEN <<>> ELSE <<n>>], <<>>, targets)[m]]]
  BY DEF ForwardFirst
<1>t. targets = NeighborsOf(n)
  BY <1>1, <1>2
<1>3. ApplicationEnd(s, n) /\ phase' = [phase EXCEPT ![s] = "asked"]
  BY <1>1 DEF ForwardFirst
<1> DEFINE f == [s |-> s, hops |-> Decremented(Hops[s]), el |-> el,
                 wb |-> IF s \in Ends THEN <<>> ELSE <<n>>]
           F == Forwarded(n, f, <<>>, NeighborsOf(n))
<1>4. f \in Requests /\ f.s = s /\ f.hops = Decremented(Hops[s]) /\ f.el = el
  <2>1. Decremented(Hops[s]) \in Int
    BY DecrementedInt DEF DiscoveryAssumption
  <2>2. (IF s \in Ends THEN <<>> ELSE <<n>>) \in Seq(Nodes)
    BY <1>0
  <2>3. el \in Lists
    BY <1>0, NoList, ListAdds
  <2> QED BY <2>1, <2>2, <2>3 DEF Requests
<1>5. asks' = [asks EXCEPT ![n] = [p \in Nodes |-> @[p] \o F[p]]]
  BY <1>2, <1>t
<1> HIDE DEF f, n
<1>6. Passed(n, f, <<>>, asks[n], asks'[n])
  <2> DEFINE row == [p \in Nodes |-> asks[n][p] \o F[p]]
  <2>1. asks' = [asks EXCEPT ![n] = row]
    BY <1>5
  <2>2. \A p \in Nodes : row[p] = asks[n][p] \o F[p]
    OBVIOUS
  <2> HIDE DEF row
  <2>3. asks'[n] = row
    BY <1>0, <2>1 DEF AsksOK
  <2> QED BY <2>2, <2>3 DEF Passed, F
<1> HIDE DEF F
<1>7. KeepsRows(n)
  BY <1>0, <1>5 DEF AsksOK, KeepsRows
<1>8. Starts(s, f)
  BY <1>2, <1>4, <1>6, <1>7 DEF Starts, n
<1> QED BY <1>0, <1>3, <1>8 DEF n

(* A request that came before is taken.                                    *)
LEMMA AskedTakes ==
  ASSUME DInv, NEW m \in Nodes, NEW n \in Nodes, AlreadyAsked(m, n)
  PROVE  /\ \A a, b \in Nodes : ~(a = m /\ b = n) => asks'[a][b] = asks[a][b]
         /\ Len(asks'[m][n]) = Len(asks[m][n]) - 1 /\ Len(asks[m][n]) > 0
         /\ Head(asks[m][n]) \in Way(m, n) /\ Head(asks[m][n]).s \in Searches \ Ends
         /\ n \in {k \in Nodes : Head(asks[m][n]).s \in ToSet(knownRequests[k])}
<1>0. AsksOK /\ asks[m][n] # <<>>
  BY DEF DInv, WaysOK, AlreadyAsked
<1>1. /\ Head(asks[m][n]) \in Way(m, n) /\ Head(asks[m][n]) \in Requests
  BY <1>0, TakenAway
<1>2. asks' = Taken(m, n) /\ Head(asks[m][n]).s \notin Ends /\ Head(asks[m][n]).s \in ToSet(knownRequests[n])
  BY DEF AlreadyAsked
<1>3. \A a, b \in Nodes : asks'[a][b] = IF a = m /\ b = n THEN Tail(asks[m][n]) ELSE asks[a][b]
  BY <1>0, <1>2 DEF AsksOK, Taken
<1>4. asks[m][n] \in Seq(Requests)
  BY <1>0 DEF AsksOK
<1>5. Len(Tail(asks[m][n])) = Len(asks[m][n]) - 1 /\ Len(asks[m][n]) > 0
  BY <1>0, <1>4
<1>6. Head(asks[m][n]).s \in Searches
  BY <1>1 DEF Requests
<1> QED BY <1>1, <1>2, <1>3, <1>5, <1>6

-----------------------------------------------------------------------------
(* A flood that meets no other spans a tree of links that it leaves.       *)
(* The nodes that a request has visited.                                   *)
Knows(s) == {n \in Nodes : s \in ToSet(knownRequests[n])}

(* One flood at a time, and no new link meanwhile.                         *)
Alone ==
  /\ \A s, q \in Searches : OnItsWay(s) /\ OnItsWay(q) => s = q
  /\ Called("RegisterNode") => ~Flooding

(* Both ends of a link are left with as many copies of it.                 *)
Balanced == \A n, m \in Nodes : Left(n, m) = Left(m, n)

(* Where a link led at the start, one still leads.                         *)
Crossed(S) == \E n \in S \cap Nodes, m \in Nodes \ S : Left(n, m) > 0
Joined == \A l \in Links : \A S \in SUBSET Nodes : l[1] \in S /\ l[2] \notin S => Crossed(S)

(* A link that no request on its way will cut.                             *)
Safe(n, m) == Left(n, m) > Len(asks[n][m]) + Len(asks[m][n])
Spans(K)   == \A S \in SUBSET Nodes : K \cap S # {} /\ K \ S # {} => \E n \in K \cap S, m \in K \ S : Safe(n, m)

(* The flood of s.                                                         *)
NotSent(s) == phase[s] = "listed" => \A m, n \in Nodes : Way(m, n) = {}
Tree(s) ==
  /\ phase[s] = "listed" => Knows(s) = {Origin[s]}
  /\ \A m, n \in Nodes : \A r \in Way(m, n) : m \in Knows(s) /\ m \in DOMAIN r.el
  /\ \A j \in BagToSet(jobmgr) : j.at \in Knows(s) /\ j.node \in Knows(s)
  /\ \A n \in Nodes \ Knows(s), m \in Nodes : Len(asks[m][n]) <= neighborsList[m][n]
  /\ Spans(Knows(s))

FloodOK ==
  /\ Alone /\ Balanced /\ Joined
  /\ \A s \in Searches : OnItsWay(s) => NotSent(s)
  /\ \A s \in Searches \ Ends : OnItsWay(s) => Tree(s)
FloodInv == CallsOK /\ Unstarted /\ (Undisturbed => FloodOK)

(* What was undisturbed up to now, and what may not happen meanwhile.      *)
LEMMA UndisturbedStep ==
  ASSUME DInv, [Next]_vars, Undisturbed'
  PROVE  /\ Undisturbed /\ dead = {} /\ dead' = {}
         /\ \A s \in Searches : Launch(s) => ~Flooding /\ ~Called("RegisterNode")
         /\ \A l \in Parents : SelfRegister(l[1], l[2]) => ~Flooding
<1>1. dead = {} /\ dead' = {}
  BY DeadStay DEF Undisturbed
<1>2. \A s \in Searches : Launch(s) => ~met /\ ~Flooding /\ ~Called("RegisterNode")
  BY DEF Launch, Undisturbed
<1>3. \A l \in Parents : SelfRegister(l[1], l[2]) => ~met /\ ~Flooding
  BY DEF SelfRegister, Undisturbed
<1>4. \A s \in Searches : ForwardFirst(s) => met' = met
  BY DEF ForwardFirst
<1>5. \A m, n \in Nodes : Visit(m, n) => met' = met
  BY DEF Visit
<1>6. ~met
  BY <1>2, <1>3, <1>4, <1>5, EndedWriters DEF Undisturbed
<1> QED BY <1>1, <1>2, <1>3, <1>6 DEF Undisturbed

(* Every request on its way to a node belongs to the flood.                *)
LEMMA OnlyFlood ==
  ASSUME DInv, dead = {}, Alone, NEW m \in Nodes, NEW n \in Nodes, NEW r \in Way(m, n)
  PROVE  r.s \in Searches /\ OnItsWay(r.s) /\ \A s \in Searches : OnItsWay(s) => s = r.s
<1>1. r \in Requests
  <2>1. asks[m][n] \in Seq(Requests)
    BY DEF DInv, WaysOK, AsksOK
  <2> QED BY <2>1, SeqSet DEF Way
<1>2. r.s \in Searches /\ OnItsWay(r.s)
  BY <1>1, OnItsWayIs DEF Requests
<1> QED BY <1>2 DEF Alone

(* Two launches are not one step.                                          *)
LEMMA OneLaunch ==
  ASSUME DInv, NEW s \in Searches, NEW q \in Searches, Launch(s), Launch(q)
  PROVE  s = q
<1>0. phase \in [Searches -> Phases]
  BY DEF DInv, LaunchOK
<1>1. phase[q] = "idle" /\ \E p : phase' = [phase EXCEPT ![s] = p]
  BY DEF Launch
<1>2. phase'[q] # "idle"
  BY <1>0 DEF Launch
<1> QED BY <1>0, <1>1, <1>2

(* One flood at a time.                                                    *)
LEMMA AloneStep ==
  ASSUME DiscoveryAssumption, DInv, [Next]_vars, Undisturbed', FloodInv PROVE Alone'
<1>0. /\ Undisturbed /\ dead = {} /\ dead' = {} /\ Alone
      /\ \A s \in Searches : Launch(s) => ~Flooding /\ ~Called("RegisterNode")
      /\ \A l \in Parents : SelfRegister(l[1], l[2]) => ~Flooding
  BY UndisturbedStep DEF FloodInv, FloodOK
<1>1. \A s \in Searches : OnItsWay(s)' => OnItsWay(s) \/ Launch(s)
  BY OnItsWayFrom
<1>2. ASSUME NEW s \in Searches, Launch(s), NEW q \in Searches, OnItsWay(q)' PROVE q = s
  <2>1. ~OnItsWay(q)
    BY <1>0, <1>2 DEF Flooding
  <2>2. Launch(q)
    BY <1>1, <1>2, <2>1
  <2> QED BY <1>2, <2>2, OneLaunch
<1>3. ASSUME NEW s \in Searches, NEW q \in Searches, OnItsWay(s)', OnItsWay(q)' PROVE s = q
  BY <1>0, <1>1, <1>2, <1>3 DEF Alone
<1>4. ASSUME NEW s \in Searches, Launch(s) PROVE ~Called("RegisterNode")'
  <2>1. jobmgr' = jobmgr
    BY <1>4 DEF Launch
  <2> QED BY <1>0, <1>4, <2>1 DEF Called
<1>5. ASSUME Called("RegisterNode")' PROVE ~Flooding'
  <2>1. CASE UNCHANGED <<neighborsList, jobmgr>>
    <3>1. Called("RegisterNode") /\ (Called("UnregisterNode")' => Called("UnregisterNode"))
      BY <1>5, <2>1 DEF Called
    <3>2. ~Flooding
      BY <1>0, <3>1 DEF Alone
    <3>3. \A s \in Searches : ~Launch(s)
      BY <1>4, <1>5
    <3> QED BY <1>1, <3>1, <3>2, <3>3 DEF Flooding
  <2>2. ASSUME NEW j \in BagToSet(jobmgr), JobMgrStep(j) PROVE ~Flooding'
    <3>1. BagToSet(jobmgr') \subseteq BagToSet(jobmgr)
      BY <2>2, BagDrops DEF JobMgrStep
    <3>2. Called("RegisterNode") /\ (Called("UnregisterNode")' => Called("UnregisterNode"))
      BY <1>5, <3>1 DEF Called
    <3>3. ~Flooding
      BY <1>0, <3>2 DEF Alone
    <3>4. \A s \in Searches : ~Launch(s)
      BY <1>4, <1>5
    <3> QED BY <1>1, <3>2, <3>3, <3>4 DEF Flooding
  <2>3. ASSUME NEW l \in Parents, SelfRegister(l[1], l[2]) PROVE ~Flooding'
    <3>1. ~Flooding
      BY <1>0, <2>3
    <3>2. ~Called("UnregisterNode")'
      BY <2>3, <3>1, JoinLeft DEF Flooding, FloodInv
    <3>3. \A s \in Searches : ~Launch(s)
      BY <1>4, <1>5
    <3> QED BY <1>1, <3>1, <3>2, <3>3 DEF Flooding
  <2>4. ASSUME NEW m \in Nodes, NEW n \in Nodes, AlreadyAsked(m, n) PROVE FALSE
    <3>1. Head(asks[m][n]) \in Way(m, n)
      BY <2>4, AskedTakes
    <3>2. Flooding
      BY <1>0, <3>1, OnlyFlood DEF Flooding
    <3>3. ~Called("RegisterNode")
      BY <1>0, <3>2 DEF Alone
    <3> QED BY <1>0, <1>5, <2>4, <3>3, CutLeft DEF FloodInv
  <2> QED BY <2>1, <2>2, <2>3, <2>4, ListsWriters
<1> QED BY <1>3, <1>5 DEF Alone

(* What happens to the links that are left.                                *)
LEMMA LeftStep ==
  ASSUME DiscoveryAssumption, DInv, [Next]_vars, Undisturbed', FloodInv
  PROVE  /\ CallsOK'
         /\ \/ AllLeft
            \/ \E m, n \in Nodes : AlreadyAsked(m, n) /\ Cut(m, n)
            \/ \E m, n \in Nodes : Made(m, n)
<1>0. /\ Undisturbed /\ dead = {} /\ Alone /\ CallsOK
      /\ \A l \in Parents : SelfRegister(l[1], l[2]) => ~Flooding
  BY UndisturbedStep DEF FloodInv, FloodOK
<1>1. CASE UNCHANGED <<neighborsList, jobmgr>>
  <2>1. CallsOK' /\ AllLeft
    BY <1>0, <1>1 DEF CallsOK, AllLeft, Left, Cuts, Joins
  <2> QED BY <2>1
<1>2. ASSUME NEW m \in Nodes, NEW n \in Nodes, AlreadyAsked(m, n)
      PROVE  CallsOK' /\ Cut(m, n)
  <2>1. Head(asks[m][n]) \in Way(m, n)
    BY <1>2, AskedTakes
  <2>2. Flooding
    BY <1>0, <2>1, OnlyFlood DEF Flooding
  <2>3. ~Called("RegisterNode")
    BY <1>0, <2>2 DEF Alone
  <2> QED BY <1>0, <1>2, <2>3, CutLeft
<1>3. ASSUME NEW j \in BagToSet(jobmgr), JobMgrStep(j) PROVE CallsOK' /\ AllLeft
  <2>1. ~(Called("RegisterNode") /\ Called("UnregisterNode"))
    BY <1>0 DEF Alone, Flooding
  <2> QED BY <1>0, <1>3, <2>1, CallLeft
<1>4. ASSUME NEW l \in Parents, SelfRegister(l[1], l[2])
      PROVE  CallsOK' /\ \E m, n \in Nodes : Made(m, n)
  <2>1. l[1] \in Nodes /\ l[2] \in Nodes
    BY DEF DiscoveryAssumption
  <2>2. ~Called("UnregisterNode")
    BY <1>0, <1>4 DEF Flooding
  <2>3. CallsOK' /\ Made(l[1], l[2])
    BY <1>0, <1>4, <2>2, JoinLeft
  <2> QED BY <2>1, <2>3
<1> QED BY <1>1, <1>2, <1>3, <1>4, ListsWriters

(* Both sides change alike.                                                *)
LEMMA BalancedStep ==
  ASSUME DiscoveryAssumption, DInv, [Next]_vars, Undisturbed', FloodInv PROVE Balanced'
<1>0. Balanced
  BY UndisturbedStep DEF FloodInv, FloodOK
<1> SUFFICES ASSUME NEW a \in Nodes, NEW b \in Nodes PROVE Left(a, b)' = Left(b, a)'
  BY DEF Balanced
<1>1. Left(a, b) = Left(b, a)
  BY <1>0 DEF Balanced
<1>2. {a, b} = {b, a}
  OBVIOUS
<1>3. CASE AllLeft
  BY <1>1, <1>3 DEF AllLeft
<1>4. ASSUME NEW m \in Nodes, NEW n \in Nodes, Cut(m, n) PROVE Left(a, b)' = Left(b, a)'
  <2>1. Left(a, b)' = IF {a, b} = {m, n} THEN Fewer(Left(a, b)) ELSE Left(a, b)
    BY <1>4 DEF Cut
  <2>2. Left(b, a)' = IF {b, a} = {m, n} THEN Fewer(Left(b, a)) ELSE Left(b, a)
    BY <1>4 DEF Cut
  <2>3. {a, b} = {m, n} <=> {b, a} = {m, n}
    BY <1>2
  <2>4. CASE {a, b} = {m, n}
    <3>1. Left(a, b)' = Fewer(Left(a, b))
      BY <2>1, <2>4
    <3>2. Left(b, a)' = Fewer(Left(b, a))
      BY <2>2, <2>3, <2>4
    <3> QED BY <1>1, <3>1, <3>2
  <2>5. CASE {a, b} # {m, n}
    BY <1>1, <2>1, <2>2, <2>3, <2>5
  <2> QED BY <2>4, <2>5
<1>5. ASSUME NEW m \in Nodes, NEW n \in Nodes, Made(m, n) PROVE Left(a, b)' = Left(b, a)'
  <2>1. Left(a, b)' = IF {a, b} = {m, n} THEN Left(a, b) + 1 ELSE Left(a, b)
    BY <1>5 DEF Made
  <2>2. Left(b, a)' = IF {b, a} = {m, n} THEN Left(b, a) + 1 ELSE Left(b, a)
    BY <1>5 DEF Made
  <2>3. {a, b} = {m, n} <=> {b, a} = {m, n}
    BY <1>2
  <2>4. CASE {a, b} = {m, n}
    <3>1. Left(a, b)' = Left(a, b) + 1
      BY <2>1, <2>4
    <3>2. Left(b, a)' = Left(b, a) + 1
      BY <2>2, <2>3, <2>4
    <3> QED BY <1>1, <3>1, <3>2
  <2>5. CASE {a, b} # {m, n}
    BY <1>1, <2>1, <2>2, <2>3, <2>5
  <2> QED BY <2>4, <2>5
<1> QED BY <1>3, <1>4, <1>5, LeftStep

(* Lengths.                                                                *)
LEMMA AskLens ==
  ASSUME AsksOK, NEW m \in Nodes, NEW n \in Nodes
  PROVE  Len(asks[m][n]) \in Nat /\ (Way(m, n) = {} => Len(asks[m][n]) = 0)
<1>1. asks[m][n] \in Seq(Requests)
  BY DEF AsksOK
<1>2. Len(asks[m][n]) \in Nat /\ DOMAIN asks[m][n] = 1..Len(asks[m][n])
  BY <1>1, LenProperties
<1>3. Len(asks[m][n]) > 0 => asks[m][n][1] \in Way(m, n)
  BY <1>2 DEF Way, ToSet
<1> QED BY <1>2, <1>3

-----------------------------------------------------------------------------
(* The tree, step by step.                                                 *)
(* A request that comes again cuts a link that the tree can do without.    *)
LEMMA TreeAsked ==
  ASSUME DiscoveryAssumption, DInv, dead = {}, NEW m \in Nodes, NEW n \in Nodes, AlreadyAsked(m, n),
         Cut(m, n), CallsOK, NEW s, s = Head(asks[m][n]).s, Tree(s), NotSent(s)
  PROVE  Tree(s)' /\ NotSent(s)'
<1>0. AsksOK /\ ListsOK
  BY DEF DInv, WaysOK, LinksOK
<1>1. /\ \A a, b \in Nodes : ~(a = m /\ b = n) => asks'[a][b] = asks[a][b]
      /\ Len(asks'[m][n]) = Len(asks[m][n]) - 1 /\ Len(asks[m][n]) > 0
      /\ Head(asks[m][n]) \in Way(m, n) /\ n \in Knows(s)
  BY AskedTakes DEF Knows
<1>2. m \in Knows(s)
  BY <1>1 DEF Tree
<1>3. phase' = phase /\ Knows(s)' = Knows(s)
  BY DEF AlreadyAsked, Knows
<1>4. \A a, b \in Nodes : Way(a, b)' \subseteq Way(a, b)
  <2>1. asks' = Taken(m, n) /\ asks[m][n] # <<>>
    BY DEF AlreadyAsked
  <2> QED BY <1>0, <2>1, TakenAway DEF Way
<1>5. NotSent(s)'
  BY <1>3, <1>4 DEF NotSent
<1>6. \A a, b \in Nodes : \A r \in Way(a, b)' : a \in Knows(s) /\ a \in DOMAIN r.el
  BY <1>4 DEF Tree
<1>7. ASSUME NEW j \in BagToSet(jobmgr') PROVE j.at \in Knows(s) /\ j.node \in Knows(s)
  <2> DEFINE k == [op |-> "UnregisterNode", at |-> m, node |-> n]
  <2>1. jobmgr' = jobmgr (+) SetToBag({k})
    BY DEF AlreadyAsked
  <2>2. k.at = m /\ k.node = n
    OBVIOUS
  <2> HIDE DEF k
  <2>3. BagToSet(jobmgr') = BagToSet(jobmgr) \cup {k}
    BY <2>1, BagAdds
  <2> QED BY <1>1, <1>2, <1>7, <2>2, <2>3 DEF Tree
<1>8. ASSUME NEW b \in Nodes \ Knows(s), NEW a \in Nodes PROVE Len(asks'[a][b]) <= neighborsList'[a][b]
  <2>1. asks'[a][b] = asks[a][b]
    BY <1>1, <1>8
  <2>2. neighborsList' = removeNeighbor(n, m)
    BY DEF AlreadyAsked
  <2>3. b # m
    BY <1>2, <1>8
  <2>4. neighborsList'[a][b] = neighborsList[a][b]
    BY <1>0, <2>2, <2>3 DEF removeNeighbor, ListsOK
  <2> QED BY <1>8, <2>1, <2>4 DEF Tree
<1>9. ASSUME NEW a \in Nodes, NEW b \in Nodes, Safe(a, b) PROVE Safe(a, b)'
  <2>0. Len(asks[a][b]) \in Nat /\ Len(asks[b][a]) \in Nat /\ Left(a, b) \in Nat
    BY <1>0, AskLens, LeftNat
  <2>1. Left(a, b)' = IF {a, b} = {m, n} THEN Fewer(Left(a, b)) ELSE Left(a, b)
    BY DEF Cut
  <2>2. m # n
    BY <1>1 DEF DInv, WaysOK, Travels
  <2>3. CASE a = m /\ b = n
    <3>1. Len(asks'[a][b]) = Len(asks[a][b]) - 1 /\ asks'[b][a] = asks[b][a] /\ Left(a, b)' = Fewer(Left(a, b))
      BY <1>1, <2>1, <2>2, <2>3
    <3>2. Fewer(Left(a, b)) > (Len(asks[a][b]) - 1) + Len(asks[b][a])
      <4>1. \A l, x, y \in Nat : x > 0 /\ l > x + y => Fewer(l) > (x - 1) + y
        BY DEF Fewer
      <4>2. Len(asks[a][b]) > 0
        BY <1>1, <2>3
      <4> QED BY <1>9, <2>0, <4>1, <4>2 DEF Safe
    <3> QED BY <3>1, <3>2 DEF Safe
  <2>4. CASE a = n /\ b = m
    <3>1. Len(asks'[b][a]) = Len(asks[b][a]) - 1 /\ asks'[a][b] = asks[a][b]
      BY <1>1, <2>2, <2>4
    <3>2. {a, b} = {m, n}
      BY <2>4
    <3>3. Left(a, b)' = Fewer(Left(a, b))
      BY <2>1, <3>2
    <3>4. Fewer(Left(a, b)) > Len(asks[a][b]) + (Len(asks[b][a]) - 1)
      <4>1. \A l, x, y \in Nat : y > 0 /\ l > x + y => Fewer(l) > x + (y - 1)
        BY DEF Fewer
      <4>2. Len(asks[b][a]) > 0
        BY <1>1, <2>4
      <4> QED BY <1>9, <2>0, <4>1, <4>2 DEF Safe
    <3> QED BY <3>1, <3>3, <3>4 DEF Safe
  <2>5. CASE {a, b} # {m, n}
    <3>1. asks'[a][b] = asks[a][b] /\ asks'[b][a] = asks[b][a] /\ Left(a, b)' = Left(a, b)
      BY <1>1, <2>1, <2>5
    <3> QED BY <1>9, <3>1 DEF Safe
  <2> QED BY <2>3, <2>4, <2>5
<1>10. Spans(Knows(s))'
  <2>1. Knows(s) \subseteq Nodes
    BY DEF Knows
  <2> QED BY <1>3, <1>9, <2>1 DEF Spans, Tree
<1>11. phase'[s] = "listed" => Knows(s)' = {Origin[s]}
  BY <1>3 DEF Tree
<1> QED BY <1>3, <1>5, <1>6, <1>7, <1>8, <1>10, <1>11 DEF Tree

(* A call of a job manager does not change it.                             *)
LEMMA TreeCall ==
  ASSUME DInv, NEW j \in BagToSet(jobmgr), JobMgrStep(j), AllLeft, NEW s, Tree(s), NotSent(s)
  PROVE  Tree(s)' /\ NotSent(s)'
<1>0. ListsOK /\ Knows(s) \subseteq Nodes
  BY DEF DInv, LinksOK, Knows
<1>1. phase' = phase /\ Knows(s)' = Knows(s) /\ asks' = asks
  BY DEF JobMgrStep, Knows
<1>2. BagToSet(jobmgr') \subseteq BagToSet(jobmgr)
  BY BagDrops DEF JobMgrStep
<1>3. j.at \in Knows(s) /\ j.node \in Knows(s) /\ j.op \in {"RegisterNode", "UnregisterNode"}
  BY DEF Tree, DInv, LinksOK, Calls
<1>4. ASSUME NEW b \in Nodes \ Knows(s), NEW a \in Nodes PROVE neighborsList'[a][b] = neighborsList[a][b]
  <2>1. b # j.node /\ j.at \in Nodes /\ j.node \in Nodes
    BY <1>0, <1>3
  <2>2. \/ neighborsList' = neighborsList
        \/ neighborsList' = removeNeighbor(j.at, j.node)
        \/ neighborsList' = [neighborsList EXCEPT ![j.at][j.node] = @ + 1]
    BY <1>3 DEF JobMgrStep
  <2> QED BY <1>0, <2>1, <2>2 DEF removeNeighbor, ListsOK
<1>5. Spans(Knows(s))'
  <2>1. \A a, b \in Nodes : Safe(a, b)' <=> Safe(a, b)
    BY <1>1 DEF AllLeft, Safe
  <2> QED BY <1>0, <1>1, <2>1 DEF Spans, Tree
<1>6. \A a, b \in Nodes : Way(a, b)' = Way(a, b)
  BY <1>1 DEF Way
<1>7. NotSent(s)'
  BY <1>1, <1>6 DEF NotSent
<1>8. \A b \in Nodes \ Knows(s), a \in Nodes : Len(asks'[a][b]) <= neighborsList'[a][b]
  BY <1>1, <1>4 DEF Tree
<1> QED BY <1>1, <1>2, <1>5, <1>6, <1>7, <1>8 DEF Tree

(* A visit adds the link that it came by, if it is the first.              *)
LEMMA TreeVisit ==
  ASSUME DiscoveryAssumption, DInv, dead = {}, CallsOK, MaxReqToSave > 0, ~Called("RegisterNode"), Balanced,
         NEW m \in Nodes, NEW n \in Nodes, Visit(m, n),
         NEW s, s = Head(asks[m][n]).s, s \notin Ends, Tree(s), NotSent(s)
  PROVE  Tree(s)' /\ NotSent(s)'
<1> DEFINE r == Head(asks[m][n])
           K == Knows(s)
<1>0. AsksOK /\ ListsOK /\ KnownOK
  BY DEF DInv, WaysOK, LinksOK
<1>1. m # n /\ r \in Requests /\ r \in Way(m, n) /\ s \in Searches /\ \E f : Forwards(m, n, r, f)
  <2>1. m # n /\ r \in Requests /\ r \in Way(m, n) /\ \E f : Forwards(m, n, r, f)
    BY VisitSends
  <2> QED BY <2>1 DEF Requests
<1>2. PICK f : Forwards(m, n, r, f)
  BY <1>1
<1>3. m \in K /\ m \in DOMAIN r.el /\ K \subseteq Nodes
  BY <1>1 DEF Tree, Knows
<1>4. n \notin K
  BY DEF Visit, Knows
<1>5. Knows(s)' = K \cup {n}
  <2>1. Remember(n, s)
    BY DEF Visit
  <2>2. /\ \A k \in Nodes : k # n => knownRequests'[k] = knownRequests[k]
        /\ s \in ToSet(knownRequests'[n])
    BY <1>0, <1>1, <2>1, Remembers
  <2> QED BY <2>2 DEF Knows
<1>6. phase' = phase /\ jobmgr' = jobmgr /\ neighborsList' = neighborsList
  BY DEF Visit
<1>7. \A a, b \in Nodes : Left(a, b)' = Left(a, b)
  BY <1>6 DEF Left, Cuts, Joins
<1>8. phase[s] # "listed"
  BY <1>1 DEF NotSent
<1>9. f.el \in Lists /\ DOMAIN f.el = DOMAIN r.el \cup {n} /\ f \in Requests
  <2>1. r.el \in Lists /\ NeighborsOf(n) \in SUBSET Nodes
    BY <1>1 DEF Requests, NeighborsOf
  <2> HIDE DEF r
  <2>2. f.el \in addListNode(r.el, n, NeighborsOf(n)) /\ f \in Requests
    BY <1>2 DEF Forwards
  <2> QED BY <2>1, <2>2, ListAdds
<1>t. asks[m][n] \in Seq(Requests) /\ asks[m][n] # <<>>
  <2>1. asks[m][n] # <<>>
    BY DEF Visit
  <2> QED BY <1>0, <2>1 DEF AsksOK
<1> HIDE DEF r, K
<1>10. ASSUME NEW b \in Nodes
       PROVE  /\ Len(asks'[n][b]) = Len(asks[n][b]) + (IF Told(n, f, r.el, b) THEN neighborsList[n][b] ELSE 0)
              /\ Way(n, b)' = Way(n, b) \cup (IF Told(n, f, r.el, b) THEN {f} ELSE {})
  <2>1. Passed(n, f, r.el, asks[n], asks'[n]) /\ asks[n] \in [Nodes -> Seq(Requests)]
    BY <1>0, <1>2 DEF Forwards, AsksOK
  <2>2. PassedAs(n, f, r.el, asks[n], asks'[n], b)
    BY <1>0, <1>9, <2>1, PassedOn
  <2> QED BY <2>2 DEF Way, PassedAs
<1>11. ASSUME NEW a \in Nodes, NEW b \in Nodes, a # n
       PROVE  asks'[a][b] = IF a = m /\ b = n THEN Tail(asks[m][n]) ELSE asks[a][b]
  BY <1>2, <1>11 DEF Forwards, LeavesRows
<1>12. ASSUME NEW b \in Nodes PROVE Len(asks[n][b]) = 0 /\ Way(n, b) = {}
  <2>1. Way(n, b) = {}
    BY <1>4 DEF Tree, K
  <2> QED BY <1>0, <2>1, AskLens
<1>13. Len(asks'[m][n]) = Len(asks[m][n]) - 1 /\ Way(m, n)' \subseteq Way(m, n)
  <2>2. asks'[m][n] = Tail(asks[m][n])
    BY <1>1, <1>11
  <2>3. Len(Tail(asks[m][n])) = Len(asks[m][n]) - 1
    BY <1>t
  <2> QED BY <1>t, <2>2, <2>3, TailSet DEF Way
<1>14. ASSUME NEW a \in Nodes, NEW b \in Nodes, NEW q \in Way(a, b)'
       PROVE  a \in K \cup {n} /\ a \in DOMAIN q.el
  <2>1. CASE a = n
    <3>1. q = f
      BY <1>10, <1>12, <1>14, <2>1
    <3> QED BY <1>9, <2>1, <3>1
  <2>2. CASE a # n
    <3>1. q \in Way(a, b)
      BY <1>11, <1>13, <1>14, <2>2 DEF Way
    <3> QED BY <3>1 DEF Tree, K
  <2> QED BY <2>1, <2>2
<1>15. ASSUME NEW b \in Nodes \ (K \cup {n}), NEW a \in Nodes PROVE Len(asks'[a][b]) <= neighborsList'[a][b]
  <2>0. neighborsList[a][b] \in Nat
    BY <1>0 DEF ListsOK
  <2>1. CASE a = n
    <3>1. Len(asks[n][b]) = 0 /\ neighborsList'[n][b] = neighborsList[n][b]
      BY <1>6, <1>12
    <3>2. Len(asks'[n][b]) = Len(asks[n][b]) + (IF Told(n, f, r.el, b) THEN neighborsList[n][b] ELSE 0)
      BY <1>10
    <3> QED BY <2>0, <2>1, <3>1, <3>2
  <2>2. CASE a # n
    <3>1. asks'[a][b] = asks[a][b]
      BY <1>11, <2>2
    <3> QED BY <1>6, <3>1 DEF Tree, K
  <2> QED BY <2>1, <2>2
<1>16. Safe(n, m)' /\ Safe(m, n)'
  <2>1. Len(asks'[n][m]) = 0
    <3>1. ~Told(n, f, r.el, m)
      BY <1>3, ListedIn DEF Told
    <3> QED BY <1>10, <1>12, <3>1
  <2>2. Cuts(m, n) = 0 /\ Joins(m, n) = 0
    <3>1. Calling("UnregisterNode", m, n) \notin BagToSet(jobmgr)
      BY <1>4 DEF Tree, K, Calling
    <3>2. Cuts(m, n) = 0
      BY <3>1 DEF Cuts, Copies
    <3> QED BY <3>2, NoCalls
  <2>3. Left(m, n) = neighborsList[m][n]
    <3>1. neighborsList[m][n] \in Nat
      BY <1>0 DEF ListsOK
    <3> QED BY <2>2, <3>1 DEF Left
  <2>4. Len(asks[m][n]) <= neighborsList[m][n]
    BY <1>4 DEF Tree, K
  <2>5. Left(n, m) = Left(m, n) /\ Left(m, n) \in Nat /\ Len(asks[m][n]) \in Nat
    BY <1>0, LeftNat, AskLens DEF Balanced
  <2>6. Left(m, n) > 0 + Len(asks'[m][n]) /\ Left(m, n) > Len(asks'[m][n]) + 0
    BY <1>13, <2>3, <2>4, <2>5
  <2> QED BY <1>7, <2>1, <2>5, <2>6 DEF Safe
<1>17. ASSUME NEW a \in K, NEW b \in K, Safe(a, b) PROVE Safe(a, b)'
  <2>1. a \in Nodes /\ b \in Nodes /\ a # n /\ b # n
    BY <1>3, <1>4
  <2>2. asks'[a][b] = asks[a][b] /\ asks'[b][a] = asks[b][a]
    BY <1>11, <2>1
  <2>3. Left(a, b)' = Left(a, b)
    BY <1>7, <2>1
  <2> QED BY <1>17, <2>2, <2>3 DEF Safe
<1>18. Spans(Knows(s))'
  <2> DEFINE L == K \cup {n}
  <2> SUFFICES ASSUME NEW S \in SUBSET Nodes, L \cap S # {}, L \ S # {}
               PROVE  \E a \in L \cap S, b \in L \ S : Safe(a, b)'
    BY <1>5 DEF Spans
  <2>1. CASE K \cap S # {} /\ K \ S # {}
    <3>1. PICK a \in K \cap S, b \in K \ S : Safe(a, b)
      BY <2>1 DEF Spans, Tree, K
    <3> QED BY <1>17, <3>1
  <2>2. CASE K \cap S = {}
    <3>1. n \in S /\ m \notin S
      BY <1>3, <2>2
    <3> QED BY <1>3, <1>16, <3>1
  <2>3. CASE K \ S = {}
    <3>1. n \notin S /\ m \in S
      BY <1>3, <2>3
    <3> QED BY <1>3, <1>16, <3>1
  <2> QED BY <2>1, <2>2, <2>3
<1>19. NotSent(s)'
  BY <1>6, <1>8 DEF NotSent
<1>20. \A j \in BagToSet(jobmgr') : j.at \in K \cup {n} /\ j.node \in K \cup {n}
  BY <1>6 DEF Tree, K
<1> QED BY <1>5, <1>6, <1>8, <1>14, <1>15, <1>18, <1>19, <1>20 DEF Tree

(* The tree begins at the origin.                                          *)
LEMMA SpansOne == ASSUME NEW o PROVE Spans({o}) /\ Spans({o})'
BY DEF Spans

(* The origin is the tree when its neighbours are told, ...                *)
LEMMA TreeFirst ==
  ASSUME DiscoveryAssumption, DInv, dead = {}, NEW s \in Searches, ForwardFirst(s), Tree(s), NotSent(s)
  PROVE  Tree(s)' /\ NotSent(s)'
<1> DEFINE o == Origin[s]
<1>0. AsksOK /\ ListsOK
  BY DEF DInv, WaysOK, LinksOK
<1>1. o \in Nodes /\ phase'[s] = "asked" /\ \E f : Starts(s, f)
  <2>1. o \in Nodes /\ phase' = [phase EXCEPT ![s] = "asked"] /\ \E f : Starts(s, f)
    BY FirstSends
  <2> QED BY <2>1 DEF DInv, LaunchOK
<1>2. PICK f : Starts(s, f)
  BY <1>1
<1>3. Knows(s) = {o} /\ \A a, b \in Nodes : Way(a, b) = {} /\ Len(asks[a][b]) = 0
  BY <1>0, AskLens DEF Tree, NotSent, ForwardFirst
<1>4. Knows(s)' = {o} /\ jobmgr' = jobmgr /\ neighborsList' = neighborsList
  BY <1>3 DEF Knows, ForwardFirst
<1>5. f \in Requests /\ o \in DOMAIN f.el
  <2>1. listed[s] \in SUBSET Nodes
    BY DEF DInv, LaunchOK
  <2>2. f \in Requests /\ f.el \in addListNode(<<>>, o, listed[s])
    BY <1>2 DEF Starts
  <2>3. <<>> \in Lists
    BY NoList
  <2> HIDE DEF o
  <2>4. DOMAIN f.el = DOMAIN <<>> \cup {o}
    BY <1>1, <2>1, <2>2, <2>3, ListAdds
  <2> QED BY <2>2, <2>4
<1> HIDE DEF o
<1>6. ASSUME NEW b \in Nodes
      PROVE  /\ Len(asks'[o][b]) <= neighborsList[o][b]
             /\ Way(o, b)' \subseteq {f}
  <2>1. Passed(o, f, <<>>, asks[o], asks'[o]) /\ asks[o] \in [Nodes -> Seq(Requests)] /\ neighborsList[o][b] \in Nat
    BY <1>0, <1>1, <1>2 DEF Starts, AsksOK, ListsOK, o
  <2>2. PassedAs(o, f, <<>>, asks[o], asks'[o], b)
    BY <1>0, <1>1, <1>5, <2>1, PassedOn
  <2>3. Len(asks[o][b]) = 0 /\ ToSet(asks[o][b]) = {}
    BY <1>1, <1>3 DEF Way
  <2> QED BY <2>1, <2>2, <2>3 DEF Way, PassedAs
<1>7. ASSUME NEW a \in Nodes, NEW b \in Nodes, a # o PROVE Way(a, b)' = {} /\ Len(asks'[a][b]) = 0
  <2>1. asks'[a][b] = asks[a][b]
    BY <1>2, <1>7 DEF Starts, KeepsRows, o
  <2>2. Way(a, b)' = Way(a, b)
    BY <2>1 DEF Way
  <2> QED BY <1>3, <2>1, <2>2
<1>8. \A a, b \in Nodes : \A r \in Way(a, b)' : a \in {o} /\ a \in DOMAIN r.el
  BY <1>5, <1>6, <1>7
<1>9. \A b \in Nodes \ {o}, a \in Nodes : Len(asks'[a][b]) <= neighborsList'[a][b]
  <2>1. \A a, b \in Nodes : neighborsList[a][b] \in Nat
    BY <1>0 DEF ListsOK
  <2> QED BY <1>4, <1>6, <1>7, <2>1
<1>10. \A j \in BagToSet(jobmgr') : j.at \in {o} /\ j.node \in {o}
  BY <1>3, <1>4 DEF Tree
<1>11. Spans(Knows(s))'
  BY <1>4, SpansOne
<1>12. NotSent(s)'
  BY <1>1 DEF NotSent
<1> QED BY <1>1, <1>4, <1>8, <1>9, <1>10, <1>11, <1>12 DEF Tree

(* ... and from the launch on.                                             *)
LEMMA TreeLaunch ==
  ASSUME DiscoveryAssumption, DInv, dead = {}, MaxReqToSave > 0, ~Flooding, ~Called("RegisterNode"), Unstarted,
         NEW s \in Searches, Launch(s)
  PROVE  NotSent(s)' /\ (s \notin Ends => Tree(s)')
<1> DEFINE o == Origin[s]
<1>0. AsksOK /\ ListsOK /\ o \in Nodes
  BY DEF DInv, WaysOK, LinksOK, DiscoveryAssumption
<1>1. phase[s] = "idle" /\ asks' = asks /\ jobmgr' = jobmgr /\ neighborsList' = neighborsList /\ Remember(o, s)
  BY DEF Launch
<1>2. \A a, b \in Nodes : Way(a, b) = {}
  <2>1. ASSUME NEW a \in Nodes, NEW b \in Nodes, NEW r \in Way(a, b) PROVE FALSE
    <3>1. asks[a][b] \in Seq(Requests)
      BY <1>0 DEF AsksOK
    <3>2. r \in Requests
      BY <3>1, SeqSet DEF Way
    <3>3. r.s \in Searches
      BY <3>2 DEF Requests
    <3> QED BY <2>1, <3>3, OnItsWayIs DEF Flooding
  <2> QED BY <2>1
<1>3. BagToSet(jobmgr) = {}
  BY DEF DInv, LinksOK, Calls, Flooding, Called
<1>4. NotSent(s)'
  BY <1>1, <1>2 DEF NotSent, Way
<1>5. ASSUME s \notin Ends PROVE Knows(s)' = {o}
  <2>1. \A k \in Nodes : s \notin ToSet(knownRequests[k])
    BY <1>1 DEF Unstarted
  <2>2. /\ \A k \in Nodes : k # o => knownRequests'[k] = knownRequests[k]
        /\ s \in ToSet(knownRequests'[o])
    BY <1>0, <1>1, <1>5, Remembers DEF DInv
  <2> HIDE DEF o
  <2> QED BY <1>0, <2>1, <2>2 DEF Knows
<1>6. \A a, b \in Nodes : Len(asks'[a][b]) = 0 /\ neighborsList'[a][b] \in Nat
  BY <1>0, <1>1, <1>2, AskLens DEF ListsOK
<1>7. ASSUME s \notin Ends PROVE Spans(Knows(s))'
  BY <1>5, <1>7, SpansOne
<1>8. \A a, b \in Nodes : Way(a, b)' = {}
  BY <1>1, <1>2 DEF Way
<1> HIDE DEF o
<1> QED BY <1>1, <1>3, <1>4, <1>5, <1>6, <1>7, <1>8 DEF Tree, o

(* A launch lists its neighbours once.                                     *)
LEMMA ListedFrom ==
  ASSUME DInv, [Next]_vars, NEW s \in Searches, phase'[s] = "listed"
  PROVE  phase[s] = "listed" \/ Launch(s)
<1>0. phase \in [Searches -> Phases]
  BY DEF DInv, LaunchOK
<1>1. CASE UNCHANGED <<phase, listed>>
  BY <1>1
<1>2. ASSUME NEW q \in Searches, ForwardFirst(q) \/ InitSem(q) \/ Woken(q) \/ SleptEnough(q)
      PROVE  phase[s] = "listed"
  <2>1. \E p \in Phases : phase' = [phase EXCEPT ![q] = p] /\ p # "listed"
    <3>1. CASE ForwardFirst(q)
      BY <3>1 DEF ForwardFirst, Phases
    <3>2. CASE InitSem(q)
      BY <3>2 DEF InitSem, Phases
    <3>3. CASE Woken(q) \/ SleptEnough(q)
      BY <3>3 DEF Woken, SleptEnough, Collect, Phases
    <3> QED BY <1>2, <3>1, <3>2, <3>3
  <2> QED BY <1>0, <2>1
<1>3. ASSUME NEW q \in Searches, Launch(q), q # s
      PROVE  phase[s] = "listed"
  <2>1. \E p : phase' = [phase EXCEPT ![q] = p]
    BY <1>3 DEF Launch
  <2> QED BY <1>0, <1>3, <2>1
<1> QED BY <1>1, <1>2, <1>3, PhaseWriters

(* The tree does not change with anything else.                            *)
LEMMA TreeSame ==
  ASSUME UNCHANGED <<asks, neighborsList, jobmgr, knownRequests>>,
         NEW s, phase'[s] = "listed" => phase[s] = "listed", Tree(s)
  PROVE  Tree(s)'
<1>1. Knows(s)' = Knows(s)
  BY DEF Knows
<1>2. \A a, b : Way(a, b)' = Way(a, b) /\ Safe(a, b)' = Safe(a, b)
  BY DEF Way, Safe, Left, Cuts, Joins
<1>3. Spans(Knows(s))'
  BY <1>1, <1>2 DEF Tree, Spans
<1> QED BY <1>1, <1>2, <1>3 DEF Tree

(* Nothing is sent before the neighbours are.                              *)
LEMMA NotSentStep ==
  ASSUME DiscoveryAssumption, DInv, [Next]_vars, Undisturbed', FloodInv, MaxReqToSave > 0,
         NEW s \in Searches, OnItsWay(s)'
  PROVE  NotSent(s)'
<1>0. /\ Undisturbed /\ dead = {} /\ Alone /\ Unstarted
      /\ Launch(s) => ~Flooding /\ ~Called("RegisterNode")
  BY UndisturbedStep DEF FloodInv, FloodOK
<1>1. CASE Launch(s)
  BY <1>0, <1>1, TreeLaunch
<1>2. CASE ~Launch(s)
  <2>1. OnItsWay(s) /\ NotSent(s)
    BY <1>0, <1>2, OnItsWayFrom DEF FloodInv, FloodOK
  <2> SUFFICES ASSUME phase'[s] = "listed", NEW a \in Nodes, NEW b \in Nodes, NEW f \in Way(a, b)'
               PROVE  FALSE
    BY DEF NotSent
  <2>2. \A m, n \in Nodes : Way(m, n) = {}
    BY <1>2, <2>1, ListedFrom DEF NotSent
  <2>3. f.s \in Searches /\ ForwardFirst(f.s)
    <3>1. /\ f.s \in Searches
          /\ \/ f \in Way(a, b)
             \/ ForwardFirst(f.s)
             \/ \E m, n \in Nodes : Visit(m, n) /\ Head(asks[m][n]) \in Way(m, n)
                                   /\ Head(asks[m][n]).s = f.s
      BY WaysFrom
    <3>2. f \notin Way(a, b)
      BY <2>2
    <3>3. \A m, n \in Nodes : Head(asks[m][n]) \notin Way(m, n)
      BY <2>2
    <3> QED BY <3>1, <3>2, <3>3
  <2>4. OnItsWay(f.s)
    BY <1>0, <2>3 DEF ForwardFirst, OnItsWay
  <2>5. f.s = s
    BY <1>0, <2>1, <2>3, <2>4 DEF Alone
  <2>6. phase' = [phase EXCEPT ![s] = "asked"]
    BY <1>0, <2>3, <2>5, FirstSends
  <2> QED BY <2>6 DEF DInv, LaunchOK
<1> QED BY <1>1, <1>2

(* Each step keeps the tree.                                               *)
LEMMA TreeStep ==
  ASSUME DiscoveryAssumption, DInv, [Next]_vars, Undisturbed', FloodInv, MaxReqToSave > 0,
         NEW s \in Searches \ Ends, OnItsWay(s)'
  PROVE  Tree(s)'
<1>0. /\ Undisturbed /\ dead = {} /\ Alone /\ Unstarted /\ CallsOK /\ Balanced
      /\ \A q \in Searches : Launch(q) => ~Flooding /\ ~Called("RegisterNode")
      /\ \A l \in Parents : SelfRegister(l[1], l[2]) => ~Flooding
  BY UndisturbedStep DEF FloodInv, FloodOK
<1>1. CASE Launch(s)
  BY <1>0, <1>1, TreeLaunch
<1>2. CASE ~Launch(s)
  <2>1. OnItsWay(s) /\ NotSent(s) /\ Tree(s) /\ Flooding /\ ~Called("RegisterNode")
    <3>1. OnItsWay(s)
      BY <1>2, OnItsWayFrom
    <3>2. Flooding
      BY <3>1 DEF Flooding
    <3> QED BY <1>0, <3>1, <3>2 DEF FloodInv, FloodOK, Alone
  <2>2. ASSUME NEW q \in Searches, ForwardFirst(q) PROVE Tree(s)'
    <3>1. OnItsWay(q)
      BY <1>0, <2>2 DEF ForwardFirst, OnItsWay
    <3>2. q = s
      BY <1>0, <2>1, <3>1 DEF Alone
    <3> QED BY <1>0, <2>1, <2>2, <3>2, TreeFirst
  <2>3. ASSUME NEW m \in Nodes, NEW n \in Nodes, AlreadyAsked(m, n) PROVE Tree(s)'
    <3>1. Head(asks[m][n]) \in Way(m, n)
      BY <2>3, AskedTakes
    <3>2. s = Head(asks[m][n]).s
      BY <1>0, <2>1, <3>1, OnlyFlood
    <3>3. Cut(m, n)
      BY <1>0, <2>1, <2>3, CutLeft
    <3> QED BY <1>0, <2>1, <2>3, <3>2, <3>3, TreeAsked
  <2>4. ASSUME NEW m \in Nodes, NEW n \in Nodes, Visit(m, n) PROVE Tree(s)'
    <3>1. Head(asks[m][n]) \in Way(m, n)
      BY <1>0, <2>4, VisitSends
    <3>2. s = Head(asks[m][n]).s
      BY <1>0, <2>1, <3>1, OnlyFlood
    <3> QED BY <1>0, <2>1, <2>4, <3>2, TreeVisit
  <2>5. ASSUME NEW j \in BagToSet(jobmgr), JobMgrStep(j) PROVE Tree(s)'
    <3>1. AllLeft
      BY <1>0, <2>1, <2>5, CallLeft
    <3> QED BY <2>1, <2>5, <3>1, TreeCall
  <2>6. \A l \in Parents : ~SelfRegister(l[1], l[2])
    BY <1>0, <2>1
  <2>7. \A q \in Searches : ~Launch(q)
    BY <1>0, <2>1
  <2>8. CASE UNCHANGED <<asks, neighborsList, jobmgr, knownRequests>>
    BY <1>2, <2>1, <2>8, ListedFrom, TreeSame
  <2> QED BY <2>2, <2>3, <2>4, <2>5, <2>6, <2>7, <2>8, AsksWriters, ListsWriters, KnownWriters
<1> QED BY <1>1, <1>2

(* Where the links led, they still lead.                                   *)
LEMMA JoinedStep ==
  ASSUME DiscoveryAssumption, DInv, [Next]_vars, Undisturbed', FloodInv PROVE Joined'
<1>0. Undisturbed /\ dead = {} /\ Alone /\ CallsOK /\ Joined /\ ListsOK /\ AsksOK'
  BY UndisturbedStep, StepWays DEF FloodInv, FloodOK, DInv, LinksOK, WaysOK
<1> SUFFICES ASSUME NEW l \in Links, NEW S \in SUBSET Nodes, l[1] \in S, l[2] \notin S
             PROVE  \E a \in S \cap Nodes, b \in Nodes \ S : Left(a, b)' > 0
  BY DEF Joined, Crossed
<1>1. PICK a \in S \cap Nodes, b \in Nodes \ S : Left(a, b) > 0
  BY <1>0 DEF Joined, Crossed
<1>2. Left(a, b) \in Nat
  BY <1>0, LeftNat
<1>3. CASE AllLeft
  BY <1>1, <1>3 DEF AllLeft
<1>4. ASSUME NEW m \in Nodes, NEW n \in Nodes, Made(m, n) PROVE Left(a, b)' > 0
  <2>1. Left(a, b)' = IF {a, b} = {m, n} THEN Left(a, b) + 1 ELSE Left(a, b)
    BY <1>4 DEF Made
  <2> QED BY <1>1, <1>2, <2>1
<1>5. ASSUME NEW m \in Nodes, NEW n \in Nodes, AlreadyAsked(m, n), Cut(m, n)
      PROVE  \E c \in S \cap Nodes, d \in Nodes \ S : Left(c, d)' > 0
  <2>1. CASE {a, b} # {m, n}
    <3>1. Left(a, b)' = Left(a, b)
      BY <1>5, <2>1 DEF Cut
    <3> QED BY <1>1, <3>1
  <2>2. CASE {a, b} = {m, n}
    <3>0. PICK s \in Searches \ Ends : s = Head(asks[m][n]).s
      BY <1>5, AskedTakes
    <3>1. Head(asks[m][n]) \in Way(m, n) /\ n \in Knows(s)
      BY <1>5, <3>0, AskedTakes DEF Knows
    <3>2. OnItsWay(s)
      BY <1>0, <3>0, <3>1, OnlyFlood
    <3>3. Tree(s) /\ NotSent(s)
      BY <1>0, <3>1, <3>2 DEF FloodInv, FloodOK
    <3>4. m \in Knows(s)
      BY <3>1, <3>3 DEF Tree
    <3>5. Tree(s)'
      BY <1>0, <1>5, <3>0, <3>3, TreeAsked
    <3>6. Knows(s)' = Knows(s)
      BY <1>5 DEF AlreadyAsked, Knows
    <3> DEFINE K == Knows(s)
    <3>7. K \cap S # {} /\ K \ S # {} /\ K \subseteq Nodes
      BY <1>1, <2>2, <3>1, <3>4 DEF Knows
    <3>8. Spans(K)'
      BY <3>5 DEF Tree
    <3> HIDE DEF K
    <3>9. PICK c \in K \cap S, d \in K \ S : Safe(c, d)'
      BY <3>6, <3>7, <3>8 DEF Spans, K
    <3>10. c \in S \cap Nodes /\ d \in Nodes \ S
      BY <3>7, <3>9
    <3>11. Left(c, d)' > 0
      <4>1. Len(asks'[c][d]) \in Nat /\ Len(asks'[d][c]) \in Nat
        BY <1>0, <3>10, LenProperties DEF AsksOK
      <4>2. Left(c, d)' > Len(asks'[c][d]) + Len(asks'[d][c])
        BY <3>9 DEF Safe
      <4>3. Left(c, d)' \in Nat
        <5>1. Left(c, d)' = IF {c, d} = {m, n} THEN Fewer(Left(c, d)) ELSE Left(c, d)
          BY <1>5, <3>10 DEF Cut
        <5>2. Left(c, d) \in Nat
          BY <1>0, <3>10, LeftNat
        <5> QED BY <5>1, <5>2 DEF Fewer
      <4>4. \A x, y, z \in Nat : z > x + y => z > 0
        OBVIOUS
      <4> QED BY <4>1, <4>2, <4>3, <4>4
    <3> QED BY <3>10, <3>11
  <2> QED BY <2>1, <2>2
<1> QED BY <1>1, <1>3, <1>4, <1>5, LeftStep

(* The calls are counted.                                                  *)
LEMMA CallsStep ==
  ASSUME [Next]_vars, CallsOK PROVE CallsOK'
<1>1. CASE UNCHANGED jobmgr
  BY <1>1 DEF CallsOK
<1>2. ASSUME NEW j, jobmgr' = jobmgr (+) SetToBag({j}) PROVE CallsOK'
  BY <1>2, CopiesAdd DEF CallsOK
<1>3. ASSUME NEW j \in BagToSet(jobmgr), JobMgrStep(j) PROVE CallsOK'
  BY <1>3, CopiesDrop DEF CallsOK, JobMgrStep
<1>4. ASSUME NEW m \in Nodes, NEW n \in Nodes, AlreadyAsked(m, n) PROVE CallsOK'
  BY <1>1, <1>2, <1>4 DEF AlreadyAsked
<1>5. ASSUME NEW l \in Parents, SelfRegister(l[1], l[2]) PROVE CallsOK'
  BY <1>2, <1>5 DEF SelfRegister
<1> QED BY <1>1, <1>3, <1>4, <1>5, ListsWriters

(* Each step keeps all of this, ...                                        *)
LEMMA FloodInvStep ==
  ASSUME DiscoveryAssumption, DInv, [Next]_vars, FloodInv, MaxReqToSave > 0 PROVE FloodInv'
<1>1. Unstarted'
  BY UnstartedStep DEF FloodInv
<1>2. ASSUME Undisturbed' PROVE FloodOK'
  <2>1. Alone' /\ Balanced' /\ Joined'
    BY <1>2, AloneStep, BalancedStep, JoinedStep
  <2>2. \A s \in Searches : OnItsWay(s)' => NotSent(s)'
    BY <1>2, NotSentStep
  <2>3. \A s \in Searches \ Ends : OnItsWay(s)' => Tree(s)'
    BY <1>2, TreeStep
  <2> QED BY <2>1, <2>2, <2>3 DEF FloodOK
<1>3. CallsOK'
  BY CallsStep DEF FloodInv
<1> QED BY <1>1, <1>2, <1>3 DEF FloodInv

(* ... which holds at the start.                                           *)
LEMMA FloodInvInit == ASSUME DiscoveryAssumption, Init PROVE FloodInv
<1>1. Unstarted
  BY OnceInvInit DEF OnceInv
<1>2. BagToSet(jobmgr) = {} /\ CallsOK
  BY DEF Init, EmptyBag, SetToBag, BagToSet, CallsOK, Counted
<1>3. \A o : ~Called(o)
  BY <1>2 DEF Called
<1>4. \A s \in Searches : ~OnItsWay(s)
  <2>1. \A m, n \in Nodes : Way(m, n) = {}
    BY DEF Init, Way, ToSet
  <2> QED BY <2>1, OnItsWayIs DEF Init
<1>5. Alone
  BY <1>3, <1>4 DEF Alone
<1>6. \A n, m \in Nodes : Left(n, m) = IF <<n, m>> \in Links THEN 1 ELSE 0
  <2>1. \A n, m \in Nodes : Joins(n, m) = 0 /\ Cuts(n, m) = 0
    BY <1>2 DEF Joins, Cuts, Copies
  <2>2. \A n, m \in Nodes : neighborsList[n][m] = IF <<n, m>> \in Links THEN 1 ELSE 0
    BY DEF Init
  <2>3. ASSUME NEW n \in Nodes, NEW m \in Nodes PROVE Left(n, m) = IF <<n, m>> \in Links THEN 1 ELSE 0
    BY <2>1, <2>2 DEF Left
  <2> QED BY <2>3
<1>7. \A n, m \in Nodes : <<n, m>> \in Links <=> <<m, n>> \in Links
  BY DEF DiscoveryAssumption
<1>8. Balanced
  BY <1>6, <1>7 DEF Balanced
<1>9. Joined
  <2> SUFFICES ASSUME NEW l \in Links, NEW S \in SUBSET Nodes, l[1] \in S, l[2] \notin S PROVE Crossed(S)
    BY DEF Joined
  <2>1. l[1] \in Nodes /\ l[2] \in Nodes /\ <<l[1], l[2]>> = l
    BY DEF DiscoveryAssumption
  <2>2. Left(l[1], l[2]) = 1
    BY <1>6, <2>1
  <2> QED BY <2>1, <2>2 DEF Crossed
<1> QED BY <1>1, <1>2, <1>4, <1>5, <1>8, <1>9 DEF FloodInv, FloodOK

(* The links that are left when a flood that met no other is over still    *)
(* lead wherever they led at the start, and both ends of a link know of it *)
(* (popc_search_node.cc:294-297), if the nodes remember any request.       *)
THEOREM LinksRemain == ASSUME MaxReqToSave > 0 PROVE Spec => []LinksSuffice
<1> USE DiscoveryAssumption
<1>1. Init => FloodInv
  BY FloodInvInit
<1>2. DInv /\ FloodInv /\ [Next]_vars => FloodInv'
  BY FloodInvStep
<1>3. DInv /\ FloodInv => LinksSuffice
  <2> SUFFICES ASSUME DInv, FloodInv, Undisturbed, ~Flooding, ~Called("RegisterNode") PROVE
      /\ \A n, m \in Nodes : neighborsList[n][m] = neighborsList[m][n]
      /\ \A l \in Links : \A S \in SUBSET Nodes :
           l[1] \in S /\ l[2] \notin S => \E k \in Linked : k[1] \in S /\ k[2] \notin S
    BY DEF LinksSuffice
  <2>1. \A n, m \in Nodes : Left(n, m) = neighborsList[n][m]
    <3>1. ASSUME NEW n \in Nodes, NEW m \in Nodes PROVE Left(n, m) = neighborsList[n][m]
      <4>1. neighborsList[n][m] \in Nat
        BY DEF DInv, LinksOK, ListsOK
      <4>2. Cuts(n, m) = 0 /\ Joins(n, m) = 0
        BY NoCalls DEF Flooding
      <4> QED BY <4>1, <4>2 DEF Left
    <3> QED BY <3>1
  <2>2. Balanced /\ Joined
    BY DEF FloodInv, FloodOK
  <2>3. \A n, m \in Nodes : neighborsList[n][m] = neighborsList[m][n]
    BY <2>1, <2>2 DEF Balanced
  <2>4. ASSUME NEW l \in Links, NEW S \in SUBSET Nodes, l[1] \in S, l[2] \notin S
        PROVE  \E k \in Linked : k[1] \in S /\ k[2] \notin S
    <3>1. PICK a \in S \cap Nodes, b \in Nodes \ S : Left(a, b) > 0
      BY <2>2, <2>4 DEF Joined, Crossed
    <3>2. <<a, b>> \in Linked /\ <<a, b>>[1] = a /\ <<a, b>>[2] = b
      BY <2>1, <3>1 DEF Linked
    <3> QED BY <3>1, <3>2
  <2> QED BY <2>3, <2>4
<1> QED BY <1>1, <1>2, <1>3, DInvAlways, PTL DEF Spec

-----------------------------------------------------------------------------
(* The responses find their way home.                                      *)
(* The way back ends at the origin.                                        *)
Home(j) == IF j.wb = <<>> THEN j.at = Origin[j.s] ELSE Head(j.wb) = Origin[j.s]
MailHome == Counted(mail) /\ \A j \in BagToSet(mail) : Home(j)

(* A way back without its last node begins where it began.                 *)
LEMMA FrontHead ==
  ASSUME NEW w \in Seq(Nodes), w # <<>>
  PROVE  /\ Len(w) <= 1 => Front(w) = <<>> /\ Last(w) = Head(w)
         /\ Len(w) > 1 => Front(w) # <<>> /\ Head(Front(w)) = Head(w)
<1>1. PICK f \in Seq(Nodes), e \in Nodes : w = Append(f, e)
  BY SequenceEmptyOrAppend
<1>2. Front(w) = f /\ Last(w) = e
  BY <1>1, AppendProperties, AppendInjective, LenProperties DEF Front, Last
<1>3. /\ Len(w) = Len(f) + 1 /\ Len(f) \in Nat
      /\ \A i \in 1..Len(f) : w[i] = f[i]
      /\ w[Len(f) + 1] = e /\ Head(w) = w[1]
  BY <1>1, AppendProperties, LenProperties, HeadTailProperties
<1>4. CASE Len(f) = 0
  BY <1>2, <1>3, <1>4, EmptySeq
<1>5. CASE Len(f) > 0
  <2>1. f # <<>> /\ Head(f) = f[1] /\ w[1] = f[1]
    BY <1>3, <1>5, EmptySeq, HeadTailProperties
  <2> QED BY <1>2, <1>3, <1>5, <2>1
<1> QED BY <1>3, <1>4, <1>5

(* One that is sent does, ...                                              *)
LEMMA SentHome ==
  ASSUME DiscoveryAssumption, NEW s \in Searches, NEW n \in Nodes, NEW wb \in Seq(Nodes),
         wb = <<>> \/ Head(wb) = Origin[s], Respond(s, n, wb), MailHome
  PROVE  /\ MailHome'
         /\ s \notin Ends /\ n \in fitting => \E j \in BagToSet(mail') : j.s = s /\ j.node = n
         /\ BagToSet(mail) \subseteq BagToSet(mail')
<1> DEFINE j == Response(s, n, wb)
<1>1. j.s = s /\ j.node = n /\ Home(j)
  <2>1. CASE Len(wb) <= 1
    BY <2>1 DEF Response, Home
  <2>2. CASE ~(Len(wb) <= 1)
    <3>1. wb # <<>> /\ Len(wb) > 1
      BY <2>2, EmptySeq, LenProperties
    <3>2. Front(wb) # <<>> /\ Head(Front(wb)) = Origin[s]
      BY <3>1, FrontHead
    <3> QED BY <2>2, <3>2 DEF Response, Home
  <2> QED BY <2>1, <2>2
<1> HIDE DEF j
<1>2. CASE s \notin Ends /\ n \in fitting
  <2>1. mail' = mail (+) SetToBag({j})
    BY <1>2 DEF Respond, j
  <2>2. BagToSet(mail') = BagToSet(mail) \cup {j}
    BY <2>1, BagAdds
  <2>3. Counted(mail')
    BY <2>1, CopiesAdd DEF MailHome
  <2> QED BY <1>1, <2>2, <2>3 DEF MailHome, Home
<1>3. CASE ~(s \notin Ends /\ n \in fitting)
  <2>1. mail' = mail
    BY <1>3 DEF Respond
  <2> QED BY <1>3, <2>1 DEF MailHome, Home
<1> QED BY <1>2, <1>3

(* ... and so does one that is passed on.                                  *)
LEMMA ReroutedHome ==
  ASSUME DInv, MailHome, NEW m \in BagToSet(mail), rerouteResponse(m)
  PROVE  /\ MailHome'
         /\ \E j \in BagToSet(mail') : j.s = m.s /\ j.node = m.node
         /\ \A i \in BagToSet(mail) : i # m => i \in BagToSet(mail')
<1> DEFINE j == [m EXCEPT !.at = Last(m.wb), !.wb = Front(m.wb)]
           rest == mail (-) SetToBag({m})
<1>1. m \in Responses /\ m.wb # <<>> /\ m.wb \in Seq(Nodes) /\ Home(m)
  BY DEF DInv, MailOK, rerouteResponse, MailHome, Responses
<1>2. j.s = m.s /\ j.node = m.node /\ j.at = Last(m.wb) /\ j.wb = Front(m.wb)
  BY <1>1 DEF Responses
<1>3. mail' = rest (+) SetToBag({j})
  BY DEF rerouteResponse
<1> HIDE DEF j
<1>4. Home(j)
  <2> DEFINE w == m.wb
  <2>1. w \in Seq(Nodes) /\ w # <<>> /\ Head(w) = Origin[m.s]
    BY <1>1 DEF Home
  <2>2. j.s = m.s /\ j.at = Last(w) /\ j.wb = Front(w)
    BY <1>2
  <2> HIDE DEF w
  <2>3. Len(w) \in Nat
    BY <2>1, LenProperties
  <2> QED BY <2>1, <2>2, <2>3, FrontHead DEF Home
<1>5. /\ BagToSet(rest) \subseteq BagToSet(mail) /\ Counted(rest)
      /\ \A i \in BagToSet(mail) : i # m => i \in BagToSet(rest)
  <2>1. Counted(rest)
    BY CopiesDrop DEF MailHome
  <2>2. \A i \in BagToSet(mail) : mail[i] > 0
    BY DEF MailHome, Counted
  <2> QED BY <2>1, <2>2, BagDrops
<1> HIDE DEF rest
<1>6. BagToSet(mail') = BagToSet(rest) \cup {j} /\ Counted(mail')
  BY <1>3, <1>5, BagAdds, CopiesAdd
<1> QED BY <1>2, <1>4, <1>5, <1>6 DEF MailHome, Home

(* Each response is on its way home.                                       *)
LEMMA MailHomeStep ==
  ASSUME DiscoveryAssumption, DInv, [Next]_vars, MailHome PROVE MailHome'
<1>1. ASSUME UNCHANGED mail PROVE MailHome'
  BY <1>1 DEF MailHome, Home
<1>2. ASSUME NEW s \in Searches, Launch(s) PROVE MailHome'
  <2>1. Origin[s] \in Nodes /\ <<>> \in Seq(Nodes)
    BY EmptySeq DEF DiscoveryAssumption
  <2>2. UNCHANGED mail \/ Respond(s, Origin[s], <<>>)
    BY <1>2 DEF Launch
  <2> QED BY <1>1, <2>1, <2>2, SentHome
<1>3. ASSUME NEW m \in Nodes, NEW n \in Nodes, Visit(m, n) PROVE MailHome'
  <2> DEFINE r == Head(asks[m][n])
  <2>1. r \in Requests /\ r \in Way(m, n)
    BY <1>3, TakenAway DEF Visit, DInv, WaysOK
  <2>2. UNCHANGED mail \/ Respond(r.s, n, r.wb)
    BY <1>3 DEF Visit
  <2> HIDE DEF r
  <2>3. r.s \in Searches /\ r.wb \in Seq(Nodes) /\ (r.s \notin Ends => Head(r.wb) = Origin[r.s])
    BY <2>1 DEF Requests, DInv, WaysOK, Travels
  <2>4. CASE r.s \in Ends
    BY <1>1, <2>2, <2>4 DEF Respond
  <2>5. CASE r.s \notin Ends
    BY <1>1, <2>2, <2>3, <2>5, SentHome
  <2> QED BY <2>4, <2>5
<1>4. ASSUME NEW m \in BagToSet(mail), rerouteResponse(m) PROVE MailHome'
  BY <1>4, ReroutedHome
<1>5. ASSUME NEW m \in BagToSet(mail), callbackResult(m) PROVE MailHome'
  <2>1. mail' = mail (-) SetToBag({m})
    BY <1>5 DEF callbackResult
  <2>2. BagToSet(mail') \subseteq BagToSet(mail)
    BY <2>1, BagDrops
  <2>3. Counted(mail')
    BY <2>1, CopiesDrop DEF MailHome
  <2> QED BY <2>2, <2>3 DEF MailHome, Home
<1> QED BY <1>1, <1>2, <1>3, <1>4, <1>5, MailWriters

(* No answer is lost while its request has a place for it.                 *)
LEMMA AnswersStay ==
  ASSUME DiscoveryAssumption, DInv, [Next]_vars, MailHome, NEW s \in Searches, ~Launch(s), actualReq'[s] # None
  PROVE  actualReq[s] # None /\ Answers(s) \subseteq Answers(s)'
<1>0. actualReq \in [Searches -> {None} \cup Seq(Nodes)]
  BY DEF DInv, AnswersOK
<1>c. ASSUME NEW m \in BagToSet(mail), callbackResult(m)
      PROVE  actualReq[s] # None /\ Answers(s) \subseteq Answers(s)'
  <2>1. /\ actualReq[s] # None
        /\ \/ actualReq'[s] = actualReq[s]
           \/ s = m.s /\ ToSet(actualReq'[s]) = ToSet(actualReq[s]) \cup {m.node}
    BY <1>c, Collects
  <2>2. m.s = s => m.node \in ToSet(actualReq'[s])
    <3>1. m.at = Origin[m.s]
      BY <1>c DEF MailHome, Home, callbackResult
    <3>2. m.s = s => actualReq'[s] = Append(actualReq[s], m.node)
      BY <1>c, <2>1, <3>1 DEF callbackResult
    <3>3. actualReq[s] \in Seq(Nodes) /\ m.node \in Nodes
      BY <1>0, <2>1 DEF DInv, MailOK, Responses
    <3>4. m.node \in ToSet(Append(actualReq[s], m.node))
      BY <3>3, AppendSet
    <3> QED BY <3>2, <3>4
  <2>3. \A i \in BagToSet(mail) : i # m => i \in BagToSet(mail')
    <3>1. \A i \in BagToSet(mail) : mail[i] > 0
      BY DEF MailHome, Counted
    <3> QED BY <1>c, <3>1, BagDrops DEF callbackResult
  <2>4. ToSet(actualReq[s]) \subseteq ToSet(actualReq'[s])
    BY <2>1
  <2> QED BY <2>1, <2>2, <2>3, <2>4 DEF Answers
<1>m. ASSUME \A m \in BagToSet(mail) : ~callbackResult(m)
      PROVE  \A i \in BagToSet(mail) : \E j \in BagToSet(mail') : j.s = i.s /\ j.node = i.node
  <2>1. CASE UNCHANGED mail
    BY <2>1
  <2>2. ASSUME NEW q \in Searches, Launch(q) PROVE BagToSet(mail) \subseteq BagToSet(mail')
    <3>1. Origin[q] \in Nodes /\ <<>> \in Seq(Nodes)
      BY EmptySeq DEF DiscoveryAssumption
    <3>2. UNCHANGED mail \/ Respond(q, Origin[q], <<>>)
      BY <2>2 DEF Launch
    <3> QED BY <3>1, <3>2, SentHome
  <2>3. ASSUME NEW m \in Nodes, NEW n \in Nodes, Visit(m, n) PROVE BagToSet(mail) \subseteq BagToSet(mail')
    <3> DEFINE r == Head(asks[m][n])
    <3>1. r \in Requests /\ r \in Way(m, n)
      BY <2>3, TakenAway DEF Visit, DInv, WaysOK
    <3>2. UNCHANGED mail \/ Respond(r.s, n, r.wb)
      BY <2>3 DEF Visit
    <3> HIDE DEF r
    <3>3. r.s \in Searches /\ r.wb \in Seq(Nodes) /\ (r.s \notin Ends => Head(r.wb) = Origin[r.s])
      BY <3>1 DEF Requests, DInv, WaysOK, Travels
    <3>4. CASE r.s \in Ends
      BY <3>2, <3>4 DEF Respond
    <3>5. CASE r.s \notin Ends
      BY <3>2, <3>3, <3>5, SentHome
    <3> QED BY <3>4, <3>5
  <2>4. ASSUME NEW m \in BagToSet(mail), rerouteResponse(m), NEW i \in BagToSet(mail)
        PROVE  \E j \in BagToSet(mail') : j.s = i.s /\ j.node = i.node
    BY <2>4, ReroutedHome
  <2> QED BY <1>m, <2>1, <2>2, <2>3, <2>4, MailWriters
<1>r. ASSUME \A m \in BagToSet(mail) : ~callbackResult(m)
      PROVE  actualReq'[s] = actualReq[s]
  <2>1. CASE UNCHANGED <<actualReq, found>>
    BY <2>1
  <2>2. ASSUME NEW q \in Searches, Launch(q) PROVE actualReq'[s] = actualReq[s]
    <3>1. actualReq' = [actualReq EXCEPT ![q] = <<>>] /\ q # s
      BY <2>2 DEF Launch
    <3> QED BY <1>0, <3>1
  <2>3. ASSUME NEW q \in Searches, Woken(q) \/ SleptEnough(q) PROVE actualReq'[s] = actualReq[s]
    <3>1. actualReq' = [actualReq EXCEPT ![q] = None]
      BY <2>3 DEF Woken, SleptEnough, Collect
    <3> QED BY <1>0, <3>1
  <2> QED BY <1>r, <2>1, <2>2, <2>3, AnswerWriters
<1>1. CASE \E m \in BagToSet(mail) : callbackResult(m)
  BY <1>1, <1>c
<1>2. CASE \A m \in BagToSet(mail) : ~callbackResult(m)
  BY <1>2, <1>m, <1>r DEF Answers
<1> QED BY <1>1, <1>2

-----------------------------------------------------------------------------
(* A flood that meets no other leaves nobody out.                          *)
(* The nodes that a request has visited, and those that it is sent to.     *)
Visited(s) == IF s \in Ends THEN ended[s] ELSE Knows(s)
Seen(s)    == Visited(s) \cup {n \in Nodes : \E m \in Nodes : Way(m, n) # {}}

(* It may go as far as there are nodes that it has not visited.            *)
Plenty(hops, S) == hops = UnlimitedHops \/ hops >= Cardinality(Nodes \ S)

Covers(s, r) ==
  /\ DOMAIN r.el \subseteq Visited(s) /\ \A k \in DOMAIN r.el : r.el[k] \subseteq Seen(s)
  /\ Plenty(r.hops, DOMAIN r.el)

(* Before its neighbours are told, the origin alone was visited; then the  *)
(* neighbours of every node that was visited were, or soon will be.        *)
Begun(s)    == phase[s] = "listed" =>
                 /\ Visited(s) \subseteq {Origin[s]} /\ listed[s] \subseteq NeighborsOf(Origin[s])
                 /\ BagToSet(jobmgr) = {}
Reaching(s) == phase[s] # "listed" =>
                 Origin[s] \in Visited(s) /\ \A n \in Visited(s) : NeighborsOf(n) \subseteq Seen(s)
Carries(s)  == \A m, n \in Nodes : \A r \in Way(m, n) : Covers(s, r)
Heard(s)    == s \notin Ends /\ actualReq[s] # None => Visited(s) \cap fitting \subseteq Answers(s)

Cover(s) == Begun(s) /\ Reaching(s) /\ Carries(s) /\ Heard(s)
Unended  == \A s \in Searches : phase[s] = "idle" => ended[s] = {}
CoverInv == Undisturbed => \A s \in Searches : OnItsWay(s) /\ Wide(s) => Cover(s)

(* One hop less for one node more.                                         *)
LEMMA PlentyOn ==
  ASSUME DiscoveryAssumption, IsFiniteSet(Nodes), NEW h \in Int, NEW S \in SUBSET Nodes, NEW n \in Nodes \ S,
         Plenty(h, S)
  PROVE  MayPropagate(Decremented(h)) /\ Plenty(Decremented(h), S \cup {n})
<1>1. IsFiniteSet(Nodes \ S) /\ Cardinality(Nodes \ S) \in Nat
  BY FS_Difference, FS_CardinalityType
<1>2. Cardinality((Nodes \ S) \ {n}) = Cardinality(Nodes \ S) - 1 /\ Cardinality((Nodes \ S) \ {n}) \in Nat
  BY <1>1, FS_RemoveElement, FS_CardinalityType
<1>3. Nodes \ (S \cup {n}) = (Nodes \ S) \ {n}
  OBVIOUS
<1>5. CASE h = UnlimitedHops
  BY <1>5 DEF Decremented, MayPropagate, Plenty
<1>6. CASE h # UnlimitedHops
  <2>1. Decremented(h) = h - 1 /\ h >= Cardinality(Nodes \ S)
    BY <1>6 DEF Decremented, Plenty
  <2>2. \A c \in Int : h >= c /\ c - 1 \in Nat => h - 1 >= c - 1 /\ h - 1 >= 0
    OBVIOUS
  <2>3. h - 1 >= Cardinality((Nodes \ S) \ {n}) /\ h - 1 >= 0
    BY <1>1, <1>2, <2>1, <2>2
  <2> QED BY <1>3, <2>1, <2>3 DEF MayPropagate, Plenty
<1> QED BY <1>5, <1>6

(* A list that is new holds neighbours of its node.                        *)
LEMMA ListHolds ==
  ASSUME NEW el \in Lists, NEW n \in Nodes, NEW S \in SUBSET Nodes, NEW x \in addListNode(el, n, S)
  PROVE  \A k \in DOMAIN x : x[k] \subseteq (IF k \in DOMAIN el THEN el[k] ELSE S)
<1> DEFINE all == [y \in DOMAIN el \cup {n} |-> IF y \in DOMAIN el THEN el[y] ELSE S]
<1>1. \A y \in DOMAIN el \cup {n} : all[y] = IF y \in DOMAIN el THEN el[y] ELSE S
  OBVIOUS
<1>2. DOMAIN all = DOMAIN el \cup {n}
  OBVIOUS
<1> HIDE DEF all
<1>3. \/ x = all
      \/ \E k \in DOMAIN all : x = [all EXCEPT ![k] = {}]
  BY DEF addListNode, all
<1> QED BY <1>1, <1>2, <1>3

(* Nobody is told of an end before it comes.                               *)
LEMMA UnendedStep ==
  ASSUME DiscoveryAssumption, DInv, [Next]_vars, Unstarted, Unended PROVE Unended'
<1> SUFFICES ASSUME NEW s \in Searches, phase'[s] = "idle" PROVE ended'[s] = {}
  BY DEF Unended
<1>0. phase[s] = "idle" /\ ~ForwardFirst(s) /\ ended[s] = {} /\ ended \in [Searches -> SUBSET Nodes]
  BY Idle DEF Unended, DInv, EndedOK
<1>1. ASSUME NEW q \in Searches, q # s, NEW n, ApplicationEnd(q, n) \/ UNCHANGED ended PROVE ended'[s] = {}
  BY <1>0, <1>1 DEF ApplicationEnd
<1>2. ASSUME NEW q \in Searches, ForwardFirst(q) PROVE ended'[s] = {}
  <2>1. q # s
    BY <1>0, <1>2
  <2>2. ApplicationEnd(q, Origin[q]) \/ UNCHANGED ended
    BY <1>2 DEF ForwardFirst
  <2> QED BY <1>1, <2>1, <2>2
<1>3. ASSUME NEW m \in Nodes, NEW n \in Nodes, Visit(m, n) PROVE ended'[s] = {}
  <2> DEFINE r == Head(asks[m][n])
  <2>1. r \in Requests /\ r \in Way(m, n)
    BY <1>3, TakenAway DEF Visit, DInv, WaysOK
  <2>2. ApplicationEnd(r.s, n) \/ UNCHANGED ended
    BY <1>3 DEF Visit
  <2> HIDE DEF r
  <2>3. r.s \in Searches /\ r.s # s
    BY <1>0, <2>1 DEF Requests, Unstarted
  <2> QED BY <1>1, <2>2, <2>3
<1>4. \A q \in Searches : Launch(q) => UNCHANGED ended
  BY DEF Launch
<1>5. \A l \in Parents : SelfRegister(l[1], l[2]) => UNCHANGED ended
  BY DEF SelfRegister
<1> QED BY <1>0, <1>2, <1>3, <1>4, <1>5, EndedWriters

(* The nodes near to the origin of a request without limits are those that *)
(* the links lead to.                                                      *)
LEMMA NearClosed ==
  ASSUME DiscoveryAssumption, IsFiniteSet(Nodes), NEW s \in Searches, Wide(s)
  PROVE  /\ Near[s] \subseteq Nodes /\ Origin[s] \in Near[s]
         /\ \A l \in Links : l[1] \in Near[s] => l[2] \in Near[s]
<1> DEFINE c == Cardinality(Nodes)
<1>1. c \in Nat
  BY FS_CardinalityType
<1>2. Near[s] = Ball(s, c)
  BY <1>1, NearIs
<1> HIDE DEF c
<1>3. Ball(s, c) \subseteq Nodes
  BY <1>1, BallNodes
<1>4. Origin[s] \in Ball(s, c)
  BY <1>1, BallSteps, BallGrows
<1>5. Ball(s, c + 1) \subseteq Ball(s, c) /\ Ball(s, c + 1) = Around(Ball(s, c))
  <2>1. c + 1 \in Nat
    BY <1>1
  <2>2. Ball(s, c + 1) \subseteq Ball(s, Cardinality(Nodes))
    BY <2>1, BallFull
  <2>3. Ball(s, c + 1) = Around(Ball(s, c))
    BY <1>1, BallSteps
  <2> QED BY <2>2, <2>3 DEF c
<1> QED BY <1>2, <1>3, <1>4, <1>5 DEF Around

(* Any set that the links do not leave and that has the origin has them.   *)
LEMMA NearLeast ==
  ASSUME DiscoveryAssumption, IsFiniteSet(Nodes), NEW s \in Searches, Wide(s),
         NEW V, Origin[s] \in V, \A l \in Links : l[1] \in V => l[2] \in V
  PROVE  Near[s] \subseteq V
<1> DEFINE T == {i \in Nat : Ball(s, i) \subseteq V}
<1>1. 0 \in T
  BY BallSteps
<1>2. ASSUME NEW i \in T \cap Nat PROVE i + 1 \in T
  <2>1. Ball(s, i + 1) = Around(Ball(s, i))
    BY BallSteps
  <2> QED BY <2>1 DEF Around
<1> HIDE DEF T
<1>3. Nat \subseteq T
  BY <1>1, <1>2, SetInduction
<1>4. Cardinality(Nodes) \in Nat
  BY FS_CardinalityType
<1>5. Near[s] = Ball(s, Cardinality(Nodes))
  BY <1>4, NearIs
<1> QED BY <1>3, <1>4, <1>5 DEF T

-----------------------------------------------------------------------------
(* The cover, step by step.                                                *)
(* The requests on their way stay covered when more is.                    *)
LEMMA CoversMore ==
  ASSUME NEW s, NEW r, Covers(s, r), Visited(s) \subseteq Visited(s)', Seen(s) \subseteq Seen(s)'
  PROVE  /\ DOMAIN r.el \subseteq Visited(s)' /\ \A k \in DOMAIN r.el : r.el[k] \subseteq Seen(s)'
         /\ Plenty(r.hops, DOMAIN r.el)
BY DEF Covers

(* A visit tells all neighbours.                                           *)
LEMMA CoverVisit ==
  ASSUME DiscoveryAssumption, IsFiniteSet(Nodes), DInv, [Next]_vars, dead = {}, MailHome, MaxReqToSave > 0,
         NEW m \in Nodes, NEW n \in Nodes, Visit(m, n),
         NEW s \in Searches, s = Head(asks[m][n]).s, Cover(s), NotSent(s)
  PROVE  Cover(s)'
<1> DEFINE r == Head(asks[m][n])
<1>0. AsksOK /\ ListsOK /\ KnownOK /\ ended \in [Searches -> SUBSET Nodes]
  BY DEF DInv, WaysOK, LinksOK, EndedOK
<1>1. /\ m # n /\ r \in Requests /\ r \in Way(m, n) /\ \E f : Forwards(m, n, r, f)
      /\ Respond(s, n, r.wb) /\ ApplicationEnd(s, n)
  BY VisitSends
<1>2. PICK f : Forwards(m, n, r, f)
  BY <1>1
<1>3. phase' = phase /\ neighborsList' = neighborsList /\ actualReq' = actualReq /\ Remember(n, s)
  BY DEF Visit, worldVars
<1>t. asks[m][n] # <<>>
  BY DEF Visit
<1> HIDE DEF r
<1>r. /\ r.el \in Lists /\ r.hops \in Int /\ r.wb \in Seq(Nodes) /\ n \notin DOMAIN r.el
      /\ DOMAIN r.el \subseteq Nodes /\ Covers(s, r)
      /\ s \notin Ends => Head(r.wb) = Origin[s]
  <2>1. r.el \in Lists /\ r.hops \in Int /\ r.wb \in Seq(Nodes) /\ r.s = s
    BY <1>1 DEF Requests, r
  <2>2. Travels(m, n, r)
    BY <1>1 DEF DInv, WaysOK
  <2>3. DOMAIN r.el \subseteq Nodes
    BY <2>1 DEF Lists
  <2>4. Covers(s, r)
    BY <1>1 DEF Cover, Carries
  <2> QED BY <2>1, <2>2, <2>3, <2>4 DEF Travels
<1>4. phase[s] # "listed" /\ phase'[s] # "listed"
  BY <1>1, <1>3 DEF NotSent
<1>5. Visited(s)' = Visited(s) \cup {n}
  <2>1. CASE s \in Ends
    <3>1. ended'[s] = ended[s] \cup {n}
      BY <1>0, <1>1, <2>1 DEF ApplicationEnd
    <3> QED BY <2>1, <3>1 DEF Visited
  <2>2. CASE s \notin Ends
    <3>1. /\ \A k \in Nodes : k # n => knownRequests'[k] = knownRequests[k]
          /\ s \in ToSet(knownRequests'[n])
      BY <1>0, <1>3, <2>2, Remembers
    <3> QED BY <2>2, <3>1 DEF Visited, Knows
  <2> QED BY <2>1, <2>2
<1>6. ASSUME NEW b \in Nodes
      PROVE  Way(n, b)' = Way(n, b) \cup (IF Told(n, f, r.el, b) THEN {f} ELSE {})
  <2>1. Passed(n, f, r.el, asks[n], asks'[n]) /\ asks[n] \in [Nodes -> Seq(Requests)] /\ f \in Requests
    BY <1>0, <1>2 DEF Forwards, AsksOK
  <2>2. PassedAs(n, f, r.el, asks[n], asks'[n], b)
    BY <1>0, <2>1, PassedOn
  <2> QED BY <2>2 DEF Way, PassedAs
<1>7. ASSUME NEW a \in Nodes, NEW b \in Nodes, a # n
      PROVE  Way(a, b)' \subseteq Way(a, b) /\ (~(a = m /\ b = n) => Way(a, b)' = Way(a, b))
  <2>1. asks'[a][b] = IF a = m /\ b = n THEN Tail(asks[m][n]) ELSE asks[a][b]
    BY <1>2, <1>7 DEF Forwards, LeavesRows
  <2>2. CASE a = m /\ b = n
    <3>1. asks[m][n] \in Seq(Requests)
      BY <1>0 DEF AsksOK
    <3>2. ToSet(Tail(asks[m][n])) \subseteq ToSet(asks[m][n])
      BY <1>t, <3>1, TailSet
    <3> QED BY <2>1, <2>2, <3>2 DEF Way
  <2>3. CASE ~(a = m /\ b = n)
    BY <2>1, <2>3 DEF Way
  <2> QED BY <2>2, <2>3
<1>8. Visited(s) \subseteq Visited(s)' /\ Seen(s) \subseteq Seen(s)'
  <2>1. ASSUME NEW a \in Nodes, NEW b \in Nodes, Way(a, b) # {} PROVE b \in Seen(s)'
    <3>1. CASE a = m /\ b = n
      BY <1>5, <3>1 DEF Seen
    <3>2. CASE a = n
      BY <1>6, <2>1, <3>2 DEF Seen
    <3>3. CASE a # n /\ ~(a = m /\ b = n)
      BY <1>7, <2>1, <3>3 DEF Seen
    <3> QED BY <3>1, <3>2, <3>3
  <2>2. Visited(s)' \subseteq Seen(s)'
    BY DEF Seen
  <2> QED BY <1>5, <2>1, <2>2 DEF Seen
<1>9. f.el \in Lists /\ DOMAIN f.el = DOMAIN r.el \cup {n} /\ f.hops = Decremented(r.hops)
      /\ \A k \in DOMAIN f.el : f.el[k] \subseteq (IF k \in DOMAIN r.el THEN r.el[k] ELSE NeighborsOf(n))
  <2>1. NeighborsOf(n) \in SUBSET Nodes
    BY DEF NeighborsOf
  <2>2. f.el \in addListNode(r.el, n, NeighborsOf(n)) /\ f.hops = Decremented(r.hops)
    BY <1>2 DEF Forwards
  <2>3. r.el \in Lists
    BY <1>r
  <2>4. f.el \in Lists /\ DOMAIN f.el = DOMAIN r.el \cup {n}
    BY <2>1, <2>2, <2>3, ListAdds
  <2>5. \A k \in DOMAIN f.el : f.el[k] \subseteq (IF k \in DOMAIN r.el THEN r.el[k] ELSE NeighborsOf(n))
    BY <2>1, <2>2, <2>3, ListHolds
  <2> QED BY <2>2, <2>4, <2>5
<1>10. MayPropagate(f.hops) /\ Plenty(f.hops, DOMAIN f.el)
  <2> DEFINE S == DOMAIN r.el
             h == r.hops
  <2>1. S \in SUBSET Nodes /\ n \in Nodes \ S /\ h \in Int /\ Plenty(h, S)
    BY <1>r DEF Covers
  <2> HIDE DEF S, h
  <2>2. MayPropagate(Decremented(h)) /\ Plenty(Decremented(h), S \cup {n})
    BY <2>1, PlentyOn
  <2> QED BY <1>9, <2>2 DEF S, h
<1>11. NeighborsOf(n) \subseteq Seen(s)'
  <2> SUFFICES ASSUME NEW b \in NeighborsOf(n) PROVE b \in Seen(s)'
    OBVIOUS
  <2>0. b \in Nodes
    BY DEF NeighborsOf
  <2>1. CASE isIn(r.el, b)
    <3>1. b \in Seen(s)
      BY <1>r, <2>1 DEF isIn, Covers, Seen
    <3> QED BY <1>8, <3>1
  <2>2. CASE ~isIn(r.el, b)
    <3>1. Told(n, f, r.el, b)
      BY <1>10, <2>2 DEF Told
    <3>2. Way(n, b)' # {}
      BY <1>6, <2>0, <3>1
    <3> QED BY <2>0, <3>2 DEF Seen
  <2> QED BY <2>1, <2>2
<1>12. Reaching(s)'
  <2>1. \A x : NeighborsOf(x)' = NeighborsOf(x)
    BY <1>3 DEF NeighborsOf
  <2>2. Origin[s] \in Visited(s) /\ \A x \in Visited(s) : NeighborsOf(x) \subseteq Seen(s)
    BY <1>4 DEF Cover, Reaching
  <2>3. \A x \in Visited(s)' : NeighborsOf(x)' \subseteq Seen(s)'
    BY <1>5, <1>8, <1>11, <2>1, <2>2
  <2> QED BY <1>5, <2>2, <2>3 DEF Reaching
<1>13. ASSUME NEW a \in Nodes, NEW b \in Nodes, NEW q \in Way(a, b)' PROVE Covers(s, q)'
  <2>1. ASSUME q \in Way(a, b) PROVE Covers(s, q)'
    <3>1. Covers(s, q)
      BY <2>1 DEF Cover, Carries
    <3> QED BY <1>8, <3>1, CoversMore DEF Covers
  <2>2. CASE q = f
    <3>1. DOMAIN f.el \subseteq Visited(s)'
      BY <1>5, <1>9, <1>r DEF Covers
    <3>2. \A k \in DOMAIN f.el : f.el[k] \subseteq Seen(s)'
      BY <1>8, <1>9, <1>11, <1>r DEF Covers
    <3> QED BY <1>10, <2>2, <3>1, <3>2 DEF Covers
  <2> QED BY <1>6, <1>7, <1>13, <2>1, <2>2
<1>14. Heard(s)'
  <2> SUFFICES ASSUME s \notin Ends, actualReq'[s] # None, NEW x \in Visited(s)' \cap fitting'
               PROVE  x \in Answers(s)'
    BY DEF Heard
  <2>0. fitting' = fitting
    BY DEF Visit, worldVars
  <2>1. CASE x \in Visited(s)
    <3>1. ~Launch(s)
      BY <1>3 DEF Launch, DInv, LaunchOK
    <3>2. actualReq[s] # None /\ Answers(s) \subseteq Answers(s)'
      BY <3>1, AnswersStay
    <3> QED BY <2>0, <2>1, <3>2 DEF Cover, Heard
  <2>2. CASE x = n
    <3> DEFINE w == r.wb
    <3>1. w \in Seq(Nodes) /\ (w = <<>> \/ Head(w) = Origin[s]) /\ Respond(s, n, w) /\ n \in fitting
      BY <1>1, <1>r, <2>0, <2>2
    <3> HIDE DEF w
    <3>2. s \notin Ends /\ n \in fitting => \E j \in BagToSet(mail') : j.s = s /\ j.node = n
      BY <3>1, SentHome
    <3> QED BY <2>2, <3>1, <3>2 DEF Answers
  <2> QED BY <1>5, <2>1, <2>2
<1>15. Begun(s)' /\ Carries(s)'
  BY <1>4, <1>13 DEF Begun, Carries
<1> QED BY <1>12, <1>14, <1>15 DEF Cover

(* The origin tells all its neighbours.                                    *)
LEMMA CoverFirst ==
  ASSUME DiscoveryAssumption, IsFiniteSet(Nodes), DInv, [Next]_vars, dead = {}, MailHome,
         NEW s \in Searches, ForwardFirst(s), Wide(s), Cover(s), NotSent(s), s \notin Ends => Tree(s)
  PROVE  Cover(s)'
<1> DEFINE o == Origin[s]
<1>0. AsksOK /\ ListsOK /\ ended \in [Searches -> SUBSET Nodes] /\ listed[s] \in SUBSET Nodes
  BY DEF DInv, WaysOK, LinksOK, EndedOK, LaunchOK
<1>1. o \in Nodes /\ ApplicationEnd(s, o) /\ phase'[s] = "asked" /\ \E f : Starts(s, f)
  <2>1. o \in Nodes /\ ApplicationEnd(s, o) /\ phase' = [phase EXCEPT ![s] = "asked"] /\ \E f : Starts(s, f)
    BY FirstSends
  <2> QED BY <2>1 DEF DInv, LaunchOK
<1>2. PICK f : Starts(s, f)
  BY <1>1
<1>3. /\ phase[s] = "listed" /\ neighborsList' = neighborsList /\ actualReq' = actualReq
      /\ knownRequests' = knownRequests /\ mail' = mail /\ fitting' = fitting
  BY DEF ForwardFirst, worldVars
<1>4. \A a, b \in Nodes : Way(a, b) = {}
  BY <1>3 DEF NotSent
<1>5. Visited(s)' = {o} /\ Visited(s) \subseteq {o} /\ listed[s] \subseteq NeighborsOf(o)
  <2>1. Visited(s) \subseteq {o} /\ listed[s] \subseteq NeighborsOf(o)
    BY <1>3 DEF Cover, Begun
  <2>2. CASE s \in Ends
    <3>1. ended'[s] = ended[s] \cup {o}
      BY <1>0, <1>1, <2>2 DEF ApplicationEnd
    <3> QED BY <2>1, <2>2, <3>1 DEF Visited
  <2>3. CASE s \notin Ends
    <3>1. Knows(s) = {o}
      BY <1>3, <2>3 DEF Tree
    <3> QED BY <1>3, <2>1, <2>3, <3>1 DEF Visited, Knows
  <2> QED BY <2>1, <2>2, <2>3
<1>6. /\ f \in Requests /\ f.el \in Lists /\ DOMAIN f.el = {o}
      /\ f.hops = Decremented(Hops[s]) /\ \A k \in DOMAIN f.el : f.el[k] \subseteq listed[s]
  <2>1. f \in Requests /\ f.el \in addListNode(<<>>, o, listed[s]) /\ f.hops = Decremented(Hops[s])
    BY <1>2 DEF Starts
  <2>2. <<>> \in Lists /\ DOMAIN <<>> = {}
    BY NoList
  <2> HIDE DEF o
  <2>3. f.el \in Lists /\ DOMAIN f.el = DOMAIN <<>> \cup {o}
    BY <1>0, <1>1, <2>1, <2>2, ListAdds
  <2>4. \A k \in DOMAIN f.el : f.el[k] \subseteq (IF k \in DOMAIN <<>> THEN <<>>[k] ELSE listed[s])
    BY <1>0, <1>1, <2>1, <2>2, ListHolds
  <2> QED BY <2>1, <2>2, <2>3, <2>4
<1>7. MayPropagate(f.hops) /\ Plenty(f.hops, DOMAIN f.el)
  <2> DEFINE h == Hops[s]
             S == {}
  <2>1. h \in Int /\ o \in Nodes \ S /\ S \in SUBSET Nodes
    BY <1>1 DEF DiscoveryAssumption
  <2>2. Plenty(h, S)
    <3>1. Nodes \ S = Nodes
      OBVIOUS
    <3> QED BY <3>1 DEF Wide, Plenty
  <2> HIDE DEF h, S, o
  <2>3. MayPropagate(Decremented(h)) /\ Plenty(Decremented(h), S \cup {o})
    BY <2>1, <2>2, PlentyOn
  <2> QED BY <1>6, <2>3 DEF S, h
<1> HIDE DEF o
<1>8. ASSUME NEW b \in Nodes
      PROVE  Way(o, b)' = IF b \in NeighborsOf(o) THEN {f} ELSE {}
  <2>1. Passed(o, f, <<>>, asks[o], asks'[o]) /\ asks[o] \in [Nodes -> Seq(Requests)]
    BY <1>0, <1>1, <1>2 DEF Starts, AsksOK, o
  <2>2. PassedAs(o, f, <<>>, asks[o], asks'[o], b)
    BY <1>0, <1>1, <1>6, <2>1, PassedOn
  <2>3. ToSet(asks[o][b]) = {}
    BY <1>1, <1>4 DEF Way
  <2>4. Told(o, f, <<>>, b) <=> b \in NeighborsOf(o)
    BY <1>7, NoList DEF Told
  <2> QED BY <2>2, <2>3, <2>4 DEF Way, PassedAs
<1>9. ASSUME NEW a \in Nodes, NEW b \in Nodes, a # o PROVE Way(a, b)' = {}
  <2>1. asks'[a][b] = asks[a][b]
    BY <1>2, <1>9 DEF Starts, KeepsRows, o
  <2>2. Way(a, b)' = Way(a, b)
    BY <2>1 DEF Way
  <2> QED BY <1>4, <2>2
<1>10. NeighborsOf(o) \subseteq Seen(s)' /\ NeighborsOf(o)' = NeighborsOf(o)
  <2>1. \A b \in NeighborsOf(o) : b \in Nodes /\ Way(o, b)' # {}
    BY <1>8 DEF NeighborsOf
  <2> QED BY <1>1, <1>3, <2>1 DEF Seen, NeighborsOf
<1>11. Reaching(s)'
  BY <1>5, <1>10 DEF Reaching, o
<1>12. Carries(s)'
  <2> SUFFICES ASSUME NEW a \in Nodes, NEW b \in Nodes, NEW r \in Way(a, b)' PROVE Covers(s, r)'
    BY DEF Carries
  <2>1. r = f
    BY <1>8, <1>9
  <2>2. DOMAIN f.el \subseteq Visited(s)' /\ \A k \in DOMAIN f.el : f.el[k] \subseteq Seen(s)'
    BY <1>5, <1>6, <1>10
  <2> QED BY <1>7, <2>1, <2>2 DEF Covers
<1>13. Heard(s)'
  <2>1. Answers(s)' = Answers(s)
    BY <1>3 DEF Answers
  <2>2. s \notin Ends => Visited(s)' = Visited(s)
    BY <1>3 DEF Visited, Knows
  <2> QED BY <1>3, <2>1, <2>2 DEF Cover, Heard
<1>14. Begun(s)'
  BY <1>1 DEF Begun
<1> QED BY <1>11, <1>12, <1>13, <1>14 DEF Cover

(* When the lists and the ways only get shorter, it is kept.               *)
LEMMA CoverLess ==
  ASSUME DInv, [Next]_vars, dead = {}, dead' = {}, MailHome, DiscoveryAssumption,
         NEW s \in Searches, ~Launch(s), Cover(s), phase[s] # "listed", phase'[s] # "listed",
         knownRequests' = knownRequests, ended' = ended, fitting' = fitting,
         \A n, m \in Nodes : neighborsList'[n][m] > 0 => neighborsList[n][m] > 0,
         \A a, b \in Nodes : Way(a, b)' \subseteq Way(a, b) /\ (Way(a, b) # {} => b \in Seen(s)')
  PROVE  Cover(s)'
<1>1. Visited(s)' = Visited(s)
  BY DEF Visited, Knows
<1>2. Seen(s) \subseteq Seen(s)'
  BY <1>1 DEF Seen
<1>3. Reaching(s)'
  <2>1. ASSUME NEW n \in Visited(s), NEW m \in NeighborsOf(n)' PROVE m \in Seen(s)'
    <3>1. n \in Nodes
      BY <2>1 DEF Visited, Knows, DInv, EndedOK
    <3>2. m \in NeighborsOf(n)
      BY <2>1, <3>1 DEF NeighborsOf
    <3> QED BY <1>2, <3>2 DEF Cover, Reaching
  <2> QED BY <1>1, <2>1 DEF Cover, Reaching
<1>4. Carries(s)'
  <2> SUFFICES ASSUME NEW a \in Nodes, NEW b \in Nodes, NEW r \in Way(a, b)' PROVE Covers(s, r)'
    BY DEF Carries
  <2>1. Covers(s, r)
    BY DEF Cover, Carries
  <2> QED BY <1>1, <1>2, <2>1, CoversMore DEF Covers
<1>5. Heard(s)'
  <2> SUFFICES ASSUME s \notin Ends, actualReq'[s] # None PROVE Visited(s) \cap fitting \subseteq Answers(s)'
    BY <1>1 DEF Heard
  <2>1. actualReq[s] # None /\ Answers(s) \subseteq Answers(s)'
    BY AnswersStay
  <2> QED BY <2>1 DEF Cover, Heard
<1> QED BY <1>3, <1>4, <1>5 DEF Cover, Begun

(* A request that came before is known, and cuts a link.                   *)
LEMMA CoverAsked ==
  ASSUME DiscoveryAssumption, DInv, [Next]_vars, dead = {}, dead' = {}, MailHome,
         NEW m \in Nodes, NEW n \in Nodes, AlreadyAsked(m, n),
         NEW s \in Searches, s = Head(asks[m][n]).s, Cover(s), NotSent(s)
  PROVE  Cover(s)'
<1>0. AsksOK /\ ListsOK /\ phase \in [Searches -> Phases]
  BY DEF DInv, WaysOK, LinksOK, LaunchOK
<1>1. /\ \A a, b \in Nodes : ~(a = m /\ b = n) => asks'[a][b] = asks[a][b]
      /\ Head(asks[m][n]) \in Way(m, n) /\ s \notin Ends /\ n \in Knows(s)
  BY AskedTakes DEF Knows
<1>2. /\ phase' = phase /\ knownRequests' = knownRequests /\ ended' = ended /\ fitting' = fitting
      /\ neighborsList' = removeNeighbor(n, m) /\ asks' = Taken(m, n) /\ asks[m][n] # <<>>
  BY DEF AlreadyAsked, worldVars
<1>3. phase[s] # "listed" /\ phase'[s] # "listed"
  BY <1>1, <1>2 DEF NotSent
<1>4. ~Launch(s)
  <2>1. Launch(s) => phase'[s] # phase[s]
    BY <1>0 DEF Launch
  <2> QED BY <1>2, <2>1
<1>5. \A a, b \in Nodes : neighborsList'[a][b] > 0 => neighborsList[a][b] > 0
  <2>1. ASSUME NEW a \in Nodes, NEW b \in Nodes
        PROVE  neighborsList'[a][b] = IF a = n /\ b = m
                 THEN (IF neighborsList[n][m] = 0 THEN 0 ELSE neighborsList[n][m] - 1) ELSE neighborsList[a][b]
    BY <1>0, <1>2 DEF removeNeighbor, ListsOK
  <2>2. \A a, b \in Nodes : neighborsList[a][b] \in Nat
    BY <1>0 DEF ListsOK
  <2>3. \A k \in Nat : k - 1 > 0 => k > 0
    OBVIOUS
  <2> QED BY <2>1, <2>2, <2>3
<1>6. ASSUME NEW a \in Nodes, NEW b \in Nodes
      PROVE  Way(a, b)' \subseteq Way(a, b) /\ (Way(a, b) # {} => b \in Seen(s)')
  <2>1. CASE a = m /\ b = n
    <3>1. Way(a, b)' \subseteq Way(a, b)
      BY <1>0, <1>2, TakenAway DEF Way
    <3>2. n \in Visited(s)'
      BY <1>1, <1>2 DEF Visited, Knows
    <3> QED BY <2>1, <3>1, <3>2 DEF Seen
  <2>2. CASE ~(a = m /\ b = n)
    <3>1. Way(a, b)' = Way(a, b)
      BY <1>1, <2>2 DEF Way
    <3> QED BY <3>1 DEF Seen
  <2> QED BY <2>1, <2>2
<1> QED BY <1>2, <1>3, <1>4, <1>5, <1>6, CoverLess

(* A job manager cuts a link.                                              *)
LEMMA CoverCall ==
  ASSUME DiscoveryAssumption, DInv, [Next]_vars, dead = {}, dead' = {}, MailHome,
         NEW j \in BagToSet(jobmgr), JobMgrStep(j), ~Called("RegisterNode"),
         NEW s \in Searches, Cover(s)
  PROVE  Cover(s)'
<1>0. AsksOK /\ ListsOK /\ phase \in [Searches -> Phases] /\ j \in Calls
  BY DEF DInv, WaysOK, LinksOK, LaunchOK
<1>1. j.op = "UnregisterNode" /\ j.at \in Nodes /\ j.node \in Nodes
  BY <1>0 DEF Calls, Called
<1>2. /\ phase' = phase /\ knownRequests' = knownRequests /\ ended' = ended /\ fitting' = fitting /\ asks' = asks
      /\ neighborsList' = removeNeighbor(j.at, j.node)
  BY <1>1 DEF JobMgrStep, worldVars
<1>3. phase[s] # "listed" /\ phase'[s] # "listed"
  BY <1>2 DEF Cover, Begun
<1>4. ~Launch(s)
  <2>1. Launch(s) => phase'[s] # phase[s]
    BY <1>0 DEF Launch
  <2> QED BY <1>2, <2>1
<1>5. \A a, b \in Nodes : neighborsList'[a][b] > 0 => neighborsList[a][b] > 0
  <2> DEFINE n == j.at
             m == j.node
  <2>0. n \in Nodes /\ m \in Nodes /\ neighborsList' = removeNeighbor(n, m)
    BY <1>1, <1>2
  <2> HIDE DEF n, m
  <2>1. ASSUME NEW a \in Nodes, NEW b \in Nodes
        PROVE  neighborsList'[a][b] = IF a = n /\ b = m
                 THEN (IF neighborsList[n][m] = 0 THEN 0 ELSE neighborsList[n][m] - 1) ELSE neighborsList[a][b]
    BY <1>0, <2>0 DEF removeNeighbor, ListsOK
  <2>2. \A a, b \in Nodes : neighborsList[a][b] \in Nat
    BY <1>0 DEF ListsOK
  <2>3. \A k \in Nat : k - 1 > 0 => k > 0
    OBVIOUS
  <2> QED BY <2>0, <2>1, <2>2, <2>3
<1>6. ASSUME NEW a \in Nodes, NEW b \in Nodes
      PROVE  Way(a, b)' \subseteq Way(a, b) /\ (Way(a, b) # {} => b \in Seen(s)')
  BY <1>2 DEF Way, Seen
<1> QED BY <1>2, <1>3, <1>4, <1>5, <1>6, CoverLess

(* What was listed stays until it is used.                                 *)
LEMMA ListedStays ==
  ASSUME DInv, [Next]_vars, NEW s \in Searches, phase[s] = "listed", ~ForwardFirst(s)
  PROVE  phase'[s] = "listed" /\ listed'[s] = listed[s]
<1>0. phase \in [Searches -> Phases] /\ listed \in [Searches -> SUBSET Nodes]
  BY DEF DInv, LaunchOK
<1>1. CASE UNCHANGED <<phase, listed>>
  BY <1>1
<1>2. ASSUME NEW q \in Searches, Launch(q) \/ ForwardFirst(q) \/ InitSem(q) \/ Woken(q) \/ SleptEnough(q)
      PROVE  /\ q # s /\ \E p : phase' = [phase EXCEPT ![q] = p]
             /\ listed' = listed \/ \E v : listed' = [listed EXCEPT ![q] = v]
  <2>1. CASE Launch(q)
    BY <2>1 DEF Launch
  <2>2. CASE ForwardFirst(q)
    <3>1. q # s
      BY <2>2
    <3> QED BY <2>2, <3>1 DEF ForwardFirst
  <2>3. CASE InitSem(q)
    BY <2>3 DEF InitSem
  <2>4. CASE Woken(q) \/ SleptEnough(q)
    BY <2>4 DEF Woken, SleptEnough, Collect
  <2> QED BY <1>2, <2>1, <2>2, <2>3, <2>4
<1>3. ASSUME NEW q \in Searches, Launch(q) \/ ForwardFirst(q) \/ InitSem(q) \/ Woken(q) \/ SleptEnough(q)
      PROVE  phase'[s] = "listed" /\ listed'[s] = listed[s]
  <2>1. /\ q # s /\ \E p : phase' = [phase EXCEPT ![q] = p]
        /\ listed' = listed \/ \E v : listed' = [listed EXCEPT ![q] = v]
    BY <1>3, <1>2
  <2> QED BY <1>0, <2>1
<1> QED BY <1>1, <1>3, PhaseWriters

(* The cover does not change with anything else.                           *)
LEMMA CoverSame ==
  ASSUME DiscoveryAssumption, DInv, [Next]_vars, dead = {}, dead' = {}, MailHome,
         UNCHANGED <<asks, neighborsList, jobmgr, knownRequests, ended, fitting>>,
         NEW s \in Searches, ~Launch(s), ~ForwardFirst(s), Cover(s), NotSent(s)
  PROVE  Cover(s)'
<1>1. CASE phase[s] # "listed"
  <2>1. phase'[s] # "listed"
    BY <1>1, ListedFrom
  <2>2. \A a, b \in Nodes : Way(a, b)' \subseteq Way(a, b) /\ (Way(a, b) # {} => b \in Seen(s)')
    BY DEF Way, Seen
  <2> QED BY <1>1, <2>1, <2>2, CoverLess
<1>2. CASE phase[s] = "listed"
  <2>1. phase'[s] = "listed" /\ listed'[s] = listed[s]
    BY <1>2, ListedStays
  <2>2. Visited(s)' = Visited(s) /\ NeighborsOf(Origin[s])' = NeighborsOf(Origin[s])
    BY DEF Visited, Knows, NeighborsOf
  <2>3. \A a, b \in Nodes : Way(a, b)' = {}
    BY <1>2 DEF NotSent, Way
  <2>4. Heard(s)'
    <3> SUFFICES ASSUME s \notin Ends, actualReq'[s] # None PROVE Visited(s) \cap fitting \subseteq Answers(s)'
      BY <2>2 DEF Heard
    <3>1. actualReq[s] # None /\ Answers(s) \subseteq Answers(s)'
      BY AnswersStay
    <3> QED BY <3>1 DEF Cover, Heard
  <2>5. Begun(s)'
    BY <1>2, <2>1, <2>2 DEF Cover, Begun
  <2> QED BY <2>1, <2>3, <2>4, <2>5 DEF Cover, Reaching, Carries
<1> QED BY <1>1, <1>2

(* A launch begins it.                                                     *)
LEMMA CoverLaunch ==
  ASSUME DiscoveryAssumption, DInv, [Next]_vars, dead = {}, MailHome, ~Flooding, ~Called("RegisterNode"), Unstarted, Unended,
         MaxReqToSave > 0, NEW s \in Searches, Launch(s)
  PROVE  Cover(s)' /\ phase'[s] = "listed"
<1> DEFINE o == Origin[s]
<1>0. /\ AsksOK /\ ListsOK /\ o \in Nodes /\ phase \in [Searches -> Phases] /\ listed \in [Searches -> SUBSET Nodes]
      /\ KnownOK
  BY DEF DInv, WaysOK, LinksOK, LaunchOK, DiscoveryAssumption
<1>u. ~Unreachable(o)
  BY DEF Unreachable
<1>1. /\ phase[s] = "idle" /\ phase' = [phase EXCEPT ![s] = "listed"] /\ listed' = [listed EXCEPT ![s] = NeighborsOf(o)]
      /\ Remember(o, s) /\ Respond(s, o, <<>>)
      /\ asks' = asks /\ jobmgr' = jobmgr /\ neighborsList' = neighborsList /\ ended' = ended /\ fitting' = fitting
  BY <1>u DEF Launch, worldVars
<1>2. phase'[s] = "listed" /\ listed'[s] = NeighborsOf(o)
  BY <1>0, <1>1
<1>3. \A a, b \in Nodes : Way(a, b)' = {}
  <2>1. NotSent(s)'
    BY TreeLaunch
  <2> QED BY <1>2, <2>1 DEF NotSent
<1>4. BagToSet(jobmgr') = {}
  <2>1. BagToSet(jobmgr) = {}
    BY DEF DInv, LinksOK, Calls, Flooding, Called
  <2> QED BY <1>1, <2>1
<1> HIDE DEF o
<1>5. Visited(s)' \subseteq {o}
  <2>1. CASE s \in Ends
    BY <1>1, <2>1 DEF Visited, Unended
  <2>2. CASE s \notin Ends
    <3>1. \A k \in Nodes : s \notin ToSet(knownRequests[k])
      BY <1>1 DEF Unstarted
    <3>2. \A k \in Nodes : k # o => knownRequests'[k] = knownRequests[k]
      BY <1>0, <1>1, <2>2, Remembers
    <3> QED BY <2>2, <3>1, <3>2 DEF Visited, Knows
  <2> QED BY <2>1, <2>2
<1>6. Begun(s)'
  <2>1. NeighborsOf(o)' = NeighborsOf(o)
    BY <1>1 DEF NeighborsOf
  <2> QED BY <1>2, <1>4, <1>5, <2>1 DEF Begun, o
<1>7. Heard(s)'
  <2> SUFFICES ASSUME s \notin Ends, o \in fitting PROVE o \in Answers(s)'
    BY <1>1, <1>5 DEF Heard
  <2>1. <<>> \in Seq(Nodes)
    BY EmptySeq
  <2>2. \E i \in BagToSet(mail') : i.s = s /\ i.node = o
    <3> DEFINE w == <<>>
    <3>1. o \in Nodes /\ Respond(s, o, w) /\ w \in Seq(Nodes) /\ (w = <<>> \/ Head(w) = Origin[s])
      BY <1>0, <1>1, <2>1
    <3> HIDE DEF w
    <3>2. s \notin Ends /\ o \in fitting => \E j \in BagToSet(mail') : j.s = s /\ j.node = o
      BY <3>1, SentHome
    <3> QED BY <3>2
  <2> QED BY <2>2 DEF Answers
<1> QED BY <1>2, <1>3, <1>6, <1>7 DEF Cover, Reaching, Carries

(* Each step keeps it, also the last one of the flood.                     *)
LEMMA CoverStep ==
  ASSUME DiscoveryAssumption, IsFiniteSet(Nodes), DInv, [Next]_vars, Undisturbed', FloodInv, MailHome, MaxReqToSave > 0,
         NEW s \in Searches, OnItsWay(s), Wide(s), Cover(s)
  PROVE  Cover(s)' /\ ~Launch(s)
<1>0. /\ Undisturbed /\ dead = {} /\ dead' = {} /\ Alone /\ Flooding /\ ~Called("RegisterNode")
      /\ NotSent(s) /\ (s \notin Ends => Tree(s))
      /\ \A q \in Searches : ~Launch(q)
      /\ \A l \in Parents : ~SelfRegister(l[1], l[2])
  <2>1. /\ Undisturbed /\ dead = {} /\ dead' = {} /\ Flooding
        /\ \A q \in Searches : Launch(q) => ~Flooding
        /\ \A l \in Parents : SelfRegister(l[1], l[2]) => ~Flooding
    BY UndisturbedStep DEF Flooding
  <2> QED BY <2>1 DEF FloodInv, FloodOK, Alone
<1>1. ASSUME NEW q \in Searches, ForwardFirst(q) PROVE Cover(s)'
  <2>1. OnItsWay(q)
    BY <1>0, <1>1 DEF ForwardFirst, OnItsWay
  <2>2. q = s
    BY <1>0, <2>1 DEF Alone
  <2> QED BY <1>0, <1>1, <2>2, CoverFirst
<1>2. ASSUME NEW m \in Nodes, NEW n \in Nodes, AlreadyAsked(m, n) PROVE Cover(s)'
  <2>1. Head(asks[m][n]) \in Way(m, n)
    BY <1>2, AskedTakes
  <2>2. s = Head(asks[m][n]).s
    BY <1>0, <2>1, OnlyFlood
  <2> QED BY <1>0, <1>2, <2>2, CoverAsked
<1>3. ASSUME NEW m \in Nodes, NEW n \in Nodes, Visit(m, n) PROVE Cover(s)'
  <2>1. Head(asks[m][n]) \in Way(m, n)
    BY <1>0, <1>3, VisitSends
  <2>2. s = Head(asks[m][n]).s
    BY <1>0, <2>1, OnlyFlood
  <2> QED BY <1>0, <1>3, <2>2, CoverVisit
<1>4. ASSUME NEW j \in BagToSet(jobmgr), JobMgrStep(j) PROVE Cover(s)'
  BY <1>0, <1>4, CoverCall
<1>5. ASSUME \A q \in Searches : ~ForwardFirst(q),
             UNCHANGED <<asks, neighborsList, jobmgr, knownRequests, ended, met>> PROVE Cover(s)'
  <2>1. fitting' = fitting
    BY <1>0, WorldWriters DEF worldVars, Die
  <2>2. UNCHANGED <<asks, neighborsList, jobmgr, knownRequests, ended, fitting>>
    BY <1>5, <2>1
  <2>3. ~ForwardFirst(s) /\ ~Launch(s)
    BY <1>0, <1>5
  <2> QED BY <1>0, <2>2, <2>3, CoverSame
<1> QED BY <1>0, <1>1, <1>2, <1>3, <1>4, <1>5, AsksWriters, ListsWriters, KnownWriters, EndedWriters

(* A flood is covered from its launch to its end.                          *)
LEMMA CoverInvStep ==
  ASSUME DiscoveryAssumption, IsFiniteSet(Nodes), DInv, [Next]_vars, FloodInv, MailHome, Unended, CoverInv, MaxReqToSave > 0
  PROVE  CoverInv'
<1> SUFFICES ASSUME Undisturbed', NEW s \in Searches, OnItsWay(s)', Wide(s) PROVE Cover(s)'
  BY DEF CoverInv, Wide
<1>0. Undisturbed /\ dead = {} /\ Unstarted /\ (Launch(s) => ~Flooding /\ ~Called("RegisterNode"))
  BY UndisturbedStep DEF FloodInv
<1>1. CASE Launch(s)
  BY <1>0, <1>1, CoverLaunch
<1>2. CASE ~Launch(s)
  <2>1. OnItsWay(s)
    BY <1>2, OnItsWayFrom
  <2>2. Cover(s)
    BY <1>0, <2>1 DEF CoverInv
  <2> QED BY <2>1, <2>2, CoverStep
<1> QED BY <1>1, <1>2

-----------------------------------------------------------------------------
(* What a flood that is over has reached.                                  *)
(* Where the calls under way come from.                                    *)
LEMMA CallsFrom ==
  ASSUME DiscoveryAssumption, DInv, [Next]_vars, Called("RegisterNode")'
  PROVE  Called("RegisterNode") \/ \E l \in Parents : SelfRegister(l[1], l[2])
<1>1. CASE UNCHANGED <<neighborsList, jobmgr>>
  BY <1>1 DEF Called
<1>2. ASSUME NEW m \in Nodes, NEW n \in Nodes, AlreadyAsked(m, n) PROVE Called("RegisterNode")
  <2> DEFINE j == [op |-> "UnregisterNode", at |-> m, node |-> n]
  <2>1. jobmgr' = jobmgr \/ jobmgr' = jobmgr (+) SetToBag({j})
    BY <1>2 DEF AlreadyAsked
  <2>2. j.op # "RegisterNode"
    OBVIOUS
  <2> HIDE DEF j
  <2>3. BagToSet(jobmgr (+) SetToBag({j})) = BagToSet(jobmgr) \cup {j}
    BY BagAdds
  <2>4. BagToSet(jobmgr') \subseteq BagToSet(jobmgr) \cup {j}
    BY <2>1, <2>3
  <2> QED BY <2>2, <2>4 DEF Called
<1>3. ASSUME NEW j \in BagToSet(jobmgr), JobMgrStep(j) PROVE Called("RegisterNode")
  <2>1. BagToSet(jobmgr') \subseteq BagToSet(jobmgr)
    BY <1>3, BagDrops DEF JobMgrStep
  <2> QED BY <2>1 DEF Called
<1> QED BY <1>1, <1>2, <1>3, ListsWriters

(* The nodes that it has visited have no other neighbours, and all links   *)
(* lead to such.                                                           *)
LEMMA LastStep ==
  ASSUME DiscoveryAssumption, IsFiniteSet(Nodes), DInv, [Next]_vars, Undisturbed', FloodInv, MailHome, MaxReqToSave > 0,
         NEW s \in Searches, OnItsWay(s), ~OnItsWay(s)', Wide(s), Cover(s)
  PROVE  Near[s] \subseteq Visited(s)'
<1>0. /\ Undisturbed /\ dead' = {} /\ Alone /\ Flooding /\ ~Called("RegisterNode")
      /\ \A q \in Searches : Launch(q) => ~Flooding
      /\ \A l \in Parents : SelfRegister(l[1], l[2]) => ~Flooding
  <2>1. /\ Undisturbed /\ dead = {} /\ dead' = {} /\ Flooding
        /\ \A q \in Searches : Launch(q) => ~Flooding
        /\ \A l \in Parents : SelfRegister(l[1], l[2]) => ~Flooding
    BY UndisturbedStep DEF Flooding
  <2> QED BY <2>1 DEF FloodInv, FloodOK, Alone
<1>1. \A a, b \in Nodes : Way(a, b)' = {}
  <2>1. ASSUME NEW a \in Nodes, NEW b \in Nodes, NEW r \in Way(a, b)' PROVE FALSE
    <3>1. r.s \in Searches
      BY WaysFrom
    <3>2. OnItsWay(r.s)'
      BY <1>0, <3>1 DEF OnItsWay, Way, ToSet
    <3>3. OnItsWay(r.s)
      BY <1>0, <3>1, <3>2, OnItsWayFrom
    <3>4. r.s = s
      BY <1>0, <3>1, <3>3 DEF Alone
    <3> QED BY <3>2, <3>4
  <2> QED BY <2>1
<1>2. phase'[s] # "listed"
  <2>1. Origin[s] \notin dead'
    BY <1>0
  <2> QED BY <2>1 DEF OnItsWay
<1>3. Cover(s)'
  BY CoverStep
<1>4. Origin[s] \in Visited(s)' /\ Visited(s)' \subseteq Nodes
      /\ \A n \in Visited(s)', m \in Nodes : neighborsList'[n][m] > 0 => m \in Visited(s)'
  <2>1. Seen(s)' = Visited(s)'
    BY <1>1 DEF Seen
  <2>2. Visited(s)' \subseteq Nodes
    BY StepEnded DEF Visited, Knows, EndedOK
  <2> QED BY <1>2, <1>3, <2>1, <2>2 DEF Cover, Reaching, NeighborsOf
<1>5. ASSUME NEW n \in Nodes, NEW m \in Nodes, Left(n, m)' > 0 PROVE neighborsList'[n][m] > 0
  <2>1. Joins(n, m)' = 0
    <3>1. ~Called("RegisterNode")'
      <4>1. Called("RegisterNode")' => Called("RegisterNode") \/ \E l \in Parents : SelfRegister(l[1], l[2])
        BY CallsFrom
      <4> QED BY <1>0, <4>1
    <3> QED BY <3>1 DEF Called, Joins, Copies, Calling
  <2>2. CallsOK' /\ ListsOK'
    BY CallsStep, StepLinks DEF FloodInv, LinksOK
  <2>3. Cuts(n, m)' \in Nat /\ neighborsList'[n][m] \in Nat
    <3>1. \A e : Copies(e, jobmgr') \in Nat
      BY <2>2 DEF Copies, CallsOK, Counted
    <3> QED BY <2>2, <3>1 DEF Cuts, ListsOK
  <2> DEFINE x == neighborsList'[n][m]
             c == Cuts(n, m)'
  <2>4. (IF x + 0 > c THEN (x + 0) - c ELSE 0) > 0
    BY <1>5, <2>1 DEF Left
  <2> HIDE DEF x, c
  <2>5. \A y, d \in Nat : (IF y + 0 > d THEN (y + 0) - d ELSE 0) > 0 => y > 0
    OBVIOUS
  <2> QED BY <2>3, <2>4, <2>5 DEF x, c
<1> DEFINE V == Visited(s)'
<1>6. ASSUME NEW l \in Links, l[1] \in V PROVE l[2] \in V
  <2>1. Joined'
    BY JoinedStep
  <2>2. CASE l[2] \notin V
    <3>1. PICK a \in V \cap Nodes, b \in Nodes \ V : Left(a, b)' > 0
      BY <1>4, <1>6, <2>1, <2>2 DEF Joined, Crossed
    <3> QED BY <1>4, <1>5, <3>1
  <2> QED BY <2>2
<1>7. Origin[s] \in V
  BY <1>4
<1> HIDE DEF V
<1>8. Near[s] \subseteq V
  BY <1>6, <1>7, NearLeast
<1> QED BY <1>8 DEF V

(* Only a launch begins.                                                   *)
LEMMA IdleStays ==
  ASSUME DInv, [Next]_vars, NEW s \in Searches, phase[s] = "idle", ~Launch(s)
  PROVE  phase'[s] = "idle"
<1>0. phase \in [Searches -> Phases]
  BY DEF DInv, LaunchOK
<1>1. CASE UNCHANGED <<phase, listed>>
  BY <1>1
<1>2. ASSUME NEW q \in Searches, Launch(q) \/ ForwardFirst(q) \/ InitSem(q) \/ Woken(q) \/ SleptEnough(q)
      PROVE  q # s /\ \E p : phase' = [phase EXCEPT ![q] = p]
  <2>1. CASE Launch(q)
    <3>1. q # s
      BY <2>1
    <3> QED BY <2>1, <3>1 DEF Launch
  <2>2. CASE ForwardFirst(q)
    BY <2>2 DEF ForwardFirst
  <2>3. CASE InitSem(q)
    BY <2>3 DEF InitSem
  <2>4. CASE Woken(q) \/ SleptEnough(q)
    BY <2>4 DEF Woken, SleptEnough, Collect
  <2> QED BY <1>2, <2>1, <2>2, <2>3, <2>4
<1>3. ASSUME NEW q \in Searches, Launch(q) \/ ForwardFirst(q) \/ InitSem(q) \/ Woken(q) \/ SleptEnough(q)
      PROVE  phase'[s] = "idle"
  <2>1. q # s /\ \E p : phase' = [phase EXCEPT ![q] = p]
    BY <1>3, <1>2
  <2> QED BY <1>0, <2>1
<1> QED BY <1>1, <1>3, PhaseWriters

(* A job manager that was told of an end knows it.                         *)
LEMMA EndedGrows ==
  ASSUME DInv, [Next]_vars, NEW s \in Searches PROVE ended[s] \subseteq ended'[s]
<1>0. ended \in [Searches -> SUBSET Nodes]
  BY DEF DInv, EndedOK
<1>1. ASSUME NEW q, NEW n, ApplicationEnd(q, n) \/ UNCHANGED ended PROVE ended[s] \subseteq ended'[s]
  BY <1>0, <1>1 DEF ApplicationEnd
<1>2. \A q \in Searches : ForwardFirst(q) => ApplicationEnd(q, Origin[q]) \/ UNCHANGED ended
  BY DEF ForwardFirst
<1>3. \A m, n \in Nodes : Visit(m, n) => ApplicationEnd(Head(asks[m][n]).s, n) \/ UNCHANGED ended
  BY DEF Visit
<1>4. \A q \in Searches : Launch(q) => UNCHANGED ended
  BY DEF Launch
<1>5. \A l \in Parents : SelfRegister(l[1], l[2]) => UNCHANGED ended
  BY DEF SelfRegister
<1> QED BY <1>1, <1>2, <1>3, <1>4, <1>5, EndedWriters

(* Those who can answer do, and those who are to know of an end do.        *)
EndsHeard == \A s \in Ends : Undisturbed /\ Quiet(s) => Near[s] \subseteq ended[s]

(* They did when the flood ended, and nothing is lost afterwards.          *)
LEMMA QuietStep ==
  ASSUME DiscoveryAssumption, IsFiniteSet(Nodes), DInv, [Next]_vars, FloodInv, MailHome, Unended, CoverInv,
         MaxReqToSave > 0, EveryNodeAnswers, EndsHeard
  PROVE  EveryNodeAnswers' /\ EndsHeard'
<1>1. ASSUME NEW s \in Searches, Undisturbed', Quiet(s)', Wide(s)
      PROVE  /\ s \notin Ends /\ actualReq'[s] # None => fitting' \cap Near[s] \subseteq Answers(s)'
             /\ s \in Ends => Near[s] \subseteq ended'[s]
  <2>0. /\ Undisturbed /\ dead = {} /\ Unstarted /\ (Launch(s) => ~Flooding /\ ~Called("RegisterNode"))
        /\ ~OnItsWay(s)' /\ phase'[s] # "idle" /\ phase'[s] # "listed"
    BY <1>1, UndisturbedStep DEF FloodInv, Quiet
  <2>1. ~Launch(s)
    BY <2>0, CoverLaunch
  <2>2. CASE OnItsWay(s)
    <3>1. Cover(s)
      BY <1>1, <2>0, <2>2 DEF CoverInv
    <3>2. Near[s] \subseteq Visited(s)'
      BY <1>1, <2>0, <2>2, <3>1, LastStep
    <3>3. Heard(s)'
      BY <1>1, <2>2, <3>1, CoverStep DEF Cover
    <3>4. s \in Ends => Visited(s)' = ended'[s]
      BY DEF Visited
    <3> QED BY <3>2, <3>3, <3>4 DEF Heard
  <2>3. CASE ~OnItsWay(s)
    <3>1. Quiet(s)
      <4>1. phase[s] # "idle"
        BY <2>0, <2>1, IdleStays
      <4>2. phase[s] # "listed"
        <5>1. Origin[s] \notin dead
          BY <2>0
        <5> QED BY <2>3, <5>1 DEF OnItsWay
      <4> QED BY <2>3, <4>1, <4>2 DEF Quiet
    <3>2. ASSUME s \notin Ends, actualReq'[s] # None PROVE fitting' \cap Near[s] \subseteq Answers(s)'
      <4>1. actualReq[s] # None /\ Answers(s) \subseteq Answers(s)'
        BY <2>1, <3>2, AnswersStay
      <4>2. fitting' = fitting
        BY WorldWriters DEF worldVars, Die, SelfRegister
      <4> QED BY <1>1, <2>0, <3>1, <3>2, <4>1, <4>2 DEF EveryNodeAnswers
    <3>3. s \in Ends => Near[s] \subseteq ended'[s]
      BY <2>0, <3>1, EndedGrows DEF EndsHeard
    <3> QED BY <3>2, <3>3
  <2> QED BY <2>2, <2>3
<1>2. EveryNodeAnswers'
  BY <1>1 DEF EveryNodeAnswers, Wide
<1>3. EndsHeard'
  <2> SUFFICES ASSUME NEW s \in Ends, Undisturbed', Quiet(s)' PROVE Near[s] \subseteq ended'[s]
    BY DEF EndsHeard
  <2>1. s \in Searches /\ Wide(s)
    BY DEF DiscoveryAssumption, Wide
  <2> QED BY <1>1, <2>1
<1> QED BY <1>2, <1>3

(* All that is kept.                                                       *)
ReachInv == DInv /\ FloodInv /\ MailHome /\ Unended /\ CoverInv /\ EveryNodeAnswers /\ EndsHeard

(* It holds at the start, ...                                              *)
LEMMA ReachInvInit == ASSUME DiscoveryAssumption, Init PROVE ReachInv
<1>1. DInv /\ FloodInv
  BY DInvInit, FloodInvInit
<1>2. MailHome
  BY DEF Init, EmptyBag, SetToBag, BagToSet, MailHome, Counted
<1>3. Unended
  BY DEF Init, Unended
<1>4. \A s \in Searches : ~OnItsWay(s) /\ ~Quiet(s)
  <2>1. \A m, n \in Nodes : Way(m, n) = {}
    BY DEF Init, Way, ToSet
  <2>2. \A s \in Searches : phase[s] = "idle"
    BY DEF Init
  <2> QED BY <2>1, <2>2, OnItsWayIs DEF Quiet
<1>5. CoverInv
  BY <1>4 DEF CoverInv
<1>6. EveryNodeAnswers
  BY <1>4 DEF EveryNodeAnswers
<1>7. EndsHeard
  BY <1>4 DEF EndsHeard, DiscoveryAssumption
<1> QED BY <1>1, <1>2, <1>3, <1>5, <1>6, <1>7 DEF ReachInv

(* ... is kept by each step, ...                                           *)
LEMMA ReachInvStep ==
  ASSUME DiscoveryAssumption, IsFiniteSet(Nodes), [Next]_vars, ReachInv, MaxReqToSave > 0 PROVE ReachInv'
<1>1. /\ DInv /\ FloodInv /\ MailHome /\ Unended /\ CoverInv /\ EveryNodeAnswers /\ EndsHeard /\ Unstarted
  BY DEF ReachInv, FloodInv
<1>2. DInv' /\ FloodInv' /\ MailHome' /\ Unended'
  BY <1>1, DInvStep, FloodInvStep, MailHomeStep, UnendedStep
<1>3. CoverInv' /\ EveryNodeAnswers' /\ EndsHeard'
  BY <1>1, CoverInvStep, QuietStep
<1> QED BY <1>2, <1>3 DEF ReachInv

(* ... and so holds always.                                                *)
LEMMA ReachInvAlways == ASSUME IsFiniteSet(Nodes), MaxReqToSave > 0 PROVE Spec => []ReachInv
<1> USE DiscoveryAssumption
<1>1. Init => ReachInv
  BY ReachInvInit
<1>2. ReachInv /\ [Next]_vars => ReachInv'
  BY ReachInvStep
<1> QED BY <1>1, <1>2, PTL DEF Spec

(* A flood that met no other, no new link and no dead node has an answer   *)
(* of every node that has the resources when it is over, whichever lists   *)
(* were cleared on the way (popc_search_node.cc:319-356), if there is any  *)
(* history at all and the network is finite.                               *)
THEOREM AllAnswer ==
  ASSUME IsFiniteSet(Nodes), MaxReqToSave > 0 PROVE Spec => []EveryNodeAnswers
<1>1. ReachInv => EveryNodeAnswers
  BY DEF ReachInv
<1> QED BY <1>1, ReachInvAlways, PTL

-----------------------------------------------------------------------------
(* Who is told of an end has links to where the application ran.           *)
(* The lists of neighbours hold links of the start, when nodes register    *)
(* along such.                                                             *)
Known(n, m) == <<n, m>> \in Links
Inside ==
  /\ \A n, m \in Nodes : neighborsList[n][m] > 0 => Known(n, m)
  /\ \A j \in BagToSet(jobmgr) : j.op = "RegisterNode" => Known(j.at, j.node)
EndsInside ==
  /\ \A m, n \in Nodes : \A r \in Way(m, n) : r.s \in Ends => n \in Near[r.s]
  /\ \A s \in Ends : ended[s] \subseteq Near[s]

(* A link more, or less.                                                   *)
LEMMA InsideList ==
  ASSUME ListsOK, Inside, NEW a \in Nodes, NEW b \in Nodes,
         \/ neighborsList' = neighborsList \/ neighborsList' = removeNeighbor(a, b)
         \/ Known(a, b) /\ neighborsList' = [neighborsList EXCEPT ![a][b] = @ + 1],
         NEW n \in Nodes, NEW m \in Nodes, neighborsList'[n][m] > 0
  PROVE  Known(n, m)
<1>0. \A x, y \in Nodes : neighborsList[x][y] \in Nat
  BY DEF ListsOK
<1>1. CASE neighborsList' = neighborsList
  BY <1>1 DEF Inside
<1>2. CASE neighborsList' = removeNeighbor(a, b)
  <2>1. neighborsList'[n][m] = IF n = a /\ m = b /\ neighborsList[n][m] # 0
                                 THEN neighborsList[n][m] - 1 ELSE neighborsList[n][m]
    BY <1>2 DEF removeNeighbor, ListsOK
  <2> QED BY <1>0, <2>1 DEF Inside
<1>3. CASE Known(a, b) /\ neighborsList' = [neighborsList EXCEPT ![a][b] = @ + 1]
  <2>1. ~(n = a /\ m = b) => neighborsList'[n][m] = neighborsList[n][m]
    BY <1>3 DEF ListsOK
  <2> QED BY <1>3, <2>1 DEF Inside
<1> QED BY <1>1, <1>2, <1>3

(* No list gets anything else.                                             *)
LEMMA InsideStep ==
  ASSUME DiscoveryAssumption, DInv, [Next]_vars, Inside, Parents \subseteq Links PROVE Inside'
<1>0. ListsOK
  BY DEF DInv, LinksOK
<1> USE DEF Inside
<1>1. CASE UNCHANGED <<neighborsList, jobmgr>>
  BY <1>1 DEF Known
<1>a. ASSUME NEW j, jobmgr' = jobmgr \/ jobmgr' = jobmgr (+) SetToBag({j}),
             j.op = "RegisterNode" => Known(j.at, j.node)
      PROVE  \A k \in BagToSet(jobmgr') : k.op = "RegisterNode" => Known(k.at, k.node)
  <2>1. BagToSet(jobmgr (+) SetToBag({j})) = BagToSet(jobmgr) \cup {j}
    BY BagAdds
  <2>2. BagToSet(jobmgr') \subseteq BagToSet(jobmgr) \cup {j}
    BY <1>a, <2>1
  <2> QED BY <1>a, <2>2
<1>2. ASSUME NEW m \in Nodes, NEW n \in Nodes, AlreadyAsked(m, n) PROVE Inside'
  <2> DEFINE j == [op |-> "UnregisterNode", at |-> m, node |-> n]
  <2>1. jobmgr' = jobmgr \/ jobmgr' = jobmgr (+) SetToBag({j})
    BY <1>2 DEF AlreadyAsked
  <2>2. neighborsList' = neighborsList \/ neighborsList' = removeNeighbor(n, m)
    BY <1>2 DEF AlreadyAsked
  <2>3. j.op # "RegisterNode"
    OBVIOUS
  <2> HIDE DEF j
  <2>4. \A k \in BagToSet(jobmgr') : k.op = "RegisterNode" => Known(k.at, k.node)
    BY <1>a, <2>1, <2>3
  <2>5. \A a, b \in Nodes : neighborsList'[a][b] > 0 => Known(a, b)
    BY <1>0, <2>2, InsideList
  <2> QED BY <2>4, <2>5 DEF Known
<1>3. ASSUME NEW j \in BagToSet(jobmgr), JobMgrStep(j) PROVE Inside'
  <2>1. j \in Calls
    BY DEF DInv, LinksOK
  <2>2. j.at \in Nodes /\ j.node \in Nodes /\ j.op \in {"UnregisterNode", "RegisterNode"}
    BY <2>1 DEF Calls
  <2> DEFINE a == j.at
             b == j.node
  <2>3. \/ neighborsList' = neighborsList \/ neighborsList' = removeNeighbor(a, b)
        \/ Known(a, b) /\ neighborsList' = [neighborsList EXCEPT ![a][b] = @ + 1]
    <3>1. CASE j.op = "UnregisterNode"
      BY <1>3, <3>1 DEF JobMgrStep
    <3>2. CASE j.op = "RegisterNode"
      BY <1>3, <3>2 DEF JobMgrStep
    <3> QED BY <2>2, <3>1, <3>2
  <2>4. a \in Nodes /\ b \in Nodes
    BY <2>2
  <2> HIDE DEF a, b
  <2>5. \A x, y \in Nodes : neighborsList'[x][y] > 0 => Known(x, y)
    BY <1>0, <2>3, <2>4, InsideList
  <2>6. BagToSet(jobmgr') \subseteq BagToSet(jobmgr)
    BY <1>3, BagDrops DEF JobMgrStep
  <2> QED BY <2>5, <2>6 DEF Known
<1>4. ASSUME NEW l \in Parents, SelfRegister(l[1], l[2]) PROVE Inside'
  <2> DEFINE n == l[1]
             p == l[2]
             j == [op |-> "RegisterNode", at |-> p, node |-> n]
  <2>1. n \in Nodes /\ p \in Nodes /\ Known(n, p) /\ Known(p, n)
    <3>1. l = <<l[1], l[2]>> /\ l[1] \in Nodes /\ l[2] \in Nodes
      BY DEF DiscoveryAssumption
    <3>2. <<l[2], l[1]>> \in Links
      BY DEF DiscoveryAssumption
    <3> QED BY <3>1, <3>2 DEF Known
  <2>2. jobmgr' = jobmgr (+) SetToBag({j}) /\ neighborsList' = [neighborsList EXCEPT ![n][p] = @ + 1]
    BY <1>4 DEF SelfRegister
  <2>3. j.at = p /\ j.node = n
    OBVIOUS
  <2> HIDE DEF n, p, j
  <2>4. \A k \in BagToSet(jobmgr') : k.op = "RegisterNode" => Known(k.at, k.node)
    BY <1>a, <2>1, <2>2, <2>3
  <2>5. \A a, b \in Nodes : neighborsList'[a][b] > 0 => Known(a, b)
    BY <1>0, <2>1, <2>2, InsideList
  <2> QED BY <2>4, <2>5 DEF Known
<1> QED BY <1>1, <1>2, <1>3, <1>4, ListsWriters

(* The end is told along them.                                             *)
LEMMA EndsInsideStep ==
  ASSUME DiscoveryAssumption, IsFiniteSet(Nodes), DInv, [Next]_vars, Inside, EndsInside PROVE EndsInside'
<1> USE DEF EndsInside
<1>0. ListsOK /\ listed \in [Searches -> SUBSET Nodes] /\ AsksOK /\ ended \in [Searches -> SUBSET Nodes]
  BY DEF DInv, LinksOK, LaunchOK, WaysOK, EndedOK
<1>1. ASSUME NEW s \in Ends
      PROVE  /\ s \in Searches /\ Origin[s] \in Near[s]
             /\ \A n \in Nodes \cap Near[s] : NeighborsOf(n) \subseteq Near[s]
  <2>1. s \in Searches /\ Wide(s)
    BY DEF DiscoveryAssumption, Wide
  <2>2. /\ Origin[s] \in Near[s]
        /\ \A l \in Links : l[1] \in Near[s] => l[2] \in Near[s]
    BY <2>1, NearClosed
  <2>3. ASSUME NEW n \in Nodes \cap Near[s], NEW m \in NeighborsOf(n) PROVE m \in Near[s]
    <3>1. <<n, m>> \in Links /\ <<n, m>>[1] = n /\ <<n, m>>[2] = m
      BY <2>3 DEF NeighborsOf, Inside, Known
    <3> QED BY <2>2, <3>1
  <2> QED BY <2>1, <2>2, <2>3
<1>2. ASSUME NEW a \in Nodes, NEW b \in Nodes, NEW f \in Way(a, b)', f.s \in Ends PROVE b \in Near[f.s]
  <2>1. CASE UNCHANGED asks
    BY <1>2, <2>1 DEF Way
  <2>2. ASSUME NEW s \in Searches, ForwardFirst(s) PROVE b \in Near[f.s]
    <3>1. f \in Way(a, b) \/ First(s, a, b, f)
      BY <1>0, <2>2, ForwardsFirst
    <3>2. CASE First(s, a, b, f)
      BY <1>1, <1>2, <3>2 DEF First
    <3> QED BY <1>2, <3>1, <3>2
  <2>3. ASSUME NEW m \in Nodes, NEW n \in Nodes, AlreadyAsked(m, n) PROVE b \in Near[f.s]
    <3>1. f \in Way(a, b)
      BY <1>0, <2>3, TakenAway DEF AlreadyAsked, Way
    <3> QED BY <1>2, <3>1
  <2>4. ASSUME NEW m \in Nodes, NEW n \in Nodes, Visit(m, n) PROVE b \in Near[f.s]
    <3> DEFINE r == Head(asks[m][n])
    <3>1. r \in Way(m, n) /\ (f \in Way(a, b) \/ (a = n /\ Onward(r, n, b, f)))
      BY <1>0, <2>4, VisitsOnward
    <3> HIDE DEF r
    <3>2. CASE a = n /\ Onward(r, n, b, f)
      <4>1. f.s = r.s /\ b \in NeighborsOf(n)
        BY <3>2 DEF Onward
      <4>2. n \in Near[r.s]
        BY <1>2, <3>1, <4>1
      <4> QED BY <1>1, <1>2, <4>1, <4>2
    <3> QED BY <1>2, <3>1, <3>2
  <2> QED BY <2>1, <2>2, <2>3, <2>4, AsksWriters
<1>3. ASSUME NEW s \in Ends PROVE ended'[s] \subseteq Near[s]
  <2>1. ASSUME NEW q, NEW n, q = s => n \in Near[s], ApplicationEnd(q, n) \/ UNCHANGED ended
        PROVE  ended'[s] \subseteq Near[s]
    <3>1. ended'[s] \subseteq ended[s] \cup (IF q = s THEN {n} ELSE {})
      BY <1>0, <1>1, <2>1 DEF ApplicationEnd
    <3> QED BY <2>1, <3>1
  <2>2. ASSUME NEW q \in Searches, ForwardFirst(q) PROVE ended'[s] \subseteq Near[s]
    <3>1. ApplicationEnd(q, Origin[q]) \/ UNCHANGED ended
      BY <2>2 DEF ForwardFirst
    <3> QED BY <1>1, <2>1, <3>1
  <2>3. ASSUME NEW m \in Nodes, NEW n \in Nodes, Visit(m, n) PROVE ended'[s] \subseteq Near[s]
    <3> DEFINE r == Head(asks[m][n])
    <3>1. r \in Way(m, n) /\ (ApplicationEnd(r.s, n) \/ UNCHANGED ended)
      BY <1>0, <2>3, VisitsOnward DEF Visit
    <3> HIDE DEF r
    <3>2. r.s = s => n \in Near[s]
      BY <3>1
    <3> QED BY <2>1, <3>1, <3>2
  <2>4. \A q \in Searches : Launch(q) => UNCHANGED ended
    BY DEF Launch
  <2>5. \A l \in Parents : SelfRegister(l[1], l[2]) => UNCHANGED ended
    BY DEF SelfRegister
  <2> QED BY <2>2, <2>3, <2>4, <2>5, EndedWriters
<1> QED BY <1>2, <1>3

(* ... and the job manager of each node that the links lead to, and of no  *)
(* other, knows then that the application ended                            *)
(* (popc_search_node.cc:262-283), when nodes register along the links.     *)
THEOREM AllEnd ==
  ASSUME IsFiniteSet(Nodes), MaxReqToSave > 0, Parents \subseteq Links PROVE Spec => []EveryNodeEnds
<1> USE DiscoveryAssumption
<1>1. Init => Inside /\ EndsInside
  <2> SUFFICES ASSUME Init PROVE Inside /\ EndsInside
    OBVIOUS
  <2>1. BagToSet(jobmgr) = {} /\ \A m, n \in Nodes : Way(m, n) = {}
    BY DEF Init, EmptyBag, SetToBag, BagToSet, Way, ToSet
  <2>2. \A n, m \in Nodes : neighborsList[n][m] = IF <<n, m>> \in Links THEN 1 ELSE 0
    BY DEF Init
  <2>3. \A s \in Ends : ended[s] = {}
    BY DEF Init, DiscoveryAssumption
  <2> QED BY <2>1, <2>2, <2>3 DEF Inside, EndsInside, Known
<1>2. ReachInv /\ Inside /\ EndsInside /\ [Next]_vars => (Inside /\ EndsInside)'
  BY InsideStep, EndsInsideStep DEF ReachInv
<1>3. ReachInv /\ Inside /\ EndsInside => EveryNodeEnds
  BY DEF ReachInv, EndsHeard, EndsInside, EveryNodeEnds
<1> QED BY <1>1, <1>2, <1>3, ReachInvAlways, PTL DEF Spec
=============================================================================
