---------------------------- MODULE BrokerProofs ----------------------------
(***************************************************************************)
(* Proofs about Broker, for any number of comboxes, connections and calls: *)
(* the counters are exact and a mutex method executes alone; then the      *)
(* bound of the queue, the references that keep the object alive, and what *)
(* the main thread leaves behind when it decides to end.                   *)
(***************************************************************************)
EXTENDS Broker, FiniteSetTheorems, SequenceTheorems, TLAPS

(* The set of requests in some phases is finite.                           *)
LEMMA PhaseSetsFinite ==
  ASSUME BrokerAssumption
  PROVE  /\ IsFiniteSet(Threads) /\ IsFiniteSet(Mutexes)
         /\ IsFiniteSet(Threads') /\ IsFiniteSet(Mutexes')
<1>1. /\ Threads \subseteq Requests /\ Mutexes \subseteq Requests
      /\ Threads' \subseteq Requests /\ Mutexes' \subseteq Requests
  BY DEF Threads, Mutexes, Requests
<1> QED BY <1>1, FS_Subset DEF BrokerAssumption

(* The open connections are finitely many.                                 *)
LEMMA OpenFacts ==
  ASSUME BrokerAssumption
  PROVE  /\ IsFiniteSet(Open) /\ IsFiniteSet(Open')
         /\ Cardinality(Open) \in Nat /\ Cardinality(Open') \in Nat
<1>1. Open \subseteq Peers /\ Open' \subseteq Peers
  BY DEF Open
<1> QED BY <1>1, FS_Subset, FS_CardinalityType DEF BrokerAssumption

(* What a broadcast does to the location of the main thread.               *)
LEMMA WokenFacts ==
  ASSUME NEW l \in MainLocs
  PROVE  /\ Woken(l) \in MainLocs
         /\ \A m \in {"blocking", "spawn", "create", "exec", "uncount"} :
              Woken(l) = m <=> l = m
         /\ Woken(l) \in {"excl", "exclWaiting"} => l \in {"excl", "exclWaiting"}
BY DEF Woken, MainLocs

(* How a request that moves changes its phase and the counted sets.        *)
InThread(p)   == p \in {"spawned", "running", "ended"}
IsMutex(q, p) == q \in MutexReqs /\ p \in {"counted", "queued", "taken"}

Moved(q, p) ==
  /\ phase' \in [Requests -> Phases]
  /\ phase'[q] = p
  /\ \A x \in Requests \ {q} : phase'[x] = phase[x]
  /\ Threads' = IF InThread(p) THEN Threads \cup {q} ELSE Threads \ {q}
  /\ Mutexes' = IF IsMutex(q, p) THEN Mutexes \cup {q} ELSE Mutexes \ {q}

(* Move does that.                                                         *)
LEMMA MoveFacts ==
  ASSUME TypeOK, NEW q \in Requests, NEW p \in Phases, Move(q, p)
  PROVE  Moved(q, p)
<1>1. /\ phase' \in [Requests -> Phases]
      /\ phase'[q] = p
      /\ \A x \in Requests \ {q} : phase'[x] = phase[x]
  BY DEF TypeOK, Move
<1>2. Threads' = IF InThread(p) THEN Threads \cup {q} ELSE Threads \ {q}
  BY <1>1 DEF Threads, InThread
<1>3. Mutexes' = IF IsMutex(q, p) THEN Mutexes \cup {q} ELSE Mutexes \ {q}
  BY <1>1 DEF Mutexes, IsMutex, Requests
<1> QED BY <1>1, <1>2, <1>3 DEF Moved

(* A counter that goes with its set stays exact.                           *)
Delta(was, is) == (IF is THEN 1 ELSE 0) - (IF was THEN 1 ELSE 0)

(* One element more or less.                                               *)
LEMMA OneElement ==
  ASSUME NEW S, IsFiniteSet(S), NEW e
  PROVE  /\ Cardinality(S \cup {e}) = Cardinality(S) + IF e \in S THEN 0 ELSE 1
         /\ Cardinality(S \ {e}) = Cardinality(S) - IF e \in S THEN 1 ELSE 0
<1>1. Cardinality(S) \in Nat
  BY FS_CardinalityType
<1>2. Cardinality(S \cup {e}) = IF e \in S THEN Cardinality(S) ELSE Cardinality(S)+1
  BY FS_AddElement
<1>3. Cardinality(S \ {e}) = IF e \in S THEN Cardinality(S)-1 ELSE Cardinality(S)
  BY FS_RemoveElement
<1> QED BY <1>1, <1>2, <1>3

(* If the counters are changed with the phase, they stay exact.            *)
LEMMA CountersMove ==
  ASSUME BrokerAssumption, TypeOK, CountersExact,
         NEW q \in Requests, NEW p \in Phases, Move(q, p),
         instanceCount' = instanceCount + Delta(InThread(phase[q]), InThread(p)),
         mutexCount' = mutexCount + Delta(IsMutex(q, phase[q]), IsMutex(q, p))
  PROVE  CountersExact'
<1>1. /\ q \in Threads <=> InThread(phase[q])
      /\ q \in Mutexes <=> IsMutex(q, phase[q])
  BY DEF Threads, Mutexes, InThread, IsMutex
<1>2. /\ Threads' = IF InThread(p) THEN Threads \cup {q} ELSE Threads \ {q}
      /\ Mutexes' = IF IsMutex(q, p) THEN Mutexes \cup {q} ELSE Mutexes \ {q}
  BY MoveFacts DEF Moved
<1>3. Cardinality(Threads') =
        Cardinality(Threads) + Delta(InThread(phase[q]), InThread(p))
  <2>1. /\ IsFiniteSet(Threads) /\ Cardinality(Threads) \in Nat
    BY PhaseSetsFinite, FS_CardinalityType
  <2>2. /\ Cardinality(Threads \cup {q}) = Cardinality(Threads) + IF q \in Threads THEN 0 ELSE 1
        /\ Cardinality(Threads \ {q}) = Cardinality(Threads) - IF q \in Threads THEN 1 ELSE 0
    BY <2>1, OneElement
  <2> HIDE DEF Threads
  <2>3. CASE InThread(p)
    BY <1>1, <1>2, <2>1, <2>2, <2>3 DEF Delta
  <2>4. CASE ~InThread(p)
    BY <1>1, <1>2, <2>1, <2>2, <2>4 DEF Delta
  <2> QED BY <2>3, <2>4
<1>4. Cardinality(Mutexes') =
        Cardinality(Mutexes) + Delta(IsMutex(q, phase[q]), IsMutex(q, p))
  <2>1. /\ IsFiniteSet(Mutexes) /\ Cardinality(Mutexes) \in Nat
    BY PhaseSetsFinite, FS_CardinalityType
  <2>2. /\ Cardinality(Mutexes \cup {q}) = Cardinality(Mutexes) + IF q \in Mutexes THEN 0 ELSE 1
        /\ Cardinality(Mutexes \ {q}) = Cardinality(Mutexes) - IF q \in Mutexes THEN 1 ELSE 0
    BY <2>1, OneElement
  <2> HIDE DEF Mutexes
  <2>3. CASE IsMutex(q, p)
    BY <1>1, <1>2, <2>1, <2>2, <2>3 DEF Delta
  <2>4. CASE ~IsMutex(q, p)
    BY <1>1, <1>2, <2>1, <2>2, <2>4 DEF Delta
  <2> QED BY <2>3, <2>4
<1> QED BY <1>3, <1>4 DEF CountersExact

(* Taking an element out of a sequence shifts the ones behind it.          *)
LEMMA RemoveAtFacts ==
  ASSUME NEW S, NEW s \in Seq(S), NEW i \in 1..Len(s)
  PROVE  /\ RemoveAt(s, i) \in Seq(S)
         /\ Len(RemoveAt(s, i)) = Len(s) - 1
         /\ \A j \in 1..Len(s)-1 : RemoveAt(s, i)[j] = IF j < i THEN s[j] ELSE s[j+1]
<1> DEFINE a == SubSeq(s, 1, i-1)
           b == SubSeq(s, i+1, Len(s))
<1>1. Len(s) \in Nat /\ \A j \in 1..Len(s) : s[j] \in S
  BY ElementOfSeq, LenProperties
<1>2. a \in Seq(S) /\ Len(a) = i-1 /\ \A j \in 1..i-1 : a[j] = s[j]
  <2>1. \A j \in 1..i-1 : s[j] \in S
    BY <1>1
  <2> HIDE DEF a
  <2>2. /\ a \in Seq(S)
        /\ Len(a) = IF 1 <= i-1 THEN (i-1)-1+1 ELSE 0
        /\ \A j \in 1..(i-1)-1+1 : a[j] = s[1+j-1]
    BY <1>1, <2>1, SubSeqProperties DEF a
  <2> QED BY <1>1, <2>2
<1>3. b \in Seq(S) /\ Len(b) = Len(s)-i /\ \A j \in 1..Len(s)-i : b[j] = s[i+j]
  <2>1. \A j \in i+1..Len(s) : s[j] \in S
    BY <1>1
  <2> HIDE DEF b
  <2>2. /\ b \in Seq(S)
        /\ Len(b) = IF i+1 <= Len(s) THEN Len(s)-(i+1)+1 ELSE 0
        /\ \A j \in 1..Len(s)-(i+1)+1 : b[j] = s[i+1+j-1]
    BY <1>1, <2>1, SubSeqProperties DEF b
  <2> QED BY <1>1, <2>2
<1>4. RemoveAt(s, i) = a \o b
  BY DEF RemoveAt
<1> HIDE DEF a, b
<1>5. /\ a \o b \in Seq(S) /\ Len(a \o b) = Len(a) + Len(b)
      /\ \A j \in 1..Len(a)+Len(b) :
           (a \o b)[j] = IF j <= Len(a) THEN a[j] ELSE b[j-Len(a)]
  BY <1>2, <1>3, ConcatProperties
<1> QED BY <1>1, <1>2, <1>3, <1>4, <1>5

(* A request taken out of the queue, wherever it is.                       *)
LEMMA TakeOutFacts ==
  ASSUME TypeOK, QueuePlaces, NEW i \in 1..Len(fifo), TakeOut(i)
  PROVE  /\ mreq' = fifo[i] /\ mreq' \in Requests
         /\ phase[mreq'] = "queued" /\ Move(mreq', "taken")
         /\ fifo' \in Seq(Requests)
         /\ QueuePlaces'
<1>1. fifo[i] \in Requests /\ phase[fifo[i]] = "queued"
  BY DEF TypeOK, QueuePlaces
<1>2. /\ fifo' \in Seq(Requests) /\ Len(fifo') = Len(fifo) - 1
      /\ \A j \in 1..Len(fifo') : fifo'[j] = IF j < i THEN fifo[j] ELSE fifo[j+1]
  <2>1. fifo \in Seq(Requests) /\ fifo' = RemoveAt(fifo, i)
    BY DEF TypeOK, TakeOut
  <2> QED BY <2>1, RemoveAtFacts, LenProperties
<1>3. Move(fifo[i], "taken") /\ mreq' = fifo[i]
  BY DEF TakeOut
<1>4. \A x \in Requests \ {fifo[i]} : phase'[x] = phase[x]
  BY <1>1, <1>3, MoveFacts DEF Phases, Moved
<1>5. QueuePlaces'
  <2>1. Len(fifo) \in Nat /\ \A j \in 1..Len(fifo) : fifo[j] \in Requests
    BY LenProperties, ElementOfSeq DEF TypeOK
  <2>2. \A j \in 1..Len(fifo') : \E k \in 1..Len(fifo) \ {i} : fifo'[j] = fifo[k]
    <3> SUFFICES ASSUME NEW j \in 1..Len(fifo')
                 PROVE  \E k \in 1..Len(fifo) \ {i} : fifo'[j] = fifo[k]
      OBVIOUS
    <3>1. CASE j < i
      BY <1>2, <2>1, <3>1
    <3>2. CASE j >= i
      <4>1. fifo'[j] = fifo[j+1] /\ j+1 \in 1..Len(fifo) \ {i}
        BY <1>2, <2>1, <3>2
      <4> QED BY <4>1
    <3> QED BY <3>1, <3>2, <2>1
  <2>3. \A j \in 1..Len(fifo') : phase'[fifo'[j]] = "queued"
    <3>1. ASSUME NEW k \in 1..Len(fifo) \ {i}
          PROVE  phase'[fifo[k]] = "queued"
      <4>1. fifo[k] # fifo[i] /\ phase[fifo[k]] = "queued" /\ fifo[k] \in Requests
        BY <2>1 DEF QueuePlaces
      <4> QED BY <1>4, <4>1
    <3> QED BY <2>2, <3>1
  <2>4. ASSUME NEW j \in 1..Len(fifo'), NEW k \in 1..Len(fifo'), fifo'[j] = fifo'[k]
        PROVE  j = k
    BY <1>2, <2>1, <2>4 DEF QueuePlaces
  <2> QED BY <2>3, <2>4 DEF QueuePlaces
<1> QED BY <1>1, <1>2, <1>3, <1>5

(* A mutex request that executes is still counted, so no receive thread    *)
(* can have found mutexCount at 0.                                         *)
LEMMA IInvExclusion == ASSUME BrokerAssumption, IInv PROVE MutexExclusion
<1> SUFFICES ASSUME mpc = "exec", mreq \in MutexReqs
             PROVE  Threads = {} /\ \A r \in Receivers : rpc[r] \notin {"spawn", "create"}
  BY DEF MutexExclusion
<1>1. mreq \in Mutexes
  BY DEF IInv, MainPlace, Mutexes
<1>2. mutexCount # 0
  BY <1>1, PhaseSetsFinite, FS_EmptySet DEF IInv, CountersExact
<1> QED BY <1>2 DEF IInv, Alone, LockHeld

(* Initially nothing is counted and no request is anywhere.                *)
LEMMA InitIInv == ASSUME BrokerAssumption, Init PROVE IInv
<1>1. TypeOK
  <2>1. peer \in [Peers -> Receivers \cup {None}]
    BY DEF Init
  <2>2. fifo \in Seq(Requests) /\ concPendings \in Nat /\ instanceCount \in Nat
        /\ mutexCount \in Nat
    BY DEF Init
  <2>3. phase \in [Requests -> Phases] /\ rpc \in [Receivers -> RecvLocs]
        /\ rreq \in [Receivers -> Requests \cup {None}]
    BY DEF Init, Phases, RecvLocs
  <2>4. handed \in 0..MaxHanded
    BY DEF Init, BrokerAssumption
  <2>5. state \in {"RUNNING", "ABORT", "EXIT"} /\ mpc \in MainLocs
    BY DEF Init, MainLocs
  <2>6. /\ obj \in BOOLEAN /\ mutexLock \in Receivers \cup {None}
        /\ mreq \in Requests \cup {None}
    BY Zenon DEF Init
  <2>7. refcount \in Int /\ uncounted \in Nat /\ answer \in {"none", "inactive", "over"}
    BY DEF Init
  <2> QED BY <2>1, <2>2, <2>3, <2>4, <2>5, <2>6, <2>7 DEF TypeOK
<1>2. Threads = {} /\ Mutexes = {}
  BY DEF Init, Threads, Mutexes, Requests
<1>3. CountersExact
  BY <1>2, FS_EmptySet DEF CountersExact, Init
<1>4. ReceiverPlaces /\ MainPlace /\ QueuePlaces /\ LockHeld /\ Alone
  BY DEF Init, ReceiverPlaces, MainPlace, QueuePlaces, LockHeld, Alone, Handling
<1> QED BY <1>1, <1>3, <1>4 DEF IInv

(* A method that returns leaves the object's variables of their types.     *)
LEMMA InvokeReturnsTypes ==
  ASSUME BrokerAssumption, TypeOK, InvokeReturns
  PROVE  /\ obj' \in BOOLEAN /\ refcount' \in Int /\ uncounted' \in Nat
         /\ answer' \in {"none", "inactive", "over"}
<1>1. \/ obj' = TRUE /\ refcount' = 1 /\ uncounted' = Cardinality(Open)
      \/ UNCHANGED <<obj, refcount, uncounted>>
  BY Zenon DEF InvokeReturns, Construct
<1>2. obj' \in BOOLEAN
  BY <1>1, Zenon DEF TypeOK
<1>3. refcount' \in Int /\ uncounted' \in Nat
  BY <1>1, OpenFacts DEF TypeOK
<1>4. answer' \in {"none", "inactive", "over"}
  BY DEF InvokeReturns, Activity, TypeOK
<1> QED BY <1>2, <1>3, <1>4

(* Every step preserves it, an action at a time.  A request that moves is  *)
(* in at most one place (ReceiverPlaces, MainPlace, QueuePlaces), so the   *)
(* other places are not disturbed; a counter changes by what MoveFacts     *)
(* says of the set it counts.                                              *)
LEMMA StepIInv == ASSUME BrokerAssumption, IInv, [Next]_vars PROVE IInv'
<1> USE DEF IInv, objVars, netVars, fifoVars, lockVars, recvVars, mainVars
<1>1. ASSUME NEW r \in Receivers, NEW c \in Peers, OnNewConnection(r, c) PROVE IInv'
  <2>1. TypeOK'
    BY <1>1 DEF OnNewConnection, TypeOK
  <2>2. Threads' = Threads /\ Mutexes' = Mutexes /\ CountersExact' /\ QueuePlaces'
    BY <1>1 DEF OnNewConnection, CountersExact, QueuePlaces, Threads, Mutexes
  <2>3. ReceiverPlaces'
    BY <1>1 DEF OnNewConnection, ReceiverPlaces, TypeOK, Handling
  <2>4. MainPlace'
    BY <1>1 DEF OnNewConnection, MainPlace, TypeOK
  <2>5. LockHeld'
    BY <1>1 DEF OnNewConnection, LockHeld, TypeOK
  <2>6. Alone'
    BY <1>1, <2>2 DEF OnNewConnection, Alone, MainPlace, TypeOK
  <2> QED BY <2>1, <2>2, <2>3, <2>4, <2>5, <2>6
<1>2. ASSUME NEW r \in Receivers, NEW c \in Peers, OnCloseConnection(r, c) PROVE IInv'
  <2>1. TypeOK'
    BY <1>2 DEF OnCloseConnection, TypeOK, Goto, RecvLocs
  <2>2. Threads' = Threads /\ Mutexes' = Mutexes /\ CountersExact' /\ QueuePlaces'
    BY <1>2 DEF OnCloseConnection, CountersExact, QueuePlaces, Threads, Mutexes
  <2>3. ReceiverPlaces'
    BY <1>2 DEF OnCloseConnection, ReceiverPlaces, TypeOK, Goto, Handling
  <2>4. MainPlace'
    BY <1>2 DEF OnCloseConnection, MainPlace, TypeOK, Goto
  <2>5. LockHeld'
    BY <1>2 DEF OnCloseConnection, LockHeld, TypeOK, Goto
  <2>6. Alone'
    BY <1>2, <2>2 DEF OnCloseConnection, Alone, MainPlace, TypeOK
  <2> QED BY <2>1, <2>2, <2>3, <2>4, <2>5, <2>6
<1>3. ASSUME NEW r \in Receivers, AddRef(r) PROVE IInv'
  <2>1. TypeOK'
    BY <1>3 DEF AddRef, TypeOK, Goto, RecvLocs
  <2>2. Threads' = Threads /\ Mutexes' = Mutexes /\ CountersExact' /\ QueuePlaces'
    BY <1>3 DEF AddRef, CountersExact, QueuePlaces, Threads, Mutexes
  <2>3. ReceiverPlaces'
    BY <1>3 DEF AddRef, ReceiverPlaces, TypeOK, Goto, Handling
  <2>4. MainPlace'
    BY <1>3 DEF AddRef, MainPlace, TypeOK, Goto
  <2>5. LockHeld'
    BY <1>3 DEF AddRef, LockHeld, TypeOK, Goto
  <2>6. Alone'
    BY <1>3, <2>2 DEF AddRef, Alone, MainPlace, TypeOK
  <2> QED BY <2>1, <2>2, <2>3, <2>4, <2>5, <2>6
<1>4. ASSUME NEW r \in Receivers, DecRef(r) PROVE IInv'
  <2>1. TypeOK'
    BY <1>4 DEF DecRef, TypeOK, Goto, RecvLocs
  <2>2. Threads' = Threads /\ Mutexes' = Mutexes /\ CountersExact' /\ QueuePlaces'
    BY <1>4 DEF DecRef, CountersExact, QueuePlaces, Threads, Mutexes
  <2>3. ReceiverPlaces'
    BY <1>4 DEF DecRef, ReceiverPlaces, TypeOK, Goto, Handling
  <2>4. MainPlace'
    BY <1>4 DEF DecRef, MainPlace, TypeOK, Goto
  <2>5. LockHeld'
    BY <1>4 DEF DecRef, LockHeld, TypeOK, Goto
  <2>6. Alone'
    BY <1>4, <2>2 DEF DecRef, Alone, MainPlace, TypeOK
  <2> QED BY <2>1, <2>2, <2>3, <2>4, <2>5, <2>6
<1>5. ASSUME NEW r \in Receivers, Query(r) PROVE IInv'
  <2>1. TypeOK'
    BY <1>5 DEF Query, TypeOK, Goto, RecvLocs
  <2>2. Threads' = Threads /\ Mutexes' = Mutexes /\ CountersExact' /\ QueuePlaces'
    BY <1>5 DEF Query, CountersExact, QueuePlaces, Threads, Mutexes
  <2>3. ReceiverPlaces'
    BY <1>5 DEF Query, ReceiverPlaces, TypeOK, Goto, Handling
  <2>4. MainPlace'
    BY <1>5 DEF Query, MainPlace, TypeOK, Goto
  <2>5. LockHeld'
    BY <1>5 DEF Query, LockHeld, TypeOK, Goto
  <2>6. Alone'
    BY <1>5, <2>2 DEF Query, Alone, MainPlace, TypeOK
  <2> QED BY <2>1, <2>2, <2>3, <2>4, <2>5, <2>6
<1>36. ASSUME NEW r \in Receivers, MonitorAsks(r) PROVE IInv'
  <2>1. TypeOK'
    BY <1>36 DEF MonitorAsks, Activity, TypeOK, Goto, RecvLocs
  <2>2. Threads' = Threads /\ Mutexes' = Mutexes /\ CountersExact' /\ QueuePlaces'
    BY <1>36 DEF MonitorAsks, CountersExact, QueuePlaces, Threads, Mutexes
  <2>3. ReceiverPlaces'
    BY <1>36 DEF MonitorAsks, ReceiverPlaces, TypeOK, Goto, Handling
  <2>4. MainPlace'
    BY <1>36 DEF MonitorAsks, MainPlace, TypeOK, Goto
  <2>5. LockHeld'
    BY <1>36 DEF MonitorAsks, LockHeld, TypeOK, Goto
  <2>6. Alone'
    BY <1>36, <2>2 DEF MonitorAsks, Alone, MainPlace, TypeOK
  <2> QED BY <2>1, <2>2, <2>3, <2>4, <2>5, <2>6
<1>37. ASSUME NEW r \in Receivers, MonitorDecRef(r) PROVE IInv'
  <2>1. TypeOK'
    BY <1>37 DEF MonitorDecRef, TypeOK, Goto, RecvLocs
  <2>2. Threads' = Threads /\ Mutexes' = Mutexes /\ CountersExact' /\ QueuePlaces'
    BY <1>37 DEF MonitorDecRef, CountersExact, QueuePlaces, Threads, Mutexes
  <2>3. ReceiverPlaces'
    BY <1>37 DEF MonitorDecRef, ReceiverPlaces, TypeOK, Goto, Handling
  <2>4. MainPlace'
    BY <1>37 DEF MonitorDecRef, MainPlace, TypeOK, Goto
  <2>5. LockHeld'
    BY <1>37 DEF MonitorDecRef, LockHeld, TypeOK, Goto
  <2>6. Alone'
    BY <1>37, <2>2 DEF MonitorDecRef, Alone, MainPlace, TypeOK
  <2> QED BY <2>1, <2>2, <2>3, <2>4, <2>5, <2>6
<1>6. ASSUME NEW r \in Receivers, Notify(r) PROVE IInv'
  <2>1. TypeOK'
    BY <1>6, WokenFacts DEF Notify, TypeOK, Goto, Broadcast, NextRequest,
       RecvLocs, MainLocs
  <2>2. Threads' = Threads /\ Mutexes' = Mutexes /\ CountersExact' /\ QueuePlaces'
    BY <1>6 DEF Notify, CountersExact, QueuePlaces, Threads, Mutexes
  <2>3. ReceiverPlaces'
    BY <1>6 DEF Notify, ReceiverPlaces, TypeOK, Goto, NextRequest, Handling
  <2>4. MainPlace'
    BY <1>6, WokenFacts DEF Notify, MainPlace, TypeOK, Goto, NextRequest, Broadcast
  <2>5. LockHeld'
    BY <1>6 DEF Notify, LockHeld, TypeOK, Goto, NextRequest
  <2>6. Alone'
    BY <1>6, <2>2, WokenFacts DEF Notify, Alone, MainPlace, TypeOK, Broadcast
  <2> QED BY <2>1, <2>2, <2>3, <2>4, <2>5, <2>6
<1>7. ASSUME NEW r \in Receivers, LockConc(r) PROVE IInv'
  <2>1. TypeOK'
    BY <1>7 DEF LockConc, TypeOK, Goto, RecvLocs
  <2>2. Threads' = Threads /\ Mutexes' = Mutexes /\ CountersExact' /\ QueuePlaces'
    BY <1>7 DEF LockConc, CountersExact, QueuePlaces, Threads, Mutexes
  <2>3. ReceiverPlaces'
    BY <1>7 DEF LockConc, ReceiverPlaces, TypeOK, Goto, Handling
  <2>4. MainPlace'
    BY <1>7 DEF LockConc, MainPlace, TypeOK, Goto
  <2>5. LockHeld'
    BY <1>7 DEF LockConc, LockHeld, TypeOK, Goto
  <2>6. Alone'
    BY <1>7, <2>2 DEF LockConc, Alone, MainPlace, TypeOK
  <2> QED BY <2>1, <2>2, <2>3, <2>4, <2>5, <2>6
<1>8. ASSUME NEW r \in Receivers, IncPendings(r) PROVE IInv'
  <2>1. TypeOK'
    BY <1>8 DEF IncPendings, TypeOK, Goto, NextRequest, RecvLocs
  <2>2. Threads' = Threads /\ Mutexes' = Mutexes /\ CountersExact' /\ QueuePlaces'
    BY <1>8 DEF IncPendings, CountersExact, QueuePlaces, Threads, Mutexes
  <2>3. ReceiverPlaces'
    BY <1>8 DEF IncPendings, ReceiverPlaces, TypeOK, Goto, NextRequest, Handling
  <2>4. MainPlace'
    BY <1>8 DEF IncPendings, MainPlace, TypeOK, Goto, NextRequest
  <2>5. LockHeld'
    BY <1>8 DEF IncPendings, LockHeld, TypeOK, Goto, NextRequest
  <2>6. Alone'
    BY <1>8, <2>2 DEF IncPendings, Alone, MainPlace, TypeOK
  <2> QED BY <2>1, <2>2, <2>3, <2>4, <2>5, <2>6
<1>9. ASSUME NEW r \in Receivers, Throttle(r) PROVE IInv'
  <2>1. TypeOK'
    BY <1>9 DEF Throttle, TypeOK, Goto, NextRequest, RecvLocs
  <2>2. Threads' = Threads /\ Mutexes' = Mutexes /\ CountersExact' /\ QueuePlaces'
    BY <1>9 DEF Throttle, CountersExact, QueuePlaces, Threads, Mutexes
  <2>3. ReceiverPlaces'
    BY <1>9 DEF Throttle, ReceiverPlaces, TypeOK, Goto, NextRequest, Handling
  <2>4. MainPlace'
    BY <1>9 DEF Throttle, MainPlace, TypeOK, Goto, NextRequest
  <2>5. LockHeld'
    BY <1>9 DEF Throttle, LockHeld, TypeOK, Goto, NextRequest
  <2>6. Alone'
    BY <1>9, <2>2 DEF Throttle, Alone, MainPlace, TypeOK
  <2> QED BY <2>1, <2>2, <2>3, <2>4, <2>5, <2>6
<1>10. ASSUME GetEmpty PROVE IInv'
  <2>1. TypeOK'
    BY <1>10 DEF GetEmpty, TypeOK, MainLocs
  <2>2. Threads' = Threads /\ Mutexes' = Mutexes /\ CountersExact' /\ QueuePlaces'
    BY <1>10 DEF GetEmpty, CountersExact, QueuePlaces, Threads, Mutexes
  <2>3. ReceiverPlaces'
    BY <1>10 DEF GetEmpty, ReceiverPlaces, TypeOK, Handling
  <2>4. MainPlace'
    BY <1>10 DEF GetEmpty, MainPlace, TypeOK
  <2>5. LockHeld'
    BY <1>10 DEF GetEmpty, LockHeld, TypeOK
  <2>6. Alone'
    BY <1>10, <2>2 DEF GetEmpty, Alone, MainPlace, TypeOK
  <2> QED BY <2>1, <2>2, <2>3, <2>4, <2>5, <2>6
<1>11. ASSUME Block PROVE IInv'
  <2>1. TypeOK'
    BY <1>11 DEF Block, TypeOK, MainLocs
  <2>2. Threads' = Threads /\ Mutexes' = Mutexes /\ CountersExact' /\ QueuePlaces'
    BY <1>11 DEF Block, CountersExact, QueuePlaces, Threads, Mutexes
  <2>3. ReceiverPlaces'
    BY <1>11 DEF Block, ReceiverPlaces, TypeOK, Handling
  <2>4. MainPlace'
    BY <1>11 DEF Block, MainPlace, TypeOK
  <2>5. LockHeld'
    BY <1>11 DEF Block, LockHeld, TypeOK
  <2>6. Alone'
    BY <1>11, <2>2 DEF Block, Alone, MainPlace, TypeOK
  <2> QED BY <2>1, <2>2, <2>3, <2>4, <2>5, <2>6
<1>12. ASSUME Exclusive PROVE IInv'
  <2>1. TypeOK'
    BY <1>12 DEF Exclusive, TypeOK, MainLocs
  <2>2. Threads' = Threads /\ Mutexes' = Mutexes /\ CountersExact' /\ QueuePlaces'
    BY <1>12 DEF Exclusive, CountersExact, QueuePlaces, Threads, Mutexes
  <2>3. ReceiverPlaces'
    BY <1>12 DEF Exclusive, ReceiverPlaces, TypeOK, Handling
  <2>4. MainPlace'
    BY <1>12 DEF Exclusive, MainPlace, TypeOK
  <2>5. LockHeld'
    BY <1>12 DEF Exclusive, LockHeld, TypeOK
  <2>6. Alone'
    <3>1. instanceCount = 0 => Threads = {}
      BY PhaseSetsFinite, FS_EmptySet DEF CountersExact
    <3>2. mpc' = "exec" => instanceCount = 0
      BY <1>12 DEF Exclusive, TypeOK
    <3> QED BY <2>2, <3>1, <3>2 DEF Alone
  <2> QED BY <2>1, <2>2, <2>3, <2>4, <2>5, <2>6
<1>13. ASSUME Drain PROVE IInv'
  <2>1. TypeOK'
    BY <1>13 DEF Drain, TypeOK, MainLocs, StopServing
  <2>2. Threads' = Threads /\ Mutexes' = Mutexes /\ CountersExact' /\ QueuePlaces'
    BY <1>13 DEF Drain, CountersExact, QueuePlaces, Threads, Mutexes
  <2>3. ReceiverPlaces'
    BY <1>13 DEF Drain, ReceiverPlaces, TypeOK, Handling
  <2>4. MainPlace'
    BY <1>13 DEF Drain, MainPlace, TypeOK, StopServing
  <2>5. LockHeld'
    BY <1>13 DEF Drain, LockHeld, TypeOK
  <2>6. Alone'
    BY <1>13, <2>2 DEF Drain, Alone, MainPlace, TypeOK, StopServing
  <2> QED BY <2>1, <2>2, <2>3, <2>4, <2>5, <2>6
<1>14. ASSUME SkipDrain PROVE IInv'
  <2>1. TypeOK'
    BY <1>14 DEF SkipDrain, TypeOK, MainLocs, StopServing
  <2>2. Threads' = Threads /\ Mutexes' = Mutexes /\ CountersExact' /\ QueuePlaces'
    BY <1>14 DEF SkipDrain, CountersExact, QueuePlaces, Threads, Mutexes
  <2>3. ReceiverPlaces'
    BY <1>14 DEF SkipDrain, ReceiverPlaces, TypeOK, Handling
  <2>4. MainPlace'
    BY <1>14 DEF SkipDrain, MainPlace, TypeOK, StopServing
  <2>5. LockHeld'
    BY <1>14 DEF SkipDrain, LockHeld, TypeOK
  <2>6. Alone'
    BY <1>14, <2>2 DEF SkipDrain, Alone, MainPlace, TypeOK, StopServing
  <2> QED BY <2>1, <2>2, <2>3, <2>4, <2>5, <2>6
<1>15. ASSUME NEW r \in Receivers, StopReceiver(r) PROVE IInv'
  <2>1. TypeOK'
    BY <1>15 DEF StopReceiver, TypeOK, Goto, RecvLocs
  <2>2. Threads' = Threads /\ Mutexes' = Mutexes /\ CountersExact' /\ QueuePlaces'
    BY <1>15 DEF StopReceiver, CountersExact, QueuePlaces, Threads, Mutexes
  <2>3. ReceiverPlaces'
    BY <1>15 DEF StopReceiver, ReceiverPlaces, TypeOK, Goto, Handling
  <2>4. MainPlace'
    BY <1>15 DEF StopReceiver, MainPlace, TypeOK, Goto
  <2>5. LockHeld'
    BY <1>15 DEF StopReceiver, LockHeld, TypeOK, Goto
  <2>6. Alone'
    BY <1>15, <2>2 DEF StopReceiver, Alone, MainPlace, TypeOK
  <2> QED BY <2>1, <2>2, <2>3, <2>4, <2>5, <2>6
<1>16. ASSUME NEW r \in Receivers, NEW q \in Requests, ReceiveRequest(r, q)
       PROVE  IInv'
  <2>1. q \in Requests /\ Move(q, "received")
    BY <1>16 DEF ReceiveRequest, ReceiverPlaces, MainPlace, Requests
  <2>2. Moved(q, "received")
    BY <2>1, MoveFacts DEF Phases
  <2>3. QueuePlaces'
    BY <1>16, <2>2 DEF ReceiveRequest, QueuePlaces, TypeOK, ReceiverPlaces,
       MainPlace, Moved
  <2>4. CountersExact'
    <3>1. phase[q] = "new" /\ UNCHANGED <<instanceCount, mutexCount>>
      BY <1>16 DEF ReceiveRequest
    <3> QED BY <2>1, <3>1, CountersMove DEF TypeOK, Phases, InThread, IsMutex, Delta
  <2>5. TypeOK'
    BY <1>16, <2>1, <2>2, <2>3, <2>4, PhaseSetsFinite, FS_CardinalityType DEF
       ReceiveRequest, TypeOK, Goto, RecvLocs, CountersExact, Requests, Moved
  <2>6. ReceiverPlaces'
    BY <1>16, <2>1, <2>2, <2>3 DEF ReceiveRequest, ReceiverPlaces, MainPlace,
       TypeOK, Goto, Handling, BrokerAssumption, Requests, Moved
  <2>7. MainPlace'
    BY <1>16, <2>1, <2>2, <2>3 DEF ReceiveRequest, MainPlace, ReceiverPlaces,
       TypeOK, Goto, BrokerAssumption, Requests, Moved
  <2>8. LockHeld'
    BY <1>16, <2>1, <2>2, <2>3, <2>4 DEF ReceiveRequest, LockHeld, TypeOK,
       Goto, ReceiverPlaces, BrokerAssumption, Requests, Moved
  <2>9. Alone'
    BY <1>16, <2>1, <2>2, <2>3 DEF ReceiveRequest, Alone, Moved, InThread
  <2> QED BY <2>2, <2>3, <2>4, <2>5, <2>6, <2>7, <2>8, <2>9
<1>17. ASSUME NEW r \in Receivers, CountMutex(r) PROVE IInv'
  <2>1. rreq[r] \in Requests /\ Move(rreq[r], "counted")
    BY <1>17 DEF CountMutex, ReceiverPlaces, MainPlace, Requests
  <2>2. Moved(rreq[r], "counted")
    BY <2>1, MoveFacts DEF Phases
  <2>3. QueuePlaces'
    BY <1>17, <2>2 DEF CountMutex, QueuePlaces, TypeOK, ReceiverPlaces,
       MainPlace, Moved
  <2>4. CountersExact'
    BY <1>17, <2>1, <2>2, CountersMove DEF CountMutex, TypeOK, ReceiverPlaces,
       MainPlace, BrokerAssumption, Requests, Phases, InThread, IsMutex, Delta,
       Moved
  <2>5. TypeOK'
    BY <1>17, <2>1, <2>2, <2>3, <2>4, PhaseSetsFinite, FS_CardinalityType DEF
       CountMutex, TypeOK, Goto, RecvLocs, CountersExact, Moved
  <2>6. ReceiverPlaces'
    BY <1>17, <2>1, <2>2, <2>3 DEF CountMutex, ReceiverPlaces, MainPlace,
       TypeOK, Goto, Handling, BrokerAssumption, Requests, Moved
  <2>7. MainPlace'
    BY <1>17, <2>1, <2>2, <2>3 DEF CountMutex, MainPlace, ReceiverPlaces,
       TypeOK, Goto, BrokerAssumption, Requests, Moved
  <2>8. LockHeld'
    BY <1>17, <2>1, <2>2, <2>3, <2>4 DEF CountMutex, LockHeld, TypeOK, Goto,
       ReceiverPlaces, BrokerAssumption, Requests, Moved
  <2>9. Alone'
    BY <1>17, <2>1, <2>2, <2>3 DEF CountMutex, Alone, Moved, InThread
  <2> QED BY <2>2, <2>3, <2>4, <2>5, <2>6, <2>7, <2>8, <2>9
<1>18. ASSUME NEW r \in Receivers, Spawn(r) PROVE IInv'
  <2>1. rreq[r] \in Requests /\ Move(rreq[r], "spawned")
    BY <1>18 DEF Spawn, ReceiverPlaces, MainPlace, Requests
  <2>2. Moved(rreq[r], "spawned")
    BY <2>1, MoveFacts DEF Phases
  <2>3. QueuePlaces'
    BY <1>18, <2>2 DEF Spawn, QueuePlaces, TypeOK, ReceiverPlaces, MainPlace,
       Moved
  <2>4. CountersExact'
    BY <1>18, <2>1, <2>2, CountersMove DEF Spawn, TypeOK, ReceiverPlaces,
       MainPlace, BrokerAssumption, Requests, Phases, InThread, IsMutex, Delta,
       Moved
  <2>5. TypeOK'
    BY <1>18, <2>1, <2>2, <2>3, <2>4, PhaseSetsFinite, FS_CardinalityType DEF
       Spawn, TypeOK, Goto, RecvLocs, CountersExact, Moved
  <2>6. ReceiverPlaces'
    BY <1>18, <2>1, <2>2, <2>3 DEF Spawn, ReceiverPlaces, MainPlace, TypeOK,
       Goto, Handling, BrokerAssumption, Requests, Moved
  <2>7. MainPlace'
    BY <1>18, <2>1, <2>2, <2>3 DEF Spawn, MainPlace, ReceiverPlaces, TypeOK,
       Goto, BrokerAssumption, Requests, Moved
  <2>8. LockHeld'
    BY <1>18, <2>1, <2>2, <2>3, <2>4 DEF Spawn, LockHeld, TypeOK, Goto,
       ReceiverPlaces, BrokerAssumption, Requests, Moved
  <2>9. Alone'
    BY <1>18, IInvExclusion DEF Spawn, Alone, MutexExclusion
  <2> QED BY <2>2, <2>3, <2>4, <2>5, <2>6, <2>7, <2>8, <2>9
<1>19. ASSUME NEW r \in Receivers, Create(r) PROVE IInv'
  <2>1. rreq[r] \in Requests /\ Move(rreq[r], "running")
    BY <1>19 DEF Create, ReceiverPlaces, MainPlace, Requests
  <2>2. Moved(rreq[r], "running")
    BY <2>1, MoveFacts DEF Phases
  <2>3. QueuePlaces'
    BY <1>19, <2>2 DEF Create, QueuePlaces, TypeOK, ReceiverPlaces, MainPlace,
       Moved
  <2>4. CountersExact'
    BY <1>19, <2>1, <2>2, CountersMove DEF Create, TypeOK, ReceiverPlaces,
       MainPlace, BrokerAssumption, Requests, Phases, InThread, IsMutex, Delta,
       Moved
  <2>5. TypeOK'
    BY <1>19, <2>1, <2>2, <2>3, <2>4, PhaseSetsFinite, FS_CardinalityType DEF
       Create, TypeOK, Goto, NextRequest, RecvLocs, CountersExact, Moved
  <2>6. ReceiverPlaces'
    BY <1>19, <2>1, <2>2, <2>3 DEF Create, ReceiverPlaces, MainPlace, TypeOK,
       Goto, NextRequest, Handling, BrokerAssumption, Requests, Moved
  <2>7. MainPlace'
    BY <1>19, <2>1, <2>2, <2>3 DEF Create, MainPlace, ReceiverPlaces, TypeOK,
       Goto, NextRequest, BrokerAssumption, Requests, Moved
  <2>8. LockHeld'
    BY <1>19, <2>1, <2>2, <2>3, <2>4 DEF Create, LockHeld, TypeOK, Goto,
       NextRequest, ReceiverPlaces, BrokerAssumption, Requests, Moved
  <2>9. Alone'
    BY <1>19, IInvExclusion DEF Create, Alone, MutexExclusion
  <2> QED BY <2>2, <2>3, <2>4, <2>5, <2>6, <2>7, <2>8, <2>9
<1>20. ASSUME NEW r \in Receivers, CreateFails(r) PROVE IInv'
  <2>1. rreq[r] \in Requests /\ Move(rreq[r], "done")
    BY <1>20 DEF CreateFails, ReceiverPlaces, MainPlace, Requests
  <2>2. Moved(rreq[r], "done")
    BY <2>1, MoveFacts DEF Phases
  <2>3. QueuePlaces'
    BY <1>20, <2>2 DEF CreateFails, QueuePlaces, TypeOK, ReceiverPlaces,
       MainPlace, Moved
  <2>4. CountersExact'
    BY <1>20, <2>1, <2>2, CountersMove DEF CreateFails, TypeOK, ReceiverPlaces,
       MainPlace, BrokerAssumption, Requests, Phases, InThread, IsMutex, Delta,
       Moved
  <2>5. TypeOK'
    BY <1>20, <2>1, <2>2, <2>3, <2>4, WokenFacts, PhaseSetsFinite,
       FS_CardinalityType DEF CreateFails, TypeOK, Goto, Broadcast,
       NextRequest, RecvLocs, MainLocs, CountersExact, Moved
  <2>6. ReceiverPlaces'
    BY <1>20, <2>1, <2>2, <2>3 DEF CreateFails, ReceiverPlaces, MainPlace,
       TypeOK, Goto, NextRequest, Handling, BrokerAssumption, Requests, Moved
  <2>7. MainPlace'
    BY <1>20, <2>1, <2>2, <2>3, WokenFacts DEF CreateFails, MainPlace,
       ReceiverPlaces, TypeOK, Goto, NextRequest, Broadcast, BrokerAssumption,
       Requests, Moved
  <2>8. LockHeld'
    BY <1>20, <2>1, <2>2, <2>3, <2>4 DEF CreateFails, LockHeld, TypeOK, Goto,
       NextRequest, ReceiverPlaces, BrokerAssumption, Requests, Moved
  <2>9. Alone'
    <3>1. mpc' = "exec" => mpc = "exec" /\ mreq' = mreq
      BY <1>20, WokenFacts DEF CreateFails, TypeOK, Broadcast
    <3>2. Threads = {} => Threads' = {}
      BY <1>20, <2>1, <2>2 DEF CreateFails, Threads, Moved
    <3> QED BY <3>1, <3>2 DEF Alone
  <2> QED BY <2>2, <2>3, <2>4, <2>5, <2>6, <2>7, <2>8, <2>9
<1>21. ASSUME NEW r \in Receivers, Enqueue(r) PROVE IInv'
  <2>1. rreq[r] \in Requests /\ Move(rreq[r], "queued")
    BY <1>21 DEF Enqueue, ReceiverPlaces, MainPlace, Requests
  <2>2. Moved(rreq[r], "queued")
    BY <2>1, MoveFacts DEF Phases
  <2>3. QueuePlaces'
    <3>1. phase[rreq[r]] \in {"received", "counted"} /\ rreq[r] \in Requests
      BY <1>21, <2>1 DEF Enqueue, ReceiverPlaces
    <3>2. /\ fifo \in Seq(Requests) /\ Len(fifo) \in Nat
          /\ \A i \in 1..Len(fifo) : fifo[i] \in Requests
      BY LenProperties, ElementOfSeq DEF TypeOK
    <3>3. /\ Len(fifo') = Len(fifo) + 1 /\ fifo'[Len(fifo) + 1] = rreq[r]
          /\ \A i \in 1..Len(fifo) : fifo'[i] = fifo[i]
      BY <1>21, <3>1, <3>2, AppendProperties DEF Enqueue
    <3>4. \A i \in 1..Len(fifo) : fifo[i] # rreq[r] /\ phase[fifo[i]] = "queued"
      BY <3>1 DEF QueuePlaces
    <3>5. \A i \in 1..Len(fifo') : phase'[fifo'[i]] = "queued"
      BY <2>2, <3>1, <3>2, <3>3, <3>4 DEF Moved
    <3>6. ASSUME NEW i \in 1..Len(fifo'), NEW j \in 1..Len(fifo'), fifo'[i] = fifo'[j]
          PROVE  i = j
      BY <3>2, <3>3, <3>4, <3>6 DEF QueuePlaces
    <3> QED BY <3>5, <3>6 DEF QueuePlaces
  <2>4. CountersExact'
    BY SMTT(30), <1>21, <2>1, <2>2, CountersMove DEF Enqueue, TypeOK, ReceiverPlaces,
       MainPlace, BrokerAssumption, Requests, Phases, InThread, IsMutex, Delta,
       Moved
  <2>5. TypeOK'
    BY <1>21, <2>1, <2>2, <2>3, <2>4, WokenFacts, PhaseSetsFinite,
       FS_CardinalityType DEF Enqueue, TypeOK, Goto, Broadcast, NextRequest,
       RecvLocs, MainLocs, CountersExact, Moved
  <2>6. ReceiverPlaces'
    BY <1>21, <2>1, <2>2, <2>3 DEF Enqueue, ReceiverPlaces, MainPlace, TypeOK,
       Goto, NextRequest, Handling, BrokerAssumption, Requests, Moved
  <2>7. MainPlace'
    BY <1>21, <2>1, <2>2, <2>3, WokenFacts DEF Enqueue, MainPlace,
       ReceiverPlaces, TypeOK, Goto, NextRequest, Broadcast, BrokerAssumption,
       Requests, Moved
  <2>8. LockHeld'
    BY <1>21, <2>1, <2>2, <2>3, <2>4 DEF Enqueue, LockHeld, TypeOK, Goto,
       NextRequest, ReceiverPlaces, BrokerAssumption, Requests, Moved
  <2>9. Alone'
    <3>1. mpc' = "exec" => mpc = "exec" /\ mreq' = mreq
      BY <1>21, WokenFacts DEF Enqueue, TypeOK, Broadcast
    <3>2. Threads = {} => Threads' = {}
      BY <1>21, <2>1, <2>2 DEF Enqueue, Threads, Moved
    <3> QED BY <3>1, <3>2 DEF Alone
  <2> QED BY <2>2, <2>3, <2>4, <2>5, <2>6, <2>7, <2>8, <2>9
<1>22. ASSUME TakeConc PROVE IInv'
  <2>1. PICK i \in 1..Len(fifo) : TakeOut(i) /\ (fifo[i] \in ConcReqs)
    BY <1>22 DEF TakeConc, Overtakes, TypeOK
  <2>2. /\ mreq' \in Requests /\ phase[mreq'] = "queued" /\ Move(mreq', "taken")
        /\ fifo' \in Seq(Requests) /\ QueuePlaces' /\ mreq' = fifo[i]
    BY <2>1, TakeOutFacts
  <2>3. Moved(mreq', "taken")
    BY <2>2, MoveFacts DEF Phases
  <2>4. CountersExact'
    BY <1>22, <2>1, <2>2, CountersMove DEF TakeConc, TypeOK, MainPlace,
       BrokerAssumption, Requests, Phases, InThread, IsMutex, Delta
  <2>5. TypeOK'
    BY <1>22, <2>1, <2>2, <2>3, <2>4, PhaseSetsFinite, FS_CardinalityType DEF
       TakeConc, TypeOK, MainLocs, CountersExact, Moved
  <2>6. ReceiverPlaces'
    BY <1>22, <2>1, <2>2, <2>3 DEF TakeConc, ReceiverPlaces, MainPlace, TypeOK,
       Handling, BrokerAssumption, Requests, Moved
  <2>7. MainPlace'
    BY <1>22, <2>1, <2>2, <2>3 DEF TakeConc, MainPlace, TypeOK,
       BrokerAssumption, Requests, Moved
  <2>8. LockHeld'
    BY <1>22, <2>1, <2>2, <2>3, <2>4 DEF TakeConc, LockHeld, TypeOK,
       BrokerAssumption, Requests, Moved
  <2>9. Alone'
    BY <1>22, <2>1, <2>2, <2>3 DEF TakeConc, Alone, Moved
  <2> QED BY <2>2, <2>3, <2>4, <2>5, <2>6, <2>7, <2>8, <2>9
<1>23. ASSUME NEW r \in Receivers, TakeConcRacing(r) PROVE IInv'
  <2>1. PICK i \in 1..Len(fifo) : TakeOut(i) /\ (fifo[i] \in ConcReqs)
    BY <1>23 DEF TakeConcRacing, Overtakes, TypeOK
  <2>2. /\ mreq' \in Requests /\ phase[mreq'] = "queued" /\ Move(mreq', "taken")
        /\ fifo' \in Seq(Requests) /\ QueuePlaces' /\ mreq' = fifo[i]
    BY <2>1, TakeOutFacts
  <2>3. Moved(mreq', "taken")
    BY <2>2, MoveFacts DEF Phases
  <2>4. CountersExact'
    BY <1>23, <2>1, <2>2, CountersMove DEF TakeConcRacing, TypeOK,
       ReceiverPlaces, MainPlace, BrokerAssumption, Requests, Phases,
       InThread, IsMutex, Delta
  <2>5. TypeOK'
    BY <1>23, <2>1, <2>2, <2>3, <2>4, PhaseSetsFinite, FS_CardinalityType DEF
       TakeConcRacing, TypeOK, Goto, NextRequest, RecvLocs, MainLocs,
       CountersExact, Moved
  <2>6. ReceiverPlaces'
    BY <1>23, <2>1, <2>2, <2>3 DEF TakeConcRacing, ReceiverPlaces, MainPlace,
       TypeOK, Goto, NextRequest, Handling, BrokerAssumption, Requests, Moved
  <2>7. MainPlace'
    BY <1>23, <2>1, <2>2, <2>3 DEF TakeConcRacing, MainPlace, ReceiverPlaces,
       TypeOK, Goto, NextRequest, BrokerAssumption, Requests, Moved
  <2>8. LockHeld'
    BY <1>23, <2>1, <2>2, <2>3, <2>4 DEF TakeConcRacing, LockHeld, TypeOK,
       Goto, NextRequest, ReceiverPlaces, BrokerAssumption, Requests, Moved
  <2>9. Alone'
    BY <1>23, <2>1, <2>2, <2>3 DEF TakeConcRacing, Alone, Moved
  <2> QED BY <2>2, <2>3, <2>4, <2>5, <2>6, <2>7, <2>8, <2>9
<1>24. ASSUME TakeHead PROVE IInv'
  <2>1. PICK i \in 1..Len(fifo) : TakeOut(i) /\ (i = 1)
    BY <1>24 DEF TakeHead, Overtakes, TypeOK
  <2>2. /\ mreq' \in Requests /\ phase[mreq'] = "queued" /\ Move(mreq', "taken")
        /\ fifo' \in Seq(Requests) /\ QueuePlaces' /\ mreq' = fifo[i]
    BY <2>1, TakeOutFacts
  <2>3. Moved(mreq', "taken")
    BY <2>2, MoveFacts DEF Phases
  <2>4. CountersExact'
    <3>1. instanceCount' = instanceCount /\ mutexCount' = mutexCount
      BY <1>24 DEF TakeHead
    <3>2. /\ Delta(InThread("queued"), InThread("taken")) = 0
          /\ Delta(IsMutex(mreq', "queued"), IsMutex(mreq', "taken")) = 0
      BY DEF InThread, IsMutex, Delta
    <3>3. instanceCount \in Nat /\ mutexCount \in Nat /\ "taken" \in Phases
      BY DEF TypeOK, Phases
    <3> QED BY <2>2, <3>1, <3>2, <3>3, CountersMove
  <2>5. TypeOK'
    BY <1>24, <2>1, <2>2, <2>3, <2>4, PhaseSetsFinite, FS_CardinalityType DEF
       TakeHead, TypeOK, MainLocs, CountersExact, Moved
  <2>6. ReceiverPlaces'
    BY <1>24, <2>1, <2>2, <2>3 DEF TakeHead, ReceiverPlaces, MainPlace, TypeOK,
       Handling, BrokerAssumption, Requests, Moved
  <2>7. MainPlace'
    BY <1>24, <2>1, <2>2, <2>3 DEF TakeHead, MainPlace, TypeOK,
       BrokerAssumption, Requests, Moved
  <2>8. LockHeld'
    BY <1>24, <2>1, <2>2, <2>3, <2>4 DEF TakeHead, LockHeld, TypeOK,
       BrokerAssumption, Requests, Moved
  <2>9. Alone'
    <3>1. instanceCount = 0 => Threads = {}
      BY PhaseSetsFinite, FS_EmptySet DEF CountersExact
    <3>2. mpc' = "exec" /\ mreq' \in MutexReqs => instanceCount = 0
      BY <1>24, <2>1, <2>2 DEF TakeHead, TypeOK, BrokerAssumption
    <3> QED BY <2>3, <3>1, <3>2 DEF Alone, Moved, InThread
  <2> QED BY <2>2, <2>3, <2>4, <2>5, <2>6, <2>7, <2>8, <2>9
<1>25. ASSUME MainSpawn PROVE IInv'
  <2>1. mreq \in Requests /\ Move(mreq, "spawned")
    BY <1>25 DEF MainSpawn, MainPlace, Requests
  <2>2. Moved(mreq, "spawned")
    BY <2>1, MoveFacts DEF Phases
  <2>3. QueuePlaces'
    BY <1>25, <2>2 DEF MainSpawn, QueuePlaces, TypeOK, MainPlace, Moved
  <2>4. CountersExact'
    BY <1>25, <2>1, <2>2, CountersMove DEF MainSpawn, TypeOK, MainPlace,
       BrokerAssumption, Requests, Phases, InThread, IsMutex, Delta, Moved
  <2>5. TypeOK'
    BY <1>25, <2>1, <2>2, <2>3, <2>4, PhaseSetsFinite, FS_CardinalityType DEF
       MainSpawn, TypeOK, MainLocs, CountersExact, Moved
  <2>6. ReceiverPlaces'
    BY <1>25, <2>1, <2>2, <2>3 DEF MainSpawn, ReceiverPlaces, MainPlace,
       TypeOK, Handling, BrokerAssumption, Requests, Moved
  <2>7. MainPlace'
    BY <1>25, <2>1, <2>2, <2>3 DEF MainSpawn, MainPlace, ReceiverPlaces,
       TypeOK, BrokerAssumption, Requests, Moved
  <2>8. LockHeld'
    BY <1>25, <2>1, <2>2, <2>3, <2>4 DEF MainSpawn, LockHeld, TypeOK,
       BrokerAssumption, Requests, Moved
  <2>9. Alone'
    BY <1>25, <2>1, <2>2, <2>3 DEF MainSpawn, Alone, Moved
  <2> QED BY <2>2, <2>3, <2>4, <2>5, <2>6, <2>7, <2>8, <2>9
<1>26. ASSUME MainCreate PROVE IInv'
  <2>1. mreq \in Requests /\ Move(mreq, "running")
    BY <1>26 DEF MainCreate, MainPlace, Requests
  <2>2. Moved(mreq, "running")
    BY <2>1, MoveFacts DEF Phases
  <2>3. QueuePlaces'
    BY <1>26, <2>2 DEF MainCreate, QueuePlaces, TypeOK, MainPlace, Moved
  <2>4. CountersExact'
    BY <1>26, <2>1, <2>2, CountersMove DEF MainCreate, TypeOK, MainPlace,
       BrokerAssumption, Requests, Phases, InThread, IsMutex, Delta, Moved
  <2>5. TypeOK'
    BY <1>26, <2>1, <2>2, <2>3, <2>4, PhaseSetsFinite, FS_CardinalityType DEF
       MainCreate, TypeOK, MainLocs, NextServe, CountersExact, Moved
  <2>6. ReceiverPlaces'
    BY <1>26, <2>1, <2>2, <2>3 DEF MainCreate, ReceiverPlaces, MainPlace,
       TypeOK, Handling, BrokerAssumption, Requests, Moved
  <2>7. MainPlace'
    BY <1>26, <2>1, <2>2, <2>3 DEF MainCreate, MainPlace, TypeOK, NextServe,
       BrokerAssumption, Requests, Moved
  <2>8. LockHeld'
    BY <1>26, <2>1, <2>2, <2>3, <2>4 DEF MainCreate, LockHeld, TypeOK,
       BrokerAssumption, Requests, Moved
  <2>9. Alone'
    BY <1>26, <2>1, <2>2, <2>3 DEF MainCreate, Alone, NextServe, Moved
  <2> QED BY <2>2, <2>3, <2>4, <2>5, <2>6, <2>7, <2>8, <2>9
<1>27. ASSUME MainCreateFails PROVE IInv'
  <2>1. mreq \in Requests /\ Move(mreq, "done")
    BY <1>27 DEF MainCreateFails, MainPlace, Requests
  <2>2. Moved(mreq, "done")
    BY <2>1, MoveFacts DEF Phases
  <2>3. QueuePlaces'
    <3>1. fifo' = fifo /\ phase[mreq] = "spawned"
      BY <1>27 DEF MainCreateFails, MainPlace
    <3> QED BY <2>1, <2>2, <3>1 DEF QueuePlaces, TypeOK, Moved
  <2>4. CountersExact'
    BY <1>27, <2>1, <2>2, CountersMove DEF MainCreateFails, TypeOK, MainPlace,
       BrokerAssumption, Requests, Phases, InThread, IsMutex, Delta, Moved
  <2>5. TypeOK'
    BY <1>27, <2>1, <2>2, <2>3, <2>4, PhaseSetsFinite, FS_CardinalityType DEF
       MainCreateFails, TypeOK, MainLocs, NextServe, CountersExact, Moved
  <2>6. ReceiverPlaces'
    BY <1>27, <2>1, <2>2, <2>3 DEF MainCreateFails, ReceiverPlaces, MainPlace,
       TypeOK, Handling, BrokerAssumption, Requests, Moved
  <2>7. MainPlace'
    BY <1>27, <2>1, <2>2, <2>3 DEF MainCreateFails, MainPlace, TypeOK,
       NextServe, BrokerAssumption, Requests, Moved
  <2>8. LockHeld'
    BY <1>27, <2>1, <2>2, <2>3, <2>4 DEF MainCreateFails, LockHeld, TypeOK,
       BrokerAssumption, Requests, Moved
  <2>9. Alone'
    BY <1>27, <2>1, <2>2, <2>3 DEF MainCreateFails, Alone, NextServe, Moved
  <2> QED BY <2>2, <2>3, <2>4, <2>5, <2>6, <2>7, <2>8, <2>9
<1>28. ASSUME UncountMutex PROVE IInv'
  <2>1. mreq \in Requests /\ Move(mreq, "done")
    BY <1>28 DEF UncountMutex, MainPlace, Requests
  <2>2. Moved(mreq, "done")
    BY <2>1, MoveFacts DEF Phases
  <2>3. QueuePlaces'
    BY <1>28, <2>2 DEF UncountMutex, QueuePlaces, TypeOK, MainPlace, Moved
  <2>4. CountersExact'
    BY <1>28, <2>1, <2>2, CountersMove DEF UncountMutex, TypeOK, MainPlace,
       BrokerAssumption, Requests, Phases, InThread, IsMutex, Delta, Moved
  <2>5. TypeOK'
    BY <1>28, <2>1, <2>2, <2>3, <2>4, PhaseSetsFinite, FS_CardinalityType DEF
       UncountMutex, TypeOK, MainLocs, NextServe, CountersExact, Moved
  <2>6. ReceiverPlaces'
    BY <1>28, <2>1, <2>2, <2>3 DEF UncountMutex, ReceiverPlaces, MainPlace,
       TypeOK, Handling, BrokerAssumption, Requests, Moved
  <2>7. MainPlace'
    BY <1>28, <2>1, <2>2, <2>3 DEF UncountMutex, MainPlace, TypeOK, NextServe,
       BrokerAssumption, Requests, Moved
  <2>8. LockHeld'
    BY <1>28, <2>1, <2>2, <2>3, <2>4 DEF UncountMutex, LockHeld, TypeOK,
       BrokerAssumption, Requests, Moved
  <2>9. Alone'
    BY <1>28, <2>1, <2>2, <2>3 DEF UncountMutex, Alone, NextServe, Moved
  <2> QED BY <2>2, <2>3, <2>4, <2>5, <2>6, <2>7, <2>8, <2>9
<1>29. ASSUME NEW q \in ConcReqs, ThreadReturns(q) PROVE IInv'
  <2>1. q \in Requests /\ Move(q, "ended")
    BY <1>29 DEF ThreadReturns, MainPlace, Requests
  <2>2. Moved(q, "ended")
    BY <2>1, MoveFacts DEF Phases
  <2>3. QueuePlaces'
    BY <1>29, <2>2 DEF ThreadReturns, QueuePlaces, TypeOK, MainPlace, Moved
  <2>4. CountersExact'
    BY <1>29, <2>1, <2>2, CountersMove DEF ThreadReturns, TypeOK, MainPlace,
       BrokerAssumption, Requests, Phases, InThread, IsMutex, Delta, Moved
  <2>5. TypeOK'
    BY <1>29, <2>1, <2>2, <2>3, <2>4, PhaseSetsFinite, FS_CardinalityType DEF
       ThreadReturns, TypeOK, CountersExact, DoInvoke, Moved
  <2>6. ReceiverPlaces'
    BY <1>29, <2>1, <2>2, <2>3 DEF ThreadReturns, ReceiverPlaces, MainPlace,
       TypeOK, Handling, BrokerAssumption, Requests, Moved
  <2>7. MainPlace'
    BY <1>29, <2>1, <2>2, <2>3 DEF ThreadReturns, MainPlace, TypeOK,
       BrokerAssumption, Requests, Moved
  <2>8. LockHeld'
    BY <1>29, <2>1, <2>2, <2>3, <2>4 DEF ThreadReturns, LockHeld, TypeOK,
       BrokerAssumption, Requests, Moved
  <2>9. Alone'
    <3>1. mpc' = "exec" => mpc = "exec" /\ mreq' = mreq
      BY <1>29 DEF ThreadReturns, TypeOK
    <3>2. Threads = {} => Threads' = {}
      BY <1>29, <2>1, <2>2 DEF ThreadReturns, Threads, Moved
    <3> QED BY <3>1, <3>2 DEF Alone
  <2> QED BY <2>2, <2>3, <2>4, <2>5, <2>6, <2>7, <2>8, <2>9
<1>30. ASSUME NEW q \in ConcReqs, ThreadExits(q) PROVE IInv'
  <2>1. q \in Requests /\ Move(q, "done")
    BY <1>30 DEF ThreadExits, MainPlace, Requests
  <2>2. Moved(q, "done")
    BY <2>1, MoveFacts DEF Phases
  <2>3. QueuePlaces'
    BY <1>30, <2>2 DEF ThreadExits, QueuePlaces, TypeOK, MainPlace, Moved
  <2>4. CountersExact'
    BY <1>30, <2>1, <2>2, CountersMove DEF ThreadExits, TypeOK, MainPlace,
       BrokerAssumption, Requests, Phases, InThread, IsMutex, Delta, Moved
  <2>5. TypeOK'
    BY <1>30, <2>1, <2>2, <2>3, <2>4, WokenFacts, PhaseSetsFinite,
       FS_CardinalityType DEF ThreadExits, TypeOK, Broadcast, MainLocs,
       CountersExact, Moved
  <2>6. ReceiverPlaces'
    BY <1>30, <2>1, <2>2, <2>3 DEF ThreadExits, ReceiverPlaces, MainPlace,
       TypeOK, Handling, BrokerAssumption, Requests, Moved
  <2>7. MainPlace'
    BY <1>30, <2>1, <2>2, <2>3, WokenFacts DEF ThreadExits, MainPlace, TypeOK,
       Broadcast, BrokerAssumption, Requests, Moved
  <2>8. LockHeld'
    BY <1>30, <2>1, <2>2, <2>3, <2>4 DEF ThreadExits, LockHeld, TypeOK,
       BrokerAssumption, Requests, Moved
  <2>9. Alone'
    <3>1. mpc' = "exec" => mpc = "exec" /\ mreq' = mreq
      BY <1>30, WokenFacts DEF ThreadExits, TypeOK, Broadcast
    <3>2. Threads = {} => Threads' = {}
      BY <1>30, <2>1, <2>2 DEF ThreadExits, Threads, Moved
    <3> QED BY <3>1, <3>2 DEF Alone
  <2> QED BY <2>2, <2>3, <2>4, <2>5, <2>6, <2>7, <2>8, <2>9
<1>31. ASSUME InvokeReturns PROVE IInv'
  <2>1. mreq \in Requests /\ phase[mreq] = "taken"
    BY <1>31 DEF InvokeReturns, MainPlace, Requests
  <2>2. CASE mreq \in MutexReqs
    <3>1. /\ mpc' = "uncount"
          /\ UNCHANGED <<phase, mutexCount, mutexLock, instanceCount,
                         rpc, rreq, mreq, fifo>>
      BY <1>31, <2>2 DEF InvokeReturns
    <3>2. TypeOK'
      <4>1. state' \in {"RUNNING", "ABORT", "EXIT"}
        BY <1>31 DEF InvokeReturns, TypeOK, DoInvoke
      <4>2. obj' \in BOOLEAN /\ refcount' \in Int /\ uncounted' \in Nat
            /\ answer' \in {"none", "inactive", "over"}
        BY <1>31, InvokeReturnsTypes
      <4>3. UNCHANGED <<peer, handed, fifoVars>>
        BY <1>31 DEF InvokeReturns
      <4> QED BY <3>1, <4>1, <4>2, <4>3 DEF TypeOK, MainLocs
    <3>3. /\ CountersExact' /\ QueuePlaces' /\ ReceiverPlaces'
          /\ LockHeld' /\ MainPlace' /\ Alone'
      BY <2>1, <2>2, <3>1 DEF CountersExact, QueuePlaces, ReceiverPlaces,
         LockHeld, MainPlace, Alone, Threads, Mutexes
    <3> QED BY <3>2, <3>3
  <2>3. CASE mreq \notin MutexReqs
    <3>1. /\ mpc' \in {"get", "drain"} /\ Move(mreq, "done")
          /\ UNCHANGED <<mutexCount, mutexLock, instanceCount, rpc, rreq, mreq, fifo>>
      BY <1>31, <2>3 DEF InvokeReturns, NextServe
    <3>2. /\ phase' \in [Requests -> Phases]
          /\ \A x \in Requests \ {mreq} : phase'[x] = phase[x]
      BY <2>1, <3>1, MoveFacts DEF Phases, Moved
    <3>3. TypeOK'
      <4>1. obj' \in BOOLEAN /\ refcount' \in Int /\ uncounted' \in Nat
            /\ answer' \in {"none", "inactive", "over"}
        BY <1>31, InvokeReturnsTypes
      <4>2. state' \in {"RUNNING", "ABORT", "EXIT"} /\ UNCHANGED <<peer, handed, fifoVars>>
        BY <1>31 DEF InvokeReturns, TypeOK, DoInvoke
      <4> QED BY <3>1, <3>2, <4>1, <4>2 DEF TypeOK, MainLocs
    <3>4. CountersExact'
      BY <2>1, <2>3, <3>1, CountersMove DEF TypeOK, Phases, InThread, IsMutex, Delta
    <3>5. QueuePlaces'
      BY <2>1, <3>1, <3>2 DEF QueuePlaces, TypeOK
    <3>6. ReceiverPlaces' /\ LockHeld'
      BY <2>1, <3>1, <3>2 DEF ReceiverPlaces, LockHeld, Requests
    <3>7. MainPlace' /\ Alone'
      BY <3>1 DEF MainPlace, Alone
    <3> QED BY <3>3, <3>4, <3>5, <3>6, <3>7
  <2> QED BY <2>2, <2>3
<1>32. ASSUME Gone PROVE IInv'
  <2>1. /\ phase' \in [Requests -> Phases]
        /\ \A q \in Requests : phase'[q] \in {"done", "lost"}
    BY <1>32 DEF Gone, Phases
  <2>2. TypeOK'
    BY <1>32, <2>1 DEF Gone, TypeOK, MainLocs, RecvLocs, BrokerAssumption
  <2>3. Threads' = {} /\ Mutexes' = {}
    BY <2>1 DEF Threads, Mutexes, Requests
  <2>4. CountersExact'
    BY <1>32, <2>3, FS_EmptySet DEF Gone, CountersExact
  <2>5. ReceiverPlaces' /\ MainPlace' /\ QueuePlaces' /\ LockHeld' /\ Alone'
    BY <1>32 DEF Gone, ReceiverPlaces, MainPlace, QueuePlaces, LockHeld, Alone,
       Handling
  <2> QED BY <2>2, <2>4, <2>5
<1>33. ASSUME UNCHANGED vars PROVE IInv'
  BY <1>33 DEF vars, TypeOK, CountersExact, Threads, Mutexes,
     ReceiverPlaces, MainPlace, QueuePlaces, LockHeld, Alone
<1>34. MainStep => IInv'
  BY <1>10, <1>11, <1>22, <1>24, <1>12, <1>23, <1>25, <1>26, <1>27,
     <1>31, <1>28, <1>13, <1>14, <1>32 DEF MainStep, Exit
<1>35. ASSUME NEW r \in Receivers, Serving(r) \/ Asleep(r) \/ Clients(r) PROVE IInv'
  BY <1>35, <1>6, <1>7, <1>17, <1>18, <1>19, <1>20, <1>21, <1>8, <1>9, <1>15,
     <1>1, <1>2, <1>3, <1>4, <1>5, <1>36, <1>37, <1>16 DEF Serving, Asleep, Clients
<1> QED BY <1>32, <1>33, <1>34, <1>35, <1>29, <1>30 DEF Next, Kill, Alarm, ThreadStep

(* The inductive invariant holds in every reachable state.                 *)
THEOREM Inductive == Spec => []IInv
<1>1. Init => IInv
  BY BrokerAssumption, InitIInv
<1>2. IInv /\ [Next]_vars => IInv'
  BY BrokerAssumption, StepIInv
<1> QED BY <1>1, <1>2, PTL DEF Spec

(* The variables keep their types; in particular none of the three         *)
(* counters ever goes below zero.                                          *)
THEOREM TypeCorrect == Spec => []TypeOK
<1>1. IInv => TypeOK
  BY DEF IInv
<1> QED BY <1>1, Inductive, PTL

(* instanceCount and mutexCount are the invoke threads and the mutex       *)
(* requests there are, whatever thread creation fails.                     *)
THEOREM CountersCorrect == Spec => []CountersExact
<1>1. IInv => CountersExact
  BY DEF IInv
<1> QED BY <1>1, Inductive, PTL

(* While a mutex method executes there is no invoke thread and no receive  *)
(* thread about to create one.                                             *)
THEOREM Exclusion == Spec => []MutexExclusion
<1>1. IInv => MutexExclusion
  BY BrokerAssumption, IInvExclusion
<1> QED BY <1>1, Inductive, PTL

-----------------------------------------------------------------------------
(* The queue, the references and the end.                                  *)

(* The receive threads that have seen the queue too long, or have stopped: *)
(* none of them adds to the queue before it is short again.                *)
Slowed     == {r \in Receivers : rpc[r] \in {"pendFull", "throttle", "closed"}}
QueueShare == Len(fifo) <= QueueMax + Cardinality(Slowed)

(* obj is set by the constructor's call, which is over then.               *)
Constructed == obj => \/ phase[Ctor] \in {"done", "lost"}
                      \/ mpc = "uncount" /\ mreq = Ctor

(* The exact count, as long as the process is there; no reference is       *)
(* handed out before the object exists.                                    *)
CountsRefs ==
  mpc # "exited" =>
    IF obj THEN refcount + uncounted = Cardinality(Open) + handed + 1
           ELSE handed = 0

(* The client whose request a receive thread handles stays connected, and  *)
(* so does the monitor while it waits for its early answer.                *)
Attended == \A r \in Receivers :
              rpc[r] \in Handling =>
                IF rreq[r] = Probe THEN peer[Monitor] = r ELSE \E c \in Conns : peer[c] = r

(* A request that was read and not yet taken is held by a receive thread   *)
(* or in the queue.                                                        *)
Held  == \A q \in Requests : phase[q] \in {"received", "counted"} =>
           \E r \in Receivers : rpc[r] \in Handling /\ rreq[r] = q
InFifo == \A q \in Requests : phase[q] = "queued" =>
           \E i \in 1..Len(fifo) : fifo[i] = q

Deciding == mpc \in Draining /\ obj /\ state = "RUNNING" /\ uncounted <= 1
Unused   == Open \subseteq {Monitor} /\ handed = 0 /\ \A r \in Receivers : rpc[r] \notin Handling
Forsaken == Deciding => Unused /\ fifo = <<>>

-----------------------------------------------------------------------------
(* What a broadcast leaves of the main thread's location.                  *)
LEMMA WokenPlaces ==
  ASSUME NEW l \in MainLocs
  PROVE  /\ Woken(l) \in Draining <=> l \in Draining
         /\ Woken(l) = "exited" <=> l = "exited"
         /\ Woken(l) = "uncount" <=> l = "uncount"
         /\ Woken(l) = "exec" <=> l = "exec"
         /\ Woken(l) \in {"excl", "exclWaiting"} <=> l \in {"excl", "exclWaiting"}
         /\ Woken(l) = "spawn" <=> l = "spawn"
BY DEF Woken, MainLocs, Draining

(* A finite set that grows does not get fewer elements.                    *)
LEMMA SlowedFacts ==
  ASSUME BrokerAssumption
  PROVE  /\ IsFiniteSet(Slowed) /\ IsFiniteSet(Slowed')
         /\ Cardinality(Slowed) \in Nat /\ Cardinality(Slowed') \in Nat
         /\ Slowed \subseteq Slowed' => Cardinality(Slowed) <= Cardinality(Slowed')
<1>1. Slowed \subseteq Receivers /\ Slowed' \subseteq Receivers
  BY DEF Slowed
<1>2. IsFiniteSet(Slowed) /\ IsFiniteSet(Slowed')
  BY <1>1, FS_Subset DEF BrokerAssumption
<1> QED BY <1>2, FS_Subset, FS_CardinalityType

(* Only a receive thread that has not slowed down adds to the queue, and   *)
(* one that finds it too long slows down; one that resumes has seen the    *)
(* queue at QueueMax or shorter.                                           *)
LEMMA StepQueueShare ==
  ASSUME BrokerAssumption, IInv, QueueShare, [Next]_vars
  PROVE  QueueShare'
<1> USE DEF objVars, netVars, fifoVars, lockVars, recvVars, mainVars
<1>1. /\ TypeOK /\ Len(fifo) \in Nat /\ QueueMax \in Nat
      /\ Cardinality(Slowed) \in Nat /\ Cardinality(Slowed') \in Nat
  BY SlowedFacts, LenProperties DEF IInv, TypeOK, BrokerAssumption
<1>2. ASSUME \/ fifo' = fifo
             \/ Len(fifo') = Len(fifo) - 1,
             Slowed \subseteq Slowed'
      PROVE  QueueShare'
  <2>1. Cardinality(Slowed) <= Cardinality(Slowed')
    BY <1>2, SlowedFacts
  <2> QED BY <1>1, <1>2, <2>1 DEF QueueShare
<1>3. ASSUME NEW i \in 1..Len(fifo), TakeOut(i) PROVE Len(fifo') = Len(fifo) - 1
  BY <1>1, <1>3, RemoveAtFacts DEF TakeOut, TypeOK
<1>4. ASSUME NEW r \in Receivers,
             \/ Notify(r) \/ LockConc(r) \/ CountMutex(r) \/ Spawn(r) \/ Create(r)
             \/ CreateFails(r) \/ IncPendings(r) \/ StopReceiver(r) \/ Clients(r)
      PROVE  QueueShare'
  <2>1. fifo' = fifo
    BY <1>4 DEF Notify, LockConc, CountMutex, Spawn, Create, CreateFails, IncPendings,
       StopReceiver, Clients, OnNewConnection, OnCloseConnection, AddRef, DecRef,
       MonitorAsks, MonitorDecRef, Query, ReceiveRequest
  <2>2. Slowed \subseteq Slowed'
    <3>1. \/ rpc' = rpc
          \/ \E l : rpc' = [rpc EXCEPT ![r] = l]
                   /\ (rpc[r] \in {"pendFull", "throttle", "closed"} =>
                         l \in {"pendFull", "throttle", "closed"})
      <4>1. CASE Clients(r)
        BY <4>1 DEF Clients, OnNewConnection, OnCloseConnection, AddRef, DecRef,
           MonitorAsks, MonitorDecRef, Query, ReceiveRequest, Goto
      <4>2. CASE ~Clients(r)
        BY <1>4, <4>2 DEF Notify, LockConc, CountMutex, Spawn, Create, CreateFails,
           IncPendings, StopReceiver, Goto
      <4> QED BY <4>1, <4>2
    <3> QED BY <1>1, <3>1 DEF Slowed, TypeOK
  <2> QED BY <1>2, <2>1, <2>2
<1>5. ASSUME NEW r \in Receivers, Enqueue(r) PROVE QueueShare'
  <2>1. rreq[r] \in Requests
    BY <1>5 DEF Enqueue, IInv, ReceiverPlaces, Requests
  <2>2. Len(fifo') = Len(fifo) + 1
    BY <1>1, <1>5, <2>1, AppendProperties DEF Enqueue, TypeOK
  <2>3. CASE Len(fifo') <= QueueMax
    BY <1>1, <2>2, <2>3 DEF QueueShare
  <2>4. CASE Len(fifo') > QueueMax
    <3>1. rpc' = [rpc EXCEPT ![r] = IF rreq[r] \in ConcReqs THEN "pendFull" ELSE "throttle"]
      BY <1>5, <2>4 DEF Enqueue, Goto
    <3>2. r \notin Slowed /\ Slowed' = Slowed \cup {r}
      BY <1>1, <1>5, <3>1 DEF Enqueue, Slowed, TypeOK
    <3>3. Cardinality(Slowed') = Cardinality(Slowed) + 1
      BY <3>2, SlowedFacts, FS_AddElement
    <3> QED BY <1>1, <2>2, <3>3 DEF QueueShare
  <2> QED BY <1>1, <2>2, <2>3, <2>4
<1>6. ASSUME NEW r \in Receivers, Throttle(r) PROVE QueueShare'
  BY <1>1, <1>6 DEF Throttle, QueueShare
<1>7. ASSUME NEW r \in Receivers, TakeConcRacing(r) PROVE QueueShare'
  <2>1. Len(fifo') = Len(fifo) - 1
    BY <1>3, <1>7 DEF TakeConcRacing
  <2>2. Slowed \subseteq Slowed'
    BY <1>1, <1>7 DEF TakeConcRacing, Slowed, Goto, TypeOK
  <2> QED BY <1>2, <2>1, <2>2
<1>8. CASE TakeConc \/ TakeHead
  <2>1. Len(fifo') = Len(fifo) - 1
    <3>1. CASE TakeConc
      BY <1>3, <3>1 DEF TakeConc
    <3>2. CASE TakeHead
      <4>1. Len(fifo) > 0
        BY <1>1, <3>2, EmptySeq DEF TakeHead, TypeOK
      <4> QED BY <1>1, <1>3, <3>2, <4>1 DEF TakeHead
    <3> QED BY <1>8, <3>1, <3>2
  <2>2. Slowed \subseteq Slowed'
    BY <1>8 DEF TakeConc, TakeHead, Slowed
  <2> QED BY <1>2, <2>1, <2>2
<1>9. CASE \/ GetEmpty \/ Block \/ Exclusive \/ MainSpawn \/ MainCreate
           \/ MainCreateFails \/ InvokeReturns \/ UncountMutex \/ Drain \/ SkipDrain
           \/ UNCHANGED vars \/ \E q \in ConcReqs : ThreadStep(q)
  <2>1. fifo' = fifo /\ rpc' = rpc
    BY <1>9 DEF GetEmpty, Block, Exclusive, MainSpawn, MainCreate, MainCreateFails,
       InvokeReturns, UncountMutex, Drain, SkipDrain, vars, ThreadStep,
       ThreadReturns, ThreadExits
  <2> QED BY <1>2, <2>1 DEF Slowed
<1>10. CASE Gone
  BY <1>1, <1>10 DEF Gone, QueueShare
<1> QED BY <1>4, <1>5, <1>6, <1>7, <1>8, <1>9, <1>10
        DEF Next, MainStep, Serving, Asleep, Exit, Kill, Alarm

(* The queue never grows beyond its maximum by more than one request of    *)
(* each receive thread, for any number of comboxes.                        *)
THEOREM QueueBounded == Spec => []QueueBound
<1>1. Init => QueueShare
  BY BrokerAssumption, SlowedFacts DEF Init, QueueShare, BrokerAssumption
<1>2. IInv /\ QueueShare /\ [Next]_vars => QueueShare'
  BY BrokerAssumption, StepQueueShare
<1>3. IInv /\ QueueShare => QueueBound
  <2> SUFFICES ASSUME IInv, QueueShare PROVE QueueBound
    OBVIOUS
  <2>1. Slowed \subseteq Receivers /\ IsFiniteSet(Receivers)
    BY BrokerAssumption DEF Slowed, BrokerAssumption
  <2>2. /\ Cardinality(Slowed) \in Nat /\ Cardinality(Receivers) \in Nat
        /\ Cardinality(Slowed) <= Cardinality(Receivers)
    BY <2>1, BrokerAssumption, SlowedFacts, FS_Subset, FS_CardinalityType
  <2>3. Len(fifo) \in Nat /\ QueueMax \in Nat
    BY BrokerAssumption, LenProperties DEF IInv, TypeOK, BrokerAssumption
  <2> QED BY <2>2, <2>3 DEF QueueShare, QueueBound
<1> QED BY <1>1, <1>2, <1>3, Inductive, PTL DEF Spec

-----------------------------------------------------------------------------
(* The constructor's call is made once: when it executes nothing has been  *)
(* constructed, and once it is over it is over for good.                   *)
LEMMA StepConstructed ==
  ASSUME BrokerAssumption, IInv, Constructed, [Next]_vars
  PROVE  Constructed'
<1> USE DEF objVars, netVars, fifoVars, lockVars, recvVars, mainVars
<1>1. TypeOK /\ Ctor \in Requests /\ Ctor \in MutexReqs /\ Ctor \notin ConcReqs
  BY DEF IInv, BrokerAssumption, Requests
<1>2. ASSUME obj' = obj, mreq' = mreq, mpc = "uncount" => mpc' = "uncount",
             phase[Ctor] \in {"done", "lost"} => phase'[Ctor] = phase[Ctor]
      PROVE  Constructed'
  BY <1>2 DEF Constructed
<1>3. ASSUME NEW q \in Requests, NEW p, Move(q, p), phase[q] \notin {"done", "lost"}
      PROVE  phase[Ctor] \in {"done", "lost"} => phase'[Ctor] = phase[Ctor]
  BY <1>1, <1>3 DEF Move, TypeOK
<1>4. ASSUME NEW r \in Receivers, Serving(r) \/ Asleep(r) \/ Clients(r)
      PROVE  Constructed'
  <2>1. obj' = obj /\ mreq' = mreq /\ (mpc = "uncount" => mpc' = "uncount")
    BY <1>1, <1>4, WokenPlaces DEF Serving, Asleep, Clients, Notify, LockConc,
       CountMutex, Spawn, Create, CreateFails, Enqueue, IncPendings, Throttle,
       StopReceiver, OnNewConnection, OnCloseConnection, AddRef, DecRef, Query,
       MonitorAsks, MonitorDecRef, ReceiveRequest, Broadcast, TypeOK
  <2>2. \/ phase' = phase
        \/ \E q \in Requests, p \in Phases :
             Move(q, p) /\ phase[q] \notin {"done", "lost"}
    <3>1. CASE Serving(r)
      <4>1. rpc[r] \in Handling => rreq[r] \in Requests /\ phase[rreq[r]] \notin {"done", "lost"}
        BY DEF IInv, ReceiverPlaces, Handling, Requests
      <4> QED BY <3>1, <4>1 DEF Serving, Notify, LockConc, CountMutex, Spawn, Create,
                 CreateFails, Enqueue, IncPendings, Handling, Phases
    <3>2. CASE Asleep(r) \/ Clients(r)
      BY <3>2 DEF Asleep, Clients, Throttle, StopReceiver, OnNewConnection,
         OnCloseConnection, AddRef, DecRef, Query,
         MonitorAsks, MonitorDecRef, ReceiveRequest, Phases
    <3> QED BY <1>4, <3>1, <3>2
  <2> QED BY <1>2, <1>3, <2>1, <2>2
<1>5. ASSUME NEW q \in ConcReqs, ThreadStep(q) PROVE Constructed'
  <2>1. obj' = obj /\ mreq' = mreq /\ (mpc = "uncount" => mpc' = "uncount")
    BY <1>1, <1>5, WokenPlaces DEF ThreadStep, ThreadReturns, ThreadExits, Broadcast, TypeOK
  <2>2. q \in Requests /\ \E p \in Phases : Move(q, p) /\ phase[q] \notin {"done", "lost"}
    BY <1>5 DEF ThreadStep, ThreadReturns, ThreadExits, Phases, Requests
  <2> QED BY <1>2, <1>3, <2>1, <2>2
<1>6. CASE \/ GetEmpty \/ Block \/ Exclusive \/ Drain \/ SkipDrain \/ UNCHANGED vars
  BY <1>2, <1>6 DEF GetEmpty, Block, Exclusive, Drain, SkipDrain, vars
<1>7. CASE TakeConc \/ TakeHead \/ \E r \in Receivers : TakeConcRacing(r)
  <2>1. PICK i \in 1..Len(fifo) : TakeOut(i)
    <3>1. CASE TakeHead
      <4>1. Len(fifo) \in Nat /\ Len(fifo) > 0
        BY <1>1, <3>1, EmptySeq, LenProperties DEF TakeHead, TypeOK
      <4> QED BY <3>1, <4>1 DEF TakeHead
    <3>2. CASE ~TakeHead
      BY <1>7, <3>2 DEF TakeConc, TakeConcRacing
    <3> QED BY <3>1, <3>2
  <2>2. fifo[i] \in Requests /\ phase[fifo[i]] = "queued" /\ Move(fifo[i], "taken")
    BY <2>1, <1>1 DEF TakeOut, IInv, QueuePlaces, TypeOK
  <2>3. phase[Ctor] \in {"done", "lost"} => phase'[Ctor] = phase[Ctor]
    BY <1>3, <2>2
  <2>4. obj' = obj /\ mpc = "get"
    BY <1>7 DEF TakeConc, TakeHead, TakeConcRacing
  <2> QED BY <2>3, <2>4 DEF Constructed
<1>8. CASE MainSpawn \/ MainCreate \/ MainCreateFails
  <2>1. mreq \in Requests /\ phase[mreq] \notin {"done", "lost"}
    BY <1>8 DEF MainSpawn, MainCreate, MainCreateFails, IInv, MainPlace, Requests
  <2>2. \E p \in Phases : Move(mreq, p)
    BY <1>8 DEF MainSpawn, MainCreate, MainCreateFails, Phases
  <2>3. phase[Ctor] \in {"done", "lost"} => phase'[Ctor] = phase[Ctor]
    BY <1>3, <2>1, <2>2
  <2> QED BY <1>2, <1>8, <2>3 DEF MainSpawn, MainCreate, MainCreateFails
<1>9. CASE InvokeReturns
  <2>1. mreq \in Requests /\ phase[mreq] = "taken" /\ mpc = "exec"
    BY <1>9 DEF InvokeReturns, IInv, MainPlace, Requests
  <2>2. CASE mreq = Ctor
    BY <1>1, <1>9, <2>2 DEF InvokeReturns, Constructed
  <2>3. CASE mreq # Ctor
    BY <1>1, <1>9, <2>1, <2>3 DEF InvokeReturns, Constructed, Move, TypeOK
  <2> QED BY <2>2, <2>3
<1>10. CASE UncountMutex
  <2>1. mreq \in Requests /\ phase[mreq] = "taken" /\ phase' = [phase EXCEPT ![mreq] = "done"]
    BY <1>10 DEF UncountMutex, IInv, MainPlace, Requests, Move
  <2> QED BY <1>1, <1>10, <2>1 DEF UncountMutex, Constructed, TypeOK
<1>11. CASE Gone
  BY <1>1, <1>11 DEF Gone, Constructed
<1> QED BY <1>4, <1>5, <1>6, <1>7, <1>8, <1>9, <1>10, <1>11
        DEF Next, MainStep, Exit, Kill, Alarm

(* Every connection and every reference handed out is counted while the    *)
(* object is there, and uncounted keeps what is not: the connections that  *)
(* Construct finds, and what the monitor takes.                            *)
LEMMA StepCountsRefs ==
  ASSUME BrokerAssumption, IInv, Constructed, CountsRefs, [Next]_vars
  PROVE  CountsRefs'
<1> USE DEF objVars, netVars, fifoVars, lockVars, recvVars, mainVars
<1>1. TypeOK /\ handed \in Nat /\ refcount \in Int /\ obj \in BOOLEAN /\ uncounted \in Nat
  BY DEF IInv, TypeOK, BrokerAssumption
<1>2. /\ Cardinality(Open) \in Nat /\ Cardinality(Open') \in Nat
      /\ IsFiniteSet(Open) /\ IsFiniteSet(Open')
  BY OpenFacts
<1>3. ASSUME UNCHANGED <<obj, refcount, peer, handed, uncounted>>,
             mpc' # "exited" => mpc # "exited"
      PROVE  CountsRefs'
  BY <1>3 DEF CountsRefs, Open
<1>4. ASSUME NEW r \in Receivers, NEW c \in Peers, OnNewConnection(r, c)
      PROVE  CountsRefs'
  <2>1. c \notin Open /\ Open' = Open \cup {c}
    BY <1>1, <1>4, BrokerAssumption DEF OnNewConnection, Open, TypeOK, BrokerAssumption
  <2>2. Cardinality(Open') = Cardinality(Open) + 1
    BY <1>2, <2>1, FS_AddElement
  <2>3. UNCHANGED <<obj, handed, uncounted, mpc>>
        /\ refcount' = IF obj THEN refcount + 1 ELSE refcount
    BY <1>4 DEF OnNewConnection
  <2> QED BY <1>1, <1>2, <2>2, <2>3 DEF CountsRefs
<1>5. ASSUME NEW r \in Receivers, NEW c \in Peers, OnCloseConnection(r, c)
      PROVE  CountsRefs'
  <2>1. c \in Open /\ Open' = Open \ {c}
    BY <1>1, <1>5, BrokerAssumption DEF OnCloseConnection, Open, TypeOK, BrokerAssumption
  <2>2. Cardinality(Open') = Cardinality(Open) - 1
    BY <1>2, <2>1, FS_RemoveElement
  <2>3. UNCHANGED <<obj, handed, uncounted, mpc>>
        /\ refcount' = IF obj THEN refcount - 1 ELSE refcount
    BY <1>5 DEF OnCloseConnection
  <2> QED BY <1>1, <1>2, <2>2, <2>3 DEF CountsRefs
<1>6. ASSUME NEW r \in Receivers, AddRef(r) \/ DecRef(r) PROVE CountsRefs'
  <2>1. Open' = Open /\ UNCHANGED <<obj, uncounted, mpc>> /\ obj
    BY <1>6 DEF AddRef, DecRef, Open
  <2>2. CASE AddRef(r)
    BY <1>1, <1>2, <2>1, <2>2 DEF AddRef, CountsRefs
  <2>3. CASE DecRef(r)
    BY <1>1, <1>2, <2>1, <2>3 DEF DecRef, CountsRefs
  <2> QED BY <1>6, <2>2, <2>3
<1>7. ASSUME NEW r \in Receivers, MonitorDecRef(r) PROVE CountsRefs'
  <2>1. Open' = Open /\ UNCHANGED <<obj, handed, mpc>> /\ obj
        /\ refcount' = refcount - 1 /\ uncounted' = uncounted + 1
    BY <1>7 DEF MonitorDecRef, Open
  <2> QED BY <1>1, <1>2, <2>1 DEF CountsRefs
<1>8. CASE InvokeReturns
  <2>1. Open' = Open /\ handed' = handed /\ mpc = "exec"
    BY <1>8 DEF InvokeReturns, Open
  <2>2. CASE UNCHANGED <<obj, refcount, uncounted>>
    BY <2>1, <2>2 DEF CountsRefs
  <2>3. CASE mreq = Ctor /\ obj' = TRUE /\ refcount' = 1 /\ uncounted' = Cardinality(Open)
    <3>1. phase[Ctor] = "taken"
      BY <2>1, <2>3 DEF IInv, MainPlace
    <3>2. ~obj
      BY <2>1, <3>1 DEF Constructed
    <3> QED BY <1>2, <2>1, <2>3, <3>2 DEF CountsRefs
  <2> QED BY <1>8, <2>2, <2>3 DEF InvokeReturns, Construct
<1>9. CASE Gone
  BY <1>9 DEF Gone, CountsRefs
<1>10. ASSUME NEW r \in Receivers,
              \/ Serving(r) \/ Asleep(r) \/ Query(r) \/ MonitorAsks(r)
              \/ \E q \in Requests : ReceiveRequest(r, q)
       PROVE  CountsRefs'
  <2>1. mpc' # "exited" => mpc # "exited"
    BY <1>1, <1>10, WokenPlaces DEF Serving, Asleep, Notify, LockConc, CountMutex, Spawn,
       Create, CreateFails, Enqueue, IncPendings, Throttle, StopReceiver, Query,
       MonitorAsks, ReceiveRequest, Broadcast, TypeOK
  <2> QED BY <1>3, <1>10, <2>1 DEF Serving, Asleep, Notify, LockConc, CountMutex, Spawn,
             Create, CreateFails, Enqueue, IncPendings, Throttle, StopReceiver, Query,
             MonitorAsks, ReceiveRequest
<1>11. CASE \/ GetEmpty \/ Block \/ TakeConc \/ TakeHead \/ Exclusive
            \/ \E r \in Receivers : TakeConcRacing(r)
  BY <1>3, <1>11 DEF GetEmpty, Block, TakeConc, TakeHead, Exclusive, TakeConcRacing
<1>12. CASE \/ MainSpawn \/ MainCreate \/ MainCreateFails \/ UncountMutex
            \/ Drain \/ SkipDrain \/ UNCHANGED vars
  BY <1>3, <1>12 DEF MainSpawn, MainCreate, MainCreateFails, UncountMutex, Drain,
     SkipDrain, vars
<1>13. ASSUME NEW q \in ConcReqs, ThreadStep(q) PROVE CountsRefs'
  <2>1. mpc' # "exited" => mpc # "exited"
    BY <1>1, <1>13, WokenPlaces DEF ThreadStep, ThreadReturns, ThreadExits, Broadcast, TypeOK
  <2> QED BY <1>3, <1>13, <2>1 DEF ThreadStep, ThreadReturns, ThreadExits
<1> QED BY <1>4, <1>5, <1>6, <1>7, <1>8, <1>9, <1>10, <1>11, <1>12, <1>13
        DEF Next, MainStep, Clients, Exit, Kill, Alarm

(* What RefsCovered rests on: the inductive invariant, and the two facts   *)
(* about the constructor and the count.                                    *)
RefsInv == IInv /\ Constructed /\ CountsRefs

(* They hold together in every reachable state.                            *)
LEMMA RefsInductive == Spec => []RefsInv
<1>1. Init => Constructed /\ CountsRefs
  BY DEF Init, Constructed, CountsRefs
<1>2. IInv /\ Constructed /\ CountsRefs /\ [Next]_vars => Constructed' /\ CountsRefs'
  BY BrokerAssumption, StepConstructed, StepCountsRefs
<1> QED BY <1>1, <1>2, Inductive, PTL DEF Spec, RefsInv

(* Whoever connects, and when, and whatever the monitor takes: the count   *)
(* misses exactly the connections accepted before obj was set, but for one,*)
(* and the references the monitor took.                                    *)
THEOREM RefsAlwaysCovered == Spec => []RefsCovered
<1>1. RefsInv => RefsCovered
  BY DEF RefsInv, CountsRefs, RefsCovered
<1> QED BY <1>1, RefsInductive, PTL

-----------------------------------------------------------------------------
(* Where the requests are that were read and not yet served.               *)
LEMMA StepAttended ==
  ASSUME BrokerAssumption, IInv, Attended, [Next]_vars
  PROVE  Attended'
<1> USE DEF objVars, netVars, fifoVars, lockVars, recvVars, mainVars
<1>1. TypeOK
  BY DEF IInv
<1>2. ASSUME peer' = peer,
             \A r \in Receivers : rpc'[r] \in Handling =>
                                    rpc[r] \in Handling /\ rreq'[r] = rreq[r]
      PROVE  Attended'
  BY <1>2 DEF Attended
<1>3. ASSUME NEW r \in Receivers, Serving(r) \/ Asleep(r) PROVE Attended'
  <2>1. /\ peer' = peer /\ rreq' = rreq
        /\ \E l : rpc' = [rpc EXCEPT ![r] = l] /\ (l \in Handling => rpc[r] \in Handling)
    BY <1>3 DEF Serving, Asleep, Notify, LockConc, CountMutex, Spawn, Create, CreateFails,
       Enqueue, IncPendings, Throttle, StopReceiver, Goto, NextRequest, Handling
  <2> QED BY <1>1, <1>2, <2>1 DEF TypeOK
<1>4. ASSUME NEW r \in Receivers, AddRef(r) \/ DecRef(r) \/ Query(r)
                \/ MonitorAsks(r) \/ MonitorDecRef(r)
      PROVE  Attended'
  BY <1>1, <1>2, <1>4 DEF AddRef, DecRef, Query, MonitorAsks, MonitorDecRef, Goto,
     Handling, TypeOK
<1>5. ASSUME NEW r \in Receivers, NEW q \in Requests, ReceiveRequest(r, q) PROVE Attended'
  <2>1. /\ peer' = peer /\ rreq' = [rreq EXCEPT ![r] = q]
        /\ IF q = Probe THEN peer[Monitor] = r ELSE \E c \in Conns : peer[c] = r
        /\ \A s \in Receivers \ {r} : rpc'[s] = rpc[s]
    BY <1>1, <1>5 DEF ReceiveRequest, Goto, TypeOK
  <2> SUFFICES ASSUME NEW s \in Receivers, rpc'[s] \in Handling
               PROVE  IF rreq'[s] = Probe THEN peer'[Monitor] = s ELSE \E c \in Conns : peer'[c] = s
    BY DEF Attended
  <2>2. CASE s = r
    BY <1>1, <2>1, <2>2 DEF TypeOK
  <2>3. CASE s # r
    BY <1>1, <2>1, <2>3 DEF TypeOK, Attended
  <2> QED BY <2>2, <2>3
<1>6. ASSUME NEW r \in Receivers, NEW c \in Peers,
             OnNewConnection(r, c) \/ OnCloseConnection(r, c)
      PROVE  Attended'
  <2>1. /\ rreq' = rreq /\ \A d \in Peers \ {c} : peer'[d] = peer[d]
        /\ \A s \in Receivers : rpc'[s] \in Handling => rpc[s] \in Handling /\ peer[c] # s
    <3>1. CASE OnNewConnection(r, c)
      BY <1>1, <3>1, BrokerAssumption DEF OnNewConnection, TypeOK, BrokerAssumption
    <3>2. CASE OnCloseConnection(r, c)
      BY <1>1, <3>2 DEF OnCloseConnection, Goto, Handling, TypeOK
    <3> QED BY <1>6, <3>1, <3>2
  <2> SUFFICES ASSUME NEW s \in Receivers, rpc'[s] \in Handling
               PROVE  IF rreq'[s] = Probe THEN peer'[Monitor] = s ELSE \E d \in Conns : peer'[d] = s
    BY DEF Attended
  <2>2. rpc[s] \in Handling /\ peer[c] # s
    BY <2>1
  <2>3. CASE rreq[s] = Probe
    BY <2>1, <2>2, <2>3 DEF Attended, Peers
  <2>4. CASE rreq[s] # Probe
    <3>1. PICK d \in Conns : peer[d] = s
      BY <2>2, <2>4 DEF Attended
    <3> QED BY <2>1, <2>2, <2>4, <3>1 DEF Peers
  <2> QED BY <2>3, <2>4
<1>8. ASSUME NEW r \in Receivers, TakeConcRacing(r) PROVE Attended'
  BY <1>1, <1>2, <1>8 DEF TakeConcRacing, Goto, NextRequest, Handling, TypeOK
<1>9. CASE \/ GetEmpty \/ Block \/ TakeConc \/ TakeHead \/ Exclusive
           \/ MainSpawn \/ MainCreate \/ MainCreateFails \/ InvokeReturns \/ UncountMutex
           \/ Drain \/ SkipDrain \/ UNCHANGED vars \/ \E q \in ConcReqs : ThreadStep(q)
  <2>1. peer' = peer /\ rpc' = rpc /\ rreq' = rreq
    BY <1>9 DEF GetEmpty, Block, TakeConc, TakeHead, Exclusive, MainSpawn, MainCreate,
       MainCreateFails, InvokeReturns, UncountMutex, Drain, SkipDrain, vars,
       ThreadStep, ThreadReturns, ThreadExits
  <2> QED BY <1>2, <2>1
<1>10. CASE Gone
  BY <1>10 DEF Gone, Attended, Handling
<1> QED BY <1>3, <1>4, <1>5, <1>6, <1>8, <1>9, <1>10
        DEF Next, MainStep, Clients, Exit, Kill, Alarm

(* A receive thread lets go of a request when it has queued it or given it *)
(* a thread.                                                               *)
LEMMA StepHeld ==
  ASSUME BrokerAssumption, IInv, Held, [Next]_vars
  PROVE  Held'
<1> USE DEF objVars, netVars, fifoVars, lockVars, recvVars, mainVars
<1>1. TypeOK
  BY DEF IInv
<1>2. ASSUME rreq' = rreq,
             \A s \in Receivers : rpc[s] \in Handling => rpc'[s] \in Handling,
             \A q \in Requests : phase'[q] \in {"received", "counted"} =>
                                   phase[q] \in {"received", "counted"}
      PROVE  Held'
  BY <1>2 DEF Held
<1>3. ASSUME NEW q \in Requests, NEW p, Move(q, p), p \notin {"received", "counted"}
      PROVE  \A x \in Requests : phase'[x] \in {"received", "counted"} =>
                                   phase[x] \in {"received", "counted"}
  BY <1>1, <1>3 DEF Move, TypeOK
<1>4. ASSUME NEW r \in Receivers, NEW q \in Requests, ReceiveRequest(r, q) PROVE Held'
  BY <1>1, <1>4 DEF ReceiveRequest, Held, Handling, Goto, Move, TypeOK, BrokerAssumption,
     Requests
<1>5. ASSUME NEW r \in Receivers, LockConc(r) \/ CountMutex(r) \/ Spawn(r) PROVE Held'
  <2>1. /\ rreq' = rreq
        /\ \E l \in Handling : rpc' = [rpc EXCEPT ![r] = l]
    BY <1>5 DEF LockConc, CountMutex, Spawn, Goto, Handling
  <2>2. rreq[r] \in Requests /\ phase[rreq[r]] = "received" 
    BY <1>5 DEF LockConc, CountMutex, Spawn, IInv, ReceiverPlaces, Requests
  <2>3. \A q \in Requests : phase'[q] \in {"received", "counted"} =>
                              phase[q] \in {"received", "counted"}
    BY <1>1, <1>5, <2>2 DEF LockConc, CountMutex, Spawn, Move, TypeOK
  <2> QED BY <1>1, <1>2, <2>1, <2>3 DEF TypeOK
<1>6. ASSUME NEW r \in Receivers, Create(r) \/ CreateFails(r) \/ Enqueue(r) PROVE Held'
  <2>1. /\ rreq[r] \in Requests /\ rreq' = rreq
        /\ \E p : Move(rreq[r], p) /\ p \notin {"received", "counted"}
    BY <1>6 DEF Create, CreateFails, Enqueue, IInv, ReceiverPlaces, Requests
  <2>2. \A s \in Receivers \ {r} : rpc'[s] = rpc[s]
    BY <1>1, <1>6 DEF Create, CreateFails, Enqueue, Goto, TypeOK
  <2> SUFFICES ASSUME NEW q \in Requests, phase'[q] \in {"received", "counted"}
               PROVE  \E s \in Receivers : rpc'[s] \in Handling /\ rreq'[s] = q
    BY DEF Held
  <2>3. phase[q] \in {"received", "counted"} /\ q # rreq[r]
    BY <1>1, <2>1 DEF Move, TypeOK
  <2>4. PICK s \in Receivers : rpc[s] \in Handling /\ rreq[s] = q
    BY <2>3 DEF Held
  <2> QED BY <2>1, <2>2, <2>3, <2>4
<1>7. ASSUME NEW r \in Receivers, Notify(r) \/ IncPendings(r) \/ Asleep(r) PROVE Held'
  <2>1. rreq' = rreq /\ phase' = phase /\ rpc[r] \notin Handling
        /\ \E l : rpc' = [rpc EXCEPT ![r] = l]
    BY <1>7 DEF Notify, IncPendings, Asleep, Throttle, StopReceiver, Goto, Handling
  <2> QED BY <1>1, <1>2, <2>1 DEF TypeOK
<1>8. ASSUME NEW r \in Receivers,
             \/ AddRef(r) \/ DecRef(r) \/ Query(r) \/ MonitorAsks(r) \/ MonitorDecRef(r)
             \/ \E c \in Peers : OnNewConnection(r, c) \/ OnCloseConnection(r, c)
      PROVE  Held'
  <2>1. rreq' = rreq /\ phase' = phase /\ rpc[r] \notin Handling
        /\ (rpc' = rpc \/ \E l : rpc' = [rpc EXCEPT ![r] = l])
    BY <1>8 DEF AddRef, DecRef, Query, MonitorAsks, MonitorDecRef, OnNewConnection,
       OnCloseConnection, Goto, Handling
  <2> QED BY <1>1, <1>2, <2>1 DEF TypeOK
<1>9. CASE TakeConc \/ TakeHead \/ \E r \in Receivers : TakeConcRacing(r)
  <2>1. rreq' = rreq /\ \E i \in 1..Len(fifo) : TakeOut(i)
    <3>1. CASE TakeHead
      <4>1. Len(fifo) \in Nat /\ Len(fifo) > 0
        BY <1>1, <3>1, EmptySeq, LenProperties DEF TakeHead, TypeOK
      <4> QED BY <3>1, <4>1 DEF TakeHead
    <3>2. CASE ~TakeHead
      BY <1>9, <3>2 DEF TakeConc, TakeConcRacing
    <3> QED BY <3>1, <3>2
  <2>2. \E q \in Requests : Move(q, "taken")
    BY <1>1, <2>1 DEF TakeOut, TypeOK
  <2>3. \A s \in Receivers : rpc[s] \in Handling => rpc'[s] \in Handling
    BY <1>1, <1>9 DEF TakeConc, TakeHead, TakeConcRacing, Goto, TypeOK, Handling
  <2> QED BY <1>2, <1>3, <2>1, <2>2, <2>3
<1>10. CASE MainSpawn \/ MainCreate \/ MainCreateFails \/ InvokeReturns \/ UncountMutex
  <2>1. rreq' = rreq /\ rpc' = rpc
    BY <1>10 DEF MainSpawn, MainCreate, MainCreateFails, InvokeReturns, UncountMutex
  <2>2. mreq \in Requests
    BY <1>10 DEF MainSpawn, MainCreate, MainCreateFails, InvokeReturns, UncountMutex,
       IInv, MainPlace, Requests
  <2>3. phase' = phase \/ \E p : Move(mreq, p) /\ p \notin {"received", "counted"}
    BY <1>10 DEF MainSpawn, MainCreate, MainCreateFails, InvokeReturns, UncountMutex
  <2> QED BY <1>2, <1>3, <2>1, <2>2, <2>3
<1>11. ASSUME NEW q \in ConcReqs, ThreadStep(q) PROVE Held'
  <2>1. rreq' = rreq /\ rpc' = rpc /\ q \in Requests
        /\ \E p : Move(q, p) /\ p \notin {"received", "counted"}
    BY <1>11 DEF ThreadStep, ThreadReturns, ThreadExits, Requests
  <2> QED BY <1>2, <1>3, <2>1
<1>12. CASE GetEmpty \/ Block \/ Exclusive \/ Drain \/ SkipDrain \/ UNCHANGED vars
  BY <1>2, <1>12 DEF GetEmpty, Block, Exclusive, Drain, SkipDrain, vars
<1>13. CASE Gone
  BY <1>13 DEF Gone, Held
<1> QED BY <1>4, <1>5, <1>6, <1>7, <1>8, <1>9, <1>10, <1>11, <1>12, <1>13
        DEF Next, MainStep, Serving, Clients, Exit, Kill, Alarm

(* A request leaves the queue when the main thread takes it, and no other  *)
(* one does.                                                               *)
LEMMA StepInFifo ==
  ASSUME BrokerAssumption, IInv, InFifo, [Next]_vars
  PROVE  InFifo'
<1> USE DEF objVars, netVars, fifoVars, lockVars, recvVars, mainVars
<1>1. TypeOK /\ Len(fifo) \in Nat
  BY LenProperties DEF IInv, TypeOK
<1>2. ASSUME fifo' = fifo,
             \A q \in Requests : phase'[q] = "queued" => phase[q] = "queued"
      PROVE  InFifo'
  BY <1>2 DEF InFifo
<1>3. ASSUME NEW q \in Requests, NEW p, Move(q, p), p # "queued"
      PROVE  \A x \in Requests : phase'[x] = "queued" => phase[x] = "queued"
  BY <1>1, <1>3 DEF Move, TypeOK
<1>4. ASSUME NEW r \in Receivers, Enqueue(r) PROVE InFifo'
  <2>1. rreq[r] \in Requests /\ Move(rreq[r], "queued") /\ fifo' = Append(fifo, rreq[r])
    BY <1>4 DEF Enqueue, IInv, ReceiverPlaces, Requests
  <2>2. /\ Len(fifo') = Len(fifo) + 1 /\ fifo'[Len(fifo) + 1] = rreq[r]
        /\ \A i \in 1..Len(fifo) : fifo'[i] = fifo[i]
    BY <1>1, <2>1, AppendProperties DEF TypeOK
  <2> SUFFICES ASSUME NEW q \in Requests, phase'[q] = "queued"
               PROVE  \E i \in 1..Len(fifo') : fifo'[i] = q
    BY DEF InFifo
  <2>3. CASE q = rreq[r]
    BY <1>1, <2>2, <2>3
  <2>4. CASE q # rreq[r]
    <3>1. phase[q] = "queued"
      BY <1>1, <2>1, <2>4 DEF Move, TypeOK
    <3>2. PICK i \in 1..Len(fifo) : fifo[i] = q
      BY <3>1 DEF InFifo
    <3> QED BY <1>1, <2>2, <3>2
  <2> QED BY <2>3, <2>4
<1>5. ASSUME NEW i \in 1..Len(fifo), TakeOut(i) PROVE InFifo'
  <2>1. /\ fifo[i] \in Requests /\ Move(fifo[i], "taken") /\ fifo' = RemoveAt(fifo, i)
        /\ fifo \in Seq(Requests)
    BY <1>1, <1>5 DEF TakeOut, TypeOK
  <2>2. /\ Len(fifo') = Len(fifo) - 1
        /\ \A j \in 1..Len(fifo)-1 : fifo'[j] = IF j < i THEN fifo[j] ELSE fifo[j+1]
    BY <2>1, RemoveAtFacts
  <2> SUFFICES ASSUME NEW q \in Requests, phase'[q] = "queued"
               PROVE  \E j \in 1..Len(fifo') : fifo'[j] = q
    BY DEF InFifo
  <2>3. phase[q] = "queued" /\ q # fifo[i]
    BY <1>1, <2>1 DEF Move, TypeOK
  <2>4. PICK j \in 1..Len(fifo) : fifo[j] = q
    BY <2>3 DEF InFifo
  <2>5. CASE j < i
    <3>1. j \in 1..Len(fifo') /\ fifo'[j] = q
      BY <1>1, <2>2, <2>4, <2>5
    <3> QED BY <3>1
  <2>6. CASE j > i
    <3>1. j-1 \in 1..Len(fifo') /\ fifo'[j-1] = q
      BY <1>1, <2>2, <2>4, <2>6
    <3> QED BY <3>1
  <2> QED BY <2>3, <2>4, <2>5, <2>6
<1>6. CASE TakeConc \/ TakeHead \/ \E r \in Receivers : TakeConcRacing(r)
  <2>1. CASE TakeHead
    <3>1. Len(fifo) > 0
      BY <1>1, <2>1, EmptySeq DEF TakeHead, TypeOK
    <3> QED BY <1>1, <1>5, <2>1, <3>1 DEF TakeHead
  <2>2. CASE ~TakeHead
    BY <1>5, <1>6, <2>2 DEF TakeConc, TakeConcRacing
  <2> QED BY <2>1, <2>2
<1>7. ASSUME NEW r \in Receivers, Serving(r) \/ Asleep(r) \/ Clients(r), ~Enqueue(r)
      PROVE  InFifo'
  <2>1. rpc[r] \in {"count", "spawn", "create"} => rreq[r] \in Requests
    BY DEF IInv, ReceiverPlaces, Requests
  <2>2. fifo' = fifo /\ (phase' = phase \/ \E q \in Requests, p \in Phases \ {"queued"} : Move(q, p))
    <3>1. CASE Serving(r)
      BY <1>7, <2>1, <3>1 DEF Serving, Notify, LockConc, CountMutex, Spawn, Create,
         CreateFails, IncPendings, Phases
    <3>2. CASE Asleep(r) \/ Clients(r)
      BY <3>2 DEF Asleep, Clients, Throttle, StopReceiver, OnNewConnection,
         OnCloseConnection, AddRef, DecRef, Query,
         MonitorAsks, MonitorDecRef, ReceiveRequest, Phases
    <3> QED BY <1>7, <3>1, <3>2
  <2> QED BY <1>2, <1>3, <2>2
<1>8. CASE MainSpawn \/ MainCreate \/ MainCreateFails \/ InvokeReturns \/ UncountMutex
  <2>1. fifo' = fifo /\ mreq \in Requests
    BY <1>8 DEF MainSpawn, MainCreate, MainCreateFails, InvokeReturns, UncountMutex,
       IInv, MainPlace, Requests
  <2>2. phase' = phase \/ \E p : Move(mreq, p) /\ p # "queued"
    BY <1>8 DEF MainSpawn, MainCreate, MainCreateFails, InvokeReturns, UncountMutex
  <2> QED BY <1>2, <1>3, <2>1, <2>2
<1>9. ASSUME NEW q \in ConcReqs, ThreadStep(q) PROVE InFifo'
  <2>1. fifo' = fifo /\ q \in Requests /\ \E p : Move(q, p) /\ p # "queued"
    BY <1>9 DEF ThreadStep, ThreadReturns, ThreadExits, Requests
  <2> QED BY <1>2, <1>3, <2>1
<1>10. CASE GetEmpty \/ Block \/ Exclusive \/ Drain \/ SkipDrain \/ UNCHANGED vars
  BY <1>2, <1>10 DEF GetEmpty, Block, Exclusive, Drain, SkipDrain, vars
<1>11. CASE Gone
  BY <1>11 DEF Gone, InFifo
<1> QED BY <1>4, <1>6, <1>7, <1>8, <1>9, <1>10, <1>11
        DEF Next, MainStep, Exit, Kill, Alarm

(* Once the main thread has decided to end, and no reference was taken, no *)
(* client can come back: it would need a connection, a reference or a      *)
(* running method that hands one out (the hypothesis ~SelfRefs).  The      *)
(* monitor can, and its questions are answered by the receive threads.     *)
LEMMA StepForsaken ==
  ASSUME BrokerAssumption, ~SelfRefs, RefsInv, Attended, Forsaken, [Next]_vars
  PROVE  Forsaken'
<1> USE DEF objVars, netVars, fifoVars, lockVars, recvVars, mainVars
<1>1. TypeOK /\ handed \in Nat /\ uncounted \in Nat /\ refcount \in Int
  BY DEF RefsInv, IInv, TypeOK, BrokerAssumption
<1>2. Unused => \A r \in Receivers, c \in Conns : peer[c] # r
  BY BrokerAssumption DEF Unused, Open, Peers, BrokerAssumption
<1>3. ASSUME Deciding' => Deciding /\ UNCHANGED <<peer, handed, fifo>>,
             \A r \in Receivers : rpc'[r] \in Handling => rpc[r] \in Handling
      PROVE  Forsaken'
  BY <1>3 DEF Forsaken, Unused, Open
<1>4. CASE GetEmpty
  <2> SUFFICES ASSUME Deciding' PROVE Unused' /\ fifo' = <<>>
    BY DEF Forsaken
  <2>1. /\ fifo' = <<>> /\ obj /\ refcount <= 0 /\ uncounted <= 1 /\ mpc # "exited"
        /\ UNCHANGED <<peer, handed, rpc>>
    BY <1>4 DEF GetEmpty, Deciding, Draining
  <2>2. Cardinality(Open) = 0 /\ handed = 0
    <3>1. refcount + uncounted = Cardinality(Open) + handed + 1
      BY <2>1 DEF RefsInv, CountsRefs
    <3>2. Cardinality(Open) \in Nat
      BY BrokerAssumption, OpenFacts
    <3> QED BY <1>1, <2>1, <3>1, <3>2
  <2>3. Open = {}
    BY <2>2, BrokerAssumption, OpenFacts, FS_EmptySet
  <2>4. \A r \in Receivers : rpc[r] \notin Handling
    <3>1. \A c \in Peers : peer[c] = None
      BY <2>3 DEF Open
    <3>2. None \notin Receivers /\ Monitor \in Peers /\ Conns \subseteq Peers
      BY BrokerAssumption DEF BrokerAssumption, Peers
    <3> QED BY <3>1, <3>2 DEF Attended
  <2> QED BY <2>1, <2>2, <2>3, <2>4 DEF Unused, Open
<1>5. ASSUME NEW r \in Receivers, NEW c \in Peers,
             OnNewConnection(r, c) \/ OnCloseConnection(r, c)
      PROVE  Forsaken'
  <2> SUFFICES ASSUME Deciding' PROVE Unused' /\ fifo' = <<>>
    BY DEF Forsaken
  <2>1. Deciding /\ Unused /\ fifo' = <<>> /\ handed' = 0
    BY <1>5 DEF OnNewConnection, OnCloseConnection, Deciding, Forsaken, Unused
  <2>2. \A s \in Receivers : rpc'[s] \notin Handling
    BY <1>1, <1>5, <2>1 DEF OnNewConnection, OnCloseConnection, Unused, Handling, Goto, TypeOK
  <2>3. CASE OnCloseConnection(r, c)
    <3>1. Open' \subseteq Open
      BY <1>1, <2>3 DEF OnCloseConnection, Open, TypeOK
    <3> QED BY <2>1, <2>2, <3>1 DEF Unused
  <2>4. CASE OnNewConnection(r, c)
    <3>1. \A d \in Conns : peer[d] = None
      BY <2>1, BrokerAssumption DEF Unused, Open, Peers, BrokerAssumption
    <3>2. c = Monitor
      BY <2>1, <2>4, <3>1 DEF OnNewConnection, MayConnect, Constructing, Unused, Deciding,
         Draining
    <3>3. Open' \subseteq Open \cup {Monitor}
      BY <1>1, <2>4, <3>2 DEF OnNewConnection, Open, TypeOK
    <3> QED BY <2>1, <2>2, <3>3 DEF Unused
  <2> QED BY <1>5, <2>3, <2>4
<1>6. ASSUME NEW r \in Receivers,
             \/ AddRef(r) \/ DecRef(r)
             \/ \E q \in Requests : ReceiveRequest(r, q)
      PROVE  Forsaken'
  <2>1. /\ ~obj \/ \E c \in Conns : peer[c] = r
        /\ UNCHANGED <<mpc, obj, state, uncounted>>
    BY <1>6 DEF AddRef, DecRef, ReceiveRequest
  <2>2. ~Deciding'
    BY <1>2, <2>1 DEF Deciding, Forsaken
  <2> QED BY <2>2 DEF Forsaken
<1>7. ASSUME NEW r \in Receivers, Query(r) \/ MonitorAsks(r) \/ MonitorDecRef(r)
      PROVE  Forsaken'
  <2>1. /\ UNCHANGED <<mpc, obj, state, peer, handed, fifo>>
        /\ uncounted' = uncounted \/ uncounted' = uncounted + 1
    BY <1>7 DEF Query, MonitorAsks, MonitorDecRef
  <2>2. Deciding' => Deciding
    BY <1>1, <2>1 DEF Deciding
  <2>3. \A s \in Receivers : rpc'[s] \in Handling => rpc[s] \in Handling
    BY <1>1, <1>7 DEF Query, MonitorAsks, MonitorDecRef, Goto, Handling, TypeOK
  <2> QED BY <1>3, <2>1, <2>2, <2>3
<1>8. ASSUME NEW r \in Receivers, Serving(r) \/ Asleep(r) PROVE Forsaken'
  <2>1. UNCHANGED <<peer, handed, obj, state, uncounted>>
    BY <1>8 DEF Serving, Asleep, Notify, LockConc, CountMutex, Spawn, Create, CreateFails,
       Enqueue, IncPendings, Throttle, StopReceiver
  <2>2. Deciding' => Deciding
    <3>1. mpc' \in Draining => mpc \in Draining
      BY <1>1, <1>8, WokenPlaces DEF Serving, Asleep, Notify, LockConc, CountMutex, Spawn,
         Create, CreateFails, Enqueue, IncPendings, Throttle, StopReceiver, Broadcast, TypeOK
    <3> QED BY <2>1, <3>1 DEF Deciding
  <2>3. fifo' = fifo \/ rpc[r] \in Handling
    BY <1>8 DEF Serving, Asleep, Notify, LockConc, CountMutex, Spawn, Create, CreateFails,
       Enqueue, IncPendings, Throttle, StopReceiver, Handling
  <2>4. \A s \in Receivers : rpc'[s] \in Handling => rpc[s] \in Handling
    <3>1. \E l : rpc' = [rpc EXCEPT ![r] = l] /\ (l \in Handling => rpc[r] \in Handling)
      BY <1>8 DEF Serving, Asleep, Notify, LockConc, CountMutex, Spawn, Create, CreateFails,
         Enqueue, IncPendings, Throttle, StopReceiver, Goto, NextRequest, Handling
    <3> QED BY <1>1, <3>1 DEF TypeOK
  <2>5. Deciding' => fifo' = fifo
    BY <2>2, <2>3 DEF Forsaken, Unused
  <2> QED BY <1>3, <2>1, <2>2, <2>4, <2>5
<1>9. ASSUME NEW q \in ConcReqs, ThreadStep(q) PROVE Forsaken'
  <2>1. UNCHANGED <<peer, handed, fifo, obj, uncounted, rpc>>
        /\ (state' = "RUNNING" => state = "RUNNING")
    BY <1>9 DEF ThreadStep, ThreadReturns, ThreadExits, DoInvoke
  <2>2. mpc' \in Draining => mpc \in Draining
    BY <1>1, <1>9, WokenPlaces DEF ThreadStep, ThreadReturns, ThreadExits, Broadcast, TypeOK
  <2> QED BY <1>3, <2>1, <2>2 DEF Deciding
<1>10. CASE Block \/ TakeConc \/ TakeHead \/ Exclusive \/ MainSpawn
            \/ \E r \in Receivers : TakeConcRacing(r)
  <2>1. ~Deciding'
    BY <1>10 DEF Block, TakeConc, TakeHead, Exclusive, MainSpawn, TakeConcRacing, Deciding,
       Draining
  <2> QED BY <2>1 DEF Forsaken
<1>11. CASE MainCreate \/ MainCreateFails \/ InvokeReturns \/ UncountMutex
  <2>1. ~Deciding'
    <3>1. CASE MainCreate \/ MainCreateFails \/ InvokeReturns
      BY <3>1 DEF MainCreate, MainCreateFails, InvokeReturns, NextServe, Deciding, Draining
    <3>2. CASE UncountMutex
      BY <3>2 DEF UncountMutex, NextServe, Deciding, Draining
    <3> QED BY <1>11, <3>1, <3>2
  <2> QED BY <2>1 DEF Forsaken
<1>12. CASE Drain \/ SkipDrain \/ UNCHANGED vars
  BY <1>3, <1>12 DEF Drain, SkipDrain, StopServing, Deciding, Draining, vars
<1>13. CASE Gone
  BY <1>13 DEF Gone, Forsaken, Deciding, Draining
<1> QED BY <1>4, <1>5, <1>6, <1>7, <1>8, <1>9, <1>10, <1>11, <1>12, <1>13
        DEF Next, MainStep, Clients, Exit, Kill, Alarm

(* When GetRequest gives up on a running broker, and no reference was      *)
(* taken, nobody is connected but perhaps the monitor, no reference is on  *)
(* its way and no request was read and not yet taken, and so it stays      *)
(* until the broker ends or the monitor takes a reference after all.       *)
THEOREM NothingLeftBehind ==
  ASSUME ~SelfRefs PROVE Spec => []LeavesNothingBehind
<1> DEFINE Inv == Attended /\ Held /\ InFifo /\ Forsaken
<1>1. Init => Inv
  BY DEF Init, Attended, Held, InFifo, Forsaken, Deciding, Draining, Handling
<1>2. RefsInv /\ Inv /\ [Next]_vars => Inv'
  BY BrokerAssumption, StepAttended, StepHeld, StepInFifo, StepForsaken DEF RefsInv
<1>3. RefsInv /\ Inv => LeavesNothingBehind
  <2> SUFFICES ASSUME RefsInv, Inv, Deciding
               PROVE  /\ Open \subseteq {Monitor} /\ handed = 0
                      /\ \A q \in Requests : phase[q] \notin {"received", "counted", "queued"}
    BY DEF LeavesNothingBehind, Deciding
  <2>1. Unused /\ fifo = <<>>
    BY DEF Forsaken
  <2>2. \A q \in Requests : phase[q] \notin {"received", "counted"}
    BY <2>1 DEF Held, Unused
  <2>3. \A q \in Requests : phase[q] # "queued"
    BY <2>1 DEF InFifo
  <2> QED BY <2>1, <2>2, <2>3 DEF Unused
<1> HIDE DEF Inv
<1> QED BY <1>1, <1>2, <1>3, RefsInductive, PTL DEF Spec
=============================================================================
