---------------------------- MODULE BrokerObject ----------------------------
(***************************************************************************)
(* Proof that Broker implements ParallelObject: whatever the comboxes, the *)
(* invoke threads and the failures, the calls start as the semantics of    *)
(* their methods allow.                                                    *)
(***************************************************************************)
EXTENDS BrokerProofs

(* The refinement mapping of Broker's instance Object.                     *)
Pending  == IF mpc \in {"excl", "exclWaiting"} THEN <<mreq>> \o fifo ELSE fifo
Started  == {q \in Requests : \/ phase[q] \in {"spawned", "running"}
                              \/ mpc \in {"spawn", "exec"} /\ mreq = q}
Accepted == {q \in Requests : phase[q] \notin {"new", "received", "counted"}}

(* Only concurrent requests get a thread.                                  *)
ThreadsConc == \A q \in Requests :
                 phase[q] \in {"spawned", "running", "ended"} => q \in ConcReqs

(* What a broadcast leaves of the main thread's location.                  *)
LEMMA WokenMapped ==
  ASSUME NEW l \in MainLocs
  PROVE  /\ Woken(l) \in {"excl", "exclWaiting"} <=> l \in {"excl", "exclWaiting"}
         /\ Woken(l) \in {"spawn", "exec"} <=> l \in {"spawn", "exec"}
BY DEF Woken, MainLocs

(* A step gives a thread of its own to no other request.                   *)
LEMMA StepThreadsConc ==
  ASSUME BrokerAssumption, IInv, ThreadsConc, [Next]_vars
  PROVE  ThreadsConc'
<1> USE DEF objVars, netVars, fifoVars, lockVars, recvVars, mainVars
<1>1. TypeOK
  BY DEF IInv
<1>2. ASSUME NEW q \in Requests, NEW p, Move(q, p),
             p \in {"spawned", "running", "ended"} => q \in ConcReqs
      PROVE  ThreadsConc'
  BY <1>1, <1>2 DEF Move, ThreadsConc, TypeOK
<1>3. ASSUME phase' = phase PROVE ThreadsConc'
  BY <1>3 DEF ThreadsConc
<1>4. ASSUME NEW r \in Receivers, Serving(r) \/ Asleep(r) \/ Clients(r)
      PROVE  ThreadsConc'
  <2>1. /\ rpc[r] \in {"count", "spawn", "create", "enqueue"} => rreq[r] \in Requests
        /\ rpc[r] \in {"spawn", "create"} => rreq[r] \in ConcReqs
    BY DEF IInv, ReceiverPlaces, Requests
  <2>2. \/ phase' = phase
        \/ \E q \in Requests, p \in Phases :
             Move(q, p) /\ (p \in {"spawned", "running", "ended"} => q \in ConcReqs)
    <3>1. CASE Serving(r)
      BY <2>1, <3>1 DEF Serving, Notify, LockConc, CountMutex, Spawn, Create,
         CreateFails, Enqueue, IncPendings, Phases
    <3>2. CASE Asleep(r) \/ Clients(r)
      BY <3>2 DEF Asleep, Clients, Throttle, StopReceiver, OnNewConnection,
         OnCloseConnection, AddRef, DecRef, Query, MonitorAsks, MonitorDecRef,
         ReceiveRequest, Phases
    <3> QED BY <1>4, <3>1, <3>2
  <2> QED BY <1>2, <1>3, <2>2
<1>5. CASE TakeConc \/ TakeHead \/ \E r \in Receivers : TakeConcRacing(r)
  <2>1. PICK i \in 1..Len(fifo) : TakeOut(i)
    <3>1. CASE TakeHead
      <4>1. Len(fifo) \in Nat /\ Len(fifo) > 0
        BY <1>1, <3>1, EmptySeq, LenProperties DEF TakeHead, TypeOK
      <4> QED BY <3>1, <4>1 DEF TakeHead
    <3>2. CASE ~TakeHead
      BY <1>5, <3>2 DEF TakeConc, TakeConcRacing
    <3> QED BY <3>1, <3>2
  <2> QED BY <1>1, <1>2, <2>1 DEF TakeOut, TypeOK
<1>6. CASE MainSpawn \/ MainCreate \/ MainCreateFails \/ InvokeReturns \/ UncountMutex
  <2>1. mreq \in Requests /\ (mpc \in {"spawn", "create"} => mreq \in ConcReqs)
    BY <1>6 DEF MainSpawn, MainCreate, MainCreateFails, InvokeReturns, UncountMutex,
       IInv, MainPlace, Requests
  <2>2. \/ phase' = phase
        \/ \E p : Move(mreq, p) /\ (p \in {"spawned", "running", "ended"} => mreq \in ConcReqs)
    BY <1>6, <2>1 DEF MainSpawn, MainCreate, MainCreateFails, InvokeReturns, UncountMutex
  <2> QED BY <1>2, <1>3, <2>1, <2>2
<1>7. ASSUME NEW q \in ConcReqs, ThreadStep(q) PROVE ThreadsConc'
  BY <1>2, <1>7 DEF ThreadStep, ThreadReturns, ThreadExits, Requests
<1>8. CASE GetEmpty \/ Block \/ Exclusive \/ Drain \/ SkipDrain \/ UNCHANGED vars
  BY <1>3, <1>8 DEF GetEmpty, Block, Exclusive, Drain, SkipDrain, vars
<1>9. CASE Gone
  BY <1>9 DEF Gone, ThreadsConc
<1> QED BY <1>4, <1>5, <1>6, <1>7, <1>8, <1>9 DEF Next, MainStep, Exit, Kill, Alarm

-----------------------------------------------------------------------------
(* The actions of ParallelObject, in terms of the mapping.                 *)
LEMMA Stutters ==
  ASSUME Pending' = Pending, Started' = Started, Accepted' = Accepted
  PROVE  UNCHANGED Object!vars
BY DEF Pending, Started, Accepted, Object!vars

(* A request that is new at the end of the queue was accepted.             *)
LEMMA Accepts ==
  ASSUME NEW q \in Requests, q \notin Accepted,
         Pending' = Append(Pending, q), Accepted' = Accepted \cup {q},
         Started' = Started
  PROVE  Object!Next
<1>1. Object!Accept(q)
  BY DEF Pending, Started, Accepted, Object!Accept
<1> QED BY <1>1 DEF Object!Next, Object!Calls, Requests

(* One that starts when no mutex request is in its way skips the queue.    *)
LEMMA StartsAtOnce ==
  ASSUME NEW q \in ConcReqs \ Accepted,
         (ToSet(Pending) \cup Started) \cap MutexReqs = {},
         Started' = Started \cup {q}, Accepted' = Accepted \cup {q},
         Pending' = Pending
  PROVE  Object!Next
<1>1. Object!StartAtOnce(q)
  BY DEF Pending, Started, Accepted, Object!StartAtOnce, Object!NoMutexIn,
     ToSet, Object!ToSet
<1> QED BY <1>1 DEF Object!Next, Object!Calls, Requests

(* One that may start where it stands in the queue starts.                 *)
LEMMA Starts ==
  ASSUME NEW i \in 1..Len(Pending), Pending \in Seq(Requests),
         \/ /\ Pending[i] \in ConcReqs \ (SeqReqs \cup MutexReqs)
            /\ ({Pending[j] : j \in 1..(i-1)} \cup Started) \cap MutexReqs = {}
         \/ /\ Pending[i] \in SeqReqs \ (ConcReqs \cup MutexReqs)
            /\ i = 1 /\ Started \subseteq ConcReqs
         \/ /\ Pending[i] \in MutexReqs \ (ConcReqs \cup SeqReqs)
            /\ i = 1 /\ Started = {},
         Started' = Started \cup {Pending[i]}, Pending' = RemoveAt(Pending, i),
         Accepted' = Accepted
  PROVE  Object!Next
<1>1. Object!MayStart(i)
  BY DEF Pending, Started, Object!MayStart, Object!NoMutexIn
<1>2. Object!Start(i)
  BY <1>1 DEF Pending, Started, Accepted, Object!Start, RemoveAt, Object!RemoveAt
<1> QED BY <1>2 DEF Object!Next, Pending

(* One that is no longer served has finished.                              *)
LEMMA Finishes ==
  ASSUME NEW q \in Started, Started' = Started \ {q}, Pending' = Pending,
         Accepted' = Accepted
  PROVE  Object!Next
<1>1. Object!Finish(q)
  BY DEF Pending, Started, Accepted, Object!Finish
<1>2. q \in Requests
  BY DEF Started
<1> QED BY <1>1, <1>2 DEF Object!Next, Object!Calls, Requests

(* At the end of the process nothing is pending or served any more.        *)
LEMMA Perishes ==
  ASSUME Pending' = <<>>, Started' = {}, Accepted' = Requests
  PROVE  Object!Next
<1>1. Object!Perish
  BY DEF Pending, Started, Accepted, Object!Perish, Object!Calls, Requests
<1> QED BY <1>1 DEF Object!Next

-----------------------------------------------------------------------------
(* A step that leaves the main thread where it is, or only wakes it.       *)
MainStays == mreq' = mreq /\ (mpc' = mpc \/ Broadcast)

(* Such a step changes nothing that the main thread contributes.           *)
LEMMA MainStaysMapped ==
  ASSUME TypeOK, MainStays
  PROVE  /\ fifo' = fifo => Pending' = Pending
         /\ mpc' \in {"spawn", "exec"} <=> mpc \in {"spawn", "exec"}
         /\ mpc' \in {"excl", "exclWaiting"} <=> mpc \in {"excl", "exclWaiting"}
         /\ phase' = phase => Started' = Started /\ Accepted' = Accepted
<1>1. mpc' \in {"spawn", "exec"} <=> mpc \in {"spawn", "exec"}
  BY WokenMapped DEF MainStays, Broadcast, TypeOK
<1>2. mpc' \in {"excl", "exclWaiting"} <=> mpc \in {"excl", "exclWaiting"}
  BY WokenMapped DEF MainStays, Broadcast, TypeOK
<1> QED BY <1>1, <1>2 DEF MainStays, Pending, Started, Accepted

(* What a request that moves does to the accepted ones, and to the started *)
(* ones when the main thread stays.                                        *)
LEMMA MoveMapped ==
  ASSUME TypeOK, NEW q \in Requests, NEW p \in Phases, Move(q, p)
  PROVE  /\ Accepted' = IF p \in {"new", "received", "counted"}
                          THEN Accepted \ {q} ELSE Accepted \cup {q}
         /\ MainStays /\ ~(mpc \in {"spawn", "exec"} /\ mreq = q) =>
              Started' = IF p \in {"spawned", "running"}
                           THEN Started \cup {q} ELSE Started \ {q}
<1>1. phase' \in [Requests -> Phases] /\ phase'[q] = p
      /\ \A x \in Requests \ {q} : phase'[x] = phase[x]
  BY MoveFacts DEF Moved
<1>2. Accepted' = IF p \in {"new", "received", "counted"}
                    THEN Accepted \ {q} ELSE Accepted \cup {q}
  BY <1>1 DEF Accepted
<1>3. ASSUME MainStays, ~(mpc \in {"spawn", "exec"} /\ mreq = q)
      PROVE  Started' = IF p \in {"spawned", "running"}
                          THEN Started \cup {q} ELSE Started \ {q}
  <2>1. mpc' \in {"spawn", "exec"} <=> mpc \in {"spawn", "exec"}
    BY <1>3, MainStaysMapped
  <2>2. mreq' = mreq
    BY <1>3 DEF MainStays
  <2> QED BY <1>1, <1>3, <2>1, <2>2 DEF Started
<1> QED BY <1>2, <1>3

(* What the mapping shows of a request, where the invariant puts it.       *)
LEMMA MappedFacts ==
  ASSUME BrokerAssumption, IInv, ThreadsConc
  PROVE  /\ Pending \in Seq(Requests)
         /\ mpc \notin {"spawn", "exec"} => Started \subseteq ConcReqs
         /\ mpc \notin {"spawn", "exec"} /\ instanceCount = 0 => Started = {}
         /\ mutexCount = 0 => (ToSet(Pending) \cup Started) \cap MutexReqs = {}
<1>1. TypeOK /\ fifo \in Seq(Requests)
  BY DEF IInv, TypeOK
<1>2. Pending \in Seq(Requests)
  <2>1. CASE mpc \in {"excl", "exclWaiting"}
    <3>1. mreq \in Requests
      BY <2>1 DEF IInv, MainPlace, Requests
    <3> QED BY <1>1, <2>1, <3>1 DEF Pending
  <2>2. CASE mpc \notin {"excl", "exclWaiting"}
    BY <1>1, <2>2 DEF Pending
  <2> QED BY <2>1, <2>2
<1>3. mpc \notin {"spawn", "exec"} => Started \subseteq ConcReqs /\ Started \subseteq Threads
  BY DEF Started, ThreadsConc, Threads
<1>4. instanceCount = 0 => Threads = {}
  BY PhaseSetsFinite, FS_EmptySet DEF IInv, CountersExact
<1>5. ASSUME mutexCount = 0 PROVE (ToSet(Pending) \cup Started) \cap MutexReqs = {}
  <2>1. Mutexes = {}
    BY <1>5, PhaseSetsFinite, FS_EmptySet DEF IInv, CountersExact
  <2>2. \A q \in MutexReqs : phase[q] \notin {"counted", "queued", "taken"}
    BY <2>1 DEF Mutexes
  <2>3. \A i \in 1..Len(fifo) : fifo[i] \notin MutexReqs
    BY <2>2 DEF IInv, QueuePlaces
  <2>4. mpc \notin {"excl", "exclWaiting"}
    BY <2>2 DEF IInv, MainPlace
  <2>5. ToSet(Pending) \cap MutexReqs = {}
    <3>1. DOMAIN fifo = 1..Len(fifo)
      BY <1>1, LenProperties
    <3> QED BY <2>3, <2>4, <3>1 DEF Pending, ToSet
  <2>6. Started \cap MutexReqs = {}
    BY <2>2, BrokerAssumption DEF Started, ThreadsConc, IInv, MainPlace, BrokerAssumption
  <2> QED BY <2>5, <2>6
<1> QED BY <1>2, <1>3, <1>4, <1>5

(* The receive threads and the invoke threads: a request is accepted when  *)
(* it is queued or given a thread, and finishes when its method returns or *)
(* its thread cannot be created.                                           *)
LEMMA ThreadsSimulate ==
  ASSUME BrokerAssumption, IInv, ThreadsConc,
         \/ \E r \in Receivers : Serving(r) \/ Asleep(r) \/ Clients(r)
         \/ \E q \in ConcReqs : ThreadStep(q)
  PROVE  [Object!Next]_Object!vars
<1> USE DEF objVars, netVars, fifoVars, lockVars, recvVars, mainVars
<1>1. TypeOK
  BY DEF IInv
<1>2. ASSUME MainStays, fifo' = fifo, phase' = phase PROVE UNCHANGED Object!vars
  BY <1>1, <1>2, MainStaysMapped, Stutters
<1>3. ASSUME NEW r \in Receivers, Notify(r) \/ LockConc(r) \/ IncPendings(r) \/ Asleep(r)
      PROVE  UNCHANGED Object!vars
  BY <1>2, <1>3 DEF Notify, LockConc, IncPendings, Asleep, Throttle, StopReceiver, MainStays
<1>4. ASSUME NEW r \in Receivers,
             \/ AddRef(r) \/ DecRef(r) \/ Query(r) \/ MonitorAsks(r) \/ MonitorDecRef(r)
             \/ \E c \in Peers : OnNewConnection(r, c) \/ OnCloseConnection(r, c)
      PROVE  UNCHANGED Object!vars
  BY <1>2, <1>4 DEF AddRef, DecRef, Query, MonitorAsks, MonitorDecRef, OnNewConnection,
     OnCloseConnection, MainStays
<1>5. ASSUME NEW r \in Receivers, NEW q \in Requests, ReceiveRequest(r, q)
      PROVE  UNCHANGED Object!vars
  <2>1. MainStays /\ Move(q, "received") /\ fifo' = fifo /\ phase[q] = "new"
    BY <1>5 DEF ReceiveRequest, MainStays
  <2>2. q \notin Accepted /\ q \notin Started
        /\ ~(mpc \in {"spawn", "exec"} /\ mreq = q)
    BY <2>1 DEF Accepted, Started, IInv, MainPlace
  <2>3. /\ Accepted' = Accepted \ {q} /\ Started' = Started \ {q} /\ Pending' = Pending
    BY <1>1, <2>1, <2>2, MoveMapped, MainStaysMapped DEF Phases
  <2> QED BY <2>2, <2>3, Stutters
<1>6. ASSUME NEW r \in Receivers, CountMutex(r) PROVE UNCHANGED Object!vars
  <2>1. /\ rreq[r] \in Requests /\ phase[rreq[r]] = "received"
        /\ MainStays /\ Move(rreq[r], "counted") /\ fifo' = fifo
    BY <1>6 DEF CountMutex, MainStays, IInv, ReceiverPlaces, Requests
  <2>2. rreq[r] \notin Accepted /\ rreq[r] \notin Started
        /\ ~(mpc \in {"spawn", "exec"} /\ mreq = rreq[r])
    BY <2>1 DEF Accepted, Started, IInv, MainPlace
  <2>3. /\ Accepted' = Accepted \ {rreq[r]} /\ Started' = Started \ {rreq[r]} /\ Pending' = Pending
    BY <1>1, <2>1, <2>2, MoveMapped, MainStaysMapped DEF Phases
  <2> QED BY <2>2, <2>3, Stutters
<1>7. ASSUME NEW r \in Receivers, Spawn(r) PROVE Object!Next
  <2>1. /\ rreq[r] \in ConcReqs /\ rreq[r] \in Requests /\ phase[rreq[r]] = "received"
        /\ MainStays /\ Move(rreq[r], "spawned") /\ fifo' = fifo
    BY <1>7 DEF Spawn, MainStays, IInv, ReceiverPlaces, Requests
  <2>2. mutexCount = 0
    BY <1>7 DEF Spawn, IInv, LockHeld
  <2>3. rreq[r] \notin Accepted /\ rreq[r] \notin Started
    BY <2>1 DEF Accepted, Started, IInv, MainPlace
  <2>4. /\ Accepted' = Accepted \cup {rreq[r]} /\ Started' = Started \cup {rreq[r]}
        /\ Pending' = Pending
    BY <1>1, <2>1, <2>3, MoveMapped, MainStaysMapped DEF Phases, Started
  <2> QED BY <2>1, <2>2, <2>3, <2>4, MappedFacts, StartsAtOnce
<1>8. ASSUME NEW r \in Receivers, Create(r) PROVE UNCHANGED Object!vars
  <2>1. /\ rreq[r] \in Requests /\ phase[rreq[r]] = "spawned"
        /\ MainStays /\ Move(rreq[r], "running") /\ fifo' = fifo
    BY <1>8 DEF Create, MainStays, IInv, ReceiverPlaces, Requests
  <2>2. rreq[r] \in Accepted /\ rreq[r] \in Started
        /\ ~(mpc \in {"spawn", "exec"} /\ mreq = rreq[r])
    BY <2>1 DEF Accepted, Started, IInv, MainPlace
  <2> QED BY SMTT(20), <1>1, <2>1, <2>2, MoveMapped, MainStaysMapped, Stutters DEF Phases
<1>9. ASSUME NEW r \in Receivers, CreateFails(r) PROVE Object!Next
  <2>1. /\ rreq[r] \in Requests /\ phase[rreq[r]] = "spawned"
        /\ MainStays /\ Move(rreq[r], "done") /\ fifo' = fifo
    BY <1>9 DEF CreateFails, MainStays, IInv, ReceiverPlaces, Requests
  <2>2. rreq[r] \in Accepted /\ rreq[r] \in Started
        /\ ~(mpc \in {"spawn", "exec"} /\ mreq = rreq[r])
    BY <2>1 DEF Accepted, Started, IInv, MainPlace
  <2>3. /\ Accepted' = Accepted /\ Started' = Started \ {rreq[r]} /\ Pending' = Pending
    BY SMTT(20), <1>1, <2>1, <2>2, MoveMapped, MainStaysMapped DEF Phases
  <2> QED BY <2>2, <2>3, Finishes
<1>10. ASSUME NEW r \in Receivers, Enqueue(r) PROVE Object!Next
  <2>1. /\ rreq[r] \in Requests /\ phase[rreq[r]] \in {"received", "counted"}
        /\ MainStays /\ Move(rreq[r], "queued") /\ fifo' = Append(fifo, rreq[r])
    BY <1>10 DEF Enqueue, MainStays, IInv, ReceiverPlaces, Requests
  <2>2. rreq[r] \notin Accepted /\ rreq[r] \notin Started
    BY <2>1 DEF Accepted, Started, IInv, MainPlace
  <2>3. Accepted' = Accepted \cup {rreq[r]} /\ Started' = Started
    BY <1>1, <2>1, <2>2, MoveMapped DEF Phases, Started
  <2>4. Pending' = Append(Pending, rreq[r])
    <3>1. mreq' = mreq /\ fifo \in Seq(Requests)
      BY <1>1, <2>1 DEF MainStays, TypeOK
    <3>2. CASE mpc \in {"excl", "exclWaiting"}
      <4>1. Pending = <<mreq>> \o fifo /\ Pending' = <<mreq>> \o Append(fifo, rreq[r])
        BY <1>1, <2>1, <3>1, <3>2, MainStaysMapped DEF Pending
      <4>2. mreq \in Requests
        BY <3>2 DEF IInv, MainPlace, Requests
      <4> QED BY <2>1, <3>1, <4>1, <4>2
    <3>3. CASE mpc \notin {"excl", "exclWaiting"}
      BY <1>1, <2>1, <3>1, <3>3, MainStaysMapped DEF Pending
    <3> QED BY <3>2, <3>3
  <2> QED BY <2>1, <2>2, <2>3, <2>4, Accepts
<1>11. ASSUME NEW q \in ConcReqs, ThreadReturns(q) PROVE Object!Next
  <2>1. /\ q \in Requests /\ phase[q] = "running"
        /\ MainStays /\ Move(q, "ended") /\ fifo' = fifo
    BY <1>11 DEF ThreadReturns, MainStays, Requests
  <2>2. q \in Accepted /\ q \in Started /\ ~(mpc \in {"spawn", "exec"} /\ mreq = q)
    BY <2>1 DEF Accepted, Started, IInv, MainPlace
  <2>3. Accepted' = Accepted \cup {q} /\ Started' = Started \ {q}
    BY <1>1, <2>1, <2>2, MoveMapped DEF Phases
  <2>4. Pending' = Pending
    BY <1>1, <2>1, MainStaysMapped
  <2> QED BY <2>2, <2>3, <2>4, Finishes
<1>12. ASSUME NEW q \in ConcReqs, ThreadExits(q) PROVE UNCHANGED Object!vars
  <2>1. /\ q \in Requests /\ phase[q] = "ended"
        /\ MainStays /\ Move(q, "done") /\ fifo' = fifo
    BY <1>12 DEF ThreadExits, MainStays, Requests
  <2>2. q \in Accepted /\ q \notin Started /\ ~(mpc \in {"spawn", "exec"} /\ mreq = q)
    BY <2>1 DEF Accepted, Started, IInv, MainPlace
  <2>3. Accepted' = Accepted \cup {q} /\ Started' = Started \ {q}
    BY <1>1, <2>1, <2>2, MoveMapped DEF Phases
  <2>4. Pending' = Pending
    BY <1>1, <2>1, MainStaysMapped
  <2> QED BY <2>2, <2>3, <2>4, Stutters
<1> QED BY <1>3, <1>4, <1>5, <1>6, <1>7, <1>8, <1>9, <1>10, <1>11, <1>12
        DEF Serving, Clients, ThreadStep

(* The head of a queue put back in front of the rest, and taken off again. *)
LEMMA HeadFacts ==
  ASSUME NEW S, NEW s \in Seq(S), Len(s) > 0
  PROVE  <<s[1]>> \o RemoveAt(s, 1) = s
<1>1. Len(s) \in Nat /\ 1 \in 1..Len(s) /\ s[1] \in S
  BY LenProperties, ElementOfSeq
<1>2. /\ RemoveAt(s, 1) \in Seq(S)
      /\ Len(RemoveAt(s, 1)) = Len(s) - 1
      /\ \A j \in 1..Len(s)-1 : RemoveAt(s, 1)[j] = s[j+1]
  BY <1>1, RemoveAtFacts
<1> DEFINE a == <<s[1]>>
           b == RemoveAt(s, 1)
<1>3. a \in Seq(S) /\ Len(a) = 1 /\ a[1] = s[1]
  BY <1>1
<1> HIDE DEF a, b
<1>4. /\ a \o b \in Seq(S) /\ Len(a \o b) = Len(a) + Len(b)
      /\ \A j \in 1..Len(a)+Len(b) :
           (a \o b)[j] = IF j <= Len(a) THEN a[j] ELSE b[j-Len(a)]
  <2>1. b \in Seq(S)
    BY <1>2 DEF b
  <2> QED BY <1>3, <2>1, ConcatProperties
<1>5. \A j \in 1..Len(s) : (a \o b)[j] = s[j]
  <2> TAKE j \in 1..Len(s)
  <2>1. CASE j = 1
    BY <1>1, <1>2, <1>3, <1>4, <2>1 DEF b
  <2>2. CASE j # 1
    <3>1. (a \o b)[j] = b[j-1] /\ j-1 \in 1..Len(s)-1
      BY <1>1, <1>2, <1>3, <1>4, <2>2 DEF b
    <3>2. b[j-1] = s[j-1+1]
      BY <1>2, <3>1 DEF b
    <3> QED BY <1>1, <3>1, <3>2
  <2> QED BY <2>1, <2>2
<1>6. Len(a \o b) = Len(s)
  BY <1>1, <1>2, <1>3, <1>4 DEF b
<1> QED BY <1>4, <1>5, <1>6, SeqEqual DEF a, b

(* The first of a list with an element put before it is that element.      *)
LEMMA PushedHead ==
  ASSUME NEW S, NEW s \in Seq(S), NEW e \in S
  PROVE  LET t == <<e>> \o s
         IN  t \in Seq(S) /\ Len(t) = Len(s) + 1 /\ t[1] = e /\ RemoveAt(t, 1) = s
<1> DEFINE a == <<e>>
           t == a \o s
<1>1. Len(s) \in Nat /\ a \in Seq(S) /\ Len(a) = 1 /\ a[1] = e
  BY LenProperties
<1> HIDE DEF a
<1>2. /\ t \in Seq(S) /\ Len(t) = Len(s) + 1
      /\ \A j \in 1..Len(s)+1 : t[j] = IF j <= 1 THEN a[j] ELSE s[j-1]
  BY SMTT(20), <1>1, ConcatProperties
<1> HIDE DEF t
<1>3. /\ RemoveAt(t, 1) \in Seq(S)
      /\ Len(RemoveAt(t, 1)) = Len(t) - 1
      /\ \A j \in 1..Len(t)-1 : RemoveAt(t, 1)[j] = IF j < 1 THEN t[j] ELSE t[j+1]
  <2>1. 1 \in 1..Len(t)
    BY <1>1, <1>2
  <2> QED BY <1>2, <2>1, RemoveAtFacts
<1> DEFINE u == RemoveAt(t, 1)
<1> HIDE DEF u
<1>4. u \in Seq(S) /\ Len(u) = Len(s)
  BY <1>1, <1>2, <1>3 DEF u
<1>5. \A j \in 1..Len(s) : u[j] = s[j]
  <2> TAKE j \in 1..Len(s)
  <2>1. u[j] = t[j+1] /\ j+1 \in 1..Len(s)+1
    BY <1>1, <1>2, <1>3 DEF u
  <2>2. t[j+1] = s[j+1-1]
    BY <1>1, <1>2, <2>1
  <2> QED BY <1>1, <2>1, <2>2
<1>6. u = s
  BY <1>4, <1>5, SeqEqual
<1>7. t[1] = e
  BY <1>1, <1>2
<1> QED BY <1>1, <1>2, <1>6, <1>7 DEF t, u, a

(* The main thread: a request starts when it is taken for an invoke thread *)
(* or for execution.  A mutex request that waits in GetRequest is still    *)
(* pending, in front of the queue.                                         *)
LEMMA MainSimulates ==
  ASSUME BrokerAssumption, IInv, ThreadsConc,
         MainStep \/ Kill \/ Alarm \/ UNCHANGED vars
  PROVE  [Object!Next]_Object!vars
<1> USE DEF objVars, netVars, fifoVars, lockVars, recvVars, mainVars
<1>1. TypeOK /\ fifo \in Seq(Requests) /\ Len(fifo) \in Nat /\ mpc \in MainLocs
  BY LenProperties DEF IInv, TypeOK
<1>2. CASE GetEmpty \/ Block \/ Drain \/ SkipDrain
  <2>1. /\ mpc \notin {"spawn", "exec", "excl", "exclWaiting"}
        /\ mpc' \notin {"spawn", "exec", "excl", "exclWaiting"}
        /\ UNCHANGED <<fifo, phase, mreq>>
    BY <1>2 DEF GetEmpty, Block, Drain, SkipDrain, StopServing
  <2>2. Pending' = Pending /\ Started' = Started /\ Accepted' = Accepted
    BY <2>1 DEF Pending, Started, Accepted
  <2> QED BY <2>2, Stutters
<1>3. CASE UNCHANGED vars
  BY <1>3, Stutters DEF vars, Pending, Started, Accepted
<1>4. CASE TakeConc \/ \E r \in Receivers : TakeConcRacing(r)
  <2>1. PICK i \in 1..Len(fifo) : Overtakes(i) /\ TakeOut(i)
    BY <1>4 DEF TakeConc, TakeConcRacing
  <2>2. mpc = "get" /\ mpc' = "spawn"
    BY <1>4 DEF TakeConc, TakeConcRacing
  <2>3. /\ mreq' = fifo[i] /\ fifo' = RemoveAt(fifo, i) /\ Move(fifo[i], "taken")
        /\ fifo[i] \in Requests /\ phase[fifo[i]] = "queued"
    BY <1>1, <2>1 DEF TakeOut, IInv, QueuePlaces
  <2>4. Pending = fifo /\ Pending' = RemoveAt(Pending, i)
    BY <2>2, <2>3 DEF Pending
  <2>5. phase'[fifo[i]] = "taken" /\ \A x \in Requests \ {fifo[i]} : phase'[x] = phase[x]
    BY <1>1, <2>3, MoveFacts DEF Phases, Moved
  <2>6. Started' = Started \cup {fifo[i]}
    BY <2>2, <2>3, <2>5 DEF Started
  <2>7. Accepted' = Accepted
    BY <2>3, <2>5 DEF Accepted
  <2>8. ({Pending[j] : j \in 1..(i-1)} \cup Started) \cap MutexReqs = {}
    <3>1. Started \subseteq ConcReqs
      BY <2>2, MappedFacts
    <3>2. \A j \in 1..(i-1) : Pending[j] \in SeqReqs
      BY <2>1, <2>4 DEF Overtakes
    <3> QED BY <3>1, <3>2, BrokerAssumption DEF BrokerAssumption
  <2>9. Pending[i] \in ConcReqs \ (SeqReqs \cup MutexReqs)
    BY <2>1, <2>4, BrokerAssumption DEF Overtakes, BrokerAssumption
  <2> QED BY <1>1, <2>4, <2>6, <2>7, <2>8, <2>9, Starts
<1>5. CASE TakeHead
  <2>1. /\ mpc = "get" /\ 1 \in 1..Len(fifo)
        /\ mreq' = fifo[1] /\ fifo' = RemoveAt(fifo, 1) /\ Move(fifo[1], "taken")
    BY <1>1, <1>5, EmptySeq DEF TakeHead, TakeOut
  <2>2. fifo[1] \in Requests /\ phase[fifo[1]] = "queued"
    BY <1>1, <2>1 DEF IInv, QueuePlaces
  <2>3. phase'[fifo[1]] = "taken" /\ \A x \in Requests \ {fifo[1]} : phase'[x] = phase[x]
    BY <1>1, <2>1, <2>2, MoveFacts DEF Phases, Moved
  <2>4. Pending = fifo /\ Accepted' = Accepted
    BY <2>1, <2>2, <2>3 DEF Pending, Accepted
  <2>5. Started \subseteq ConcReqs /\ (instanceCount = 0 => Started = {})
    BY <2>1, MappedFacts
  <2>6. CASE fifo[1] \in MutexReqs /\ instanceCount > 0
    <3>1. mpc' = "exclWaiting"
      BY <1>5, <2>6, BrokerAssumption DEF TakeHead, BrokerAssumption
    <3>2. Pending' = Pending
      BY <1>1, <2>1, <2>4, <3>1, HeadFacts DEF Pending
    <3>3. Started' = Started
      BY <2>1, <2>2, <2>3, <3>1 DEF Started
    <3> QED BY <2>4, <3>2, <3>3, Stutters
  <2>7. CASE ~(fifo[1] \in MutexReqs /\ instanceCount > 0)
    <3>1. mpc' \in {"spawn", "exec"}
      BY <1>5, <2>7 DEF TakeHead
    <3>2. Pending' = RemoveAt(Pending, 1) /\ Started' = Started \cup {Pending[1]}
      BY <2>1, <2>2, <2>3, <2>4, <3>1 DEF Pending, Started
    <3>3. CASE fifo[1] \in ConcReqs
      <4>1. /\ fifo[1] \notin SeqReqs \cup MutexReqs
            /\ ({Pending[j] : j \in 1..(1-1)} \cup Started) \cap MutexReqs = {}
        BY <2>5, <3>3, BrokerAssumption DEF BrokerAssumption
      <4> QED BY <1>1, <2>1, <2>4, <3>2, <3>3, <4>1, Starts
    <3>4. CASE fifo[1] \in SeqReqs
      <4>1. fifo[1] \notin ConcReqs \cup MutexReqs
        BY <3>4, BrokerAssumption DEF BrokerAssumption
      <4> QED BY <1>1, <2>1, <2>4, <2>5, <3>2, <3>4, <4>1, Starts
    <3>5. CASE fifo[1] \in MutexReqs
      <4>1. fifo[1] \notin ConcReqs \cup SeqReqs
        BY <3>5, BrokerAssumption DEF BrokerAssumption
      <4>2. Started = {}
        BY <1>1, <2>5, <2>7, <3>5 DEF TypeOK
      <4> QED BY <1>1, <2>1, <2>4, <3>2, <3>5, <4>1, <4>2, Starts
    <3> QED BY <2>2, <3>3, <3>4, <3>5 DEF Requests
  <2> QED BY <2>6, <2>7
<1>6. CASE Exclusive
  <2>1. mpc = "excl" /\ UNCHANGED <<fifo, phase, mreq>>
    BY <1>6 DEF Exclusive
  <2>2. mreq \in MutexReqs /\ mreq \in Requests /\ phase[mreq] = "taken"
    BY <2>1 DEF IInv, MainPlace, Requests
  <2>3. CASE instanceCount > 0
    <3>1. mpc' = "exclWaiting"
      BY <1>6, <2>3 DEF Exclusive
    <3> QED BY <2>1, <3>1, Stutters DEF Pending, Started, Accepted
  <2>4. CASE ~(instanceCount > 0)
    <3>1. mpc' = "exec" /\ instanceCount = 0
      BY <1>1, <1>6, <2>4 DEF Exclusive, TypeOK
    <3>2. Started = {} /\ Pending \in Seq(Requests)
      BY <2>1, <3>1, MappedFacts
    <3>3. Pending = <<mreq>> \o fifo /\ Pending' = fifo
      BY <2>1, <3>1 DEF Pending
    <3>4. Len(Pending) = Len(fifo) + 1 /\ Pending[1] = mreq /\ RemoveAt(Pending, 1) = fifo
      BY <1>1, <2>2, <3>3, PushedHead
    <3>5. Started' = Started \cup {mreq} /\ Accepted' = Accepted
      <4>1. Started = {q \in Requests : phase[q] \in {"spawned", "running"}}
        BY <2>1 DEF Started
      <4>2. Started' = {q \in Requests : phase[q] \in {"spawned", "running"} \/ mreq = q}
        BY <2>1, <3>1 DEF Started
      <4> QED BY <2>1, <2>2, <4>1, <4>2 DEF Accepted
    <3>6. 1 \in 1..Len(Pending) /\ mreq \notin ConcReqs \cup SeqReqs
      BY <1>1, <2>2, <3>4, BrokerAssumption DEF BrokerAssumption
    <3> QED BY <2>2, <3>2, <3>3, <3>4, <3>5, <3>6, Starts
  <2> QED BY <2>3, <2>4
<1>7. CASE MainSpawn \/ MainCreate
  <2>1. /\ mreq \in Requests /\ mpc' \notin {"spawn", "exec", "excl", "exclWaiting"}
        /\ mpc \in {"spawn", "create"} /\ UNCHANGED <<fifo, mreq>>
        /\ mpc = "create" => phase[mreq] = "spawned"
        /\ mpc = "spawn" => phase[mreq] = "taken"
        /\ \E p \in {"spawned", "running"} : Move(mreq, p)
    BY <1>7 DEF MainSpawn, MainCreate, NextServe, IInv, MainPlace, Requests
  <2>2. phase'[mreq] \in {"spawned", "running"} /\ \A x \in Requests \ {mreq} : phase'[x] = phase[x]
    BY <1>1, <2>1, MoveFacts DEF Phases, Moved
  <2>3. Pending' = Pending
    BY <2>1 DEF Pending
  <2>4. Started' = Started
    BY <2>1, <2>2 DEF Started
  <2>5. Accepted' = Accepted
    BY <2>1, <2>2 DEF Accepted
  <2> QED BY <2>3, <2>4, <2>5, Stutters
<1>8. CASE MainCreateFails
  <2>1. /\ mreq \in Requests /\ mpc' \notin {"spawn", "exec", "excl", "exclWaiting"}
        /\ mpc = "create" /\ phase[mreq] = "spawned" /\ UNCHANGED <<fifo, mreq>>
        /\ Move(mreq, "done")
    BY <1>8 DEF MainCreateFails, NextServe, IInv, MainPlace, Requests
  <2>2. phase'[mreq] = "done" /\ \A x \in Requests \ {mreq} : phase'[x] = phase[x]
    BY <1>1, <2>1, MoveFacts DEF Phases, Moved
  <2>3. Pending' = Pending
    BY <2>1 DEF Pending
  <2>4. mreq \in Started /\ Started' = Started \ {mreq}
    BY <2>1, <2>2 DEF Started
  <2>5. Accepted' = Accepted
    BY <2>1, <2>2 DEF Accepted
  <2> QED BY <2>3, <2>4, <2>5, Finishes
<1>9. CASE InvokeReturns
  <2>1. /\ mreq \in Requests /\ mpc' \notin {"spawn", "exec", "excl", "exclWaiting"}
        /\ mpc = "exec" /\ phase[mreq] = "taken" /\ UNCHANGED <<fifo, mreq>>
        /\ phase' = phase \/ Move(mreq, "done")
    BY <1>9 DEF InvokeReturns, NextServe, IInv, MainPlace, Requests
  <2>2. /\ phase'[mreq] \in {"taken", "done"}
        /\ \A x \in Requests \ {mreq} : phase'[x] = phase[x]
    BY <1>1, <2>1, MoveFacts DEF Phases, Moved
  <2>3. Pending' = Pending
    BY <2>1 DEF Pending
  <2>4. mreq \in Started /\ Started' = Started \ {mreq}
    BY <2>1, <2>2 DEF Started
  <2>5. Accepted' = Accepted
    BY <2>1, <2>2 DEF Accepted
  <2> QED BY <2>3, <2>4, <2>5, Finishes
<1>10. CASE UncountMutex
  <2>1. /\ mreq \in Requests /\ mpc' \notin {"spawn", "exec", "excl", "exclWaiting"}
        /\ mpc = "uncount" /\ phase[mreq] = "taken" /\ UNCHANGED <<fifo, mreq>>
        /\ Move(mreq, "done")
    BY <1>10 DEF UncountMutex, NextServe, IInv, MainPlace, Requests
  <2>2. phase'[mreq] = "done" /\ \A x \in Requests \ {mreq} : phase'[x] = phase[x]
    BY <1>1, <2>1, MoveFacts DEF Phases, Moved
  <2>3. Pending' = Pending
    BY <2>1 DEF Pending
  <2>4. Started' = Started
    BY <2>1, <2>2 DEF Started
  <2>5. Accepted' = Accepted
    BY <2>1, <2>2 DEF Accepted
  <2> QED BY <2>3, <2>4, <2>5, Stutters
<1>11. CASE Gone
  <2>1. Pending' = <<>> /\ Started' = {} /\ Accepted' = Requests
    BY <1>11 DEF Gone, Pending, Started, Accepted
  <2> QED BY <2>1, Perishes
<1> QED BY <1>2, <1>3, <1>4, <1>5, <1>6, <1>7, <1>8, <1>9, <1>10, <1>11
        DEF MainStep, Exit, Kill, Alarm

-----------------------------------------------------------------------------
(* Broker implements ParallelObject: every behaviour of the broker's       *)
(* threads is one in which a mutex call runs alone, a sequential call runs *)
(* beside concurrent calls only and no call overtakes a mutex call.        *)
THEOREM ObjectImplemented == Spec => ImplementsObject
<1>1. Init => ThreadsConc /\ Object!Init
  <2> SUFFICES ASSUME Init PROVE ThreadsConc /\ Object!Init
    OBVIOUS
  <2>1. ThreadsConc
    BY DEF Init, ThreadsConc
  <2>2. Pending = <<>> /\ Started = {} /\ Accepted = {}
    BY DEF Init, Pending, Started, Accepted
  <2> QED BY <2>1, <2>2 DEF Pending, Started, Accepted, Object!Init
<1>2. IInv /\ ThreadsConc /\ [Next]_vars => ThreadsConc'
  BY BrokerAssumption, StepThreadsConc
<1>3. IInv /\ ThreadsConc /\ [Next]_vars => [Object!Next]_Object!vars
  BY BrokerAssumption, ThreadsSimulate, MainSimulates DEF Next
<1> QED BY <1>1, <1>2, <1>3, Inductive, PTL DEF Spec, ImplementsObject, Object!Spec
=============================================================================
