------------------------------- MODULE Broker -------------------------------
(***************************************************************************)
(* The broker of a POP-C++ parallel object (lib/broker.cc,                 *)
(* lib/broker_receive.cc, lib/broker_serve.cc): the process that hosts one *)
(* object and serves the calls made on it.  Its threads are               *)
(*   - one receive thread per combox, which accepts connections and reads  *)
(*     requests (ReceiveThread);                                           *)
(*   - the main thread, which takes requests from request_fifo (Run);      *)
(*   - one invoke thread per concurrent call (paroc_invokethread).         *)
(* They share two locks.  A critical section of execCond that neither      *)
(* waits nor races with an unlocked access is one action; the one between  *)
(* GetRequest's test and its wait is not (location "blocking").  mutexCond *)
(* is held across several steps and is the variable mutexLock.             *)
(***************************************************************************)
EXTENDS Integers, Sequences, FiniteSets, SequencesExt

CONSTANTS
  Receivers,   \* the receive threads, one per combox
  Conns,       \* the connections clients may open
  Monitor,     \* the connection of the ObjectMonitor's poll
  Ctor,        \* the constructor call, a mutex call
  ConcReqs,    \* the calls on concurrent methods
  MutexReqs,   \* the calls on mutex methods, Ctor among them
  SeqReqs,     \* the calls on sequential methods
  Probe,       \* the monitor's ObjectActive, when it comes before the object
  Faulty,      \* asynchronous calls whose method may throw
  QueueMax,    \* POPC_QUEUE_MAX
  MaxHanded,   \* bound: references on their way to another client at once
  MaxTaken,    \* bound: the monitor takes no reference when so many are missing
  EarlyPeers,  \* a second peer may connect before the object is constructed
  SelfRefs,    \* a running method may hand out a reference to its own object
  Polled,      \* the application's monitor polls the object
  None         \* no thread, no request

Requests == ConcReqs \cup MutexReqs \cup SeqReqs
Peers    == Conns \cup {Monitor}

ASSUME BrokerAssumption ==
  /\ IsFiniteSet(Receivers) /\ Receivers # {} /\ None \notin Receivers
  /\ IsFiniteSet(Peers) /\ Conns # {} /\ Monitor \notin Conns
  /\ IsFiniteSet(Requests) /\ None \notin Requests
  /\ ConcReqs \cap MutexReqs = {} /\ ConcReqs \cap SeqReqs = {}
  /\ MutexReqs \cap SeqReqs = {}
  /\ Ctor \in MutexReqs /\ Faulty \subseteq Requests \ {Ctor}
  /\ Probe \in SeqReqs \ Faulty
  /\ QueueMax \in Nat /\ MaxHanded \in Nat /\ MaxTaken \in Nat
  /\ EarlyPeers \in BOOLEAN /\ SelfRefs \in BOOLEAN /\ Polled \in BOOLEAN

VARIABLES
  state,          \* "RUNNING", "ABORT" or "EXIT"
  obj,            \* obj != NULL
  refcount,       \* obj->refcount
  peer,           \* peer[c] = the receiver a connection was accepted by, or None
  handed,         \* references a client has added for another one (AddRef)
  answer,         \* what the monitor's poll was told, "over" when it is done
  uncounted,      \* history: connections not counted, references taken
  fifo,           \* request_fifo
  concPendings,   \* the hint that concurrent requests are queued
  instanceCount,  \* the invoke threads, counted
  mutexCount,     \* the mutex requests registered and not finished, counted
  mutexLock,      \* the receiver that holds mutexCond between two steps
  phase,          \* where each request is
  rpc, rreq,      \* location of each receive thread, the request it handles
  mpc, mreq       \* location of the main thread, the request it serves

objVars  == <<state, obj, refcount>>
netVars  == <<peer, handed, answer, uncounted>>
fifoVars == <<fifo, concPendings>>
lockVars == <<mutexCount, mutexLock>>
recvVars == <<rpc, rreq>>
mainVars == <<mpc, mreq>>
vars == <<objVars, netVars, fifoVars, instanceCount, lockVars, phase, recvVars, mainVars>>

Phases == {"new", "received", "counted", "queued", "taken",
           "spawned", "running", "ended", "done", "lost"}
RecvLocs == {"idle", "notify", "lock", "count", "enqueue", "spawn", "create",
             "pend", "pendFull", "throttle", "closed"}
MainLocs == {"get", "blocking", "waiting", "exclWaiting", "excl",
             "spawn", "create", "exec", "uncount",
             "drain", "drainLoop", "drainWaiting", "stop", "exited"}

TypeOK ==
  /\ state \in {"RUNNING", "ABORT", "EXIT"}
  /\ obj \in BOOLEAN
  /\ refcount \in Int
  /\ peer \in [Peers -> Receivers \cup {None}]
  /\ handed \in 0..MaxHanded
  /\ answer \in {"none", "inactive", "over"}
  /\ uncounted \in Nat
  /\ fifo \in Seq(Requests)
  /\ concPendings \in Nat
  /\ instanceCount \in Nat
  /\ mutexCount \in Nat
  /\ mutexLock \in Receivers \cup {None}
  /\ phase \in [Requests -> Phases]
  /\ rpc \in [Receivers -> RecvLocs]
  /\ rreq \in [Receivers -> Requests \cup {None}]
  /\ mpc \in MainLocs
  /\ mreq \in Requests \cup {None}

Init ==
  /\ state = "RUNNING" /\ obj = FALSE /\ refcount = 0
  /\ \E r \in Receivers, c \in Conns :
       peer = [p \in Peers |-> IF p = c THEN r ELSE None]
  /\ handed = 0 /\ answer = "none" /\ uncounted = 0
  /\ fifo = <<>> /\ concPendings = 0
  /\ instanceCount = 0 /\ mutexCount = 0 /\ mutexLock = None
  /\ phase = [q \in Requests |-> "new"]
  /\ rpc = [r \in Receivers |-> "idle"] /\ rreq = [r \in Receivers |-> None]
  /\ mpc = "get" /\ mreq = None

-----------------------------------------------------------------------------
(* The waits on execCond.                                                  *)

(* No thread keeps execCond between two steps except the main thread on    *)
(* its way from the test of GetRequest to its wait.                        *)
ExecFree == mpc # "blocking"

(* execCond.broadcast(): only the main thread ever waits on execCond.      *)
Woken(l) == CASE l = "waiting"      -> "get"
              [] l = "exclWaiting"  -> "excl"
              [] l = "drainWaiting" -> "drainLoop"
              [] OTHER              -> l
Broadcast == mpc' = Woken(mpc)

(* The calls whose method is being executed, in a thread or by main.       *)
Executing == {q \in Requests : phase[q] = "running" \/ (mpc = "exec" /\ mreq = q)}

(* The constructor runs: obj is assigned when it returns, but the object   *)
(* has already passed its access point to the application's monitor.       *)
Constructing == mpc = "exec" /\ mreq = Ctor

(* The monitor waits for the answer to its early question.                 *)
Asking == phase[Probe] \in {"received", "queued", "taken"}

Open       == {c \in Peers : peer[c] # None}
Move(q, p) == phase' = [phase EXCEPT ![q] = p]
Goto(r, l) == rpc' = [rpc EXCEPT ![r] = l]

(* The loop of ReceiveThread goes on while the broker is running.          *)
NextRequest == IF state = "RUNNING" THEN "idle" ELSE "closed"

-----------------------------------------------------------------------------
(* The receive threads: connections, and the calls the broker answers      *)
(* itself (ParocCall).                                                     *)

(* A client connects with a reference handed to it, or again beside a      *)
(* connection it has.  Three peers come at other times: the monitor's poll *)
(* and one to which the object has passed itself, both of them also while  *)
(* the constructor runs.                                                   *)
MayConnect(c) ==
  \/ c = Monitor /\ Polled /\ (obj \/ Constructing)
  \/ c \in Conns /\ obj /\ (handed > 0 \/ \E d \in Conns : peer[d] # None)
  \/ c \in Conns /\ Constructing /\ EarlyPeers
  \/ c \in Conns /\ obj /\ SelfRefs /\ Executing \ {Probe} # {}

(* Mutant: the connection is accepted without AddRef.                      *)
OnNewConnectionUncounted(r, c) ==
  /\ rpc[r] = "idle" /\ peer[c] = None /\ MayConnect(c)
  /\ peer' = [peer EXCEPT ![c] = r]
  /\ UNCHANGED <<objVars, handed, answer, uncounted, fifoVars, instanceCount,
                 lockVars, phase, recvVars, mainVars>>

OnNewConnection(r, c) ==
  /\ rpc[r] = "idle" /\ peer[c] = None /\ MayConnect(c)
  /\ peer' = [peer EXCEPT ![c] = r]
  /\ refcount' = IF obj THEN refcount + 1 ELSE refcount
  /\ UNCHANGED <<state, obj, handed, answer, uncounted, fifoVars, instanceCount,
                 lockVars, phase, recvVars, mainVars>>

(* Mutant: no broadcast when the last reference goes.                      *)
OnCloseConnectionSilent(r, c) ==
  /\ rpc[r] = "idle" /\ peer[c] = r /\ (c = Monitor => ~Asking)
  /\ peer' = [peer EXCEPT ![c] = None]
  /\ answer' = IF c = Monitor THEN "none" ELSE answer
  /\ refcount' = IF obj THEN refcount - 1 ELSE refcount
  /\ UNCHANGED <<state, obj, handed, uncounted, fifoVars, instanceCount, lockVars,
                 phase, recvVars, mainVars>>

OnCloseConnection(r, c) ==
  /\ rpc[r] = "idle" /\ peer[c] = r /\ (c = Monitor => ~Asking)
  /\ peer' = [peer EXCEPT ![c] = None]
  /\ answer' = IF c = Monitor THEN "none" ELSE answer
  /\ refcount' = IF obj THEN refcount - 1 ELSE refcount
  /\ IF obj /\ refcount' <= 0 THEN Goto(r, "notify") ELSE UNCHANGED rpc
  /\ UNCHANGED <<state, obj, handed, uncounted, fifoVars, instanceCount, lockVars,
                 phase, rreq, mainVars>>

AddRef(r) ==
  /\ rpc[r] = "idle" /\ obj /\ \E c \in Conns : peer[c] = r
  /\ handed < MaxHanded
  /\ refcount' = refcount + 1 /\ handed' = handed + 1
  /\ Goto(r, "notify")
  /\ UNCHANGED <<state, obj, peer, answer, uncounted, fifoVars, instanceCount,
                 lockVars, phase, rreq, mainVars>>

DecRef(r) ==
  /\ rpc[r] = "idle" /\ obj /\ \E c \in Conns : peer[c] = r
  /\ handed > 0
  /\ refcount' = refcount - 1 /\ handed' = handed - 1
  /\ Goto(r, "notify")
  /\ UNCHANGED <<state, obj, peer, answer, uncounted, fifoVars, instanceCount,
                 lockVars, phase, rreq, mainVars>>

(* ObjectActive, as the monitor's poll asks it.                            *)
Activity == IF instanceCount = 0 /\ fifo = <<>> THEN "inactive" ELSE "over"

MonitorAsks(r) ==
  /\ rpc[r] = "idle" /\ obj /\ peer[Monitor] = r
  /\ answer = "none" /\ ~Asking
  /\ answer' = Activity
  /\ Goto(r, "notify")
  /\ UNCHANGED <<objVars, peer, handed, uncounted, fifoVars, instanceCount,
                 lockVars, phase, rreq, mainVars>>

(* The poll may then take a reference that nobody added for it: the object *)
(* was idle, and so was every object polled before it and the last round.  *)
MonitorDecRef(r) ==
  /\ rpc[r] = "idle" /\ obj /\ peer[Monitor] = r
  /\ answer = "inactive" /\ answer' = "over"
  /\ uncounted < MaxTaken
  /\ refcount' = refcount - 1 /\ uncounted' = uncounted + 1
  /\ Goto(r, "notify")
  /\ UNCHANGED <<state, obj, peer, handed, fifoVars, instanceCount, lockVars,
                 phase, rreq, mainVars>>

(* BindStatus, GetEncoding, a client's ObjectActive: an answer, and then a *)
(* broadcast.                                                              *)
Query(r) ==
  /\ rpc[r] = "idle" /\ \E c \in Peers : peer[c] = r /\ (c = Monitor => ~Asking)
  /\ Goto(r, "notify")
  /\ UNCHANGED <<objVars, netVars, fifoVars, instanceCount, lockVars,
                 phase, rreq, mainVars>>

(* execCond.broadcast() after a call to the broker, without the lock.      *)
Notify(r) ==
  /\ rpc[r] = "notify"
  /\ Broadcast
  /\ Goto(r, NextRequest)
  /\ UNCHANGED <<objVars, netVars, fifoVars, instanceCount, lockVars,
                 phase, rreq, mreq>>

-----------------------------------------------------------------------------
(* The receive threads: RegisterRequest.                                   *)

(* A call the broker does not answer itself.  The first is the constructor;*)
(* while it runs, early peers may call, and the monitor's ObjectActive is  *)
(* a sequential call like theirs, because ParocCall leaves it to main.     *)
ReceiveRequest(r, q) ==
  /\ rpc[r] = "idle" /\ phase[q] = "new"
  /\ \/ q = Probe /\ peer[Monitor] = r /\ ~obj
     \/ /\ q # Probe /\ \E c \in Conns : peer[c] = r
        /\ obj \/ q = Ctor \/ (Constructing /\ EarlyPeers)
  /\ rreq' = [rreq EXCEPT ![r] = q]
  /\ Goto(r, CASE q \in ConcReqs  -> "lock"
               [] q \in MutexReqs -> "count"
               [] q \in SeqReqs   -> "enqueue")
  /\ Move(q, "received")
  /\ UNCHANGED <<objVars, netVars, fifoVars, instanceCount, lockVars, mainVars>>

(* Mutant: mutexCond is released before the request is served.             *)
LockConcReleased(r) ==
  /\ rpc[r] = "lock" /\ mutexLock = None
  /\ mutexLock' = IF mutexCount <= 0 THEN None ELSE r
  /\ Goto(r, IF mutexCount <= 0 THEN "spawn" ELSE "enqueue")
  /\ UNCHANGED <<objVars, netVars, fifoVars, instanceCount, mutexCount,
                 phase, rreq, mainVars>>

(* A concurrent request is served by the receive thread itself when no     *)
(* mutex request is queued or executing; mutexCond stays locked until then.*)
LockConc(r) ==
  /\ rpc[r] = "lock" /\ mutexLock = None
  /\ mutexLock' = r
  /\ Goto(r, IF mutexCount <= 0 THEN "spawn" ELSE "enqueue")
  /\ UNCHANGED <<objVars, netVars, fifoVars, instanceCount, mutexCount,
                 phase, rreq, mainVars>>

CountMutex(r) ==
  /\ rpc[r] = "count" /\ mutexLock = None
  /\ mutexCount' = mutexCount + 1
  /\ Goto(r, "enqueue")
  /\ Move(rreq[r], "counted")
  /\ UNCHANGED <<objVars, netVars, fifoVars, instanceCount, mutexLock,
                 rreq, mainVars>>

(* The thread's constructor counts it before it is created.                *)
Spawn(r) ==
  /\ rpc[r] = "spawn" /\ ExecFree
  /\ instanceCount' = instanceCount + 1
  /\ Goto(r, "create")
  /\ Move(rreq[r], "spawned")
  /\ UNCHANGED <<objVars, netVars, fifoVars, lockVars, rreq, mainVars>>

Create(r) ==
  /\ rpc[r] = "create"
  /\ mutexLock' = None
  /\ Goto(r, NextRequest)
  /\ Move(rreq[r], "running")
  /\ UNCHANGED <<objVars, netVars, fifoVars, instanceCount, mutexCount,
                 rreq, mainVars>>

(* Mutant: the thread object that could not start is not deleted.          *)
CreateFailsLeaking(r) ==
  /\ rpc[r] = "create" /\ ExecFree
  /\ Broadcast
  /\ mutexLock' = None
  /\ Goto(r, NextRequest)
  /\ Move(rreq[r], "done")
  /\ UNCHANGED <<objVars, netVars, fifoVars, instanceCount, mutexCount, rreq, mreq>>

(* No thread after an hour of retries: the call fails and is uncounted.    *)
CreateFails(r) ==
  /\ rpc[r] = "create" /\ ExecFree
  /\ instanceCount' = instanceCount - 1
  /\ Broadcast
  /\ mutexLock' = None
  /\ Goto(r, NextRequest)
  /\ Move(rreq[r], "done")
  /\ UNCHANGED <<objVars, netVars, fifoVars, mutexCount, rreq, mreq>>

(* Mutant: the request is queued and nobody is told.                       *)
EnqueueSilent(r) ==
  /\ rpc[r] = "enqueue" /\ ExecFree
  /\ fifo' = Append(fifo, rreq[r])
  /\ Move(rreq[r], "queued")
  /\ Goto(r, IF rreq[r] \in ConcReqs THEN "pend" ELSE NextRequest)
  /\ UNCHANGED <<objVars, netVars, concPendings, instanceCount, lockVars,
                 rreq, mainVars>>

Enqueue(r) ==
  LET q    == rreq[r]
      full == Len(fifo') > QueueMax
  IN  /\ rpc[r] = "enqueue" /\ ExecFree
      /\ fifo' = Append(fifo, q)
      /\ Broadcast
      /\ Move(q, "queued")
      /\ Goto(r, CASE q \in ConcReqs /\ full    -> "pendFull"
                   [] q \in ConcReqs /\ ~full   -> "pend"
                   [] q \notin ConcReqs /\ full -> "throttle"
                   [] OTHER                     -> NextRequest)
      /\ UNCHANGED <<objVars, netVars, concPendings, instanceCount, lockVars,
                     rreq, mreq>>

(* concPendings++ comes after the request is in the queue and execCond is  *)
(* released: mutexCond is all that is held.                                *)
IncPendings(r) ==
  /\ rpc[r] \in {"pend", "pendFull"}
  /\ concPendings' = concPendings + 1
  /\ mutexLock' = None
  /\ Goto(r, IF rpc[r] = "pendFull" THEN "throttle" ELSE NextRequest)
  /\ UNCHANGED <<objVars, netVars, fifo, instanceCount, mutexCount,
                 phase, rreq, mainVars>>

(* Mutant: the receive thread slows down once instead of until then.       *)
ThrottleOnce(r) ==
  /\ rpc[r] = "throttle"
  /\ Goto(r, NextRequest)
  /\ UNCHANGED <<objVars, netVars, fifoVars, instanceCount, lockVars,
                 phase, rreq, mainVars>>

(* Too many requests: the receive thread sleeps until the queue is shorter.*)
Throttle(r) ==
  /\ rpc[r] = "throttle" /\ Len(fifo) <= QueueMax
  /\ Goto(r, NextRequest)
  /\ UNCHANGED <<objVars, netVars, fifoVars, instanceCount, lockVars,
                 phase, rreq, mainVars>>

-----------------------------------------------------------------------------
(* The main thread: GetRequest.                                            *)

(* The loop of Run goes on while the broker is running.                    *)
NextServe(st) == IF st = "RUNNING" THEN "get" ELSE "drain"

(* Mutant: leave with one reference left.                                  *)
GetEmptyEarly ==
  /\ mpc = "get" /\ fifo = <<>>
  /\ mpc' = IF (obj /\ refcount <= 1) \/ state # "RUNNING" THEN "drain" ELSE "blocking"
  /\ UNCHANGED <<objVars, netVars, fifoVars, instanceCount, lockVars,
                 phase, recvVars, mreq>>

(* Nothing to serve: leave when nobody refers to the object, else wait.    *)
GetEmpty ==
  /\ mpc = "get" /\ fifo = <<>>
  /\ mpc' = IF (obj /\ refcount <= 0) \/ state # "RUNNING" THEN "drain" ELSE "blocking"
  /\ UNCHANGED <<objVars, netVars, fifoVars, instanceCount, lockVars,
                 phase, recvVars, mreq>>

Block ==
  /\ mpc = "blocking"
  /\ mpc' = "waiting"
  /\ UNCHANGED <<objVars, netVars, fifoVars, instanceCount, lockVars,
                 phase, recvVars, mreq>>

(* Mutant: the scan does not stop at a mutex request.                      *)
OvertakesMutex(i) ==
  /\ fifo[i] \in ConcReqs
  /\ \A j \in 1..(i-1) : fifo[j] \notin ConcReqs

(* The i-th request is concurrent and overtakes only sequential ones.      *)
Overtakes(i) ==
  /\ fifo[i] \in ConcReqs
  /\ \A j \in 1..(i-1) : fifo[j] \in SeqReqs

TakeOut(i) ==
  /\ mreq' = fifo[i]
  /\ fifo' = RemoveAt(fifo, i)
  /\ Move(fifo[i], "taken")

(* Mutant: the hint is not tested before the scan.                         *)
TakeConcUnhinted ==
  /\ mpc = "get"
  /\ \E i \in 1..Len(fifo) : Overtakes(i) /\ TakeOut(i)
  /\ concPendings' = concPendings - 1
  /\ mpc' = "spawn"
  /\ UNCHANGED <<objVars, netVars, instanceCount, lockVars, recvVars>>

TakeConc ==
  /\ mpc = "get" /\ concPendings # 0
  /\ \E i \in 1..Len(fifo) : Overtakes(i) /\ TakeOut(i)
  /\ concPendings' = concPendings - 1
  /\ mpc' = "spawn"
  /\ UNCHANGED <<objVars, netVars, instanceCount, lockVars, recvVars>>

(* concPendings-- of this thread and concPendings++ of a receive thread    *)
(* hold different locks: either update may be lost.                        *)
TakeConcRacing(r) ==
  /\ mpc = "get" /\ concPendings # 0
  /\ rpc[r] \in {"pend", "pendFull"}
  /\ \E i \in 1..Len(fifo) : Overtakes(i) /\ TakeOut(i)
  /\ concPendings' \in {concPendings - 1, concPendings + 1}
  /\ mutexLock' = None
  /\ Goto(r, IF rpc[r] = "pendFull" THEN "throttle" ELSE NextRequest)
  /\ mpc' = "spawn"
  /\ UNCHANGED <<objVars, netVars, instanceCount, mutexCount, rreq>>

(* Otherwise the oldest request; a mutex request then waits in GetRequest  *)
(* until no invoke thread is left.                                         *)
TakeHead ==
  /\ mpc = "get" /\ fifo # <<>>
  /\ concPendings = 0 \/ \A i \in 1..Len(fifo) : ~Overtakes(i)
  /\ TakeOut(1)
  /\ mpc' = CASE fifo[1] \in ConcReqs -> "spawn"
              [] fifo[1] \in MutexReqs /\ instanceCount > 0 -> "exclWaiting"
              [] OTHER -> "exec"
  /\ UNCHANGED <<objVars, netVars, concPendings, instanceCount, lockVars, recvVars>>

Exclusive ==
  /\ mpc = "excl"
  /\ mpc' = IF instanceCount > 0 THEN "exclWaiting" ELSE "exec"
  /\ UNCHANGED <<objVars, netVars, fifoVars, instanceCount, lockVars,
                 phase, recvVars, mreq>>

-----------------------------------------------------------------------------
(* The main thread: ServeRequest.                                          *)

MainSpawn ==
  /\ mpc = "spawn"
  /\ instanceCount' = instanceCount + 1
  /\ mpc' = "create"
  /\ Move(mreq, "spawned")
  /\ UNCHANGED <<objVars, netVars, fifoVars, lockVars, recvVars, mreq>>

MainCreate ==
  /\ mpc = "create"
  /\ mpc' = NextServe(state)
  /\ Move(mreq, "running")
  /\ UNCHANGED <<objVars, netVars, fifoVars, instanceCount, lockVars, recvVars, mreq>>

MainCreateFails ==
  /\ mpc = "create"
  /\ instanceCount' = instanceCount - 1
  /\ mpc' = NextServe(state)
  /\ Move(mreq, "done")
  /\ UNCHANGED <<objVars, netVars, fifoVars, lockVars, recvVars, mreq>>

(* DoInvoke: an exception goes to the client that waits for the answer; if *)
(* there is none UnhandledException aborts the broker (and has the         *)
(* application's other objects killed, which is not part of this module).  *)
DoInvoke(q) == IF q \in Faulty THEN state' \in {state, "ABORT"} ELSE state' = state

(* The constructor leaves obj NULL when it throws.  The count it starts    *)
(* with is that of one connection, whichever are open.                     *)
Construct == \/ obj' = TRUE /\ refcount' = 1 /\ uncounted' = Cardinality(Open)
             \/ UNCHANGED <<obj, refcount, uncounted>>

InvokeReturns ==
  /\ mpc = "exec"
  /\ DoInvoke(mreq)
  /\ IF mreq = Ctor THEN Construct ELSE UNCHANGED <<obj, refcount, uncounted>>
  /\ answer' = IF mreq = Probe THEN Activity ELSE answer
  /\ IF mreq \in MutexReqs
       THEN mpc' = "uncount" /\ UNCHANGED phase
       ELSE mpc' = NextServe(state') /\ Move(mreq, "done")
  /\ UNCHANGED <<peer, handed, fifoVars, instanceCount, lockVars, recvVars, mreq>>

UncountMutex ==
  /\ mpc = "uncount" /\ mutexLock = None
  /\ mutexCount' = mutexCount - 1
  /\ mpc' = IF mreq = Ctor /\ ~obj THEN "drain" ELSE NextServe(state)
  /\ Move(mreq, "done")
  /\ UNCHANGED <<objVars, netVars, fifoVars, instanceCount, mutexLock, recvVars, mreq>>

-----------------------------------------------------------------------------
(* The main thread: the end of Run.                                        *)

(* Stopping: WakeupReceiveThread makes every receive thread leave its wait.*)
StopServing == mpc' = "stop" /\ state' = "EXIT"

(* Wait for all invocations terminated, unless nothing was constructed or  *)
(* the broker aborts.                                                      *)
Drain ==
  /\ \/ mpc = "drainLoop"
     \/ mpc = "drain" /\ obj /\ state = "RUNNING"
  /\ IF instanceCount > 0 \/ fifo # <<>>
       THEN mpc' = "drainWaiting" /\ UNCHANGED state
       ELSE StopServing
  /\ UNCHANGED <<obj, refcount, netVars, fifoVars, instanceCount, lockVars,
                 phase, recvVars, mreq>>

SkipDrain ==
  /\ mpc = "drain" /\ ~(obj /\ state = "RUNNING")
  /\ StopServing
  /\ UNCHANGED <<obj, refcount, netVars, fifoVars, instanceCount, lockVars,
                 phase, recvVars, mreq>>

(* A receive thread that waits for a request, or sleeps because the queue  *)
(* is full, is woken by a call to itself or cancelled.                     *)
StopReceiver(r) ==
  /\ mpc = "stop" /\ rpc[r] \in {"idle", "throttle"}
  /\ Goto(r, "closed")
  /\ UNCHANGED <<objVars, netVars, fifoVars, instanceCount, lockVars,
                 phase, rreq, mainVars>>

(* The process is gone, with whatever it had not done.                     *)
Gone ==
  /\ mpc' = "exited" /\ mreq' = None /\ state' = "EXIT"
  /\ rpc' = [r \in Receivers |-> "closed"]
  /\ rreq' = [r \in Receivers |-> None]
  /\ peer' = [c \in Peers |-> None] /\ handed' = 0
  /\ answer' = "none" /\ uncounted' = 0
  /\ fifo' = <<>> /\ concPendings' = 0
  /\ instanceCount' = 0 /\ mutexCount' = 0 /\ mutexLock' = None
  /\ phase' = [q \in Requests |-> IF phase[q] = "done" THEN "done" ELSE "lost"]
  /\ UNCHANGED <<obj, refcount>>

Exit == mpc = "stop" /\ (\A r \in Receivers : rpc[r] = "closed") /\ Gone

(* A client's Kill of a constructed object, or the alarm of Run when none  *)
(* is constructed in time: exit(1), wherever the other threads are.        *)
Kill == /\ \E r \in Receivers, c \in Conns :
             rpc[r] = "idle" /\ peer[c] = r /\ obj
        /\ Gone

Alarm == ~obj /\ mpc # "exited" /\ phase[Ctor] # "done" /\ Gone

-----------------------------------------------------------------------------
(* The invoke threads.                                                     *)

ThreadReturns(q) ==
  /\ phase[q] = "running"
  /\ DoInvoke(q)
  /\ Move(q, "ended")
  /\ UNCHANGED <<obj, refcount, netVars, fifoVars, instanceCount, lockVars,
                 recvVars, mainVars>>

(* Mutant: the last thread goes without telling the main thread.           *)
ThreadExitsSilent(q) ==
  /\ phase[q] = "ended" /\ ExecFree
  /\ instanceCount' = instanceCount - 1
  /\ Move(q, "done")
  /\ UNCHANGED <<objVars, netVars, fifoVars, lockVars, recvVars, mainVars>>

(* The thread's destructor.                                                *)
ThreadExits(q) ==
  /\ phase[q] = "ended" /\ ExecFree
  /\ instanceCount' = instanceCount - 1
  /\ Broadcast
  /\ Move(q, "done")
  /\ UNCHANGED <<objVars, netVars, fifoVars, lockVars, recvVars, mreq>>

-----------------------------------------------------------------------------
MainStep == \/ GetEmpty \/ Block \/ TakeConc \/ TakeHead \/ Exclusive
            \/ (\E r \in Receivers : TakeConcRacing(r))
            \/ MainSpawn \/ MainCreate \/ MainCreateFails
            \/ InvokeReturns \/ UncountMutex
            \/ Drain \/ SkipDrain \/ Exit

Serving(r) == \/ Notify(r) \/ LockConc(r) \/ CountMutex(r)
              \/ Spawn(r) \/ Create(r) \/ CreateFails(r)
              \/ Enqueue(r) \/ IncPendings(r)

Asleep(r) == Throttle(r) \/ StopReceiver(r)

Clients(r) == \/ \E c \in Peers : OnNewConnection(r, c) \/ OnCloseConnection(r, c)
              \/ AddRef(r) \/ DecRef(r) \/ Query(r)
              \/ MonitorAsks(r) \/ MonitorDecRef(r)
              \/ \E q \in Requests : ReceiveRequest(r, q)

ThreadStep(q) == ThreadReturns(q) \/ ThreadExits(q)

Next == \/ MainStep \/ Kill \/ Alarm
        \/ \E r \in Receivers : Serving(r) \/ Asleep(r) \/ Clients(r)
        \/ \E q \in ConcReqs : ThreadStep(q)

Spec == Init /\ [][Next]_vars

(* The threads run, the methods terminate, and a thread that waits for a   *)
(* lock gets it if the lock is released again and again.  Clients and      *)
(* failures owe nothing.                                                   *)
Fairness == /\ SF_vars(MainStep)
            /\ \A r \in Receivers : SF_vars(Serving(r)) /\ WF_vars(Asleep(r))
            /\ \A q \in ConcReqs : SF_vars(ThreadStep(q))

FairSpec == Spec /\ Fairness

(* Finalize polls the object over and over (CheckObjects), ten seconds     *)
(* apart: when it connects again, the main thread and the receive threads  *)
(* have long done what the end of the last poll gave them to do.           *)
Settled == mpc \notin {"get", "blocking"} /\ \A r \in Receivers : rpc[r] # "notify"

PolledNext == Next /\ (peer[Monitor] = None /\ peer'[Monitor] # None => Settled)

(* A poll asks a few questions and ends.  They wake the main thread up, so *)
(* the end may race with its wait once more, but not in every round.       *)
PollFairness ==
  /\ WF_vars(\E r \in Receivers : OnNewConnection(r, Monitor) /\ Settled)
  /\ SF_vars(\E r \in Receivers : OnCloseConnection(r, Monitor))
  /\ SF_vars(\E r \in Receivers : OnCloseConnection(r, Monitor) /\ Settled)

PolledSpec == Init /\ [][PolledNext]_vars /\ Fairness /\ PollFairness

-----------------------------------------------------------------------------
(* Safety.                                                                 *)

(* The invoke threads that exist: counted by their constructor, uncounted  *)
(* by their destructor.                                                    *)
Threads == {q \in Requests : phase[q] \in {"spawned", "running", "ended"}}

(* The mutex requests that RegisterRequest has counted and ServeRequest    *)
(* not yet uncounted.                                                      *)
Mutexes == {q \in MutexReqs : phase[q] \in {"counted", "queued", "taken"}}

(* The two counters that the threads decide on never drift: a count lost   *)
(* would let a mutex method run beside another, one too many would keep it *)
(* waiting for ever.                                                       *)
CountersExact == /\ instanceCount = Cardinality(Threads)
                 /\ mutexCount = Cardinality(Mutexes)

(* While a mutex method executes no other method executes: neither in the  *)
(* invoke threads nor in a receive thread that is about to create one.     *)
MutexExclusion ==
  mpc = "exec" /\ mreq \in MutexReqs =>
    /\ Threads = {}
    /\ \A r \in Receivers : rpc[r] \notin {"spawn", "create"}

(* The receive threads stop reading when the queue is over its maximum: it *)
(* grows by at most one request of each beyond that.                       *)
QueueBound == Len(fifo) <= QueueMax + Cardinality(Receivers)

(* The count is what the open connections and the references on their way  *)
(* add up to, less exactly what was accepted before obj was set and what   *)
(* the monitor took: no race of AddRef, DecRef and the connections loses   *)
(* or adds a reference, so only those two can end an object in use.        *)
RefsCovered ==
  obj /\ mpc # "exited" =>
    refcount + uncounted = Cardinality(Open) + handed + 1

(* The locations of a main thread that GetRequest has told to stop.        *)
Draining == {"drain", "drainLoop", "drainWaiting"}

(* When GetRequest gives up on a running broker, and no reference was      *)
(* taken from it, no client is connected, no reference is on its way and   *)
(* no request was read and not yet served.  The monitor may be there: its  *)
(* poll goes on while the invoke threads finish.                           *)
LeavesNothingBehind ==
  mpc \in Draining /\ obj /\ state = "RUNNING" /\ uncounted <= 1 =>
    /\ Open \subseteq {Monitor} /\ handed = 0
    /\ \A q \in Requests : phase[q] \notin {"received", "counted", "queued"}

(* Whatever the threads do, clients see the calls scheduled as             *)
(* ParallelObject promises.                                                *)
Object == INSTANCE ParallelObject WITH
  pend    <- IF mpc \in {"excl", "exclWaiting"} THEN <<mreq>> \o fifo ELSE fifo,
  running <- {q \in Requests : \/ phase[q] \in {"spawned", "running"}
                               \/ mpc \in {"spawn", "exec"} /\ mreq = q},
  seen    <- {q \in Requests : phase[q] \notin {"new", "received", "counted"}}

ImplementsObject == Object!Spec

-----------------------------------------------------------------------------
(* Liveness.                                                               *)

(* Every request that is read is served, unless the broker is stopped or   *)
(* gave up on a client whose reference was taken.                          *)
RequestsServed ==
  \A q \in Requests :
    phase[q] = "received" ~> \/ phase[q] = "done" \/ state # "RUNNING"
                             \/ (mpc \in Draining /\ uncounted > 1)

(* "Wait for all invocations terminated" (broker.cc:220): the wait at the  *)
(* end of Run is over some time.                                           *)
DrainEnds == mpc = "drain" ~> mpc = "exited"

(* Nothing but a request queued by a client whose reference was taken can  *)
(* make that wait last for ever.                                           *)
OnlyTheRobbedHoldTheDrain ==
  mpc = "drain" ~> (mpc = "exited" \/ (uncounted > 1 /\ fifo # <<>>))

(* An object that nobody refers to, in fact and by its count, ends.        *)
UnreferencedEnds ==
  (obj /\ refcount <= 0 /\ Open = {} /\ handed = 0 /\ mpc \notin Draining)
    ~> mpc = "exited"

-----------------------------------------------------------------------------
(* The inductive invariant behind CountersExact and MutexExclusion: where  *)
(* each thread is tells where the request it holds is.                     *)

(* A request is in the hands of at most one receive thread, at the stage   *)
(* that the thread's location says.                                        *)
Handling == {"lock", "count", "enqueue", "spawn", "create"}

ReceiverPlaces ==
  \A r \in Receivers :
    /\ rpc[r] \in {"lock", "spawn"} => rreq[r] \in ConcReqs /\ phase[rreq[r]] = "received"
    /\ rpc[r] = "count" => rreq[r] \in MutexReqs /\ phase[rreq[r]] = "received"
    /\ rpc[r] = "enqueue" =>
         \/ rreq[r] \in MutexReqs /\ phase[rreq[r]] = "counted"
         \/ rreq[r] \in ConcReqs \cup SeqReqs /\ phase[rreq[r]] = "received"
    /\ rpc[r] = "create" => rreq[r] \in ConcReqs /\ phase[rreq[r]] = "spawned"
    /\ \A s \in Receivers :
         rpc[r] \in Handling /\ rpc[s] \in Handling /\ rreq[r] = rreq[s] => r = s

MainPlace ==
  /\ mpc = "spawn" => mreq \in ConcReqs /\ phase[mreq] = "taken"
  /\ mpc = "create" =>
       /\ mreq \in ConcReqs /\ phase[mreq] = "spawned"
       /\ \A r \in Receivers : rpc[r] = "create" => rreq[r] # mreq
  /\ mpc \in {"excl", "exclWaiting", "uncount"} => mreq \in MutexReqs /\ phase[mreq] = "taken"
  /\ mpc = "exec" => mreq \in MutexReqs \cup SeqReqs /\ phase[mreq] = "taken"

QueuePlaces ==
  \A i \in 1..Len(fifo) :
    /\ phase[fifo[i]] = "queued"
    /\ \A j \in 1..Len(fifo) : fifo[i] = fifo[j] => i = j

(* A receive thread that serves or queues a concurrent request holds       *)
(* mutexCond, and what it saw of mutexCount is still true.                 *)
LockHeld ==
  \A r \in Receivers :
    /\ \/ rpc[r] \in {"spawn", "create", "pend", "pendFull"}
       \/ rpc[r] = "enqueue" /\ rreq[r] \in ConcReqs
       => mutexLock = r
    /\ rpc[r] \in {"spawn", "create"} => mutexCount = 0

Alone == mpc = "exec" /\ mreq \in MutexReqs => Threads = {}

(* What every step of the broker preserves.                                *)
IInv == /\ TypeOK /\ CountersExact
        /\ ReceiverPlaces /\ MainPlace /\ QueuePlaces /\ LockHeld /\ Alone
=============================================================================
