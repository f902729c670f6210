----------------------------- MODULE Collection -----------------------------
(***************************************************************************)
(* When the parallel objects of an application end.  An object counts its  *)
(* references: the connections to it and the references packed into        *)
(* messages (lib/interface.cc).  Without any it ends (Broker has the       *)
(* details).  Objects that refer to each other in a cycle do not end by    *)
(* themselves: when the main program is over, the application's object     *)
(* monitor (lib/objectmonitor.cc) asks the objects round after round       *)
(* whether they are active, and when they were not in two rounds takes     *)
(* references away from them, until all have ended and the services stop   *)
(* (lib/system.cc, Finalize).                                              *)
(*                                                                         *)
(* Here an object executes one method at a time.  Each call is             *)
(* asynchronous and may carry one reference, which the method keeps.       *)
(***************************************************************************)
EXTENDS Integers, FiniteSets, Sequences, SequencesExt, FiniteSetsExt

CONSTANTS
  Objects, Main, None,
  MaxCalls,       \* bound: how many calls are made
  LowestCount     \* bound: the monitor does not count an object below this

ASSUME CollectionAssumption ==
  /\ Main \notin Objects /\ None \notin Objects \cup {Main}
  /\ IsFiniteSet(Objects) /\ MaxCalls \in Nat /\ LowestCount \in Int /\ LowestCount < 0

Holders == Objects \cup {Main}

VARIABLES
  state,      \* "unborn", "live", "draining", "aborting" or "ended"
  refcount,   \* as the object counts
  holds,      \* holds[h]: the objects h is connected to
  queue,      \* request_fifo of each object
  run,        \* the method that an object executes: None, "seq" or "conc"
  calls,      \* how many calls were made
  finalizing, \* the main program is over
  managed,    \* the monitor's list of objects
  isActive, active, \* some object was active in the last round, in this round
  mon,        \* where the monitor is: "off", "sleep", "ask", "decide", "stopped"
  todo,       \* the objects it has not visited in this round
  taken, lost \* history: references taken by the monitor, lost with a message

objectVars  == <<state, refcount, holds, queue, run, calls, lost>>
monitorVars == <<finalizing, isActive, active, mon, todo, taken>>
vars == <<objectVars, monitorVars, managed>>

Init ==
  /\ state = [o \in Objects |-> "unborn"] /\ refcount = [o \in Objects |-> 0]
  /\ holds = [h \in Holders |-> {}]
  /\ queue = [o \in Objects |-> <<>>] /\ run = [o \in Objects |-> None]
  /\ calls = 0 /\ finalizing = FALSE
  /\ managed = <<>> /\ isActive = TRUE /\ active = FALSE
  /\ mon = "off" /\ todo = <<>>
  /\ taken = [o \in Objects |-> 0] /\ lost = [o \in Objects |-> 0]

Serving(o) == state[o] \in {"live", "draining"}
MutexFree  == mon \notin {"ask", "decide", "stopped"}

(* The entry of o leaves a list, which has one of every object at most.    *)
Without(s, o) == IF Contains(s, o) THEN RemoveAt(s, CHOOSE i \in 1..Len(s) : s[i] = o) ELSE s

(* Who can act: the main program until it ends, and a method.              *)
Runs(h) == IF h = Main THEN ~finalizing ELSE Serving(h) /\ run[h] # None

-----------------------------------------------------------------------------
(* A parallel object is created: its process is started, its constructor   *)
(* registers it with the monitor, and the 1 that it begins with stands for *)
(* its creator's connection.                                               *)
Create(h, o) ==
  /\ Runs(h) /\ state[o] = "unborn" /\ MutexFree
  /\ state' = [state EXCEPT ![o] = "live"]
  /\ refcount' = [refcount EXCEPT ![o] = 1]
  /\ holds' = [holds EXCEPT ![h] = @ \cup {o}]
  /\ managed' = Append(managed, o)
  /\ UNCHANGED <<queue, run, calls, lost, monitorVars>>

(* A call.  Packing a reference to x counts it; if p has ended, the call   *)
(* throws and that count is lost.                                          *)
PackUncounted(x) == refcount     \* mutant
Pack(x) == IF x = None \/ ~Serving(x) THEN refcount ELSE [refcount EXCEPT ![x] = @ + 1]

Send(h, p, x, kind) ==
  /\ Runs(h) /\ p \in holds[h] /\ x \in holds[h] \cup {None} /\ (x # None => Serving(x))
  /\ calls < MaxCalls /\ calls' = calls + 1
  /\ refcount' = Pack(x)
  /\ IF Serving(p)
       THEN /\ queue' = [queue EXCEPT ![p] = Append(@, [kind |-> kind, ref |-> x])]
            /\ UNCHANGED lost
       ELSE /\ lost' = IF x = None THEN lost ELSE [lost EXCEPT ![x] = @ + 1]
            /\ UNCHANGED queue
  /\ UNCHANGED <<state, holds, run, managed, monitorVars>>

(* The method starts.  Unpacking a reference connects to x and then takes  *)
(* back what packing counted; if x has ended, this throws.  The reference  *)
(* replaces the one that the object has.                                   *)
UnpackKeeping(p, x) == refcount     \* mutant: the old connection stays open

Unpack(p, x) ==
  [refcount EXCEPT ![x] = IF x \in holds[p] THEN @ - 1 ELSE @]

Start(p) ==
  LET r == Head(queue[p]) IN
  /\ Serving(p) /\ run[p] = None /\ queue[p] # <<>>
  /\ state[p] = "draining" => r.kind = "conc"
  /\ queue' = [queue EXCEPT ![p] = Tail(@)]
  /\ IF r.ref # None /\ ~Serving(r.ref)
       THEN UNCHANGED <<refcount, holds, run>>
       ELSE /\ run' = [run EXCEPT ![p] = r.kind]
            /\ IF r.ref = None THEN UNCHANGED <<refcount, holds>>
               ELSE /\ refcount' = Unpack(p, r.ref)
                    /\ holds' = [holds EXCEPT ![p] = @ \cup {r.ref}]
  /\ UNCHANGED <<state, calls, lost, managed, monitorVars>>

Finish(p) ==
  /\ Serving(p) /\ run[p] # None
  /\ run' = [run EXCEPT ![p] = None]
  /\ UNCHANGED <<state, refcount, holds, queue, calls, lost, managed, monitorVars>>

(* An interface is destroyed: its connection closes.                       *)
Released(S, count) == [x \in Objects |-> IF x \in S /\ Serving(x) THEN count[x] - 1 ELSE count[x]]

Release(h, x) ==
  /\ Runs(h) /\ x \in holds[h]
  /\ holds' = [holds EXCEPT ![h] = @ \ {x}]
  /\ refcount' = Released({x}, refcount)
  /\ UNCHANGED <<state, queue, run, calls, lost, managed, monitorVars>>

(* With no reference and no request the main thread stops serving.  It     *)
(* then waits for the concurrent methods, and for the queue to be empty.   *)
CanDrain(o) == state[o] = "live" /\ refcount[o] <= 0 /\ queue[o] = <<>> /\ run[o] # "seq"
CanEnd(o)   == state[o] = "draining" /\ queue[o] = <<>> /\ run[o] = None

Drain(o) ==
  /\ CanDrain(o)
  /\ state' = [state EXCEPT ![o] = "draining"]
  /\ UNCHANGED <<refcount, holds, queue, run, calls, lost, managed, monitorVars>>

(* Mutant: the object ends without closing its connections.                *)
EndHolding(o) ==
  /\ CanEnd(o)
  /\ state' = [state EXCEPT ![o] = "ended"]
  /\ refcount' = [refcount EXCEPT ![o] = 0]
  /\ UNCHANGED <<holds, queue, run, calls, lost, managed, monitorVars>>

End(o) ==
  /\ CanEnd(o)
  /\ state' = [state EXCEPT ![o] = "ended"]
  /\ holds' = [holds EXCEPT ![o] = {}]
  /\ refcount' = [Released(holds[o], refcount) EXCEPT ![o] = 0]
  /\ UNCHANGED <<queue, run, calls, lost, managed, monitorVars>>

(* The destructor tells the monitor.                                       *)
UnManage(o) ==
  /\ state[o] = "ended" /\ Contains(managed, o) /\ MutexFree
  /\ managed' = Without(managed, o)
  /\ UNCHANGED <<objectVars, monitorVars>>

-----------------------------------------------------------------------------
(* A method that throws in an asynchronous call ends the application       *)
(* (UnhandledException): its object leaves the list, every object in the   *)
(* list is killed, and it ends itself.                                     *)
Throws(p) ==
  /\ Serving(p) /\ run[p] # None /\ MutexFree
  /\ state' = [state EXCEPT ![p] = "aborting"]
  /\ managed' = Without(managed, p)
  /\ UNCHANGED <<refcount, holds, queue, run, calls, lost, monitorVars>>

Exit(S) ==
  /\ state' = [o \in Objects |-> IF o \in S THEN "ended" ELSE state[o]]
  /\ run'   = [o \in Objects |-> IF o \in S THEN None ELSE run[o]]
  /\ queue' = [o \in Objects |-> IF o \in S THEN <<>> ELSE queue[o]]
  /\ holds' = [h \in Holders |-> IF h \in S THEN {} ELSE holds[h]]
  /\ refcount' = [o \in Objects |-> IF o \in S THEN 0 ELSE refcount[o]]

(* KillAll, also when the services have stopped and the call fails.        *)
Abort(p) ==
  /\ state[p] = "aborting" /\ (MutexFree \/ mon = "stopped")
  /\ IF mon = "stopped"
       THEN Exit({p}) /\ UNCHANGED managed
       ELSE Exit({p} \cup ToSet(managed)) /\ managed' = <<>>
  /\ UNCHANGED <<calls, lost, monitorVars>>

-----------------------------------------------------------------------------
(* The main program ends and waits for the objects (Finalize), or ends     *)
(* with an error and has them killed.                                      *)
MainEnds ==
  /\ ~finalizing /\ finalizing' = TRUE
  /\ mon' = "sleep"
  /\ UNCHANGED <<objectVars, managed, isActive, active, todo, taken>>

MainFails ==
  /\ ~finalizing /\ finalizing' = TRUE
  /\ Exit(ToSet(managed)) /\ managed' = <<>>
  /\ mon' = "stopped"
  /\ UNCHANGED <<calls, lost, isActive, active, todo, taken>>

(* CheckObjects, with its mutex held.  Rounds are ten seconds apart and    *)
(* more, enough for an object that can end to do so.                       *)
StartRound ==
  /\ mon = "sleep" /\ ~ \E o \in Objects : CanDrain(o) \/ CanEnd(o)
  /\ mon' = "ask" /\ todo' = managed /\ active' = FALSE
  /\ UNCHANGED <<objectVars, managed, finalizing, isActive, taken>>

(* The monitor connects to the next object and asks it, unless one was     *)
(* active already.  An object is active while a concurrent method runs or  *)
(* a request waits, not while its main thread executes one.  An object     *)
(* that cannot be reached leaves the list.                                 *)
ObjectActive(o) == run[o] = "conc" \/ queue[o] # <<>>

Ask ==
  LET o == Head(todo) IN
  /\ mon = "ask" /\ todo # <<>>
  /\ IF Serving(o)
       THEN /\ refcount' = [refcount EXCEPT ![o] = @ + 1]
            /\ active' = (active \/ ObjectActive(o))
            /\ mon' = "decide"
            /\ UNCHANGED <<managed, todo>>
       ELSE /\ managed' = Without(managed, o) /\ todo' = Tail(todo)
            /\ UNCHANGED <<refcount, active, mon>>
  /\ UNCHANGED <<state, holds, queue, run, calls, lost, finalizing, isActive, taken>>

(* It takes a reference away if none was active so far, nor in the round   *)
(* before, and closes its connection.                                      *)
Decide ==
  LET o == Head(todo)
      takes == ~active /\ ~isActive /\ refcount[o] - 2 >= LowestCount IN
  /\ mon = "decide"
  /\ IF Serving(o)
       THEN /\ refcount' = [refcount EXCEPT ![o] = @ - (IF takes THEN 2 ELSE 1)]
            /\ taken' = [taken EXCEPT ![o] = @ + (IF takes THEN 1 ELSE 0)]
            /\ UNCHANGED managed
       ELSE /\ managed' = IF takes THEN Without(managed, o) ELSE managed
            /\ UNCHANGED <<refcount, taken>>
  /\ mon' = "ask" /\ todo' = Tail(todo)
  /\ UNCHANGED <<state, holds, queue, run, calls, lost, finalizing, isActive, active>>

(* Mutants: the services stop after an idle round; a round without an      *)
(* active object is forgotten.                                             *)
EndRoundIdle ==
  /\ mon = "ask" /\ todo = <<>>
  /\ isActive' = active
  /\ mon' = IF managed = <<>> \/ ~(active \/ isActive) THEN "stopped" ELSE "sleep"
  /\ UNCHANGED <<objectVars, managed, finalizing, active, todo, taken>>

EndRoundForgetting ==
  /\ mon = "ask" /\ todo = <<>>
  /\ isActive' = (isActive \/ active)
  /\ mon' = IF managed = <<>> THEN "stopped" ELSE "sleep"
  /\ UNCHANGED <<objectVars, managed, finalizing, active, todo, taken>>

EndRound ==
  /\ mon = "ask" /\ todo = <<>>
  /\ isActive' = active
  /\ mon' = IF managed = <<>> THEN "stopped" ELSE "sleep"
  /\ UNCHANGED <<objectVars, managed, finalizing, active, todo, taken>>

ObjectStep(o) == Start(o) \/ Finish(o) \/ Drain(o) \/ End(o) \/ UnManage(o) \/ Abort(o)
MonitorStep == StartRound \/ Ask \/ Decide \/ EndRound

Next ==
  \/ \E h \in Holders, o \in Objects :
       \/ Create(h, o) \/ Release(h, o)
       \/ \E x \in Objects \cup {None}, kind \in {"seq", "conc"} : Send(h, o, x, kind)
  \/ \E o \in Objects : ObjectStep(o) \/ Throws(o)
  \/ MainEnds \/ MainFails \/ MonitorStep

Spec == Init /\ [][Next]_vars

(* Objects serve, methods end, and the monitor goes on.  Nobody has to     *)
(* call or release anything, and the main program need not end.            *)
FairSpec ==
  Spec /\ WF_vars(MonitorStep) /\ \A o \in Objects : WF_vars(ObjectStep(o))

-----------------------------------------------------------------------------
(* The variables have their types.                                         *)
CollectionTypeOK ==
  /\ state \in [Objects -> {"unborn", "live", "draining", "aborting", "ended"}]
  /\ refcount \in [Objects -> Int]
  /\ holds \in [Holders -> SUBSET Objects]
  /\ run \in [Objects -> {None, "seq", "conc"}]
  /\ \A o \in Objects : \A i \in DOMAIN queue[o] :
       queue[o][i] \in [kind : {"seq", "conc"}, ref : Objects \cup {None}]
  /\ \A o \in Objects : state[o] \in {"unborn", "ended"} =>
       run[o] = None /\ queue[o] = <<>> /\ holds[o] = {} /\ refcount[o] = 0
  /\ calls \in 0..MaxCalls /\ {finalizing, isActive, active} \subseteq BOOLEAN
  /\ IsInjective(managed) /\ ToSet(managed) \subseteq Objects
  /\ mon \in {"off", "sleep", "ask", "decide", "stopped"}
  /\ taken \in [Objects -> Nat] /\ lost \in [Objects -> Nat]

Connections(o) == {h \in Holders : o \in holds[h]}
Carried(o)     == {m \in UNION {{p} \X DOMAIN queue[p] : p \in Objects} : queue[m[1]][m[2]].ref = o}

(* However references are packed, sent, unpacked, replaced and lost, an    *)
(* object counts each of them once, less what the monitor took             *)
(* (interface.cc:297-311, broker_receive.cc:158-166).                      *)
RefsAccounted ==
  \A o \in Objects : Serving(o) =>
    refcount[o] = Cardinality(Connections(o)) + Cardinality(Carried(o)) + lost[o]
                    - taken[o] + (IF mon = "decide" /\ Head(todo) = o THEN 1 ELSE 0)

(* An object to which there is a connection, or a reference on its way,    *)
(* serves, unless the monitor takes references away or the application is  *)
(* ended by an error.                                                      *)
ReferencedServes ==
  \A o \in Objects :
    taken[o] = 0 /\ Connections(o) \cup Carried(o) # {} => state[o] # "draining"

(* The services stop after the objects (system.cc:416).                    *)
ServicesLast ==
  mon = "stopped" => \A o \in Objects : ~Serving(o)

(* When the main program is over, the application ends: also objects that  *)
(* refer to each other are collected, and lost references do no harm.  The *)
(* exception is an object that waits for its queue while it drains         *)
(* (broker.cc:221).                                                        *)
Stuck == \E o \in Objects : state[o] = "draining" /\ queue[o] # <<>>
FinalizeEnds == finalizing ~> mon = "stopped" \/ Stuck
=============================================================================
