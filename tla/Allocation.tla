------------------------------ MODULE Allocation ------------------------------
(***************************************************************************)
(* Calls of CreateObject, applications that end and search nodes that      *)
(* stop, on the job managers of several nodes.                             *)
(***************************************************************************)
EXTENDS CreateObject

CONSTANTS
  MayEnd,      \* the applications that end while calls are under way
  MayStop      \* the nodes whose search node may stop

ASSUME AllocationAssumption == MayEnd \subseteq Apps /\ MayStop \subseteq Nodes

(* The services of an application end (~AppCoreService): the end request   *)
(* floods the search nodes, and reaches a node any number of times.        *)
AppEnds(a) ==
  /\ a \in MayEnd /\ appUp[a]
  /\ appUp' = [appUp EXCEPT ![a] = FALSE]
  /\ UNCHANGED <<nodeVars, callVars, processes, cancels>>

EndReaches(n, a) ==
  /\ ~appUp[a]
  /\ ApplicationEnd(n, a)
  /\ UNCHANGED <<callVars, processes, cancels, appUp>>

EndStep(n, a) ==
  /\ ReadAvailable(n, a) \/ SendAvailable(n, a)
  /\ UNCHANGED <<callVars, processes, cancels, appUp>>

StopSearch(n) ==
  /\ n \in MayStop
  /\ SearchNodeStops(n)
  /\ UNCHANGED <<callVars, processes, cancels, appUp>>

CallStep(c) ==
  \/ Attempt(c) \/ MatchLocal(c) \/ StartDiscovery(c) \/ EndDiscovery(c)
  \/ ReserveRemote(c) \/ Check(c) \/ Exec(c) \/ QueryCode(c) \/ Launch(c)
  \/ Receive(c) \/ ExecThrows(c) \/ KillObjects(c)

Next ==
  \/ \E c \in Calls : CallStep(c) \/ \E n \in Nodes : Respond(c, n)
  \/ \E m \in cancels : CancelReservation(m)
  \/ \E a \in Apps : AppEnds(a) \/ \E n \in Nodes : EndReaches(n, a) \/ EndStep(n, a)
  \/ \E n \in Nodes : StopSearch(n)

Spec == CreateInit /\ [][Next]_createVars

(* The thread of a call runs on: what it waits for answers, fails, or is   *)
(* given up after a time, discovery and the objects' reports included.     *)
FairSpec == Spec /\ \A c \in Calls : WF_createVars(CallStep(c))

-----------------------------------------------------------------------------
(* An object that a call has counted has its reservation, held, at the     *)
(* manager of its node for as long as its application lives: no late or    *)
(* repeated cancellation takes the power of a running object away.         *)
RunningHolds ==
  \A c \in Calls : \A p \in made[c] \cap processes :
    managerUp[p.node] /\ appUp[AppOf[c]] =>
      \A id \in p.ids : \E t \in ToSet(jobs[p.node]) :
        t.Id = id /\ t.held /\ t.by = c

(* All or nothing: a call that has failed leaves no process, but where the *)
(* manager that launched it is gone; and one that has succeeded has as     *)
(* many objects as were asked for, all alive.                              *)
Objects(c) == UNION {{p.node} \X p.ids : p \in made[c]}

AllOrNothing ==
  \A c \in Calls :
    /\ pc[c] = "failed" => \A p \in processes : p.call = c => ~managerUp[p.node]
    /\ pc[c] = "done" =>
         /\ made[c] \subseteq processes
         /\ Cardinality(Objects(c)) = HowMany[c]

(* A call of CreateObject is answered, whatever is refused or fails, unless *)
(* its own manager stops: refused places are not asked for again forever,  *)
(* nor are objects launched again forever.                                 *)
Answered ==
  \A c \in Calls : <>(pc[c] \in {"done", "failed"} \/ ~managerUp[Home[c]])

-----------------------------------------------------------------------------
(* What a message of the code says, and the code does not do.              *)

(* "Exec failed because reservation is null": a job manager answers an     *)
(* ExecObj for a reservation it does not have, and goes on.                *)
NullIsRefused == \A n \in Nodes : managerUp[n]
=============================================================================
