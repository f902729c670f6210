----------------------------- MODULE CreateObject -----------------------------
(***************************************************************************)
(* JobMgr::CreateObject (lib/jobmgr.cc): the job manager Home[c] creates   *)
(* HowMany[c] parallel objects for an application.  It reserves a place    *)
(* for each (AllocResource: on its own node, then by discovery on the      *)
(* nodes that answer), checks that every place was granted some power, and *)
(* has each manager concerned launch the objects (ExecObj).  What could    *)
(* not be launched is tried again, at most Retries times in all; then the  *)
(* objects there are, are killed.                                          *)
(*                                                                         *)
(* The managers are threads of several processes that call one another, so *)
(* the steps of different calls interleave wherever no mutex is held.      *)
(***************************************************************************)
EXTENDS JobLedger

CONSTANTS
  None,
  Home, AppOf, \* the node and the application of a call
  HowMany,
  Search,      \* od.search was set: no reservation on the own node
  Require, Minimum,  \* od.power, of the objects of a call
  Retries

ASSUME CreateAssumption ==
  /\ None \notin Nodes
  /\ Home \in [Calls -> Nodes] /\ AppOf \in [Calls -> Apps]
  /\ HowMany \in [Calls -> Nat \ {0}] /\ Search \in [Calls -> BOOLEAN]
  /\ Require \in [Calls -> Nat \ {0}] /\ Minimum \in [Calls -> Nat]
  /\ Retries \in Nat \ {0}

VARIABLES
  pc,
  count,       \* how many of the objects are there
  retry,
  slots,       \* jobcontacts, reserveIDs and fitness
  cursor,      \* the index of the loop the call is in
  responses,   \* the nodes that answered the discovery
  turn,        \* the iterator over them
  failed,      \* failedReservation
  batch,       \* the slots of the ExecObj under way
  got,         \* those whose objects have reported
  made,        \* the processes whose objects are in objcontacts
  processes,   \* the processes of the objects that live
  cancels,     \* CancelReservation calls (asynchronous) under way
  appUp        \* do the services of an application live?

callVars   == <<pc, count, retry, slots, cursor, responses, turn, failed, batch, got, made>>
createVars == <<nodeVars, callVars, processes, cancels, appUp>>

Locs == {"attempt", "local", "search", "discover", "reserve", "check", "exec",
         "code", "launch", "receive", "kill", "done", "failed"}

NoSlot == [contact |-> None, id |-> 0, flops |-> 0]
Slot   == [contact: Nodes \cup {None}, id: 0..MaxId, flops: Nat]
Process == [call: Calls, node: Nodes, ids: SUBSET (1..MaxId)]

Rest(c) == count[c] + 1 .. HowMany[c]

CreateTypeOK ==
  /\ LedgerTypeOK
  /\ pc \in [Calls -> Locs]
  /\ count \in [Calls -> Nat] /\ retry \in [Calls -> 0..Retries]
  /\ \A c \in Calls : slots[c] \in [1..HowMany[c] -> Slot]
  /\ cursor \in [Calls -> Nat]
  /\ responses \in [Calls -> Seq(Nodes)]
  /\ turn \in [Calls -> Nat] /\ failed \in [Calls -> Nat]
  /\ \A c \in Calls : batch[c] \subseteq 1..HowMany[c]
  /\ \A c \in Calls : got[c] \subseteq batch[c]
  /\ made \in [Calls -> SUBSET Process] /\ processes \subseteq Process
  /\ cancels \subseteq [node: Nodes, ids: SUBSET (1..MaxId)]
  /\ appUp \in [Apps -> BOOLEAN]

CreateInit ==
  /\ LedgerInit
  /\ pc = [c \in Calls |-> "attempt"]
  /\ count = [c \in Calls |-> 0] /\ retry = [c \in Calls |-> Retries]
  /\ slots = [c \in Calls |-> [i \in 1..HowMany[c] |-> NoSlot]]
  /\ cursor = [c \in Calls |-> 0]
  /\ responses = [c \in Calls |-> <<>>]
  /\ turn = [c \in Calls |-> 0] /\ failed = [c \in Calls |-> 0]
  /\ batch = [c \in Calls |-> {}] /\ got = [c \in Calls |-> {}]
  /\ made = [c \in Calls |-> {}] /\ processes = {} /\ cancels = {}
  /\ appUp = [a \in Apps |-> TRUE]

(* A call runs in its home's job manager.                                  *)
At(c, l)   == pc[c] = l /\ managerUp[Home[c]]
Goto(c, l) == pc' = [pc EXCEPT ![c] = l]

(* Only the program counter of the call moves.                             *)
Jump(c, l) ==
  /\ Goto(c, l)
  /\ UNCHANGED <<nodeVars, count, retry, slots, cursor, responses, turn, failed,
                 batch, got, made, processes, cancels, appUp>>

(* CreateObject returns, and its local variables are gone.                 *)
Return(c, l) ==
  /\ Goto(c, l)
  /\ slots' = [slots EXCEPT ![c] = [i \in 1..HowMany[c] |-> NoSlot]]
  /\ cursor' = [cursor EXCEPT ![c] = 0]
  /\ responses' = [responses EXCEPT ![c] = <<>>]
  /\ turn' = [turn EXCEPT ![c] = 0] /\ failed' = [failed EXCEPT ![c] = 0]
  /\ batch' = [batch EXCEPT ![c] = {}] /\ got' = [got EXCEPT ![c] = {}]
  /\ UNCHANGED <<nodeVars, count, retry, made, cancels, appUp>>

-----------------------------------------------------------------------------
(* The loop "while (count<howmany && retry>0)" forgets all the places of   *)
(* the attempt before.                                                     *)
Attempt(c) ==
  /\ At(c, "attempt")
  /\ \/ /\ count[c] < HowMany[c] /\ retry[c] > 0
        /\ Goto(c, IF Search[c] THEN "search" ELSE "local")
        /\ slots' = [slots EXCEPT ![c] = [i \in 1..HowMany[c] |-> NoSlot]]
        /\ cursor' = [cursor EXCEPT ![c] = HowMany[c]]
        /\ responses' = [responses EXCEPT ![c] = <<>>]
        /\ batch' = [batch EXCEPT ![c] = {}] /\ got' = [got EXCEPT ![c] = {}]
        /\ UNCHANGED <<nodeVars, count, retry, turn, failed,
                       made, processes, cancels, appUp>>
     \/ count[c] >= HowMany[c] /\ Return(c, "done") /\ UNCHANGED processes
     \/ count[c] < HowMany[c] /\ retry[c] = 0 /\ Jump(c, "kill")

(* AllocResource on the own node: unless it is paused or has no code for   *)
(* its platform, the places are reserved from the last to the first until  *)
(* one is refused.  Discovery follows unless all have what they asked for. *)
MatchLocal(c) ==
  /\ At(c, "local")
  /\ \/ cursor[c] = HowMany[c] /\ Jump(c, "search")
     \/ cursor[c] = HowMany[c] /\ ~appUp[AppOf[c]] /\ Jump(c, "kill")
     \/ /\ cursor[c] = count[c]
        /\ Jump(c, IF \A i \in Rest(c) : slots[c][i].flops = Require[c]
                   THEN "check" ELSE "search")
     \/ /\ cursor[c] > count[c]
        /\ cursor[c] = HowMany[c] => appUp[AppOf[c]]
        /\ \E id \in 0..MaxId :
             /\ MatchAndReserve(Home[c], c, Require[c], Minimum[c], id)
             /\ IF id = 0
                THEN Goto(c, "search") /\ UNCHANGED <<slots, cursor>>
                ELSE /\ slots' = [slots EXCEPT ![c][cursor[c]] =
                          [contact |-> Home[c], id |-> id, flops |-> Grant(Home[c], Require[c])]]
                     /\ cursor' = [cursor EXCEPT ![c] = @ - 1]
                     /\ UNCHANGED pc
        /\ UNCHANGED <<managerUp, searchUp, ending, count, retry, responses, turn, failed,
                       batch, got, made, processes, cancels, appUp>>

(* The request is named by the search node, and by the application.        *)
StartDiscovery(c) ==
  /\ At(c, "search")
  /\ \/ /\ searchUp[Home[c]] /\ appUp[AppOf[c]]
        /\ Goto(c, "discover")
        /\ responses' = [responses EXCEPT ![c] = <<>>]
        /\ UNCHANGED <<nodeVars, count, retry, slots, cursor, turn, failed, batch, got,
                       made, processes, cancels, appUp>>
     \/ ~(searchUp[Home[c]] /\ appUp[AppOf[c]]) /\ Jump(c, "kill")

(* The search node of n checks its copy, and its answer comes in time.     *)
Respond(c, n) ==
  /\ At(c, "discover") /\ searchUp[n] /\ searchUp[Home[c]]
  /\ n \notin ToSet(responses[c])
  /\ CheckResource(n, Require[c], Minimum[c])
  /\ responses' = [responses EXCEPT ![c] = Append(@, n)]
  /\ UNCHANGED <<nodeVars, pc, count, retry, slots, cursor, turn, failed, batch, got,
                 made, processes, cancels, appUp>>

(* Mutant: the wait for an answer has no limit.                            *)
EndDiscoveryAnswered(c) ==
  /\ At(c, "discover") /\ responses[c] # <<>> /\ searchUp[Home[c]]
  /\ Goto(c, "reserve")
  /\ cursor' = [cursor EXCEPT ![c] = count[c] + 1]
  /\ turn' = [turn EXCEPT ![c] = 1] /\ failed' = [failed EXCEPT ![c] = 0]
  /\ UNCHANGED <<nodeVars, count, retry, slots, responses, batch, got,
                 made, processes, cancels, appUp>>

(* The time is up, or the one answer that was waited for has come.         *)
EndDiscovery(c) ==
  /\ At(c, "discover")
  /\ \/ responses[c] # <<>> /\ searchUp[Home[c]]
        /\ Goto(c, "reserve")
        /\ cursor' = [cursor EXCEPT ![c] = count[c] + 1]
        /\ turn' = [turn EXCEPT ![c] = 1] /\ failed' = [failed EXCEPT ![c] = 0]
        /\ UNCHANGED <<nodeVars, count, retry, slots, responses, batch, got,
                       made, processes, cancels, appUp>>
     \/ (responses[c] = <<>> \/ ~searchUp[Home[c]]) /\ Jump(c, "kill")

(* The places are asked for in turn from the nodes that answered; refusals *)
(* are counted over all the places, and as many as there are nodes end the *)
(* call, with what was reserved left as it is.                             *)
ReserveRemote(c) ==
  LET n == responses[c][turn[c]] IN
  /\ At(c, "reserve")
  /\ \/ ~(managerUp[n] /\ searchUp[n]) /\ Jump(c, "kill")
     \/ /\ managerUp[n]
        /\ \E id \in 0..MaxId :
             /\ Reserve(n, c, AppOf[c], Require[c], id)
             /\ IF id = 0
                THEN /\ failed' = [failed EXCEPT ![c] = @ + 1]
                     /\ IF failed[c] + 1 = Len(responses[c])
                        THEN Goto(c, "kill") ELSE UNCHANGED pc
                     /\ UNCHANGED <<slots, cursor>>
                ELSE /\ slots' = [slots EXCEPT ![c][cursor[c]] =
                          [contact |-> n, id |-> id, flops |-> Grant(n, Require[c])]]
                     /\ cursor' = [cursor EXCEPT ![c] = @ + 1]
                     /\ IF cursor[c] = HowMany[c] THEN Goto(c, "check") ELSE UNCHANGED pc
                     /\ UNCHANGED failed
        /\ turn' = [turn EXCEPT ![c] = (@ % Len(responses[c])) + 1]
        /\ UNCHANGED <<managerUp, searchUp, ending, count, retry, responses,
                       batch, got, made, processes, cancels, appUp>>

(* A place without any power: the others are cancelled and the call fails. *)
Check(c) ==
  /\ At(c, "check")
  /\ \/ /\ \A i \in Rest(c) : slots[c][i].flops > 0
        /\ Goto(c, "exec")
        /\ cursor' = [cursor EXCEPT ![c] = count[c] + 1]
        /\ UNCHANGED <<cancels>>
     \/ /\ \E i \in Rest(c) : slots[c][i].flops = 0
        /\ Goto(c, "kill")
        /\ cancels' = cancels \cup {[node |-> slots[c][i].contact, ids |-> {slots[c][i].id}] :
                                     i \in {j \in Rest(c) : slots[c][j].flops > 0}}
        /\ UNCHANGED cursor
  /\ UNCHANGED <<nodeVars, count, retry, slots, responses, turn, failed, batch, got,
                 made, processes, appUp>>

-----------------------------------------------------------------------------
Places(c)  == {i \in cursor[c]..HowMany[c] : slots[c][i].contact # None}
First(c)   == Min(Places(c))
Contact(c) == slots[c][First(c)].contact
Ids(c)     == {slots[c][i].id : i \in batch[c]}
Host(c)    == slots[c][cursor[c]].contact

(* The next manager launches all the objects with a place on its node.  It *)
(* verifies each Id, and reads the reservation of the Id before it asks if *)
(* there is one: a null pointer ends its process.                          *)
Exec(c) ==
  /\ At(c, "exec")
  /\ \/ /\ Places(c) = {}
        /\ Goto(c, "attempt")
        /\ retry' = [retry EXCEPT ![c] = @ - 1]
        /\ UNCHANGED <<slots, cursor, batch, got, managerUp>>
     \/ /\ Places(c) # {}
        /\ batch' = [batch EXCEPT ![c] = {i \in Places(c) : slots[c][i].contact = Contact(c)}]
        /\ slots' = [slots EXCEPT ![c] = [i \in 1..HowMany[c] |->
                       IF i \in batch'[c] /\ i # First(c) THEN [@[i] EXCEPT !.contact = None]
                                                          ELSE @[i]]]
        /\ got' = [got EXCEPT ![c] = {}]
        /\ IF managerUp[Contact(c)]
           THEN IF \A i \in batch'[c] : VerifyReservation(Contact(c), slots[c][i].id)
                THEN /\ Goto(c, "code")
                     /\ cursor' = [cursor EXCEPT ![c] = First(c)]
                     /\ UNCHANGED managerUp
                ELSE /\ managerUp' = [managerUp EXCEPT ![Contact(c)] = FALSE]
                     /\ cursor' = [cursor EXCEPT ![c] = First(c) + 1]
                     /\ UNCHANGED pc
           ELSE cursor' = [cursor EXCEPT ![c] = First(c) + 1] /\ UNCHANGED <<pc, managerUp>>
        /\ UNCHANGED retry
  /\ UNCHANGED <<ledgerVars, searchUp, ending, count, responses, turn, failed, made,
                 processes, cancels, appUp>>

NextPlace(c) == Goto(c, "exec") /\ cursor' = [cursor EXCEPT ![c] = @ + 1]

Launched(c) == {p \in processes : p.call = c /\ p.node = Host(c) /\ p.ids = Ids(c)}

(* ExecObj fails: it kills the process it launched, cancels the            *)
(* reservations itself, and its caller, told so, cancels them once more.   *)
(* When the first cancellation throws, the caller gets the exception.      *)
ExecFails(c) ==
  /\ managerUp[Host(c)]
  /\ Cancel(Host(c), Ids(c))
  /\ processes' = processes \ Launched(c)
  /\ cancels' = IF CancelThrows(Host(c), Ids(c)) THEN cancels
                ELSE cancels \cup {[node |-> Host(c), ids |-> Ids(c)]}
  /\ NextPlace(c)
  /\ UNCHANGED <<managerUp, searchUp, ending, count, retry, slots, responses, turn, failed,
                 batch, got, made, appUp>>

(* The manager of the node is gone: its caller catches the exception.      *)
ExecThrows(c) ==
  /\ \E l \in {"code", "launch", "receive"} : At(c, l)
  /\ ~managerUp[Host(c)]
  /\ NextPlace(c)
  /\ UNCHANGED <<nodeVars, count, retry, slots, responses, turn, failed, batch, got,
                 made, processes, cancels, appUp>>

(* The application's code manager knows the program of the objects.        *)
QueryCode(c) ==
  /\ At(c, "code")
  /\ \/ managerUp[Host(c)] /\ appUp[AppOf[c]] /\ Jump(c, "launch")
     \/ ExecFails(c)

Launch(c) ==
  /\ At(c, "launch")
  /\ \/ /\ managerUp[Host(c)]
        /\ processes' = processes \cup {[call |-> c, node |-> Host(c), ids |-> Ids(c)]}
        /\ Goto(c, "receive")
        /\ UNCHANGED <<nodeVars, count, retry, slots, cursor, responses, turn, failed, batch,
                       got, made, cancels, appUp>>
     \/ ExecFails(c)

(* The objects of a batch report in the order of the slots.                *)
NextSlot(c) == Min(batch[c] \ got[c])

(* Each object reports its access point, which makes its reservation held; *)
(* after the last, the call counts them.  No report in time, a status that *)
(* is not zero or a reservation that is gone makes ExecObj fail.           *)
Receive(c) ==
  /\ At(c, "receive")
  /\ \/ /\ managerUp[Host(c)]
        /\ ValidateReservation(Host(c), slots[c][NextSlot(c)].id)
        /\ got' = [got EXCEPT ![c] = @ \cup {NextSlot(c)}]
        /\ IF got'[c] = batch[c]
           THEN /\ count' = [count EXCEPT ![c] = @ + Cardinality(batch[c])]
                /\ made' = [made EXCEPT ![c] = @ \cup Launched(c)]
                /\ NextPlace(c)
           ELSE UNCHANGED <<pc, cursor, count, made>>
        /\ UNCHANGED <<managerUp, searchUp, ending, retry, slots, responses, turn, failed,
                       batch, processes, cancels, appUp>>
     \/ ExecFails(c)

-----------------------------------------------------------------------------
(* Mutant: the objects of a call that fails are left alone.                *)
KillNoObjects(c) ==
  /\ At(c, "kill")
  /\ Return(c, "failed")
  /\ UNCHANGED processes

(* The objects in objcontacts are killed when not all could be created.    *)
KillObjects(c) ==
  /\ At(c, "kill")
  /\ processes' = processes \ made[c]
  /\ Return(c, "failed")

(* A CancelReservation arrives, or finds nobody.                           *)
CancelReservation(m) ==
  /\ m \in cancels
  /\ cancels' = cancels \ {m}
  /\ \/ managerUp[m.node] /\ Cancel(m.node, m.ids)
     \/ ~managerUp[m.node] /\ UNCHANGED ledgerVars
  /\ UNCHANGED <<managerUp, searchUp, ending, callVars, processes, appUp>>
=============================================================================
