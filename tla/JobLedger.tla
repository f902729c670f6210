------------------------------ MODULE JobLedger ------------------------------
(***************************************************************************)
(* What a job manager keeps of its node (lib/jobmgr.cc): the reservations, *)
(* the power they leave available, the number of the next one; and the     *)
(* copy of that power in the node's search node (lib/popc_search_node.cc), *)
(* another process, from which discovery is answered.  One resource, the   *)
(* power, stands for power, memory and bandwidth.                          *)
(*                                                                         *)
(* Every method that touches the ledger holds the manager's mutex from its *)
(* first line to its last, its calls of the search node included, so each  *)
(* is one step; ApplicationEnd alone goes on after the unlock.             *)
(***************************************************************************)
EXTENDS Integers, SequencesExt

CONSTANTS
  Nodes,
  Apps,        \* applications
  Calls,       \* calls of CreateObject
  NoApp,       \* the popAppId of a reservation that was given none
  Limit,       \* limit.flops, the power of a processor, the most a job gets
  Np,          \* the processors of a node
  MaxJobs,     \* maxjobs
  MaxId        \* 1000000000: the number after MaxId is 1

ASSUME LedgerAssumption ==
  /\ NoApp \notin Apps
  /\ Np \in [Nodes -> Nat \ {0}]
  /\ {Limit, MaxJobs} \subseteq Nat
  /\ MaxId \in Nat \ {0}

(* total.flops.                                                            *)
Power == [n \in Nodes |-> Np[n] * Limit]

VARIABLES
  jobs,        \* the list of Resources of a node
  available,   \* available.flops
  counter,     \* the Id of the next reservation
  managerUp,   \* does the job manager's process live?
  view,        \* nodeInfo.power and psn_currentJobs of the search node
  searchUp,    \* does the search node's process live?
  ending       \* the ApplicationEnd of an application, past the mutex

ledgerVars == <<jobs, available, counter, view>>
nodeVars   == <<jobs, available, counter, view, managerUp, searchUp, ending>>

(* "held" says that contact is set; "by" is the call the reservation was   *)
(* made for, which only the properties look at.                            *)
Resources == [Id: 1..MaxId, flops: Nat, popAppId: Apps \cup {NoApp},
              held: BOOLEAN, by: Calls]

Ending == [pc: {"none", "read", "send"}, nbJob: Nat, flops: Int]
NotEnding == [pc |-> "none", nbJob |-> 0, flops |-> 0]

LedgerTypeOK ==
  /\ jobs \in [Nodes -> Seq(Resources)]
  /\ available \in [Nodes -> Int]
  /\ counter \in [Nodes -> 1..MaxId]
  /\ managerUp \in [Nodes -> BOOLEAN]
  /\ view \in [Nodes -> [flops: Int, jobs: Int]]
  /\ searchUp \in [Nodes -> BOOLEAN]
  /\ ending \in [Nodes -> [Apps -> Ending]]

LedgerInit ==
  /\ jobs = [n \in Nodes |-> <<>>]
  /\ available = Power
  /\ counter = [n \in Nodes |-> 1]
  /\ managerUp = [n \in Nodes |-> TRUE]
  /\ view = [n \in Nodes |-> [flops |-> Power[n], jobs |-> 0]]
  /\ searchUp = [n \in Nodes |-> TRUE]
  /\ ending = [n \in Nodes |-> [a \in Apps |-> NotEnding]]

SumFlops(s) ==
  LET sum[i \in 0..Len(s)] == IF i = 0 THEN 0 ELSE sum[i-1] + s[i].flops
  IN  sum[Len(s)]

(* The entries of a list that are in S, in their order: a SelectSeq that   *)
(* the provers can reason about.                                           *)
Those(s, S) ==
  LET those[i \in 0..Len(s)] ==
        IF i = 0 THEN <<>>
        ELSE IF s[i] \in S THEN Append(those[i-1], s[i]) ELSE those[i-1]
  IN  those[Len(s)]

Others(s, S) == Those(s, ToSet(s) \ S)

Least(a, b) == IF a <= b THEN a ELSE b

-----------------------------------------------------------------------------
(* Mutant: the limit is respected, what is available is not.               *)
GrantUpToLimit(n, require) == Least(require, Limit)

(* All that was asked, or what is available, or the limit.  The fitness is *)
(* the share of the demand that is granted (or more than 1).               *)
Grant(n, require) == Least(require, Least(available[n], Limit))

Reservation(n, flops, a, c) ==
  [Id |-> counter[n], flops |-> flops, popAppId |-> a, held |-> FALSE, by |-> c]

Full(n) == Len(jobs[n]) >= MaxJobs

(* Mutant: the numbers go from 0 to MaxId - 1.                             *)
TakeFromZero(n, t) ==
  /\ jobs' = [jobs EXCEPT ![n] = Append(@, t)]
  /\ available' = [available EXCEPT ![n] = @ - t.flops]
  /\ counter' = [counter EXCEPT ![n] = (@ + 1) % MaxId]

(* Mutant: the number is not moved on.                                     *)
TakeSameId(n, t) ==
  /\ jobs' = [jobs EXCEPT ![n] = Append(@, t)]
  /\ available' = [available EXCEPT ![n] = @ - t.flops]
  /\ UNCHANGED counter

Take(n, t) ==
  /\ jobs' = [jobs EXCEPT ![n] = Append(@, t)]
  /\ available' = [available EXCEPT ![n] = @ - t.flops]
  /\ counter' = [counter EXCEPT ![n] = (@ % MaxId) + 1]

AddJob(n, flops) ==
  view' = [view EXCEPT ![n] = [flops |-> @.flops - flops, jobs |-> @.jobs + 1]]

(* removeJob sets the copy to the power it is given.                       *)
RemoveJob(n, flops, nbJob) ==
  view' = [view EXCEPT ![n] = [flops |-> flops, jobs |-> @.jobs - nbJob]]

(* Reserve for call c of application a answers id.  AllocResource asks for *)
(* any fitness, so no grant is too small.  If the search node cannot be    *)
(* reached the entry is in the list already, and the answer is 0.          *)
Reserve(n, c, a, require, id) ==
  LET t == Reservation(n, Grant(n, require), a, c) IN
  \/ /\ Full(n)
     /\ id = 0
     /\ UNCHANGED ledgerVars
  \/ /\ ~Full(n) /\ searchUp[n]
     /\ id = t.Id
     /\ Take(n, t) /\ AddJob(n, t.flops)
  \/ /\ ~Full(n) /\ ~searchUp[n]
     /\ id = 0
     /\ jobs' = [jobs EXCEPT ![n] = Append(@, t)]
     /\ UNCHANGED <<available, counter, view>>

(* The reservation a manager makes on its own node: it needs the minimum,  *)
(* names no application and does not tell the search node.                 *)
MatchAndReserve(n, c, require, minimum, id) ==
  IF Full(n) \/ minimum > available[n] \/ minimum > Limit
  THEN id = 0 /\ UNCHANGED ledgerVars
  ELSE LET t == Reservation(n, Grant(n, require), NoApp, c)
       IN id = t.Id /\ Take(n, t) /\ UNCHANGED view

-----------------------------------------------------------------------------
(* Only a reservation without a contact is cancelled.  The search node is  *)
(* told the power of the entry after the list has freed it: it may get any *)
(* value.  The search node's exception ends the loop at the first entry.   *)
Cancellable(t, ids) == t.Id \in ids /\ ~t.held

Cancelled(n, ids) == {t \in ToSet(jobs[n]) : Cancellable(t, ids)}

CancelThrows(n, ids) == ~searchUp[n] /\ Cancelled(n, ids) # {}

Cancel(n, ids) ==
  LET gone == Those(jobs[n], Cancelled(n, ids))
      k    == SelectInSeq(jobs[n], LAMBDA t : Cancellable(t, ids))
  IN  \/ Cancelled(n, ids) = {} /\ UNCHANGED ledgerVars
      \/ /\ Cancelled(n, ids) # {} /\ searchUp[n]
         /\ jobs' = [jobs EXCEPT ![n] = Others(@, Cancelled(n, ids))]
         /\ available' = [available EXCEPT ![n] = @ + SumFlops(gone)]
         /\ \E v \in 0..Power[n] : RemoveJob(n, v, Len(gone))
         /\ UNCHANGED counter
      \/ /\ CancelThrows(n, ids)
         /\ jobs' = [jobs EXCEPT ![n] = RemoveAt(@, k)]
         /\ available' = [available EXCEPT ![n] = @ + jobs[n][k].flops]
         /\ UNCHANGED <<counter, view>>

VerifyReservation(n, id) == \E t \in ToSet(jobs[n]) : t.Id = id

(* ValidateReservation sets the contact of the first entry with the Id.    *)
ValidateReservation(n, id) ==
  LET k == SelectInSeq(jobs[n], LAMBDA t : t.Id = id)
  IN  /\ k > 0
      /\ jobs' = [jobs EXCEPT ![n][k].held = TRUE]
      /\ UNCHANGED <<available, counter, view>>

-----------------------------------------------------------------------------
(* Mutant: the reservations of any application are released.               *)
NamesAny(t, a) == t.popAppId # NoApp

Names(t, a) == t.popAppId = a

(* ApplicationEnd releases the reservations that name the application.     *)
(* After the unlock it reads what is available and sends that on.          *)
Named(n, a) == {t \in ToSet(jobs[n]) : Names(t, a)}

ApplicationEnd(n, a) ==
  LET gone == Those(jobs[n], Named(n, a)) IN
  /\ managerUp[n] /\ ending[n][a] = NotEnding /\ Named(n, a) # {}
  /\ jobs' = [jobs EXCEPT ![n] = Others(@, Named(n, a))]
  /\ available' = [available EXCEPT ![n] = @ + SumFlops(gone)]
  /\ ending' = [ending EXCEPT ![n][a] = [@ EXCEPT !.pc = "read", !.nbJob = Len(gone)]]
  /\ UNCHANGED <<counter, view, managerUp, searchUp>>

ReadAvailable(n, a) ==
  /\ managerUp[n] /\ ending[n][a].pc = "read"
  /\ ending' = [ending EXCEPT ![n][a] = [@ EXCEPT !.pc = "send", !.flops = available[n]]]
  /\ UNCHANGED <<ledgerVars, managerUp, searchUp>>

(* The exception of an unreachable search node is caught.                  *)
SendAvailable(n, a) ==
  /\ managerUp[n] /\ ending[n][a].pc = "send"
  /\ \/ searchUp[n] /\ RemoveJob(n, ending[n][a].flops, ending[n][a].nbJob)
     \/ ~searchUp[n] /\ UNCHANGED view
  /\ ending' = [ending EXCEPT ![n][a] = NotEnding]
  /\ UNCHANGED <<jobs, available, counter, managerUp, searchUp>>

SearchNodeStops(n) ==
  /\ searchUp[n]
  /\ searchUp' = [searchUp EXCEPT ![n] = FALSE]
  /\ UNCHANGED <<ledgerVars, managerUp, ending>>

(* checkResource: the wanted and the minimal power against the copy.       *)
CheckResource(n, require, minimum) ==
  /\ view[n].jobs < MaxJobs
  /\ require <= view[n].flops /\ minimum <= view[n].flops

-----------------------------------------------------------------------------
(* What is available and what is reserved are together the node's power,   *)
(* and no more is reserved than there is: reservations, cancellations and  *)
(* ends of applications, some of them twice or for the same entry, neither *)
(* lose power nor return it twice.                                         *)
LedgerBalanced ==
  \A n \in Nodes :
    /\ available[n] >= 0
    /\ available[n] + SumFlops(jobs[n]) = Power[n]

(* An Id names one reservation: what a call validates or cancels by its Id *)
(* is never another call's.                                                *)
IdsDistinct ==
  \A n \in Nodes : \A i, j \in DOMAIN jobs[n] :
    jobs[n][i].Id = jobs[n][j].Id => i = j
=============================================================================
