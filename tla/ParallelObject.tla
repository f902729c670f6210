--------------------------- MODULE ParallelObject ---------------------------
(***************************************************************************)
(* What a POP-C++ parallel object promises to its clients, whatever the    *)
(* threads, locks and counters of the broker that serves it: methods are   *)
(* concurrent, sequential or mutex (the INVOKE_CONC / INVOKE_MUTEX bits of *)
(* a call; neither bit means sequential), each accepted call is started at *)
(* most once, and the three semantics restrict what may run side by side.  *)
(***************************************************************************)
EXTENDS Naturals, Sequences, SequencesExt

CONSTANTS ConcReqs, MutexReqs, SeqReqs   \* the calls, by the semantics of their method

Calls == ConcReqs \cup MutexReqs \cup SeqReqs

VARIABLES
  pend,      \* accepted calls that have not started, oldest first
  running,   \* calls whose method is being executed
  seen       \* calls the object has ever accepted

vars == <<pend, running, seen>>

Init == pend = <<>> /\ running = {} /\ seen = {}

NoMutexIn(S) == S \cap MutexReqs = {}

Accept(q) ==
  /\ q \notin seen
  /\ pend' = Append(pend, q)
  /\ seen' = seen \cup {q}
  /\ UNCHANGED running

(* A concurrent call may run at once when no mutex call waits or runs.     *)
StartAtOnce(q) ==
  /\ q \in ConcReqs \ seen
  /\ NoMutexIn(ToSet(pend) \cup running)
  /\ running' = running \cup {q}
  /\ seen' = seen \cup {q}
  /\ UNCHANGED pend

(* When the i-th pending call may start.  A concurrent call may overtake   *)
(* sequential calls but never a mutex call; a sequential call runs alone   *)
(* among the calls that are not concurrent; a mutex call runs alone.       *)
MayStart(i) ==
  CASE pend[i] \in ConcReqs  -> NoMutexIn({pend[j] : j \in 1..(i-1)} \cup running)
    [] pend[i] \in SeqReqs   -> i = 1 /\ running \subseteq ConcReqs
    [] pend[i] \in MutexReqs -> i = 1 /\ running = {}

Start(i) ==
  /\ MayStart(i)
  /\ running' = running \cup {pend[i]}
  /\ pend' = RemoveAt(pend, i)
  /\ UNCHANGED seen

Finish(q) ==
  /\ q \in running
  /\ running' = running \ {q}
  /\ UNCHANGED <<pend, seen>>

(* The process that hosts the object goes: what it had not done is lost.   *)
Perish ==
  /\ pend' = <<>>
  /\ running' = {}
  /\ seen' = Calls

Next ==
  \/ \E q \in Calls : Accept(q) \/ StartAtOnce(q) \/ Finish(q)
  \/ \E i \in 1..Len(pend) : Start(i)
  \/ Perish

Spec == Init /\ [][Next]_vars
=============================================================================
