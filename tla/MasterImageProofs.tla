------------------------- MODULE MasterImageProofs -------------------------
(***************************************************************************)
(* MasterTypeOK, UsableImage and CleanedOrReachable hold for any number of *)
(* runs of pop-cloud-master, whatever their names and options.             *)
(*                                                                         *)
(* None of them is inductive: that an image is only made of a machine on   *)
(* which everything was done depends on where the run is, on what its      *)
(* worker says, and on which machine that was; that a deregistered image   *)
(* was deregistered by force, on who remembers it.                         *)
(***************************************************************************)
EXTENDS MasterImage, TLAPS

Places == Jobs \cup Calling \cup {"idle", "getImage", "done", "raised"}
Workers == [state : {"none", "working", "ok", "failed"},
            seen  : {"none", "working", "ok", "failed", "pending", "available"},
            alive : BOOLEAN]

(* The types, and the image that a forced run remembers.                   *)
Types ==
  /\ pc \in [Runs -> Places] /\ old \in [Runs -> Runs \cup {None}]
  /\ work \in [Runs -> Workers] /\ done \in [Runs -> SUBSET Steps]
  /\ groups \subseteq Runs /\ keys \subseteq Runs /\ files \subseteq Runs
  /\ inst \in [Runs -> {"none", "pending", "running", "shutting-down", "terminated"}]
  /\ images \in [Runs -> {"none", "pending", "available", "failed", "deregistered"}]

WorkerInv(r) ==
  /\ pc[r] \in {"getImage", "available", "raised"} \cup Jobs \/ work[r] = Idle
  /\ work[r].alive => work[r].state = "working"
  /\ pc[r] \in {"getImage", "available"} => work[r].state = "none"
  /\ pc[r] \in Jobs \cap Steps /\ work[r].state = "ok" => pc[r] \in done[r]

OldInv(r) ==
  /\ pc[r] \in {"idle", "check"} => old[r] = None
  /\ old[r] # None => r \in Forced
  /\ images[r] = "deregistered" => \E q \in Forced : old[q] = r

Cleaning == {"terminate", "delKey", "delFile", "delGroup"}

(* What has been done on the machine, by the place of the run.             *)
DoneInv(r) ==
  /\ pc[r] \in {"uploadAssets", "uploadManifests", "apply", "tidy"} => "install" \in done[r]
  /\ pc[r] \in {"uploadManifests", "apply", "tidy"} => "uploadAssets" \in done[r]
  /\ pc[r] \in {"apply", "tidy"} => "uploadManifests" \in done[r]
  /\ pc[r] = "tidy" => "apply" \in done[r]
  /\ pc[r] \in {"create", "getImage", "available", "done"} \cup Cleaning => done[r] = Steps
  /\ images[r] # "none" => done[r] = Steps
  /\ pc[r] \in {"done"} \cup Cleaning => images[r] \in {"available", "deregistered"}

CleanInv(r) ==
  /\ Up(r) => r \in files
  /\ pc[r] = "launch" => r \in files
  /\ pc[r] \in {"delKey", "delFile", "delGroup"} => ~Up(r)
  /\ pc[r] \in {"delFile", "delGroup"} => r \notin keys
  /\ pc[r] = "delGroup" => r \notin files
  /\ pc[r] = "done" /\ r \in Clean =>
       ~GroupInUse(r) /\ r \notin keys /\ r \notin files /\ r \notin groups

IInv == Types /\ \A r \in Runs : WorkerInv(r) /\ OldInv(r) /\ DoneInv(r) /\ CleanInv(r)

-----------------------------------------------------------------------------
(* The invariant holds at the beginning,                                   *)
LEMMA InitIInv == Init => IInv
  BY MasterAssumption DEF Init, IInv, Types, WorkerInv, OldInv, DoneInv, CleanInv, Places, Workers,
       Idle, Up, Calling, Jobs, Steps, Cleaning, GroupInUse

(* when a run raises,                                                      *)
LEMMA RaisesIInv == ASSUME IInv, NEW r \in Runs, Raises(r) PROVE IInv'
  BY MasterAssumption DEF Raises, Goto, accountVars, IInv, Types, WorkerInv, OldInv, DoneInv,
       CleanInv, Places, Workers, Idle, Up, Calling, Jobs, Steps, Cleaning, GroupInUse

(* and after every other step.                                             *)
LEMMA StepIInv == IInv /\ [Next]_vars => IInv'
<1> SUFFICES ASSUME IInv, [Next]_vars PROVE IInv'
  OBVIOUS
<1> USE MasterAssumption DEF IInv, Types, WorkerInv, OldInv, DoneInv, CleanInv, Places, Workers,
      Idle, Up, Calling, Jobs, Steps, Cleaning, GroupInUse, At, Goto, accountVars
<1>1. ASSUME NEW r \in Runs, Start(r) PROVE IInv'
  BY <1>1 DEF Start
<1>2. ASSUME NEW r \in Runs, CheckName(r) PROVE IInv'
  <2>1. CASE Goto(r, "group") /\ UNCHANGED <<old, work, done, files, accountVars>> /\ pc[r] = "check"
    BY <2>1
  <2>2. ASSUME NEW q \in Runs, r \in Forced, old' = [old EXCEPT ![r] = q],
               Goto(r, "deregister"), UNCHANGED <<work, done, files, accountVars>>, pc[r] = "check"
        PROVE IInv'
    BY <2>2
  <2>3. CASE Raises(r)
    BY <2>3, RaisesIInv
  <2>4. QED
    BY <1>2, <2>1, <2>2, <2>3 DEF CheckName, Listed
<1>3. ASSUME NEW r \in Runs, Deregister(r) PROVE IInv'
  BY <1>3 DEF Deregister, Listed
<1>4. ASSUME NEW r \in Runs, CreateGroup(r) PROVE IInv'
  BY <1>4 DEF CreateGroup
<1>5. ASSUME NEW r \in Runs, Authorize(r) PROVE IInv'
  BY <1>5 DEF Authorize
<1>6. ASSUME NEW r \in Runs, CreateKey(r) PROVE IInv'
  BY <1>6 DEF CreateKey
<1>7. ASSUME NEW r \in Runs, WriteKeyFile(r) PROVE IInv'
  BY <1>7 DEF WriteKeyFile
<1>8. ASSUME NEW r \in Runs, Launch(r) PROVE IInv'
  BY <1>8 DEF Launch
<1>9. ASSUME NEW r \in Runs, AwaitBoot(r) PROVE IInv'
  <2>1. CASE Goto(r, "connect") /\ UNCHANGED <<old, work, done, files, accountVars>> /\ pc[r] = "boot"
    BY <2>1
  <2>2. CASE Raises(r)
    BY <2>2, RaisesIInv
  <2>3. QED
    BY <1>9, <2>1, <2>2 DEF AwaitBoot
<1>10. ASSUME NEW r \in Runs, StartWork(r) PROVE IInv'
  <2>1. Types'
    BY <1>10 DEF StartWork
  <2>2. ASSUME NEW q \in Runs PROVE WorkerInv(q)'
    <3>1. CASE q # r
      BY <1>10, <3>1 DEF StartWork
    <3>2. CASE q = r
      <4>1. work'[r] = [state |-> "working", seen |-> "none", alive |-> TRUE]
        BY <1>10 DEF StartWork
      <4>2. QED
        BY <1>10, <3>2, <4>1 DEF StartWork
    <3>3. QED
      BY <3>1, <3>2
  <2>3. ASSUME NEW q \in Runs PROVE OldInv(q)'
    BY <1>10 DEF StartWork
  <2>4. ASSUME NEW q \in Runs PROVE DoneInv(q)'
    BY <1>10 DEF StartWork
  <2>5. ASSUME NEW q \in Runs PROVE CleanInv(q)'
    BY <1>10 DEF StartWork
  <2>6. QED
    BY <2>1, <2>2, <2>3, <2>4, <2>5
<1>11. ASSUME NEW r \in Runs, ReadValid(r) PROVE IInv'
  <2>1. Types'
    BY <1>11 DEF ReadValid
  <2>2. ASSUME NEW q \in Runs PROVE WorkerInv(q)'
    <3>1. CASE q # r
      BY <1>11, <3>1 DEF ReadValid
    <3>2. CASE q = r
      <4>1. work'[r] = [work[r] EXCEPT !.seen = work[r].state]
        BY <1>11 DEF ReadValid
      <4>2. QED
        BY <1>11, <3>2, <4>1 DEF ReadValid
    <3>3. QED
      BY <3>1, <3>2
  <2>3. ASSUME NEW q \in Runs PROVE OldInv(q)'
    BY <1>11 DEF ReadValid
  <2>4. ASSUME NEW q \in Runs PROVE DoneInv(q)'
    BY <1>11 DEF ReadValid
  <2>5. ASSUME NEW q \in Runs PROVE CleanInv(q)'
    BY <1>11 DEF ReadValid
  <2>6. QED
    BY <2>1, <2>2, <2>3, <2>4, <2>5
<1>12. ASSUME NEW r \in Runs, WorkDone(r) PROVE IInv'
  <2>1. Types'
    BY <1>12 DEF WorkDone, After
  <2>2. ASSUME NEW q \in Runs PROVE WorkerInv(q)'
    <3>1. CASE q # r
      BY <1>12, <3>1 DEF WorkDone, After
    <3>2. CASE q = r
      <4>1. work'[r] = Idle
        BY <1>12 DEF WorkDone, After
      <4>2. QED
        BY <1>12, <3>2, <4>1 DEF WorkDone, After
    <3>3. QED
      BY <3>1, <3>2
  <2>3. ASSUME NEW q \in Runs PROVE OldInv(q)'
    BY <1>12 DEF WorkDone, After
  <2>4. ASSUME NEW q \in Runs PROVE DoneInv(q)'
    BY <1>12 DEF WorkDone, After
  <2>5. ASSUME NEW q \in Runs PROVE CleanInv(q)'
    BY <1>12 DEF WorkDone, After
  <2>6. QED
    BY <2>1, <2>2, <2>3, <2>4, <2>5
<1>13. ASSUME NEW r \in Runs, WorkInvalid(r) PROVE IInv'
  BY <1>13 DEF WorkInvalid, Raises
<1>14. ASSUME NEW r \in Runs, Install(r) PROVE IInv'
  BY <1>14 DEF Install, Sudo
<1>15. ASSUME NEW r \in Runs, Tidy(r) PROVE IInv'
  BY <1>15 DEF Tidy, Sudo
<1>16. ASSUME NEW r \in Runs, CreateImage(r) PROVE IInv'
  BY <1>16 DEF CreateImage
<1>17. ASSUME NEW r \in Runs, GetImage(r) PROVE IInv'
  <2>1. Types'
    BY <1>17 DEF GetImage, Listed
  <2>2. ASSUME NEW q \in Runs PROVE WorkerInv(q)'
    <3>1. CASE q # r
      BY <1>17, <3>1 DEF GetImage, Listed
    <3>2. CASE q = r
      <4>1. work'[r] = [work[r] EXCEPT !.seen = images[r]]
        BY <1>17 DEF GetImage, Listed
      <4>2. QED
        BY <1>17, <3>2, <4>1 DEF GetImage, Listed
    <3>3. QED
      BY <3>1, <3>2
  <2>3. ASSUME NEW q \in Runs PROVE OldInv(q)'
    BY <1>17 DEF GetImage, Listed
  <2>4. ASSUME NEW q \in Runs PROVE DoneInv(q)'
    BY <1>17 DEF GetImage, Listed
  <2>5. ASSUME NEW q \in Runs PROVE CleanInv(q)'
    BY <1>17 DEF GetImage, Listed
  <2>6. QED
    BY <2>1, <2>2, <2>3, <2>4, <2>5
<1>18. ASSUME NEW r \in Runs, AwaitImage(r) PROVE IInv'
  <2>1. CASE Raises(r)
    BY <2>1, RaisesIInv
  <2>2. CASE ~Raises(r)
    <3>1. /\ pc[r] = "available" /\ images[r] = "available"
          /\ pc' = [pc EXCEPT ![r] = IF r \in Clean THEN "terminate" ELSE "done"]
          /\ work' = [work EXCEPT ![r] = Idle]
          /\ UNCHANGED <<old, done, files, groups, keys, inst, images>>
      BY <1>18, <2>2 DEF AwaitImage, FirstCleanup
    <3>2. Types'
      BY <3>1
    <3>3. ASSUME NEW q \in Runs PROVE WorkerInv(q)'
      <4>1. CASE q # r
        BY <3>1, <4>1
      <4>2. CASE q = r
        <5>1. work'[r] = Idle
          BY <3>1
        <5>2. QED
          BY <3>1, <4>2, <5>1
      <4>3. QED
        BY <4>1, <4>2
    <3>4. ASSUME NEW q \in Runs PROVE OldInv(q)'
      BY <3>1
    <3>5. ASSUME NEW q \in Runs PROVE DoneInv(q)'
      BY <3>1
    <3>6. ASSUME NEW q \in Runs PROVE CleanInv(q)'
      BY <3>1
    <3>7. QED
      BY <3>2, <3>3, <3>4, <3>5, <3>6
  <2>3. QED
    BY <2>1, <2>2
<1>19. ASSUME NEW r \in Runs, Terminate(r) PROVE IInv'
  BY <1>19 DEF Terminate
<1>20. ASSUME NEW r \in Runs, DeleteKey(r) PROVE IInv'
  BY <1>20 DEF DeleteKey
<1>21. ASSUME NEW r \in Runs, RemoveKeyFile(r) PROVE IInv'
  BY <1>21 DEF RemoveKeyFile
<1>22. ASSUME NEW r \in Runs, DeleteGroup(r) PROVE IInv'
  BY <1>22 DEF DeleteGroup
<1>23. ASSUME NEW r \in Runs, CallRaises(r) PROVE IInv'
  BY <1>23 DEF CallRaises, Raises
<1>24. ASSUME NEW r \in Runs, Succeeds(r) PROVE IInv'
  BY <1>24 DEF Succeeds, WorkEnds
<1>25. ASSUME NEW r \in Runs, Fails(r) PROVE IInv'
  BY <1>25 DEF Fails, WorkEnds
<1>26. ASSUME NEW r \in Runs, Dies(r) PROVE IInv'
  BY <1>26 DEF Dies, WorkEnds
<1>27. ASSUME NEW r \in Runs, Progress(r) PROVE IInv'
  <2>1. Types'
    BY <1>27 DEF Progress
  <2>2. ASSUME NEW q \in Runs PROVE WorkerInv(q)'
    BY <1>27, <2>1 DEF Progress
  <2>3. ASSUME NEW q \in Runs PROVE OldInv(q)'
    BY <1>27 DEF Progress
  <2>4. ASSUME NEW q \in Runs PROVE DoneInv(q)'
    BY <1>27 DEF Progress
  <2>5. ASSUME NEW q \in Runs PROVE CleanInv(q)'
    BY <1>27 DEF Progress
  <2>6. QED
    BY <2>1, <2>2, <2>3, <2>4, <2>5
<1>28. ASSUME NEW r \in Runs, EndMachine(r) PROVE IInv'
  BY <1>28 DEF EndMachine
<1>29. ASSUME NEW r \in Runs, FailImage(r) PROVE IInv'
  BY <1>29 DEF FailImage
<1>30. ASSUME NEW r \in Runs, SweepGroup(r) PROVE IInv'
  BY <1>30 DEF SweepGroup
<1>31. ASSUME NEW r \in Runs, SweepKey(r) PROVE IInv'
  BY <1>31 DEF SweepKey
<1>32. CASE UNCHANGED vars
  BY <1>32 DEF vars
<1>33. QED
  BY <1>1, <1>2, <1>3, <1>4, <1>5, <1>6, <1>7, <1>8, <1>9, <1>10, <1>11, <1>12, <1>13, <1>14, <1>15, <1>16, <1>17, <1>18, <1>19, <1>20, <1>21, <1>22, <1>23, <1>24, <1>25, <1>26, <1>27, <1>28, <1>29, <1>30, <1>31, <1>32 DEF Next, RunStep, Worker

-----------------------------------------------------------------------------
(* The inductive invariant holds in every state of every run.              *)
THEOREM Inductive == Spec => []IInv
  BY InitIInv, StepIInv, PTL DEF Spec

(* The variables have their types, and a run has a worker only in a wait   *)
(* (shell.py:41-80): no job meets the state of the one before.             *)
THEOREM MasterTypes == Spec => []MasterTypeOK
<1>1. IInv => MasterTypeOK
  BY MasterAssumption DEF IInv, Types, WorkerInv, OldInv, MasterTypeOK, Places, Workers, Jobs, Steps
<1>2. QED
  BY <1>1, Inductive, PTL

(* An image is only made of a machine on which every upload and manifest   *)
(* has succeeded (master.py:308-362), and one that was announced can be    *)
(* launched unless a forced run has deregistered it.                       *)
THEOREM Usable == Spec => []UsableImage
<1>1. IInv => UsableImage
  BY DEF IInv, Types, OldInv, DoneInv, UsableImage, Listed, At
<1>2. QED
  BY <1>1, Inductive, PTL

(* A run that ends its cleanup leaves nothing, and the private key of a    *)
(* machine that runs is still on the disk (master.py:255-259, 383-392).    *)
THEOREM Cleaned == Spec => []CleanedOrReachable
<1>1. IInv => CleanedOrReachable
  BY DEF IInv, CleanInv, CleanedOrReachable, At
<1>2. QED
  BY <1>1, Inductive, PTL
=============================================================================
