---------------------------- MODULE MasterImage ----------------------------
(***************************************************************************)
(* pop-cloud-master (poputils/bin/master.py): a run launches a machine     *)
(* with a group and a key of its own, customizes it over ssh, makes an     *)
(* image of it and, unless --no-clean is given, deletes the rest.  Several *)
(* runs work on one account, perhaps for images of one name, next to a     *)
(* pop-cloud-destroy --clean-all.                                          *)
(*                                                                         *)
(* What runs beside the tool is a worker thread (ConnectionAttempt, Upload *)
(* or Manifest), which shell.wait watches through its attribute "state".   *)
(* The tool takes nothing back when it raises.  A run's resources bear its *)
(* name here; the names that the program draws at random are distinct.     *)
(***************************************************************************)
EXTENDS Integers, FiniteSets

CONSTANTS
  Runs,
  ImageName,   \* ImageName[r]: the name in the definition file of the run
  Foreign,     \* the names of images that another user has made public
  Forced,      \* the runs with --force
  Clean,       \* the runs without --no-clean
  None

ASSUME MasterAssumption ==
  Forced \subseteq Runs /\ Clean \subseteq Runs /\ None \notin Runs

VARIABLES
  pc,       \* pc[r]: where master() is
  old,      \* old[r]: the image that a forced run deregisters
  work,     \* work[r]: the worker thread of the run, and what wait knows of it
  done,     \* done[r]: what was done on the machine; its image has the same
  groups, keys,   \* the security groups and key pairs that exist
  files,    \* the runs whose private key is on the disk
  inst,     \* inst[r]: the machine of the run
  images    \* images[r]: its image

accountVars == <<groups, keys, inst, images>>
vars == <<pc, old, work, done, files, accountVars>>

Jobs  == {"connect", "uploadAssets", "uploadManifests", "apply"}
Steps == {"install", "uploadAssets", "uploadManifests", "apply", "tidy"}

Idle == [state |-> "none", seen |-> "none", alive |-> FALSE]

Init ==
  /\ pc = [r \in Runs |-> "idle"] /\ old = [r \in Runs |-> None]
  /\ work = [r \in Runs |-> Idle] /\ done = [r \in Runs |-> {}]
  /\ groups = {} /\ keys = {} /\ files = {}
  /\ inst = [r \in Runs |-> "none"] /\ images = [r \in Runs |-> "none"]

At(r, l)   == pc[r] = l
Goto(r, l) == pc' = [pc EXCEPT ![r] = l]

Raises(r) == Goto(r, "raised") /\ UNCHANGED <<old, work, done, files, accountVars>>

Listed == {r \in Runs : images[r] \in {"pending", "available", "failed"}}
Up(r)  == inst[r] \in {"pending", "running"}

-----------------------------------------------------------------------------
(* Step 3: the name, the group, the key, the machine.                      *)

Start(r) ==
  /\ At(r, "idle") /\ Goto(r, "check")
  /\ UNCHANGED <<old, work, done, files, accountVars>>

(* Only the first image of the list is looked at, and one of another user  *)
(* is no obstacle yet.                                                     *)
CheckName(r) ==
  LET same == {q \in Listed : ImageName[q] = ImageName[r]}
  IN  /\ At(r, "check")
      /\ \/ /\ same = {} \/ ImageName[r] \in Foreign
            /\ Goto(r, "group") /\ UNCHANGED <<old, work, done, files, accountVars>>
         \/ \E q \in same :
              /\ r \in Forced /\ old' = [old EXCEPT ![r] = q] /\ Goto(r, "deregister")
              /\ UNCHANGED <<work, done, files, accountVars>>
         \/ same # {} /\ r \notin Forced /\ Raises(r)

Deregister(r) ==
  /\ At(r, "deregister") /\ old[r] \in Listed
  /\ images' = [images EXCEPT ![old[r]] = "deregistered"]
  /\ Goto(r, "group")
  /\ UNCHANGED <<old, work, done, files, groups, keys, inst>>

CreateGroup(r) ==
  /\ At(r, "group") /\ groups' = groups \cup {r} /\ Goto(r, "authorize")
  /\ UNCHANGED <<old, work, done, files, keys, inst, images>>

Authorize(r) ==
  /\ At(r, "authorize") /\ r \in groups /\ Goto(r, "key")
  /\ UNCHANGED <<old, work, done, files, accountVars>>

CreateKey(r) ==
  /\ At(r, "key") /\ keys' = keys \cup {r} /\ Goto(r, "keyFile")
  /\ UNCHANGED <<old, work, done, files, groups, inst, images>>

WriteKeyFile(r) ==
  /\ At(r, "keyFile") /\ files' = files \cup {r} /\ Goto(r, "launch")
  /\ UNCHANGED <<old, work, done, accountVars>>

Launch(r) ==
  /\ At(r, "launch") /\ r \in groups /\ r \in keys
  /\ inst' = [inst EXCEPT ![r] = "pending"]
  /\ Goto(r, "boot")
  /\ UNCHANGED <<old, work, done, files, groups, keys, images>>

(* The reservation says "pending", so wait takes that and "running".       *)
AwaitBoot(r) ==
  /\ At(r, "boot")
  /\ \/ /\ inst[r] = "running" /\ Goto(r, "connect")
        /\ UNCHANGED <<old, work, done, files, accountVars>>
     \/ inst[r] \notin {"pending", "running"} /\ Raises(r)

-----------------------------------------------------------------------------
(* Steps 3 and 4: shell.wait on a worker.  The thread starts in the        *)
(* constructor; only then does wait read the state that it takes for a     *)
(* valid one.                                                              *)

After(l) == CASE l = "connect"         -> "install"
              [] l = "uploadAssets"    -> "uploadManifests"
              [] l = "uploadManifests" -> "apply"
              [] l = "apply"           -> "tidy"

StartWork(r) ==
  /\ pc[r] \in Jobs /\ work[r].state = "none"
  /\ work' = [work EXCEPT ![r] = [state |-> "working", seen |-> "none", alive |-> TRUE]]
  /\ UNCHANGED <<pc, old, done, files, accountVars>>

ReadValid(r) ==
  /\ work[r].state # "none" /\ work[r].seen = "none"
  /\ work' = [work EXCEPT ![r].seen = work[r].state]
  /\ UNCHANGED <<pc, old, done, files, accountVars>>

(* Mutant: the next job meets the state of the last one.                   *)
WorkDoneKeeping(r) ==
  /\ pc[r] \in Jobs /\ work[r].seen # "none" /\ work[r].state = "ok"
  /\ Goto(r, After(pc[r]))
  /\ UNCHANGED <<old, work, done, files, accountVars>>

(* Mutant: any state but the first one ends the wait.                      *)
WorkDoneAnyhow(r) ==
  /\ pc[r] \in Jobs /\ work[r].seen # "none" /\ work[r].state # "working"
  /\ work' = [work EXCEPT ![r] = Idle]
  /\ Goto(r, After(pc[r]))
  /\ UNCHANGED <<old, done, files, accountVars>>

WorkDone(r) ==
  /\ pc[r] \in Jobs /\ work[r].seen # "none" /\ work[r].state = "ok"
  /\ work' = [work EXCEPT ![r] = Idle]
  /\ Goto(r, After(pc[r]))
  /\ UNCHANGED <<old, done, files, accountVars>>

WorkInvalid(r) ==
  /\ pc[r] \in Jobs /\ work[r].seen # "none"
  /\ work[r].state \notin {work[r].seen, "ok"}
  /\ Raises(r)

(* The worker: a connection is tried until it is there, an upload ends in  *)
(* one state or the other, and a manifest that ends with another exception *)
(* than SystemExit leaves the state as it was.                             *)
WorkEnds(r, s) ==
  /\ work[r].alive
  /\ work' = [work EXCEPT ![r].state = s, ![r].alive = FALSE]

Succeeds(r) ==
  /\ inst[r] = "running" /\ WorkEnds(r, "ok")
  /\ done' = [done EXCEPT ![r] = @ \cup ({pc[r]} \cap Steps)]
  /\ UNCHANGED <<pc, old, files, accountVars>>

(* Mutant: a failing upload, too, leaves the state as it was.              *)
FailsSilently(r) ==
  /\ pc[r] # "connect" /\ WorkEnds(r, "working")
  /\ UNCHANGED <<pc, old, done, files, accountVars>>

Fails(r) ==
  /\ pc[r] # "connect" /\ WorkEnds(r, "failed")
  /\ UNCHANGED <<pc, old, done, files, accountVars>>

Dies(r) ==
  /\ pc[r] = "apply" /\ WorkEnds(r, "working")
  /\ UNCHANGED <<pc, old, done, files, accountVars>>

Worker(r) == Succeeds(r) \/ Fails(r) \/ Dies(r)

(* sudo in the tool's own thread: sources and puppet, then the clean-up.   *)
Sudo(r, l, next) ==
  /\ At(r, l) /\ inst[r] = "running"
  /\ done' = [done EXCEPT ![r] = @ \cup {l}]
  /\ Goto(r, next)
  /\ UNCHANGED <<old, work, files, accountVars>>

Install(r) == Sudo(r, "install", "uploadAssets")
Tidy(r)    == Sudo(r, "tidy", "create")

-----------------------------------------------------------------------------
(* Step 5: the image.  Its first state, whatever it is, is a valid one.    *)

CreateImage(r) ==
  /\ At(r, "create") /\ inst[r] = "running"
  /\ \A q \in Listed : ImageName[q] # ImageName[r]
  /\ images' = [images EXCEPT ![r] = "pending"]
  /\ Goto(r, "getImage")
  /\ UNCHANGED <<old, work, done, files, groups, keys, inst>>

(* Until it is found: every exception is caught.                           *)
GetImage(r) ==
  /\ At(r, "getImage") /\ r \in Listed
  /\ work' = [work EXCEPT ![r].seen = images[r]]
  /\ Goto(r, "available")
  /\ UNCHANGED <<old, done, files, accountVars>>

FirstCleanup(r) == IF r \in Clean THEN "terminate" ELSE "done"

AwaitImage(r) ==
  /\ At(r, "available")
  /\ \/ /\ images[r] = "available" /\ Goto(r, FirstCleanup(r))
        /\ work' = [work EXCEPT ![r] = Idle]
        /\ UNCHANGED <<old, done, files, accountVars>>
     \/ images[r] \notin {work[r].seen, "available"} /\ Raises(r)

-----------------------------------------------------------------------------
(* Step 6: the machine, the key, its file and the group.                   *)

Terminate(r) ==
  /\ At(r, "terminate")
  /\ inst' = [inst EXCEPT ![r] = IF Up(r) THEN "shutting-down" ELSE @]
  /\ Goto(r, "delKey")
  /\ UNCHANGED <<old, work, done, files, groups, keys, images>>

DeleteKey(r) ==
  /\ At(r, "delKey") /\ keys' = keys \ {r} /\ Goto(r, "delFile")
  /\ UNCHANGED <<old, work, done, files, groups, inst, images>>

RemoveKeyFile(r) ==
  /\ At(r, "delFile") /\ files' = files \ {r} /\ Goto(r, "delGroup")
  /\ UNCHANGED <<old, work, done, accountVars>>

GroupInUse(r) == inst[r] \in {"pending", "running", "shutting-down"}

(* Mutant: a group that is still in use is passed over.                    *)
DeleteGroupTolerant(r) ==
  /\ At(r, "delGroup")
  /\ groups' = IF GroupInUse(r) THEN groups ELSE groups \ {r}
  /\ Goto(r, "done")
  /\ UNCHANGED <<old, work, done, files, keys, inst, images>>

DeleteGroup(r) ==
  /\ At(r, "delGroup") /\ r \in groups /\ ~GroupInUse(r)
  /\ groups' = groups \ {r}
  /\ Goto(r, "done")
  /\ UNCHANGED <<old, work, done, files, keys, inst, images>>

(* A call that is refused, or does not get through, raises; wait on a      *)
(* worker makes no call, and the loop around get_image catches everything. *)
Calling == {"check", "deregister", "group", "authorize", "key", "keyFile", "launch", "boot",
            "install", "tidy", "create", "available", "terminate", "delKey", "delFile",
            "delGroup"}

CallRaises(r) == pc[r] \in Calling /\ Raises(r)

RunStep(r) ==
  \/ CheckName(r) \/ Deregister(r) \/ CreateGroup(r) \/ Authorize(r) \/ CreateKey(r)
  \/ WriteKeyFile(r) \/ Launch(r) \/ AwaitBoot(r)
  \/ StartWork(r) \/ ReadValid(r) \/ WorkDone(r) \/ WorkInvalid(r)
  \/ Install(r) \/ Tidy(r)
  \/ CreateImage(r) \/ GetImage(r) \/ AwaitImage(r)
  \/ Terminate(r) \/ DeleteKey(r) \/ RemoveKeyFile(r) \/ DeleteGroup(r)
  \/ CallRaises(r)

-----------------------------------------------------------------------------
(* The provider: machines boot and end, images are completed; either may   *)
(* also go wrong.  Beside it a --clean-all (destroy.py), which is refused  *)
(* the groups in use.                                                      *)

Progress(r) ==
  \/ /\ inst[r] \in {"pending", "shutting-down"}
     /\ inst' = [inst EXCEPT ![r] = IF @ = "pending" THEN "running" ELSE "terminated"]
     /\ UNCHANGED <<pc, old, work, done, files, groups, keys, images>>
  \/ /\ images[r] = "pending"
     /\ images' = [images EXCEPT ![r] = "available"]
     /\ UNCHANGED <<pc, old, work, done, files, groups, keys, inst>>

EndMachine(r) ==
  /\ Up(r) /\ inst' = [inst EXCEPT ![r] = "shutting-down"]
  /\ UNCHANGED <<pc, old, work, done, files, groups, keys, images>>

FailImage(r) ==
  /\ images[r] = "pending" /\ images' = [images EXCEPT ![r] = "failed"]
  /\ UNCHANGED <<pc, old, work, done, files, groups, keys, inst>>

SweepGroup(r) ==
  /\ r \in groups /\ ~GroupInUse(r) /\ groups' = groups \ {r}
  /\ UNCHANGED <<pc, old, work, done, files, keys, inst, images>>

SweepKey(r) ==
  /\ r \in keys /\ keys' = keys \ {r}
  /\ UNCHANGED <<pc, old, work, done, files, groups, inst, images>>

Next ==
  \E r \in Runs :
    \/ Start(r) \/ RunStep(r) \/ Worker(r)
    \/ Progress(r) \/ EndMachine(r) \/ FailImage(r) \/ SweepGroup(r) \/ SweepKey(r)

Spec == Init /\ [][Next]_vars

(* The tool and its worker are threads that get to run; the provider boots *)
(* and ends machines and completes images.                                 *)
FairSpec ==
  /\ Spec
  /\ \A r \in Runs : WF_vars(RunStep(r)) /\ WF_vars(Worker(r)) /\ WF_vars(Progress(r))

-----------------------------------------------------------------------------
(* Types, and: a run has a worker, or remembers the first state of what it *)
(* waits for, only in a wait, or when it raised out of one.                *)
MasterTypeOK ==
  /\ pc \in [Runs -> Jobs \cup Calling \cup {"idle", "getImage", "done", "raised"}]
  /\ old \in [Runs -> Runs \cup {None}]
  /\ \A r \in Runs :
       /\ work[r].state \in {"none", "working", "ok", "failed"} /\ done[r] \subseteq Steps
       /\ pc[r] \in {"getImage", "available", "raised"} \cup Jobs \/ work[r] = Idle
       /\ work[r].alive => work[r].state = "working"
       /\ pc[r] \in Jobs /\ work[r].state = "ok" => ~work[r].alive
  /\ groups \subseteq Runs /\ keys \subseteq Runs /\ files \subseteq Runs
  /\ inst \in [Runs -> {"none", "pending", "running", "shutting-down", "terminated"}]
  /\ images \in [Runs -> {"none", "pending", "available", "failed", "deregistered"}]

(* No image is made of a machine on which one of the uploads or manifests  *)
(* has failed, and a run that announces an image (master.py:402) has an    *)
(* image that can be launched, unless a forced run has deregistered it.    *)
UsableImage ==
  \A r \in Runs :
    /\ r \in Listed => done[r] = Steps
    /\ At(r, "done") =>
         \/ images[r] = "available" /\ done[r] = Steps
         \/ images[r] = "deregistered" /\ \E q \in Forced : old[q] = r

(* A run that ends its cleanup leaves no machine, key, file or group, and  *)
(* a machine that runs can be logged into with the command that the run    *)
(* has printed (285): its private key is still on the disk, also when the  *)
(* run has raised or was not to clean up.                                  *)
CleanedOrReachable ==
  \A r \in Runs :
    /\ At(r, "done") /\ r \in Clean =>
         ~GroupInUse(r) /\ r \notin keys /\ r \notin files /\ r \notin groups
    /\ Up(r) => r \in files

(* Where a run stays for ever: the worker failed before wait read its      *)
(* state, a manifest's worker ended without setting it, the machine ended  *)
(* before the connection, the image failed before it was found, or was     *)
(* deregistered by then.                                                   *)
Stuck(r) ==
  \/ pc[r] \in Jobs /\ work[r].state = "failed" /\ work[r].seen = "failed"
  \/ At(r, "apply") /\ work[r].state = "working" /\ ~work[r].alive
  \/ At(r, "connect") /\ ~Up(r)
  \/ At(r, "getImage") /\ images[r] = "deregistered"
  \/ At(r, "available") /\ work[r].seen = "failed"

(* A run that has begun ends, one way or the other, but for those cases.   *)
RunEnds ==
  \A r \in Runs : At(r, "check") ~> (pc[r] \in {"done", "raised"} \/ Stuck(r))
=============================================================================
