------------------------------- MODULE Cloud -------------------------------
(***************************************************************************)
(* Clouds set up and destroyed in one account by several operators, each   *)
(* with a definition file, beside a --clean-all.  The tools know nothing   *)
(* of each other: between two calls of one, the others make theirs.        *)
(***************************************************************************)
EXTENDS CloudDestroy

CONSTANT MaxFaults   \* bound: how many calls fail for a reason of their own

ASSUME CloudAssumption == MaxFaults \in Nat

VARIABLE faults

vars == <<toolVars, destroyVars, sweepVars, accountVars, faults>>

Init ==
  /\ AccountInit
  /\ pc = [k \in Confs |-> "idle"]
  /\ runs = [k \in Confs |-> 0]
  /\ use = [r \in Runs |-> Unused]
  /\ failed = {} /\ begun = {} /\ torn = {}
  /\ pem = [d \in {Dir[k] : k \in Confs} |-> None]
  /\ summary = [k \in Confs |-> None]
  /\ sweep = "idle" /\ listed = {}
  /\ faults = 0

Setup(k)   == (StartSetup(k) \/ SetupStep(k)) /\ UNCHANGED <<destroyVars, sweepVars, faults>>
Start(k)   == StartDestroy(k) /\ UNCHANGED <<sweepVars, faults>>
Destroy(k) == DestroyStep(k) /\ UNCHANGED <<sweepVars, faults>>
CleanAll   == SweepStep /\ UNCHANGED faults

Machine(r, ip) ==
  MachineStep(r, ip) /\ UNCHANGED <<toolVars, destroyVars, sweepVars, faults>>

Fault(k) ==
  /\ faults < MaxFaults /\ faults' = faults + 1
  /\ \/ SetupFails(k) /\ UNCHANGED destroyVars
     \/ DestroyFails(k)
  /\ UNCHANGED sweepVars

Next ==
  \/ \E k \in Confs : Setup(k) \/ Start(k) \/ Destroy(k) \/ Fault(k)
  \/ \E r \in Runs : \E ip \in Ips[r[1]] : Machine(r, ip)
  \/ CleanAll

Spec == Init /\ [][Next]_vars

(* The tools go on until they end or raise, the provider gets on with its  *)
(* machines, and an operator destroys again the cloud that was not torn    *)
(* down.  Nothing makes an operator begin a setup or a --clean-all.        *)
FairSpec ==
  /\ Spec
  /\ \A k \in Confs :
       /\ WF_vars(SetupStep(k) /\ Setup(k))
       /\ WF_vars(Destroy(k))
       /\ WF_vars(Cid(k) \notin torn /\ Cid(k) \in begun /\ Start(k))
  /\ \A r \in Runs : \A ip \in Ips[r[1]] : WF_vars(Machine(r, ip))

-----------------------------------------------------------------------------
(* The variables have their types, and what a later step of setup needs of *)
(* an earlier one is there.                                                *)
CloudTypeOK ==
  /\ AccountTypeOK
  /\ pc \in [Confs -> SetupLocs \cup DestroyLocs \cup {"idle"}]
  /\ runs \in [Confs -> 0..MaxRuns]
  /\ use \in [Runs -> [{"vpc", "subnet", "gateway", "address", "table"} -> Runs \cup {None}]]
  /\ failed \subseteq Runs /\ begun \subseteq Runs /\ torn \subseteq begun
  /\ \A d \in DOMAIN pem : pem[d] \in Runs \cup {None}
  /\ summary \in [Confs -> Runs \cup {None}]
  /\ sweep \in {"idle", "groups", "keys"} /\ listed \subseteq Runs
  /\ faults \in 0..MaxFaults
  /\ \A k \in Confs : pc[k] \in DestroyLocs => Cid(k) # None
  /\ \A k \in Confs : pc[k] \in {"table", "route", "group", "key", "launch", "associate", "connect", "online"}
                       => use[Run(k)].address \in Runs
  /\ \A k \in Confs : summary[k] # None => None \notin {use[summary[k]][x] : x \in DOMAIN Unused}

(* A cloud whose setup has ended and whose destruction has not begun.      *)
Up(r) == r = summary[r[1]] /\ r \notin begun

(* Whatever the other operators, a --clean-all and failing calls do, a     *)
(* cloud that is up stays whole: its machines run behind its security      *)
(* group, in a subnet with a route to the outside, and its manager has the *)
(* public address that the .cid file gives (setup.py step 6 and 7).        *)
UpIsWhole ==
  \A r \in Runs : Up(r) =>
    /\ \A ip \in Ips[r[1]] : inst[r][ip] = "running"
    /\ r \in groups
    /\ use[r].address \in addrs /\ assoc[use[r].address] = r
    /\ home[r] \in subnets /\ rtable[home[r]] \in routed

(* "All resources were correctly torn down" (destroy.py:177) is true when  *)
(* it is printed and stays true: nothing that the .cid file names is left, *)
(* or comes back.                                                          *)
TornDown ==
  \A r \in torn :
    /\ \A ip \in Ips[r[1]] : inst[r][ip] \in {"terminated", "gone"}
    /\ r \notin groups /\ r \notin keys
    /\ use[r].address \notin addrs /\ use[r].subnet \notin subnets

(* A machine that runs, and costs, is one that destroy.py can find in the  *)
(* .cid file, unless its setup is still going on or raised (and then it    *)
(* said so).  Setting up the same file again does not make it forget one.  *)
InstancesAccounted ==
  \A r \in Runs : \A ip \in Ips[r[1]] : inst[r][ip] \in {"pending", "running"} =>
    \/ summary[r[1]] = r
    \/ pc[r[1]] \in SetupLocs /\ r = Run(r[1])
    \/ r \in failed

(* The operator of a cloud that is up, working in a directory of his own,  *)
(* has its private key: a second setup that raises does not replace it.    *)
KeyOnDisk ==
  \A r \in Runs : Up(r) /\ (\A k \in Confs : Dir[k] = Dir[r[1]] => k = r[1])
                    => pem[Dir[r[1]]] = r

(* A released address and a deleted subnet of a cloud may have been taken  *)
(* into use by another one, which then keeps this one from going.          *)
InUseElsewhere(r) ==
  \/ assoc[use[r].address] \notin {None, r}
  \/ \E q \in Runs \ {r} : home[q] = use[r].subnet /\ \E ip \in AllIps : Holding(q, ip)

(* Destroying a cloud again and again ends with all of it gone, wherever   *)
(* the earlier attempts were refused or interrupted, unless another cloud  *)
(* has taken its address or its subnet into use.                           *)
DestroyConverges ==
  \A r \in Runs :
    (Cid(r[1]) = r /\ r \in begun) ~> (r \in torn \/ Cid(r[1]) # r \/ InUseElsewhere(r))

(* What destroy.py:22 says, "destroys an existing POP cloud setup and      *)
(* frees all associated resources", of an operator who retries.            *)
DestroyFrees ==
  \A r \in Runs : (Cid(r[1]) = r /\ r \in begun) ~> (r \in torn \/ Cid(r[1]) # r)
=============================================================================
