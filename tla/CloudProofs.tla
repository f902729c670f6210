---------------------------- MODULE CloudProofs ----------------------------
(***************************************************************************)
(* Proofs about Cloud: whatever the operators, a --clean-all and failing   *)
(* calls do between each other's steps, a cloud that is up stays whole and *)
(* one that was torn down stays so, for any number of definition files,    *)
(* machines and runs.                                                      *)
(***************************************************************************)
EXTENDS Cloud, TLAPS

Kinds == {"vpc", "subnet", "gateway", "address", "table"}

Types ==
  /\ vpcs \subseteq Runs /\ gateways \subseteq Runs /\ subnets \subseteq Runs
  /\ addrs \subseteq Runs /\ groups \subseteq Runs /\ keys \subseteq Runs
  /\ attached \in [Runs -> Runs \cup {None}]
  /\ vpcOf \in [Runs -> Runs \cup {None}]
  /\ rtable \in [Runs -> Runs \cup {None}]
  /\ routed \subseteq vpcs
  /\ assoc \in [Runs -> Runs \cup {None}]
  /\ inst \in [Runs -> [AllIps -> InstStates]]
  /\ home \in [Runs -> Runs \cup {None}]
  /\ pc \in [Confs -> SetupLocs \cup DestroyLocs \cup {"idle"}]
  /\ runs \in [Confs -> 0..MaxRuns]
  /\ use \in [Runs -> [Kinds -> Runs \cup {None}]]
  /\ failed \subseteq Runs /\ begun \subseteq Runs /\ torn \subseteq begun
  /\ pem \in [{Dir[k] : k \in Confs} -> Runs \cup {None}]
  /\ summary \in [Confs -> Runs \cup {None}]
  /\ sweep \in {"idle", "groups", "keys"} /\ listed \subseteq Runs
  /\ faults \in 0..MaxFaults

(* The run that the tool of an operator is about, if it is a setup.        *)
Setting(k)  == pc[k] \in SetupLocs
Current(r)  == Setting(r[1]) /\ r = Run(r[1])
Past(r)     == r[2] <= runs[r[1]] /\ ~Current(r)

(* What is written in a .cid file, or being destroyed, is a past run.      *)
Order(k) ==
  /\ Setting(k) => runs[k] >= 1
  /\ summary[k] # None => summary[k][1] = k /\ Past(summary[k])
  /\ pc[k] \in DestroyLocs => summary[k] # None /\ summary[k] \in begun
PastBegun == \A r \in begun : Past(r)

(* How far a setup is tells what it has got; a run that has not started    *)
(* has nothing, and one in a .cid file has everything.                     *)
AfterVpc     == SetupLocs \ {"vpc", "createVpc"}
AfterSubnet  == AfterVpc \ {"subnet", "createSubnet"}
AfterGateway == AfterSubnet \ {"gateway", "createGateway"}
AfterAddress == AfterGateway \ {"attach", "address", "allocate"}
AfterTable   == AfterAddress \ {"table"}

Progress(k) ==
  Setting(k) =>
    /\ (use[Run(k)]["vpc"] # None) = (pc[k] \in AfterVpc)
    /\ (use[Run(k)]["subnet"] # None) = (pc[k] \in AfterSubnet)
    /\ (use[Run(k)]["gateway"] # None) = (pc[k] \in AfterGateway)
    /\ (use[Run(k)]["address"] # None) = (pc[k] \in AfterAddress)
    /\ (use[Run(k)]["table"] # None) = (pc[k] \in AfterTable)
Fresh(r)    == r[2] > runs[r[1]] => \A x \in Kinds : use[r][x] = None
Complete(k) == summary[k] # None => \A x \in Kinds : use[summary[k]][x] # None

(* A subnet or an address is named by the run that made it, which uses it. *)
Named(r) ==
  /\ r \in subnets \/ (\E q \in Runs : use[q]["subnet"] = r) => use[r]["subnet"] = r
  /\ r \in addrs \/ (\E q \in Runs : use[q]["address"] = r) => use[r]["address"] = r

(* A subnet, and its route table, are of the VPC of the run that made it.  *)
Routed(r) ==
  /\ use[r]["vpc"] \in vpcs \cup {None} /\ use[r]["table"] \in vpcs \cup {None}
  /\ vpcOf[r] # None => vpcOf[r] = use[r]["vpc"]
  /\ r \in subnets => vpcOf[r] # None
  /\ rtable[r] # None => rtable[r] = vpcOf[r]

(* The provider refuses to delete what is in use.                          *)
Kept(r) ==
  /\ \A ip \in AllIps : Holding(r, ip) =>
       r \in groups /\ home[r] \in subnets /\ home[r] = use[r]["subnet"]
  /\ assoc[r] # None => r \in addrs

(* What a setup has achieved stays achieved until it ends.                 *)
Building(k) ==
  /\ pc[k] \in {"associate", "connect", "online", "saveKey", "saveSummary"} =>
       \A ip \in Ips[k] : inst[Run(k)][ip] = "running"
  /\ pc[k] \in {"connect", "online", "saveKey", "saveSummary"} =>
       assoc[use[Run(k)]["address"]] = Run(k)
  /\ pc[k] \in {"saveKey", "saveSummary"} => rtable[home[Run(k)]] \in routed

(* What a destruction has achieved stays achieved.                         *)
Ended(r) == \A ip \in Ips[r[1]] : inst[r][ip] \in {"terminated", "gone"}
Destroying(k) ==
  LET r == summary[k]
  IN  /\ pc[k] \in {"delGroup", "delKey", "findAddress", "release", "delSubnet"} => Ended(r)
      /\ pc[k] \in {"delKey", "findAddress", "release", "delSubnet"} => r \notin groups
      /\ pc[k] \in {"findAddress", "release", "delSubnet"} => r \notin keys
      /\ pc[k] = "delSubnet" => use[r]["address"] \notin addrs

CInv ==
  /\ Types /\ PastBegun
  /\ \A k \in Confs : Order(k) /\ Progress(k) /\ Complete(k)
  /\ \A r \in Runs : Fresh(r) /\ Named(r) /\ Routed(r) /\ Kept(r)
  /\ \A k \in Confs : Building(k) /\ Destroying(k)
  /\ UpIsWhole /\ TornDown

-----------------------------------------------------------------------------
(* The run of a setup is one of Runs, named by its definition file.        *)
LEMMA RunFacts ==
  ASSUME Types, NEW k \in Confs
  PROVE  /\ MaxRuns \in Nat /\ runs[k] \in 0..MaxRuns
         /\ Run(k)[1] = k /\ Run(k)[2] = runs[k]
         /\ runs[k] >= 1 => Run(k) \in Runs
         /\ Order(k) /\ Setting(k) => Run(k) \in Runs /\ Current(Run(k))
         /\ summary[k] # None => summary[k] \in Runs
BY AccountAssumption DEF Types, AccountAssumption, Run, Runs, Order, Current

(* A run is a definition file and a number.                                *)
LEMMA RunsFacts ==
  ASSUME NEW r \in Runs
  PROVE  r[1] \in Confs /\ r[2] \in 1..MaxRuns /\ r = <<r[1], r[2]>>
BY DEF Runs

(* What it means for a run to get one more resource.                       *)
LEMMA GotFacts ==
  ASSUME Types, NEW k \in Confs, Run(k) \in Runs, NEW kind \in Kinds, NEW x \in Runs,
         Got(k, kind, x)
  PROVE  /\ use' \in [Runs -> [Kinds -> Runs \cup {None}]]
         /\ use'[Run(k)][kind] = x
         /\ \A y \in Kinds \ {kind} : use'[Run(k)][y] = use[Run(k)][y]
         /\ \A q \in Runs \ {Run(k)} : use'[q] = use[q]
BY DEF Types, Got

(* One step of the tool that an operator runs.                             *)
Tool(k) ==
  \/ StartSetup(k) \/ SetupStep(k) \/ SetupFails(k)
  \/ StartDestroy(k) \/ DestroyStep(k) \/ DestroyFails(k)

(* Who changes what, but for the files of the operators and the sweep.     *)
Writers ==
  /\ vpcs' # vpcs => \E k \in Confs : CreateVpc(k)
  /\ gateways' # gateways => \E k \in Confs : CreateGateway(k)
  /\ attached' # attached => \E k \in Confs : AttachGateway(k)
  /\ subnets' # subnets => \E k \in Confs : CreateSubnet(k) \/ DeleteSubnet(k)
  /\ vpcOf' # vpcOf => \E k \in Confs : CreateSubnet(k) \/ CreateGroup(k)
  /\ rtable' # rtable => \E k \in Confs : AssociateTable(k)
  /\ routed' # routed => \E k \in Confs : CreateRoute(k)
  /\ addrs' # addrs => \E k \in Confs : AllocateAddress(k) \/ Release(k)
  /\ assoc' # assoc => \/ \E k \in Confs : AssociateAddress(k)
                     \/ \E r \in Runs : \E ip \in Ips[r[1]] : MachineStep(r, ip)
  /\ groups' # groups => \/ \E k \in Confs : CreateGroup(k) \/ DeleteGroup(k)
                       \/ \E r \in Runs : SweepGroup(r)
  /\ keys' # keys => \/ \E k \in Confs : CreateKey(k) \/ DeleteKey(k)
                   \/ \E r \in Runs : SweepKey(r)
  /\ inst' # inst => \/ \E k \in Confs : (\E ip \in Ips[k] : Launch(k, ip)) \/ (\E ip \in Ips[k] : Terminate(k, ip))
                   \/ \E r \in Runs : \E ip \in Ips[r[1]] : MachineStep(r, ip)
  /\ home' # home => \E k \in Confs : (\E ip \in Ips[k] : Launch(k, ip))
  /\ use' # use => \E k \in Confs :
       \/ GetVpc(k) \/ CreateVpc(k) \/ GetSubnet(k)
       \/ CreateSubnet(k) \/ GetGateway(k) \/ CreateGateway(k)
       \/ GetAddress(k) \/ AllocateAddress(k) \/ AssociateTable(k)
  /\ runs' # runs => \E k \in Confs : StartSetup(k)
  /\ pem' # pem => \E k \in Confs : SaveKey(k) \/ DeleteKey(k)
  /\ summary' # summary => \E k \in Confs : SaveSummary(k)
  /\ begun' # begun => \E k \in Confs : StartDestroy(k)
  /\ torn' # torn => \E k \in Confs : DeleteSubnet(k)
  /\ \A k \in Confs : pc'[k] # pc[k] \/ runs'[k] # runs[k] => Tool(k)
  /\ pc' \in [Confs -> SetupLocs \cup DestroyLocs \cup {"idle"}]

(* Every step keeps to that.                                               *)
LEMMA StepWriters ==
  ASSUME Types, [Next]_vars
  PROVE  Writers
<1> USE DEF vars, toolVars, diskVars, setupVars, destroyVars, sweepVars, accountVars, netVars,
        secVars, addrVars, instVars
<1> DEFINE Same(k) == \A j \in Confs \ {k} : pc'[j] = pc[j] /\ runs'[j] = runs[j]
           Typed == pc' \in [Confs -> SetupLocs \cup DestroyLocs \cup {"idle"}]
<1>1. ASSUME NEW k \in Confs, StartSetup(k), UNCHANGED destroyVars PROVE Writers
  <2>1. UNCHANGED <<vpcs, gateways, attached, subnets, vpcOf, rtable, routed, addrs, assoc, groups, keys, inst, home, use, pem, summary, begun, torn>>
    BY <1>1 DEF StartSetup
  <2>2. Same(k) /\ Typed
    BY <1>1 DEF StartSetup, Goto, Types, SetupLocs, DestroyLocs
  <2>3. Tool(k)
    BY <1>1 DEF Tool
  <2> QED BY <1>1, <2>1, <2>2, <2>3 DEF Writers
<1>2. ASSUME NEW k \in Confs, GetVpc(k), UNCHANGED destroyVars PROVE Writers
  <2>1. UNCHANGED <<vpcs, gateways, attached, subnets, vpcOf, rtable, routed, addrs, assoc, groups, keys, inst, home, runs, pem, summary, begun, torn>>
    BY <1>2 DEF GetVpc, SetupRaises
  <2>2. Same(k) /\ Typed
    BY <1>2 DEF GetVpc, SetupRaises, Goto, Types, SetupLocs, DestroyLocs
  <2>3. Tool(k)
    BY <1>2 DEF Tool, SetupStep
  <2> QED BY <1>2, <2>1, <2>2, <2>3 DEF Writers
<1>3. ASSUME NEW k \in Confs, CreateVpc(k), UNCHANGED destroyVars PROVE Writers
  <2>1. UNCHANGED <<gateways, attached, subnets, vpcOf, rtable, routed, addrs, assoc, groups, keys, inst, home, runs, pem, summary, begun, torn>>
    BY <1>3 DEF CreateVpc
  <2>2. Same(k) /\ Typed
    BY <1>3 DEF CreateVpc, Goto, Types, SetupLocs, DestroyLocs
  <2>3. Tool(k)
    BY <1>3 DEF Tool, SetupStep
  <2> QED BY <1>3, <2>1, <2>2, <2>3 DEF Writers
<1>4. ASSUME NEW k \in Confs, GetSubnet(k), UNCHANGED destroyVars PROVE Writers
  <2>1. UNCHANGED <<vpcs, gateways, attached, subnets, vpcOf, rtable, routed, addrs, assoc, groups, keys, inst, home, runs, pem, summary, begun, torn>>
    BY <1>4 DEF GetSubnet
  <2>2. Same(k) /\ Typed
    BY <1>4 DEF GetSubnet, Goto, Types, SetupLocs, DestroyLocs
  <2>3. Tool(k)
    BY <1>4 DEF Tool, SetupStep
  <2> QED BY <1>4, <2>1, <2>2, <2>3 DEF Writers
<1>5. ASSUME NEW k \in Confs, CreateSubnet(k), UNCHANGED destroyVars PROVE Writers
  <2>1. UNCHANGED <<vpcs, gateways, attached, rtable, routed, addrs, assoc, groups, keys, inst, home, runs, pem, summary, begun, torn>>
    BY <1>5 DEF CreateSubnet, SetupRaises
  <2>2. Same(k) /\ Typed
    BY <1>5 DEF CreateSubnet, SetupRaises, Goto, Types, SetupLocs, DestroyLocs
  <2>3. Tool(k)
    BY <1>5 DEF Tool, SetupStep
  <2> QED BY <1>5, <2>1, <2>2, <2>3 DEF Writers
<1>6. ASSUME NEW k \in Confs, GetGateway(k), UNCHANGED destroyVars PROVE Writers
  <2>1. UNCHANGED <<vpcs, gateways, attached, subnets, vpcOf, rtable, routed, addrs, assoc, groups, keys, inst, home, runs, pem, summary, begun, torn>>
    BY <1>6 DEF GetGateway
  <2>2. Same(k) /\ Typed
    BY <1>6 DEF GetGateway, Goto, Types, SetupLocs, DestroyLocs
  <2>3. Tool(k)
    BY <1>6 DEF Tool, SetupStep
  <2> QED BY <1>6, <2>1, <2>2, <2>3 DEF Writers
<1>7. ASSUME NEW k \in Confs, CreateGateway(k), UNCHANGED destroyVars PROVE Writers
  <2>1. UNCHANGED <<vpcs, attached, subnets, vpcOf, rtable, routed, addrs, assoc, groups, keys, inst, home, runs, pem, summary, begun, torn>>
    BY <1>7 DEF CreateGateway
  <2>2. Same(k) /\ Typed
    BY <1>7 DEF CreateGateway, Goto, Types, SetupLocs, DestroyLocs
  <2>3. Tool(k)
    BY <1>7 DEF Tool, SetupStep
  <2> QED BY <1>7, <2>1, <2>2, <2>3 DEF Writers
<1>8. ASSUME NEW k \in Confs, AttachGateway(k), UNCHANGED destroyVars PROVE Writers
  <2>1. UNCHANGED <<vpcs, gateways, subnets, vpcOf, rtable, routed, addrs, assoc, groups, keys, inst, home, use, runs, pem, summary, begun, torn>>
    BY <1>8 DEF AttachGateway, SetupRaises
  <2>2. Same(k) /\ Typed
    BY <1>8 DEF AttachGateway, SetupRaises, Goto, Types, SetupLocs, DestroyLocs
  <2>3. Tool(k)
    BY <1>8 DEF Tool, SetupStep
  <2> QED BY <1>8, <2>1, <2>2, <2>3 DEF Writers
<1>9. ASSUME NEW k \in Confs, GetAddress(k), UNCHANGED destroyVars PROVE Writers
  <2>1. UNCHANGED <<vpcs, gateways, attached, subnets, vpcOf, rtable, routed, addrs, assoc, groups, keys, inst, home, runs, pem, summary, begun, torn>>
    BY <1>9 DEF GetAddress
  <2>2. Same(k) /\ Typed
    BY <1>9 DEF GetAddress, Goto, Types, SetupLocs, DestroyLocs
  <2>3. Tool(k)
    BY <1>9 DEF Tool, SetupStep
  <2> QED BY <1>9, <2>1, <2>2, <2>3 DEF Writers
<1>10. ASSUME NEW k \in Confs, AllocateAddress(k), UNCHANGED destroyVars PROVE Writers
  <2>1. UNCHANGED <<vpcs, gateways, attached, subnets, vpcOf, rtable, routed, assoc, groups, keys, inst, home, runs, pem, summary, begun, torn>>
    BY <1>10 DEF AllocateAddress
  <2>2. Same(k) /\ Typed
    BY <1>10 DEF AllocateAddress, Goto, Types, SetupLocs, DestroyLocs
  <2>3. Tool(k)
    BY <1>10 DEF Tool, SetupStep
  <2> QED BY <1>10, <2>1, <2>2, <2>3 DEF Writers
<1>11. ASSUME NEW k \in Confs, AssociateTable(k), UNCHANGED destroyVars PROVE Writers
  <2>1. UNCHANGED <<vpcs, gateways, attached, subnets, vpcOf, routed, addrs, assoc, groups, keys, inst, home, runs, pem, summary, begun, torn>>
    BY <1>11 DEF AssociateTable, SetupRaises
  <2>2. Same(k) /\ Typed
    BY <1>11 DEF AssociateTable, SetupRaises, Goto, Types, SetupLocs, DestroyLocs
  <2>3. Tool(k)
    BY <1>11 DEF Tool, SetupStep
  <2> QED BY <1>11, <2>1, <2>2, <2>3 DEF Writers
<1>12. ASSUME NEW k \in Confs, CreateRoute(k), UNCHANGED destroyVars PROVE Writers
  <2>1. UNCHANGED <<vpcs, gateways, attached, subnets, vpcOf, rtable, addrs, assoc, groups, keys, inst, home, use, runs, pem, summary, begun, torn>>
    BY <1>12 DEF CreateRoute, SetupRaises
  <2>2. Same(k) /\ Typed
    BY <1>12 DEF CreateRoute, SetupRaises, Goto, Types, SetupLocs, DestroyLocs
  <2>3. Tool(k)
    BY <1>12 DEF Tool, SetupStep
  <2> QED BY <1>12, <2>1, <2>2, <2>3 DEF Writers
<1>13. ASSUME NEW k \in Confs, CreateGroup(k), UNCHANGED destroyVars PROVE Writers
  <2>1. UNCHANGED <<vpcs, gateways, attached, subnets, rtable, routed, addrs, assoc, keys, inst, home, use, runs, pem, summary, begun, torn>>
    BY <1>13 DEF CreateGroup
  <2>2. Same(k) /\ Typed
    BY <1>13 DEF CreateGroup, Goto, Types, SetupLocs, DestroyLocs
  <2>3. Tool(k)
    BY <1>13 DEF Tool, SetupStep
  <2> QED BY <1>13, <2>1, <2>2, <2>3 DEF Writers
<1>14. ASSUME NEW k \in Confs, CreateKey(k), UNCHANGED destroyVars PROVE Writers
  <2>1. UNCHANGED <<vpcs, gateways, attached, subnets, vpcOf, rtable, routed, addrs, assoc, groups, inst, home, use, runs, pem, summary, begun, torn>>
    BY <1>14 DEF CreateKey
  <2>2. Same(k) /\ Typed
    BY <1>14 DEF CreateKey, Goto, Types, SetupLocs, DestroyLocs
  <2>3. Tool(k)
    BY <1>14 DEF Tool, SetupStep
  <2> QED BY <1>14, <2>1, <2>2, <2>3 DEF Writers
<1>15. ASSUME NEW k \in Confs, NEW ip \in Ips[k], Launch(k, ip), UNCHANGED destroyVars PROVE Writers
  <2>1. UNCHANGED <<vpcs, gateways, attached, subnets, vpcOf, rtable, routed, addrs, assoc, groups, keys, use, runs, pem, summary, begun, torn>>
    BY <1>15 DEF Launch, SetupRaises
  <2>2. Same(k) /\ Typed
    BY <1>15 DEF Launch, SetupRaises, Goto, Types, SetupLocs, DestroyLocs
  <2>3. Tool(k)
    BY <1>15 DEF Tool, SetupStep
  <2> QED BY <1>15, <2>1, <2>2, <2>3 DEF Writers
<1>16. ASSUME NEW k \in Confs, Boot(k), UNCHANGED destroyVars PROVE Writers
  <2>1. UNCHANGED <<vpcs, gateways, attached, subnets, vpcOf, rtable, routed, addrs, assoc, groups, keys, inst, home, use, runs, pem, summary, begun, torn>>
    BY <1>16 DEF Boot
  <2>2. Same(k) /\ Typed
    BY <1>16 DEF Boot, Goto, Types, SetupLocs, DestroyLocs
  <2>3. Tool(k)
    BY <1>16 DEF Tool, SetupStep
  <2> QED BY <1>16, <2>1, <2>2, <2>3 DEF Writers
<1>17. ASSUME NEW k \in Confs, AssociateAddress(k), UNCHANGED destroyVars PROVE Writers
  <2>1. UNCHANGED <<vpcs, gateways, attached, subnets, vpcOf, rtable, routed, addrs, groups, keys, inst, home, use, runs, pem, summary, begun, torn>>
    BY <1>17 DEF AssociateAddress, SetupRaises
  <2>2. Same(k) /\ Typed
    BY <1>17 DEF AssociateAddress, SetupRaises, Goto, Types, SetupLocs, DestroyLocs
  <2>3. Tool(k)
    BY <1>17 DEF Tool, SetupStep
  <2> QED BY <1>17, <2>1, <2>2, <2>3 DEF Writers
<1>18. ASSUME NEW k \in Confs, Connect(k), UNCHANGED destroyVars PROVE Writers
  <2>1. UNCHANGED <<vpcs, gateways, attached, subnets, vpcOf, rtable, routed, addrs, assoc, groups, keys, inst, home, use, runs, pem, summary, begun, torn>>
    BY <1>18 DEF Connect, SetupRaises
  <2>2. Same(k) /\ Typed
    BY <1>18 DEF Connect, SetupRaises, Goto, Types, SetupLocs, DestroyLocs
  <2>3. Tool(k)
    BY <1>18 DEF Tool, SetupStep
  <2> QED BY <1>18, <2>1, <2>2, <2>3 DEF Writers
<1>19. ASSUME NEW k \in Confs, Online(k), UNCHANGED destroyVars PROVE Writers
  <2>1. UNCHANGED <<vpcs, gateways, attached, subnets, vpcOf, rtable, routed, addrs, assoc, groups, keys, inst, home, use, runs, pem, summary, begun, torn>>
    BY <1>19 DEF Online
  <2>2. Same(k) /\ Typed
    BY <1>19 DEF Online, Goto, Types, SetupLocs, DestroyLocs
  <2>3. Tool(k)
    BY <1>19 DEF Tool, SetupStep
  <2> QED BY <1>19, <2>1, <2>2, <2>3 DEF Writers
<1>20. ASSUME NEW k \in Confs, SaveKey(k), UNCHANGED destroyVars PROVE Writers
  <2>1. UNCHANGED <<vpcs, gateways, attached, subnets, vpcOf, rtable, routed, addrs, assoc, groups, keys, inst, home, use, runs, summary, begun, torn>>
    BY <1>20 DEF SaveKey
  <2>2. Same(k) /\ Typed
    BY <1>20 DEF SaveKey, Goto, Types, SetupLocs, DestroyLocs
  <2>3. Tool(k)
    BY <1>20 DEF Tool, SetupStep
  <2> QED BY <1>20, <2>1, <2>2, <2>3 DEF Writers
<1>21. ASSUME NEW k \in Confs, SaveSummary(k), UNCHANGED destroyVars PROVE Writers
  <2>1. UNCHANGED <<vpcs, gateways, attached, subnets, vpcOf, rtable, routed, addrs, assoc, groups, keys, inst, home, use, runs, pem, begun, torn>>
    BY <1>21 DEF SaveSummary
  <2>2. Same(k) /\ Typed
    BY <1>21 DEF SaveSummary, Goto, Types, SetupLocs, DestroyLocs
  <2>3. Tool(k)
    BY <1>21 DEF Tool, SetupStep
  <2> QED BY <1>21, <2>1, <2>2, <2>3 DEF Writers
<1>22. ASSUME NEW k \in Confs, SetupFails(k), UNCHANGED destroyVars PROVE Writers
  <2>1. UNCHANGED <<vpcs, gateways, attached, subnets, vpcOf, rtable, routed, addrs, assoc, groups, keys, inst, home, use, runs, pem, summary, begun, torn>>
    BY <1>22 DEF SetupFails, SetupRaises
  <2>2. Same(k) /\ Typed
    BY <1>22 DEF SetupFails, SetupRaises, Goto, Types, SetupLocs, DestroyLocs
  <2>3. Tool(k)
    BY <1>22 DEF Tool
  <2> QED BY <1>22, <2>1, <2>2, <2>3 DEF Writers
<1>23. ASSUME NEW k \in Confs, StartDestroy(k) PROVE Writers
  <2>1. UNCHANGED <<vpcs, gateways, attached, subnets, vpcOf, rtable, routed, addrs, assoc, groups, keys, inst, home, use, runs, pem, summary, torn>>
    BY <1>23 DEF StartDestroy
  <2>2. Same(k) /\ Typed
    BY <1>23 DEF StartDestroy, Goto, Types, SetupLocs, DestroyLocs
  <2>3. Tool(k)
    BY <1>23 DEF Tool
  <2> QED BY <1>23, <2>1, <2>2, <2>3 DEF Writers
<1>24. ASSUME NEW k \in Confs, NEW ip \in Ips[k], Terminate(k, ip) PROVE Writers
  <2>1. UNCHANGED <<vpcs, gateways, attached, subnets, vpcOf, rtable, routed, addrs, assoc, groups, keys, home, use, runs, pem, summary, begun, torn>>
    BY <1>24 DEF Terminate
  <2>2. Same(k) /\ Typed
    BY <1>24 DEF Terminate, Types
  <2>3. Tool(k)
    BY <1>24 DEF Tool, DestroyStep
  <2> QED BY <1>24, <2>1, <2>2, <2>3 DEF Writers
<1>25. ASSUME NEW k \in Confs, AwaitTerminated(k) PROVE Writers
  <2>1. UNCHANGED <<vpcs, gateways, attached, subnets, vpcOf, rtable, routed, addrs, assoc, groups, keys, inst, home, use, runs, pem, summary, begun, torn>>
    BY <1>25 DEF AwaitTerminated
  <2>2. Same(k) /\ Typed
    BY <1>25 DEF AwaitTerminated, Goto, Types, SetupLocs, DestroyLocs
  <2>3. Tool(k)
    BY <1>25 DEF Tool, DestroyStep
  <2> QED BY <1>25, <2>1, <2>2, <2>3 DEF Writers
<1>26. ASSUME NEW k \in Confs, DeleteGroup(k) PROVE Writers
  <2>1. UNCHANGED <<vpcs, gateways, attached, subnets, vpcOf, rtable, routed, addrs, assoc, keys, inst, home, use, runs, pem, summary, begun, torn>>
    BY <1>26 DEF DeleteGroup, DestroyRaises
  <2>2. Same(k) /\ Typed
    BY <1>26 DEF DeleteGroup, DestroyRaises, Goto, Types, SetupLocs, DestroyLocs
  <2>3. Tool(k)
    BY <1>26 DEF Tool, DestroyStep
  <2> QED BY <1>26, <2>1, <2>2, <2>3 DEF Writers
<1>27. ASSUME NEW k \in Confs, DeleteKey(k) PROVE Writers
  <2>1. UNCHANGED <<vpcs, gateways, attached, subnets, vpcOf, rtable, routed, addrs, assoc, groups, inst, home, use, runs, summary, begun, torn>>
    BY <1>27 DEF DeleteKey
  <2>2. Same(k) /\ Typed
    BY <1>27 DEF DeleteKey, Goto, Types, SetupLocs, DestroyLocs
  <2>3. Tool(k)
    BY <1>27 DEF Tool, DestroyStep
  <2> QED BY <1>27, <2>1, <2>2, <2>3 DEF Writers
<1>28. ASSUME NEW k \in Confs, FindAddress(k) PROVE Writers
  <2>1. UNCHANGED <<vpcs, gateways, attached, subnets, vpcOf, rtable, routed, addrs, assoc, groups, keys, inst, home, use, runs, pem, summary, begun, torn>>
    BY <1>28 DEF FindAddress
  <2>2. Same(k) /\ Typed
    BY <1>28 DEF FindAddress, Goto, Types, SetupLocs, DestroyLocs
  <2>3. Tool(k)
    BY <1>28 DEF Tool, DestroyStep
  <2> QED BY <1>28, <2>1, <2>2, <2>3 DEF Writers
<1>29. ASSUME NEW k \in Confs, Release(k) PROVE Writers
  <2>1. UNCHANGED <<vpcs, gateways, attached, subnets, vpcOf, rtable, routed, assoc, groups, keys, inst, home, use, runs, pem, summary, begun, torn>>
    BY <1>29 DEF Release, DestroyRaises
  <2>2. Same(k) /\ Typed
    BY <1>29 DEF Release, DestroyRaises, Goto, Types, SetupLocs, DestroyLocs
  <2>3. Tool(k)
    BY <1>29 DEF Tool, DestroyStep
  <2> QED BY <1>29, <2>1, <2>2, <2>3 DEF Writers
<1>30. ASSUME NEW k \in Confs, DeleteSubnet(k) PROVE Writers
  <2>1. UNCHANGED <<vpcs, gateways, attached, vpcOf, rtable, routed, addrs, assoc, groups, keys, inst, home, use, runs, pem, summary, begun>>
    BY <1>30 DEF DeleteSubnet, DestroyRaises
  <2>2. Same(k) /\ Typed
    BY <1>30 DEF DeleteSubnet, DestroyRaises, Goto, Types, SetupLocs, DestroyLocs
  <2>3. Tool(k)
    BY <1>30 DEF Tool, DestroyStep
  <2> QED BY <1>30, <2>1, <2>2, <2>3 DEF Writers
<1>31. ASSUME NEW k \in Confs, DestroyFails(k) PROVE Writers
  <2>1. UNCHANGED <<vpcs, gateways, attached, subnets, vpcOf, rtable, routed, addrs, assoc, groups, keys, inst, home, use, runs, pem, summary, begun, torn>>
    BY <1>31 DEF DestroyFails, DestroyRaises
  <2>2. Same(k) /\ Typed
    BY <1>31 DEF DestroyFails, DestroyRaises, Goto, Types, SetupLocs, DestroyLocs
  <2>3. Tool(k)
    BY <1>31 DEF Tool
  <2> QED BY <1>31, <2>1, <2>2, <2>3 DEF Writers
<1>32. ASSUME NEW r \in Runs, NEW ip \in Ips[r[1]], MachineStep(r, ip), UNCHANGED <<toolVars, destroyVars>>
      PROVE  Writers
  BY <1>32 DEF MachineStep, Writers, Types
<1>33. ASSUME SweepStep PROVE Writers
  <2>1. CASE ListGroups \/ ListKeys \/ SweepEnds
    BY <2>1 DEF ListGroups, ListKeys, SweepEnds, Writers, Types
  <2>2. ASSUME NEW r \in Runs, SweepGroup(r) PROVE Writers
    <3>1. UNCHANGED <<vpcs, gateways, attached, subnets, vpcOf, rtable, routed, addrs, assoc, keys, inst, home, use, runs, pem, summary, begun, torn, pc>>
      BY <2>2 DEF SweepGroup
    <3> QED BY <2>2, <3>1 DEF Writers, Types
  <2>3. ASSUME NEW r \in Runs, SweepKey(r) PROVE Writers
    <3>1. UNCHANGED <<vpcs, gateways, attached, subnets, vpcOf, rtable, routed, addrs, assoc, groups, inst, home, use, runs, pem, summary, begun, torn, pc>>
      BY <2>3 DEF SweepKey
    <3> QED BY <2>3, <3>1 DEF Writers, Types
  <2> QED BY <1>33, <2>1, <2>2, <2>3 DEF SweepStep
<1>34. CASE UNCHANGED vars
  BY <1>34 DEF Writers, Types
<1>35. ASSUME NEW k \in Confs, Setup(k) PROVE Writers
  BY <1>35, <1>1, <1>2, <1>3, <1>4, <1>5, <1>6, <1>7, <1>8, <1>9, <1>10, <1>11, <1>12, <1>13, <1>14, <1>15, <1>16, <1>17, <1>18, <1>19, <1>20, <1>21 DEF Setup, SetupStep
<1>36. ASSUME NEW k \in Confs, Start(k) \/ Destroy(k) \/ Fault(k) PROVE Writers
  BY <1>36, <1>22, <1>23, <1>24, <1>25, <1>26, <1>27, <1>28, <1>29, <1>30, <1>31 DEF Start, Destroy, DestroyStep, Fault
<1> QED BY <1>32, <1>33, <1>34, <1>35, <1>36 DEF Next, Machine, CleanAll

-----------------------------------------------------------------------------
(* What the writers do.                                                    *)

(* A run gets what exists, or what it makes, once, and only while it is    *)
(* the current one of its definition.                                      *)
Gets(r, y) ==
  /\ Current(r) /\ use[r][y] = None /\ use'[r][y] \in Runs
  /\ y \in {"vpc", "table"} => use'[r][y] \in vpcs'
  /\ y = "subnet" => use'[r][y] \in subnets \cup {r}
  /\ y = "address" => use'[r][y] \in addrs \cup {r}

Found(k, y, x) ==
  /\ Got(k, y, x) /\ Setting(k) /\ use[Run(k)][y] = None /\ x \in Runs
  /\ y \in {"vpc", "table"} => x \in vpcs'
  /\ y = "subnet" => x \in subnets \cup {Run(k)}
  /\ y = "address" => x \in addrs \cup {Run(k)}

(* The records of what the runs have got change in no other way.           *)
LEMMA UseMoves ==
  ASSUME CInv, Writers
  PROVE  /\ use' \in [Runs -> [Kinds -> Runs \cup {None}]]
         /\ \A r \in Runs : \A y \in Kinds : use'[r][y] = use[r][y] \/ Gets(r, y)
<1> USE DEF CInv
<1>1. ASSUME NEW k \in Confs, NEW y \in Kinds, NEW x \in Runs, Found(k, y, x)
      PROVE  /\ use' \in [Runs -> [Kinds -> Runs \cup {None}]]
             /\ \A r \in Runs : \A z \in Kinds : use'[r][z] = use[r][z] \/ Gets(r, z)
  <2>1. Run(k) \in Runs /\ Current(Run(k))
    BY <1>1, RunFacts DEF Found
  <2> QED BY <1>1, <2>1, GotFacts DEF Found, Gets
<1> SUFFICES ASSUME use' # use
             PROVE  \E k \in Confs, y \in Kinds, x \in Runs : Found(k, y, x)
  BY <1>1 DEF Types
<1> PICK k \in Confs :
      \/ GetVpc(k) \/ CreateVpc(k) \/ GetSubnet(k) \/ CreateSubnet(k) \/ GetGateway(k)
      \/ CreateGateway(k) \/ GetAddress(k) \/ AllocateAddress(k) \/ AssociateTable(k)
  BY DEF Writers
<1> USE DEF At, Setting, SetupLocs, accountVars, netVars
<1>2. Setting(k) /\ Run(k) \in Runs
  <2>1. Setting(k)
    BY DEF GetVpc, CreateVpc, GetSubnet, CreateSubnet, GetGateway, CreateGateway,
           GetAddress, AllocateAddress, AssociateTable
  <2> QED BY <2>1, RunFacts
<1>3. Progress(k) /\ Types
  OBVIOUS
<1>4. CASE GetVpc(k)
  <2>1. PICK v \in vpcs : Got(k, "vpc", v) /\ vpcs' = vpcs
    BY <1>4 DEF GetVpc, SetupRaises
  <2>2. Found(k, "vpc", v)
    BY <1>2, <1>3, <1>4, <2>1 DEF Found, GetVpc, Progress, AfterVpc, Types
  <2> QED BY <2>1, <2>2, <1>3 DEF Kinds, Types
<1>5. CASE CreateVpc(k)
  <2>1. Found(k, "vpc", Run(k))
    BY <1>2, <1>3, <1>5 DEF Found, CreateVpc, Progress, AfterVpc
  <2> QED BY <2>1, <1>2 DEF Kinds
<1>6. CASE GetSubnet(k)
  <2>1. PICK s \in subnets : Got(k, "subnet", s)
    BY <1>6 DEF GetSubnet
  <2>2. Found(k, "subnet", s)
    BY <1>2, <1>3, <1>6, <2>1 DEF Found, GetSubnet, Progress, AfterVpc, AfterSubnet, Types
  <2> QED BY <2>1, <2>2, <1>3 DEF Kinds, Types
<1>7. CASE CreateSubnet(k)
  <2>1. Got(k, "subnet", Run(k))
    BY <1>7 DEF CreateSubnet, SetupRaises
  <2>2. Found(k, "subnet", Run(k))
    BY <1>2, <1>3, <1>7, <2>1 DEF Found, CreateSubnet, Progress, AfterVpc, AfterSubnet
  <2> QED BY <2>2, <1>2 DEF Kinds
<1>8. CASE GetGateway(k)
  <2>1. PICK g \in gateways : Got(k, "gateway", g)
    BY <1>8 DEF GetGateway
  <2>2. Found(k, "gateway", g)
    BY <1>2, <1>3, <1>8, <2>1
    DEF Found, GetGateway, Progress, AfterVpc, AfterSubnet, AfterGateway, Types
  <2> QED BY <2>1, <2>2, <1>3 DEF Kinds, Types
<1>9. CASE CreateGateway(k)
  <2>1. Found(k, "gateway", Run(k))
    BY <1>2, <1>3, <1>9
    DEF Found, CreateGateway, Progress, AfterVpc, AfterSubnet, AfterGateway
  <2> QED BY <2>1, <1>2 DEF Kinds
<1>10. CASE GetAddress(k)
  <2>1. PICK a \in addrs : Got(k, "address", a)
    BY <1>10 DEF GetAddress
  <2>2. Found(k, "address", a)
    BY <1>2, <1>3, <1>10, <2>1
    DEF Found, GetAddress, Progress, AfterVpc, AfterSubnet, AfterGateway, AfterAddress, Types
  <2> QED BY <2>1, <2>2, <1>3 DEF Kinds, Types
<1>11. CASE AllocateAddress(k)
  <2>1. Found(k, "address", Run(k))
    BY <1>2, <1>3, <1>11
    DEF Found, AllocateAddress, Progress, AfterVpc, AfterSubnet, AfterGateway, AfterAddress
  <2> QED BY <2>1, <1>2 DEF Kinds
<1>12. CASE AssociateTable(k)
  <2>1. PICK t \in vpcs : Got(k, "table", t) /\ vpcs' = vpcs
    BY <1>12 DEF AssociateTable, SetupRaises
  <2>2. Found(k, "table", t)
    BY <1>2, <1>3, <1>12, <2>1
    DEF Found, AssociateTable, Progress, AfterVpc, AfterSubnet, AfterGateway, AfterAddress,
        AfterTable, Types
  <2> QED BY <2>1, <2>2, <1>3 DEF Kinds, Types
<1> QED BY <1>4, <1>5, <1>6, <1>7, <1>8, <1>9, <1>10, <1>11, <1>12

(* What the run of a past setup has got does not change.                   *)
LEMMA UseKept ==
  ASSUME CInv, Writers, NEW r \in Runs
  PROVE  /\ ~Current(r) => use'[r] = use[r]
         /\ \A y \in Kinds : use[r][y] # None => use'[r][y] = use[r][y]
<1>1. \A y \in Kinds : use'[r][y] = use[r][y] \/ Gets(r, y)
  BY UseMoves
<1>2. use'[r] \in [Kinds -> Runs \cup {None}] /\ use[r] \in [Kinds -> Runs \cup {None}]
  BY UseMoves DEF CInv, Types
<1> QED BY <1>1, <1>2 DEF Gets

(* Machines are launched by the current run, behind its group and in its   *)
(* subnet, and ended by the destruction of a run that has begun.           *)
Launched(r) ==
  /\ Current(r) /\ pc[r[1]] = "launch"
  /\ home'[r] = use[r]["subnet"] /\ use[r]["subnet"] \in subnets' /\ r \in groups'

(* What happens to a machine, and to the subnet of a run.                  *)
LEMMA MachineMoves ==
  ASSUME CInv, Writers
  PROVE  /\ inst' \in [Runs -> [AllIps -> InstStates]]
         /\ home' \in [Runs -> Runs \cup {None}]
         /\ \A r \in Runs : \A ip \in AllIps :
              \/ inst'[r][ip] = inst[r][ip]
              \/ inst[r][ip] = "none" /\ inst'[r][ip] = "pending" /\ Launched(r)
              \/ inst[r][ip] = "pending" /\ inst'[r][ip] = "running"
              \/ /\ inst[r][ip] \in {"pending", "running"} /\ inst'[r][ip] = "shutting-down"
                 /\ r \in begun /\ r = summary[r[1]] /\ pc[r[1]] = "terminate"
              \/ inst[r][ip] = "shutting-down" /\ inst'[r][ip] = "terminated"
              \/ inst[r][ip] = "terminated" /\ inst'[r][ip] = "gone"
         /\ \A r \in Runs : home'[r] # home[r] => Launched(r)
<1> USE DEF CInv, Types, InstStates
<1>1. ASSUME NEW k \in Confs, NEW ip \in Ips[k], Launch(k, ip), inst' # inst \/ home' # home
      PROVE  /\ Run(k) \in Runs /\ Current(Run(k)) /\ Run(k)[1] = k /\ ip \in AllIps
             /\ At(k, "launch") /\ inst[Run(k)][ip] = "none"
             /\ inst' = [inst EXCEPT ![Run(k)][ip] = "pending"]
             /\ home' = [home EXCEPT ![Run(k)] = use[Run(k)].subnet]
             /\ CanLaunch(Run(k), use[Run(k)].subnet, ip)
             /\ subnets' = subnets /\ groups' = groups
  <2>1. Run(k) \in Runs /\ Current(Run(k)) /\ Run(k)[1] = k
    BY <1>1, RunFacts DEF Launch, At, Setting, SetupLocs
  <2>2. ip \in AllIps
    BY <1>1 DEF AllIps
  <2> QED BY <1>1, <2>1, <2>2
          DEF Launch, SetupRaises, accountVars, netVars, secVars, instVars
<1>2. ASSUME NEW k \in Confs, NEW ip \in Ips[k], Terminate(k, ip)
      PROVE  /\ Cid(k) \in Runs /\ Cid(k) \in begun /\ Cid(k)[1] = k /\ pc[k] = "terminate"
             /\ ip \in AllIps /\ inst[Cid(k)][ip] \in {"pending", "running"}
             /\ inst' = [inst EXCEPT ![Cid(k)][ip] = "shutting-down"] /\ home' = home
  BY <1>2, RunFacts DEF Terminate, At, Order, DestroyLocs, Cid, AllIps
<1>3. CASE inst' = inst /\ home' = home
  BY <1>3
<1>4. ASSUME NEW k \in Confs, NEW ip \in Ips[k], Launch(k, ip), inst' # inst \/ home' # home
      PROVE  /\ inst' \in [Runs -> [AllIps -> InstStates]]
             /\ home' \in [Runs -> Runs \cup {None}]
             /\ \A r \in Runs : \A jp \in AllIps :
                  \/ inst'[r][jp] = inst[r][jp]
                  \/ inst[r][jp] = "none" /\ inst'[r][jp] = "pending" /\ Launched(r)
             /\ \A r \in Runs : home'[r] # home[r] => Launched(r)
  <2> DEFINE q == Run(k)
             s == use[Run(k)]["subnet"]
  <2>1. /\ q \in Runs /\ Current(q) /\ q[1] = k /\ ip \in AllIps /\ pc[k] = "launch"
        /\ inst[q][ip] = "none" /\ inst' = [inst EXCEPT ![q][ip] = "pending"]
        /\ home' = [home EXCEPT ![q] = s]
        /\ s \in subnets' /\ s \in Runs /\ q \in groups'
    BY <1>1, <1>4 DEF CanLaunch, At
  <2>2. Launched(q)
    BY <2>1 DEF Launched
  <2> HIDE DEF q, s
  <2>3. inst' \in [Runs -> [AllIps -> InstStates]]
    <3>1. [inst[q] EXCEPT ![ip] = "pending"] \in [AllIps -> InstStates]
      BY <2>1
    <3> QED BY <2>1, <3>1
  <2>5. ASSUME NEW r \in Runs, NEW jp \in AllIps
        PROVE  inst'[r][jp] = inst[r][jp] \/ (r = q /\ jp = ip /\ inst'[r][jp] = "pending")
    BY <2>1, <2>5
  <2>4. home' \in [Runs -> Runs \cup {None}] /\ \A r \in Runs \ {q} : home'[r] = home[r]
    BY <2>1
  <2> QED BY <2>1, <2>2, <2>3, <2>4, <2>5
<1>5. ASSUME NEW r \in Runs, NEW ip \in Ips[r[1]], MachineStep(r, ip)
      PROVE  /\ inst' \in [Runs -> [AllIps -> InstStates]] /\ home' = home
             /\ \A q \in Runs : \A jp \in AllIps :
                  \/ inst'[q][jp] = inst[q][jp]
                  \/ inst[q][jp] = "pending" /\ inst'[q][jp] = "running"
                  \/ inst[q][jp] = "shutting-down" /\ inst'[q][jp] = "terminated"
                  \/ inst[q][jp] = "terminated" /\ inst'[q][jp] = "gone"
  <2>1. ip \in AllIps
    BY RunsFacts DEF AllIps
  <2> QED BY <1>5, <2>1 DEF MachineStep
<1>6. home' # home => \E k \in Confs : \E ip \in Ips[k] : Launch(k, ip)
  BY DEF Writers
<1>7. inst' # inst =>
        \/ \E k \in Confs : \E ip \in Ips[k] : Launch(k, ip) \/ Terminate(k, ip)
        \/ \E r \in Runs : \E ip \in Ips[r[1]] : MachineStep(r, ip)
  BY DEF Writers
<1>8. CASE \E k \in Confs : \E ip \in Ips[k] : Launch(k, ip) /\ (inst' # inst \/ home' # home)
  BY <1>4, <1>8
<1>9. ASSUME NEW k \in Confs, NEW ip \in Ips[k], Terminate(k, ip)
      PROVE  /\ inst' \in [Runs -> [AllIps -> InstStates]] /\ home' = home
             /\ \A r \in Runs : \A jp \in AllIps :
                  \/ inst'[r][jp] = inst[r][jp]
                  \/ /\ inst[r][jp] \in {"pending", "running"} /\ inst'[r][jp] = "shutting-down"
                     /\ r \in begun /\ r = summary[r[1]] /\ pc[r[1]] = "terminate"
  <2>1. PICK q \in Runs : q = Cid(k)
    BY <1>2, <1>9
  <2>2. /\ q \in begun /\ q[1] = k /\ pc[k] = "terminate" /\ summary[k] = q
        /\ ip \in AllIps /\ inst[q][ip] \in {"pending", "running"}
        /\ inst' = [inst EXCEPT ![q][ip] = "shutting-down"] /\ home' = home
    BY <1>2, <1>9, <2>1 DEF Cid
  <2> QED BY <2>2
<1>10. CASE \E r \in Runs : \E ip \in Ips[r[1]] : MachineStep(r, ip)
  BY <1>5, <1>10
<1> QED BY <1>3, <1>6, <1>7, <1>8, <1>9, <1>10

(* Of the network, only a subnet that no machine is in is deleted; what    *)
(* subnets, groups and route tables belong to follows the run's VPC.       *)
LEMMA NetMoves ==
  ASSUME CInv, Writers
  PROVE  /\ vpcs \subseteq vpcs' /\ routed \subseteq routed' /\ vpcs' \subseteq Runs
         /\ routed' \subseteq vpcs' /\ gateways' \subseteq Runs /\ subnets' \subseteq Runs
         /\ attached' \in [Runs -> Runs \cup {None}] /\ vpcOf' \in [Runs -> Runs \cup {None}]
         /\ rtable' \in [Runs -> Runs \cup {None}]
         /\ \A s \in subnets' \ subnets :
              /\ Current(s) /\ use[s]["subnet"] = None /\ use'[s]["subnet"] = s
              /\ use[s]["vpc"] # None /\ vpcOf'[s] = use[s]["vpc"]
         /\ \A s \in subnets \ subnets' : ~SubnetInUse(s)
         /\ \A r \in Runs :
              /\ vpcOf'[r] = vpcOf[r] \/ (use[r]["vpc"] # None /\ vpcOf'[r] = use[r]["vpc"])
              /\ rtable'[r] = rtable[r] \/ (r \in subnets /\ rtable'[r] = vpcOf[r])
<1>1. \A k \in Confs : Setting(k) => Run(k) \in Runs /\ Current(Run(k)) /\ Run(k)[1] = k
  BY RunFacts DEF CInv
<1>2. Types /\ \A k \in Confs : Progress(k)
  BY DEF CInv
<1> HIDE DEF CInv
<1> USE DEF At, Setting, SetupLocs, Progress, AfterVpc, AfterSubnet, AfterGateway, AfterAddress,
            AfterTable, accountVars, netVars
<1>3. vpcs \subseteq vpcs' /\ vpcs' \subseteq Runs
  BY <1>1, <1>2 DEF Writers, CreateVpc, Types
<1>4. routed \subseteq routed' /\ routed' \subseteq vpcs'
  <2>1. CASE routed' = routed
    BY <1>2, <1>3, <2>1 DEF Types
  <2>2. ASSUME NEW k \in Confs, CreateRoute(k), routed' # routed PROVE routed' = routed \cup {use[Run(k)]["table"]}
    BY <2>2 DEF CreateRoute, SetupRaises
  <2>3. ASSUME NEW k \in Confs, CreateRoute(k) PROVE use[Run(k)]["table"] \in vpcs
    <3>1. Run(k) \in Runs /\ use[Run(k)]["table"] # None
      BY <1>1, <1>2, <2>3 DEF CreateRoute
    <3> QED BY <3>1 DEF CInv, Routed
  <2> QED BY <1>2, <1>3, <2>1, <2>2, <2>3 DEF Types, Writers
<1>5. gateways' \subseteq Runs
  BY <1>1, <1>2 DEF Writers, CreateGateway, Types
<1>6. attached' \in [Runs -> Runs \cup {None}]
  <2>1. CASE attached' = attached
    BY <1>2, <2>1 DEF Types
  <2>2. ASSUME NEW k \in Confs, AttachGateway(k), attached' # attached
        PROVE  attached' = [attached EXCEPT ![use[Run(k)]["gateway"]] = use[Run(k)]["vpc"]]
    BY <2>2 DEF AttachGateway, SetupRaises
  <2>3. ASSUME NEW k \in Confs, AttachGateway(k)
        PROVE  use[Run(k)]["vpc"] \in Runs
    <3>1. Run(k) \in Runs /\ use[Run(k)]["vpc"] # None
      BY <1>1, <1>2, <2>3 DEF AttachGateway
    <3> QED BY <3>1, <1>2 DEF Types, Kinds
  <2>4. CASE attached' # attached
    <3> PICK k \in Confs : AttachGateway(k)
      BY <2>4 DEF Writers
    <3>1. PICK v \in Runs : \E g : attached' = [attached EXCEPT ![g] = v]
      BY <2>2, <2>3, <2>4
    <3> QED BY <1>2, <3>1 DEF Types
  <2> QED BY <2>1, <2>4
<1>7. \A k \in Confs : CreateSubnet(k) /\ subnets' # subnets =>
         /\ Run(k) \in Runs /\ Current(Run(k)) /\ subnets' = subnets \cup {Run(k)}
         /\ use[Run(k)]["subnet"] = None /\ use'[Run(k)]["subnet"] = Run(k)
         /\ use[Run(k)]["vpc"] # None
         /\ vpcOf' = [vpcOf EXCEPT ![Run(k)] = use[Run(k)]["vpc"]]
  <2> TAKE k \in Confs
  <2> HAVE CreateSubnet(k) /\ subnets' # subnets
  <2>1. /\ pc[k] = "createSubnet" /\ subnets' = subnets \cup {Run(k)}
        /\ vpcOf' = [vpcOf EXCEPT ![Run(k)] = use[Run(k)]["vpc"]] /\ Got(k, "subnet", Run(k))
    BY DEF CreateSubnet, SetupRaises
  <2>2. Run(k) \in Runs /\ Current(Run(k))
    BY <1>1, <2>1
  <2> QED BY <1>2, <2>1, <2>2, GotFacts DEF Kinds
<1>8. \A k \in Confs : DeleteSubnet(k) /\ subnets' # subnets =>
         subnets' = subnets \ {use[Cid(k)]["subnet"]} /\ ~SubnetInUse(use[Cid(k)]["subnet"])
  BY DEF DeleteSubnet, DestroyRaises
<1>9. ASSUME subnets' # subnets
      PROVE  /\ subnets' \subseteq Runs
             /\ \A s \in subnets' \ subnets :
                  /\ Current(s) /\ use[s]["subnet"] = None /\ use'[s]["subnet"] = s
                  /\ use[s]["vpc"] # None /\ vpcOf'[s] = use[s]["vpc"]
             /\ \A s \in subnets \ subnets' : ~SubnetInUse(s)
  <2>1. (\E k \in Confs : CreateSubnet(k)) \/ (\E k \in Confs : DeleteSubnet(k))
    BY <1>9 DEF Writers
  <2>2. CASE \E k \in Confs : CreateSubnet(k)
    <3> PICK k \in Confs : CreateSubnet(k)
      BY <2>2
    <3>1. subnets \ subnets' = {} /\ subnets' \ subnets \subseteq {Run(k)} /\ subnets' \subseteq Runs
      BY <1>2, <1>7, <1>9 DEF Types
    <3>2. vpcOf'[Run(k)] = use[Run(k)]["vpc"]
      BY <1>2, <1>7, <1>9 DEF Types
    <3> QED BY <1>7, <1>9, <3>1, <3>2
  <2>3. CASE \E k \in Confs : DeleteSubnet(k)
    BY SMTT(20), <1>2, <1>8, <1>9, <2>3 DEF Types
  <2> QED BY <2>1, <2>2, <2>3
<1>10. /\ subnets' \subseteq Runs
       /\ \A s \in subnets' \ subnets :
            /\ Current(s) /\ use[s]["subnet"] = None /\ use'[s]["subnet"] = s
            /\ use[s]["vpc"] # None /\ vpcOf'[s] = use[s]["vpc"]
       /\ \A s \in subnets \ subnets' : ~SubnetInUse(s)
  BY <1>2, <1>9 DEF Types
<1>11. /\ vpcOf' \in [Runs -> Runs \cup {None}]
       /\ \A r \in Runs : vpcOf'[r] = vpcOf[r] \/ (use[r]["vpc"] # None /\ vpcOf'[r] = use[r]["vpc"])
  <2>1. CASE vpcOf' = vpcOf
    BY <1>2, <2>1 DEF Types
  <2>2. ASSUME NEW k \in Confs, CreateSubnet(k) \/ CreateGroup(k), vpcOf' # vpcOf
        PROVE  /\ Run(k) \in Runs /\ use[Run(k)]["vpc"] \in Runs
               /\ vpcOf' = [vpcOf EXCEPT ![Run(k)] = use[Run(k)]["vpc"]]
    <3>1. Setting(k) /\ use[Run(k)]["vpc"] # None
      BY <1>2, <2>2 DEF CreateSubnet, CreateGroup
    <3>2. Run(k) \in Runs /\ use[Run(k)]["vpc"] \in Runs
      BY <1>1, <1>2, <3>1 DEF Types, Kinds
    <3> QED BY <2>2, <3>2 DEF CreateSubnet, CreateGroup, SetupRaises
  <2>3. CASE vpcOf' # vpcOf
    <3> PICK k \in Confs : CreateSubnet(k) \/ CreateGroup(k)
      BY <2>3 DEF Writers
    <3> DEFINE q == Run(k)
               v == use[q]["vpc"]
    <3>1. q \in Runs /\ v \in Runs /\ v # None /\ vpcOf' = [vpcOf EXCEPT ![q] = v]
      BY <2>2, <2>3, AccountAssumption DEF AccountAssumption
    <3>2. v = use[q]["vpc"]
      OBVIOUS
    <3> HIDE DEF q, v
    <3> QED BY <1>2, <3>1, <3>2 DEF Types
  <2> QED BY <2>1, <2>3
<1>12. /\ rtable' \in [Runs -> Runs \cup {None}]
       /\ \A r \in Runs : rtable'[r] = rtable[r] \/ (r \in subnets /\ rtable'[r] = vpcOf[r])
  <2>1. CASE rtable' = rtable
    BY <1>2, <2>1 DEF Types
  <2>2. ASSUME NEW k \in Confs, AssociateTable(k), rtable' # rtable
        PROVE  \E s \in subnets : \E t \in vpcs : vpcOf[s] = t /\ rtable' = [rtable EXCEPT ![s] = t]
    BY <2>2 DEF AssociateTable, SetupRaises, CanAssociateTable
  <2>3. CASE rtable' # rtable
    <3> PICK k \in Confs : AssociateTable(k)
      BY <2>3 DEF Writers
    <3>1. PICK s \in subnets : \E t \in vpcs : vpcOf[s] = t /\ rtable' = [rtable EXCEPT ![s] = t]
      BY <2>2, <2>3
    <3> QED BY <1>2, <3>1 DEF Types
  <2> QED BY <2>1, <2>3
<1> QED BY <1>3, <1>4, <1>5, <1>6, <1>10, <1>11, <1>12

(* Only the current run's group and key come, and no group goes that       *)
(* machines are behind.                                                    *)
LEMMA SecMoves ==
  ASSUME CInv, Writers
  PROVE  /\ groups' \subseteq Runs /\ keys' \subseteq Runs
         /\ \A g \in groups' \ groups : Current(g)
         /\ \A g \in groups \ groups' : ~GroupInUse(g)
         /\ \A x \in keys' \ keys : Current(x)
<1>1. \A k \in Confs : Setting(k) => Run(k) \in Runs /\ Current(Run(k))
  BY RunFacts DEF CInv
<1>2. groups \subseteq Runs /\ keys \subseteq Runs
  BY DEF CInv, Types
<1>3. groups' # groups =>
        \/ \E k \in Confs : CreateGroup(k)
        \/ \E k \in Confs : DeleteGroup(k)
        \/ \E r \in Runs : SweepGroup(r)
  BY DEF Writers
<1>4. keys' # keys =>
        \/ \E k \in Confs : CreateKey(k)
        \/ \E k \in Confs : DeleteKey(k)
        \/ \E r \in Runs : SweepKey(r)
  BY DEF Writers
<1>5. ASSUME NEW k \in Confs, CreateGroup(k)
      PROVE  Run(k) \in Runs /\ Current(Run(k)) /\ groups' = groups \cup {Run(k)}
  BY <1>1, <1>5 DEF CreateGroup, At, Setting, SetupLocs
<1>6. ASSUME NEW k \in Confs, DeleteGroup(k), groups' # groups
      PROVE  groups' = groups \ {Cid(k)} /\ ~GroupInUse(Cid(k))
  BY <1>6 DEF DeleteGroup, DestroyRaises, accountVars, secVars
<1>7. ASSUME NEW r \in Runs, SweepGroup(r), groups' # groups
      PROVE  groups' = groups \ {r} /\ ~GroupInUse(r)
  BY <1>7 DEF SweepGroup
<1>8. ASSUME NEW k \in Confs, CreateKey(k)
      PROVE  Run(k) \in Runs /\ Current(Run(k)) /\ keys' = keys \cup {Run(k)}
  BY <1>1, <1>8 DEF CreateKey, At, Setting, SetupLocs
<1>9. (\E k \in Confs : DeleteKey(k)) \/ (\E r \in Runs : SweepKey(r)) => keys' \subseteq keys
  BY DEF DeleteKey, SweepKey
<1>10. groups' \subseteq Runs /\ (\A g \in groups' \ groups : Current(g))
       /\ (\A g \in groups \ groups' : ~GroupInUse(g))
  BY <1>2, <1>3, <1>5, <1>6, <1>7
<1>11. keys' \subseteq Runs /\ (\A x \in keys' \ keys : Current(x))
  BY <1>2, <1>4, <1>8, <1>9
<1> QED BY <1>10, <1>11

(* An address is allocated by the current run and released when nothing is *)
(* associated with it; a manager keeps it until the interface is gone.     *)
LEMMA AddressMoves ==
  ASSUME CInv, Writers
  PROVE  /\ addrs' \subseteq Runs /\ assoc' \in [Runs -> Runs \cup {None}]
         /\ \A a \in addrs' \ addrs :
              Current(a) /\ use[a]["address"] = None /\ use'[a]["address"] = a
         /\ \A a \in addrs \ addrs' : assoc[a] = None
         /\ \A a \in Runs :
              \/ assoc'[a] = assoc[a]
              \/ assoc[a] = None /\ a \in addrs'
              \/ /\ assoc[a] # None /\ assoc'[a] = None
                 /\ inst[assoc[a]][Manager[assoc[a][1]]] = "terminated"
<1>1. \A k \in Confs : Setting(k) => Run(k) \in Runs /\ Current(Run(k)) /\ Run(k)[1] = k
  BY RunFacts DEF CInv
<1>2. Types /\ \A k \in Confs : Progress(k)
  BY DEF CInv
<1> HIDE DEF CInv
<1> USE DEF At, Setting, SetupLocs, accountVars, addrVars
<1>3. ASSUME NEW k \in Confs, AllocateAddress(k)
      PROVE  /\ Run(k) \in Runs /\ Current(Run(k)) /\ addrs' = addrs \cup {Run(k)}
             /\ use[Run(k)]["address"] = None /\ use'[Run(k)]["address"] = Run(k)
  <2>1. Run(k) \in Runs /\ Current(Run(k)) /\ Got(k, "address", Run(k))
    BY <1>1, <1>3 DEF AllocateAddress
  <2>2. use[Run(k)]["address"] = None
    BY <1>2, <1>3 DEF AllocateAddress, Progress, AfterVpc, AfterSubnet, AfterGateway, AfterAddress
  <2> QED BY <1>2, <1>3, <2>1, <2>2, GotFacts DEF AllocateAddress, Kinds
<1>4. ASSUME NEW k \in Confs, Release(k), addrs' # addrs
      PROVE  /\ addrs' = addrs \ {use[Cid(k)]["address"]} /\ assoc[use[Cid(k)]["address"]] = None
  BY <1>4 DEF Release, DestroyRaises, CanRelease
<1>5. addrs' # addrs => (\E k \in Confs : AllocateAddress(k)) \/ (\E k \in Confs : Release(k))
  BY DEF Writers
<1>6. /\ addrs' \subseteq Runs
      /\ \A a \in addrs' \ addrs :
           Current(a) /\ use[a]["address"] = None /\ use'[a]["address"] = a
      /\ \A a \in addrs \ addrs' : assoc[a] = None
  BY <1>2, <1>3, <1>4, <1>5 DEF Types
<1>7. ASSUME NEW k \in Confs, AssociateAddress(k), assoc' # assoc
      PROVE  \E a \in addrs : /\ Run(k) \in Runs /\ assoc[a] = None /\ addrs' = addrs
                              /\ assoc' = [assoc EXCEPT ![a] = Run(k)]
  BY <1>1, <1>7 DEF AssociateAddress, SetupRaises, CanAssociateAddress
<1>8. ASSUME NEW r \in Runs, NEW ip \in Ips[r[1]], MachineStep(r, ip)
      PROVE  assoc' = [a \in Runs |-> IF assoc[a] = r /\ ip = Manager[r[1]] /\ inst[r][ip] = "terminated"
                                         THEN None ELSE assoc[a]]
  BY <1>8 DEF MachineStep
<1>9. assoc' # assoc =>
        \/ \E k \in Confs : AssociateAddress(k)
        \/ \E r \in Runs : \E ip \in Ips[r[1]] : MachineStep(r, ip)
  BY DEF Writers
<1>10. None \notin Runs
  BY AccountAssumption DEF AccountAssumption
<1>11. CASE assoc' = assoc
  BY <1>2, <1>6, <1>11 DEF Types
<1>12. CASE assoc' # assoc /\ \E k \in Confs : AssociateAddress(k)
  <2> PICK k \in Confs : AssociateAddress(k)
    BY <1>12
  <2>1. PICK a \in addrs : /\ Run(k) \in Runs /\ assoc[a] = None /\ addrs' = addrs
                           /\ assoc' = [assoc EXCEPT ![a] = Run(k)]
    BY <1>7, <1>12
  <2>2. /\ assoc' \in [Runs -> Runs \cup {None}]
        /\ \A b \in Runs : assoc'[b] = assoc[b] \/ (assoc[b] = None /\ b \in addrs')
    BY <1>2, <2>1 DEF Types
  <2> QED BY <1>6, <2>2
<1>13. ASSUME NEW r \in Runs, NEW ip \in Ips[r[1]], MachineStep(r, ip)
       PROVE  /\ assoc' \in [Runs -> Runs \cup {None}]
              /\ \A a \in Runs :
                   \/ assoc'[a] = assoc[a]
                   \/ /\ assoc[a] # None /\ assoc'[a] = None
                      /\ inst[assoc[a]][Manager[assoc[a][1]]] = "terminated"
  BY <1>2, <1>8, <1>10, <1>13 DEF Types
<1> QED BY <1>6, <1>9, <1>11, <1>12, <1>13

(* A summary is written of the run that ends; only the run of a summary is *)
(* destroyed, and said to be torn down when its subnet is gone.            *)
LEMMA DiskMoves ==
  ASSUME CInv, Writers
  PROVE  /\ pem' \in [{Dir[k] : k \in Confs} -> Runs \cup {None}]
         /\ summary' \in [Confs -> Runs \cup {None}] /\ runs' \in [Confs -> 0..MaxRuns]
         /\ \A k \in Confs : summary'[k] # summary[k] =>
              /\ pc[k] = "saveSummary" /\ pc'[k] = "idle" /\ summary'[k] = Run(k)
              /\ begun' = begun /\ use' = use
         /\ begun \subseteq begun' /\ begun' \subseteq Runs /\ torn \subseteq torn' /\ torn' \subseteq begun'
         /\ \A b \in begun' \ begun : b = summary[b[1]]
         /\ \A t \in torn' \ torn :
              t = summary[t[1]] /\ pc[t[1]] = "delSubnet" /\ use[t]["subnet"] \notin subnets'
<1>1. \A k \in Confs : Setting(k) => Run(k) \in Runs
  BY RunFacts DEF CInv
<1>2. Types /\ \A k \in Confs : Order(k)
  BY DEF CInv
<1>3. \A k \in Confs : summary[k] # None => summary[k] \in Runs /\ summary[k][1] = k
  BY <1>2, RunFacts DEF Order
<1> HIDE DEF CInv
<1> USE DEF At, Goto, Setting, SetupLocs, Types
<1>4. pem' \in [{Dir[k] : k \in Confs} -> Runs \cup {None}]
  <2>1. CASE pem' = pem
    BY <1>2, <2>1
  <2>2. ASSUME NEW k \in Confs, NEW x \in Runs \cup {None}, pem' = [pem EXCEPT ![Dir[k]] = x]
        PROVE  pem' \in [{Dir[j] : j \in Confs} -> Runs \cup {None}]
    BY <1>2, <2>2
  <2>3. ASSUME NEW k \in Confs, SaveKey(k) PROVE Run(k) \in Runs /\ pem' = [pem EXCEPT ![Dir[k]] = Run(k)]
    BY <1>1, <2>3 DEF SaveKey
  <2>4. ASSUME NEW k \in Confs, DeleteKey(k)
        PROVE  pem' = pem \/ pem' = [pem EXCEPT ![Dir[k]] = None]
    BY <2>4 DEF DeleteKey
  <2> QED BY <2>1, <2>2, <2>3, <2>4 DEF Writers
<1>5. ASSUME NEW k \in Confs, SaveSummary(k)
      PROVE  /\ Run(k) \in Runs /\ pc[k] = "saveSummary" /\ pc'[k] = "idle"
             /\ summary' = [summary EXCEPT ![k] = Run(k)] /\ use' = use
  BY <1>1, <1>2, <1>5 DEF SaveSummary
<1>6. summary' # summary => \E k \in Confs : SaveSummary(k)
  BY DEF Writers
<1>7. begun' # begun => \E k \in Confs : StartDestroy(k)
  BY DEF Writers
<1>8. torn' # torn => \E k \in Confs : DeleteSubnet(k)
  BY DEF Writers
<1>9. ASSUME NEW k \in Confs, StartDestroy(k)
      PROVE  begun' = begun \cup {summary[k]} /\ summary[k] # None /\ summary' = summary /\ torn' = torn
  BY <1>9 DEF StartDestroy, Cid, diskVars
<1>10. ASSUME NEW k \in Confs, DeleteSubnet(k), torn' # torn
       PROVE  /\ torn' = torn \cup {summary[k]} /\ summary[k] # None /\ summary[k] \in begun
              /\ pc[k] = "delSubnet" /\ use[summary[k]]["subnet"] \notin subnets' /\ begun' = begun
  BY <1>2, <1>10 DEF DeleteSubnet, DestroyRaises, destroyVars, Order, DestroyLocs, Cid
<1>11. ASSUME summary' # summary PROVE begun' = begun
  BY <1>6, <1>7, <1>9, <1>11
<1>12. \A k \in Confs : summary'[k] # summary[k] =>
              /\ pc[k] = "saveSummary" /\ pc'[k] = "idle" /\ summary'[k] = Run(k)
              /\ begun' = begun /\ use' = use
  BY <1>2, <1>5, <1>6, <1>11
<1>13. summary' \in [Confs -> Runs \cup {None}]
  BY <1>2, <1>5, <1>6
<1>14. runs' \in [Confs -> 0..MaxRuns]
  <2>1. ASSUME NEW k \in Confs, StartSetup(k)
        PROVE  runs[k] < MaxRuns /\ runs' = [runs EXCEPT ![k] = runs[k] + 1]
    BY <1>2, <2>1 DEF StartSetup
  <2>2. MaxRuns \in Nat
    BY AccountAssumption DEF AccountAssumption
  <2> QED BY <1>2, <2>1, <2>2 DEF Writers
<1>15. begun \subseteq begun' /\ begun' \subseteq Runs /\ \A b \in begun' \ begun : b = summary[b[1]]
  BY <1>2, <1>3, <1>7, <1>9
<1>16. /\ torn \subseteq torn' /\ torn' \subseteq begun'
       /\ \A t \in torn' \ torn :
              t = summary[t[1]] /\ pc[t[1]] = "delSubnet" /\ use[t]["subnet"] \notin subnets'
  BY <1>2, <1>3, <1>8, <1>10, <1>15
<1> QED BY <1>4, <1>12, <1>13, <1>14, <1>15, <1>16

-----------------------------------------------------------------------------
(* How a tool goes from one place to the next.                             *)
Path(k) ==
  /\ \/ runs'[k] = runs[k] /\ (pc'[k] \in SetupLocs => pc[k] \in SetupLocs)
     \/ runs'[k] = runs[k] + 1 /\ pc[k] = "idle" /\ pc'[k] = "vpc"
  /\ pc'[k] \in DestroyLocs =>
       \/ pc[k] \in DestroyLocs
       \/ pc[k] = "idle" /\ pc'[k] = "terminate" /\ summary[k] # None /\ summary[k] \in begun'
  /\ pc'[k] # pc[k] =>
       /\ pc'[k] = "associate" => \A ip \in Ips[k] : inst[Run(k)][ip] = "running"
       /\ pc'[k] = "connect" =>
            pc[k] = "associate" /\ assoc' = [assoc EXCEPT ![use[Run(k)]["address"]] = Run(k)]
       /\ pc'[k] = "online" => pc[k] = "connect"
       /\ pc'[k] = "saveKey" =>
            pc[k] = "online" /\ rtable[home[assoc[use[Run(k)]["address"]]]] \in routed
       /\ pc'[k] = "saveSummary" => pc[k] = "saveKey" /\ pem' = [pem EXCEPT ![Dir[k]] = Run(k)]
       /\ pc'[k] = "delGroup" => \A ip \in Ips[k] : inst[Cid(k)][ip] \in {"terminated", "gone"}
       /\ pc'[k] = "delKey" => pc[k] = "delGroup" /\ Cid(k) \notin groups'
       /\ pc'[k] = "findAddress" => pc[k] = "delKey" /\ Cid(k) \notin keys'
       /\ pc'[k] = "release" => pc[k] = "findAddress"
       /\ pc'[k] = "delSubnet" =>
            pc[k] \in {"findAddress", "release"} /\ use[Cid(k)]["address"] \notin addrs'

(* Every step of a tool is one of these.                                   *)
LEMMA ToolPaths ==
  ASSUME CInv, NEW k \in Confs, Tool(k)
  PROVE  Path(k)
<1> SUFFICES ASSUME Types PROVE Path(k)
  BY DEF CInv
<1> HIDE DEF CInv
<1> USE DEF At, Goto, SetupLocs, DestroyLocs, setupVars, toolVars, Types, Path
<1>1. CASE StartSetup(k)
  BY <1>1 DEF StartSetup
<1>2. CASE GetVpc(k)
  BY <1>2 DEF GetVpc, SetupRaises
<1>3. CASE CreateVpc(k)
  BY <1>3 DEF CreateVpc
<1>4. CASE GetSubnet(k)
  BY <1>4 DEF GetSubnet
<1>5. CASE CreateSubnet(k)
  BY <1>5 DEF CreateSubnet, SetupRaises
<1>6. CASE GetGateway(k)
  BY <1>6 DEF GetGateway
<1>7. CASE CreateGateway(k)
  BY <1>7 DEF CreateGateway
<1>8. CASE AttachGateway(k)
  BY <1>8 DEF AttachGateway, SetupRaises
<1>9. CASE GetAddress(k)
  BY <1>9 DEF GetAddress
<1>10. CASE AllocateAddress(k)
  BY <1>10 DEF AllocateAddress
<1>11. CASE AssociateTable(k)
  BY <1>11 DEF AssociateTable, SetupRaises
<1>12. CASE CreateRoute(k)
  BY <1>12 DEF CreateRoute, SetupRaises
<1>13. CASE CreateGroup(k)
  BY <1>13 DEF CreateGroup
<1>14. CASE CreateKey(k)
  BY <1>14 DEF CreateKey
<1>15. ASSUME NEW ip \in Ips[k], Launch(k, ip) PROVE Path(k)
  BY <1>15 DEF Launch, SetupRaises
<1>16. CASE Boot(k)
  BY <1>16 DEF Boot
<1>17. CASE AssociateAddress(k)
  BY <1>17 DEF AssociateAddress, SetupRaises
<1>18. CASE Connect(k)
  BY <1>18 DEF Connect, SetupRaises
<1>19. CASE Online(k)
  BY <1>19 DEF Online
<1>20. CASE SaveKey(k)
  BY <1>20 DEF SaveKey
<1>21. CASE SaveSummary(k)
  BY <1>21 DEF SaveSummary
<1>22. CASE SetupFails(k)
  BY <1>22 DEF SetupFails, SetupRaises
<1>23. CASE StartDestroy(k)
  BY <1>23 DEF StartDestroy, Cid
<1>24. ASSUME NEW ip \in Ips[k], Terminate(k, ip) PROVE Path(k)
  BY <1>24 DEF Terminate
<1>25. CASE AwaitTerminated(k)
  BY <1>25 DEF AwaitTerminated
<1>26. CASE DeleteGroup(k)
  BY <1>26 DEF DeleteGroup, DestroyRaises
<1>27. CASE DeleteKey(k)
  BY <1>27 DEF DeleteKey
<1>28. CASE FindAddress(k)
  BY <1>28 DEF FindAddress, accountVars, addrVars
<1>29. CASE Release(k)
  BY <1>29 DEF Release, DestroyRaises, CanRelease
<1>30. CASE DeleteSubnet(k)
  BY <1>30 DEF DeleteSubnet, DestroyRaises
<1>31. CASE DestroyFails(k)
  BY <1>31 DEF DestroyFails, DestroyRaises
<1> QED
  BY <1>1, <1>2, <1>3, <1>4, <1>5, <1>6, <1>7, <1>8, <1>9, <1>10, <1>11, <1>12,
         <1>13, <1>14, <1>15, <1>16, <1>17, <1>18, <1>19, <1>20, <1>21, <1>22,
         <1>23, <1>24, <1>25, <1>26, <1>27, <1>28, <1>29, <1>30, <1>31 DEF Tool, SetupStep, DestroyStep

(* Every definition's tool is on its path, or where it was.                *)
LEMMA StepPaths ==
  ASSUME CInv, Writers, NEW k \in Confs
  PROVE  Path(k)
<1>1. CASE Tool(k)
  BY <1>1, ToolPaths
<1>2. CASE pc'[k] = pc[k] /\ runs'[k] = runs[k]
  BY <1>2 DEF Path
<1> QED BY <1>1, <1>2 DEF Writers

-----------------------------------------------------------------------------
(* What each step keeps.                                                   *)

(* The run of a past setup stays past: a setup that is started makes a new *)
(* one.                                                                    *)
LEMMA StepPast ==
  ASSUME CInv, Writers, NEW r \in Runs
  PROVE  /\ Past(r) => Past(r)'
         /\ r[2] > runs'[r[1]] => r[2] > runs[r[1]]
         /\ r \in begun => Past(r)
<1>1. r[1] \in Confs /\ r[2] \in 1..MaxRuns /\ r = <<r[1], r[2]>>
  BY RunsFacts
<1>2. Path(r[1]) /\ runs[r[1]] \in 0..MaxRuns /\ MaxRuns \in Nat
  BY <1>1, StepPaths, AccountAssumption DEF CInv, Types, AccountAssumption
<1>3. r \in begun => Past(r)
  BY DEF CInv, PastBegun
<1> HIDE DEF CInv
<1>4. Past(r) => Past(r)'
  BY <1>1, <1>2 DEF Past, Current, Setting, Run, Path
<1>5. r[2] > runs'[r[1]] => r[2] > runs[r[1]]
  BY <1>1, <1>2 DEF Path
<1> QED BY <1>3, <1>4, <1>5

(* What is being destroyed, or in a .cid file, stays a past run.           *)
LEMMA StepOrder ==
  ASSUME CInv, Writers
  PROVE  PastBegun' /\ \A k \in Confs : Order(k)'
<1>1. \A k \in Confs : Path(k) /\ Order(k) /\ runs[k] \in Nat /\ runs'[k] \in Nat
  BY StepPaths, DiskMoves, AccountAssumption DEF CInv, Types, AccountAssumption
<1>2. \A r \in Runs : (Past(r) => Past(r)') /\ (r \in begun => Past(r))
  BY StepPast
<1>3. PastBegun'
  <2> SUFFICES ASSUME NEW b \in begun' PROVE Past(b)'
    BY DEF PastBegun
  <2>1. b \in Runs /\ (b \in begun \/ b = summary[b[1]])
    BY DiskMoves
  <2>2. b \notin begun => Past(b)
    BY <1>1, <2>1, RunsFacts, AccountAssumption DEF Order, AccountAssumption
  <2> QED BY <1>2, <2>1, <2>2
<1>4. ASSUME NEW k \in Confs PROVE Order(k)'
  <2>1. summary'[k] # summary[k] =>
          pc[k] = "saveSummary" /\ pc'[k] = "idle" /\ summary'[k] = Run(k)
    BY DiskMoves
  <2>2. Path(k) /\ Order(k) /\ runs[k] \in Nat /\ runs'[k] \in Nat
    BY <1>1
  <2>3. (Setting(k) => runs[k] >= 1)'
    BY <2>2 DEF Setting, Path, Order
  <2>4. CASE summary'[k] = summary[k]
    <3>2. (pc[k] \in DestroyLocs)' => summary[k] # None /\ summary[k] \in begun'
      BY <2>2, DiskMoves DEF Path, Order
    <3>3. ASSUME summary'[k] # None PROVE summary'[k][1] = k /\ Past(summary[k])'
      <4> PICK p \in Runs : p = summary[k] /\ p[1] = k /\ Past(p)
        BY <2>2, <2>4, <3>3, RunFacts DEF Order, CInv
      <4>1. Past(p)' /\ p = summary'[k]
        BY <1>2, <2>4
      <4> QED BY <4>1 DEF Past, Current, Setting, Run
    <3> QED BY <2>3, <2>4, <3>2, <3>3 DEF Order
  <2>5. CASE summary'[k] # summary[k]
    <3>1. runs'[k] = runs[k] /\ summary'[k] = <<k, runs[k]>> /\ pc'[k] = "idle"
      BY <2>1, <2>2, <2>5 DEF Path, Run
    <3>2. (summary[k][1] = k /\ Past(summary[k]))'
      BY <2>2, <3>1 DEF Past, Current, Setting, SetupLocs
    <3> QED BY <2>3, <3>1, <3>2 DEF Order, DestroyLocs
  <2> QED BY <2>4, <2>5
<1> QED BY <1>3, <1>4

(* A run that has not started gets nothing.                                *)
LEMMA StepFresh ==
  ASSUME CInv, Writers, NEW r \in Runs
  PROVE  Fresh(r)'
<1>1. Fresh(r) /\ r[1] \in Confs /\ r[2] \in Nat /\ runs[r[1]] \in Nat
  BY RunsFacts, AccountAssumption DEF CInv, Types, AccountAssumption
<1>2. r[2] > runs[r[1]] => ~Current(r)
  BY <1>1 DEF Current, Run
<1> QED BY <1>1, <1>2, StepPast, UseKept DEF Fresh

(* A .cid file is written when the setup has got everything.               *)
LEMMA StepComplete ==
  ASSUME CInv, Writers, NEW k \in Confs
  PROVE  Complete(k)'
<1> SUFFICES ASSUME summary'[k] # None
             PROVE  \A x \in Kinds : use'[summary'[k]][x] # None
  BY DEF Complete
<1>1. CASE summary'[k] = summary[k]
  <2>1. summary[k] \in Runs /\ \A x \in Kinds : use[summary[k]][x] # None
    BY <1>1, RunFacts DEF CInv, Complete
  <2> QED BY <1>1, <2>1, UseKept
<1>2. CASE summary'[k] # summary[k]
  <2>1. pc[k] = "saveSummary" /\ summary'[k] = Run(k) /\ use' = use
    BY <1>2, DiskMoves
  <2>2. Progress(k)
    BY DEF CInv
  <2> QED BY <2>1, <2>2
          DEF Progress, Setting, SetupLocs, Kinds, AfterVpc, AfterSubnet, AfterGateway,
              AfterAddress, AfterTable
<1> QED BY <1>1, <1>2

(* Subnets and addresses keep the names of the runs that use them.         *)
LEMMA StepNamed ==
  ASSUME CInv, Writers, NEW r \in Runs
  PROVE  Named(r)'
<1>1. \A q \in Runs : Named(q)
  BY DEF CInv
<1>2. \A q \in Runs : \A y \in Kinds : use'[q][y] = use[q][y] \/ Gets(q, y)
  BY UseMoves
<1>3. \A y \in Kinds : use[r][y] # None => use'[r][y] = use[r][y]
  BY UseKept
<1>4. None \notin Runs /\ "subnet" \in Kinds /\ "address" \in Kinds
  BY AccountAssumption DEF AccountAssumption, Kinds
<1>5. \/ r \in subnets \/ r \notin subnets'
      \/ use'[r]["subnet"] = r
  BY NetMoves
<1>6. \/ r \in addrs \/ r \notin addrs'
      \/ use'[r]["address"] = r
  BY AddressMoves
<1>7. (r \in subnets \/ (\E q \in Runs : use[q]["subnet"] = r) => use[r]["subnet"] = r)'
  BY <1>1, <1>2, <1>3, <1>4, <1>5 DEF Named, Gets
<1>8. (r \in addrs \/ (\E q \in Runs : use[q]["address"] = r) => use[r]["address"] = r)'
  BY <1>1, <1>2, <1>3, <1>4, <1>6 DEF Named, Gets
<1> QED BY <1>7, <1>8 DEF Named

(* What a run has keeps to its VPC.                                        *)
LEMMA StepRouted ==
  ASSUME CInv, Writers, NEW r \in Runs
  PROVE  Routed(r)'
<1>1. Routed(r)
  BY DEF CInv
<1>2. \A y \in Kinds : use'[r][y] = use[r][y] \/ Gets(r, y)
  BY UseMoves
<1>3. \A y \in Kinds : use[r][y] # None => use'[r][y] = use[r][y]
  BY UseKept
<1>4. "vpc" \in Kinds /\ "table" \in Kinds
  BY DEF Kinds
<1>5. vpcs \subseteq vpcs'
  BY NetMoves
<1>6. /\ vpcOf'[r] = vpcOf[r] \/ (use[r]["vpc"] # None /\ vpcOf'[r] = use[r]["vpc"])
      /\ rtable'[r] = rtable[r] \/ (r \in subnets /\ rtable'[r] = vpcOf[r])
      /\ r \in subnets' => r \in subnets \/ (use[r]["vpc"] # None /\ vpcOf'[r] = use[r]["vpc"])
  BY NetMoves
<1>7. (use[r]["vpc"] \in vpcs \cup {None} /\ use[r]["table"] \in vpcs \cup {None})'
  BY <1>1, <1>2, <1>4, <1>5 DEF Routed, Gets
<1>8. vpcOf'[r] # None => vpcOf'[r] = use'[r]["vpc"]
  BY <1>1, <1>3, <1>4, <1>6 DEF Routed
<1>9. r \in subnets' => vpcOf'[r] # None
  BY <1>1, <1>6 DEF Routed
<1>10. rtable'[r] # None => rtable'[r] = vpcOf'[r]
  BY <1>1, <1>6 DEF Routed
<1> QED BY <1>7, <1>8, <1>9, <1>10 DEF Routed

(* What machines and managers hold is not deleted.                         *)
LEMMA StepKept ==
  ASSUME CInv, Writers, NEW r \in Runs
  PROVE  Kept(r)'
<1>1. Kept(r) /\ home[r] \in Runs \cup {None} /\ subnets \subseteq Runs
  BY DEF CInv, Types
<1>2. None \notin Runs /\ "subnet" \in Kinds
  BY AccountAssumption DEF AccountAssumption, Kinds
<1>3. ASSUME NEW ip \in AllIps, Holding(r, ip)'
      PROVE  r \in groups' /\ home'[r] \in subnets' /\ home'[r] = use'[r]["subnet"]
  <2>1. CASE Launched(r)
    <3>1. use'[r]["subnet"] = use[r]["subnet"]
      BY <1>2, <2>1, UseKept, NetMoves DEF Launched
    <3> QED BY <2>1, <3>1 DEF Launched
  <2>2. CASE ~Launched(r)
    <3>1. Holding(r, ip) /\ home'[r] = home[r]
      BY <1>3, <2>2, MachineMoves DEF Holding
    <3>2. r \in groups /\ home[r] \in subnets /\ home[r] = use[r]["subnet"]
      BY <1>1, <3>1 DEF Kept
    <3>3. GroupInUse(r) /\ SubnetInUse(home[r])
      BY <3>1 DEF GroupInUse, SubnetInUse
    <3>4. r \in groups' /\ home[r] \in subnets'
      BY <3>2, <3>3, SecMoves, NetMoves
    <3>5. use'[r]["subnet"] = use[r]["subnet"]
      BY <1>1, <1>2, <3>2, UseKept
    <3> QED BY <3>1, <3>2, <3>4, <3>5
  <2> QED BY <2>1, <2>2
<1>4. assoc'[r] # None => r \in addrs'
  <2>1. CASE assoc'[r] = assoc[r]
    BY <1>1, <2>1, AddressMoves DEF Kept
  <2>2. CASE assoc'[r] # assoc[r]
    BY <2>2, AddressMoves
  <2> QED BY <2>1, <2>2
<1> QED BY <1>3, <1>4 DEF Kept

(* A tool that does not move keeps to itself what its run has got.         *)
LEMMA OwnUse ==
  ASSUME CInv, Writers, NEW k \in Confs, ~Tool(k)
  PROVE  use'[Run(k)] = use[Run(k)]
<1>1. CASE use' = use
  BY <1>1
<1>2. CASE use' # use
  <2> PICK j \in Confs :
        \/ GetVpc(j) \/ CreateVpc(j) \/ GetSubnet(j) \/ CreateSubnet(j) \/ GetGateway(j)
        \/ CreateGateway(j) \/ GetAddress(j) \/ AllocateAddress(j) \/ AssociateTable(j)
    BY <1>2 DEF Writers
  <2>1. Tool(j)
    BY DEF Tool, SetupStep
  <2>2. Run(j) # Run(k)
    BY <2>1 DEF Run
  <2>3. \E y \in Kinds : \E x : Got(j, y, x)
    BY <1>2 DEF GetVpc, CreateVpc, GetSubnet, CreateSubnet, GetGateway, CreateGateway,
       GetAddress, AllocateAddress, AssociateTable, SetupRaises, Kinds
  <2>4. use \in [Runs -> [Kinds -> Runs \cup {None}]] /\ Types
    BY DEF CInv, Types
  <2> QED BY <2>2, <2>3, <2>4 DEF Got
<1> QED BY <1>1, <1>2

(* How far a setup is tells what it has got.                               *)
LEMMA ToolProgress ==
  ASSUME CInv, NEW k \in Confs, Tool(k)
  PROVE  Progress(k)'
<1>1. Types /\ Progress(k) /\ (Setting(k) => Run(k) \in Runs) /\ Order(k) /\ runs[k] \in 0..MaxRuns
  BY RunFacts DEF CInv
<1>0. Fresh(<<k, runs[k] + 1>>) \/ runs[k] + 1 > MaxRuns
  BY <1>1, AccountAssumption DEF CInv, Runs, AccountAssumption
<1> HIDE DEF CInv
<1> USE DEF At, Goto, SetupLocs, DestroyLocs, Setting, Kinds, AfterVpc, AfterSubnet,
        AfterGateway, AfterAddress, AfterTable
<1>2. pc \in [Confs -> SetupLocs \cup DestroyLocs \cup {"idle"}]
  BY <1>1 DEF Types
<1>5. CASE GetVpc(k)
  <2>1. /\ runs' = runs
        /\ \/ pc'[k] = "subnet" /\ \E x \in Runs : Got(k, "vpc", x)
           \/ use' = use /\ pc'[k] \in {"createVpc", "idle"}
    BY <1>1, <1>2, <1>5 DEF GetVpc, SetupRaises, Types
  <2>2. CASE use' = use /\ pc'[k] \in {"createVpc", "idle"}
    BY <1>1, <1>5, <2>1, <2>2 DEF GetVpc, Progress, Run
  <2>3. CASE pc'[k] = "subnet" /\ \E x \in Runs : Got(k, "vpc", x)
    <3>1. /\ \A z \in Kinds \ {"vpc"} : use'[Run(k)][z] = use[Run(k)][z]
          /\ use'[Run(k)]["vpc"] # None
      BY <1>1, <1>5, <2>3, GotFacts, AccountAssumption DEF GetVpc, AccountAssumption
    <3> QED BY <1>1, <1>5, <2>1, <2>3, <3>1 DEF GetVpc, Progress, Run
  <2> QED BY <2>1, <2>2, <2>3
<1>6. CASE CreateVpc(k)
  <2>1. /\ runs' = runs
        /\ \/ pc'[k] = "subnet" /\ \E x \in Runs : Got(k, "vpc", x)
    BY <1>1, <1>2, <1>6 DEF CreateVpc, Types
  <2>3. CASE pc'[k] = "subnet" /\ \E x \in Runs : Got(k, "vpc", x)
    <3>1. /\ \A z \in Kinds \ {"vpc"} : use'[Run(k)][z] = use[Run(k)][z]
          /\ use'[Run(k)]["vpc"] # None
      BY <1>1, <1>6, <2>3, GotFacts, AccountAssumption DEF CreateVpc, AccountAssumption
    <3> QED BY <1>1, <1>6, <2>1, <2>3, <3>1 DEF CreateVpc, Progress, Run
  <2> QED BY <2>1, <2>3
<1>7. CASE GetSubnet(k)
  <2>1. /\ runs' = runs
        /\ \/ pc'[k] = "gateway" /\ \E x \in Runs : Got(k, "subnet", x)
           \/ use' = use /\ pc'[k] = "createSubnet"
    BY <1>1, <1>2, <1>7 DEF GetSubnet, Types
  <2>2. CASE use' = use /\ pc'[k] = "createSubnet"
    BY <1>1, <1>7, <2>1, <2>2 DEF GetSubnet, Progress, Run
  <2>3. CASE pc'[k] = "gateway" /\ \E x \in Runs : Got(k, "subnet", x)
    <3>1. /\ \A z \in Kinds \ {"subnet"} : use'[Run(k)][z] = use[Run(k)][z]
          /\ use'[Run(k)]["subnet"] # None
      BY <1>1, <1>7, <2>3, GotFacts, AccountAssumption DEF GetSubnet, AccountAssumption
    <3> QED BY <1>1, <1>7, <2>1, <2>3, <3>1 DEF GetSubnet, Progress, Run
  <2> QED BY <2>1, <2>2, <2>3
<1>8. CASE CreateSubnet(k)
  <2>1. /\ runs' = runs
        /\ \/ pc'[k] = "gateway" /\ \E x \in Runs : Got(k, "subnet", x)
           \/ use' = use /\ pc'[k] = "idle"
    BY <1>1, <1>2, <1>8 DEF CreateSubnet, SetupRaises, Types
  <2>2. CASE use' = use /\ pc'[k] = "idle"
    BY <1>1, <1>8, <2>1, <2>2 DEF CreateSubnet, Progress, Run
  <2>3. CASE pc'[k] = "gateway" /\ \E x \in Runs : Got(k, "subnet", x)
    <3>1. /\ \A z \in Kinds \ {"subnet"} : use'[Run(k)][z] = use[Run(k)][z]
          /\ use'[Run(k)]["subnet"] # None
      BY <1>1, <1>8, <2>3, GotFacts, AccountAssumption DEF CreateSubnet, AccountAssumption
    <3> QED BY <1>1, <1>8, <2>1, <2>3, <3>1 DEF CreateSubnet, Progress, Run
  <2> QED BY <2>1, <2>2, <2>3
<1>9. CASE GetGateway(k)
  <2>1. /\ runs' = runs
        /\ \/ pc'[k] = "attach" /\ \E x \in Runs : Got(k, "gateway", x)
           \/ use' = use /\ pc'[k] = "createGateway"
    BY <1>1, <1>2, <1>9 DEF GetGateway, Types
  <2>2. CASE use' = use /\ pc'[k] = "createGateway"
    BY <1>1, <1>9, <2>1, <2>2 DEF GetGateway, Progress, Run
  <2>3. CASE pc'[k] = "attach" /\ \E x \in Runs : Got(k, "gateway", x)
    <3>1. /\ \A z \in Kinds \ {"gateway"} : use'[Run(k)][z] = use[Run(k)][z]
          /\ use'[Run(k)]["gateway"] # None
      BY <1>1, <1>9, <2>3, GotFacts, AccountAssumption DEF GetGateway, AccountAssumption
    <3> QED BY <1>1, <1>9, <2>1, <2>3, <3>1 DEF GetGateway, Progress, Run
  <2> QED BY <2>1, <2>2, <2>3
<1>10. CASE CreateGateway(k)
  <2>1. /\ runs' = runs
        /\ \/ pc'[k] = "attach" /\ \E x \in Runs : Got(k, "gateway", x)
    BY <1>1, <1>2, <1>10 DEF CreateGateway, Types
  <2>3. CASE pc'[k] = "attach" /\ \E x \in Runs : Got(k, "gateway", x)
    <3>1. /\ \A z \in Kinds \ {"gateway"} : use'[Run(k)][z] = use[Run(k)][z]
          /\ use'[Run(k)]["gateway"] # None
      BY <1>1, <1>10, <2>3, GotFacts, AccountAssumption DEF CreateGateway, AccountAssumption
    <3> QED BY <1>1, <1>10, <2>1, <2>3, <3>1 DEF CreateGateway, Progress, Run
  <2> QED BY <2>1, <2>3
<1>11. CASE GetAddress(k)
  <2>1. /\ runs' = runs
        /\ \/ pc'[k] = "table" /\ \E x \in Runs : Got(k, "address", x)
           \/ use' = use /\ pc'[k] = "allocate"
    BY <1>1, <1>2, <1>11 DEF GetAddress, Types
  <2>2. CASE use' = use /\ pc'[k] = "allocate"
    BY <1>1, <1>11, <2>1, <2>2 DEF GetAddress, Progress, Run
  <2>3. CASE pc'[k] = "table" /\ \E x \in Runs : Got(k, "address", x)
    <3>1. /\ \A z \in Kinds \ {"address"} : use'[Run(k)][z] = use[Run(k)][z]
          /\ use'[Run(k)]["address"] # None
      BY <1>1, <1>11, <2>3, GotFacts, AccountAssumption DEF GetAddress, AccountAssumption
    <3> QED BY <1>1, <1>11, <2>1, <2>3, <3>1 DEF GetAddress, Progress, Run
  <2> QED BY <2>1, <2>2, <2>3
<1>12. CASE AllocateAddress(k)
  <2>1. /\ runs' = runs
        /\ \/ pc'[k] = "table" /\ \E x \in Runs : Got(k, "address", x)
    BY <1>1, <1>2, <1>12 DEF AllocateAddress, Types
  <2>3. CASE pc'[k] = "table" /\ \E x \in Runs : Got(k, "address", x)
    <3>1. /\ \A z \in Kinds \ {"address"} : use'[Run(k)][z] = use[Run(k)][z]
          /\ use'[Run(k)]["address"] # None
      BY <1>1, <1>12, <2>3, GotFacts, AccountAssumption DEF AllocateAddress, AccountAssumption
    <3> QED BY <1>1, <1>12, <2>1, <2>3, <3>1 DEF AllocateAddress, Progress, Run
  <2> QED BY <2>1, <2>3
<1>13. CASE AssociateTable(k)
  <2>1. /\ runs' = runs
        /\ \/ pc'[k] = "route" /\ \E x \in Runs : Got(k, "table", x)
           \/ use' = use /\ pc'[k] = "idle"
    BY <1>1, <1>2, <1>13 DEF AssociateTable, SetupRaises, Types
  <2>2. CASE use' = use /\ pc'[k] = "idle"
    BY <1>1, <1>13, <2>1, <2>2 DEF AssociateTable, Progress, Run
  <2>3. CASE pc'[k] = "route" /\ \E x \in Runs : Got(k, "table", x)
    <3>1. /\ \A z \in Kinds \ {"table"} : use'[Run(k)][z] = use[Run(k)][z]
          /\ use'[Run(k)]["table"] # None
      BY <1>1, <1>13, <2>3, GotFacts, AccountAssumption DEF AssociateTable, AccountAssumption
    <3> QED BY <1>1, <1>13, <2>1, <2>3, <3>1 DEF AssociateTable, Progress, Run
  <2> QED BY <2>1, <2>2, <2>3
<1>14. CASE StartSetup(k)
  <2>1. runs'[k] = runs[k] + 1 /\ pc'[k] = "vpc" /\ use' = use /\ runs[k] < MaxRuns
    BY <1>1, <1>2, <1>14 DEF StartSetup, Types
  <2>2. <<k, runs[k] + 1>> \in Runs /\ Fresh(<<k, runs[k] + 1>>)
    BY <1>1, <1>0, <2>1, AccountAssumption DEF Runs, AccountAssumption
  <2>3. \A x \in Kinds : use'[<<k, runs'[k]>>][x] = None
    BY <1>1, <2>1, <2>2 DEF Fresh
  <2> QED BY <2>1, <2>3 DEF Progress, Run
<1>15. CASE AttachGateway(k)
  BY <1>1, <1>2, <1>15 DEF AttachGateway, SetupRaises, Progress, Run, toolVars, setupVars
<1>16. CASE CreateRoute(k)
  BY <1>1, <1>2, <1>16 DEF CreateRoute, SetupRaises, Progress, Run, toolVars, setupVars
<1>17. CASE CreateGroup(k)
  BY <1>1, <1>2, <1>17 DEF CreateGroup, Progress, Run, toolVars, setupVars
<1>18. CASE CreateKey(k)
  BY <1>1, <1>2, <1>18 DEF CreateKey, Progress, Run, toolVars, setupVars
<1>19. ASSUME NEW ip \in Ips[k], Launch(k, ip) PROVE Progress(k)'
  BY <1>1, <1>2, <1>19 DEF Launch, SetupRaises, Progress, Run, toolVars, setupVars
<1>20. CASE Boot(k)
  BY <1>1, <1>2, <1>20 DEF Boot, Progress, Run, toolVars, setupVars
<1>21. CASE AssociateAddress(k)
  BY <1>1, <1>2, <1>21 DEF AssociateAddress, SetupRaises, Progress, Run, toolVars, setupVars
<1>22. CASE Connect(k)
  BY <1>1, <1>2, <1>22 DEF Connect, SetupRaises, Progress, Run, toolVars, setupVars
<1>23. CASE Online(k)
  BY <1>1, <1>2, <1>23 DEF Online, Progress, Run, toolVars, setupVars
<1>24. CASE SaveKey(k)
  BY <1>1, <1>2, <1>24 DEF SaveKey, Progress, Run, toolVars, setupVars
<1>25. CASE SaveSummary(k)
  BY <1>1, <1>2, <1>25 DEF SaveSummary, Progress, Run, toolVars, setupVars
<1>26. CASE SetupFails(k)
  BY <1>1, <1>2, <1>26 DEF SetupFails, SetupRaises, Progress, Run, toolVars, setupVars
<1>27. CASE StartDestroy(k)
  BY <1>1, <1>2, <1>27 DEF StartDestroy, Progress, Run, toolVars, setupVars
<1>28. ASSUME NEW ip \in Ips[k], Terminate(k, ip) PROVE Progress(k)'
  BY <1>1, <1>2, <1>28 DEF Terminate, Progress, Run, toolVars, setupVars
<1>29. CASE AwaitTerminated(k)
  BY <1>1, <1>2, <1>29 DEF AwaitTerminated, Progress, Run, toolVars, setupVars
<1>30. CASE DeleteGroup(k)
  BY <1>1, <1>2, <1>30 DEF DeleteGroup, DestroyRaises, Progress, Run, toolVars, setupVars
<1>31. CASE DeleteKey(k)
  BY <1>1, <1>2, <1>31 DEF DeleteKey, Progress, Run, toolVars, setupVars
<1>32. CASE FindAddress(k)
  BY <1>1, <1>2, <1>32 DEF FindAddress, Progress, Run, toolVars, setupVars
<1>33. CASE Release(k)
  BY <1>1, <1>2, <1>33 DEF Release, DestroyRaises, Progress, Run, toolVars, setupVars
<1>34. CASE DeleteSubnet(k)
  BY <1>1, <1>2, <1>34 DEF DeleteSubnet, DestroyRaises, Progress, Run, toolVars, setupVars
<1>35. CASE DestroyFails(k)
  BY <1>1, <1>2, <1>35 DEF DestroyFails, DestroyRaises, Progress, Run, toolVars, setupVars
<1> QED
  BY <1>5, <1>6, <1>7, <1>8, <1>9, <1>10, <1>11, <1>12, <1>13, <1>14, <1>15,
         <1>16, <1>17, <1>18, <1>19, <1>20, <1>21, <1>22, <1>23, <1>24, <1>25,
         <1>26, <1>27, <1>28, <1>29, <1>30, <1>31, <1>32, <1>33, <1>34, <1>35 DEF Tool, SetupStep, DestroyStep

(* A setup that another tool interrupts keeps what it has got.             *)
LEMMA StepProgress ==
  ASSUME CInv, Writers, NEW k \in Confs
  PROVE  Progress(k)'
<1>1. CASE Tool(k)
  BY <1>1, ToolProgress
<1>2. CASE ~Tool(k)
  <2>1. pc'[k] = pc[k] /\ runs'[k] = runs[k] /\ Progress(k)
    BY <1>2 DEF Writers, CInv
  <2> QED BY <1>2, <2>1, OwnUse DEF Progress, Setting, Run
<1> QED BY <1>1, <1>2

(* A machine that runs goes on, unless its cloud is being destroyed.       *)
LEMMA RunningStays ==
  ASSUME CInv, Writers, NEW r \in Runs, NEW ip \in AllIps, inst[r][ip] = "running",
         r \notin begun \/ pc[r[1]] # "terminate"
  PROVE  inst'[r][ip] = "running" /\ home'[r] \in Runs \cup {None}
BY MachineMoves

(* The manager keeps its address as long as it runs.                       *)
LEMMA AddressStays ==
  ASSUME CInv, Writers, NEW a \in Runs, NEW r \in Runs,
         assoc[a] = r, inst[r][Manager[r[1]]] = "running"
  PROVE  assoc'[a] = r /\ a \in addrs'
<1>1. a \in addrs /\ r # None
  BY AccountAssumption DEF CInv, Kept, AccountAssumption
<1> QED BY <1>1, AddressMoves

(* A subnet with a route to the outside keeps it.                          *)
LEMMA RouteStays ==
  ASSUME CInv, Writers, NEW s \in Runs, rtable[s] \in routed
  PROVE  rtable'[s] \in routed'
<1>1. rtable[s] # None /\ Routed(s)
  BY AccountAssumption DEF CInv, Types, AccountAssumption
<1> QED BY <1>1, NetMoves DEF Routed

(* The addresses of a definition's machines.                               *)
LEMMA IpFacts ==
  ASSUME NEW k \in Confs
  PROVE  Ips[k] \subseteq AllIps /\ Manager[k] \in Ips[k] /\ Manager[k] \in AllIps
BY AccountAssumption DEF AccountAssumption, AllIps

(* What a setup has achieved is not undone by the others.                  *)
LEMMA StepBuilding ==
  ASSUME CInv, Writers, NEW k \in Confs
  PROVE  Building(k)'
<1> DEFINE r == Run(k)
           a == use[r]["address"]
           Late == {"saveKey", "saveSummary"}
           Linked == {"connect", "online"} \cup Late
           Booted == {"associate"} \cup Linked
<1>1. Path(k) /\ Building(k) /\ Progress(k) /\ Order(k) /\ Types
  BY StepPaths DEF CInv
<1> SUFFICES ASSUME pc'[k] \in Booted
             PROVE  /\ \A ip \in Ips[k] : inst'[r][ip] = "running"
                    /\ pc'[k] \in Linked => assoc'[use'[r]["address"]] = r
                    /\ pc'[k] \in Late => rtable'[home'[r]] \in routed'
  <2>1. pc'[k] \in Booted => runs'[k] = runs[k]
    BY <1>1 DEF Path
  <2> QED BY <2>1 DEF Building, Run
<1>2. pc[k] \in SetupLocs /\ Setting(k)
  BY <1>1 DEF Path, SetupLocs, Setting
<1>3. r \in Runs /\ r[1] = k
  BY <1>1, <1>2, RunFacts
<1>4. \A ip \in Ips[k] : inst[r][ip] = "running"
  BY <1>1 DEF Path, Building
<1>5. Manager[k] \in Ips[k] /\ Ips[k] \subseteq AllIps /\ Manager[k] \in AllIps
  BY IpFacts
<1>6. pc[k] # "terminate"
  BY <1>2 DEF SetupLocs
<1>7. \A ip \in Ips[k] : inst'[r][ip] = "running"
  BY <1>3, <1>4, <1>5, <1>6, RunningStays
<1>8. ASSUME pc'[k] \in Linked
      PROVE  /\ a \in Runs /\ use'[r]["address"] = a /\ assoc'[a] = r
             /\ pc[k] \in Linked => assoc[a] = r
  <2>1. pc[k] \in {"associate"} \cup Linked
    BY <1>1, <1>8 DEF Path
  <2>2. a \in Runs /\ use'[r]["address"] = a
    <3>1. a # None /\ "address" \in Kinds
      BY <1>1, <1>2, <2>1
      DEF Progress, SetupLocs, AfterVpc, AfterSubnet, AfterGateway, AfterAddress, Kinds
    <3>2. a \in Runs \cup {None}
      BY <1>1, <1>3, <3>1 DEF Types
    <3> QED BY <1>3, <3>1, <3>2, UseKept
  <2>3. pc[k] \in Linked => assoc[a] = r
    BY <1>1 DEF Building
  <2>4. CASE pc[k] \in Linked
    BY <1>3, <1>4, <1>5, <2>2, <2>3, <2>4, AddressStays
  <2>5. CASE pc[k] \notin Linked
    <3>1. assoc' = [assoc EXCEPT ![a] = r]
      BY <1>1, <1>8, <2>1, <2>5 DEF Path
    <3> QED BY <1>1, <2>2, <2>5, <3>1 DEF Types
  <2> QED BY <2>2, <2>3, <2>4, <2>5
<1>9. ASSUME pc'[k] \in Late
      PROVE  rtable'[home'[r]] \in routed'
  <2>1. pc[k] \in {"online"} \cup Late /\ assoc[a] = r
    BY <1>1, <1>8, <1>9 DEF Path
  <2>2. rtable[home[r]] \in routed
    BY <1>1, <1>9, <2>1 DEF Path, Building
  <2>3. home[r] \in subnets /\ subnets \subseteq Runs
    <3>1. Holding(r, Manager[k]) /\ Kept(r)
      BY <1>3, <1>4, <1>5 DEF Holding, CInv
    <3> QED BY <1>1, <1>5, <3>1 DEF Kept, Types
  <2>4. home'[r] = home[r]
    BY <1>3, <2>1, MachineMoves DEF Launched
  <2> QED BY <2>2, <2>3, <2>4, RouteStays
<1> QED BY <1>7, <1>8, <1>9

(* Nothing comes back of a run whose destruction has begun.                *)
LEMMA StaysDown ==
  ASSUME CInv, Writers, NEW r \in Runs, r \in begun
  PROVE  /\ use'[r] = use[r]
         /\ Ended(r) => Ended(r)'
         /\ r \notin groups => r \notin groups'
         /\ r \notin keys => r \notin keys'
         /\ use[r]["address"] \notin addrs => use[r]["address"] \notin addrs'
         /\ use[r]["subnet"] \notin subnets => use[r]["subnet"] \notin subnets'
<1>1. ~Current(r)
  BY StepPast DEF Past
<1>2. use'[r] = use[r]
  BY <1>1, UseKept
<1>3. Ended(r) => Ended(r)'
  <2>1. Ips[r[1]] \subseteq AllIps
    BY RunsFacts, IpFacts
  <2> QED BY <2>1, MachineMoves DEF Ended
<1>4. (r \notin groups => r \notin groups') /\ (r \notin keys => r \notin keys')
  BY <1>1, SecMoves
<1>5. \A q \in Runs : Named(q) /\ None # q
  BY AccountAssumption DEF CInv, AccountAssumption
<1>6. use[r]["address"] \notin addrs => use[r]["address"] \notin addrs'
  BY <1>5, AddressMoves DEF Named
<1>7. use[r]["subnet"] \notin subnets => use[r]["subnet"] \notin subnets'
  BY <1>5, NetMoves DEF Named
<1> QED BY <1>2, <1>3, <1>4, <1>6, <1>7

(* What a destruction has achieved is not undone by the others.            *)
LEMMA StepDestroying ==
  ASSUME CInv, Writers, NEW k \in Confs
  PROVE  Destroying(k)'
<1> DEFINE Torn == {"delGroup", "delKey", "findAddress", "release", "delSubnet"}
<1>1. Path(k) /\ Destroying(k) /\ Order(k) /\ Types
  BY StepPaths DEF CInv
<1> SUFFICES ASSUME pc'[k] \in Torn
             PROVE  Destroying(k)'
  BY DEF Destroying
<1>2. pc[k] \in DestroyLocs
  BY <1>1 DEF Path, DestroyLocs
<1>3. summary'[k] = summary[k]
  BY DiskMoves
<1>4. PICK r \in Runs : r = summary[k] /\ r \in begun /\ r[1] = k
  BY <1>1, <1>2, RunFacts DEF Order
<1>5. summary'[k] = r
  BY <1>3, <1>4
<1>6. Ended(r)
  BY <1>1, <1>4 DEF Path, Destroying, Ended, Cid
<1>7. pc'[k] \in {"delKey", "findAddress", "release", "delSubnet"} => r \notin groups'
  BY <1>1, <1>4, StaysDown DEF Path, Destroying, Cid
<1>8. pc'[k] \in {"findAddress", "release", "delSubnet"} => r \notin keys'
  BY <1>1, <1>4, StaysDown DEF Path, Destroying, Cid
<1>9. pc'[k] = "delSubnet" => use'[r]["address"] \notin addrs'
  BY <1>1, <1>4, StaysDown DEF Path, Destroying, Cid
<1>10. Ended(r)'
  BY <1>4, <1>6, StaysDown
<1> QED BY <1>5, <1>7, <1>8, <1>9, <1>10 DEF Destroying, Ended

(* A cloud that is up stays whole.                                         *)
LEMMA StepUp ==
  ASSUME CInv, Writers
  PROVE  UpIsWhole'
<1> SUFFICES ASSUME NEW r \in Runs, r = summary'[r[1]], r \notin begun'
             PROVE  /\ \A ip \in Ips[r[1]] : inst'[r][ip] = "running"
                    /\ r \in groups'
                    /\ use'[r]["address"] \in addrs' /\ assoc'[use'[r]["address"]] = r
                    /\ home'[r] \in subnets' /\ rtable'[home'[r]] \in routed'
  BY DEF UpIsWhole, Up
<1> DEFINE k == r[1]
           a == use[r]["address"]
<1>1. k \in Confs /\ Ips[k] \subseteq AllIps /\ Manager[k] \in Ips[k]
  BY RunsFacts, IpFacts
<1>2. r \notin begun /\ Types
  BY DiskMoves DEF CInv
<1>3. /\ \A ip \in Ips[k] : inst[r][ip] = "running"
      /\ assoc[a] = r /\ rtable[home[r]] \in routed /\ a # None
      /\ pc[k] # "launch" \/ ~Current(r)
  <2>1. CASE summary'[k] = summary[k]
    <3>1. Up(r) /\ UpIsWhole /\ Complete(k) /\ Order(k)
      BY <1>1, <1>2, <2>1 DEF Up, CInv
    <3>2. ~Current(r) /\ a # None
      BY <2>1, <3>1, AccountAssumption DEF Order, Complete, Kinds, Past, AccountAssumption
    <3> QED BY <3>1, <3>2 DEF UpIsWhole
  <2>2. CASE summary'[k] # summary[k]
    <3>1. pc[k] = "saveSummary" /\ r = Run(k)
      BY <1>1, <2>2, DiskMoves
    <3>2. Building(k) /\ Progress(k)
      BY <1>1 DEF CInv
    <3> QED BY <3>1, <3>2
            DEF Building, Progress, Setting, SetupLocs, AfterVpc, AfterSubnet, AfterGateway,
                AfterAddress
  <2> QED BY <2>1, <2>2
<1>4. a \in Runs /\ use'[r]["address"] = a
  BY <1>2, <1>3, UseKept DEF Types, Kinds
<1>5. \A ip \in Ips[k] : inst'[r][ip] = "running"
  BY <1>1, <1>2, <1>3, RunningStays
<1>6. assoc'[a] = r /\ a \in addrs'
  BY <1>1, <1>3, <1>4, AddressStays
<1>7. r \in groups' /\ home'[r] \in subnets'
  <2>1. Kept(r)' /\ Holding(r, Manager[k])'
    BY <1>1, <1>5, StepKept DEF Holding
  <2> QED BY <1>1, <2>1 DEF Kept
<1>8. rtable'[home'[r]] \in routed'
  <2>1. home'[r] = home[r]
    BY <1>3, MachineMoves DEF Launched
  <2>2. home[r] \in Runs
    BY <1>7, <2>1, NetMoves
  <2> QED BY <1>3, <2>1, <2>2, RouteStays
<1> QED BY <1>4, <1>5, <1>6, <1>7, <1>8

(* A cloud that was torn down stays so.                                    *)
LEMMA StepTorn ==
  ASSUME CInv, Writers
  PROVE  TornDown'
<1> SUFFICES ASSUME NEW r \in torn'
             PROVE  /\ Ended(r)' /\ r \notin groups' /\ r \notin keys'
                    /\ use'[r]["address"] \notin addrs' /\ use'[r]["subnet"] \notin subnets'
  BY DEF TornDown, Ended
<1>1. r \in Runs /\ Types
  BY DiskMoves DEF CInv
<1>2. CASE r \in torn
  <2>1. r \in begun /\ TornDown
    BY <1>1, <1>2 DEF CInv, Types
  <2> QED BY <1>1, <1>2, <2>1, StaysDown DEF TornDown, Ended
<1>3. CASE r \notin torn
  <2>1. r = summary[r[1]] /\ pc[r[1]] = "delSubnet" /\ use[r]["subnet"] \notin subnets'
    BY <1>3, DiskMoves
  <2>2. Destroying(r[1]) /\ Order(r[1])
    BY <1>1, RunsFacts DEF CInv
  <2>3. r \in begun
    BY <2>1, <2>2 DEF Order, DestroyLocs
  <2> QED BY <1>1, <2>1, <2>2, <2>3, StaysDown DEF Destroying
<1> QED BY <1>2, <1>3

-----------------------------------------------------------------------------
(* The variables that nothing else depends on.                             *)
LEMMA StepRest ==
  ASSUME CInv, [Next]_vars
  PROVE  /\ failed \subseteq failed' /\ failed' \subseteq Runs
         /\ sweep' \in {"idle", "groups", "keys"} /\ listed' \subseteq Runs
         /\ faults' \in 0..MaxFaults
<1>1. Types /\ \A k \in Confs : Setting(k) => Run(k) \in Runs
  BY RunFacts DEF CInv
<1> HIDE DEF CInv
<1> USE DEF vars, toolVars, setupVars, diskVars, destroyVars, sweepVars, accountVars, secVars,
        Types
<1>2. ASSUME failed' = failed, UNCHANGED <<sweepVars, faults>>
      PROVE  /\ failed \subseteq failed' /\ failed' \subseteq Runs
             /\ sweep' \in {"idle", "groups", "keys"} /\ listed' \subseteq Runs
             /\ faults' \in 0..MaxFaults
  BY <1>1, <1>2
<1>3. ASSUME NEW k \in Confs, Setup(k)
      PROVE  failed \subseteq failed' /\ failed' \subseteq Runs /\ UNCHANGED <<sweepVars, faults>>
  <2>1. failed' = failed \/ (Setting(k) /\ failed' = failed \cup {Run(k)})
    BY <1>3
    DEF Setup, StartSetup, SetupStep, GetVpc, CreateVpc, GetSubnet, CreateSubnet, GetGateway,
        CreateGateway, AttachGateway, GetAddress, AllocateAddress, AssociateTable, CreateRoute,
        CreateGroup, CreateKey, Launch, Boot, AssociateAddress, Connect, Online, SaveKey,
        SaveSummary, SetupRaises, At, Setting, SetupLocs
  <2> QED BY <1>1, <1>3, <2>1 DEF Setup
<1>4. ASSUME NEW k \in Confs, Start(k) \/ Destroy(k)
      PROVE  failed' = failed /\ UNCHANGED <<sweepVars, faults>>
  BY <1>4
  DEF Start, StartDestroy, Destroy, DestroyStep, Terminate, AwaitTerminated, DeleteGroup,
      DeleteKey, FindAddress, Release, DeleteSubnet, DestroyRaises
<1>5. ASSUME NEW k \in Confs, Fault(k)
      PROVE  failed \subseteq failed' /\ failed' \subseteq Runs /\ UNCHANGED sweepVars /\ faults' \in 0..MaxFaults
  <2>1. failed' = failed \/ (Setting(k) /\ failed' = failed \cup {Run(k)})
    BY <1>5 DEF Fault, SetupFails, SetupRaises, DestroyFails, DestroyRaises, Setting
  <2> QED BY <1>1, <1>5, <2>1, CloudAssumption DEF Fault, CloudAssumption
<1>6. ASSUME SweepStep
      PROVE  /\ failed' = failed /\ sweep' \in {"idle", "groups", "keys"} /\ listed' \subseteq Runs
  BY <1>1, <1>6 DEF SweepStep, ListGroups, ListKeys, SweepEnds, SweepGroup, SweepKey
<1>7. ASSUME NEW r \in Runs, NEW ip \in Ips[r[1]], Machine(r, ip)
      PROVE  failed' = failed /\ UNCHANGED <<sweepVars, faults>>
  BY <1>7 DEF Machine
<1>8. CASE UNCHANGED vars
  BY <1>2, <1>8
<1> QED BY <1>1, <1>2, <1>3, <1>4, <1>5, <1>6, <1>7, <1>8 DEF Next, CleanAll

(* The invariant holds at the beginning and is kept by every step.         *)
LEMMA CInvInit == Init => CInv
<1> SUFFICES ASSUME Init PROVE CInv
  OBVIOUS
<1> USE AccountAssumption, CloudAssumption DEF Init, AccountInit, AccountAssumption, CloudAssumption
<1>1. Types
  BY DEF Types, SetupLocs, DestroyLocs, Unused, Kinds, InstStates
<1>2. \A k \in Confs : pc[k] = "idle" /\ ~Setting(k) /\ pc[k] \notin DestroyLocs /\ summary[k] = None
  BY DEF Setting, SetupLocs, DestroyLocs
<1>3. \A r \in Runs : \A x \in Kinds : use[r][x] = None
  BY DEF Unused, Kinds
<1>4. PastBegun /\ \A k \in Confs : Order(k) /\ Progress(k) /\ Complete(k)
  BY <1>2 DEF PastBegun, Order, Progress, Complete
<1>5. \A r \in Runs : Fresh(r) /\ Named(r) /\ Routed(r) /\ Kept(r)
  BY <1>3 DEF Fresh, Named, Routed, Kept, Holding, Kinds
<1>6. \A k \in Confs : Building(k) /\ Destroying(k)
  BY <1>2 DEF Building, Destroying
<1>7. UpIsWhole /\ TornDown
  BY <1>2, RunsFacts DEF UpIsWhole, Up, TornDown
<1> QED BY <1>1, <1>4, <1>5, <1>6, <1>7 DEF CInv

(* Every step keeps the invariant,                                         *)
LEMMA CInvStep == CInv /\ [Next]_vars => CInv'
<1> SUFFICES ASSUME CInv, [Next]_vars PROVE CInv'
  OBVIOUS
<1>1. Writers
  BY StepWriters DEF CInv
<1>2. Types'
  BY <1>1, StepRest, UseMoves, MachineMoves, NetMoves, SecMoves, AddressMoves, DiskMoves
  DEF Types, Writers
<1>3. PastBegun' /\ \A k \in Confs : Order(k)' /\ Progress(k)' /\ Complete(k)'
  BY <1>1, StepOrder, StepProgress, StepComplete
<1>4. \A r \in Runs : Fresh(r)' /\ Named(r)' /\ Routed(r)' /\ Kept(r)'
  BY <1>1, StepFresh, StepNamed, StepRouted, StepKept
<1>5. \A k \in Confs : Building(k)' /\ Destroying(k)'
  BY <1>1, StepBuilding, StepDestroying
<1>6. UpIsWhole' /\ TornDown'
  BY <1>1, StepUp, StepTorn
<1> QED BY <1>2, <1>3, <1>4, <1>5, <1>6 DEF CInv

(* so it always holds.                                                     *)
LEMMA CInvInductive == Spec => []CInv
BY CInvInit, CInvStep, PTL DEF Spec

(* The variables have their types, and what a later call needs of an       *)
(* earlier one is there.                                                   *)
THEOREM CloudTypeCorrect == Spec => []CloudTypeOK
<1>1. CInv => CloudTypeOK
  <2> SUFFICES ASSUME CInv PROVE CloudTypeOK
    OBVIOUS
  <2>1. Types /\ \A k \in Confs : Order(k) /\ Progress(k) /\ Complete(k)
    BY DEF CInv
  <2>2. \A k \in Confs : pc[k] \in {"table", "route", "group", "key", "launch", "associate", "connect", "online"}
          => use[Run(k)].address \in Runs
    <3> SUFFICES ASSUME NEW k \in Confs,
                        pc[k] \in {"table", "route", "group", "key", "launch", "associate", "connect", "online"}
                 PROVE  use[Run(k)]["address"] \in Runs
      OBVIOUS
    <3>1. Setting(k) /\ use[Run(k)]["address"] # None
      BY <2>1 DEF Progress, Setting, SetupLocs, AfterVpc, AfterSubnet, AfterGateway, AfterAddress
    <3> QED BY <2>1, <3>1, RunFacts DEF Types, Kinds
  <2>3. \A k \in Confs : summary[k] # None => None \notin {use[summary[k]][x] : x \in DOMAIN Unused}
    BY <2>1 DEF Complete, Unused, Kinds
  <2>4. \A k \in Confs : pc[k] \in DestroyLocs => Cid(k) # None
    BY <2>1 DEF Order, Cid
  <2>5. \A d \in DOMAIN pem : pem[d] \in Runs \cup {None}
    BY <2>1 DEF Types
  <2> QED BY <2>1, <2>2, <2>3, <2>4, <2>5 DEF CloudTypeOK, AccountTypeOK, Types, Kinds
<1> QED BY <1>1, CInvInductive, PTL

(* Whatever the others do, a cloud that is up stays whole.                 *)
THEOREM UpStaysWhole == Spec => []UpIsWhole
<1>1. CInv => UpIsWhole
  BY DEF CInv
<1> QED BY <1>1, CInvInductive, PTL

(* What was reported as torn down is gone, and nothing of it comes back.   *)
THEOREM TornStaysDown == Spec => []TornDown
<1>1. CInv => TornDown
  BY DEF CInv
<1> QED BY <1>1, CInvInductive, PTL

-----------------------------------------------------------------------------
(* Setting up the same file again.  A second run of a definition finds the *)
(* subnet of the first by its block, and there the addresses that its      *)
(* machines should have are taken, as long as the first one's hold them.   *)
(* That needs a block for every definition of its own: of another one's    *)
(* subnet with the same block, in another VPC, the second run would take   *)
(* the addresses, and its summary and its key would replace the first's.   *)
BlocksDiffer == \A k, j \in Confs : Cidr[k] = Cidr[j] => k = j

OfBlock(r) == use[r]["subnet"] # None => use[r]["subnet"][1] = r[1]
OneSubnet  == \A s, t \in subnets : s[1] = t[1] => s = t
NoSubnet(k) == pc[k] = "createSubnet" => \A s \in subnets : s[1] # k
Exclusive ==
  \A r \in Runs : \A q \in Runs \ {r} : \A ip \in AllIps :
    Holding(r, ip) /\ Holding(q, ip) => home[r] # home[q]

KeySaved(k) ==
  (\A j \in Confs : Dir[j] = Dir[k] => j = k) /\ pc[k] = "saveSummary" => pem[Dir[k]] = Run(k)

AInv ==
  /\ \A r \in Runs : OfBlock(r)
  /\ OneSubnet /\ Exclusive
  /\ \A k \in Confs : NoSubnet(k) /\ KeySaved(k)
  /\ InstancesAccounted /\ KeyOnDisk

(* Two runs of a definition never have a machine at the same address.      *)
LEMMA RunsApart ==
  ASSUME CInv, AInv, NEW r \in Runs, NEW q \in Runs \ {r}, r[1] = q[1], NEW ip \in AllIps
  PROVE  ~(Holding(r, ip) /\ Holding(q, ip))
<1> SUFFICES ASSUME Holding(r, ip), Holding(q, ip) PROVE FALSE
  OBVIOUS
<1>1. Kept(r) /\ Kept(q) /\ subnets \subseteq Runs /\ None \notin Runs
  BY AccountAssumption DEF CInv, Types, AccountAssumption
<1>2. home[r] \in subnets /\ home[q] \in subnets /\ home[r][1] = r[1] /\ home[q][1] = q[1]
  BY <1>1 DEF AInv, Kept, OfBlock
<1> QED BY <1>2 DEF AInv, OneSubnet, Exclusive

(* Only the run of a definition makes a subnet, or takes one, of its block.*)
LEMMA StepOfBlock ==
  ASSUME BlocksDiffer, CInv, AInv, Writers, NEW r \in Runs
  PROVE  OfBlock(r)'
<1>1. OfBlock(r) /\ Types /\ r[1] \in Confs
  BY RunsFacts DEF CInv, AInv
<1>2. CASE use'[r]["subnet"] = use[r]["subnet"]
  BY <1>1, <1>2 DEF OfBlock
<1>3. CASE use'[r]["subnet"] # use[r]["subnet"]
  <2> PICK k \in Confs :
        \/ GetVpc(k) \/ CreateVpc(k) \/ GetSubnet(k) \/ CreateSubnet(k) \/ GetGateway(k)
        \/ CreateGateway(k) \/ GetAddress(k) \/ AllocateAddress(k) \/ AssociateTable(k)
    BY <1>3 DEF Writers
  <2>1. ASSUME NEW y \in Kinds \ {"subnet"}, NEW x, Got(k, y, x) PROVE FALSE
    BY <1>1, <1>3, <2>1 DEF Got, Types, Kinds
  <2>2. GetSubnet(k) \/ CreateSubnet(k)
    BY <1>3, <2>1 DEF GetVpc, CreateVpc, GetGateway, CreateGateway, GetAddress,
       AllocateAddress, AssociateTable, SetupRaises, Kinds
  <2>3. \E s \in subnets \cup {Run(k)} : Cidr[s[1]] = Cidr[k] /\ Got(k, "subnet", s)
    BY <1>3, <2>2 DEF GetSubnet, CreateSubnet, SetupRaises, Run
  <2>4. r = Run(k) /\ Cidr[use'[r]["subnet"][1]] = Cidr[k]
    BY <1>1, <1>3, <2>3 DEF Got, Types, Kinds
  <2>5. use'[r]["subnet"] \in Runs
    BY <1>3, UseMoves DEF Gets, Kinds
  <2> QED BY <2>4, <2>5, RunsFacts DEF BlocksDiffer, OfBlock, Run
<1> QED BY <1>2, <1>3

(* There is at most one subnet of a block.                                 *)
LEMMA StepOneSubnet ==
  ASSUME BlocksDiffer, CInv, AInv, Writers
  PROVE  OneSubnet' /\ \A k \in Confs : NoSubnet(k)'
<1>1. ASSUME NEW k \in Confs, CreateSubnet(k), subnets' # subnets
      PROVE  /\ subnets' = subnets \cup {Run(k)} /\ pc[k] = "createSubnet" /\ pc'[k] = "gateway"
             /\ \A j \in Confs \ {k} : pc'[j] = pc[j]
  <2>1. /\ subnets' = subnets \cup {Run(k)} /\ pc[k] = "createSubnet"
        /\ pc' = [pc EXCEPT ![k] = "gateway"]
    BY <1>1 DEF CreateSubnet, SetupRaises, At, Goto, accountVars, netVars
  <2> QED BY <2>1 DEF CInv, Types
<1>2. ASSUME NEW k \in Confs, DeleteSubnet(k)
      PROVE  /\ subnets' \subseteq subnets /\ pc'[k] = "idle"
             /\ \A j \in Confs \ {k} : pc'[j] = pc[j]
  BY <1>2 DEF DeleteSubnet, DestroyRaises, accountVars, netVars, Goto, CInv, Types
<1>3. subnets' = subnets \/ (\E k \in Confs : CreateSubnet(k)) \/ (\E k \in Confs : DeleteSubnet(k))
  BY DEF Writers
<1>4. OneSubnet /\ \A k \in Confs : NoSubnet(k)
  BY DEF AInv
<1>5. OneSubnet'
  BY <1>1, <1>2, <1>3, <1>4 DEF OneSubnet, NoSubnet, Run
<1>6. ASSUME NEW k \in Confs, pc'[k] = "createSubnet" PROVE \A s \in subnets' : s[1] # k
  <2>1. CASE subnets' # subnets
    BY <1>1, <1>2, <1>3, <1>4, <1>6, <2>1 DEF NoSubnet, Run
  <2>2. CASE subnets' = subnets /\ pc[k] = "createSubnet"
    BY <1>4, <2>2 DEF NoSubnet
  <2>3. CASE subnets' = subnets /\ pc[k] # "createSubnet"
    <3>1. Tool(k) /\ pc \in [Confs -> SetupLocs \cup DestroyLocs \cup {"idle"}]
      BY <1>6, <2>3 DEF Writers, CInv, Types
    <3>2. GetSubnet(k)
      BY <1>6, <2>3, <3>1
      DEF Tool, SetupStep, StartSetup, GetVpc, CreateVpc, CreateSubnet, GetGateway,
        CreateGateway, AttachGateway, GetAddress, AllocateAddress, AssociateTable, CreateRoute,
        CreateGroup, CreateKey, Launch, Boot, AssociateAddress, Connect, Online, SaveKey,
        SaveSummary, SetupFails, SetupRaises, StartDestroy, DestroyStep, Terminate,
        AwaitTerminated, DeleteGroup, DeleteKey, FindAddress, Release, DeleteSubnet,
        DestroyFails, DestroyRaises, Goto, toolVars
    <3> QED BY <1>6, <2>3, <3>1, <3>2 DEF GetSubnet, Goto
  <2> QED BY <2>1, <2>2, <2>3
<1> QED BY <1>5, <1>6 DEF NoSubnet

(* A machine is launched at an address that is free in its subnet.         *)
LEMMA LaunchMoves ==
  ASSUME CInv, Writers, NEW r \in Runs, NEW ip \in AllIps,
         inst[r][ip] = "none", inst'[r][ip] # "none"
  PROVE  /\ ~IpInUse(use[r]["subnet"], ip)
         /\ \A q \in Runs \ {r} : inst'[q] = inst[q] /\ home'[q] = home[q]
<1>1. Types
  BY DEF CInv
<1>2. inst' # inst
  OBVIOUS
<1>3. ~\E k \in Confs : \E jp \in Ips[k] : Terminate(k, jp)
  <2> SUFFICES ASSUME NEW k \in Confs, NEW jp \in Ips[k], Terminate(k, jp) PROVE FALSE
    OBVIOUS
  <2>1. inst' = [inst EXCEPT ![Cid(k)][jp] = "shutting-down"] /\ inst[Cid(k)][jp] # "none"
    BY DEF Terminate
  <2> QED BY <1>1, <2>1 DEF Types
<1>4. ~\E q \in Runs : \E jp \in Ips[q[1]] : MachineStep(q, jp)
  <2> SUFFICES ASSUME NEW q \in Runs, NEW jp \in Ips[q[1]], MachineStep(q, jp) PROVE FALSE
    OBVIOUS
  <2>1. inst[q][jp] # "none" /\ \E x : inst' = [inst EXCEPT ![q][jp] = x]
    BY DEF MachineStep
  <2> QED BY <1>1, <2>1 DEF Types
<1>5. PICK k \in Confs : \E jp \in Ips[k] : Launch(k, jp)
  BY <1>2, <1>3, <1>4 DEF Writers
<1>6. PICK jp \in Ips[k] : Launch(k, jp)
  BY <1>5
<1>7. /\ inst' = [inst EXCEPT ![Run(k)][jp] = "pending"]
      /\ home' = [home EXCEPT ![Run(k)] = use[Run(k)]["subnet"]]
      /\ ~IpInUse(use[Run(k)]["subnet"], jp)
  BY <1>2, <1>6 DEF Launch, CanLaunch, SetupRaises, accountVars, instVars
<1>8. r = Run(k) /\ ip = jp
  BY <1>1, <1>7 DEF Types
<1> QED BY <1>1, <1>7, <1>8 DEF Types

(* Two runs never hold one address of one subnet.                          *)
LEMMA StepExclusive ==
  ASSUME CInv, AInv, Writers
  PROVE  Exclusive'
<1> SUFFICES ASSUME NEW r \in Runs, NEW q \in Runs \ {r}, NEW ip \in AllIps,
                    Holding(r, ip)', Holding(q, ip)'
             PROVE  home'[r] # home'[q]
  BY DEF Exclusive
<1>1. \A p \in {r, q} : /\ p \in Runs /\ Kept(p) /\ Kept(p)'
                        /\ use[p]["subnet"] # None => use'[p]["subnet"] = use[p]["subnet"]
  BY StepKept, UseKept DEF CInv, Kinds
<1>2. subnets \subseteq Runs /\ None \notin Runs
  BY AccountAssumption DEF CInv, Types, AccountAssumption
<1>3. \A p \in {r, q} : Holding(p, ip) => home'[p] = home[p]
  BY <1>1, <1>2 DEF Kept
<1>4. \A p \in {r, q} : ~Holding(p, ip) => inst[p][ip] = "none" /\ inst'[p][ip] # "none"
  BY MachineMoves DEF Holding
<1>5. \A p \in {r, q} : ~Holding(p, ip) => home'[p] = use[p]["subnet"]
  BY <1>1, <1>4, MachineMoves DEF Launched
<1>6. CASE Holding(r, ip) /\ Holding(q, ip)
  BY <1>3, <1>6 DEF AInv, Exclusive
<1>7. ASSUME NEW p \in {r, q}, NEW o \in {r, q} \ {p}, ~Holding(p, ip)
      PROVE  home'[p] # home'[o]
  <2>1. ~IpInUse(use[p]["subnet"], ip) /\ inst'[o] = inst[o] /\ home'[o] = home[o]
    BY <1>1, <1>4, <1>7, LaunchMoves
  <2>2. Holding(o, ip)
    BY <2>1 DEF Holding
  <2> QED BY <1>1, <1>5, <1>7, <2>1, <2>2 DEF IpInUse
<1> QED BY <1>6, <1>7

(* A setup ends by raising, or with its summary.                           *)
LEMMA SetupEnds ==
  ASSUME CInv, Writers, NEW k \in Confs, Setting(k), ~Setting(k)'
  PROVE  Run(k) \in failed' \/ summary'[k] = Run(k)
<1>1. pc'[k] # pc[k] /\ Types
  BY DEF Setting, CInv
<1>2. Tool(k)
  BY <1>1 DEF Writers
<1>3. CASE SetupRaises(k)
  BY <1>3 DEF SetupRaises
<1>4. CASE SaveSummary(k)
  BY <1>1, <1>4 DEF SaveSummary, Types
<1>5. CASE ~SetupRaises(k) /\ ~SaveSummary(k)
  <2>1. pc[k] \in SetupLocs /\ pc[k] # "idle" /\ pc[k] \notin DestroyLocs
    BY DEF Setting, SetupLocs, DestroyLocs
  <2>2. SetupStep(k)
    BY <1>2, <1>5, <2>1
    DEF Tool, StartSetup, SetupFails, StartDestroy, DestroyStep, Terminate, AwaitTerminated,
        DeleteGroup, DeleteKey, FindAddress, Release, DeleteSubnet, DestroyFails, At, DestroyLocs
  <2>3. pc'[k] = pc[k] \/ pc'[k] \in SetupLocs
    BY <1>1, <1>5, <2>2
    DEF SetupStep, GetVpc, CreateVpc, GetSubnet, CreateSubnet, GetGateway, CreateGateway,
        AttachGateway, GetAddress, AllocateAddress, AssociateTable, CreateRoute, CreateGroup,
        CreateKey, Launch, Boot, AssociateAddress, Connect, Online, SaveKey, SaveSummary, Goto,
        SetupLocs, Types, toolVars
  <2> QED BY <1>1, <2>1, <2>3 DEF Setting
<1> QED BY <1>3, <1>4, <1>5

(* No machine that runs is forgotten.                                      *)
LEMMA StepAccounted ==
  ASSUME CInv, AInv, Writers, failed \subseteq failed'
  PROVE  InstancesAccounted'
<1> SUFFICES ASSUME NEW r \in Runs, NEW ip \in Ips[r[1]], inst'[r][ip] \in {"pending", "running"}
             PROVE  \/ summary'[r[1]] = r
                    \/ pc'[r[1]] \in SetupLocs /\ r = <<r[1], runs'[r[1]]>>
                    \/ r \in failed'
  BY DEF InstancesAccounted, Run
<1> DEFINE k == r[1]
<1>1. k \in Confs /\ ip \in AllIps /\ Path(k) /\ Order(k) /\ runs[k] \in Nat
  BY RunsFacts, IpFacts, StepPaths, AccountAssumption DEF CInv, Types, AccountAssumption
<1>2. CASE Current(r)
  <2>1. CASE Setting(k)'
    <3>1. pc'[k] \in SetupLocs /\ pc[k] # "idle"
      BY <1>2, <2>1 DEF Current, Setting, SetupLocs
    <3> QED BY <1>1, <1>2, <3>1 DEF Path, Current, Run
  <2>2. CASE ~Setting(k)'
    BY <1>1, <1>2, <2>2, SetupEnds DEF Current
  <2> QED BY <2>1, <2>2
<1>3. CASE ~Current(r)
  <2>1. inst[r][ip] \in {"pending", "running"}
    BY <1>1, <1>3, MachineMoves DEF Launched
  <2>2. summary[k] = r \/ r \in failed
    BY <1>3, <2>1 DEF AInv, InstancesAccounted, Current, Setting
  <2>3. CASE summary[k] = r /\ summary'[k] # r
    <3>1. pc[k] = "saveSummary" /\ Building(k) /\ Setting(k)
      BY <1>1, <2>3, DiskMoves DEF CInv, Setting, SetupLocs
    <3>2. Run(k) \in Runs /\ Run(k)[1] = k /\ Run(k) # r
      BY <1>1, <1>3, <3>1, RunFacts DEF CInv, Current
    <3>3. Holding(r, ip) /\ Holding(Run(k), ip)
      BY <2>1, <3>1 DEF Building, Holding
    <3> QED BY <1>1, <3>2, <3>3, RunsApart
  <2> QED BY <2>2, <2>3
<1> QED BY <1>2, <1>3

(* What happens to the file of a directory that is an operator's own.      *)
LEMMA PemMoves ==
  ASSUME CInv, Writers, NEW k \in Confs, \A j \in Confs : Dir[j] = Dir[k] => j = k
  PROVE  \/ pem'[Dir[k]] = pem[Dir[k]]
         \/ pc[k] = "saveKey" /\ pc'[k] = "saveSummary"
         \/ pc[k] = "delKey"
<1>1. Types
  BY DEF CInv
<1>2. CASE pem' = pem
  BY <1>2
<1>3. ASSUME NEW j \in Confs, SaveKey(j)
      PROVE  pc[j] = "saveKey" /\ pc'[j] = "saveSummary" /\ pem' = [pem EXCEPT ![Dir[j]] = Run(j)]
  BY <1>1, <1>3 DEF SaveKey, At, Goto, Types
<1>4. ASSUME NEW j \in Confs, DeleteKey(j)
      PROVE  pc[j] = "delKey" /\ (pem' = pem \/ pem' = [pem EXCEPT ![Dir[j]] = None])
  BY <1>4 DEF DeleteKey, At
<1>5. Dir[k] \in DOMAIN pem
  BY <1>1 DEF Types
<1> QED BY <1>2, <1>3, <1>4, <1>5 DEF Writers

(* The key is on the disk before the summary is.                           *)
LEMMA StepKeySaved ==
  ASSUME CInv, AInv, Writers, NEW k \in Confs
  PROVE  KeySaved(k)'
<1> SUFFICES ASSUME \A j \in Confs : Dir[j] = Dir[k] => j = k, pc'[k] = "saveSummary"
             PROVE  pem'[Dir[k]] = Run(k)'
  BY DEF KeySaved
<1>1. Path(k) /\ KeySaved(k) /\ Types
  BY StepPaths DEF CInv, AInv
<1>2. Run(k)' = Run(k)
  BY <1>1 DEF Path, Run
<1>3. CASE pc[k] = "saveSummary"
  BY <1>1, <1>2, <1>3, PemMoves DEF KeySaved
<1>4. CASE pc[k] # "saveSummary"
  BY <1>1, <1>2, <1>4 DEF Path, Types
<1> QED BY <1>3, <1>4

(* The key of a cloud that is up stays on its operator's disk.             *)
LEMMA StepKeyOnDisk ==
  ASSUME CInv, AInv, Writers
  PROVE  KeyOnDisk'
<1> SUFFICES ASSUME NEW r \in Runs, r = summary'[r[1]], r \notin begun',
                    \A j \in Confs : Dir[j] = Dir[r[1]] => j = r[1]
             PROVE  pem'[Dir[r[1]]] = r
  BY DEF KeyOnDisk, Up
<1> DEFINE k == r[1]
<1>1. k \in Confs /\ Order(k) /\ Building(k) /\ KeySaved(k) /\ r \notin begun
  BY RunsFacts, DiskMoves DEF CInv, AInv
<1>2. CASE summary'[k] = summary[k]
  <2>1. Up(r) /\ pem[Dir[k]] = r /\ ~Current(r)
    BY <1>1, <1>2, AccountAssumption DEF Up, AInv, KeyOnDisk, Order, Past, AccountAssumption
  <2>2. pc[k] # "delKey"
    BY <1>1, <2>1 DEF Order, Up, DestroyLocs
  <2>3. pc[k] # "saveKey"
    <3> SUFFICES ASSUME pc[k] = "saveKey" PROVE FALSE
      OBVIOUS
    <3>1. Setting(k) /\ Run(k) \in Runs /\ Run(k)[1] = k /\ Run(k) # r
      BY <1>1, <2>1, RunFacts DEF Setting, SetupLocs, CInv, Current
    <3>2. Manager[k] \in Ips[k] /\ Manager[k] \in AllIps
      BY <1>1, IpFacts
    <3>3. Holding(Run(k), Manager[k]) /\ Holding(r, Manager[k])
      BY <1>1, <2>1, <3>2 DEF Building, CInv, UpIsWhole, Holding
    <3> QED BY <3>1, <3>2, <3>3, RunsApart
  <2> QED BY <1>1, <2>1, <2>2, <2>3, PemMoves
<1>3. CASE summary'[k] # summary[k]
  <2>1. pc[k] = "saveSummary" /\ r = Run(k)
    BY <1>1, <1>3, DiskMoves
  <2> QED BY <1>1, <2>1, PemMoves DEF KeySaved
<1> QED BY <1>2, <1>3

(* All of that holds as long as no two definitions ask for one block.      *)
LEMMA AInvInductive ==
  ASSUME BlocksDiffer
  PROVE  Spec => []AInv
<1>1. Init => AInv
  <2> SUFFICES ASSUME Init PROVE AInv
    OBVIOUS
  <2> USE DEF Init, AccountInit
  <2>1. CInv
    BY CInvInit
  <2>2. \A r \in Runs : OfBlock(r)
    BY DEF OfBlock, Unused
  <2>3. OneSubnet /\ Exclusive /\ InstancesAccounted
    BY RunsFacts, IpFacts DEF OneSubnet, Exclusive, Holding, InstancesAccounted
  <2>4. \A k \in Confs : NoSubnet(k) /\ KeySaved(k)
    BY DEF NoSubnet, KeySaved
  <2>5. KeyOnDisk
    BY RunsFacts, AccountAssumption DEF KeyOnDisk, Up, AccountAssumption
  <2> QED BY <2>2, <2>3, <2>4, <2>5 DEF AInv
<1>2. CInv /\ AInv /\ [Next]_vars => AInv'
  <2> SUFFICES ASSUME CInv, AInv, [Next]_vars PROVE AInv'
    OBVIOUS
  <2>1. Writers /\ failed \subseteq failed'
    BY StepWriters, StepRest DEF CInv
  <2>2. \A r \in Runs : OfBlock(r)'
    BY <2>1, StepOfBlock
  <2>3. OneSubnet' /\ (\A k \in Confs : NoSubnet(k)') /\ Exclusive'
    BY <2>1, StepOneSubnet, StepExclusive
  <2>4. (\A k \in Confs : KeySaved(k)') /\ InstancesAccounted' /\ KeyOnDisk'
    BY <2>1, StepKeySaved, StepAccounted, StepKeyOnDisk
  <2> QED BY <2>2, <2>3, <2>4 DEF AInv
<1> QED BY <1>1, <1>2, CInvInductive, PTL DEF Spec

(* If no two definitions ask for the same block, every machine that runs   *)
(* is in a .cid file, being set up, or of a setup that raised: setting up  *)
(* a definition again does not make it forget the machines of the first.   *)
THEOREM MachinesAccounted ==
  ASSUME BlocksDiffer
  PROVE  Spec => []InstancesAccounted
<1>1. AInv => InstancesAccounted
  BY DEF AInv
<1> QED BY <1>1, AInvInductive, PTL

(* If no two definitions ask for the same block, the operator of a cloud   *)
(* that is up, in a directory of his own, has its private key.             *)
THEOREM KeyStaysOnDisk ==
  ASSUME BlocksDiffer
  PROVE  Spec => []KeyOnDisk
<1>1. AInv => KeyOnDisk
  BY DEF AInv
<1> QED BY <1>1, AInvInductive, PTL
=============================================================================
