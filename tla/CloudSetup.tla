----------------------------- MODULE CloudSetup -----------------------------
(***************************************************************************)
(* pop-cloud-setup (poputils/bin/setup.py), one action for every call that *)
(* it makes to the account or write to the disk.  A call that is refused,  *)
(* or a value that is not valid, raises: the tool stops where it is and    *)
(* takes nothing back.                                                     *)
(***************************************************************************)
EXTENDS CloudAccount

CONSTANTS Dir   \* Dir[k]: the directory that the operator of k works in

VARIABLES
  pc,        \* pc[k]: where the tool that the operator of k runs is
  runs,      \* runs[k]: how often k was set up, the last one perhaps still
  use,       \* use[r]: what a run has got or created
  failed,    \* the runs that raised
  pem,       \* pem[d]: the run whose private key is in key.pem of directory d
  summary    \* summary[k]: the run that the .cid file of k describes

SetupLocs == {"vpc", "createVpc", "subnet", "createSubnet", "gateway", "createGateway",
              "attach", "address", "allocate", "table", "route", "group", "key",
              "launch", "associate", "connect", "online", "saveKey", "saveSummary"}

Run(k)    == <<k, runs[k]>>
At(k, l)  == pc[k] = l
Goto(k, l) == pc' = [pc EXCEPT ![k] = l]
Got(k, kind, x) == use' = [use EXCEPT ![Run(k)][kind] = x]
diskVars  == <<pem, summary>>
toolVars  == <<pc, runs, use, failed, diskVars>>

Unused == [vpc |-> None, subnet |-> None, gateway |-> None, address |-> None, table |-> None]

(* The exception leaves setup(); everything created so far stays.          *)
SetupRaises(k) ==
  /\ Goto(k, "idle")
  /\ failed' = failed \cup {Run(k)}
  /\ UNCHANGED <<runs, use, diskVars, accountVars>>

StartSetup(k) ==
  /\ At(k, "idle") /\ runs[k] < MaxRuns
  /\ runs' = [runs EXCEPT ![k] = @ + 1]
  /\ Goto(k, "vpc")
  /\ UNCHANGED <<use, failed, diskVars, accountVars>>

-----------------------------------------------------------------------------
(* Step 3: the VPC (get_or_create).  The first VPC of the account is used, *)
(* whoever made it; lists come in no particular order.                     *)
GetVpc(k) ==
  /\ At(k, "vpc")
  /\ \/ vpcs = {} /\ Goto(k, "createVpc") /\ UNCHANGED <<runs, use, failed, diskVars, accountVars>>
     \/ \E v \in vpcs :
          \/ /\ <<k, v[1]>> \in Fits
             /\ Got(k, "vpc", v) /\ Goto(k, "subnet")
             /\ UNCHANGED <<runs, failed, diskVars, accountVars>>
          \/ <<k, v[1]>> \notin Fits /\ SetupRaises(k)

CreateVpc(k) ==
  /\ At(k, "createVpc")
  /\ vpcs' = vpcs \cup {Run(k)}
  /\ Got(k, "vpc", Run(k)) /\ Goto(k, "subnet")
  /\ UNCHANGED <<runs, failed, diskVars, gateways, subnets, attached, vpcOf, rtable,
                 routed, secVars, addrVars, instVars>>

-----------------------------------------------------------------------------
(* Step 4: subnet, gateway, address and routing.                           *)

(* get_or_create_subnet: by its block, among the subnets of every VPC.     *)
GetSubnet(k) ==
  LET same == {s \in subnets : Cidr[s[1]] = Cidr[k]}
  IN  /\ At(k, "subnet")
      /\ \/ same = {} /\ Goto(k, "createSubnet") /\ UNCHANGED use
         \/ \E s \in same : Got(k, "subnet", s) /\ Goto(k, "gateway")
      /\ UNCHANGED <<runs, failed, diskVars, accountVars>>

CreateSubnet(k) ==
  LET v == use[Run(k)].vpc
  IN  /\ At(k, "createSubnet")
      /\ \/ /\ CanCreateSubnet(k, v)
            /\ subnets' = subnets \cup {Run(k)}
            /\ vpcOf' = [vpcOf EXCEPT ![Run(k)] = v]
            /\ Got(k, "subnet", Run(k)) /\ Goto(k, "gateway")
            /\ UNCHANGED <<runs, failed, diskVars, vpcs, gateways, attached, rtable,
                           routed, secVars, addrVars, instVars>>
         \/ ~CanCreateSubnet(k, v) /\ SetupRaises(k)

GetGateway(k) ==
  /\ At(k, "gateway")
  /\ \/ gateways = {} /\ Goto(k, "createGateway") /\ UNCHANGED use
     \/ \E g \in gateways : Got(k, "gateway", g) /\ Goto(k, "attach")
  /\ UNCHANGED <<runs, failed, diskVars, accountVars>>

CreateGateway(k) ==
  /\ At(k, "createGateway")
  /\ gateways' = gateways \cup {Run(k)}
  /\ Got(k, "gateway", Run(k)) /\ Goto(k, "attach")
  /\ UNCHANGED <<runs, failed, diskVars, vpcs, subnets, attached, vpcOf, rtable, routed,
                 secVars, addrVars, instVars>>

(* An attached gateway is accepted, to whatever VPC it is attached.        *)
AttachGateway(k) ==
  LET g == use[Run(k)].gateway
      v == use[Run(k)].vpc
  IN  /\ At(k, "attach")
      /\ \/ /\ CanAttach(g, v)
            /\ attached' = [attached EXCEPT ![g] = v]
            /\ Goto(k, "address")
            /\ UNCHANGED <<runs, use, failed, diskVars, vpcs, gateways, subnets, vpcOf, rtable,
                           routed, secVars, addrVars, instVars>>
         \/ /\ AlreadyAssociated(g)
            /\ Goto(k, "address")
            /\ UNCHANGED <<runs, use, failed, diskVars, accountVars>>
         \/ ~CanAttach(g, v) /\ ~AlreadyAssociated(g) /\ SetupRaises(k)

(* get_or_create_address: any address that no instance has now.            *)
GetAddress(k) ==
  LET free == {a \in addrs : assoc[a] = None}
  IN  /\ At(k, "address")
      /\ \/ free = {} /\ Goto(k, "allocate") /\ UNCHANGED use
         \/ \E a \in free : Got(k, "address", a) /\ Goto(k, "table")
      /\ UNCHANGED <<runs, failed, diskVars, accountVars>>

(* Mutant: the new address has no id yet.                                  *)
AllocateAddressUnnamed(k) ==
  /\ At(k, "allocate")
  /\ addrs' = addrs \cup {Run(k)}
  /\ Goto(k, "table")
  /\ UNCHANGED <<runs, use, failed, diskVars, netVars, secVars, assoc, instVars>>

AllocateAddress(k) ==
  /\ At(k, "allocate")
  /\ addrs' = addrs \cup {Run(k)}
  /\ Got(k, "address", Run(k)) /\ Goto(k, "table")
  /\ UNCHANGED <<runs, failed, diskVars, netVars, secVars, assoc, instVars>>

(* The first route table of the account, which every VPC has one of.       *)
AssociateTable(k) ==
  LET s == use[Run(k)].subnet
  IN  /\ At(k, "table")
      /\ \E t \in vpcs :
           \/ /\ CanAssociateTable(t, s)
              /\ rtable' = [rtable EXCEPT ![s] = t]
              /\ Got(k, "table", t) /\ Goto(k, "route")
              /\ UNCHANGED <<runs, failed, diskVars, vpcs, gateways, subnets, attached,
                             vpcOf, routed, secVars, addrVars, instVars>>
           \/ ~CanAssociateTable(t, s) /\ SetupRaises(k)

CreateRoute(k) ==
  LET t == use[Run(k)].table
      g == use[Run(k)].gateway
  IN  /\ At(k, "route")
      /\ \/ /\ CanRoute(t, g)
            /\ routed' = routed \cup {t}
            /\ Goto(k, "group")
            /\ UNCHANGED <<runs, use, failed, diskVars, vpcs, gateways, subnets, attached,
                           vpcOf, rtable, secVars, addrVars, instVars>>
         \/ ~CanRoute(t, g) /\ SetupRaises(k)

-----------------------------------------------------------------------------
(* Step 5: security group, with its authorizations, and key pair.          *)
CreateGroup(k) ==
  /\ At(k, "group")
  /\ groups' = groups \cup {Run(k)}
  /\ vpcOf' = [vpcOf EXCEPT ![Run(k)] = use[Run(k)].vpc]
  /\ Goto(k, "key")
  /\ UNCHANGED <<runs, use, failed, diskVars, vpcs, gateways, subnets, attached, rtable,
                 routed, keys, addrVars, instVars>>

(* Mutant: the private key is saved when it is created, as master does.    *)
CreateKeyAndSave(k) ==
  /\ At(k, "key")
  /\ keys' = keys \cup {Run(k)}
  /\ pem' = [pem EXCEPT ![Dir[k]] = Run(k)]
  /\ Goto(k, "launch")
  /\ UNCHANGED <<runs, use, failed, summary, netVars, groups, addrVars, instVars>>

CreateKey(k) ==
  /\ At(k, "key")
  /\ keys' = keys \cup {Run(k)}
  /\ Goto(k, "launch")
  /\ UNCHANGED <<runs, use, failed, diskVars, netVars, groups, addrVars, instVars>>

-----------------------------------------------------------------------------
(* Step 6: the machines, one call for each.                                *)
(* Mutant: the machines are not given the addresses of the file.           *)
LaunchAnywhere(k, ip) ==
  LET r == Run(k)
  IN  /\ At(k, "launch") /\ inst[r][ip] = "none"
      /\ inst' = [inst EXCEPT ![r][ip] = "pending"]
      /\ home' = [home EXCEPT ![r] = use[r].subnet]
      /\ UNCHANGED <<toolVars, netVars, secVars, addrVars>>

Launch(k, ip) ==
  LET r == Run(k)
      s == use[r].subnet
  IN  /\ At(k, "launch") /\ inst[r][ip] = "none"
      /\ \/ /\ CanLaunch(r, s, ip)
            /\ inst' = [inst EXCEPT ![r][ip] = "pending"]
            /\ home' = [home EXCEPT ![r] = s]
            /\ UNCHANGED <<toolVars, netVars, secVars, addrVars>>
         \/ ~CanLaunch(r, s, ip) /\ SetupRaises(k)

Boot(k) ==
  /\ At(k, "launch") /\ \A ip \in Ips[k] : inst[Run(k)][ip] = "running"
  /\ Goto(k, "associate")
  /\ UNCHANGED <<runs, use, failed, diskVars, accountVars>>

(* Mutant: a refusal is passed over, as when the gateway is attached.      *)
AssociateAddressUnchecked(k) ==
  LET a == use[Run(k)].address
  IN  /\ At(k, "associate")
      /\ assoc' = IF CanAssociateAddress(a, Run(k)) THEN [assoc EXCEPT ![a] = Run(k)] ELSE assoc
      /\ Goto(k, "connect")
      /\ UNCHANGED <<runs, use, failed, diskVars, netVars, secVars, addrs, instVars>>

AssociateAddress(k) ==
  LET a == use[Run(k)].address
  IN  /\ At(k, "associate")
      /\ \/ /\ CanAssociateAddress(a, Run(k))
            /\ assoc' = [assoc EXCEPT ![a] = Run(k)]
            /\ Goto(k, "connect")
            /\ UNCHANGED <<runs, use, failed, diskVars, netVars, secVars, addrs, instVars>>
         \/ ~CanAssociateAddress(a, Run(k)) /\ SetupRaises(k)

(* The thread that tries to connect sets its state when it first runs; the *)
(* wait that reads it earlier finds no such attribute.                     *)
Connect(k) ==
  /\ At(k, "connect")
  /\ \/ /\ Goto(k, "online")
        /\ UNCHANGED <<runs, use, failed, diskVars, accountVars>>
     \/ SetupRaises(k)

(* The machine that has the public address answers.  There is no limit to  *)
(* the time.                                                               *)
Online(k) ==
  LET m == assoc[use[Run(k)].address]
  IN  /\ At(k, "online")
      /\ m # None /\ inst[m][Manager[m[1]]] = "running" /\ rtable[home[m]] \in routed
      /\ Goto(k, "saveKey")
      /\ UNCHANGED <<runs, use, failed, diskVars, accountVars>>

-----------------------------------------------------------------------------
(* Step 7: the files.  The key's name is the same for every cloud, that of *)
(* the summary is taken from the definition file.                          *)
SaveKey(k) ==
  /\ At(k, "saveKey")
  /\ pem' = [pem EXCEPT ![Dir[k]] = Run(k)]
  /\ Goto(k, "saveSummary")
  /\ UNCHANGED <<runs, use, failed, summary, accountVars>>

SaveSummary(k) ==
  /\ At(k, "saveSummary")
  /\ summary' = [summary EXCEPT ![k] = Run(k)]
  /\ Goto(k, "idle")
  /\ UNCHANGED <<runs, use, failed, pem, accountVars>>

SetupStep(k) ==
  \/ GetVpc(k) \/ CreateVpc(k) \/ GetSubnet(k) \/ CreateSubnet(k)
  \/ GetGateway(k) \/ CreateGateway(k) \/ AttachGateway(k)
  \/ GetAddress(k) \/ AllocateAddress(k) \/ AssociateTable(k) \/ CreateRoute(k)
  \/ CreateGroup(k) \/ CreateKey(k) \/ (\E ip \in Ips[k] : Launch(k, ip)) \/ Boot(k)
  \/ AssociateAddress(k) \/ Connect(k) \/ Online(k) \/ SaveKey(k) \/ SaveSummary(k)

(* Any call may fail for a reason of its own, or the operator interrupts.  *)
SetupFails(k) == pc[k] \in SetupLocs /\ SetupRaises(k)
=============================================================================
