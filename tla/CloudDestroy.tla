---------------------------- MODULE CloudDestroy ----------------------------
(***************************************************************************)
(* pop-cloud-destroy (poputils/bin/destroy.py): with the .cid file of a    *)
(* cloud it ends that cloud; with --clean-all it deletes every 'pop-'      *)
(* security group and key pair of the account.  A call that is refused for *)
(* another reason than "not found" raises, and the tool stops there; it    *)
(* may be started again, since it leaves the .cid file.                    *)
(***************************************************************************)
EXTENDS CloudSetup

VARIABLES
  begun,     \* the runs that were destroyed at least in part
  torn,      \* the runs for which "all resources were correctly torn down"
  sweep,     \* where a --clean-all is: "idle", "groups" or "keys"
  listed     \* the groups, then the keys, that it has yet to delete

DestroyLocs == {"terminate", "delGroup", "delKey", "findAddress", "release", "delSubnet"}

destroyVars == <<begun, torn>>
sweepVars   == <<sweep, listed>>
setupVars   == <<runs, use, failed>>

Cid(k) == summary[k]

(* The exception leaves destroy().                                         *)
DestroyRaises(k) ==
  /\ Goto(k, "idle")
  /\ UNCHANGED <<setupVars, diskVars, destroyVars, accountVars>>

StartDestroy(k) ==
  /\ At(k, "idle") /\ Cid(k) # None
  /\ Goto(k, "terminate")
  /\ begun' = begun \cup {Cid(k)}
  /\ UNCHANGED <<setupVars, diskVars, torn, accountVars>>

-----------------------------------------------------------------------------
(* Step 3.  A machine that is not found, or has ended, is passed over.     *)
Terminate(k, ip) ==
  /\ At(k, "terminate") /\ inst[Cid(k)][ip] \in {"pending", "running"}
  /\ inst' = [inst EXCEPT ![Cid(k)][ip] = "shutting-down"]
  /\ UNCHANGED <<toolVars, destroyVars, netVars, secVars, addrVars, home>>

AwaitTerminated(k) ==
  /\ At(k, "terminate")
  /\ \A ip \in Ips[k] : inst[Cid(k)][ip] \in {"terminated", "gone"}
  /\ Goto(k, "delGroup")
  /\ UNCHANGED <<setupVars, diskVars, destroyVars, accountVars>>

-----------------------------------------------------------------------------
(* Step 4.  The group may still be in use after the wait of eight seconds. *)
DeleteGroup(k) ==
  /\ At(k, "delGroup")
  /\ \/ /\ ~GroupInUse(Cid(k))
        /\ groups' = groups \ {Cid(k)}
        /\ Goto(k, "delKey")
        /\ UNCHANGED <<setupVars, diskVars, destroyVars, netVars, keys, addrVars, instVars>>
     \/ Cid(k) \in groups /\ GroupInUse(Cid(k)) /\ DestroyRaises(k)

(* The local file is the one with the key's name, whosever key it holds; a *)
(* failure to delete it is passed over.                                    *)
DeleteKey(k) ==
  /\ At(k, "delKey")
  /\ keys' = keys \ {Cid(k)}
  /\ pem' \in {pem, [pem EXCEPT ![Dir[k]] = None]}
  /\ Goto(k, "findAddress")
  /\ UNCHANGED <<setupVars, summary, destroyVars, netVars, groups, addrVars, instVars>>

-----------------------------------------------------------------------------
(* Step 5.                                                                 *)
(* Mutant: an address that is not found is an error.                       *)
FindAddressStrict(k) ==
  /\ At(k, "findAddress")
  /\ Goto(k, IF use[Cid(k)].address \in addrs THEN "release" ELSE "idle")
  /\ UNCHANGED <<setupVars, diskVars, destroyVars, accountVars>>

FindAddress(k) ==
  /\ At(k, "findAddress")
  /\ Goto(k, IF use[Cid(k)].address \in addrs THEN "release" ELSE "delSubnet")
  /\ UNCHANGED <<setupVars, diskVars, destroyVars, accountVars>>

Release(k) ==
  LET a == use[Cid(k)].address
  IN  /\ At(k, "release")
      /\ \/ /\ CanRelease(a)
            /\ addrs' = addrs \ {a}
            /\ Goto(k, "delSubnet")
            /\ UNCHANGED <<setupVars, diskVars, destroyVars, netVars, secVars, assoc, instVars>>
         \/ ~CanRelease(a) /\ DestroyRaises(k)

(* Mutant: a subnet that other machines use is passed over, too.           *)
DeleteSubnetTolerant(k) ==
  LET s == use[Cid(k)].subnet
  IN  /\ At(k, "delSubnet")
      /\ subnets' = IF SubnetInUse(s) THEN subnets ELSE subnets \ {s}
      /\ torn' = torn \cup {Cid(k)}
      /\ Goto(k, "idle")
      /\ UNCHANGED <<setupVars, diskVars, begun, vpcs, gateways, attached, vpcOf, rtable,
                     routed, secVars, addrVars, instVars>>

DeleteSubnet(k) ==
  LET s == use[Cid(k)].subnet
  IN  /\ At(k, "delSubnet")
      /\ \/ /\ ~SubnetInUse(s)
            /\ subnets' = subnets \ {s}
            /\ torn' = torn \cup {Cid(k)}
            /\ Goto(k, "idle")
            /\ UNCHANGED <<setupVars, diskVars, begun, vpcs, gateways, attached, vpcOf, rtable,
                           routed, secVars, addrVars, instVars>>
         \/ SubnetInUse(s) /\ DestroyRaises(k)

DestroyStep(k) ==
  \/ (\E ip \in Ips[k] : Terminate(k, ip)) \/ AwaitTerminated(k)
  \/ DeleteGroup(k) \/ DeleteKey(k) \/ FindAddress(k) \/ Release(k) \/ DeleteSubnet(k)

DestroyFails(k) == pc[k] \in DestroyLocs /\ DestroyRaises(k)

-----------------------------------------------------------------------------
(* --clean-all: the groups are listed once, then the keys.  No refusal is  *)
(* passed over, not even that of a group which is gone by now.             *)
ListGroups ==
  /\ sweep = "idle"
  /\ sweep' = "groups" /\ listed' = groups
  /\ UNCHANGED <<toolVars, destroyVars, accountVars>>

SweepGroup(g) ==
  /\ sweep = "groups" /\ g \in listed
  /\ \/ /\ g \in groups /\ ~GroupInUse(g)
        /\ groups' = groups \ {g}
        /\ listed' = listed \ {g}
        /\ UNCHANGED sweep
     \/ /\ g \notin groups \/ GroupInUse(g)
        /\ sweep' = "idle" /\ listed' = {}
        /\ UNCHANGED groups
  /\ UNCHANGED <<toolVars, destroyVars, netVars, keys, addrVars, instVars>>

ListKeys ==
  /\ sweep = "groups" /\ listed = {}
  /\ sweep' = "keys" /\ listed' = keys
  /\ UNCHANGED <<toolVars, destroyVars, accountVars>>

SweepKey(x) ==
  /\ sweep = "keys" /\ x \in listed
  /\ keys' = keys \ {x}
  /\ listed' = listed \ {x}
  /\ UNCHANGED <<toolVars, destroyVars, sweep, netVars, groups, addrVars, instVars>>

SweepEnds ==
  /\ sweep = "keys" /\ listed = {}
  /\ sweep' = "idle"
  /\ UNCHANGED <<toolVars, destroyVars, listed, accountVars>>

SweepStep ==
  \/ ListGroups \/ ListKeys \/ SweepEnds
  \/ \E r \in Runs : SweepGroup(r) \/ SweepKey(r)
=============================================================================
