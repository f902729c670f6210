---------------------------- MODULE CloudAccount ----------------------------
(***************************************************************************)
(* The cloud provider's account that the tools of poputils work on, as far *)
(* as poputils/boto/vpc.py and the tools use it: which resources exist,    *)
(* what depends on what, and which calls are refused for that reason.  It  *)
(* is shared by every tool that runs, and the tools keep nothing locked    *)
(* between two calls.                                                      *)
(*                                                                         *)
(* A resource is named by the run of pop-cloud-setup that created it: each *)
(* run creates at most one of a kind, and machines by their IP address.    *)
(***************************************************************************)
EXTENDS Integers, FiniteSets

CONSTANTS
  Confs,     \* the cloud definition files, each with the operator using it
  MaxRuns,   \* bound: how often a definition is set up
  Cidr,      \* Cidr[k]: the subnet block that definition k asks for
  Fits,      \* pairs (k, j): the block of k lies in the VPC created for j
  Ips,       \* Ips[k]: the addresses of its machines
  Manager,   \* Manager[k]: the address of its manager
  None

Runs   == Confs \X (1..MaxRuns)
AllIps == UNION {Ips[k] : k \in Confs}

ASSUME AccountAssumption ==
  /\ MaxRuns \in Nat
  /\ Fits \subseteq Confs \X Confs
  /\ \A k \in Confs : <<k, k>> \in Fits /\ \A j \in Confs : <<k, j>> \in Fits => <<j, k>> \in Fits
  /\ \A k \in Confs : Manager[k] \in Ips[k]
  /\ None \notin Runs

VARIABLES
  vpcs, gateways, subnets, addrs, groups, keys,   \* the resources that exist
  attached,   \* attached[g]: the VPC of a gateway
  vpcOf,      \* vpcOf[r]: the VPC of the subnet and of the group that r made
  rtable,     \* rtable[s]: the route table of a subnet, named by its VPC
  routed,     \* the route tables with a default route to the gateway
  assoc,      \* assoc[a]: the run whose manager an address is associated with
  inst,       \* inst[r][ip]: the state of a machine
  home        \* home[r]: the subnet that the machines of r were launched in

netVars     == <<vpcs, gateways, subnets, attached, vpcOf, rtable, routed>>
secVars     == <<groups, keys>>
addrVars    == <<addrs, assoc>>
instVars    == <<inst, home>>
accountVars == <<netVars, secVars, addrVars, instVars>>

(* "terminated" machines still hold their network interface for a while;   *)
(* "gone" ones nothing.                                                    *)
InstStates == {"none", "pending", "running", "shutting-down", "terminated", "gone"}

AccountTypeOK ==
  /\ vpcs \subseteq Runs /\ gateways \subseteq Runs /\ subnets \subseteq Runs
  /\ addrs \subseteq Runs /\ groups \subseteq Runs /\ keys \subseteq Runs
  /\ attached \in [Runs -> Runs \cup {None}]
  /\ vpcOf \in [Runs -> Runs \cup {None}]
  /\ rtable \in [Runs -> Runs \cup {None}]
  /\ routed \subseteq vpcs
  /\ assoc \in [Runs -> Runs \cup {None}]
  /\ inst \in [Runs -> [AllIps -> InstStates]]
  /\ home \in [Runs -> Runs \cup {None}]

AccountInit ==
  /\ vpcs = {} /\ gateways = {} /\ subnets = {}
  /\ addrs = {} /\ groups = {} /\ keys = {}
  /\ attached = [r \in Runs |-> None] /\ vpcOf = [r \in Runs |-> None]
  /\ rtable = [r \in Runs |-> None] /\ routed = {}
  /\ assoc = [r \in Runs |-> None]
  /\ inst = [r \in Runs |-> [ip \in AllIps |-> "none"]]
  /\ home = [r \in Runs |-> None]

-----------------------------------------------------------------------------
(* What the provider refuses.                                              *)

Holding(r, ip) == inst[r][ip] \notin {"none", "gone"}

SubnetInUse(s) == \E r \in Runs, ip \in AllIps : home[r] = s /\ Holding(r, ip)
GroupInUse(g)  == \E ip \in AllIps : Holding(g, ip)

IpInUse(s, ip) == \E r \in Runs : home[r] = s /\ Holding(r, ip)

(* CreateSubnet: the block must be free in the VPC.                        *)
CanCreateSubnet(k, v) ==
  \A s \in subnets : vpcOf[s] = v => Cidr[s[1]] # Cidr[k]

(* AttachInternetGateway: 'Resource.AlreadyAssociated' for a gateway that  *)
(* is attached; another code for a VPC that has another gateway.           *)
AlreadyAssociated(g) == attached[g] # None
CanAttach(g, v)      == ~AlreadyAssociated(g) /\ \A h \in gateways : attached[h] # v

(* AssociateRouteTable, CreateRoute: within one VPC.                       *)
CanAssociateTable(t, s) == s \in subnets /\ vpcOf[s] = t
CanRoute(t, g)          == attached[g] = t

(* RunInstances: group and subnet of one VPC, a free address, a known key. *)
CanLaunch(r, s, ip) ==
  /\ s \in subnets /\ r \in groups /\ r \in keys
  /\ vpcOf[s] = vpcOf[r]
  /\ ~IpInUse(s, ip)

(* AssociateAddress (no reassociation), ReleaseAddress.                    *)
CanAssociateAddress(a, r) ==
  a \in addrs /\ assoc[a] = None /\ inst[r][Manager[r[1]]] = "running"
CanRelease(a) == a \in addrs /\ assoc[a] = None

(* Machines boot and end in their own time; the address of a manager is    *)
(* free again when its interface is.                                       *)
MachineStep(r, ip) ==
  /\ inst[r][ip] \in {"pending", "shutting-down", "terminated"}
  /\ inst' = [inst EXCEPT ![r][ip] = CASE @ = "pending"       -> "running"
                                       [] @ = "shutting-down" -> "terminated"
                                       [] @ = "terminated"    -> "gone"]
  /\ assoc' = [a \in Runs |->
                 IF assoc[a] = r /\ ip = Manager[r[1]] /\ inst[r][ip] = "terminated"
                   THEN None ELSE assoc[a]]
  /\ UNCHANGED <<netVars, secVars, addrs, home>>
=============================================================================
