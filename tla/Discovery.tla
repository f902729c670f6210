----------------------------- MODULE Discovery -----------------------------
(***************************************************************************)
(* The discovery of resources (lib/popc_search_node.cc): one search node   *)
(* per machine, linked to neighbours.  A request floods the nodes; each    *)
(* one answers along the way the request came, and forwards it to the      *)
(* neighbours that the request does not know of.  A node that meets a      *)
(* request again cuts the link it came by, on both sides.                  *)
(*                                                                         *)
(* A search node serves its sequential calls (askResourcesDiscovery, add-  *)
(* and removeNeighbor) one after the other in its main thread; the         *)
(* concurrent ones (launchDiscovery, callbackResult, rerouteResponse,      *)
(* unlockDiscovery) have a thread each.  A search node is a daemon: what   *)
(* an asynchronous call throws is lost (broker_serve.cc:172), and the call *)
(* ends where it threw.                                                    *)
(***************************************************************************)
EXTENDS Integers, FiniteSets, Sequences, SequencesExt, Bags

CONSTANTS
  Nodes,
  Fits,           \* the sets of nodes where checkResource may succeed
  Links,          \* the pairs of neighbours at the start
  Parents,        \* pairs (n, p): node n registers itself to its parent p
  Searches,       \* the requests, each with an identity of its own (getUID)
  Ends,           \* those that tell of the end of an application
  Origin, Hops,   \* the node that launches a request, and its maximum depth
  Timed,          \* those whose launch sleeps; the others wait for an answer
  UnlimitedHops, NeighborsPath, MaxReqToSave,   \* as in the code
  MaxEvents,      \* bound: launches, deaths and registrations
  Frames,         \* what the main thread may leave in a node's semaphore
  None

(* Where the semaphore was, there is something that is not a post.         *)
Overwritten == -1

ASSUME DiscoveryAssumption ==
  /\ Fits \subseteq SUBSET Nodes
  /\ Links \subseteq Nodes \X Nodes /\ Parents \subseteq Nodes \X Nodes
  /\ \A l \in Links \cup Parents : l[1] # l[2]
  /\ \A l \in Links : <<l[2], l[1]>> \in Links
  /\ Ends \subseteq Timed /\ Timed \subseteq Searches
  /\ Origin \in [Searches -> Nodes] /\ Hops \in [Searches -> Int]
  /\ UnlimitedHops < -1 /\ {NeighborsPath, MaxReqToSave, MaxEvents} \subseteq Nat
  /\ \A s \in Ends : Hops[s] = UnlimitedHops
  /\ None \notin Seq(Nodes) /\ Frames \subseteq Nat \cup {Overwritten}

VARIABLES
  fitting,         \* the nodes where checkResource succeeds
  neighborsList,   \* neighborsList[n][m]: how often m is in the list of n
  knownRequests,   \* the history of each node
  asks,            \* asks[m][n]: the requests that m has sent to n
  jobmgr,          \* the calls under way to the job managers of the nodes
  mail,            \* the responses under way
  actualReq,       \* actualReq[s]: the answers collected at the origin of s
  phase, found,    \* where the launch of s is, and what it returned
  listed,          \* the neighbours that s took down at its origin
  locker, timer,   \* the semaphore of each node, the timer of each launch
  unlocks,         \* unlocks[n]: calls of unlockDiscovery under way to n
  ended,           \* ended[s]: the job managers told of the end
  dead, registers, \* the machines that died; how often one registered itself
  met              \* a launch or a new link met a flood, or a launch a new link

treeVars   == <<neighborsList, knownRequests, asks, jobmgr>>
waitVars   == <<found, locker, timer, unlocks>>
worldVars  == <<fitting, dead, registers>>
vars == <<worldVars, treeVars, waitVars, mail, actualReq, phase, listed, ended, met>>

Init ==
  /\ fitting \in Fits
  /\ neighborsList = [n \in Nodes |-> [m \in Nodes |-> IF <<n, m>> \in Links THEN 1 ELSE 0]]
  /\ knownRequests = [n \in Nodes |-> <<>>]
  /\ asks = [m \in Nodes |-> [n \in Nodes |-> <<>>]]
  /\ jobmgr = EmptyBag /\ mail = EmptyBag
  /\ actualReq = [s \in Searches |-> None]
  /\ phase = [s \in Searches |-> "idle"] /\ found = [s \in Searches |-> <<>>]
  /\ listed = [s \in Searches |-> {}]
  /\ locker = [n \in Nodes |-> 0] /\ timer = [s \in Searches |-> "off"]
  /\ unlocks = [n \in Nodes |-> 0]
  /\ ended = [s \in Searches |-> {}]
  /\ dead = {} /\ registers = 0
  /\ met = FALSE

(* What happened from outside so far.                                      *)
Events == registers + Cardinality(dead) + Cardinality({s \in Searches : phase[s] # "idle"})

-----------------------------------------------------------------------------
(* Requests.  The exploration list maps each visited node to the           *)
(* neighbours it had.  It is ordered by the keys' place in memory, so that *)
(* any list may be the one that is cleared when there are too many.        *)
addListNodeErasing(el, n, neighbors) ==   \* mutant: the node goes with its list
  LET all   == [x \in DOMAIN el \cup {n} |-> IF x \in DOMAIN el THEN el[x] ELSE neighbors]
      paths == {m \in DOMAIN all : all[m] # {}}
  IN IF Cardinality(paths) > NeighborsPath
       THEN {[x \in DOMAIN all \ {k} |-> all[x]] : k \in paths}
       ELSE {all}

addListNode(el, n, neighbors) ==
  LET all   == [x \in DOMAIN el \cup {n} |-> IF x \in DOMAIN el THEN el[x] ELSE neighbors]
      paths == {m \in DOMAIN all : all[m] # {}}
  IN IF Cardinality(paths) > NeighborsPath
       THEN {[all EXCEPT ![k] = {}] : k \in paths}
       ELSE {all}

isIn(el, n) == n \in DOMAIN el \cup UNION {el[m] : m \in DOMAIN el}

DecrementedAlways(hops) == hops - 1          \* mutant: also without a limit
MayPropagateOnce(hops) == hops >= -1 \/ hops = UnlimitedHops   \* mutant: one link more

Decremented(hops) == IF hops = UnlimitedHops THEN hops ELSE hops - 1
MayPropagate(hops) == hops >= 0 \/ hops = UnlimitedHops

NeighborsOf(n) == {m \in Nodes : neighborsList[n][m] > 0}
Unreachable(n) == NeighborsOf(n) \cap dead # {}

(* Mutant: the history is shortened one request too late.                  *)
RememberOneMore(n, s) ==
  LET longer == Append(knownRequests[n], s) IN
  knownRequests' =
    IF s \in Ends THEN knownRequests
    ELSE [knownRequests EXCEPT ![n] =
            IF Len(longer) > MaxReqToSave + 1 THEN Tail(longer) ELSE longer]

(* Mutant: no history.                                                     *)
RememberNothing(n, s) == UNCHANGED knownRequests

(* The history keeps the last requests; one of the end of an application   *)
(* is not kept.                                                            *)
Remember(n, s) ==
  LET longer == Append(knownRequests[n], s) IN
  knownRequests' =
    IF s \in Ends THEN knownRequests
    ELSE [knownRequests EXCEPT ![n] =
            IF Len(longer) > MaxReqToSave THEN Tail(longer) ELSE longer]

(* Mutant: the way back is walked from the wrong end.                      *)
ResponseBackwards(s, n, wb) ==
  IF Len(wb) <= 1 THEN [s |-> s, node |-> n, at |-> Origin[s], wb |-> <<>>]
                  ELSE [s |-> s, node |-> n, at |-> Head(wb), wb |-> Tail(wb)]

(* A response is for the origin at once when there is at most one node on  *)
(* the way back; else the last node of the way reroutes it.                *)
Response(s, n, wb) ==
  IF Len(wb) <= 1 THEN [s |-> s, node |-> n, at |-> Origin[s], wb |-> <<>>]
                  ELSE [s |-> s, node |-> n, at |-> Last(wb), wb |-> Front(wb)]

Respond(s, n, wb) ==
  mail' = IF s \notin Ends /\ n \in fitting
            THEN mail (+) SetToBag({Response(s, n, wb)}) ELSE mail

(* The request goes to every entry of the list whose node the request, as  *)
(* it was received (oldEL), does not know.                                 *)
Forwarded(n, r, oldEL, targets) ==
  [m \in Nodes |-> IF m \in targets /\ MayPropagate(r.hops) /\ ~isIn(oldEL, m)
                     THEN [i \in 1..neighborsList[n][m] |-> r] ELSE <<>>]

ApplicationEnd(s, n) == ended' = IF s \in Ends THEN [ended EXCEPT ![s] = @ \cup {n}] ELSE ended

removeNeighbor(n, m) == [neighborsList EXCEPT ![n][m] = IF @ = 0 THEN 0 ELSE @ - 1]

-----------------------------------------------------------------------------
(* launchDiscovery, in a thread of its own: the place for the answers, the *)
(* origin's own visit (askResourcesDiscovery, called directly), then the   *)
(* wait.  The list of neighbours is read twice, for the exploration list   *)
(* and for the forwarding; in between the main thread may change it.       *)
OnItsWay(s) ==
  \/ phase[s] = "listed" /\ Origin[s] \notin dead
  \/ \E m, n \in Nodes : n \notin dead /\ \E i \in DOMAIN asks[m][n] : asks[m][n][i].s = s
Called(op)  == \E j \in BagToSet(jobmgr) : j.op = op
Flooding    == Called("UnregisterNode") \/ \E s \in Searches : OnItsWay(s)

Launch(s) ==
  LET n == Origin[s] IN
  /\ Events < MaxEvents /\ phase[s] = "idle" /\ n \notin dead
  /\ actualReq' = [actualReq EXCEPT ![s] = <<>>]
  /\ Remember(n, s)
  /\ met' = (met \/ Flooding \/ Called("RegisterNode"))
  /\ \/ /\ Unreachable(n)
        /\ phase' = [phase EXCEPT ![s] = "failed"]
        /\ UNCHANGED <<mail, listed>>
     \/ /\ ~Unreachable(n)
        /\ phase' = [phase EXCEPT ![s] = "listed"]
        /\ listed' = [listed EXCEPT ![s] = NeighborsOf(n)]
        /\ Respond(s, n, <<>>)
  /\ UNCHANGED <<worldVars, neighborsList, asks, jobmgr, waitVars, ended>>

(* A neighbour that died meanwhile makes the loop throw when it is reached.*)
ForwardFirst(s) ==
  LET n == Origin[s]
      throws == MayPropagate(Decremented(Hops[s])) /\ Unreachable(n)
  IN
  /\ phase[s] = "listed" /\ n \notin dead
  /\ \E targets \in SUBSET (NeighborsOf(n) \ dead), el \in addListNode(<<>>, n, listed[s]) :
       /\ throws \/ targets = NeighborsOf(n) \ dead
       /\ asks' = [asks EXCEPT ![n] = [m \in Nodes |-> @[m] \o
            Forwarded(n, [s |-> s, hops |-> Decremented(Hops[s]), el |-> el,
                          wb |-> IF s \in Ends THEN <<>> ELSE <<n>>], <<>>, targets)[m]]]
  /\ IF throws THEN UNCHANGED ended ELSE ApplicationEnd(s, n)
  /\ phase' = [phase EXCEPT ![s] = IF throws THEN "failed" ELSE "asked"]
  /\ listed' = [listed EXCEPT ![s] = {}]
  /\ UNCHANGED <<worldVars, neighborsList, knownRequests, jobmgr, waitVars, mail, actualReq, met>>

(* The semaphore of a node was a local variable of its constructor (lines  *)
(* 30-31), which the main thread served.  What it serves later, and its    *)
(* wait for requests, reuse the place: whatever sem_init, sem_post and     *)
(* sem_wait leave there may be overwritten, the count or the mark that     *)
(* somebody waits, before the place is looked at again.                    *)
Leaves(n, value) == \E v \in {value} \cup Frames : locker' = [locker EXCEPT ![n] = v]
Post(n) == Leaves(n, IF locker[n] = Overwritten THEN 1 ELSE locker[n] + 1)

(* With no time to wait, the launch waits for the semaphore of its node,   *)
(* which it sets to zero first; a timer posts it if no answer does.        *)
InitSem(s) ==
  /\ phase[s] = "asked" /\ s \notin Timed /\ Origin[s] \notin dead
  /\ Leaves(Origin[s], 0)
  /\ timer' = [timer EXCEPT ![s] = "running"]
  /\ phase' = [phase EXCEPT ![s] = "waiting"]
  /\ UNCHANGED <<worldVars, treeVars, mail, actualReq, found, unlocks, listed, ended, met>>

TimerFires(s) ==
  /\ timer[s] = "running" /\ Origin[s] \notin dead
  /\ timer' = [timer EXCEPT ![s] = "fired"]
  /\ unlocks' = [unlocks EXCEPT ![Origin[s]] = @ + 1]
  /\ UNCHANGED <<worldVars, treeVars, mail, actualReq, phase, found, locker, listed, ended, met>>


unlockDiscovery(n) ==
  /\ unlocks[n] > 0 /\ n \notin dead
  /\ unlocks' = [unlocks EXCEPT ![n] = @ - 1]
  /\ Post(n)
  /\ UNCHANGED <<worldVars, treeVars, mail, actualReq, phase, found, timer, listed, ended, met>>

(* The answers so far are returned and their place is given up.            *)
Collect(s) ==
  /\ found' = [found EXCEPT ![s] = actualReq[s]]
  /\ actualReq' = [actualReq EXCEPT ![s] = None]
  /\ phase' = [phase EXCEPT ![s] = "returned"]
  /\ UNCHANGED <<worldVars, treeVars, mail, unlocks, listed, ended, met>>

Woken(s) ==
  /\ phase[s] = "waiting" /\ locker[Origin[s]] > 0 /\ Origin[s] \notin dead
  /\ Leaves(Origin[s], locker[Origin[s]] - 1)
  /\ timer' = [timer EXCEPT ![s] = IF @ = "running" THEN "stopped" ELSE @]
  /\ Collect(s)

SleptEnough(s) ==
  /\ phase[s] = "asked" /\ s \in Timed /\ Origin[s] \notin dead
  /\ Collect(s)
  /\ UNCHANGED <<locker, timer>>

-----------------------------------------------------------------------------
(* askResourcesDiscovery, in the main thread of n.                         *)
Taken(m, n) == [asks EXCEPT ![m][n] = Tail(@)]

(* Mutant: the link is cut on this side only.                              *)
AlreadyAskedOneSided(m, n) ==
  LET r == Head(asks[m][n]) IN
  /\ asks[m][n] # <<>> /\ n \notin dead
  /\ r.s \notin Ends /\ r.s \in ToSet(knownRequests[n])
  /\ asks' = Taken(m, n)
  /\ neighborsList' = removeNeighbor(n, m)
  /\ UNCHANGED <<worldVars, waitVars, jobmgr, knownRequests, mail, actualReq, phase, listed, ended, met>>

(* The request has been here: the sender's job manager is told to cut the  *)
(* link, and it is cut here.  If the sender is dead, asking it for its job *)
(* manager throws.                                                         *)
AlreadyAsked(m, n) ==
  LET r == Head(asks[m][n]) IN
  /\ asks[m][n] # <<>> /\ n \notin dead
  /\ r.s \notin Ends /\ r.s \in ToSet(knownRequests[n])
  /\ asks' = Taken(m, n)
  /\ IF m \in dead
       THEN UNCHANGED <<jobmgr, neighborsList>>
       ELSE /\ jobmgr' = jobmgr (+) SetToBag({[op |-> "UnregisterNode", at |-> m, node |-> n]})
            /\ neighborsList' = removeNeighbor(n, m)
  /\ UNCHANGED <<worldVars, waitVars, knownRequests, mail, actualReq, phase, listed, ended, met>>

(* The first visit.  With a dead neighbour in its list, a node remembers   *)
(* the request and then throws.                                            *)
Visit(m, n) ==
  LET r == Head(asks[m][n]) IN
  /\ asks[m][n] # <<>> /\ n \notin dead
  /\ r.s \in Ends \/ r.s \notin ToSet(knownRequests[n])
  /\ Remember(n, r.s)
  /\ \/ /\ Unreachable(n)
        /\ asks' = Taken(m, n)
        /\ UNCHANGED <<mail, ended>>
     \/ /\ ~Unreachable(n)
        /\ Respond(r.s, n, r.wb)
        /\ \E el \in addListNode(r.el, n, NeighborsOf(n)) :
             LET fwd == [r EXCEPT !.el = el, !.hops = Decremented(@),
                                  !.wb = IF r.s \in Ends THEN @ ELSE Append(@, n)] IN
             asks' = [Taken(m, n) EXCEPT ![n] =
                        [p \in Nodes |-> @[p] \o Forwarded(n, fwd, r.el, NeighborsOf(n))[p]]]
        /\ ApplicationEnd(r.s, n)
  /\ UNCHANGED <<worldVars, waitVars, neighborsList, jobmgr, actualReq, phase, listed, met>>

(* The job manager has its search node change the list (RegisterNode,      *)
(* UnregisterNode); to do so it connects to the other node.                *)
JobMgrStep(j) ==
  /\ jobmgr' = jobmgr (-) SetToBag({j})
  /\ neighborsList' =
       CASE j.at \in dead \/ j.node \in dead -> neighborsList
         [] j.op = "UnregisterNode" -> removeNeighbor(j.at, j.node)
         [] j.op = "RegisterNode"   -> [neighborsList EXCEPT ![j.at][j.node] = @ + 1]
  /\ UNCHANGED <<worldVars, waitVars, knownRequests, asks, mail, actualReq, phase, listed, ended, met>>

(* SelfRegister: a link to the parent, once more each time.                *)
SelfRegister(n, p) ==
  /\ Events < MaxEvents /\ registers' = registers + 1
  /\ {n, p} \cap dead = {}
  /\ jobmgr' = jobmgr (+) SetToBag({[op |-> "RegisterNode", at |-> p, node |-> n]})
  /\ neighborsList' = [neighborsList EXCEPT ![n][p] = @ + 1]
  /\ met' = (met \/ Flooding)
  /\ UNCHANGED <<fitting, dead, knownRequests, asks, waitVars, mail, actualReq, phase, listed, ended>>

-----------------------------------------------------------------------------
(* A response is passed on along the way back, until its way is empty.  At *)
(* the origin it is added to the answers, if its request still has its     *)
(* place there, and the semaphore is posted whether or not it has.         *)
rerouteResponse(m) ==
  /\ m.wb # <<>> /\ m.at \notin dead
  /\ mail' = (mail (-) SetToBag({m})) (+)
               SetToBag({[m EXCEPT !.at = Last(m.wb), !.wb = Front(m.wb)]})
  /\ UNCHANGED <<worldVars, treeVars, waitVars, actualReq, phase, listed, ended, met>>

callbackResult(m) ==
  /\ m.wb = <<>> /\ m.at \notin dead
  /\ mail' = mail (-) SetToBag({m})
  /\ actualReq' = [s \in Searches |-> IF s = m.s /\ m.at = Origin[s] /\ actualReq[s] # None
                                         THEN Append(actualReq[s], m.node) ELSE actualReq[s]]
  /\ Post(m.at)
  /\ UNCHANGED <<worldVars, treeVars, phase, found, timer, unlocks, listed, ended, met>>

Die(n) ==
  /\ Events < MaxEvents /\ dead' = dead \cup {n}
  /\ UNCHANGED <<fitting, registers, treeVars, waitVars, mail, actualReq, phase, listed, ended, met>>

LaunchStep(s) == ForwardFirst(s) \/ InitSem(s) \/ Woken(s) \/ SleptEnough(s) \/ TimerFires(s)
Serve(m, n)   == AlreadyAsked(m, n) \/ Visit(m, n)
Receive(m)    == rerouteResponse(m) \/ callbackResult(m)

Goes ==
  \/ \E s \in Searches : LaunchStep(s)
  \/ \E m, n \in Nodes : Serve(m, n)
  \/ \E m \in BagToSet(mail) : Receive(m)
  \/ \E j \in BagToSet(jobmgr) : JobMgrStep(j)
  \/ \E n \in Nodes : unlockDiscovery(n)

Next ==
  \/ Goes
  \/ \E s \in Searches : Launch(s)
  \/ \E n \in Nodes : Die(n)
  \/ \E l \in Parents : SelfRegister(l[1], l[2])

Spec == Init /\ [][Next]_vars

(* The system does not stop while a thread can go on, a message arrive or  *)
(* a timer end; which of them comes next is open.  That is less than the   *)
(* threads' scheduling grants.  Nothing makes an application begin or end, *)
(* a machine die or a node register itself.                                *)
FairSpec == Spec /\ WF_vars(Goes)

-----------------------------------------------------------------------------
(* The variables have their types.                                         *)
DiscoveryTypeOK ==
  /\ fitting \subseteq Nodes /\ dead \subseteq Nodes /\ registers \in Nat /\ Events <= MaxEvents
  /\ neighborsList \in [Nodes -> [Nodes -> Nat]]
  /\ \A n \in Nodes : Len(knownRequests[n]) <= MaxReqToSave
                    /\ ToSet(knownRequests[n]) \subseteq Searches \ Ends
  /\ \A m, n \in Nodes : \A i \in DOMAIN asks[m][n] : LET r == asks[m][n][i] IN
       /\ r.s \in Searches /\ r.hops \in Int
       /\ DOMAIN r.el \subseteq Nodes /\ n \notin DOMAIN r.el
       /\ r.s \notin Ends => r.wb # <<>> /\ Head(r.wb) = Origin[r.s] /\ Last(r.wb) = m
  /\ actualReq \in [Searches -> {None} \cup Seq(Nodes)]
  /\ phase \in [Searches -> {"idle", "listed", "asked", "waiting", "returned", "failed"}]
  /\ listed \in [Searches -> SUBSET Nodes]
  /\ found \in [Searches -> Seq(Nodes)]
  /\ locker \in [Nodes -> Nat \cup {Overwritten}] /\ unlocks \in [Nodes -> Nat]
  /\ timer \in [Searches -> {"off", "running", "stopped", "fired"}]
  /\ ended \in [Searches -> SUBSET Nodes] /\ met \in BOOLEAN

Wide(s)  == Hops[s] = UnlimitedHops \/ Hops[s] >= Cardinality(Nodes)

(* Near[s]: the nodes at most Hops[s] links from the origin of s.          *)
Near == [s \in Searches |->
  LET far == IF Wide(s) THEN Cardinality(Nodes) ELSE Hops[s]
      ball[i \in 0..far] ==
        IF i = 0 THEN {Origin[s]}
        ELSE LET b == ball[i - 1] IN b \cup {l[2] : l \in {l \in Links : l[1] \in b}}
  IN ball[far]]

Quiet(s) == phase[s] \notin {"idle", "listed"} /\ ~OnItsWay(s)
Undisturbed == ~met /\ dead = {}

(* The answers to a request, at its origin or under way.                   *)
Answers(s) ==
  (IF actualReq[s] = None THEN {} ELSE ToSet(actualReq[s])) \cup {m.node : m \in {m \in BagToSet(mail) : m.s = s}}

(* A flood that met no other, no new link and no dead node has reached     *)
(* every node when it is over, whatever lists were cleared on the way and  *)
(* links cut behind it by an earlier one: each node that has the resources *)
(* has answered (popc_search_node.cc:319-356).                             *)
EveryNodeAnswers ==
  \A s \in Searches \ Ends :
    Undisturbed /\ Quiet(s) /\ Wide(s) /\ actualReq[s] # None
      => fitting \cap Near[s] \subseteq Answers(s)

(* ... and the job manager of each node knows that the application ended   *)
(* (popc_search_node.cc:262-283), so that its reservations are freed.      *)
EveryNodeEnds ==
  \A s \in Ends : Undisturbed /\ Quiet(s) => ended[s] = Near[s]

(* No node answers that is further from the origin than the depth asked    *)
(* for, however the lists changed since (request.cc:529).                  *)
AnswersWithinDepth ==
  \A s \in Searches \ Ends :
    registers = 0 => ToSet(found[s]) \cup Answers(s) \subseteq Near[s]

(* Links are cut where a request came twice, on both sides; what is left   *)
(* still leads everywhere (popc_search_node.cc:294-297), and both ends of  *)
(* a link know of it.                                                      *)
Linked == {l \in Nodes \X Nodes : neighborsList[l[1]][l[2]] > 0}
LinksSuffice ==
  Undisturbed /\ ~Flooding /\ ~Called("RegisterNode") =>
    /\ \A n, m \in Nodes : neighborsList[n][m] = neighborsList[m][n]
    /\ \A l \in Links : \A S \in SUBSET Nodes :
         l[1] \in S /\ l[2] \notin S => \E k \in Linked : k[1] \in S /\ k[2] \notin S

(* The search nodes keep the promise to the job managers, also when nodes  *)
(* die, and requests and answers meet: only nodes with the resources, each *)
(* once, nothing after the end.  Each once holds because a node remembers  *)
(* the requests it met (popc_search_node.cc:287-308), so only as long as   *)
(* it forgets none that may still come to it again.                        *)
Search == INSTANCE ResourceSearch WITH
  answers <- [s \in Searches |-> IF actualReq[s] = None THEN found[s] ELSE actualReq[s]],
  open <- {s \in Searches : actualReq[s] # None}
ImplementsSearch == Search!Spec

(* After some time no launch waits any more, whether or not anybody        *)
(* answered (nodethread.cc), but for those whose semaphore the main thread *)
(* wrote over: no lost answer, stopped timer or count that another launch  *)
(* of the node set to zero (popc_search_node.cc:220) holds one for ever.   *)
Launching(s) == phase[s] \in {"listed", "asked", "waiting"} /\ Origin[s] \notin dead

(* After some time no request goes round any more, not even one of the end *)
(* of an application, which no node remembers (popc_search_node.cc:262).   *)
FloodsEnd == []<>~Flooding
=============================================================================
