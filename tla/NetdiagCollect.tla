---------------------------- MODULE NetdiagCollect ----------------------------
(***************************************************************************)
(* ot-netdiag's walk of a Thread mesh through one commissioner session     *)
(* (collect.rs, and `run' and `dispatch' of main.rs): petition, leader     *)
(* discovery, every router, every child; each node is primed and then      *)
(* asked for its TLVs in batches that are halved when they go unanswered.  *)
(* The walk is sequential.  What is concurrent with it is time, the keep-  *)
(* alive deadline, and a mesh that loses messages and nodes.               *)
(*                                                                         *)
(* The mesh is external.  A node answers a request when it has not left,   *)
(* when its route is resolved (the first datagram to a node is dropped     *)
(* while it is), when the answer fits its size cap and when it is not      *)
(* lost.  Time is in abstract units; a wait takes any number of them up to *)
(* its timeout.                                                            *)
(***************************************************************************)
EXTENDS Topology

CONSTANTS
    KeepAliveInterval,  \* config().keepalive_interval
    NodeTimeout,        \* --node-timeout
    ExchangeTimeout,    \* the library's MESHCOP_TIMEOUT
    Meshes,             \* the meshes that may be walked
    Commands,           \* the commands: WholeMesh (topology) or the RLOC16 of `node'
    MaxFaults           \* bound on lost requests and nodes that leave

ASSUME IntervalAssumption == KeepAliveInterval \in Nat \ {0}
ASSUME NodeTimeoutAssumption == NodeTimeout \in Nat \ {0}
ASSUME ExchangeAssumption == ExchangeTimeout \in Nat /\ ExchangeTimeout < KeepAliveInterval
ASSUME FaultAssumption == MaxFaults \in Nat

(* What a Thread mesh guarantees.  Router IDs end at 62, so no RLOC16 is in   *)
(* the ALOC range; child IDs start at 1; a node gives its own address, at    *)
(* most one routing entry per router, and an answer to the smallest request. *)
RouterRlocSet == {RouterRloc(id) : id \in 0..62}

SoundTlvs(rloc, tlvs) ==
    /\ "MAC_ADDR" \in DOMAIN tlvs => tlvs["MAC_ADDR"] = rloc
    /\ "LEADER_DATA" \in DOMAIN tlvs => tlvs["LEADER_DATA"] \in 0..62
    /\ "CHILD_TABLE" \in DOMAIN tlvs => tlvs["CHILD_TABLE"] \subseteq 1..1023
    /\ "ROUTE64" \in DOMAIN tlvs =>
         /\ tlvs["ROUTE64"] \subseteq [id : 0..62, lin : 0..3, lout : 0..3]
         /\ \A e, f \in tlvs["ROUTE64"] : e.id = f.id => e = f

SoundMesh(m) ==
    /\ m.leader \in RouterRlocSet
    /\ DOMAIN m.nodes \subseteq 0..(RouterRloc(63) - 1)
    /\ \A r \in DOMAIN m.nodes : m.nodes[r].cap \in Nat \ {0} /\ SoundTlvs(r, m.nodes[r].tlvs)

ASSUME MeshAssumption == \A m \in Meshes : SoundMesh(m)

WholeMesh == -1

CHUNK_SIZE == 6

(* Fault: a node gets a single attempt. *)
PRIME_ATTEMPTS_Once == 1

PRIME_ATTEMPTS == 4

LEADER_ALOC16 == 64512

ROUTER_TLVS ==
    <<"MAC_ADDR", "EXT_MAC_ADDR", "MODE", "TIMEOUT", "CONNECTIVITY", "ROUTE64",
      "LEADER_DATA", "MAC_COUNTERS", "BATTERY_LEVEL", "SUPPLY_VOLTAGE", "CHILD_TABLE",
      "CHANNEL_PAGES", "EUI64", "CHILD_IPV6_ADDRESSES", "NETWORK_DATA", "IPV6_ADDRESSES">>

CHILD_TLVS ==
    <<"MAC_ADDR", "EXT_MAC_ADDR", "MODE", "TIMEOUT", "CONNECTIVITY", "LEADER_DATA",
      "MAC_COUNTERS", "BATTERY_LEVEL", "SUPPLY_VOLTAGE", "CHANNEL_PAGES", "EUI64",
      "IPV6_ADDRESSES">>

DISCOVERY_TLVS == <<"MAC_ADDR", "ROUTE64", "LEADER_DATA">>

VARIABLES
    pc,        \* where `run' is: see TypeOK
    session,   \* the commissioner handle: "connected", "active", "disabled"
    elapsed,   \* time since last_keep_alive
    work,      \* the collect_diag in progress
    walk,      \* the command in progress
    outcome,   \* what dispatch returned: "none", "ok", "err"
    mesh,      \* the mesh that is walked (external)
    air        \* what happened on it: see TypeOK (external)

vars == <<pc, session, elapsed, work, walk, outcome, mesh, air>>

-----------------------------------------------------------------------------
(* The mesh.  mesh.nodes maps an RLOC16 to what the node there answers;      *)
(* the leader ALOC reaches the leader with a smaller cap.                    *)

HeavyTlvs == {"NETWORK_DATA", "IPV6_ADDRESSES"}

Target(dest) == IF dest = LEADER_ALOC16 THEN mesh.leader ELSE dest

CapAt(dest) == IF dest = LEADER_ALOC16 THEN mesh.alocCap ELSE mesh.nodes[dest].cap

Fits(dest, ask) == Cardinality(ask) + 3 * Cardinality(ask \cap HeavyTlvs) <= CapAt(dest)

Present(dest) == Target(dest) \in DOMAIN mesh.nodes /\ Target(dest) \notin air.left

Answers(dest, ask) == Present(dest) /\ Fits(dest, ask)

AnswerOf(dest, ask) ==
    LET n == mesh.nodes[Target(dest)]
    IN  [t \in ask \cap DOMAIN n.tlvs |-> n.tlvs[t]]

-----------------------------------------------------------------------------
(* collect_diag: the batches a list of TLVs is asked for in, last chunk at   *)
(* the bottom of the stack (the end of the sequence is its top).             *)

Chunks(tlvs) ==
    LET kept[n \in 0..Len(tlvs)] ==
            IF n = 0 THEN <<>>
            ELSE IF tlvs[n] = "MAC_ADDR" THEN kept[n - 1] ELSE Append(kept[n - 1], tlvs[n])
        rest == kept[Len(tlvs)]
        count == (Len(rest) + CHUNK_SIZE - 1) \div CHUNK_SIZE
        last(i) == IF i * CHUNK_SIZE < Len(rest) THEN i * CHUNK_SIZE ELSE Len(rest)
    IN  [i \in 1..count |-> SubSeq(rest, (i - 1) * CHUNK_SIZE + 1, last(i))]

(* rev and pop: the first chunk is asked for first.                          *)
Reversed(q) == [i \in 1..Len(q) |-> q[Len(q) + 1 - i]]

Top(stack) == stack[Len(stack)]

Pop(stack) == SubSeq(stack, 1, Len(stack) - 1)

(* Fault: the second half starts one late. *)
HalvesSkipMiddle(batch) ==
    LET mid == Len(batch) \div 2
    IN  <<SubSeq(batch, 1, mid), SubSeq(batch, mid + 2, Len(batch))>>

Halves(batch) ==
    LET mid == Len(batch) \div 2
    IN  <<SubSeq(batch, 1, mid), SubSeq(batch, mid + 1, Len(batch))>>

NoWork == [dest |-> 0, tlvs |-> <<>>, tries |-> 0, primed |-> FALSE,
           stack |-> <<>>, merged |-> EmptyDiag]

Collect(dest, tlvs) == [NoWork EXCEPT !.dest = dest, !.tlvs = tlvs]

Batch == IF work.primed THEN Top(work.stack) ELSE <<"MAC_ADDR">>

Ask == Range(Batch)

(* collect_diag has nothing more to ask for.  (No batch is ever empty, so    *)
(* the loop's test for one never skips.)                                     *)
Collected == IF work.primed THEN work.stack = <<>> ELSE work.tries = PRIME_ATTEMPTS

-----------------------------------------------------------------------------
(* The walk.                                                                 *)

NoWalk(cmd) == [cmd |-> cmd, stage |-> "start", todo |-> <<>>, leader |-> 0,
                discovery |-> EmptyDiag, nodes |-> EmptyDiag, answers |-> EmptyDiag]

(* The RLOC16 of the leader that answered at the ALOC; -1 when its answer    *)
(* has neither its address nor leader data.                                  *)
LeaderRloc(d) ==
    CASE "MAC_ADDR" \in DOMAIN d -> d["MAC_ADDR"]
      [] "MAC_ADDR" \notin DOMAIN d /\ "LEADER_DATA" \in DOMAIN d -> RouterRloc(d["LEADER_DATA"])
      [] OTHER -> -1

RouterRlocs(d) ==
    LET listed == IF "ROUTE64" \in DOMAIN d THEN {RouterRloc(e.id) : e \in d["ROUTE64"]} ELSE {}
        leader == LeaderRloc(d)
    IN  IF leader \in listed THEN Ascending(listed) ELSE Append(Ascending(listed), leader)

ChildrenOf(answers) ==
    LET of(p) == ChildNodes(p, answers[p])
    IN  [r \in UNION {DOMAIN of(p) : p \in DOMAIN answers} |-> of(ParentOf(r))[r]]

RouterNode(rloc, leader, found, data) ==
    LET role == IF rloc = leader THEN "leader" ELSE "router"
    IN  IF found THEN FromDiag(rloc, role, data) ELSE Unreachable(rloc, role)

(* network_info reads the rest of the dataset once the walk is over.         *)
Finish(w) ==
    /\ walk' = [w EXCEPT !.stage = "done"]
    /\ work' = NoWork
    /\ outcome' = IF w.cmd = WholeMesh /\ mesh.dataset = "malformed" THEN "err" ELSE "ok"
    /\ pc' = "resign"

Fail ==
    /\ outcome' = "err"
    /\ pc' = "resign"
    /\ work' = NoWork
    /\ UNCHANGED walk

Visit(w, dest, tlvs) ==
    /\ walk' = w
    /\ work' = Collect(dest, tlvs)
    /\ pc' = "send"
    /\ UNCHANGED outcome

(* The loop over the routers, and over the children once they are known.     *)
VisitRest(w) ==
    IF w.todo # <<>>
    THEN Visit(w, Head(w.todo), IF w.stage = "routers" THEN ROUTER_TLVS ELSE CHILD_TLVS)
    ELSE Finish(w)

LeaderFound ==
    LET d == work.merged
    IN  VisitRest([walk EXCEPT !.stage = "routers", !.discovery = d,
                               !.leader = LeaderRloc(d), !.todo = RouterRlocs(d)])

RouterDone ==
    LET w == [walk EXCEPT
                !.todo = Tail(@),
                !.nodes = Insert(@, work.dest,
                                 RouterNode(work.dest, walk.leader, work.primed, work.merged)),
                !.answers = IF work.primed THEN Insert(@, work.dest, work.merged) ELSE @]
        children == ChildrenOf(w.answers)
    IN  IF w.todo # <<>> THEN VisitRest(w)
        ELSE VisitRest([w EXCEPT !.stage = "children", !.todo = Ascending(DOMAIN children),
                                 !.nodes = Extend(@, children)])

(* Fault: the child's record is rebuilt from its own answer alone. *)
ChildDoneReplaces ==
    VisitRest([walk EXCEPT
                 !.todo = Tail(@),
                 !.nodes = IF work.primed
                           THEN Insert(@, work.dest, FromDiag(work.dest, "child", work.merged))
                           ELSE @])

ChildDone ==
    VisitRest([walk EXCEPT
                 !.todo = Tail(@),
                 !.nodes = IF work.primed
                           THEN Insert(@, work.dest, MergeDiag(@[work.dest], work.merged))
                           ELSE @])

(* collect_node: the node itself, its parent's child table, a placeholder.   *)
NodeRecord(rloc, node) == Finish([walk EXCEPT !.nodes = Insert(@, rloc, node)])

NodeDone ==
    LET rloc == walk.cmd
    IN  CASE work.primed ->
               NodeRecord(rloc, FromDiag(rloc, ResolveRole(rloc, work.merged, DefaultRole(rloc)),
                                         work.merged))
          [] ~work.primed /\ IsChild(rloc) ->
               Visit([walk EXCEPT !.stage = "parent"], ParentOf(rloc), ROUTER_TLVS)
          [] OTHER -> NodeRecord(rloc, Skeleton(rloc, DefaultRole(rloc), "unreachable"))

ParentDone ==
    LET rloc == walk.cmd
        children == ChildNodes(work.dest, work.merged)
    IN  IF rloc \in DOMAIN children THEN NodeRecord(rloc, children[rloc])
        ELSE NodeRecord(rloc, Skeleton(rloc, DefaultRole(rloc), "unreachable"))

-----------------------------------------------------------------------------
(* Actions: `run', `dispatch' and Collector::start.                          *)

Init ==
    /\ pc = "connect"
    /\ session = "none"
    /\ elapsed = 0
    /\ work = NoWork
    /\ walk \in {NoWalk(c) : c \in Commands}
    /\ outcome = "none"
    /\ mesh \in Meshes
    /\ air = [left |-> {}, resolved |-> {}, faults |-> 0, dropped |-> {}, held |-> FALSE,
              resigned |-> FALSE]

(* Commissioner::connect; when it fails `run' returns at once.               *)
Connect ==
    /\ pc = "connect"
    /\ \/ session' = "connected" /\ pc' = "petition" /\ UNCHANGED outcome
       \/ session' = "none" /\ pc' = "exit" /\ outcome' = "err"
    /\ UNCHANGED <<elapsed, work, walk, mesh, air>>

(* Collector::start refuses a node timeout as long as the interval.          *)
Petition ==
    /\ pc = "petition"
    /\ \/ /\ NodeTimeout < KeepAliveInterval
          /\ session' = "active"
          /\ elapsed' = 0
          /\ pc' = "dataset"
          /\ air' = [air EXCEPT !.held = TRUE]
          /\ UNCHANGED <<work, walk, outcome>>
       \/ Fail /\ UNCHANGED <<session, elapsed, air>>
    /\ UNCHANGED mesh

GetActiveDataset ==
    /\ pc = "dataset"
    /\ \E d \in 0..ExchangeTimeout : elapsed' = elapsed + d
    /\ \/ /\ mesh.dataset # "no prefix"
          /\ IF walk.cmd = WholeMesh
             THEN Visit([walk EXCEPT !.stage = "discover"], LEADER_ALOC16, DISCOVERY_TLVS)
             ELSE Visit([walk EXCEPT !.stage = "node"], walk.cmd,
                        IF IsChild(walk.cmd) THEN CHILD_TLVS ELSE ROUTER_TLVS)
       \/ Fail
    /\ UNCHANGED <<session, mesh, air>>

-----------------------------------------------------------------------------
(* keep_alive_before_request and the request it precedes.                    *)

(* Fault: the time the request may take is left out. *)
MayCrossDeadlineNow(e) == e >= KeepAliveInterval

MayCrossDeadline(e) == e + NodeTimeout >= KeepAliveInterval

SendKeepAlive ==
    /\ pc = "send"
    /\ ~Collected
    /\ MayCrossDeadline(elapsed)
    /\ pc' = "keepalive"
    /\ UNCHANGED <<session, elapsed, work, walk, outcome, mesh, air>>

KeepAliveAccepted ==
    /\ pc = "keepalive"
    /\ elapsed' = 0
    /\ pc' = "send"
    /\ UNCHANGED <<session, work, walk, outcome, mesh, air>>

(* Fault: the walk goes on after a refused keep-alive. *)
KeepAliveRefusedGoesOn ==
    /\ pc = "keepalive"
    /\ session' = "disabled"
    /\ elapsed' = 0
    /\ pc' = "send"
    /\ UNCHANGED <<work, walk, outcome, mesh, air>>

(* An error, Pending or Reject: the handle is disconnected.  Only after a    *)
(* Reject does the leader certainly hold the session no more.                *)
KeepAliveRefused ==
    /\ pc = "keepalive"
    /\ session' = "disabled"
    /\ Fail
    /\ \E held \in BOOLEAN : air' = [air EXCEPT !.held = held]
    /\ UNCHANGED <<elapsed, mesh>>

SendQuery ==
    /\ pc = "send"
    /\ ~Collected
    /\ ~MayCrossDeadline(elapsed)
    /\ pc' = "wait"
    /\ UNCHANGED <<session, elapsed, work, walk, outcome, mesh, air>>

Waited == \E d \in 0..NodeTimeout : elapsed' = elapsed + d

QueryAnswered ==
    /\ pc = "wait"
    /\ Answers(work.dest, Ask)
    /\ work.dest \in air.resolved
    /\ Waited
    /\ work' = [work EXCEPT
                  !.merged = MergeNetdiag(@, AnswerOf(work.dest, Ask)),
                  !.primed = TRUE,
                  !.stack = IF work.primed THEN Pop(@) ELSE Reversed(Chunks(work.tlvs))]
    /\ pc' = "send"
    /\ UNCHANGED <<session, walk, outcome, mesh, air>>

(* Fault: a lone TLV is asked for until it is answered. *)
UnansweredInsists ==
    /\ Waited
    /\ work' = IF ~work.primed THEN [work EXCEPT !.tries = @ + 1]
               ELSE IF Len(Batch) > 1 THEN [work EXCEPT !.stack = Pop(@) \o Halves(Batch)]
               ELSE work
    /\ pc' = "send"
    /\ UNCHANGED <<session, walk, outcome, mesh>>

(* No answer, a refusal or a truncated answer: the batch is halved, a lone   *)
(* TLV is given up for this node.                                            *)
Unanswered ==
    /\ Waited
    /\ work' = IF ~work.primed THEN [work EXCEPT !.tries = @ + 1]
               ELSE IF Len(Batch) > 1 THEN [work EXCEPT !.stack = Pop(@) \o Halves(Batch)]
               ELSE [work EXCEPT !.stack = Pop(@)]
    /\ pc' = "send"
    /\ UNCHANGED <<session, walk, outcome, mesh>>

QueryUnanswered ==
    /\ pc = "wait"
    /\ ~(Answers(work.dest, Ask) /\ work.dest \in air.resolved)
    /\ Unanswered
    /\ air' = [air EXCEPT !.resolved = IF Present(work.dest) THEN @ \cup {work.dest} ELSE @]

QueryLost ==
    /\ pc = "wait"
    /\ Answers(work.dest, Ask)
    /\ work.dest \in air.resolved
    /\ air.faults < MaxFaults
    /\ Unanswered
    /\ air' = [air EXCEPT
                 !.faults = @ + 1,
                 !.dropped = IF work.primed /\ Len(Batch) = 1
                             THEN @ \cup {<<work.dest, t>> : t \in Ask} ELSE @]

(* An I/O or cryptographic error ends the walk.                              *)
QueryFatal ==
    /\ pc = "wait"
    /\ Waited
    /\ Fail
    /\ UNCHANGED <<session, mesh, air>>

-----------------------------------------------------------------------------
(* What follows a finished collect_diag, and the end of `run'.               *)

CollectDone ==
    /\ pc = "send"
    /\ Collected
    /\ \/ /\ walk.stage = "discover"
          /\ IF work.primed /\ LeaderRloc(work.merged) # -1 THEN LeaderFound ELSE Fail
       \/ walk.stage = "routers" /\ RouterDone
       \/ walk.stage = "children" /\ ChildDone
       \/ walk.stage = "node" /\ NodeDone
       \/ walk.stage = "parent" /\ ParentDone
    /\ UNCHANGED <<session, elapsed, mesh, air>>

(* Resigning needs a session; without one the call fails and sends nothing.  *)
Resign ==
    /\ pc = "resign"
    /\ \/ /\ session = "active"
          /\ air' = [air EXCEPT !.resigned = TRUE]
          /\ \/ session' = "disabled" /\ UNCHANGED outcome
             \/ outcome' = "err" /\ UNCHANGED session
       \/ /\ session # "active"
          /\ outcome' = "err"
          /\ UNCHANGED <<session, air>>
    /\ pc' = "exit"
    /\ UNCHANGED <<elapsed, work, walk, mesh>>

(* The mesh: a node drops off while the walk is under way.                   *)
NodeLeaves ==
    /\ pc \in {"send", "wait", "keepalive"}
    /\ air.faults < MaxFaults
    /\ \E r \in DOMAIN mesh.nodes \ air.left :
         air' = [air EXCEPT !.left = @ \cup {r}, !.faults = @ + 1]
    /\ UNCHANGED <<pc, session, elapsed, work, walk, outcome, mesh>>

Exited == pc = "exit" /\ UNCHANGED vars

Step == Connect \/ Petition \/ GetActiveDataset \/ SendKeepAlive \/ KeepAliveAccepted
        \/ KeepAliveRefused \/ SendQuery \/ QueryAnswered \/ QueryUnanswered
        \/ QueryLost \/ QueryFatal \/ CollectDone \/ Resign

Next == Step \/ NodeLeaves \/ Exited

Spec == Init /\ [][Next]_vars

(* The walk is one task that is never cancelled, and each of its waits has a *)
(* timer: it takes a step as long as it has one.                             *)
FairSpec == Spec /\ WF_vars(Step)

-----------------------------------------------------------------------------
(* Properties.                                                               *)

(* Every variable has its type; `dropped' records the lone TLVs that were    *)
(* lost, `held' that the leader holds the session the tool was granted, and  *)
(* `resigned' that a resignation was sent.                                   *)
TypeOK ==
    /\ pc \in {"connect", "petition", "dataset", "send", "wait", "keepalive", "resign", "exit"}
    /\ session \in {"none", "connected", "active", "disabled"}
    /\ elapsed \in Nat
    /\ outcome \in {"none", "ok", "err"}
    /\ walk.stage \in {"start", "discover", "routers", "children", "node", "parent", "done"}
    /\ work.tries \in 0..PRIME_ATTEMPTS
    /\ air.left \subseteq DOMAIN mesh.nodes
    /\ air.faults \in 0..MaxFaults
    /\ air.held \in BOOLEAN
    /\ air.resigned \in BOOLEAN

(* No wait of the walk crosses the keep-alive deadline: while a diagnostic   *)
(* request is outstanding, and whenever a keep-alive goes out, less than the *)
(* interval has passed since the last one (collect.rs:385).                  *)
KeepAliveInTime ==
    pc \in {"dataset", "send", "wait", "keepalive"} => elapsed < KeepAliveInterval

(* The dataset is read and a diagnostic request or keep-alive made only in a *)
(* live session: a keep-alive that was refused, wherever in the walk, leaves *)
(* nothing more to be sent.                                                  *)
QueriesInSession ==
    pc \in {"dataset", "send", "wait", "keepalive"} => session = "active"

Stays(r) == r \in DOMAIN mesh.nodes \ air.left

(* Halving a batch loses nothing: a node that stays gives the snapshot every *)
(* TLV it supports and can answer alone, and that a record has a place for,  *)
(* unless that very request was lost.                                        *)
AnswersComplete ==
    outcome = "ok" =>
      \A r \in DOMAIN walk.nodes :
        walk.nodes[r].discovery = "direct" /\ Stays(r) =>
          \A t \in Range(IF IsChild(r) THEN CHILD_TLVS ELSE ROUTER_TLVS) \ NotStored :
            t \in DOMAIN mesh.nodes[r].tlvs /\ Fits(r, {t}) /\ <<r, t>> \notin air.dropped
              => /\ t \in DOMAIN walk.nodes[r].data
                 /\ walk.nodes[r].data[t] = mesh.nodes[r].tlvs[t]

(* A router that stays, and a child that stays under a router that answered, *)
(* is never reported as silent: dropping the first datagram of a route and   *)
(* losing up to two more does not exhaust the attempts.                      *)
NobodyMissed ==
    outcome = "ok" /\ air.faults <= 2 =>
      \A r \in DOMAIN walk.nodes : Stays(r) => walk.nodes[r].discovery = "direct"

(* The snapshot of `topology' hangs together: one leader, every child under  *)
(* a router that listed it, both ends of every attachment present, every     *)
(* node shown exactly once, and each mesh link seen from the side that is    *)
(* asked about even when only the other side reported it.                    *)
SnapshotConsistent ==
    LET nodes == walk.nodes
        links == BuildLinks(nodes)
        rows == Rows(nodes, links)
        shown(r) == {row \in rows : row.router = r} \cup
                    {row \in rows : \E c \in row.children : c.rloc = r}
    IN  outcome = "ok" /\ walk.cmd = WholeMesh =>
          /\ {r \in DOMAIN nodes : nodes[r].role = "leader"} = {walk.leader}
          /\ \A l \in links.parentChild : l[1] \in DOMAIN nodes /\ l[2] \in DOMAIN nodes
          /\ \A r \in DOMAIN nodes :
               /\ Cardinality(shown(r)) = 1
               /\ nodes[r].role = "child" => <<nodes[r].parent, r>> \in links.parentChild
               /\ \A e \in nodes[r].routes :
                    e.rel = "neighbor" =>
                      /\ [other |-> RouterRloc(e.id), view |-> [lin |-> e.lin, lout |-> e.lout]]
                           \in MeshNeighbors(links, r)
                      /\ \E n \in MeshNeighbors(links, RouterRloc(e.id)) :
                           n.other = r /\ n.view # NoView

(* The walk ends: with a report or an error it reaches the resignation and   *)
(* exits, whatever the mesh loses.                                           *)
WalkEnds == <>(pc = "exit")

(* main.rs:15 "It always resigns the commissioner session before exiting":   *)
(* when the tool exits and the leader still holds the session it was         *)
(* granted, a resignation was sent.                                          *)
ResignsBeforeExit == pc = "exit" /\ air.held => air.resigned

===============================================================================
