---------------------------- MODULE NetdiagProofs -----------------------------
(***************************************************************************)
(* What ot-netdiag promises the network while it walks a mesh, for every   *)
(* mesh, every timeout and any number of lost requests: its session's      *)
(* keep-alive is never late, and it asks nothing outside a session.  Then  *)
(* the invariant of a walk's report, and the steps of one collect_diag     *)
(* that keep it; NetdiagReportProofs has the other steps and the results.  *)
(***************************************************************************)
EXTENDS NetdiagCollect, FiniteSetTheorems, SequenceTheorems, WellFoundedInduction, TLAPS

-----------------------------------------------------------------------------
(* RLOC16s.  Zenon writes numerals in unary, so the large ones stay here.    *)

Rlocs == {n \in Nat : n < 64512}

ChildIds == {c \in Nat : 0 < c /\ c < 1024}

NodeFields == {"rloc", "role", "discovery", "parent", "data", "routes", "children"}

Table(data) == IF "CHILD_TABLE" \in DOMAIN data THEN data["CHILD_TABLE"] ELSE {}

ChildRlocs(p, data) == {ChildRloc(p, c) : c \in Table(data)}

(* The RLOC16 of a router: below the ALOCs, no child ID, its own router ID.  *)
LEMMA RouterRlocs16 ==
    ASSUME NEW r \in RouterRlocSet
    PROVE  /\ r \in Rlocs /\ ~IsChild(r)
           /\ RouterRloc(RouterId(r)) = r
<1>1. PICK id \in 0..62 : r = id * 1024
  BY DEF RouterRlocSet, RouterRloc
<1>2. r \in Nat /\ r < 64512 /\ r % 1024 = 0 /\ (r \div 1024) * 1024 = r
  BY <1>1
<1> QED
  BY <1>2 DEF IsChild, ChildId, RouterRloc, RouterId, Rlocs

(* The RLOC16 of a child: its parent's, and never a router's.                *)
LEMMA ChildRlocs16 ==
    ASSUME NEW p \in RouterRlocSet, NEW c \in ChildIds
    PROVE  /\ ChildRloc(p, c) \in Rlocs /\ IsChild(ChildRloc(p, c))
           /\ ParentOf(ChildRloc(p, c)) = p
           /\ ChildRloc(p, c) \notin RouterRlocSet
<1>1. PICK id \in 0..62 : p = id * 1024
  BY DEF RouterRlocSet, RouterRloc
<1>2. c \in Nat /\ 0 < c /\ c < 1024
  BY DEF ChildIds
<1>4. p + c \in Nat /\ p + c < 64512 /\ (p + c) % 1024 = c /\ c # 0 /\ (p + c) - c = p
  BY <1>1, <1>2
<1>3. ChildRloc(p, c) = p + c /\ IsChild(p + c) /\ ParentOf(p + c) = p
  BY <1>4 DEF ChildRloc, IsChild, ChildId, ParentOf
<1>5. p + c \in Rlocs
  BY <1>4 DEF Rlocs
<1> QED
  BY <1>3, <1>5, RouterRlocs16

(* RLOC16s are bounded numbers; the flag and the ALOC are not among them.    *)
LEMMA RlocNumbers ==
    /\ Rlocs \subseteq Int
    /\ \E bound \in Nat : Rlocs \subseteq 0..bound
    /\ WholeMesh \notin Rlocs
    /\ LEADER_ALOC16 \notin Rlocs
    /\ -1 \notin RouterRlocSet
<1>1. -1 \notin Rlocs /\ Rlocs \subseteq Int /\ 64512 \notin Rlocs
  BY DEF Rlocs
<1>2. \E bound \in Nat : Rlocs \subseteq 0..bound
  <2>1. PICK b \in Nat : b = 64512
    OBVIOUS
  <2>2. ASSUME NEW n \in Rlocs PROVE n \in 0..b
    <3>1. n \in Nat /\ n < b
      BY <2>1 DEF Rlocs
    <3> HIDE <2>1
    <3> QED
      BY <3>1
  <2> QED
    BY <2>2
<1> QED
  BY <1>1, <1>2, RouterRlocs16 DEF WholeMesh, LEADER_ALOC16

(* Two routers have two RLOC16s.                                             *)
LEMMA RouterRlocInjective ==
    ASSUME NEW i \in 0..62, NEW j \in 0..62, RouterRloc(i) = RouterRloc(j)
    PROVE  i = j
BY DEF RouterRloc

(* What MeshAssumption says of a mesh, in these words.                       *)
LEMMA SoundChildren ==
    ASSUME NEW r, NEW tlvs, SoundTlvs(r, tlvs)
    PROVE  Table(tlvs) \subseteq ChildIds
<1>1. 1..1023 = ChildIds
  BY SMTT(60) DEF ChildIds
<1> QED
  BY <1>1 DEF SoundTlvs, Table

(* The nodes of such a mesh.                                                 *)
LEMMA SoundMeshes ==
    ASSUME NEW m, SoundMesh(m)
    PROVE  /\ m.leader \in RouterRlocSet
           /\ DOMAIN m.nodes \subseteq Rlocs
           /\ \A r \in DOMAIN m.nodes : m.nodes[r].cap \in Nat \ {0} /\ SoundTlvs(r, m.nodes[r].tlvs)
<1>1. PICK b \in Nat : b = RouterRloc(63) - 1 /\ b = 64511
  BY DEF RouterRloc
<1>2. \A n \in 0..b : n \in Rlocs
  BY <1>1 DEF Rlocs
<1>3. DOMAIN m.nodes \subseteq 0..b
  BY <1>1 DEF SoundMesh
<1> QED
  BY <1>2, <1>3 DEF SoundMesh

(* What the answers of one node are taken from.                              *)
Truthful(r, data) ==
    \A t \in DOMAIN data :
      r \in DOMAIN mesh.nodes /\ t \in DOMAIN mesh.nodes[r].tlvs /\ data[t] = mesh.nodes[r].tlvs[t]

MeshInv == SoundMesh(mesh)

(* The routes of a record, as its answer gives them.                         *)
RoutesOf(r, data) ==
    IF "ROUTE64" \in DOMAIN data
    THEN {[id |-> e.id, rel |-> Relation(RouterId(r), e), lin |-> e.lin, lout |-> e.lout] :
             e \in data["ROUTE64"]}
    ELSE {}

(* What a node's own answers say is as sound as the node.                    *)
LEMMA SoundAnswers ==
    ASSUME MeshInv, NEW r, NEW data, Truthful(r, data)
    PROVE  SoundTlvs(r, data)
<1>1. CASE r \in DOMAIN mesh.nodes
  <2>1. SoundTlvs(r, mesh.nodes[r].tlvs)
    BY <1>1, SoundMeshes DEF MeshInv
  <2>2. \A t \in DOMAIN data : t \in DOMAIN mesh.nodes[r].tlvs /\ data[t] = mesh.nodes[r].tlvs[t]
    BY DEF Truthful
  <2> QED
    BY <2>1, <2>2 DEF SoundTlvs
<1>2. CASE r \notin DOMAIN mesh.nodes
  BY <1>2 DEF Truthful, SoundTlvs
<1> QED
  BY <1>1, <1>2

(* The leader that answered at the ALOC.                                     *)
LEMMA LeaderKnown ==
    ASSUME NEW r \in RouterRlocSet, NEW d, SoundTlvs(r, d), LeaderRloc(d) # -1
    PROVE  LeaderRloc(d) \in RouterRlocSet
<1>1. CASE "MAC_ADDR" \in DOMAIN d
  BY <1>1 DEF LeaderRloc, SoundTlvs
<1>2. CASE "MAC_ADDR" \notin DOMAIN d /\ "LEADER_DATA" \in DOMAIN d
  <2>1. d["LEADER_DATA"] \in 0..62 /\ LeaderRloc(d) = RouterRloc(d["LEADER_DATA"])
    BY <1>2 DEF LeaderRloc, SoundTlvs
  <2> QED
    BY <2>1 DEF RouterRlocSet
<1>3. CASE "MAC_ADDR" \notin DOMAIN d /\ "LEADER_DATA" \notin DOMAIN d
  BY <1>3 DEF LeaderRloc
<1> QED
  BY <1>1, <1>2, <1>3

(* The routers its routing table lists.                                      *)
LEMMA ListedRouters ==
    ASSUME NEW r, NEW d, SoundTlvs(r, d), "ROUTE64" \in DOMAIN d
    PROVE  {RouterRloc(e.id) : e \in d["ROUTE64"]} \subseteq RouterRlocSet
<1>1. \A e \in d["ROUTE64"] : e.id \in 0..62
  BY DEF SoundTlvs
<1> QED
  BY <1>1 DEF RouterRlocSet

(* The router ID of a router's RLOC16.                                       *)
LEMMA RouterIdOf ==
    ASSUME NEW id \in 0..62
    PROVE  RouterId(RouterRloc(id)) = id /\ RouterRloc(id) \in RouterRlocSet
<1>1. (id * 1024) \div 1024 = id
  OBVIOUS
<1> QED
  BY <1>1 DEF RouterId, RouterRloc, RouterRlocSet

(* The routing entries of a router's answer: one per peer, none about itself *)
(* among the neighbours.                                                     *)
LEMMA RouteEntries ==
    ASSUME NEW r \in RouterRlocSet, NEW data, SoundTlvs(r, data),
           NEW e \in RoutesOf(r, data)
    PROVE  /\ e.id \in 0..62 /\ e.lin \in 0..3 /\ e.lout \in 0..3
           /\ e.rel = "neighbor" => e.id # RouterId(r)
           /\ \A f \in RoutesOf(r, data) : f.id = e.id => f = e
<1> DEFINE row(x) == [id |-> x.id, rel |-> Relation(RouterId(r), x), lin |-> x.lin, lout |-> x.lout]
           T == data["ROUTE64"]
<1>1. "ROUTE64" \in DOMAIN data /\ RoutesOf(r, data) = {row(x) : x \in T}
  BY DEF RoutesOf
<1>2. T \subseteq [id : 0..62, lin : 0..3, lout : 0..3] /\ \A x, y \in T : x.id = y.id => x = y
  BY <1>1 DEF SoundTlvs
<1>3. \A x \in T : row(x).id = x.id /\ row(x).lin = x.lin /\ row(x).lout = x.lout
                   /\ row(x).rel = Relation(RouterId(r), x)
  OBVIOUS
<1>4. \A x \in T : x.id \in 0..62 /\ x.lin \in 0..3 /\ x.lout \in 0..3
  BY <1>2
<1> HIDE DEF row, T
<1>5. PICK x \in T : e = row(x)
  BY <1>1
<1>6. Relation(RouterId(r), x) = "neighbor" => x.id # RouterId(r)
  BY DEF Relation
<1>7. \A f \in RoutesOf(r, data) : f.id = e.id => f = e
  BY <1>1, <1>2, <1>3, <1>5
<1> QED
  BY <1>3, <1>4, <1>5, <1>6, <1>7

\* The obligations below carry a large context, which Zenon takes better than
\* SMT, and whose translation for SMT may take more than one attempt.
USE ZenonT(5), SMTT(30), ZenonT(25), SMTT(20), SMTT(25)

-----------------------------------------------------------------------------
(* The session.                                                              *)

(* Where a finished collect_diag can lead.                                   *)
Stages == {"start", "discover", "routers", "children", "node", "parent", "done"}

Staged(w) == "stage" \in DOMAIN w /\ w.stage \in Stages

Untried(k) == {"tries", "primed"} \subseteq DOMAIN k /\ k.tries = 0

Goes ==
    /\ pc' \in {"send", "resign"}
    /\ outcome' \in {outcome, "ok", "err"}
    /\ Staged(walk') /\ Untried(work')

(* A collect_diag starts with no attempt made, and there is none between two.*)
LEMMA Beginnings ==
    /\ Untried(NoWork)
    /\ \A d, t : Untried(Collect(d, t))
BY DEF NoWork, Collect, Untried

(* A visit of a node goes on with the walk it is given.                      *)
LEMMA VisitGoes ==
    ASSUME NEW w, NEW d, NEW t, Staged(w), Visit(w, d, t)
    PROVE  Goes
BY Beginnings DEF Visit, Goes

(* So does the end of a walk.                                                *)
LEMMA FinishGoes ==
    ASSUME NEW w, Staged(w), Finish(w)
    PROVE  Goes
<1>1. Staged(walk')
  BY DEF Finish, Staged, Stages
<1> QED
  BY <1>1, Beginnings DEF Finish, Goes

(* And a failure, which leaves the walk as it is.                            *)
LEMMA FailGoes ==
    ASSUME Staged(walk), Fail
    PROVE  Goes
BY Beginnings DEF Fail, Goes

(* The loops over routers and children.                                      *)
LEMMA RestGoes ==
    ASSUME NEW w, Staged(w), VisitRest(w)
    PROVE  Goes
BY VisitGoes, FinishGoes DEF VisitRest

(* Whatever the stage, what follows a finished collect_diag is a visit, the  *)
(* end of the walk or its failure.                                           *)
LEMMA CollectGoes ==
    ASSUME Staged(walk), CollectDone
    PROVE  Goes
<1>1. CASE walk.stage = "discover" /\ IF work.primed /\ LeaderRloc(work.merged) # -1
                                       THEN LeaderFound ELSE Fail
  <2>1. CASE LeaderFound
    <3> DEFINE w == [walk EXCEPT !.stage = "routers", !.discovery = work.merged,
                                 !.leader = LeaderRloc(work.merged),
                                 !.todo = RouterRlocs(work.merged)]
    <3>1. Staged(w)
      BY DEF Staged, Stages
    <3>2. VisitRest(w)
      BY <2>1 DEF LeaderFound
    <3> QED
      BY <3>1, <3>2, RestGoes
  <2> QED
    BY <1>1, <2>1, FailGoes
<1>2. CASE walk.stage = "routers" /\ RouterDone
  <2> DEFINE w == [walk EXCEPT
                !.todo = Tail(@),
                !.nodes = Insert(@, work.dest,
                                 RouterNode(work.dest, walk.leader, work.primed, work.merged)),
                !.answers = IF work.primed THEN Insert(@, work.dest, work.merged) ELSE @]
             children == ChildrenOf(w.answers)
             v == [w EXCEPT !.stage = "children", !.todo = Ascending(DOMAIN children),
                            !.nodes = Extend(@, children)]
  <2>1. VisitRest(w) \/ VisitRest(v)
    BY <1>2 DEF RouterDone
  <2>2. Staged(w)
    BY DEF Staged, Stages
  <2>3. Staged(v)
    <3> HIDE DEF w, children
    <3> QED
      BY <2>2 DEF Staged, Stages
  <2> QED
    BY <2>1, <2>2, <2>3, RestGoes
<1>3. CASE walk.stage = "children" /\ ChildDone
  <2> DEFINE w == [walk EXCEPT
                     !.todo = Tail(@),
                     !.nodes = IF work.primed
                               THEN Insert(@, work.dest, MergeDiag(@[work.dest], work.merged))
                               ELSE @]
  <2>1. Staged(w)
    BY DEF Staged, Stages
  <2>2. VisitRest(w)
    BY <1>3 DEF ChildDone
  <2> QED
    BY <2>1, <2>2, RestGoes
<1>4. ASSUME NEW r, NEW n, NodeRecord(r, n)
      PROVE  Goes
  <2>1. Staged([walk EXCEPT !.nodes = Insert(@, r, n)])
    BY DEF Staged, Stages
  <2> QED
    BY <1>4, <2>1, FinishGoes DEF NodeRecord
<1>5. CASE walk.stage = "node" /\ NodeDone
  <2>1. Staged([walk EXCEPT !.stage = "parent"])
    BY DEF Staged, Stages
  <2>2. ASSUME NEW d, NEW t, Visit([walk EXCEPT !.stage = "parent"], d, t)
        PROVE  Goes
    BY <2>1, <2>2, VisitGoes
  <2> QED
    BY <1>4, <1>5, <2>2 DEF NodeDone
<1>6. CASE walk.stage = "parent" /\ ParentDone
  BY <1>4, <1>6 DEF ParentDone
<1> QED
  BY <1>1, <1>2, <1>3, <1>5, <1>6 DEF CollectDone

-----------------------------------------------------------------------------
(* The time since the last keep-alive at each place of the walk.  A request  *)
(* is outstanding only when even its timeout stays within the interval: that *)
(* is what keep_alive_before_request makes sure of.                          *)
TimeInv ==
    /\ pc = "dataset" => elapsed = 0
    /\ pc \in {"send", "keepalive"} => elapsed < KeepAliveInterval
    /\ pc = "wait" => elapsed + NodeTimeout < KeepAliveInterval

SessionInv ==
    pc \in {"dataset", "send", "wait", "keepalive"} => session = "active"

WorkInv ==
    /\ {"tries", "primed"} \subseteq DOMAIN work
    /\ work.tries \in 0..PRIME_ATTEMPTS
    /\ pc = "wait" /\ ~work.primed => work.tries < PRIME_ATTEMPTS

AirInv ==
    /\ {"left", "faults", "held", "resigned"} \subseteq DOMAIN air
    /\ air.left \subseteq DOMAIN mesh.nodes
    /\ air.faults \in 0..MaxFaults
    /\ air.held \in BOOLEAN
    /\ air.resigned \in BOOLEAN

PlaceInv ==
    /\ pc \in {"connect", "petition", "dataset", "send", "wait", "keepalive", "resign", "exit"}
    /\ session \in {"none", "connected", "active", "disabled"}
    /\ elapsed \in Nat
    /\ outcome \in {"none", "ok", "err"}

WalkInv == PlaceInv /\ Staged(walk) /\ WorkInv /\ AirInv /\ SessionInv /\ TimeInv

(* It holds before the connection.                                           *)
LEMMA WalkStart == Init => WalkInv
<1> SUFFICES ASSUME Init PROVE WalkInv
  OBVIOUS
<1>1. PlaceInv /\ SessionInv /\ TimeInv
  BY DEF Init, PlaceInv, SessionInv, TimeInv
<1>2. Staged(walk)
  BY DEF Init, NoWalk, Staged, Stages
<1>3. WorkInv
  BY Beginnings DEF Init, WorkInv, Untried, PRIME_ATTEMPTS
<1>4. AirInv
  BY FaultAssumption DEF Init, AirInv
<1> QED
  BY <1>1, <1>2, <1>3, <1>4 DEF WalkInv

(* The steps that go on with the walk or leave it, in the time they take.    *)
LEMMA GoesKeeps ==
    ASSUME WalkInv, Goes, AirInv', elapsed' \in Nat,
           session' \in {"none", "connected", "active", "disabled"},
           pc' = "send" => session' = "active" /\ elapsed' < KeepAliveInterval
    PROVE  WalkInv'
<1>1. PlaceInv'
  BY DEF WalkInv, PlaceInv, Goes
<1>2. Staged(walk')
  BY DEF Goes
<1>3. WorkInv'
  BY DEF Goes, Untried, WorkInv, PRIME_ATTEMPTS
<1>4. SessionInv' /\ TimeInv'
  BY DEF Goes, SessionInv, TimeInv
<1> QED
  BY <1>1, <1>2, <1>3, <1>4 DEF WalkInv, Staged

(* A step that keeps the collect_diag, the walk and the mesh.                *)
LEMMA MovesKeeps ==
    ASSUME WalkInv, UNCHANGED <<work, walk>>, PlaceInv', SessionInv', TimeInv', AirInv',
           pc' = "wait" => ~Collected
    PROVE  WalkInv'
<1>1. Staged(walk')
  BY DEF WalkInv, Staged
<1>2. WorkInv'
  BY DEF WalkInv, WorkInv, Collected, PRIME_ATTEMPTS
<1> QED
  BY <1>1, <1>2 DEF WalkInv, Staged

(* An unanswered request: one attempt more, or a smaller batch.              *)
LEMMA UnansweredKeeps ==
    ASSUME WalkInv, pc = "wait", Unanswered, AirInv', mesh' = mesh
    PROVE  WalkInv'
<1>0. NodeTimeout \in Nat /\ KeepAliveInterval \in Nat
  BY NodeTimeoutAssumption, IntervalAssumption
<1>1. PICK d \in 0..NodeTimeout : elapsed' = elapsed + d
  BY DEF Unanswered, Waited
<1>2. /\ pc' = "send" /\ session' = session /\ walk' = walk /\ outcome' = outcome
      /\ session = "active" /\ elapsed \in Nat /\ elapsed + NodeTimeout < KeepAliveInterval
  BY DEF Unanswered, WalkInv, SessionInv, PlaceInv, TimeInv
<1>3. elapsed' \in Nat /\ elapsed' < KeepAliveInterval
  BY <1>0, <1>1, <1>2
<1>4. WorkInv'
  <2>1. /\ work.tries \in 0..PRIME_ATTEMPTS /\ {"tries", "primed"} \subseteq DOMAIN work
        /\ ~work.primed => work.tries < PRIME_ATTEMPTS
    BY DEF WalkInv, WorkInv
  <2>2. \/ ~work.primed /\ work' = [work EXCEPT !.tries = @ + 1]
        \/ work' = [work EXCEPT !.stack = Pop(@) \o Halves(Batch)]
        \/ work' = [work EXCEPT !.stack = Pop(@)]
    BY DEF Unanswered
  <2>3. work'.tries \in 0..PRIME_ATTEMPTS /\ {"tries", "primed"} \subseteq DOMAIN work'
    <3>1. CASE ~work.primed /\ work' = [work EXCEPT !.tries = @ + 1]
      BY <2>1, <3>1 DEF PRIME_ATTEMPTS
    <3>2. CASE \E s : work' = [work EXCEPT !.stack = s]
      BY <2>1, <3>2 DEF PRIME_ATTEMPTS
    <3> QED
      BY <2>2, <3>1, <3>2
  <2> QED
    BY <1>2, <2>3 DEF WorkInv
<1>5. PlaceInv' /\ SessionInv' /\ TimeInv' /\ Staged(walk')
  BY <1>2, <1>3 DEF WalkInv, PlaceInv, SessionInv, TimeInv, Staged
<1> QED
  BY <1>4, <1>5 DEF WalkInv, Staged

(* Every step preserves the invariant.                                       *)
LEMMA WalkStep == WalkInv /\ [Next]_vars => WalkInv'
<1> SUFFICES ASSUME WalkInv, [Next]_vars PROVE WalkInv'
  OBVIOUS
<1>0. /\ NodeTimeout \in Nat /\ KeepAliveInterval \in Nat /\ KeepAliveInterval > 0
      /\ ExchangeTimeout \in Nat /\ ExchangeTimeout < KeepAliveInterval
  BY NodeTimeoutAssumption, IntervalAssumption, ExchangeAssumption
<1>i. PlaceInv /\ Staged(walk) /\ WorkInv /\ AirInv /\ SessionInv /\ TimeInv
  BY DEF WalkInv
<1>a. air' = air /\ mesh' = mesh => AirInv'
  BY <1>i DEF AirInv
<1>1. CASE Connect
  <2>1. CASE session' = "connected" /\ pc' = "petition" /\ outcome' = outcome
    <3>1. PlaceInv' /\ SessionInv' /\ TimeInv'
      BY <1>1, <1>i, <2>1 DEF Connect, PlaceInv, SessionInv, TimeInv
    <3> QED
      BY <1>1, <1>a, <2>1, <3>1, MovesKeeps DEF Connect
  <2>2. CASE session' = "none" /\ pc' = "exit" /\ outcome' = "err"
    <3>1. PlaceInv' /\ SessionInv' /\ TimeInv'
      BY <1>1, <1>i, <2>2 DEF Connect, PlaceInv, SessionInv, TimeInv
    <3>2. WorkInv' /\ AirInv' /\ Staged(walk')
      BY <1>1, <1>i, <2>2 DEF Connect, WorkInv, AirInv, Staged
    <3> QED
      BY <3>1, <3>2 DEF WalkInv, Staged
  <2> QED
    BY <1>1, <2>1, <2>2 DEF Connect
<1>2. CASE Petition
  <2>1. CASE session' = "active" /\ pc' = "dataset"
    <3>1. PlaceInv' /\ SessionInv' /\ TimeInv'
      BY <1>2, <1>i, <2>1 DEF Petition, Fail, PlaceInv, SessionInv, TimeInv
    <3>2. UNCHANGED <<work, walk, mesh>> /\ air' = [air EXCEPT !.held = TRUE]
      BY <1>2, <2>1 DEF Petition, Fail
    <3>3. AirInv'
      BY <1>i, <3>2 DEF AirInv
    <3> QED
      BY <2>1, <3>1, <3>2, <3>3, MovesKeeps
  <2>2. CASE Fail /\ UNCHANGED <<session, elapsed, air>>
    <3>1. Goes /\ pc' = "resign"
      BY <1>i, <2>2, FailGoes DEF Fail
    <3>2. elapsed' \in Nat /\ session' \in {"none", "connected", "active", "disabled"}
      BY <1>i, <2>2 DEF PlaceInv
    <3> QED
      BY <1>2, <1>a, <2>2, <3>1, <3>2, GoesKeeps DEF Petition
  <2> QED
    BY <1>2, <2>1, <2>2 DEF Petition
<1>3. CASE GetActiveDataset
  <2>1. PICK d \in 0..ExchangeTimeout : elapsed' = elapsed + d
    BY <1>3 DEF GetActiveDataset
  <2>2. elapsed = 0 /\ session = "active" /\ session' = session /\ air' = air /\ mesh' = mesh
    BY <1>3, <1>i DEF GetActiveDataset, TimeInv, SessionInv
  <2>3. elapsed' \in Nat /\ elapsed' < KeepAliveInterval
    BY <1>0, <2>1, <2>2
  <2>4. /\ Staged([walk EXCEPT !.stage = "discover"])
        /\ Staged([walk EXCEPT !.stage = "node"])
    BY <1>i DEF Staged, Stages
  <2>5. ASSUME NEW d1, NEW t1, Visit([walk EXCEPT !.stage = "discover"], d1, t1)
        PROVE  Goes
    BY <2>4, <2>5, VisitGoes
  <2>6. ASSUME NEW d1, NEW t1, Visit([walk EXCEPT !.stage = "node"], d1, t1)
        PROVE  Goes
    BY <2>4, <2>6, VisitGoes
  <2>7. Goes
    BY <1>3, <1>i, <2>5, <2>6, FailGoes DEF GetActiveDataset
  <2> QED
    BY <1>a, <2>2, <2>3, <2>7, GoesKeeps
<1>4. CASE SendKeepAlive \/ SendQuery \/ KeepAliveAccepted
  <2>1. UNCHANGED <<work, walk, outcome, mesh, air>> /\ session' = session
    BY <1>4 DEF SendKeepAlive, SendQuery, KeepAliveAccepted
  <2>2. /\ pc \in {"send", "keepalive"} /\ pc' \in {"send", "wait", "keepalive"}
        /\ pc' = "wait" => ~Collected /\ elapsed' = elapsed /\ ~(elapsed + NodeTimeout >= KeepAliveInterval)
        /\ elapsed' \in {0, elapsed}
    BY <1>4 DEF SendKeepAlive, SendQuery, KeepAliveAccepted, MayCrossDeadline
  <2>3. /\ elapsed \in Nat /\ elapsed < KeepAliveInterval /\ session = "active"
    BY <1>i, <2>2 DEF PlaceInv, TimeInv, SessionInv
  <2>4. TimeInv'
    <3>1. elapsed' < KeepAliveInterval
      BY <1>0, <2>2, <2>3
    <3>2. pc' = "wait" => elapsed' + NodeTimeout < KeepAliveInterval
      <4>1. ~(elapsed + NodeTimeout >= KeepAliveInterval)
              => elapsed + NodeTimeout < KeepAliveInterval
        BY <1>0, <2>3
      <4> QED
        BY <2>2, <4>1
    <3>3. pc' # "dataset"
      BY <2>2
    <3> QED
      BY <3>1, <3>2, <3>3 DEF TimeInv
  <2>5. PlaceInv' /\ SessionInv'
    <3>1. elapsed' \in Nat
      BY <2>2, <2>3
    <3> QED
      BY <1>i, <2>1, <2>2, <2>3, <3>1 DEF PlaceInv, SessionInv
  <2> QED
    BY <1>a, <2>1, <2>2, <2>4, <2>5, MovesKeeps
<1>5. CASE KeepAliveRefused
  <2>1. Goes /\ pc' = "resign"
    BY <1>i, <1>5, FailGoes DEF KeepAliveRefused, Fail
  <2>2. elapsed' \in Nat /\ session' = "disabled" /\ mesh' = mesh
    BY <1>i, <1>5 DEF PlaceInv, KeepAliveRefused
  <2>3. AirInv'
    BY <1>i, <1>5, <2>2 DEF AirInv, KeepAliveRefused
  <2> QED
    BY <2>1, <2>2, <2>3, GoesKeeps
<1>6. CASE QueryAnswered
  <2>1. PICK d \in 0..NodeTimeout : elapsed' = elapsed + d
    BY <1>6 DEF QueryAnswered, Waited
  <2>2. /\ elapsed \in Nat /\ elapsed + NodeTimeout < KeepAliveInterval /\ session = "active"
        /\ pc' = "send" /\ session' = session /\ walk' = walk /\ outcome' = outcome
        /\ mesh' = mesh /\ air' = air
    BY <1>6, <1>i DEF QueryAnswered, PlaceInv, TimeInv, SessionInv
  <2>3. elapsed' \in Nat /\ elapsed' < KeepAliveInterval
    BY <1>0, <2>1, <2>2
  <2>4. \E a, b : work' = [work EXCEPT !.merged = a, !.primed = TRUE, !.stack = b]
    BY <1>6 DEF QueryAnswered
  <2>5. WorkInv'
    <3>1. {"tries", "primed"} \subseteq DOMAIN work' /\ work'.tries = work.tries
      BY <1>i, <2>4 DEF WorkInv
    <3> QED
      BY <1>i, <2>2, <3>1 DEF WorkInv
  <2>6. PlaceInv' /\ SessionInv' /\ TimeInv' /\ AirInv' /\ Staged(walk')
    BY <1>i, <2>2, <2>3 DEF PlaceInv, SessionInv, TimeInv, AirInv, Staged
  <2> QED
    BY <2>5, <2>6 DEF WalkInv, Staged
<1>7. CASE QueryUnanswered \/ QueryLost
  <2>1. pc = "wait" /\ Unanswered /\ mesh' = mesh
    BY <1>7 DEF QueryUnanswered, QueryLost, Unanswered
  <2>2. CASE QueryUnanswered
    <3>1. \E a : air' = [air EXCEPT !.resolved = a]
      BY <2>2 DEF QueryUnanswered
    <3>2. AirInv'
      BY <1>i, <2>1, <3>1 DEF AirInv
    <3> QED
      BY <2>1, <3>2, UnansweredKeeps
  <2>3. CASE QueryLost
    <3>1. \E a : air' = [air EXCEPT !.faults = @ + 1, !.dropped = a]
      BY <2>3 DEF QueryLost
    <3>2. air.faults < MaxFaults
      BY <2>3 DEF QueryLost
    <3>3. AirInv'
      BY <1>i, <2>1, <3>1, <3>2, FaultAssumption DEF AirInv
    <3> QED
      BY <2>1, <3>3, UnansweredKeeps
  <2> QED
    BY <1>7, <2>2, <2>3
<1>8. CASE QueryFatal
  <2>1. PICK d \in 0..NodeTimeout : elapsed' = elapsed + d
    BY <1>8 DEF QueryFatal, Waited
  <2>2. Goes /\ pc' = "resign"
    BY <1>i, <1>8, FailGoes DEF QueryFatal, Fail
  <2>3. elapsed' \in Nat /\ session' = session /\ air' = air /\ mesh' = mesh
    BY <1>0, <1>i, <1>8, <2>1 DEF PlaceInv, QueryFatal
  <2> QED
    BY <1>a, <1>i, <2>2, <2>3, GoesKeeps DEF PlaceInv
<1>9. CASE CollectDone
  <2>1. Goes
    BY <1>i, <1>9, CollectGoes
  <2>2. /\ pc = "send" /\ session' = session /\ elapsed' = elapsed /\ mesh' = mesh /\ air' = air
    BY <1>9 DEF CollectDone
  <2>3. elapsed \in Nat /\ elapsed < KeepAliveInterval /\ session = "active"
    BY <1>i, <2>2 DEF PlaceInv, TimeInv, SessionInv
  <2> QED
    BY <1>a, <2>1, <2>2, <2>3, GoesKeeps
<1>10. CASE Resign
  <2>1. /\ UNCHANGED <<elapsed, work, walk, mesh>> /\ pc' = "exit"
        /\ outcome' \in {outcome, "err"} /\ session' \in {session, "disabled"}
    BY <1>10 DEF Resign
  <2>2. AirInv'
    BY <1>10, <1>i DEF Resign, AirInv
  <2>3. PlaceInv' /\ SessionInv' /\ TimeInv' /\ WorkInv' /\ Staged(walk')
    BY <1>i, <2>1 DEF PlaceInv, SessionInv, TimeInv, WorkInv, Staged
  <2> QED
    BY <2>2, <2>3 DEF WalkInv, Staged
<1>11. CASE NodeLeaves
  <2>1. PICK r \in DOMAIN mesh.nodes \ air.left :
          air' = [air EXCEPT !.left = @ \cup {r}, !.faults = @ + 1]
    BY <1>11 DEF NodeLeaves
  <2>2. UNCHANGED <<pc, session, elapsed, work, walk, outcome, mesh>> /\ air.faults < MaxFaults
    BY <1>11 DEF NodeLeaves
  <2>3. AirInv'
    BY <1>i, <2>1, <2>2, FaultAssumption DEF AirInv
  <2>4. PlaceInv' /\ SessionInv' /\ TimeInv' /\ WorkInv' /\ Staged(walk')
    BY <1>i, <2>2 DEF PlaceInv, SessionInv, TimeInv, WorkInv, Staged
  <2> QED
    BY <2>3, <2>4 DEF WalkInv, Staged
<1>12. CASE UNCHANGED vars
  BY <1>i, <1>12 DEF vars, WalkInv, PlaceInv, SessionInv, TimeInv, WorkInv, AirInv, Staged, Collected
<1> QED
  BY <1>1, <1>2, <1>3, <1>4, <1>5, <1>6, <1>7, <1>8, <1>9, <1>10, <1>11, <1>12
     DEF Next, Step, Exited

(* What the invariant says of one state.                                     *)
LEMMA WalkConsequences == WalkInv => TypeOK /\ KeepAliveInTime /\ QueriesInSession
<1> SUFFICES ASSUME WalkInv PROVE TypeOK /\ KeepAliveInTime /\ QueriesInSession
  OBVIOUS
<1>1. TypeOK
  BY DEF WalkInv, PlaceInv, Staged, Stages, WorkInv, AirInv, TypeOK
<1>2. QueriesInSession
  BY DEF WalkInv, SessionInv, QueriesInSession
<1>3. KeepAliveInTime
  BY NodeTimeoutAssumption, IntervalAssumption
     DEF WalkInv, PlaceInv, TimeInv, KeepAliveInTime
<1> QED
  BY <1>1, <1>2, <1>3

(* The variables of a walk keep their types, whatever mesh is walked.        *)
THEOREM WalkTypes == Spec => []TypeOK
BY WalkStart, WalkStep, WalkConsequences, PTL DEF Spec

(* No request of a walk outlasts the keep-alive interval, for every mesh,    *)
(* every timeout Collector::start admits and any number of requests that go  *)
(* unanswered (collect.rs:385).                                              *)
THEOREM KeepAliveNeverLate == Spec => []KeepAliveInTime
BY WalkStart, WalkStep, WalkConsequences, PTL DEF Spec

(* The dataset is read and every diagnostic request and keep-alive is made   *)
(* in a live session: after a refused keep-alive nothing more is sent        *)
(* (collect.rs:395-411).                                                     *)
THEOREM WalkStaysInSession == Spec => []QueriesInSession
BY WalkStart, WalkStep, WalkConsequences, PTL DEF Spec

-----------------------------------------------------------------------------
(* Induction: a nonempty set of numbers has a least one.                     *)
LEMMA LeastNatural ==
    ASSUME NEW T \in SUBSET Nat, T # {}
    PROVE  \E m \in T : \A k \in T : m <= k
<1> DEFINE R == OpToRel(<, Nat)
<1>1. IsWellFoundedOn(R, Nat)
  BY NatLessThanWellFounded
<1>2. \A y, x \in Nat : y < x => <<y, x>> \in R
  BY DEF OpToRel
<1> HIDE DEF R
<1>3. PICK x \in T : \A y \in T : ~ (<<y, x>> \in R)
  BY <1>1, WFMin
<1>4. \A k \in T : x <= k
  <2> SUFFICES ASSUME NEW k \in T, ~(x <= k) PROVE FALSE
    OBVIOUS
  <2>1. k < x /\ k \in Nat /\ x \in Nat
    OBVIOUS
  <2> QED
    BY <1>2, <1>3, <2>1
<1> QED
  BY <1>4

(* A set that holds 0 and, up to n, every successor of its members.          *)
LEMMA CountingUp ==
    ASSUME NEW n \in Nat, NEW T, 0 \in T, \A k \in 1..n : k - 1 \in T => k \in T
    PROVE  \A k \in 0..n : k \in T
<1> SUFFICES ASSUME NEW j \in 0..n, j \notin T PROVE FALSE
  OBVIOUS
<1> DEFINE C == {k \in 0..n : k \notin T}
<1>1. PICK m \in C : \A k \in C : m <= k
  <2>1. C \in SUBSET Nat /\ C # {}
    OBVIOUS
  <2> QED
    BY <2>1, LeastNatural
<1>2. m # 0 /\ m \in 1..n
  OBVIOUS
<1>3. m - 1 \notin C /\ m - 1 \in 0..n
  BY <1>1, <1>2
<1> QED
  BY <1>2, <1>3

-----------------------------------------------------------------------------
(* The helpers of the walk.                                                  *)

(* A sequence is a function from 1 to its length.                            *)
LEMMA RangeIsValues ==
    ASSUME NEW S, NEW q \in Seq(S)
    PROVE  /\ Range(q) = {q[i] : i \in 1..Len(q)}
           /\ Range(q) \subseteq S
BY DEF Range

(* Appending adds one value.                                                 *)
LEMMA RangeOfAppend ==
    ASSUME NEW S, NEW q \in Seq(S), NEW e \in S
    PROVE  Append(q, e) \in Seq(S) /\ Range(Append(q, e)) = Range(q) \cup {e}
<1>1. /\ Append(q, e) \in Seq(S) /\ Len(Append(q, e)) = Len(q) + 1 /\ Len(q) \in Nat
      /\ \A i \in 1..Len(q) : Append(q, e)[i] = q[i]
      /\ Append(q, e)[Len(q) + 1] = e
  BY AppendProperties
<1>2. 1..(Len(q) + 1) = 1..Len(q) \cup {Len(q) + 1}
  BY <1>1
<1>3. {Append(q, e)[i] : i \in 1..(Len(q) + 1)} = {q[i] : i \in 1..Len(q)} \cup {e}
  BY <1>1, <1>2
<1> QED
  BY <1>1, <1>3, RangeIsValues

(* What stays when the TLV that primes a node is filtered out.               *)
LEMMA KeptTlvs ==
    ASSUME NEW S, NEW tlvs \in Seq(S), NEW f,
           f = [n \in 0..Len(tlvs) |->
                  IF n = 0 THEN <<>>
                  ELSE IF tlvs[n] = "MAC_ADDR" THEN f[n - 1] ELSE Append(f[n - 1], tlvs[n])]
    PROVE  /\ f[Len(tlvs)] \in Seq(S)
           /\ Range(f[Len(tlvs)]) = Range(tlvs) \ {"MAC_ADDR"}
<1> DEFINE T == {n \in 0..Len(tlvs) : /\ f[n] \in Seq(S)
                                     /\ Range(f[n]) = {tlvs[i] : i \in 1..n} \ {"MAC_ADDR"}}
<1>0. Len(tlvs) \in Nat
  OBVIOUS
<1>1. 0 \in T
  <2>1. f[0] = <<>> /\ 0 \in 0..Len(tlvs)
    BY <1>0
  <2>2. Range(<<>>) = {} /\ <<>> \in Seq(S) /\ 1..0 = {}
    BY DEF Range
  <2> QED
    BY <2>1, <2>2
<1>2. ASSUME NEW k \in 1..Len(tlvs), k - 1 \in T
      PROVE  k \in T
  <2>1. /\ k \in 0..Len(tlvs) /\ k # 0 /\ k - 1 \in Nat
        /\ 1..k = 1..(k - 1) \cup {k}
    BY <1>0
  <2>2. f[k] = IF tlvs[k] = "MAC_ADDR" THEN f[k - 1] ELSE Append(f[k - 1], tlvs[k])
    BY <2>1
  <2>3. f[k - 1] \in Seq(S) /\ Range(f[k - 1]) = {tlvs[i] : i \in 1..(k - 1)} \ {"MAC_ADDR"}
    BY <1>2
  <2>4. tlvs[k] \in S
    BY <1>0
  <2>5. {tlvs[i] : i \in 1..k} = {tlvs[i] : i \in 1..(k - 1)} \cup {tlvs[k]}
    BY <2>1
  <2>6. /\ Append(f[k - 1], tlvs[k]) \in Seq(S)
        /\ Range(Append(f[k - 1], tlvs[k])) = Range(f[k - 1]) \cup {tlvs[k]}
    <3>1. \A q \in Seq(S), e \in S :
            Append(q, e) \in Seq(S) /\ Range(Append(q, e)) = Range(q) \cup {e}
      BY RangeOfAppend
    <3> QED
      BY <2>3, <2>4, <3>1
  <2> QED
    BY <2>1, <2>2, <2>3, <2>5, <2>6
<1>3. Len(tlvs) \in T
  <2>1. \A k \in 1..Len(tlvs) : k - 1 \in T => k \in T
    BY <1>2
  <2> HIDE DEF T
  <2>2. \A k \in 0..Len(tlvs) : k \in T
    BY <1>0, <1>1, <2>1, CountingUp
  <2> QED
    BY <1>0, <2>2
<1> QED
  BY <1>3, RangeIsValues

(* The filter computes such a function.                                      *)
LEMMA KeptExists ==
    ASSUME NEW S, NEW tlvs \in Seq(S)
    PROVE  \E f : f = [n \in 0..Len(tlvs) |->
                  IF n = 0 THEN <<>>
                  ELSE IF tlvs[n] = "MAC_ADDR" THEN f[n - 1] ELSE Append(f[n - 1], tlvs[n])]
<1> DEFINE Grow(f, n) == IF n = 0 THEN <<>>
                  ELSE IF tlvs[n] = "MAC_ADDR" THEN f[n - 1] ELSE Append(f[n - 1], tlvs[n])
           T == {m \in 0..Len(tlvs) : \E f : f = [n \in 0..m |-> Grow(f, n)]}
<1>0. Len(tlvs) \in Nat
  OBVIOUS
<1>1. 0 \in T
  <2>1. [n \in 0..0 |-> <<>>] = [n \in 0..0 |-> Grow([i \in 0..0 |-> <<>>], n)]
    OBVIOUS
  <2> QED
    <3>1. 0 \in 0..Len(tlvs)
      BY <1>0
    <3> HIDE DEF Grow
    <3> QED
      BY <2>1, <3>1
<1>2. ASSUME NEW k \in 1..Len(tlvs), k - 1 \in T
      PROVE  k \in T
  <2>1. PICK f : f = [n \in 0..(k - 1) |-> Grow(f, n)]
    BY <1>2
  <2>2. k \in Nat /\ k \in 0..Len(tlvs)
    BY <1>0
  <2> DEFINE g == [n \in 0..k |-> IF n < k THEN f[n] ELSE Grow(f, k)]
  <2>3. ASSUME NEW n \in 0..k
        PROVE  g[n] = Grow(g, n)
    <3>1. CASE n = 0
      BY <2>1, <2>2, <3>1
    <3>2. CASE n # 0
      <4>1. n - 1 \in 0..k /\ n - 1 < k /\ n - 1 \in 0..(k-1)
        BY <2>2, <3>2
      <4>2. g[n - 1] = f[n - 1]
        BY <4>1
      <4>3. Grow(g, n) = Grow(f, n)
        BY <4>2
      <4>4. n < k \/ n = k
        BY <2>2
      <4>5. n < k => f[n] = Grow(f, n)
        <5>1. n < k => n \in 0..(k - 1)
          BY <2>2
        <5> HIDE DEF Grow
        <5> QED
          BY <2>1, <5>1
      <4> QED
        BY <4>3, <4>4, <4>5
    <3> QED
      BY <3>1, <3>2
  <2>4. g = [n \in 0..k |-> Grow(g, n)]
    <3> HIDE DEF Grow
    <3> QED
      BY <2>3
  <2> QED
    BY <2>2, <2>4
<1>3. Len(tlvs) \in T
  <2>1. \A k \in 1..Len(tlvs) : k - 1 \in T => k \in T
    BY <1>2
  <2> HIDE DEF T
  <2>2. \A k \in 0..Len(tlvs) : k \in T
    BY <1>0, <1>1, <2>1, CountingUp
  <2> QED
    BY <1>0, <2>2
<1> QED
  BY <1>3

-----------------------------------------------------------------------------
(* A collect_diag in progress.                                               *)

Walking == pc \in {"send", "wait", "keepalive"}

WorkFields == {"dest", "tlvs", "tries", "primed", "stack", "merged"}

AirFields == {"left", "resolved", "faults", "dropped", "held", "resigned"}

Lists == {ROUTER_TLVS, CHILD_TLVS, DISCOVERY_TLVS}

Tlvs ==
    {"MAC_ADDR", "EXT_MAC_ADDR", "MODE", "TIMEOUT", "CONNECTIVITY", "ROUTE64", "LEADER_DATA",
     "MAC_COUNTERS", "BATTERY_LEVEL", "SUPPLY_VOLTAGE", "CHILD_TABLE", "CHANNEL_PAGES", "EUI64",
     "CHILD_IPV6_ADDRESSES", "NETWORK_DATA", "IPV6_ADDRESSES"}

Batches == Seq(Tlvs) \ {<<>>}

(* The TLVs that the batches of a stack still ask for.                       *)
Asked(stack) == UNION {Range(stack[i]) : i \in DOMAIN stack}


(* The three lists, and the TLV that primes a node.                          *)
LEMMA ListTypes ==
    \A l \in Lists : l \in Seq(Tlvs) /\ "MAC_ADDR" \in Range(l)
<1>1. ROUTER_TLVS \in Seq(Tlvs) /\ CHILD_TLVS \in Seq(Tlvs) /\ DISCOVERY_TLVS \in Seq(Tlvs)
  BY DEF ROUTER_TLVS, CHILD_TLVS, DISCOVERY_TLVS, Tlvs
<1>2. /\ Len(ROUTER_TLVS) = 16 /\ ROUTER_TLVS[1] = "MAC_ADDR"
      /\ Len(CHILD_TLVS) = 12 /\ CHILD_TLVS[1] = "MAC_ADDR"
      /\ Len(DISCOVERY_TLVS) = 3 /\ DISCOVERY_TLVS[1] = "MAC_ADDR"
  BY DEF ROUTER_TLVS, CHILD_TLVS, DISCOVERY_TLVS
<1>3. ASSUME NEW l \in Lists
      PROVE  l \in Seq(Tlvs) /\ l[1] = "MAC_ADDR" /\ 1 \in 1..Len(l)
  <2>1. l = ROUTER_TLVS \/ l = CHILD_TLVS \/ l = DISCOVERY_TLVS
    BY DEF Lists
  <2>2. l \in Seq(Tlvs) /\ l[1] = "MAC_ADDR" /\ Len(l) \in {16, 12, 3}
    BY <1>1, <1>2, <2>1
  <2> QED
    BY <2>2
<1>4. \A l \in Lists : l[1] \in Range(l)
  BY <1>3, RangeIsValues
<1> QED
  BY <1>3, <1>4

(* A batch is taken out of a sequence of TLVs.                               *)
LEMMA SliceOf ==
    ASSUME NEW q \in Seq(Tlvs), NEW a \in 1..Len(q), NEW b \in a..Len(q)
    PROVE  /\ SubSeq(q, a, b) \in Batches
           /\ Range(SubSeq(q, a, b)) = {q[i] : i \in a..b}
<1> DEFINE s == SubSeq(q, a, b)
<1>0. Len(q) \in Nat /\ a \in Nat /\ b \in Nat /\ a <= b /\ b <= Len(q) /\ a >= 1
  OBVIOUS
<1>1. \A i \in a..b : q[i] \in Tlvs
  BY <1>0
<1>2. /\ s \in Seq(Tlvs)
      /\ Len(s) = b - a + 1
      /\ \A i \in 1..(b - a + 1) : s[i] = q[a + i - 1]
  BY <1>0, <1>1, SubSeqProperties
<1> HIDE DEF s
<1>3. s # <<>>
  BY <1>0, <1>2
<1>4. {s[i] : i \in 1..(b - a + 1)} = {q[i] : i \in a..b}
  <2>1. ASSUME NEW i \in 1..(b - a + 1) PROVE a + i - 1 \in a..b /\ s[i] = q[a + i - 1]
    BY <1>0, <1>2
  <2>2. ASSUME NEW i \in a..b PROVE i - a + 1 \in 1..(b - a + 1) /\ s[i - a + 1] = q[i]
    <3>1. i - a + 1 \in 1..(b - a + 1) /\ a + (i - a + 1) - 1 = i
      BY <1>0
    <3> QED
      BY <1>2, <3>1
  <2>3. {s[i] : i \in 1..(b - a + 1)} \subseteq {q[i] : i \in a..b}
    BY <2>1
  <2>4. {q[i] : i \in a..b} \subseteq {s[i] : i \in 1..(b - a + 1)}
    BY <2>2
  <2> QED
    BY <2>3, <2>4
<1>5. Range(s) = {s[i] : i \in 1..(b - a + 1)}
  BY <1>2, RangeIsValues
<1> QED
  BY <1>2, <1>3, <1>4, <1>5 DEF s, Batches

(* Halving loses no TLV.                                                     *)
LEMMA HalvesCover ==
    ASSUME NEW batch \in Seq(Tlvs), Len(batch) > 1
    PROVE  /\ Halves(batch) \in Seq(Batches)
           /\ Len(Halves(batch)) = 2
           /\ Range(Halves(batch)[1]) \cup Range(Halves(batch)[2]) = Range(batch)
<1> DEFINE mid == Len(batch) \div 2
           l == SubSeq(batch, 1, mid)
           r == SubSeq(batch, mid + 1, Len(batch))
<1>1. /\ Len(batch) \in Nat /\ mid \in 1..Len(batch) /\ 1 \in 1..Len(batch)
      /\ mid + 1 \in 1..Len(batch) /\ Len(batch) \in (mid + 1)..Len(batch) /\ mid \in Nat
  OBVIOUS
<1>2. l \in Batches /\ Range(l) = {batch[i] : i \in 1..mid}
  BY <1>1, SliceOf
<1>3. r \in Batches /\ Range(r) = {batch[i] : i \in (mid + 1)..Len(batch)}
  BY <1>1, SliceOf
<1>4. 1..Len(batch) = 1..mid \cup (mid + 1)..Len(batch)
  BY <1>1
<1>5. Range(batch) = {batch[i] : i \in 1..Len(batch)}
  BY RangeIsValues
<1>6. Halves(batch) = <<l, r>>
  BY DEF Halves
<1> HIDE DEF l, r, mid
<1>7. <<l, r>> \in Seq(Batches) /\ Len(<<l, r>>) = 2 /\ <<l, r>>[1] = l /\ <<l, r>>[2] = r
  BY <1>2, <1>3
<1> QED
  BY <1>2, <1>3, <1>4, <1>5, <1>6, <1>7

(* A batch taken off the stack and the batches left hold what was asked.     *)
LEMMA PopAsked ==
    ASSUME NEW stack \in Seq(Batches), stack # <<>>
    PROVE  /\ Pop(stack) \in Seq(Batches) /\ Top(stack) \in Batches
           /\ Asked(stack) = Asked(Pop(stack)) \cup Range(Top(stack))
<1> DEFINE n == Len(stack)
           p == Pop(stack)
<1>1. n \in Nat /\ n >= 1 /\ DOMAIN stack = 1..n /\ \A i \in 1..n : stack[i] \in Batches
  OBVIOUS
<1>2. /\ p \in Seq(Batches) /\ Len(p) = n - 1
      /\ \A i \in 1..(n - 1) : p[i] = stack[i]
  <2>1. /\ SubSeq(stack, 1, n - 1) \in Seq(Batches)
        /\ Len(SubSeq(stack, 1, n - 1)) = IF 1 <= n - 1 THEN n - 1 - 1 + 1 ELSE 0
        /\ \A i \in 1..(n - 1 - 1 + 1) : SubSeq(stack, 1, n - 1)[i] = stack[1 + i - 1]
    BY <1>1, SubSeqProperties
  <2>2. \A i \in 1..(n - 1) : SubSeq(stack, 1, n - 1)[i] = stack[i]
    BY <1>1, <2>1
  <2> QED
    BY <1>1, <2>1, <2>2 DEF Pop
<1> HIDE DEF p
<1>3. DOMAIN p = 1..(n - 1)
  BY <1>2
<1>4. 1..n = 1..(n - 1) \cup {n}
  BY <1>1
<1> HIDE DEF n
<1>5. Asked(stack) = (UNION {Range(stack[i]) : i \in 1..(n - 1)}) \cup Range(stack[n])
  BY <1>1, <1>4 DEF Asked
<1>6. Asked(p) = UNION {Range(stack[i]) : i \in 1..(n - 1)}
  <2>1. {Range(p[i]) : i \in 1..(n - 1)} = {Range(stack[i]) : i \in 1..(n - 1)}
    BY <1>2
  <2> QED
    BY <1>3, <2>1 DEF Asked
<1>7. Top(stack) = stack[n]
  BY DEF Top, n
<1> QED
  BY <1>1, <1>2, <1>4, <1>5, <1>6, <1>7 DEF p

(* Two batches put back hold what they hold.                                 *)
LEMMA PushAsked ==
    ASSUME NEW stack \in Seq(Batches), NEW two \in Seq(Batches), Len(two) = 2
    PROVE  /\ stack \o two \in Seq(Batches)
           /\ Asked(stack \o two) = Asked(stack) \cup Range(two[1]) \cup Range(two[2])
<1> DEFINE n == Len(stack)
           s == stack \o two
<1>1. n \in Nat /\ DOMAIN stack = 1..n
  OBVIOUS
<1>2. /\ s \in Seq(Batches) /\ Len(s) = n + 2
      /\ \A i \in 1..n : s[i] = stack[i]
      /\ s[n + 1] = two[1] /\ s[n + 2] = two[2]
  <2>1. /\ s \in Seq(Batches) /\ Len(s) = n + 2
        /\ \A i \in 1..(n + 2) : s[i] = IF i <= n THEN stack[i] ELSE two[i - n]
    <3>1. /\ s \in Seq(Batches) /\ Len(s) = Len(stack) + Len(two)
          /\ \A i \in 1..(Len(stack) + Len(two)) :
               s[i] = IF i <= Len(stack) THEN stack[i] ELSE two[i - Len(stack)]
      BY ConcatProperties
    <3> QED
      BY <3>1
  <2>2. /\ n + 1 \in 1..(n + 2) /\ n + 2 \in 1..(n + 2) /\ ~(n + 1 <= n) /\ ~(n + 2 <= n)
        /\ (n + 1) - n = 1 /\ (n + 2) - n = 2
        /\ \A i \in 1..n : i \in 1..(n + 2) /\ i <= n
    BY <1>1
  <2> HIDE DEF n, s
  <2> QED
    BY <2>1, <2>2
<1> HIDE DEF s
<1>3. DOMAIN s = 1..(n + 2)
  BY <1>1, <1>2
<1>4. 1..(n + 2) = 1..n \cup {n + 1, n + 2}
  BY <1>1
<1> HIDE DEF n
<1>5. {Range(s[i]) : i \in 1..(n + 2)}
        = {Range(stack[i]) : i \in 1..n} \cup {Range(two[1]), Range(two[2])}
  BY <1>2, <1>4
<1>6. Asked(s) = (UNION {Range(stack[i]) : i \in 1..n}) \cup Range(two[1]) \cup Range(two[2])
  BY <1>3, <1>5 DEF Asked
<1> QED
  BY <1>1, <1>2, <1>6 DEF s, Asked

(* The batches a list is first asked for in: every TLV but the primer's.     *)
LEMMA ChunksCover ==
    ASSUME NEW tlvs \in Seq(Tlvs)
    PROVE  /\ Reversed(Chunks(tlvs)) \in Seq(Batches)
           /\ Asked(Reversed(Chunks(tlvs))) = Range(tlvs) \ {"MAC_ADDR"}
<1> DEFINE Grow(f, m) == IF m = 0 THEN <<>>
                  ELSE IF tlvs[m] = "MAC_ADDR" THEN f[m - 1] ELSE Append(f[m - 1], tlvs[m])
           kept == CHOOSE f : f = [m \in 0..Len(tlvs) |-> Grow(f, m)]
           rest == kept[Len(tlvs)]
           n == Len(rest)
           count == (n + CHUNK_SIZE - 1) \div CHUNK_SIZE
           last(i) == IF i * CHUNK_SIZE < n THEN i * CHUNK_SIZE ELSE n
           chunk(i) == SubSeq(rest, (i - 1) * CHUNK_SIZE + 1, last(i))
           c == Chunks(tlvs)
           r == Reversed(c)
<1>1. kept = [m \in 0..Len(tlvs) |-> Grow(kept, m)]
  <2>1. \E f : f = [m \in 0..Len(tlvs) |-> Grow(f, m)]
    BY KeptExists
  <2> HIDE DEF Grow
  <2> QED
    BY <2>1
<1>2. rest \in Seq(Tlvs) /\ Range(rest) = Range(tlvs) \ {"MAC_ADDR"}
  <2> HIDE DEF kept
  <2> QED
    BY <1>1, KeptTlvs
<1>3. c = [i \in 1..count |-> chunk(i)]
  BY DEF Chunks
<1> HIDE DEF kept, Grow, rest, c
<1>4. n \in Nat /\ count \in Nat /\ CHUNK_SIZE = 6
  BY <1>2 DEF CHUNK_SIZE
<1>5. ASSUME NEW i \in 1..count
      PROVE  /\ (i - 1) * 6 + 1 \in 1..n
             /\ last(i) \in ((i - 1) * 6 + 1)..n
  BY <1>4 DEF CHUNK_SIZE
<1>6. ASSUME NEW i \in 1..count
      PROVE  c[i] \in Batches /\ Range(c[i]) = {rest[j] : j \in ((i - 1) * 6 + 1)..last(i)}
  <2>1. /\ chunk(i) \in Batches
        /\ Range(chunk(i)) = {rest[j] : j \in ((i - 1) * 6 + 1)..last(i)}
    BY <1>2, <1>4, <1>5, SliceOf
  <2> QED
    BY <1>3, <2>1
<1>7. ASSUME NEW j \in 1..n
      PROVE  \E i \in 1..count : j \in ((i - 1) * 6 + 1)..last(i)
  <2> DEFINE i == (j - 1) \div 6 + 1
  <2>1. i \in 1..count
    BY <1>4 DEF CHUNK_SIZE
  <2>2. j \in ((i - 1) * 6 + 1)..last(i)
    BY <1>4 DEF CHUNK_SIZE
  <2> QED
    BY <2>1, <2>2
<1>8. UNION {Range(c[i]) : i \in 1..count} = {rest[j] : j \in 1..n}
  <2>1. ASSUME NEW i \in 1..count, NEW t \in Range(c[i])
        PROVE  t \in {rest[j] : j \in 1..n}
    <3>1. PICK j \in ((i - 1) * 6 + 1)..last(i) : t = rest[j]
      BY <1>6
    <3>2. j \in 1..n
      BY <1>4, <1>5
    <3> QED
      BY <3>1, <3>2
  <2>2. ASSUME NEW j \in 1..n
        PROVE  rest[j] \in UNION {Range(c[i]) : i \in 1..count}
    <3>1. PICK i \in 1..count : j \in ((i - 1) * 6 + 1)..last(i)
      BY <1>7
    <3>2. Range(c[i]) = {rest[k] : k \in ((i - 1) * 6 + 1)..last(i)}
      BY <1>6
    <3> HIDE DEF last, count
    <3>3. rest[j] \in Range(c[i])
      BY <3>1, <3>2
    <3> QED
      BY <3>3
  <2> QED
    BY <2>1, <2>2
<1>9. c \in Seq(Batches) /\ Len(c) = count
  BY <1>3, <1>4, <1>6
<1>10. /\ r \in Seq(Batches) /\ DOMAIN r = 1..count
       /\ \A i \in 1..count : r[i] = c[count + 1 - i] /\ count + 1 - i \in 1..count
  BY <1>4, <1>6, <1>9 DEF Reversed
<1> HIDE DEF count, n
<1>11. {Range(r[i]) : i \in 1..count} = {Range(c[i]) : i \in 1..count}
  <2>1. {Range(r[i]) : i \in 1..count} \subseteq {Range(c[i]) : i \in 1..count}
    BY <1>10
  <2>2. ASSUME NEW i \in 1..count PROVE Range(c[i]) \in {Range(r[j]) : j \in 1..count}
    <3>1. count + 1 - i \in 1..count /\ count + 1 - (count + 1 - i) = i
      BY <1>4
    <3>2. r[count + 1 - i] = c[i]
      BY <1>10, <3>1
    <3> QED
      BY <3>1, <3>2
  <2> QED
    BY <2>1, <2>2
<1>12. Range(rest) = {rest[j] : j \in 1..n}
  BY <1>2, RangeIsValues DEF n
<1> QED
  BY <1>2, <1>8, <1>10, <1>11, <1>12 DEF Asked, c

(* Ascending lists exactly the members of a set of RLOC16s.                  *)
Distinct(q) == \A i, j \in DOMAIN q : q[i] = q[j] => i = j

(* Every member once, and nothing else.                                      *)
LEMMA AscendingLists ==
    ASSUME NEW bound \in Nat, NEW S \in SUBSET (0..bound)
    PROVE  /\ Ascending(S) \in Seq(S)
           /\ Range(Ascending(S)) = S
           /\ Distinct(Ascending(S))
<1> DEFINE n == Cardinality(S)
           below(x) == {y \in S : y < x}
           rank == [x \in S |-> Cardinality(below(x))]
           asc == [i \in 1..n |-> CHOOSE x \in S : Cardinality(below(x)) = i - 1]
<1>1. IsFiniteSet(0..bound)
  BY FS_Interval
<1>2. IsFiniteSet(S) /\ n \in Nat
  BY <1>1, FS_Subset, FS_CardinalityType
<1>3. ASSUME NEW x \in S
      PROVE  IsFiniteSet(below(x)) /\ Cardinality(below(x)) \in 0..(n - 1)
  <2>1. below(x) \in SUBSET S /\ below(x) # S
    OBVIOUS
  <2> HIDE DEF below
  <2>2. IsFiniteSet(below(x)) /\ Cardinality(below(x)) <= n /\ Cardinality(below(x)) # n
    BY <1>2, <2>1, FS_Subset
  <2>3. Cardinality(below(x)) \in Nat
    BY <2>2, FS_CardinalityType
  <2> QED
    BY <1>2, <2>2, <2>3
<1>4. ASSUME NEW x \in S, NEW y \in S, x < y
      PROVE  Cardinality(below(x)) # Cardinality(below(y))
  <2>1. below(x) \in SUBSET below(y) /\ below(x) # below(y)
    <3>1. x \in below(y) /\ x \notin below(x)
      BY <1>4
    <3>2. \A z \in S : z < x => z < y
      BY <1>4
    <3>3. below(x) \subseteq below(y)
      BY <3>2
    <3> QED
      BY <3>1, <3>3
  <2> HIDE DEF below
  <2> QED
    BY <1>3, <2>1, FS_Subset
<1>5. ASSUME NEW x \in S, NEW y \in S, Cardinality(below(x)) = Cardinality(below(y))
      PROVE  x = y
  <2>1. x < y \/ y < x \/ x = y
    OBVIOUS
  <2> HIDE DEF below
  <2> QED
    BY <1>4, <1>5, <2>1
<1> HIDE DEF below, n
<1>6. \A i \in 0..(n - 1) : \E x \in S : Cardinality(below(x)) = i
  <2>1. rank \in Injection(S, 0..(n - 1))
    BY <1>3, <1>5 DEF Injection, IsInjective
  <2>2. IsFiniteSet(0..(n - 1)) /\ Cardinality(0..(n - 1)) = n
    <3>1. 0 \in Int /\ n - 1 \in Int
      BY <1>2
    <3>2. IsFiniteSet(0..(n - 1)) /\ Cardinality(0..(n - 1)) = IF 0 > n - 1 THEN 0 ELSE (n - 1) - 0 + 1
      BY <3>1, FS_Interval
    <3> QED
      BY <1>2, <3>2
  <2>3. rank \in Surjection(S, 0..(n - 1))
    <3> HIDE DEF rank
    <3> QED
      BY <2>1, <2>2, FS_Injection DEF n
  <2> QED
    BY <2>3 DEF Surjection
<1>7. ASSUME NEW i \in 1..n
      PROVE  asc[i] \in S /\ Cardinality(below(asc[i])) = i - 1
  <2>1. i - 1 \in 0..(n - 1)
    BY <1>2
  <2> QED
    BY <1>6, <2>1
<1>8. ASSUME NEW x \in S
      PROVE  \E i \in 1..n : asc[i] = x
  <2> DEFINE i == Cardinality(below(x)) + 1
  <2>1. i \in 1..n /\ i - 1 = Cardinality(below(x))
    BY <1>2, <1>3
  <2> HIDE DEF i
  <2> QED
    BY <1>5, <1>7, <2>1
<1>9. Ascending(S) = asc
  BY DEF Ascending, n, below
<1> HIDE DEF asc
<1>10. asc \in Seq(S) /\ Len(asc) = n
  BY <1>2, <1>7 DEF asc
<1>11. Range(asc) = {asc[i] : i \in 1..n}
  BY <1>10, RangeIsValues
<1>12. {asc[i] : i \in 1..n} = S
  BY <1>7, <1>8
<1>13. Distinct(asc)
  <2> SUFFICES ASSUME NEW i \in 1..n, NEW j \in 1..n, asc[i] = asc[j] PROVE i = j
    BY <1>10 DEF Distinct
  <2>1. i - 1 = j - 1
    BY <1>7
  <2> QED
    BY <1>2, <2>1
<1> QED
  BY <1>9, <1>10, <1>11, <1>12, <1>13

-----------------------------------------------------------------------------
(* Maps and node records.                                                    *)

(* BTreeMap::extend: the keys of both, the values of the newer.              *)
LEMMA Extended ==
    ASSUME NEW map, NEW new
    PROVE  /\ DOMAIN Extend(map, new) = DOMAIN map \cup DOMAIN new
           /\ \A k \in DOMAIN new : Extend(map, new)[k] = new[k]
           /\ \A k \in DOMAIN map \ DOMAIN new : Extend(map, new)[k] = map[k]
BY DEF Extend

(* BTreeMap::insert: one key more.                                           *)
LEMMA InsertedKeys == \A map, key, value : DOMAIN Insert(map, key, value) = DOMAIN map \cup {key}
<1> TAKE map, key, value
<1> DEFINE one == [k \in {key} |-> value]
<1>1. DOMAIN one = {key} /\ Insert(map, key, value) = Extend(map, one)
  BY DEF Insert
<1> HIDE DEF one
<1>2. DOMAIN Extend(map, one) = DOMAIN map \cup DOMAIN one
  BY DEF Extend
<1> QED
  BY <1>1, <1>2

(* Its value there.                                                          *)
LEMMA InsertedValue == \A map, key, value : Insert(map, key, value)[key] = value
<1> TAKE map, key, value
<1> DEFINE one == [k \in {key} |-> value]
<1>1. DOMAIN one = {key} /\ one[key] = value /\ Insert(map, key, value) = Extend(map, one)
  BY DEF Insert
<1> HIDE DEF one
<1>2. \A k \in DOMAIN one : Extend(map, one)[k] = one[k]
  BY DEF Extend
<1> QED
  BY <1>1, <1>2

(* And the values elsewhere as they were.                                    *)
LEMMA InsertedRest ==
    \A map, key, value : \A k \in DOMAIN map \ {key} : Insert(map, key, value)[k] = map[k]
<1> TAKE map, key, value
<1> DEFINE one == [k \in {key} |-> value]
<1>1. DOMAIN one = {key} /\ Insert(map, key, value) = Extend(map, one)
  BY DEF Insert
<1> HIDE DEF one
<1>2. \A k \in DOMAIN map \ DOMAIN one : Extend(map, one)[k] = map[k]
  BY DEF Extend
<1> QED
  BY <1>1, <1>2

(* A record without answers.                                                 *)
LEMMA SkeletonFields ==
    ASSUME NEW r, NEW role, NEW disc
    PROVE  LET n == Skeleton(r, role, disc)
           IN  /\ NodeFields = DOMAIN n
               /\ n.rloc = r /\ n.role = role /\ n.discovery = disc
               /\ n.data = EmptyDiag /\ n.routes = {} /\ n.children = {}
BY DEF Skeleton, NodeFields

(* What a record keeps of an answer.                                         *)
LEMMA StoredFields ==
    ASSUME NEW data
    PROVE  /\ DOMAIN Stored(data) = DOMAIN data \ NotStored
           /\ \A t \in DOMAIN data \ NotStored : Stored(data)[t] = data[t]
BY DEF Stored

(* What an answer changes in a record.                                       *)
LEMMA MergedFields ==
    ASSUME NEW node, NEW data, NodeFields \subseteq DOMAIN node
    PROVE  LET n == MergeDiag(node, data)
           IN  /\ DOMAIN n = DOMAIN node
               /\ n.rloc = node.rloc /\ n.role = node.role /\ n.parent = node.parent
               /\ n.discovery = "direct"
               /\ n.data = MergeNetdiag(node.data, Stored(data))
               /\ "ROUTE64" \notin DOMAIN data => n.routes = node.routes
               /\ "ROUTE64" \in DOMAIN data => n.routes = RoutesOf(node.rloc, data)
               /\ "CHILD_TABLE" \notin DOMAIN data => n.children = node.children
               /\ "CHILD_TABLE" \in DOMAIN data
                    => n.children = ChildRlocs(RouterRloc(RouterId(node.rloc)), data)
<1> DEFINE R == {[id |-> e.id, rel |-> Relation(RouterId(node.rloc), e),
                             lin |-> e.lin, lout |-> e.lout] : e \in data["ROUTE64"]}
           C == {ChildRloc(RouterRloc(RouterId(node.rloc)), c) : c \in data["CHILD_TABLE"]}
           a == IF "ROUTE64" \in DOMAIN data THEN R ELSE node.routes
           b == IF "CHILD_TABLE" \in DOMAIN data THEN C ELSE node.children
           d == MergeNetdiag(node.data, Stored(data))
           n == MergeDiag(node, data)
<1>1. n = [node EXCEPT !.discovery = "direct", !.data = d, !.routes = a, !.children = b]
  BY DEF MergeDiag
<1>2. /\ "ROUTE64" \in DOMAIN data => a = RoutesOf(node.rloc, data)
      /\ "ROUTE64" \notin DOMAIN data => a = node.routes
  BY DEF RoutesOf
<1>3. /\ "CHILD_TABLE" \in DOMAIN data => b = ChildRlocs(RouterRloc(RouterId(node.rloc)), data)
      /\ "CHILD_TABLE" \notin DOMAIN data => b = node.children
  BY DEF ChildRlocs, Table
<1> HIDE DEF a, b, d, n
<1>4. /\ DOMAIN n = DOMAIN node
      /\ n.rloc = node.rloc /\ n.role = node.role /\ n.parent = node.parent
      /\ n.discovery = "direct" /\ n.data = d /\ n.routes = a /\ n.children = b
  BY <1>1 DEF NodeFields
<1> QED
  BY <1>2, <1>3, <1>4 DEF d, n

(* A record made of one node's answers.                                      *)
LEMMA DirectFields ==
    ASSUME NEW r, NEW role, NEW data
    PROVE  LET n == FromDiag(r, role, data)
           IN  /\ NodeFields = DOMAIN n
               /\ n.rloc = r /\ n.role = role /\ n.discovery = "direct"
               /\ DOMAIN n.data = DOMAIN data \ NotStored
               /\ \A t \in DOMAIN data \ NotStored : n.data[t] = data[t]
               /\ n.routes = RoutesOf(r, data)
               /\ n.children = ChildRlocs(RouterRloc(RouterId(r)), data)
<1> DEFINE s == Skeleton(r, role, "direct")
           n == MergeDiag(s, data)
<1>1. /\ NodeFields = DOMAIN s
      /\ s.rloc = r /\ s.role = role /\ s.discovery = "direct"
      /\ s.data = EmptyDiag /\ s.routes = {} /\ s.children = {}
  BY SkeletonFields
<1> HIDE DEF s
<1>2. /\ DOMAIN n = NodeFields
      /\ n.rloc = r /\ n.role = role
      /\ n.discovery = "direct"
      /\ n.data = MergeNetdiag(s.data, Stored(data))
      /\ "ROUTE64" \notin DOMAIN data => n.routes = {}
      /\ "ROUTE64" \in DOMAIN data => n.routes = RoutesOf(r, data)
      /\ "CHILD_TABLE" \notin DOMAIN data => n.children = {}
      /\ "CHILD_TABLE" \in DOMAIN data
           => n.children = ChildRlocs(RouterRloc(RouterId(r)), data)
  BY <1>1, MergedFields
<1> HIDE DEF n
<1>3. DOMAIN EmptyDiag = {}
  BY DEF EmptyDiag
<1>4. /\ DOMAIN n.data = DOMAIN data \ NotStored
      /\ \A t \in DOMAIN data \ NotStored : n.data[t] = data[t]
  <2> DEFINE new == Stored(data)
  <2>1. DOMAIN new = DOMAIN data \ NotStored /\ \A t \in DOMAIN new : new[t] = data[t]
    BY StoredFields
  <2>2. n.data = Extend(EmptyDiag, new)
    BY <1>1, <1>2 DEF MergeNetdiag
  <2> HIDE DEF new
  <2>3. /\ DOMAIN Extend(EmptyDiag, new) = DOMAIN EmptyDiag \cup DOMAIN new
        /\ \A k \in DOMAIN new : Extend(EmptyDiag, new)[k] = new[k]
        /\ \A k \in DOMAIN EmptyDiag \ DOMAIN new : Extend(EmptyDiag, new)[k] = EmptyDiag[k]
    BY Extended
  <2> QED
    BY <1>3, <2>1, <2>2, <2>3
<1>5. /\ "ROUTE64" \notin DOMAIN data => RoutesOf(r, data) = {}
      /\ "CHILD_TABLE" \notin DOMAIN data => ChildRlocs(RouterRloc(RouterId(r)), data) = {}
  BY DEF RoutesOf, ChildRlocs, Table
<1>6. n.routes = RoutesOf(r, data) /\ n.children = ChildRlocs(RouterRloc(RouterId(r)), data)
  BY <1>2, <1>5
<1> QED
  BY <1>2, <1>4, <1>6 DEF FromDiag, s, n

(* The record of a router that never answered.                               *)
LEMMA UnreachableFields ==
    ASSUME NEW r, NEW role
    PROVE  LET n == Unreachable(r, role)
           IN  /\ NodeFields = DOMAIN n
               /\ n.role = role /\ n.discovery = "unreachable"
               /\ n.routes = {} /\ n.children = {}
BY DEF Unreachable, Skeleton, NodeFields

(* The children of one parent's answer.                                      *)
LEMMA ChildNodesFields ==
    ASSUME NEW p, NEW data
    PROVE  /\ DOMAIN ChildNodes(p, data) = ChildRlocs(p, data)
           /\ \A r \in ChildRlocs(p, data) :
                LET n == ChildNodes(p, data)[r]
                IN  /\ NodeFields = DOMAIN n
                    /\ n.role = "child" /\ n.discovery = "parent-table" /\ n.parent = p
                    /\ n.routes = {} /\ n.children = {}
<1> DEFINE listed == IF "CHILD_IPV6_ADDRESSES" \in DOMAIN data
                     THEN data["CHILD_IPV6_ADDRESSES"] ELSE {}
           copied(r) == {"MODE", "TIMEOUT"} \cup
                        (IF r \in listed THEN {"IPV6_ADDRESSES"} ELSE {})
           node(r, x) == [Skeleton(r, "child", "parent-table") EXCEPT
                            !.parent = p, !.data = x]
<1>1. ChildNodes(p, data) = [r \in ChildRlocs(p, data) |-> node(r, [t \in copied(r) |-> t])]
  BY DEF ChildNodes, ChildRlocs, Table
<1>2. \A r, x : /\ NodeFields = DOMAIN node(r, x)
                /\ node(r, x).role = "child" /\ node(r, x).discovery = "parent-table"
                /\ node(r, x).parent = p
                /\ node(r, x).routes = {} /\ node(r, x).children = {}
  BY DEF Skeleton, NodeFields
<1> HIDE DEF copied, node
<1> QED
  BY <1>1, <1>2

(* The children of all the answers: the parent of each is the router that    *)
(* lists it.                                                                 *)
LEMMA ChildrenFields ==
    ASSUME NEW answers,
           \A p \in DOMAIN answers : p \in RouterRlocSet /\ Table(answers[p]) \subseteq ChildIds
    PROVE  LET c == ChildrenOf(answers)
           IN  /\ DOMAIN c = UNION {ChildRlocs(p, answers[p]) : p \in DOMAIN answers}
               /\ \A r \in DOMAIN c :
                    /\ r \in Rlocs /\ IsChild(r) /\ r \notin RouterRlocSet
                    /\ NodeFields = DOMAIN c[r]
                    /\ c[r].role = "child" /\ c[r].discovery = "parent-table"
                    /\ c[r].parent \in DOMAIN answers
                    /\ r \in ChildRlocs(c[r].parent, answers[c[r].parent])
                    /\ c[r].routes = {} /\ c[r].children = {}
<1> DEFINE of(p) == ChildNodes(p, answers[p])
           D == UNION {DOMAIN of(p) : p \in DOMAIN answers}
           c == ChildrenOf(answers)
<1>1. c = [r \in D |-> of(ParentOf(r))[r]]
  BY DEF ChildrenOf
<1>2. D = UNION {ChildRlocs(p, answers[p]) : p \in DOMAIN answers}
  BY ChildNodesFields
<1>3. ASSUME NEW r \in D
      PROVE  /\ r \in Rlocs /\ IsChild(r) /\ r \notin RouterRlocSet
             /\ ParentOf(r) \in DOMAIN answers
             /\ r \in ChildRlocs(ParentOf(r), answers[ParentOf(r)])
  <2>1. PICK p \in DOMAIN answers : r \in ChildRlocs(p, answers[p])
    BY <1>2
  <2>2. PICK k \in Table(answers[p]) : r = ChildRloc(p, k)
    BY <2>1 DEF ChildRlocs
  <2>3. p \in RouterRlocSet /\ k \in ChildIds
    BY <2>2
  <2>4. /\ r \in Rlocs /\ IsChild(r) /\ r \notin RouterRlocSet
        /\ ParentOf(r) = p
    BY <2>2, <2>3, ChildRlocs16
  <2> QED
    BY <2>1, <2>4
<1> HIDE DEF c, D
<1>4. ASSUME NEW r \in D
      PROVE  /\ NodeFields = DOMAIN c[r]
             /\ c[r].role = "child" /\ c[r].discovery = "parent-table"
             /\ c[r].parent = ParentOf(r)
             /\ c[r].routes = {} /\ c[r].children = {}
  <2>1. c[r] = of(ParentOf(r))[r]
    BY <1>1
  <2> HIDE DEF of
  <2>2. r \in ChildRlocs(ParentOf(r), answers[ParentOf(r)])
    BY <1>3
  <2> QED
    BY <2>1, <2>2, ChildNodesFields DEF of
<1>5. DOMAIN c = D
  BY <1>1
<1> QED
  BY <1>2, <1>3, <1>4, <1>5 DEF c

-----------------------------------------------------------------------------
(* The TLVs of a list that a node can answer alone and that were not lost.   *)
Owed(r, tlvs) ==
    {t \in Range(tlvs) : /\ t \in DOMAIN mesh.nodes[r].tlvs
                         /\ Fits(r, {t})
                         /\ <<r, t>> \notin air.dropped}

CollectTypes ==
    /\ AirFields \subseteq DOMAIN air
    /\ WorkFields \subseteq DOMAIN work
    /\ work.primed \in BOOLEAN
    /\ work.stack \in Seq(Batches)
    /\ Walking => work.tlvs \in Lists

(* Before the primer's answer every attempt was either lost or the one that  *)
(* resolved the route; after it every TLV that is owed is there or still to  *)
(* be asked for.                                                             *)
Progress ==
    Stays(work.dest) =>
      IF work.primed
      THEN Owed(work.dest, work.tlvs) \subseteq Asked(work.stack) \cup DOMAIN work.merged
      ELSE work.tries <= air.faults + (IF work.dest \in air.resolved THEN 1 ELSE 0)

CollectInv ==
    /\ CollectTypes
    /\ DOMAIN work.merged \cup Asked(work.stack) \subseteq Range(work.tlvs)
    /\ Truthful(Target(work.dest), work.merged)
    /\ work.primed => work.dest \in air.resolved
    /\ pc = "wait" => ~Collected
    /\ Progress

-----------------------------------------------------------------------------
(* The records of a walk.                                                    *)

WalkFields == {"cmd", "stage", "todo", "leader", "discovery", "nodes", "answers"}

TlvsOf(r) == IF IsChild(r) THEN CHILD_TLVS ELSE ROUTER_TLVS

Complete(r, node) ==
    node.discovery = "direct" /\ Stays(r) =>
      \A t \in Owed(r, TlvsOf(r)) \ NotStored :
        t \in DOMAIN node.data /\ node.data[t] = mesh.nodes[r].tlvs[t]

(* Whoever is silent has left, has been let down three times, or is a child  *)
(* whose turn is yet to come.                                                *)
Excused(w, r) ==
    \/ w.nodes[r].discovery = "direct"
    \/ ~Stays(r) \/ air.faults > 2
    \/ w.stage = "children" /\ r \in Range(w.todo)

Recorded(w) ==
    /\ WalkFields \subseteq DOMAIN w
    /\ \A r \in DOMAIN w.nodes :
         /\ NodeFields \subseteq DOMAIN w.nodes[r]
         /\ Complete(r, w.nodes[r])
         /\ Excused(w, r)

-----------------------------------------------------------------------------
(* The snapshot of `topology'.                                               *)

RouterRecord(w, r) ==
    /\ w.nodes[r].role = IF r = w.leader THEN "leader" ELSE "router"
    /\ w.nodes[r].children = IF r \in DOMAIN w.answers THEN ChildRlocs(r, w.answers[r]) ELSE {}
    /\ w.nodes[r].routes = IF r \in DOMAIN w.answers THEN RoutesOf(r, w.answers[r]) ELSE {}

ChildRecord(w, r) ==
    LET n == w.nodes[r]
    IN  /\ n.role = "child" /\ n.routes = {} /\ n.children = {}
        /\ n.parent \in DOMAIN w.answers
        /\ r \in ChildRlocs(n.parent, w.answers[n.parent])

Snapshot(w) ==
    /\ w.leader \in RouterRlocSet
    /\ DOMAIN w.answers \subseteq DOMAIN w.nodes \cap RouterRlocSet
    /\ \A p \in DOMAIN w.answers : SoundTlvs(p, w.answers[p])
    /\ \A r \in DOMAIN w.nodes :
         IF r \in RouterRlocSet THEN RouterRecord(w, r)
         ELSE w.stage # "routers" /\ ChildRecord(w, r)
    /\ IF w.stage = "routers" THEN w.leader \in DOMAIN w.nodes \cup Range(w.todo)
       ELSE /\ w.leader \in DOMAIN w.nodes
            /\ \A p \in DOMAIN w.answers : ChildRlocs(p, w.answers[p]) \subseteq DOMAIN w.nodes

Drawn(w) == w.cmd = WholeMesh /\ w.stage \in {"routers", "children", "done"} => Snapshot(w)

-----------------------------------------------------------------------------
(* Who is asked at each stage, and for what.                                 *)

Empty(w) == w.nodes = EmptyDiag /\ w.answers = EmptyDiag /\ w.todo = <<>>

AtStage(w, dest, tlvs) ==
    \/ /\ w.stage = "discover"
       /\ w.cmd = WholeMesh /\ Empty(w)
       /\ dest = LEADER_ALOC16 /\ tlvs = DISCOVERY_TLVS
    \/ /\ w.stage = "routers"
       /\ w.cmd = WholeMesh
       /\ w.todo \in Seq(RouterRlocSet) \ {<<>>}
       /\ Distinct(w.todo) /\ Range(w.todo) \cap DOMAIN w.nodes = {}
       /\ dest = Head(w.todo) /\ tlvs = ROUTER_TLVS
    \/ /\ w.stage = "children"
       /\ w.cmd = WholeMesh
       /\ w.todo \in Seq(DOMAIN w.nodes \ RouterRlocSet) \ {<<>>}
       /\ dest = Head(w.todo) /\ tlvs = CHILD_TLVS
    \/ /\ w.stage = "node"
       /\ w.cmd # WholeMesh /\ Empty(w)
       /\ dest = w.cmd /\ tlvs = TlvsOf(w.cmd)
    \/ /\ w.stage = "parent"
       /\ w.cmd # WholeMesh /\ Empty(w)
       /\ tlvs = ROUTER_TLVS
       /\ ~Stays(w.cmd) \/ air.faults > 2

StageInv ==
    /\ pc \in {"connect", "petition", "dataset"} =>
         walk.stage = "start" /\ Empty(walk) /\ outcome = "none"
    /\ Walking => AtStage(walk, work.dest, work.tlvs) /\ outcome = "none"
    /\ outcome = "ok" => walk.stage = "done" /\ walk.todo = <<>>

ReportInv == MeshInv /\ CollectInv /\ Recorded(walk) /\ Drawn(walk) /\ StageInv

-----------------------------------------------------------------------------
(* A collect_diag at its beginning, and none at all.                         *)
LEMMA NothingAsked ==
    /\ <<>> \in Seq(Batches) /\ Asked(<<>>) = {} /\ Range(<<>>) = {} /\ DOMAIN EmptyDiag = {}
<1>1. <<>> \in Seq(Batches) /\ DOMAIN <<>> = {}
  OBVIOUS
<1> QED
  BY <1>1 DEF Asked, Range, EmptyDiag

(* No collect_diag at all.                                                   *)
LEMMA IdleWork ==
    /\ WorkFields \subseteq DOMAIN NoWork
    /\ NoWork.tlvs = <<>> /\ NoWork.tries = 0 /\ NoWork.primed = FALSE
    /\ NoWork.stack = <<>> /\ NoWork.merged = EmptyDiag
BY DEF NoWork, WorkFields

(* A fresh collect_diag satisfies the invariant of one.                      *)
LEMMA FreshCollect ==
    ASSUME WorkFields \subseteq DOMAIN work', AirFields \subseteq DOMAIN air',
           air'.faults \in Nat,
           work'.tries = 0, work'.primed = FALSE, work'.stack = <<>>, work'.merged = EmptyDiag,
           pc' # "wait", Walking' => work'.tlvs \in Lists
    PROVE  CollectInv'
<1>1. CollectTypes'
  BY NothingAsked DEF CollectTypes, Walking
<1>2. DOMAIN work'.merged = {} /\ Asked(work'.stack) = {}
  BY NothingAsked
<1>3. Truthful(Target(work.dest), work.merged)'
  BY <1>2 DEF Truthful
<1>4. 0 <= air'.faults + 0 /\ 0 <= air'.faults + 1
  OBVIOUS
<1>5. Progress'
  BY <1>4 DEF Progress
<1> QED
  BY <1>1, <1>2, <1>3, <1>5 DEF CollectInv

-----------------------------------------------------------------------------
(* The requests of one collect_diag.                                         *)

(* The mesh only ever gets worse: fewer nodes stay, less is owed.            *)
LEMMA AirWorsens ==
    ASSUME mesh' = mesh, air.left \subseteq air'.left, air.dropped \subseteq air'.dropped
    PROVE  /\ \A r : Stays(r)' => Stays(r)
           /\ \A r, l : Owed(r, l)' \subseteq Owed(r, l)
           /\ \A r, ask : Fits(r, ask)' <=> Fits(r, ask)
           /\ \A r : Target(r)' = Target(r)
<1>1. \A r : Stays(r)' => Stays(r)
  BY DEF Stays
<1>2. \A r, ask : Fits(r, ask)' <=> Fits(r, ask)
  BY DEF Fits, CapAt
<1>3. \A r, l : Owed(r, l)' \subseteq Owed(r, l)
  BY <1>2 DEF Owed
<1>4. \A r : Target(r)' = Target(r)
  BY DEF Target
<1> QED
  BY <1>1, <1>2, <1>3, <1>4

(* So records that were complete, and silences that were excused, stay so.   *)
LEMMA RecordsKept ==
    ASSUME NEW w, walk' = w, Recorded(w),
           mesh' = mesh, air.left \subseteq air'.left, air.dropped \subseteq air'.dropped,
           air.faults \in Nat, air'.faults \in Nat, air.faults <= air'.faults
    PROVE  Recorded(walk)'
<1>1. air.faults > 2 => air'.faults > 2
  OBVIOUS
<1>2. ASSUME NEW r \in DOMAIN w.nodes
      PROVE  Complete(r, w.nodes[r])'
  <2>1. Complete(r, w.nodes[r])
    BY DEF Recorded
  <2>2. (Stays(r)' => Stays(r)) /\ Owed(r, TlvsOf(r))' \subseteq Owed(r, TlvsOf(r))
    BY AirWorsens DEF TlvsOf
  <2> QED
    BY <2>1, <2>2 DEF Complete
<1>3. ASSUME NEW r \in DOMAIN w.nodes
      PROVE  Excused(w, r)'
  <2>1. Excused(w, r)
    BY DEF Recorded
  <2>2. Stays(r)' => Stays(r)
    BY AirWorsens
  <2> QED
    BY <1>1, <2>1, <2>2 DEF Excused
<1> QED
  BY <1>2, <1>3 DEF Recorded, Complete, Excused

(* The snapshot says nothing of the mesh.                                    *)
LEMMA DrawnKept ==
    ASSUME NEW w, walk' = w, Drawn(w)
    PROVE  Drawn(walk)'
BY DEF Drawn, Snapshot, RouterRecord, ChildRecord

(* A visit asks the node that is due at its stage.                           *)
LEMMA VisitReports ==
    ASSUME NEW w, NEW d, NEW t, Visit(w, d, t), air' = air, mesh' = mesh,
           AirFields \subseteq DOMAIN air, air.faults \in Nat, MeshInv,
           t \in Lists, outcome = "none", Recorded(w), Drawn(w), AtStage(w, d, t)
    PROVE  ReportInv'
<1>1. walk' = w /\ work' = Collect(d, t) /\ pc' = "send" /\ outcome' = "none"
  BY DEF Visit
<1>2. /\ WorkFields \subseteq DOMAIN work'
      /\ work'.dest = d /\ work'.tlvs = t /\ work'.tries = 0 /\ work'.primed = FALSE
      /\ work'.stack = <<>> /\ work'.merged = EmptyDiag
  BY <1>1 DEF Collect, NoWork, WorkFields
<1>3. CollectInv'
  BY <1>1, <1>2, FreshCollect
<1>4. Recorded(walk)' /\ Drawn(walk)'
  <2>1. air'.faults \in Nat /\ air.faults <= air'.faults
    OBVIOUS
  <2> QED
    BY <1>1, <2>1, RecordsKept, DrawnKept
<1>5. StageInv'
  <2>1. AtStage(walk, work.dest, work.tlvs)'
    <3>1. (Stays(w.cmd)' <=> Stays(w.cmd)) /\ air'.faults = air.faults
      BY DEF Stays
    <3> QED
      BY <1>1, <1>2, <3>1 DEF AtStage, Stays, Empty, TlvsOf
  <2> QED
    BY <1>1, <2>1 DEF StageInv, Walking
<1>6. MeshInv'
  BY DEF MeshInv
<1> QED
  BY <1>3, <1>4, <1>5, <1>6 DEF ReportInv

(* The end of a walk.                                                        *)
LEMMA FinishReports ==
    ASSUME NEW w, Finish(w), air' = air, mesh' = mesh,
           AirFields \subseteq DOMAIN air, air.faults \in Nat, MeshInv,
           Recorded([w EXCEPT !.stage = "done"]), Drawn([w EXCEPT !.stage = "done"]),
           "stage" \in DOMAIN w, w.todo = <<>>
    PROVE  ReportInv'
<1> DEFINE v == [w EXCEPT !.stage = "done"]
<1>0. v.stage = "done" /\ v.todo = <<>> /\ Recorded(v) /\ Drawn(v)
  OBVIOUS
<1>1. walk' = v /\ work' = NoWork /\ pc' = "resign" /\ outcome' \in {"ok", "err"}
  BY DEF Finish
<1> HIDE DEF v
<1>3. CollectInv'
  BY <1>1, IdleWork, FreshCollect DEF Walking
<1>4. Recorded(walk)' /\ Drawn(walk)'
  <2>1. air'.faults \in Nat /\ air.faults <= air'.faults
    OBVIOUS
  <2> QED
    BY <1>0, <1>1, <2>1, RecordsKept, DrawnKept
<1>5. StageInv'
  BY <1>0, <1>1 DEF StageInv, Walking
<1>6. MeshInv'
  BY DEF MeshInv
<1> QED
  BY <1>3, <1>4, <1>5, <1>6 DEF ReportInv

(* A failure keeps the records and reports nothing.                          *)
LEMMA FailReports ==
    ASSUME ReportInv, Fail, mesh' = mesh, air.faults \in Nat,
           AirFields \subseteq DOMAIN air', air'.left = air.left, air'.dropped = air.dropped,
           air'.faults = air.faults
    PROVE  ReportInv'
<1>1. walk' = walk /\ work' = NoWork /\ pc' = "resign" /\ outcome' = "err"
  BY DEF Fail
<1>3. CollectInv'
  BY <1>1, IdleWork, FreshCollect DEF Walking
<1>4. Recorded(walk)' /\ Drawn(walk)'
  <2>1. air'.faults \in Nat /\ air.faults <= air'.faults
    OBVIOUS
  <2> QED
    BY <1>1, <2>1, RecordsKept, DrawnKept DEF ReportInv
<1>5. StageInv'
  BY <1>1 DEF StageInv, Walking
<1> QED
  BY <1>3, <1>4, <1>5 DEF ReportInv, MeshInv

(* The steps that only move on, and the last one.                            *)
LEMMA MovesReport ==
    ASSUME ReportInv, work' = work, walk' = walk, mesh' = mesh,
           AirFields \subseteq DOMAIN air', air'.left = air.left, air'.dropped = air.dropped,
           air'.resolved = air.resolved, air'.faults = air.faults, air.faults \in Nat,
           pc' = "wait" => ~Collected,
           pc' \in {"send", "wait", "keepalive"} => Walking /\ outcome' = outcome,
           pc' \in {"connect", "petition", "dataset"} =>
             pc \in {"connect", "petition", "dataset"} /\ outcome' = outcome,
           outcome' \in {outcome, "err"}
    PROVE  ReportInv'
<1>0. /\ MeshInv /\ CollectInv /\ Recorded(walk) /\ Drawn(walk) /\ StageInv
  BY DEF ReportInv
<1>1. Recorded(walk)' /\ Drawn(walk)'
  <2>1. air'.faults \in Nat /\ air.faults <= air'.faults
    OBVIOUS
  <2> QED
    BY <1>0, <2>1, RecordsKept, DrawnKept
<1>2. CollectTypes'
  BY <1>0 DEF CollectInv, CollectTypes, Walking
<1>3. Truthful(Target(work.dest), work.merged)' /\ Progress'
  BY <1>0 DEF CollectInv, Truthful, Target, Progress, Stays, Owed, Fits, CapAt
<1>4. (pc = "wait" => ~Collected)'
  BY DEF Collected
<1>5. CollectInv'
  BY <1>0, <1>2, <1>3, <1>4 DEF CollectInv
<1>6. StageInv'
  BY <1>0 DEF StageInv, Walking, AtStage, Stays, Empty, TlvsOf
<1> QED
  BY <1>0, <1>1, <1>5, <1>6 DEF ReportInv, MeshInv

(* The stage does not change while a node is asked.                          *)
LEMMA StageKept ==
    ASSUME StageInv, Walking, Walking', walk' = walk, outcome' = outcome, mesh' = mesh,
           work'.dest = work.dest, work'.tlvs = work.tlvs,
           air.left \subseteq air'.left,
           air.faults \in Nat, air'.faults \in Nat, air.faults <= air'.faults
    PROVE  StageInv'
<1>1. AtStage(walk, work.dest, work.tlvs) /\ outcome = "none"
  BY DEF StageInv
<1>2. (Stays(walk.cmd)' => Stays(walk.cmd)) /\ (air.faults > 2 => air'.faults > 2)
  BY DEF Stays
<1>3. AtStage(walk, work.dest, work.tlvs)'
  BY <1>1, <1>2 DEF AtStage, Empty, TlvsOf
<1> QED
  BY <1>1, <1>3 DEF StageInv, Walking

(* The batch that is out: the primer's TLV, or the top of the stack.         *)
LEMMA BatchOut ==
    ASSUME CollectInv, pc = "wait"
    PROVE  /\ work.tlvs \in Lists /\ work.tlvs \in Seq(Tlvs)
           /\ Ask \subseteq Range(work.tlvs)
           /\ ~work.primed => Ask = {"MAC_ADDR"} /\ "MAC_ADDR" \in Range(work.tlvs)
           /\ work.primed => /\ work.stack # <<>> /\ Batch = Top(work.stack) /\ Batch \in Batches
                             /\ Pop(work.stack) \in Seq(Batches)
                             /\ Asked(work.stack) = Asked(Pop(work.stack)) \cup Ask
<1>1. work.tlvs \in Lists /\ work.stack \in Seq(Batches) /\ work.primed \in BOOLEAN
  BY DEF CollectInv, CollectTypes, Walking
<1>2. work.tlvs \in Seq(Tlvs) /\ "MAC_ADDR" \in Range(work.tlvs)
  BY <1>1, ListTypes
<1>3. CASE ~work.primed
  <2>1. Batch = <<"MAC_ADDR">>
    BY <1>3 DEF Batch
  <2>2. Range(<<"MAC_ADDR">>) = {"MAC_ADDR"}
    <3>1. DOMAIN <<"MAC_ADDR">> = {1}
      OBVIOUS
    <3> QED
      BY <3>1 DEF Range
  <2> QED
    BY <1>1, <1>2, <1>3, <2>1, <2>2 DEF Ask
<1>4. CASE work.primed
  <2>1. Batch = Top(work.stack) /\ work.stack # <<>>
    BY <1>4 DEF Batch, CollectInv, Collected
  <2>2. /\ Pop(work.stack) \in Seq(Batches) /\ Top(work.stack) \in Batches
        /\ Asked(work.stack) = Asked(Pop(work.stack)) \cup Range(Top(work.stack))
    BY <1>1, <2>1, PopAsked
  <2>3. Asked(work.stack) \subseteq Range(work.tlvs)
    BY DEF CollectInv
  <2> QED
    BY <1>1, <1>2, <1>4, <2>1, <2>2, <2>3 DEF Ask
<1> QED
  BY <1>1, <1>3, <1>4

(* Only the leader is reached through another address than its own.          *)
LEMMA StaysAtItself ==
    ASSUME MeshInv, NEW r, Stays(r)
    PROVE  Target(r) = r /\ Present(r) /\ mesh.nodes[r].cap \in Nat \ {0}
<1>1. r \in DOMAIN mesh.nodes /\ r \notin air.left
  BY DEF Stays
<1>2. DOMAIN mesh.nodes \subseteq Rlocs /\ mesh.nodes[r].cap \in Nat \ {0}
  BY <1>1, SoundMeshes DEF MeshInv
<1>3. r # LEADER_ALOC16
  BY <1>1, <1>2, RlocNumbers
<1> QED
  BY <1>1, <1>2, <1>3 DEF Target, Present

(* An answer is merged and its batch leaves the stack.                       *)
LEMMA AnsweredReports ==
    ASSUME ReportInv, QueryAnswered, air.faults \in Nat
    PROVE  ReportInv'
<1> DEFINE A == AnswerOf(work.dest, Ask)
           m == MergeNetdiag(work.merged, A)
           s == IF work.primed THEN Pop(work.stack) ELSE Reversed(Chunks(work.tlvs))
           tlvs == mesh.nodes[Target(work.dest)].tlvs
<1>0. /\ MeshInv /\ CollectInv /\ Recorded(walk) /\ Drawn(walk) /\ StageInv
      /\ pc = "wait" /\ pc' = "send" /\ work.dest \in air.resolved
      /\ UNCHANGED <<session, walk, outcome, mesh, air>>
  BY DEF ReportInv, QueryAnswered
<1>1. /\ work.tlvs \in Lists /\ work.tlvs \in Seq(Tlvs)
      /\ Ask \subseteq Range(work.tlvs)
      /\ ~work.primed => Ask = {"MAC_ADDR"} /\ "MAC_ADDR" \in Range(work.tlvs)
      /\ work.primed => /\ Pop(work.stack) \in Seq(Batches)
                        /\ Asked(work.stack) = Asked(Pop(work.stack)) \cup Ask
  BY <1>0, BatchOut
<1>2. DOMAIN A = Ask \cap DOMAIN tlvs /\ \A t \in DOMAIN A : A[t] = tlvs[t]
  BY DEF AnswerOf
<1>3. Target(work.dest) \in DOMAIN mesh.nodes
  BY DEF QueryAnswered, Answers, Present
<1>4. WorkFields \subseteq DOMAIN work /\ AirFields \subseteq DOMAIN air
  BY <1>0 DEF CollectInv, CollectTypes
<1>5. /\ work' = [work EXCEPT !.merged = m, !.primed = TRUE, !.stack = s]
  BY DEF QueryAnswered
<1> HIDE DEF A, m, s
<1>6. /\ WorkFields \subseteq DOMAIN work'
      /\ work'.dest = work.dest /\ work'.tlvs = work.tlvs
      /\ work'.merged = m /\ work'.primed = TRUE /\ work'.stack = s
  BY <1>4, <1>5 DEF WorkFields
<1>7. /\ DOMAIN m = DOMAIN work.merged \cup DOMAIN A
      /\ \A t \in DOMAIN A : m[t] = A[t]
      /\ \A t \in DOMAIN work.merged \ DOMAIN A : m[t] = work.merged[t]
  BY Extended DEF m, MergeNetdiag
<1>8. /\ s \in Seq(Batches) /\ Asked(s) \subseteq Range(work.tlvs)
      /\ work.primed => Asked(s) \cup Ask = Asked(work.stack)
      /\ ~work.primed => Asked(s) \cup Ask = Range(work.tlvs)
  <2>1. CASE work.primed
    <3>1. Asked(work.stack) \subseteq Range(work.tlvs)
      BY <1>0 DEF CollectInv
    <3> QED
      BY <1>1, <2>1, <3>1 DEF s
  <2>2. CASE ~work.primed
    <3>1. /\ Reversed(Chunks(work.tlvs)) \in Seq(Batches)
          /\ Asked(Reversed(Chunks(work.tlvs))) = Range(work.tlvs) \ {"MAC_ADDR"}
      BY <1>1, ChunksCover
    <3> QED
      BY <1>1, <2>2, <3>1 DEF s
  <2> QED
    BY <2>1, <2>2
<1>9. Truthful(Target(work.dest), work.merged)'
  <2>1. Truthful(Target(work.dest), work.merged)
    BY <1>0 DEF CollectInv
  <2>2. ASSUME NEW t \in DOMAIN m
        PROVE  t \in DOMAIN tlvs /\ m[t] = tlvs[t]
    <3>1. CASE t \in DOMAIN A
      BY <1>2, <1>7, <3>1
    <3>2. CASE t \in DOMAIN work.merged \ DOMAIN A
      BY <1>7, <2>1, <3>2 DEF Truthful
    <3> QED
      BY <1>7, <3>1, <3>2
  <2>3. Target(work.dest)' = Target(work.dest)
    BY <1>0, <1>6 DEF Target
  <2> QED
    BY <1>0, <1>3, <1>6, <2>2, <2>3 DEF Truthful
<1>10. Progress'
  <2> SUFFICES ASSUME Stays(work.dest)'
               PROVE  Owed(work.dest, work.tlvs)' \subseteq Asked(s) \cup DOMAIN m
    BY <1>6 DEF Progress
  <2>1. Stays(work.dest) /\ Owed(work.dest, work.tlvs)' = Owed(work.dest, work.tlvs)
    BY <1>0, <1>6 DEF Stays, Owed, Fits, CapAt
  <2>2. Target(work.dest) = work.dest
    BY <1>0, <2>1, StaysAtItself
  <2>3. ASSUME NEW t \in Owed(work.dest, work.tlvs)
        PROVE  t \in Asked(s) \cup DOMAIN m
    <3>1. t \in DOMAIN tlvs /\ t \in Range(work.tlvs)
      BY <2>2 DEF Owed
    <3>2. t \in Ask => t \in DOMAIN A
      BY <1>2, <3>1
    <3>3. work.primed => t \in Asked(work.stack) \cup DOMAIN work.merged
      BY <1>0, <2>1 DEF CollectInv, Progress
    <3> QED
      BY <1>7, <1>8, <3>1, <3>2, <3>3
  <2> QED
    BY <2>1, <2>3
<1>11. CollectInv'
  <2>1. CollectTypes'
    BY <1>0, <1>1, <1>4, <1>6, <1>8 DEF CollectTypes
  <2>2. DOMAIN m \cup Asked(s) \subseteq Range(work.tlvs)
    <3>1. DOMAIN work.merged \subseteq Range(work.tlvs)
      BY <1>0 DEF CollectInv
    <3> QED
      BY <1>1, <1>2, <1>7, <1>8, <3>1
  <2> QED
    BY <1>0, <1>6, <1>9, <1>10, <2>1, <2>2 DEF CollectInv
<1>12. Recorded(walk)' /\ Drawn(walk)'
  <2>1. air'.faults \in Nat /\ air.faults <= air'.faults
    BY <1>0
  <2> QED
    BY <1>0, <2>1, RecordsKept, DrawnKept
<1>13. StageInv'
  <2>1. air'.faults \in Nat /\ air.faults <= air'.faults
    BY <1>0
  <2> QED
    BY <1>0, <1>6, <2>1, StageKept DEF Walking
<1> QED
  BY <1>0, <1>11, <1>12, <1>13 DEF ReportInv, MeshInv

(* A request without an answer: another attempt, two halves, or a lone TLV   *)
(* given up.                                                                 *)
LEMMA UnansweredReports ==
    ASSUME ReportInv, pc = "wait", Unanswered, mesh' = mesh,
           AirFields \subseteq DOMAIN air',
           air.left \subseteq air'.left, air.dropped \subseteq air'.dropped,
           air.resolved \subseteq air'.resolved,
           air.faults \in Nat, air'.faults \in Nat, air.faults <= air'.faults,
           Stays(work.dest) /\ ~work.primed =>
             work.tries + 1 <= air'.faults + (IF work.dest \in air'.resolved THEN 1 ELSE 0),
           Stays(work.dest) /\ work.primed /\ ~(Len(Batch) > 1) =>
             \A t \in Ask : t \notin Owed(work.dest, work.tlvs)'
    PROVE  ReportInv'
<1>0. /\ MeshInv /\ CollectInv /\ Recorded(walk) /\ Drawn(walk) /\ StageInv
      /\ pc' = "send" /\ UNCHANGED <<session, walk, outcome, mesh>>
  BY DEF ReportInv, Unanswered
<1>1. /\ work.tlvs \in Lists
      /\ work.primed => /\ work.stack # <<>> /\ Batch \in Batches
                        /\ Pop(work.stack) \in Seq(Batches)
                        /\ Asked(work.stack) = Asked(Pop(work.stack)) \cup Ask
  BY <1>0, BatchOut
<1>2. /\ WorkFields \subseteq DOMAIN work /\ work.stack \in Seq(Batches) /\ work.primed \in BOOLEAN
      /\ Asked(work.stack) \subseteq Range(work.tlvs)
  BY <1>0 DEF CollectInv, CollectTypes
<1>3. PICK s : /\ work' = [work EXCEPT !.tries = IF work.primed THEN @ ELSE @ + 1, !.stack = s]
               /\ ~work.primed => s = work.stack
               /\ work.primed => s = IF Len(Batch) > 1 THEN Pop(work.stack) \o Halves(Batch)
                                     ELSE Pop(work.stack)
  <2>1. CASE ~work.primed
    <3>1. work' = [work EXCEPT !.tries = @ + 1]
      BY <2>1 DEF Unanswered
    <3>2. work' = [work EXCEPT !.tries = IF work.primed THEN @ ELSE @ + 1, !.stack = work.stack]
      BY <1>2, <2>1, <3>1 DEF WorkFields
    <3> QED
      BY <2>1, <3>2
  <2>2. CASE work.primed
    <3> DEFINE s == IF Len(Batch) > 1 THEN Pop(work.stack) \o Halves(Batch) ELSE Pop(work.stack)
    <3>1. work' = [work EXCEPT !.stack = s]
      BY <2>2 DEF Unanswered
    <3> HIDE DEF s
    <3>2. work' = [work EXCEPT !.tries = IF work.primed THEN @ ELSE @ + 1, !.stack = s]
      BY <1>2, <2>2, <3>1 DEF WorkFields
    <3> QED
      BY <2>2, <3>2 DEF s
  <2> QED
    BY <2>1, <2>2
<1>4. /\ WorkFields \subseteq DOMAIN work'
      /\ work'.dest = work.dest /\ work'.tlvs = work.tlvs
      /\ work'.merged = work.merged /\ work'.primed = work.primed /\ work'.stack = s
      /\ work'.tries = IF work.primed THEN work.tries ELSE work.tries + 1
  BY <1>2, <1>3 DEF WorkFields
<1>5. /\ s \in Seq(Batches)
      /\ Asked(s) \subseteq Asked(work.stack)
      /\ work.primed /\ Len(Batch) > 1 => Asked(s) = Asked(work.stack)
      /\ work.primed /\ ~(Len(Batch) > 1) => Asked(s) \cup Ask = Asked(work.stack)
  <2>1. CASE ~work.primed
    BY <1>2, <1>3, <2>1
  <2>2. CASE work.primed /\ Len(Batch) > 1
    <3>1. /\ Halves(Batch) \in Seq(Batches) /\ Len(Halves(Batch)) = 2
          /\ Range(Halves(Batch)[1]) \cup Range(Halves(Batch)[2]) = Ask
      BY <1>1, <2>2, HalvesCover DEF Batches, Ask
    <3>2. s = Pop(work.stack) \o Halves(Batch) /\ Pop(work.stack) \in Seq(Batches)
      BY <1>1, <1>3, <2>2
    <3>3. \A q, two \in Seq(Batches) : Len(two) = 2 =>
            /\ q \o two \in Seq(Batches)
            /\ Asked(q \o two) = Asked(q) \cup Range(two[1]) \cup Range(two[2])
      BY PushAsked
    <3>4. /\ s \in Seq(Batches)
          /\ Asked(s) = Asked(Pop(work.stack)) \cup Range(Halves(Batch)[1])
                                               \cup Range(Halves(Batch)[2])
      BY <3>1, <3>2, <3>3
    <3> QED
      BY <1>1, <2>2, <3>1, <3>4
  <2>3. CASE work.primed /\ ~(Len(Batch) > 1)
    BY <1>1, <1>3, <2>3
  <2> QED
    BY <2>1, <2>2, <2>3
<1>6. /\ \A r : Stays(r)' => Stays(r)
      /\ \A r, l : Owed(r, l)' \subseteq Owed(r, l)
      /\ \A r : Target(r)' = Target(r)
  BY AirWorsens
<1>7. Truthful(Target(work.dest), work.merged)'
  BY <1>0, <1>4, <1>6 DEF CollectInv, Truthful, Target
<1>8. Progress'
  <2> SUFFICES ASSUME Stays(work.dest)'
               PROVE  IF work.primed
                      THEN Owed(work.dest, work.tlvs)' \subseteq Asked(s) \cup DOMAIN work.merged
                      ELSE work'.tries <= air'.faults + (IF work.dest \in air'.resolved THEN 1 ELSE 0)
    BY <1>4 DEF Progress
  <2>1. Stays(work.dest)
    BY <1>4, <1>6 DEF Stays
  <2>2. CASE ~work.primed
    BY <1>4, <2>1, <2>2
  <2>3. CASE work.primed
    <3>1. Owed(work.dest, work.tlvs) \subseteq Asked(work.stack) \cup DOMAIN work.merged
      BY <1>0, <2>1, <2>3 DEF CollectInv, Progress
    <3>2. Owed(work.dest, work.tlvs)' \subseteq Owed(work.dest, work.tlvs)
      BY <1>4, <1>6 DEF Owed
    <3> QED
      BY <1>5, <2>1, <2>3, <3>1, <3>2
  <2> QED
    BY <2>2, <2>3
<1>9. CollectInv'
  <2>1. CollectTypes'
    BY <1>0, <1>1, <1>2, <1>4, <1>5 DEF CollectTypes
  <2> QED
    BY <1>0, <1>4, <1>5, <1>7, <1>8, <2>1 DEF CollectInv
<1>10. Recorded(walk)' /\ Drawn(walk)'
  BY <1>0, RecordsKept, DrawnKept
<1>11. StageInv'
  BY <1>0, <1>4, StageKept DEF Walking
<1> QED
  BY <1>0, <1>9, <1>10, <1>11 DEF ReportInv, MeshInv

(* A lone TLV.                                                               *)
LEMMA LoneBatch ==
    ASSUME CollectInv, pc = "wait", work.primed, ~(Len(Batch) > 1)
    PROVE  Len(Batch) = 1 /\ \A t \in Ask : Ask = {t}
<1>1. Batch \in Seq(Tlvs) /\ Batch # <<>>
  BY BatchOut DEF Batches
<1>2. Len(Batch) = 1
  <2>1. \A q \in Seq(Tlvs) : q # <<>> => Len(q) \in Nat /\ Len(q) >= 1
    OBVIOUS
  <2>2. Len(Batch) \in Nat /\ Len(Batch) >= 1
    BY <1>1, <2>1
  <2>3. \A n \in Nat : n >= 1 /\ ~(n > 1) => n = 1
    OBVIOUS
  <2> QED
    BY <2>2, <2>3
<1>3. Ask = {Batch[i] : i \in 1..1}
  BY <1>1, <1>2, RangeIsValues DEF Ask
<1>4. 1..1 = {1}
  OBVIOUS
<1> QED
  BY <1>2, <1>3, <1>4

(* The mesh did not answer: the route was not resolved, or the answer does   *)
(* not fit.  The smallest request fits everywhere.                           *)
LEMMA SilentReports ==
    ASSUME ReportInv, QueryUnanswered, air.faults \in Nat,
           work.tries \in Nat
    PROVE  ReportInv'
<1>0. /\ MeshInv /\ CollectInv /\ pc = "wait" /\ Unanswered /\ mesh' = mesh
      /\ ~(Answers(work.dest, Ask) /\ work.dest \in air.resolved)
      /\ AirFields \subseteq DOMAIN air
  BY DEF ReportInv, QueryUnanswered, Unanswered, CollectInv, CollectTypes
<1>1. PICK R :
        /\ air' = [air EXCEPT !.resolved = R]
        /\ R = IF Present(work.dest) THEN air.resolved \cup {work.dest} ELSE air.resolved
  BY DEF QueryUnanswered
<1>2. /\ AirFields \subseteq DOMAIN air'
      /\ air'.left = air.left /\ air'.dropped = air.dropped /\ air'.faults = air.faults
      /\ air'.resolved = R /\ air.resolved \subseteq R
  BY <1>0, <1>1 DEF AirFields
<1>3. ASSUME Stays(work.dest)
      PROVE  /\ work.dest \in R
             /\ ~work.primed => work.dest \notin air.resolved
             /\ work.primed => ~Fits(work.dest, Ask)
  <2>1. Target(work.dest) = work.dest /\ Present(work.dest) /\ mesh.nodes[work.dest].cap \in Nat \ {0}
    BY <1>0, <1>3, StaysAtItself
  <2>2. work.dest # LEADER_ALOC16
    BY <1>0, <1>3, SoundMeshes, RlocNumbers DEF Stays, MeshInv
  <2>3. ~work.primed => Fits(work.dest, Ask)
    <3>1. ~work.primed => Ask = {"MAC_ADDR"}
      BY <1>0, BatchOut
    <3>2. Cardinality({"MAC_ADDR"}) = 1 /\ Cardinality({}) = 0
      BY FS_Singleton, FS_EmptySet
    <3>3. {"MAC_ADDR"} \cap HeavyTlvs = {}
      BY DEF HeavyTlvs
    <3>4. CapAt(work.dest) \in Nat \ {0}
      BY <2>1, <2>2 DEF CapAt
    <3>5. 1 + 3 * 0 <= CapAt(work.dest)
      BY <3>4
    <3> QED
      BY <3>1, <3>2, <3>3, <3>5 DEF Fits
  <2>4. work.primed => work.dest \in air.resolved
    BY <1>0 DEF CollectInv
  <2> QED
    BY <1>0, <1>1, <2>1, <2>3, <2>4 DEF Answers
<1>4. Stays(work.dest) /\ ~work.primed =>
        work.tries + 1 <= air'.faults + (IF work.dest \in air'.resolved THEN 1 ELSE 0)
  <2> SUFFICES ASSUME Stays(work.dest), ~work.primed
               PROVE  work.tries + 1 <= air.faults + 1
    BY <1>2, <1>3
  <2>1. work.tries <= air.faults + 0
    BY <1>0, <1>3 DEF CollectInv, Progress
  <2> QED
    BY <2>1
<1>5. Stays(work.dest) /\ work.primed /\ ~(Len(Batch) > 1) =>
        \A t \in Ask : t \notin Owed(work.dest, work.tlvs)'
  <2> SUFFICES ASSUME Stays(work.dest), work.primed, ~(Len(Batch) > 1), NEW t \in Ask
               PROVE  t \notin Owed(work.dest, work.tlvs)'
    OBVIOUS
  <2>1. Ask = {t}
    BY <1>0, LoneBatch
  <2>2. ~Fits(work.dest, {t})
    BY <1>3, <2>1
  <2>3. work'.dest = work.dest
    BY <1>0 DEF Unanswered, CollectInv, CollectTypes, WorkFields
  <2>4. ~Fits(work.dest, {t})'
    BY <1>0, <2>2, <2>3 DEF Fits, CapAt
  <2> QED
    BY <2>4 DEF Owed
<1>6. air.faults <= air'.faults /\ air'.faults \in Nat
  BY <1>2
<1> QED
  BY <1>0, <1>2, <1>4, <1>5, <1>6, UnansweredReports

(* A lost exchange is one fault more, and a lone TLV lost is recorded.       *)
LEMMA LostReports ==
    ASSUME ReportInv, QueryLost, air.faults \in Nat, work.tries \in Nat
    PROVE  ReportInv'
<1>0. /\ CollectInv /\ pc = "wait" /\ Unanswered /\ mesh' = mesh
      /\ work.dest \in air.resolved
      /\ AirFields \subseteq DOMAIN air
  BY DEF ReportInv, QueryLost, Unanswered, CollectInv, CollectTypes
<1>1. PICK D :
        /\ air' = [air EXCEPT !.faults = @ + 1, !.dropped = D]
        /\ D = IF work.primed /\ Len(Batch) = 1
               THEN air.dropped \cup {<<work.dest, t>> : t \in Ask} ELSE air.dropped
  BY DEF QueryLost
<1>2. /\ AirFields \subseteq DOMAIN air'
      /\ air'.left = air.left /\ air'.dropped = D /\ air'.faults = air.faults + 1
      /\ air'.resolved = air.resolved /\ air.dropped \subseteq D
  BY <1>0, <1>1 DEF AirFields
<1>3. Stays(work.dest) /\ ~work.primed =>
        work.tries + 1 <= air'.faults + (IF work.dest \in air'.resolved THEN 1 ELSE 0)
  <2> SUFFICES ASSUME Stays(work.dest), ~work.primed
               PROVE  work.tries + 1 <= air'.faults + 1
    BY <1>0, <1>2
  <2>1. work.tries <= air.faults + 1
    BY <1>0 DEF CollectInv, Progress
  <2> QED
    BY <1>2, <2>1
<1>4. Stays(work.dest) /\ work.primed /\ ~(Len(Batch) > 1) =>
        \A t \in Ask : t \notin Owed(work.dest, work.tlvs)'
  <2> SUFFICES ASSUME work.primed, ~(Len(Batch) > 1), NEW t \in Ask
               PROVE  t \notin Owed(work.dest, work.tlvs)'
    OBVIOUS
  <2>1. Len(Batch) = 1
    BY <1>0, LoneBatch
  <2>2. <<work.dest, t>> \in D
    BY <1>1, <2>1
  <2>3. work'.dest = work.dest
    BY <1>0 DEF Unanswered, CollectInv, CollectTypes, WorkFields
  <2> QED
    BY <1>2, <2>2, <2>3 DEF Owed
<1>5. air.faults <= air'.faults /\ air'.faults \in Nat
  BY <1>2
<1> QED
  BY <1>0, <1>2, <1>3, <1>4, <1>5, UnansweredReports

(* A node that leaves is owed nothing any more.                              *)
LEMMA LeavesReports ==
    ASSUME ReportInv, NodeLeaves, air.faults \in Nat, work.tries \in Nat
    PROVE  ReportInv'
<1>0. /\ MeshInv /\ CollectInv /\ Recorded(walk) /\ Drawn(walk) /\ StageInv
      /\ Walking /\ AirFields \subseteq DOMAIN air
      /\ UNCHANGED <<pc, session, elapsed, work, walk, outcome, mesh>>
  BY DEF ReportInv, NodeLeaves, CollectInv, CollectTypes, Walking
<1>1. PICK r : air' = [air EXCEPT !.left = @ \cup {r}, !.faults = @ + 1]
  BY DEF NodeLeaves
<1>2. /\ AirFields \subseteq DOMAIN air'
      /\ air.left \subseteq air'.left /\ air'.dropped = air.dropped
      /\ air'.faults = air.faults + 1 /\ air'.resolved = air.resolved
  BY <1>0, <1>1 DEF AirFields
<1>3. air.faults <= air'.faults /\ air'.faults \in Nat
  BY <1>2
<1>4. /\ \A x : Stays(x)' => Stays(x)
      /\ \A x, l : Owed(x, l)' \subseteq Owed(x, l)
      /\ \A x : Target(x)' = Target(x)
  BY <1>0, <1>2, AirWorsens
<1>5. Progress'
  <2> SUFFICES ASSUME Stays(work.dest)'
               PROVE  IF work.primed
                      THEN Owed(work.dest, work.tlvs)' \subseteq Asked(work.stack) \cup DOMAIN work.merged
                      ELSE work.tries <= air'.faults + (IF work.dest \in air'.resolved THEN 1 ELSE 0)
    BY <1>0 DEF Progress
  <2>1. Stays(work.dest)
    BY <1>0, <1>4 DEF Stays
  <2>2. CASE ~work.primed
    <3>1. work.tries <= air.faults + (IF work.dest \in air.resolved THEN 1 ELSE 0)
      BY <1>0, <2>1, <2>2 DEF CollectInv, Progress
    <3> QED
      BY <1>2, <2>2, <3>1
  <2>3. CASE work.primed
    <3>1. Owed(work.dest, work.tlvs)' \subseteq Owed(work.dest, work.tlvs)
      BY <1>0, <1>4 DEF Owed
    <3> QED
      BY <1>0, <2>1, <2>3, <3>1 DEF CollectInv, Progress
  <2> QED
    BY <2>2, <2>3
<1>6. CollectInv'
  <2>1. CollectTypes'
    BY <1>0, <1>2 DEF CollectInv, CollectTypes, Walking
  <2>2. Truthful(Target(work.dest), work.merged)'
    BY <1>0, <1>4 DEF CollectInv, Truthful, Target
  <2>3. (pc = "wait" => ~Collected)'
    BY <1>0 DEF CollectInv, Collected
  <2> QED
    BY <1>0, <1>2, <1>5, <2>1, <2>2, <2>3 DEF CollectInv
<1>7. Recorded(walk)' /\ Drawn(walk)'
  BY <1>0, <1>2, <1>3, RecordsKept, DrawnKept
<1>8. StageInv'
  <2>1. Walking'
    BY <1>0 DEF Walking
  <2> QED
    BY <1>0, <1>2, <1>3, <2>1, StageKept
<1> QED
  BY <1>0, <1>6, <1>7, <1>8 DEF ReportInv, MeshInv

===============================================================================
