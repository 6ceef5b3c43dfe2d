------------------------- MODULE NetdiagReportProofs --------------------------
(***************************************************************************)
(* What ot-netdiag promises its user, for every mesh and any losses:       *)
(* whoever stays in the mesh is in the report with all it can answer, and  *)
(* the snapshot of the whole mesh hangs together.                          *)
(***************************************************************************)
EXTENDS NetdiagProofs

\* The obligations of this module carry a large context, which Zenon takes better than
\* SMT, and whose translation for SMT may take more than one attempt.
USE ZenonT(5), SMTT(30), ZenonT(25), SMTT(20), SMTT(25)

-----------------------------------------------------------------------------
(* The lists of routers and children.                                        *)

(* Ascending, for RLOC16s.                                                   *)
LEMMA RlocsInOrder ==
    ASSUME NEW S, S \subseteq Rlocs
    PROVE  /\ Ascending(S) \in Seq(S)
           /\ Range(Ascending(S)) = S
           /\ Distinct(Ascending(S))
<1>1. PICK b \in Nat : Rlocs \subseteq 0..b
  BY RlocNumbers
<1>2. S \in SUBSET (0..b)
  BY <1>1
<1> QED
  BY <1>2, AscendingLists

(* The walk visits the listed routers and the leader, each once.             *)
LEMMA RoutersListed ==
    ASSUME NEW r \in RouterRlocSet, NEW d, SoundTlvs(r, d), LeaderRloc(d) # -1
    PROVE  /\ RouterRlocs(d) \in Seq(RouterRlocSet) \ {<<>>}
           /\ Distinct(RouterRlocs(d))
           /\ LeaderRloc(d) \in RouterRlocSet /\ LeaderRloc(d) \in Range(RouterRlocs(d))
<1> DEFINE listed == IF "ROUTE64" \in DOMAIN d THEN {RouterRloc(e.id) : e \in d["ROUTE64"]} ELSE {}
           leader == LeaderRloc(d)
           asc == Ascending(listed)
<1>1. listed \subseteq RouterRlocSet
  BY ListedRouters
<1>2. leader \in RouterRlocSet
  BY LeaderKnown
<1>3. RouterRlocs(d) = IF leader \in listed THEN asc ELSE Append(asc, leader)
  BY DEF RouterRlocs
<1> HIDE DEF listed, leader
<1>4. asc \in Seq(listed) /\ Range(asc) = listed /\ Distinct(asc)
  <2>1. listed \subseteq Rlocs
    BY <1>1, RouterRlocs16
  <2> QED
    BY <2>1, RlocsInOrder
<1> HIDE DEF asc
<1>5. asc \in Seq(RouterRlocSet)
  BY <1>1, <1>4
<1>6. CASE leader \in listed
  <2>1. asc # <<>>
    BY <1>4, <1>6, NothingAsked
  <2> QED
    BY <1>2, <1>3, <1>4, <1>5, <1>6, <2>1 DEF leader
<1>7. CASE leader \notin listed
  <2>1. Append(asc, leader) \in Seq(RouterRlocSet) /\ Range(Append(asc, leader)) = Range(asc) \cup {leader}
    BY <1>2, <1>5, RangeOfAppend
  <2>2. /\ Len(Append(asc, leader)) = Len(asc) + 1 /\ Len(asc) \in Nat
        /\ \A i \in 1..Len(asc) : Append(asc, leader)[i] = asc[i]
        /\ Append(asc, leader)[Len(asc) + 1] = leader
    BY <1>2, <1>5, AppendProperties
  <2>3. Append(asc, leader) # <<>>
    BY <2>2
  <2>4. \A i \in 1..Len(asc) : asc[i] \in listed
    BY <1>4
  <2>5. Distinct(Append(asc, leader))
    <3> SUFFICES ASSUME NEW i \in 1..(Len(asc) + 1), NEW j \in 1..(Len(asc) + 1),
                        Append(asc, leader)[i] = Append(asc, leader)[j]
                 PROVE  i = j
      BY <2>1, <2>2 DEF Distinct
    <3>1. (i \in 1..Len(asc) \/ i = Len(asc) + 1) /\ (j \in 1..Len(asc) \/ j = Len(asc) + 1)
      BY <2>2
    <3>2. DOMAIN asc = 1..Len(asc)
      BY <1>5
    <3> QED
      BY <1>4, <1>7, <2>2, <2>4, <3>1, <3>2 DEF Distinct
  <2> QED
    BY <1>2, <1>3, <1>7, <2>1, <2>3, <2>5 DEF leader
<1> QED
  BY <1>6, <1>7

(* The rest of a list of nodes to visit.                                     *)
LEMMA RestOfList ==
    ASSUME NEW S, NEW q \in Seq(S), q # <<>>
    PROVE  /\ Tail(q) \in Seq(S) /\ Head(q) \in S
           /\ Range(q) = {Head(q)} \cup Range(Tail(q))
           /\ Distinct(q) => Distinct(Tail(q)) /\ Head(q) \notin Range(Tail(q))
<1>1. /\ Tail(q) \in Seq(S) /\ Head(q) = q[1] /\ Head(q) \in S
      /\ Len(q) \in Nat /\ Len(q) >= 1 /\ Len(Tail(q)) = Len(q) - 1
      /\ \A i \in 1..(Len(q) - 1) : Tail(q)[i] = q[i + 1]
  BY HeadTailProperties
<1>2. Range(q) = {q[i] : i \in 1..Len(q)} /\ Range(Tail(q)) = {Tail(q)[i] : i \in 1..(Len(q) - 1)}
  BY <1>1, RangeIsValues
<1>3. /\ \A i \in 1..Len(q) : i = 1 \/ (i - 1 \in 1..(Len(q) - 1) /\ (i - 1) + 1 = i)
      /\ \A i \in 1..(Len(q) - 1) : i + 1 \in 1..Len(q) /\ i + 1 # 1
      /\ 1 \in 1..Len(q)
  BY <1>1
<1>4. Range(q) = {Head(q)} \cup Range(Tail(q))
  <2>1. \A i \in 1..Len(q) : q[i] \in {Head(q)} \cup Range(Tail(q))
    BY <1>1, <1>2, <1>3
  <2>2. \A i \in 1..(Len(q) - 1) : Tail(q)[i] \in Range(q)
    BY <1>1, <1>2, <1>3
  <2>3. Head(q) \in Range(q)
    BY <1>1, <1>2, <1>3
  <2> QED
    BY <1>2, <2>1, <2>2, <2>3
<1>5. ASSUME Distinct(q) PROVE Distinct(Tail(q)) /\ Head(q) \notin Range(Tail(q))
  <2>1. \A i, j \in 1..Len(q) : q[i] = q[j] => i = j
    BY <1>5 DEF Distinct
  <2>2. Head(q) \notin Range(Tail(q))
    <3> SUFFICES ASSUME NEW i \in 1..(Len(q) - 1), Head(q) = Tail(q)[i] PROVE FALSE
      BY <1>2
    <3> QED
      BY <1>1, <1>3, <2>1
  <2>3. DOMAIN Tail(q) = 1..(Len(q) - 1)
    BY <1>1
  <2>4. \A i, j \in 1..(Len(q) - 1) : Tail(q)[i] = Tail(q)[j] => i = j
    <3> SUFFICES ASSUME NEW i \in 1..(Len(q) - 1), NEW j \in 1..(Len(q) - 1), Tail(q)[i] = Tail(q)[j]
                 PROVE  i = j
      OBVIOUS
    <3>1. q[i + 1] = q[j + 1] /\ i + 1 \in 1..Len(q) /\ j + 1 \in 1..Len(q)
      BY <1>1, <1>3
    <3>2. i + 1 = j + 1
      BY <2>1, <3>1
    <3> QED
      BY <1>1, <3>2
  <2> QED
    BY <2>2, <2>3, <2>4 DEF Distinct
<1> QED
  BY <1>1, <1>4, <1>5

(* What a finished collect_diag has: all that a node owes, or a reason for   *)
(* its silence.                                                              *)
LEMMA CollectedAll ==
    ASSUME ReportInv, Collected, air.faults \in Nat
    PROVE  /\ work.primed /\ Stays(work.dest) =>
                \A t \in Owed(work.dest, work.tlvs) :
                  t \in DOMAIN work.merged /\ work.merged[t] = mesh.nodes[work.dest].tlvs[t]
           /\ ~work.primed => ~Stays(work.dest) \/ air.faults > 2
           /\ SoundTlvs(Target(work.dest), work.merged)
           /\ DOMAIN work.merged \subseteq Range(work.tlvs)
<1>0. MeshInv /\ CollectInv
  BY DEF ReportInv
<1>1. ASSUME work.primed, Stays(work.dest), NEW t \in Owed(work.dest, work.tlvs)
      PROVE  t \in DOMAIN work.merged /\ work.merged[t] = mesh.nodes[work.dest].tlvs[t]
  <2>1. Target(work.dest) = work.dest
    BY <1>0, <1>1, StaysAtItself
  <2>2. Asked(work.stack) = {}
    BY <1>1, NothingAsked DEF Collected
  <2>3. t \in DOMAIN work.merged
    BY <1>0, <1>1, <2>2 DEF CollectInv, Progress
  <2>4. Truthful(work.dest, work.merged)
    BY <1>0, <2>1 DEF CollectInv
  <2> QED
    BY <2>3, <2>4 DEF Truthful
<1>2. ASSUME ~work.primed, Stays(work.dest)
      PROVE  air.faults > 2
  <2>1. work.tries = 4
    BY <1>2 DEF Collected, PRIME_ATTEMPTS
  <2>2. work.tries <= air.faults + (IF work.dest \in air.resolved THEN 1 ELSE 0)
    BY <1>0, <1>2 DEF CollectInv, Progress
  <2> QED
    BY <2>1, <2>2
<1>3. SoundTlvs(Target(work.dest), work.merged)
  BY <1>0, SoundAnswers DEF CollectInv
<1> QED
  BY <1>0, <1>1, <1>2, <1>3 DEF CollectInv

(* The loop over the children, and its end.                                  *)
LEMMA ChildrenReport ==
    ASSUME NEW w, VisitRest(w), air' = air, mesh' = mesh,
           AirFields \subseteq DOMAIN air, air.faults \in Nat, MeshInv, outcome = "none",
           Recorded(w), Snapshot(w), w.stage = "children", w.cmd = WholeMesh,
           w.todo \in Seq(DOMAIN w.nodes \ RouterRlocSet)
    PROVE  ReportInv'
<1>1. CASE w.todo # <<>>
  <2>1. Visit(w, Head(w.todo), CHILD_TLVS)
    BY <1>1 DEF VisitRest
  <2>2. CHILD_TLVS \in Lists
    BY DEF Lists
  <2>3. AtStage(w, Head(w.todo), CHILD_TLVS)
    BY <1>1 DEF AtStage
  <2>4. Drawn(w)
    BY DEF Drawn
  <2> QED
    BY <2>1, <2>2, <2>3, <2>4, VisitReports
<1>2. CASE w.todo = <<>>
  <2> DEFINE v == [w EXCEPT !.stage = "done"]
  <2>1. Finish(w)
    BY <1>2 DEF VisitRest
  <2>2. /\ WalkFields \subseteq DOMAIN v /\ "stage" \in DOMAIN w
        /\ v.stage = "done" /\ v.todo = w.todo /\ v.nodes = w.nodes /\ v.answers = w.answers
        /\ v.leader = w.leader
    BY DEF Recorded, WalkFields
  <2> HIDE DEF v
  <2>3. Range(w.todo) = {}
    BY <1>2, NothingAsked
  <2>4. Recorded(v)
    BY <2>2, <2>3 DEF Recorded, Excused
  <2>5. Drawn(v)
    BY <2>2 DEF Drawn, Snapshot, RouterRecord, ChildRecord
  <2> QED
    BY <1>2, <2>1, <2>2, <2>4, <2>5, FinishReports DEF v
<1> QED
  BY <1>1, <1>2

(* Discovery: the leader is known and the list of routers starts.            *)
LEMMA LeaderReports ==
    ASSUME ReportInv, pc = "send", Collected, walk.stage = "discover", LeaderRloc(work.merged) # -1,
           LeaderFound, air' = air, mesh' = mesh, air.faults \in Nat
    PROVE  ReportInv'
<1> DEFINE d == work.merged
           w == [walk EXCEPT !.stage = "routers", !.discovery = d,
                             !.leader = LeaderRloc(d), !.todo = RouterRlocs(d)]
<1>0. /\ MeshInv /\ CollectInv /\ Recorded(walk) /\ StageInv /\ Walking
      /\ AirFields \subseteq DOMAIN air /\ WalkFields \subseteq DOMAIN walk
  BY DEF ReportInv, CollectInv, CollectTypes, Recorded, Walking
<1>1. /\ walk.cmd = WholeMesh /\ Empty(walk) /\ work.dest = LEADER_ALOC16 /\ outcome = "none"
  BY <1>0 DEF StageInv, AtStage
<1>2. mesh.leader \in RouterRlocSet /\ SoundTlvs(mesh.leader, d)
  <2>1. Target(work.dest) = mesh.leader
    BY <1>1 DEF Target
  <2> QED
    BY <1>0, <2>1, CollectedAll, SoundMeshes DEF MeshInv
<1>3. /\ RouterRlocs(d) \in Seq(RouterRlocSet) \ {<<>>}
      /\ Distinct(RouterRlocs(d))
      /\ LeaderRloc(d) \in RouterRlocSet /\ LeaderRloc(d) \in Range(RouterRlocs(d))
  BY <1>2, RoutersListed
<1>4. VisitRest(w)
  BY DEF LeaderFound
<1>5. /\ WalkFields \subseteq DOMAIN w
      /\ w.cmd = WholeMesh /\ w.stage = "routers" /\ w.leader = LeaderRloc(d)
      /\ w.todo = RouterRlocs(d) /\ w.nodes = EmptyDiag /\ w.answers = EmptyDiag
  BY <1>0, <1>1 DEF WalkFields, Empty
<1> HIDE DEF w
<1>6. Visit(w, Head(w.todo), ROUTER_TLVS)
  BY <1>3, <1>4, <1>5 DEF VisitRest
<1>7. DOMAIN w.nodes = {} /\ DOMAIN w.answers = {}
  BY <1>5, NothingAsked
<1>8. Recorded(w)
  BY <1>5, <1>7 DEF Recorded
<1>9. Drawn(w)
  BY <1>3, <1>5, <1>7 DEF Drawn, Snapshot
<1>10. AtStage(w, Head(w.todo), ROUTER_TLVS) /\ ROUTER_TLVS \in Lists
  BY <1>3, <1>5, <1>7 DEF AtStage, Lists
<1> QED
  BY <1>0, <1>1, <1>6, <1>8, <1>9, <1>10, VisitReports

-----------------------------------------------------------------------------
(* The routers, the children, and the report of one node.                    *)

(* The record that a router's collect_diag leaves.                           *)
RecordOf(n, r, leader, found, data) ==
    /\ NodeFields = DOMAIN n
    /\ n.role = IF r = leader THEN "leader" ELSE "router"
    /\ found => /\ n.discovery = "direct"
                /\ DOMAIN n.data = DOMAIN data \ NotStored
                /\ \A t \in DOMAIN data \ NotStored : n.data[t] = data[t]
                /\ n.children = ChildRlocs(r, data) /\ n.routes = RoutesOf(r, data)
    /\ ~found => /\ n.discovery = "unreachable"
                 /\ n.children = {} /\ n.routes = {}

(* It is complete, and its children are those of the router's answer.        *)
LEMMA RouterRecorded ==
    ASSUME NEW r \in RouterRlocSet, NEW leader, NEW found \in BOOLEAN, NEW data
    PROVE  RecordOf(RouterNode(r, leader, found, data), r, leader, found, data)
<1> DEFINE role == IF r = leader THEN "leader" ELSE "router"
<1>1. RouterRloc(RouterId(r)) = r
  BY RouterRlocs16
<1>2. RouterNode(r, leader, found, data)
        = IF found THEN FromDiag(r, role, data) ELSE Unreachable(r, role)
  BY DEF RouterNode
<1> HIDE DEF role
<1>3. CASE found
  BY <1>1, <1>2, <1>3, DirectFields DEF role, RecordOf
<1>4. CASE ~found
  BY <1>2, <1>4, UnreachableFields DEF role, RecordOf
<1> QED
  BY <1>3, <1>4

AfterRouter(w) ==
    /\ WalkFields \subseteq DOMAIN w
    /\ w.cmd = walk.cmd /\ w.stage = walk.stage /\ w.leader = walk.leader
    /\ w.todo = Tail(walk.todo)
    /\ w.nodes = Insert(walk.nodes, work.dest,
                        RouterNode(work.dest, walk.leader, work.primed, work.merged))
    /\ w.answers = IF work.primed THEN Insert(walk.answers, work.dest, work.merged)
                   ELSE walk.answers

(* A router is done: its record and its answer join the walk's.              *)
LEMMA RouterJoins ==
    ASSUME ReportInv, pc = "send", Collected, walk.stage = "routers", air.faults \in Nat,
           NEW w, AfterRouter(w)
    PROVE  /\ w.cmd = WholeMesh /\ w.stage = "routers" /\ outcome = "none"
           /\ w.todo \in Seq(RouterRlocSet)
           /\ Distinct(w.todo) /\ Range(w.todo) \cap DOMAIN w.nodes = {}
           /\ Recorded(w) /\ Snapshot(w)
<1> DEFINE n == RouterNode(work.dest, walk.leader, work.primed, work.merged)
           N == Insert(walk.nodes, work.dest, n)
           A == IF work.primed THEN Insert(walk.answers, work.dest, work.merged) ELSE walk.answers
<1>0. /\ MeshInv /\ CollectInv /\ Recorded(walk) /\ Drawn(walk) /\ StageInv /\ Walking
      /\ AirFields \subseteq DOMAIN air /\ WalkFields \subseteq DOMAIN walk
      /\ work.primed \in BOOLEAN
  BY DEF ReportInv, CollectInv, CollectTypes, Recorded, Walking
<1>1. /\ walk.cmd = WholeMesh /\ outcome = "none"
      /\ walk.todo \in Seq(RouterRlocSet) /\ walk.todo # <<>>
      /\ Distinct(walk.todo) /\ Range(walk.todo) \cap DOMAIN walk.nodes = {}
      /\ work.dest = Head(walk.todo) /\ work.tlvs = ROUTER_TLVS
  BY <1>0 DEF StageInv, AtStage
<1>2. Snapshot(walk)
  BY <1>0, <1>1 DEF Drawn
<1>3. /\ work.dest \in RouterRlocSet /\ Tail(walk.todo) \in Seq(RouterRlocSet)
      /\ Range(walk.todo) = {work.dest} \cup Range(Tail(walk.todo))
      /\ Distinct(Tail(walk.todo)) /\ work.dest \notin Range(Tail(walk.todo))
  BY <1>1, RestOfList
<1>4. /\ WalkFields \subseteq DOMAIN w
      /\ w.cmd = walk.cmd /\ w.stage = "routers" /\ w.leader = walk.leader
      /\ w.todo = Tail(walk.todo) /\ w.nodes = N /\ w.answers = A
  BY DEF AfterRouter
<1>5. /\ NodeFields = DOMAIN n
      /\ n.role = IF work.dest = walk.leader THEN "leader" ELSE "router"
      /\ work.primed => /\ n.discovery = "direct"
                        /\ DOMAIN n.data = DOMAIN work.merged \ NotStored
                        /\ \A t \in DOMAIN work.merged \ NotStored : n.data[t] = work.merged[t]
                        /\ n.children = ChildRlocs(work.dest, work.merged)
                        /\ n.routes = RoutesOf(work.dest, work.merged)
      /\ ~work.primed => /\ n.discovery = "unreachable"
                         /\ n.children = {} /\ n.routes = {}
  <2>1. RecordOf(n, work.dest, walk.leader, work.primed, work.merged)
    BY <1>0, <1>3, RouterRecorded
  <2> HIDE DEF n
  <2> QED
    BY <2>1 DEF RecordOf
<1> HIDE DEF n
<1>6. /\ DOMAIN N = DOMAIN walk.nodes \cup {work.dest} /\ N[work.dest] = n
      /\ \A k \in DOMAIN walk.nodes : k # work.dest /\ N[k] = walk.nodes[k]
  <2>1. work.dest \notin DOMAIN walk.nodes
    BY <1>1, <1>3
  <2>2. DOMAIN N = DOMAIN walk.nodes \cup {work.dest}
    BY InsertedKeys
  <2>3. N[work.dest] = n
    BY InsertedValue
  <2>4. \A k \in DOMAIN walk.nodes \ {work.dest} : N[k] = walk.nodes[k]
    BY InsertedRest
  <2> HIDE DEF N
  <2> QED
    BY <2>1, <2>2, <2>3, <2>4
<1> HIDE DEF N
<1>7. /\ work.dest \notin DOMAIN walk.answers
      /\ work.primed => /\ DOMAIN A = DOMAIN walk.answers \cup {work.dest}
                        /\ A[work.dest] = work.merged
                        /\ \A k \in DOMAIN walk.answers : A[k] = walk.answers[k]
      /\ ~work.primed => A = walk.answers
  <2>1. work.dest \notin DOMAIN walk.answers
    BY <1>1, <1>2, <1>3 DEF Snapshot
  <2> DEFINE I == Insert(walk.answers, work.dest, work.merged)
  <2>2. DOMAIN I = DOMAIN walk.answers \cup {work.dest}
    BY InsertedKeys
  <2>4. I[work.dest] = work.merged
    BY InsertedValue
  <2>5. \A k \in DOMAIN walk.answers \ {work.dest} : I[k] = walk.answers[k]
    BY InsertedRest
  <2>3. (work.primed => A = I) /\ (~work.primed => A = walk.answers)
    OBVIOUS
  <2> HIDE DEF I, A
  <2> QED
    BY <2>1, <2>2, <2>3, <2>4, <2>5
<1> HIDE DEF A
<1>8. /\ work.primed /\ Stays(work.dest) =>
           \A t \in Owed(work.dest, work.tlvs) :
             t \in DOMAIN work.merged /\ work.merged[t] = mesh.nodes[work.dest].tlvs[t]
      /\ ~work.primed => ~Stays(work.dest) \/ air.faults > 2
      /\ SoundTlvs(work.dest, work.merged)
  <2>1. Target(work.dest) = work.dest
    BY <1>3, RouterRlocs16, RlocNumbers DEF Target
  <2> QED
    BY <2>1, CollectedAll
<1>9. Recorded(w)
  <2>1. ASSUME NEW r \in DOMAIN walk.nodes
        PROVE  NodeFields \subseteq DOMAIN N[r] /\ Complete(r, N[r]) /\ Excused(w, r)
    BY <1>0, <1>4, <1>6, <2>1 DEF Recorded, Excused
  <2>2. TlvsOf(work.dest) = work.tlvs
    BY <1>1, <1>3, RouterRlocs16 DEF TlvsOf
  <2>3. Complete(work.dest, n)
    BY <1>5, <1>8, <2>2 DEF Complete
  <2>4. Excused(w, work.dest)
    BY <1>0, <1>4, <1>5, <1>6, <1>8 DEF Excused
  <2> QED
    BY <1>4, <1>5, <1>6, <2>1, <2>3, <2>4 DEF Recorded
<1>10. Snapshot(w)
  <2>1. DOMAIN A \subseteq DOMAIN N \cap RouterRlocSet
    BY <1>0, <1>2, <1>3, <1>6, <1>7 DEF Snapshot
  <2>2. \A p \in DOMAIN A : SoundTlvs(p, A[p])
    BY <1>0, <1>2, <1>7, <1>8 DEF Snapshot
  <2>3. ASSUME NEW r \in DOMAIN walk.nodes
        PROVE  r \in RouterRlocSet /\ RouterRecord(w, r)
    <3>1. r \in RouterRlocSet /\ RouterRecord(walk, r)
      BY <1>2, <1>4 DEF Snapshot
    <3>2. /\ r \in DOMAIN A <=> r \in DOMAIN walk.answers
          /\ r \in DOMAIN A => A[r] = walk.answers[r]
      BY <1>0, <1>6, <1>7
    <3> QED
      BY <1>4, <1>6, <3>1, <3>2 DEF RouterRecord
  <2>4. RouterRecord(w, work.dest)
    <3>1. CASE work.primed
      BY <1>4, <1>5, <1>6, <1>7, <3>1 DEF RouterRecord
    <3>2. CASE ~work.primed
      BY <1>4, <1>5, <1>6, <1>7, <3>2 DEF RouterRecord
    <3> QED
      BY <3>1, <3>2
  <2>5. w.leader \in RouterRlocSet /\ w.leader \in DOMAIN N \cup Range(w.todo)
    BY <1>2, <1>3, <1>4, <1>6 DEF Snapshot
  <2> QED
    BY <1>3, <1>4, <1>6, <2>1, <2>2, <2>3, <2>4, <2>5 DEF Snapshot
<1> QED
  BY <1>1, <1>3, <1>4, <1>6, <1>9, <1>10

WithChildren(w, v) ==
    /\ WalkFields \subseteq DOMAIN v
    /\ v.cmd = w.cmd /\ v.stage = "children" /\ v.leader = w.leader /\ v.answers = w.answers
    /\ v.todo = Ascending(DOMAIN ChildrenOf(w.answers))
    /\ v.nodes = Extend(w.nodes, ChildrenOf(w.answers))

(* The last router: the children of all the answers join the walk.           *)
LEMMA ChildrenJoin ==
    ASSUME NEW w, w.stage = "routers", w.todo = <<>>, Recorded(w), Snapshot(w),
           NEW v, WithChildren(w, v)
    PROVE  /\ v.stage = "children" /\ v.cmd = w.cmd
           /\ v.todo \in Seq(DOMAIN v.nodes \ RouterRlocSet)
           /\ Recorded(v) /\ Snapshot(v)
<1> DEFINE c == ChildrenOf(w.answers)
           N == Extend(w.nodes, c)
           q == Ascending(DOMAIN c)
<1>1. /\ DOMAIN c = UNION {ChildRlocs(p, w.answers[p]) : p \in DOMAIN w.answers}
      /\ \A r \in DOMAIN c :
           /\ r \in Rlocs /\ IsChild(r) /\ r \notin RouterRlocSet
           /\ NodeFields = DOMAIN c[r]
           /\ c[r].role = "child" /\ c[r].discovery = "parent-table"
           /\ c[r].parent \in DOMAIN w.answers
           /\ r \in ChildRlocs(c[r].parent, w.answers[c[r].parent])
           /\ c[r].routes = {} /\ c[r].children = {}
  <2>1. \A p \in DOMAIN w.answers : p \in RouterRlocSet /\ Table(w.answers[p]) \subseteq ChildIds
    BY SoundChildren DEF Snapshot
  <2> QED
    BY <2>1, ChildrenFields
<1> HIDE DEF c
<1>2. q \in Seq(DOMAIN c) /\ Range(q) = DOMAIN c
  <2>1. DOMAIN c \subseteq Rlocs
    BY <1>1
  <2> QED
    BY <2>1, RlocsInOrder
<1>3. /\ DOMAIN N = DOMAIN w.nodes \cup DOMAIN c
      /\ \A k \in DOMAIN c : N[k] = c[k]
      /\ \A k \in DOMAIN w.nodes \ DOMAIN c : N[k] = w.nodes[k]
  BY Extended
<1>4. /\ WalkFields \subseteq DOMAIN v
      /\ v.cmd = w.cmd /\ v.stage = "children" /\ v.leader = w.leader
      /\ v.todo = q /\ v.nodes = N /\ v.answers = w.answers
  BY DEF WithChildren, c
<1> HIDE DEF N, q
<1>5. \A r \in DOMAIN w.nodes : r \in RouterRlocSet /\ r \notin DOMAIN c /\ RouterRecord(w, r)
  BY <1>1 DEF Snapshot
<1>6. v.todo \in Seq(DOMAIN v.nodes \ RouterRlocSet)
  <2>1. DOMAIN c \subseteq DOMAIN v.nodes \ RouterRlocSet
    BY <1>1, <1>3, <1>4
  <2> QED
    BY <1>2, <1>4, <2>1
<1>7. Recorded(v)
  <2>1. ASSUME NEW r \in DOMAIN w.nodes
        PROVE  NodeFields \subseteq DOMAIN N[r] /\ Complete(r, N[r]) /\ Excused(v, r)
    BY <1>3, <1>4, <1>5 DEF Recorded, Excused
  <2>2. ASSUME NEW r \in DOMAIN c
        PROVE  NodeFields \subseteq DOMAIN N[r] /\ Complete(r, N[r]) /\ Excused(v, r)
    BY <1>1, <1>2, <1>3, <1>4 DEF Complete, Excused
  <2> QED
    BY <1>3, <1>4, <2>1, <2>2 DEF Recorded
<1>8. Snapshot(v)
  <2>1. ASSUME NEW r \in DOMAIN w.nodes
        PROVE  r \in RouterRlocSet /\ RouterRecord(v, r)
    BY <1>3, <1>4, <1>5 DEF RouterRecord
  <2>2. ASSUME NEW r \in DOMAIN c
        PROVE  r \notin RouterRlocSet /\ ChildRecord(v, r)
    BY <1>1, <1>3, <1>4 DEF ChildRecord
  <2>3. w.leader \in RouterRlocSet /\ w.leader \in DOMAIN w.nodes
    BY NothingAsked DEF Snapshot
  <2>4. DOMAIN w.answers \subseteq DOMAIN N \cap RouterRlocSet
    BY <1>3 DEF Snapshot
  <2>5. \A p \in DOMAIN w.answers : SoundTlvs(p, w.answers[p])
    BY DEF Snapshot
  <2>6. \A p \in DOMAIN w.answers : ChildRlocs(p, w.answers[p]) \subseteq DOMAIN N
    BY <1>1, <1>3
  <2> QED
    BY <1>3, <1>4, <2>1, <2>2, <2>3, <2>4, <2>5, <2>6 DEF Snapshot
<1> QED
  BY <1>4, <1>6, <1>7, <1>8

(* The loop over the routers, and its end.                                   *)
LEMMA RouterReports ==
    ASSUME ReportInv, pc = "send", Collected, walk.stage = "routers", RouterDone,
           air' = air, mesh' = mesh, air.faults \in Nat
    PROVE  ReportInv'
<1> DEFINE w == [walk EXCEPT
                !.todo = Tail(@),
                !.nodes = Insert(@, work.dest,
                                 RouterNode(work.dest, walk.leader, work.primed, work.merged)),
                !.answers = IF work.primed THEN Insert(@, work.dest, work.merged) ELSE @]
           children == ChildrenOf(w.answers)
           v == [w EXCEPT !.stage = "children", !.todo = Ascending(DOMAIN children),
                          !.nodes = Extend(@, children)]
<1>0. /\ MeshInv /\ AirFields \subseteq DOMAIN air /\ WalkFields \subseteq DOMAIN walk
  BY DEF ReportInv, CollectInv, CollectTypes, Recorded
<1>1. IF w.todo # <<>> THEN VisitRest(w) ELSE VisitRest(v)
  BY DEF RouterDone
<1>2. AfterRouter(w)
  BY <1>0 DEF AfterRouter, WalkFields
<1> HIDE DEF w
<1>3. /\ w.cmd = WholeMesh /\ w.stage = "routers" /\ outcome = "none"
      /\ w.todo \in Seq(RouterRlocSet)
      /\ Distinct(w.todo) /\ Range(w.todo) \cap DOMAIN w.nodes = {}
      /\ Recorded(w) /\ Snapshot(w)
  BY <1>2, RouterJoins
<1>4. CASE w.todo # <<>>
  <2>1. Visit(w, Head(w.todo), ROUTER_TLVS)
    BY <1>1, <1>3, <1>4 DEF VisitRest
  <2>2. AtStage(w, Head(w.todo), ROUTER_TLVS) /\ ROUTER_TLVS \in Lists
    BY <1>3, <1>4 DEF AtStage, Lists
  <2>3. Drawn(w)
    BY <1>3 DEF Drawn
  <2> QED
    BY <1>0, <1>3, <2>1, <2>2, <2>3, VisitReports
<1>5. CASE w.todo = <<>>
  <2>1. VisitRest(v)
    BY <1>1, <1>5
  <2>2. WithChildren(w, v)
    <3> HIDE DEF children
    <3>1. WalkFields \subseteq DOMAIN w
      BY <1>3 DEF Recorded
    <3>2. /\ WalkFields \subseteq DOMAIN v
          /\ v.cmd = w.cmd /\ v.stage = "children" /\ v.leader = w.leader /\ v.answers = w.answers
          /\ v.todo = Ascending(DOMAIN children)
          /\ v.nodes = Extend(w.nodes, children)
      BY <3>1 DEF WalkFields
    <3> QED
      BY <3>2 DEF WithChildren, children
  <2> HIDE DEF v
  <2>3. /\ v.stage = "children" /\ v.cmd = w.cmd
        /\ v.todo \in Seq(DOMAIN v.nodes \ RouterRlocSet)
        /\ Recorded(v) /\ Snapshot(v)
    BY <1>3, <1>5, <2>2, ChildrenJoin
  <2> QED
    BY <1>0, <1>3, <2>1, <2>3, ChildrenReport
<1> QED
  BY <1>4, <1>5

AfterChild(w) ==
    /\ WalkFields \subseteq DOMAIN w
    /\ w.cmd = walk.cmd /\ w.stage = walk.stage /\ w.leader = walk.leader /\ w.answers = walk.answers
    /\ w.todo = Tail(walk.todo)
    /\ w.nodes = IF work.primed
                 THEN Insert(walk.nodes, work.dest, MergeDiag(walk.nodes[work.dest], work.merged))
                 ELSE walk.nodes

(* The record of a child that answered.                                      *)
ChildMerged(n, old, data) ==
    /\ DOMAIN n = DOMAIN old
    /\ n.role = old.role /\ n.parent = old.parent /\ n.discovery = "direct"
    /\ n.routes = old.routes /\ n.children = old.children
    /\ DOMAIN data \ NotStored \subseteq DOMAIN n.data
    /\ \A t \in DOMAIN data \ NotStored : n.data[t] = data[t]

(* Merging a child's answer keeps its place in the snapshot.                 *)
LEMMA ChildMerges ==
    ASSUME NEW old, NEW data, NodeFields \subseteq DOMAIN old,
           "ROUTE64" \notin DOMAIN data, "CHILD_TABLE" \notin DOMAIN data
    PROVE  ChildMerged(MergeDiag(old, data), old, data)
<1> DEFINE n == MergeDiag(old, data)
<1>1. /\ DOMAIN n = DOMAIN old
      /\ n.role = old.role /\ n.parent = old.parent /\ n.discovery = "direct"
      /\ n.routes = old.routes /\ n.children = old.children
      /\ n.data = MergeNetdiag(old.data, Stored(data))
  BY MergedFields
<1> HIDE DEF n
<1>2. /\ DOMAIN data \ NotStored \subseteq DOMAIN n.data
      /\ \A t \in DOMAIN data \ NotStored : n.data[t] = data[t]
  <2> DEFINE map == old.data
             new == Stored(data)
  <2>1. DOMAIN new = DOMAIN data \ NotStored /\ \A t \in DOMAIN new : new[t] = data[t]
    BY StoredFields
  <2>2. n.data = Extend(map, new)
    BY <1>1 DEF MergeNetdiag
  <2> HIDE DEF map, new
  <2>3. /\ DOMAIN Extend(map, new) = DOMAIN map \cup DOMAIN new
        /\ \A k \in DOMAIN new : Extend(map, new)[k] = new[k]
        /\ \A k \in DOMAIN map \ DOMAIN new : Extend(map, new)[k] = map[k]
    BY Extended
  <2> QED
    BY <2>1, <2>2, <2>3
<1> QED
  BY <1>1, <1>2 DEF ChildMerged, n

(* A child's list has neither of the tables.                                 *)
LEMMA ChildTlvs ==
    "ROUTE64" \notin Range(CHILD_TLVS) /\ "CHILD_TABLE" \notin Range(CHILD_TLVS)
<1>1. DOMAIN CHILD_TLVS = {1, 2, 3, 4, 5, 6, 7, 8, 9, 10, 11, 12}
  <2>1. CHILD_TLVS \in Seq(Tlvs) /\ Len(CHILD_TLVS) = 12
    BY DEF CHILD_TLVS, Tlvs
  <2>2. DOMAIN CHILD_TLVS = 1..12
    BY <2>1
  <2>3. 1..12 = {1, 2, 3, 4, 5, 6, 7, 8, 9, 10, 11, 12}
    BY SMT
  <2> QED
    BY <2>2, <2>3
<1>2. \A i \in {1, 2, 3, 4, 5, 6, 7, 8, 9, 10, 11, 12} :
        CHILD_TLVS[i] # "ROUTE64" /\ CHILD_TLVS[i] # "CHILD_TABLE"
  BY SMT DEF CHILD_TLVS
<1> QED
  BY <1>1, <1>2 DEF Range

(* A child is done.                                                          *)
LEMMA ChildJoins ==
    ASSUME ReportInv, pc = "send", Collected, walk.stage = "children", air.faults \in Nat,
           NEW w, AfterChild(w)
    PROVE  /\ w.cmd = WholeMesh /\ w.stage = "children" /\ outcome = "none"
           /\ w.todo \in Seq(DOMAIN w.nodes \ RouterRlocSet)
           /\ Recorded(w) /\ Snapshot(w)
<1> DEFINE d == work.dest
           N == w.nodes
<1>0. /\ MeshInv /\ CollectInv /\ Recorded(walk) /\ Drawn(walk) /\ StageInv /\ Walking
      /\ WalkFields \subseteq DOMAIN walk /\ work.primed \in BOOLEAN
  BY DEF ReportInv, CollectInv, CollectTypes, Recorded, Walking
<1>1. /\ walk.cmd = WholeMesh /\ outcome = "none"
      /\ walk.todo \in Seq(DOMAIN walk.nodes \ RouterRlocSet) /\ walk.todo # <<>>
      /\ d = Head(walk.todo) /\ work.tlvs = CHILD_TLVS
  BY <1>0 DEF StageInv, AtStage
<1>2. Snapshot(walk)
  BY <1>0, <1>1 DEF Drawn
<1>3. /\ d \in DOMAIN walk.nodes \ RouterRlocSet
      /\ Tail(walk.todo) \in Seq(DOMAIN walk.nodes \ RouterRlocSet)
      /\ Range(walk.todo) = {d} \cup Range(Tail(walk.todo))
  BY <1>1, RestOfList
<1>4. /\ work.primed /\ Stays(d) =>
           \A t \in Owed(d, work.tlvs) :
             t \in DOMAIN work.merged /\ work.merged[t] = mesh.nodes[d].tlvs[t]
      /\ ~work.primed => ~Stays(d) \/ air.faults > 2
      /\ DOMAIN work.merged \subseteq Range(work.tlvs)
  BY CollectedAll
<1>5. ChildMerged(MergeDiag(walk.nodes[d], work.merged), walk.nodes[d], work.merged)
  <2>1. "ROUTE64" \notin DOMAIN work.merged /\ "CHILD_TABLE" \notin DOMAIN work.merged
    BY <1>1, <1>4, ChildTlvs
  <2>2. NodeFields \subseteq DOMAIN walk.nodes[d]
    BY <1>0, <1>3 DEF Recorded
  <2> QED
    BY <2>1, <2>2, ChildMerges
<1>6. /\ DOMAIN N = DOMAIN walk.nodes
      /\ \A r \in DOMAIN walk.nodes : r # d => N[r] = walk.nodes[r]
      /\ work.primed => N[d] = MergeDiag(walk.nodes[d], work.merged)
      /\ ~work.primed => N[d] = walk.nodes[d]
  <2>1. CASE work.primed
    <3> DEFINE n == MergeDiag(walk.nodes[d], work.merged)
    <3>1. N = Insert(walk.nodes, d, n)
      BY <2>1 DEF AfterChild
    <3> HIDE DEF n, N
    <3>2. DOMAIN Insert(walk.nodes, d, n) = DOMAIN walk.nodes \cup {d}
      BY InsertedKeys
    <3>3. Insert(walk.nodes, d, n)[d] = n
      BY InsertedValue
    <3>4. \A k \in DOMAIN walk.nodes \ {d} : Insert(walk.nodes, d, n)[k] = walk.nodes[k]
      BY InsertedRest
    <3> QED
      BY <1>3, <2>1, <3>1, <3>2, <3>3, <3>4 DEF n
  <2>2. CASE ~work.primed
    <3>1. N = walk.nodes
      BY <2>2 DEF AfterChild
    <3> QED
      BY <2>2, <3>1
  <2> QED
    BY <2>1, <2>2
<1>7. /\ WalkFields \subseteq DOMAIN w
      /\ w.cmd = walk.cmd /\ w.stage = "children" /\ w.leader = walk.leader
      /\ w.answers = walk.answers /\ w.todo = Tail(walk.todo)
  BY DEF AfterChild
<1>8. IsChild(d)
  <2>1. ChildRecord(walk, d)
    BY <1>2, <1>3 DEF Snapshot
  <2>2. PICK p \in DOMAIN walk.answers : d \in ChildRlocs(p, walk.answers[p])
    BY <2>1 DEF ChildRecord
  <2>3. p \in RouterRlocSet /\ Table(walk.answers[p]) \subseteq ChildIds
    BY <1>2, SoundChildren DEF Snapshot
  <2>4. PICK c \in Table(walk.answers[p]) : d = ChildRloc(p, c)
    BY <2>2 DEF ChildRlocs
  <2> QED
    BY <2>3, <2>4, ChildRlocs16
<1> HIDE DEF N
<1>9. Recorded(w)
  <2>1. ASSUME NEW r \in DOMAIN walk.nodes, r # d
        PROVE  NodeFields \subseteq DOMAIN N[r] /\ Complete(r, N[r]) /\ Excused(w, r)
    <3>1. NodeFields \subseteq DOMAIN walk.nodes[r] /\ Complete(r, walk.nodes[r]) /\ Excused(walk, r)
      BY <1>0 DEF Recorded
    <3>2. r \in Range(walk.todo) => r \in Range(w.todo)
      BY <1>3, <1>7, <2>1
    <3> QED
      BY <1>6, <1>7, <2>1, <3>1, <3>2 DEF Excused, N
  <2>2. NodeFields \subseteq DOMAIN walk.nodes[d] /\ Complete(d, walk.nodes[d])
    BY <1>0, <1>3 DEF Recorded
  <2>3. ASSUME work.primed
        PROVE  NodeFields \subseteq DOMAIN N[d] /\ Complete(d, N[d]) /\ Excused(w, d)
    <3>1. ChildMerged(N[d], walk.nodes[d], work.merged)
      BY <1>5, <1>6, <2>3
    <3>2. TlvsOf(d) = work.tlvs
      BY <1>1, <1>8 DEF TlvsOf
    <3>3. Complete(d, N[d])
      BY <1>4, <2>3, <3>1, <3>2 DEF Complete, ChildMerged
    <3> QED
      BY <2>2, <3>1, <3>3 DEF ChildMerged, Excused, N
  <2>4. ASSUME ~work.primed
        PROVE  NodeFields \subseteq DOMAIN N[d] /\ Complete(d, N[d]) /\ Excused(w, d)
    BY <1>4, <1>6, <2>2, <2>4 DEF Excused
  <2> QED
    BY <1>0, <1>6, <1>7, <2>1, <2>3, <2>4 DEF Recorded, N
<1>10. Snapshot(w)
  <2>1. ASSUME NEW r \in DOMAIN walk.nodes, r \in RouterRlocSet
        PROVE  RouterRecord(w, r)
    <3>1. RouterRecord(walk, r) /\ r # d
      BY <1>2, <1>3, <2>1 DEF Snapshot
    <3> QED
      BY <1>6, <1>7, <3>1 DEF RouterRecord, N
  <2>2. ASSUME NEW r \in DOMAIN walk.nodes, r \notin RouterRlocSet
        PROVE  ChildRecord(w, r)
    <3>1. ChildRecord(walk, r)
      BY <1>2, <2>2 DEF Snapshot
    <3>2. /\ N[r].role = walk.nodes[r].role /\ N[r].parent = walk.nodes[r].parent
          /\ N[r].routes = walk.nodes[r].routes /\ N[r].children = walk.nodes[r].children
      BY <1>0, <1>5, <1>6 DEF ChildMerged
    <3> QED
      BY <1>7, <3>1, <3>2 DEF ChildRecord, N
  <2> QED
    BY <1>2, <1>6, <1>7, <2>1, <2>2 DEF Snapshot, N
<1> QED
  BY <1>1, <1>3, <1>6, <1>7, <1>9, <1>10 DEF N

(* A child is done, and the next one is due or the walk ends.                *)
LEMMA ChildReports ==
    ASSUME ReportInv, pc = "send", Collected, walk.stage = "children", ChildDone,
           air' = air, mesh' = mesh, air.faults \in Nat
    PROVE  ReportInv'
<1> DEFINE w == [walk EXCEPT
                     !.todo = Tail(@),
                     !.nodes = IF work.primed
                               THEN Insert(@, work.dest, MergeDiag(@[work.dest], work.merged))
                               ELSE @]
<1>0. /\ MeshInv /\ AirFields \subseteq DOMAIN air /\ WalkFields \subseteq DOMAIN walk
  BY DEF ReportInv, CollectInv, CollectTypes, Recorded
<1>1. VisitRest(w)
  BY DEF ChildDone
<1>2. AfterChild(w)
  <2> DEFINE N == IF work.primed
                  THEN Insert(walk.nodes, work.dest, MergeDiag(walk.nodes[work.dest], work.merged))
                  ELSE walk.nodes
  <2>1. w = [walk EXCEPT !.todo = Tail(@), !.nodes = N]
    OBVIOUS
  <2> HIDE DEF N, w
  <2>2. /\ WalkFields \subseteq DOMAIN w
        /\ w.cmd = walk.cmd /\ w.stage = walk.stage /\ w.leader = walk.leader
        /\ w.answers = walk.answers /\ w.todo = Tail(walk.todo) /\ w.nodes = N
    BY <1>0, <2>1 DEF WalkFields
  <2> QED
    BY <2>2 DEF AfterChild, N
<1> HIDE DEF w
<1> QED
  BY <1>0, <1>1, <1>2, ChildJoins, ChildrenReport

(* The report of one node: a record that is complete, or a silence that is   *)
(* excused.                                                                  *)
LEMMA NodeRecordReports ==
    ASSUME ReportInv, NEW r, NEW n, NodeRecord(r, n), walk.cmd # WholeMesh, Empty(walk),
           NodeFields \subseteq DOMAIN n, Complete(r, n),
           n.discovery = "direct" \/ ~Stays(r) \/ air.faults > 2,
           air' = air, mesh' = mesh, air.faults \in Nat
    PROVE  ReportInv'
<1> DEFINE N == Insert(walk.nodes, r, n)
           w == [walk EXCEPT !.nodes = N]
           v == [w EXCEPT !.stage = "done"]
<1>0. /\ MeshInv /\ AirFields \subseteq DOMAIN air /\ WalkFields \subseteq DOMAIN walk
  BY DEF ReportInv, CollectInv, CollectTypes, Recorded
<1>1. Finish(w)
  BY DEF NodeRecord
<1>2. DOMAIN N = {r} /\ N[r] = n
  <2>1. DOMAIN N = DOMAIN walk.nodes \cup {r}
    BY InsertedKeys
  <2>2. N[r] = n
    BY InsertedValue
  <2>3. DOMAIN walk.nodes = {}
    BY NothingAsked DEF Empty
  <2> HIDE DEF N
  <2> QED
    BY <2>1, <2>2, <2>3
<1> HIDE DEF N
<1>3. WalkFields \subseteq DOMAIN w /\ w.nodes = N /\ w.cmd = walk.cmd /\ w.todo = <<>>
  BY <1>0 DEF WalkFields, Empty
<1> HIDE DEF w
<1>4. /\ WalkFields \subseteq DOMAIN v /\ v.nodes = N /\ v.cmd = walk.cmd /\ v.stage = "done"
      /\ "stage" \in DOMAIN w
  BY <1>3 DEF WalkFields
<1> HIDE DEF v
<1>5. Recorded(v)
  BY <1>2, <1>4 DEF Recorded, Excused
<1>6. Drawn(v)
  BY <1>4 DEF Drawn
<1> QED
  BY <1>0, <1>1, <1>3, <1>4, <1>5, <1>6, FinishReports DEF v

(* A placeholder needs an excuse and nothing else.                           *)
LEMMA PlaceholderComplete ==
    ASSUME NEW r, NEW role
    PROVE  /\ NodeFields \subseteq DOMAIN Skeleton(r, role, "unreachable")
           /\ Complete(r, Skeleton(r, role, "unreachable"))
<1>1. /\ NodeFields = DOMAIN Skeleton(r, role, "unreachable")
      /\ Skeleton(r, role, "unreachable").discovery = "unreachable"
  BY SkeletonFields
<1> QED
  BY <1>1 DEF Complete

(* collect_node: the node itself.                                            *)
LEMMA NodeReports ==
    ASSUME ReportInv, pc = "send", Collected, walk.stage = "node", NodeDone,
           air' = air, mesh' = mesh, air.faults \in Nat
    PROVE  ReportInv'
<1> DEFINE c == walk.cmd
<1>0. /\ MeshInv /\ CollectInv /\ Recorded(walk) /\ StageInv /\ Walking
      /\ AirFields \subseteq DOMAIN air /\ WalkFields \subseteq DOMAIN walk
      /\ work.primed \in BOOLEAN
  BY DEF ReportInv, CollectInv, CollectTypes, Recorded, Walking
<1>1. /\ c # WholeMesh /\ Empty(walk) /\ work.dest = c /\ work.tlvs = TlvsOf(c)
      /\ outcome = "none"
  BY <1>0 DEF StageInv, AtStage
<1>2. /\ work.primed /\ Stays(c) =>
           \A t \in Owed(c, TlvsOf(c)) :
             t \in DOMAIN work.merged /\ work.merged[t] = mesh.nodes[c].tlvs[t]
      /\ ~work.primed => ~Stays(c) \/ air.faults > 2
  BY <1>1, CollectedAll
<1>3. CASE work.primed
  <2> DEFINE role == ResolveRole(c, work.merged, DefaultRole(c))
             n == FromDiag(c, role, work.merged)
  <2>1. NodeRecord(c, n)
    BY <1>3 DEF NodeDone
  <2> HIDE DEF role
  <2>2. /\ NodeFields = DOMAIN n /\ n.discovery = "direct"
        /\ DOMAIN n.data = DOMAIN work.merged \ NotStored
        /\ \A t \in DOMAIN work.merged \ NotStored : n.data[t] = work.merged[t]
    BY DirectFields
  <2> HIDE DEF n
  <2>3. Complete(c, n)
    BY <1>2, <1>3, <2>2 DEF Complete
  <2> QED
    BY <1>1, <2>1, <2>2, <2>3, NodeRecordReports
<1>4. CASE ~work.primed /\ IsChild(c)
  <2> DEFINE w == [walk EXCEPT !.stage = "parent"]
  <2>1. Visit(w, ParentOf(c), ROUTER_TLVS)
    BY <1>4 DEF NodeDone
  <2>2. /\ WalkFields \subseteq DOMAIN w /\ w.stage = "parent" /\ w.cmd = c
        /\ w.nodes = walk.nodes /\ w.answers = walk.answers /\ w.todo = walk.todo
    BY <1>0 DEF WalkFields
  <2> HIDE DEF w
  <2>3. Empty(w) /\ DOMAIN w.nodes = {}
    BY <1>1, <2>2, NothingAsked DEF Empty
  <2>4. AtStage(w, ParentOf(c), ROUTER_TLVS) /\ ROUTER_TLVS \in Lists
    BY <1>1, <1>2, <1>4, <2>2, <2>3 DEF AtStage, Lists
  <2>5. Recorded(w) /\ Drawn(w)
    BY <1>1, <2>2, <2>3 DEF Recorded, Drawn
  <2> QED
    BY <1>0, <1>1, <2>1, <2>4, <2>5, VisitReports
<1>5. CASE ~work.primed /\ ~IsChild(c)
  <2>1. NodeRecord(c, Skeleton(c, DefaultRole(c), "unreachable"))
    BY <1>5 DEF NodeDone
  <2> QED
    BY <1>1, <1>2, <1>5, <2>1, PlaceholderComplete, NodeRecordReports
<1> QED
  BY <1>0, <1>3, <1>4, <1>5

(* collect_node: the child table of the node's parent.                       *)
LEMMA ParentReports ==
    ASSUME ReportInv, pc = "send", Collected, walk.stage = "parent", ParentDone,
           air' = air, mesh' = mesh, air.faults \in Nat
    PROVE  ReportInv'
<1> DEFINE c == walk.cmd
           kids == ChildNodes(work.dest, work.merged)
<1>0. StageInv /\ Walking
  BY DEF ReportInv, Walking
<1>1. c # WholeMesh /\ Empty(walk) /\ (~Stays(c) \/ air.faults > 2)
  BY <1>0 DEF StageInv, AtStage
<1>2. CASE c \in DOMAIN kids
  <2>1. NodeRecord(c, kids[c])
    BY <1>2 DEF ParentDone
  <2>2. NodeFields = DOMAIN kids[c] /\ kids[c].discovery = "parent-table"
    BY <1>2, ChildNodesFields
  <2> HIDE DEF kids
  <2>3. Complete(c, kids[c])
    BY <2>2 DEF Complete
  <2> QED
    BY <1>1, <2>1, <2>2, <2>3, NodeRecordReports
<1>3. CASE c \notin DOMAIN kids
  <2>1. NodeRecord(c, Skeleton(c, DefaultRole(c), "unreachable"))
    BY <1>3 DEF ParentDone
  <2> QED
    BY <1>1, <2>1, PlaceholderComplete, NodeRecordReports
<1> QED
  BY <1>2, <1>3

(* What follows a finished collect_diag.                                     *)
LEMMA CollectDoneReports ==
    ASSUME ReportInv, CollectDone, air.faults \in Nat
    PROVE  ReportInv'
<1>0. /\ pc = "send" /\ Collected /\ air' = air /\ mesh' = mesh
      /\ AirFields \subseteq DOMAIN air
  BY DEF CollectDone, ReportInv, CollectInv, CollectTypes
<1>1. CASE walk.stage = "discover" /\ IF work.primed /\ LeaderRloc(work.merged) # -1
                                       THEN LeaderFound ELSE Fail
  <2>1. CASE LeaderRloc(work.merged) # -1 /\ LeaderFound
    BY <1>0, <1>1, <2>1, LeaderReports
  <2>2. CASE Fail
    BY <1>0, <2>2, FailReports
  <2> QED
    BY <1>1, <2>1, <2>2
<1>2. CASE walk.stage = "routers" /\ RouterDone
  BY <1>0, <1>2, RouterReports
<1>3. CASE walk.stage = "children" /\ ChildDone
  BY <1>0, <1>3, ChildReports
<1>4. CASE walk.stage = "node" /\ NodeDone
  BY <1>0, <1>4, NodeReports
<1>5. CASE walk.stage = "parent" /\ ParentDone
  BY <1>0, <1>5, ParentReports
<1> QED
  BY <1>1, <1>2, <1>3, <1>4, <1>5 DEF CollectDone

(* The dataset is read and the first node asked.                             *)
LEMMA DatasetReports ==
    ASSUME ReportInv, GetActiveDataset, air.faults \in Nat
    PROVE  ReportInv'
<1>0. /\ MeshInv /\ AirFields \subseteq DOMAIN air /\ WalkFields \subseteq DOMAIN walk
      /\ Empty(walk) /\ outcome = "none" /\ air' = air /\ mesh' = mesh
  BY DEF ReportInv, CollectInv, CollectTypes, Recorded, StageInv, GetActiveDataset
<1>1. DOMAIN walk.nodes = {}
  BY <1>0, NothingAsked DEF Empty
<1>2. ASSUME NEW s \in {"discover", "node"}, NEW w, w = [walk EXCEPT !.stage = s]
      PROVE  /\ w.stage = s /\ w.cmd = walk.cmd /\ Empty(w) /\ Recorded(w) /\ Drawn(w)
  <2>1. /\ WalkFields \subseteq DOMAIN w /\ w.stage = s /\ w.cmd = walk.cmd
        /\ w.nodes = walk.nodes /\ w.answers = walk.answers /\ w.todo = walk.todo
    BY <1>0, <1>2 DEF WalkFields
  <2>2. Empty(w)
    BY <1>0, <2>1 DEF Empty
  <2>3. Recorded(w)
    BY <1>1, <2>1 DEF Recorded
  <2>4. Drawn(w)
    BY <2>1 DEF Drawn
  <2> QED
    BY <2>1, <2>2, <2>3, <2>4
<1>3. CASE Fail
  BY <1>0, <1>3, FailReports
<1>4. CASE walk.cmd = WholeMesh
           /\ Visit([walk EXCEPT !.stage = "discover"], LEADER_ALOC16, DISCOVERY_TLVS)
  <2> DEFINE w == [walk EXCEPT !.stage = "discover"]
  <2>1. /\ w.stage = "discover" /\ w.cmd = WholeMesh /\ Empty(w) /\ Recorded(w) /\ Drawn(w)
    BY <1>2, <1>4
  <2> HIDE DEF w
  <2>2. AtStage(w, LEADER_ALOC16, DISCOVERY_TLVS) /\ DISCOVERY_TLVS \in Lists
    BY <2>1 DEF AtStage, Lists
  <2> QED
    BY <1>0, <1>4, <2>1, <2>2, VisitReports DEF w
<1>5. CASE walk.cmd # WholeMesh
           /\ Visit([walk EXCEPT !.stage = "node"], walk.cmd, TlvsOf(walk.cmd))
  <2> DEFINE w == [walk EXCEPT !.stage = "node"]
  <2>1. /\ w.stage = "node" /\ w.cmd = walk.cmd /\ Empty(w) /\ Recorded(w) /\ Drawn(w)
    BY <1>2
  <2> HIDE DEF w
  <2>2. AtStage(w, walk.cmd, TlvsOf(walk.cmd)) /\ TlvsOf(walk.cmd) \in Lists
    BY <1>5, <2>1 DEF AtStage, Lists, TlvsOf
  <2> QED
    BY <1>0, <1>5, <2>1, <2>2, VisitReports DEF w
<1> QED
  BY <1>3, <1>4, <1>5 DEF GetActiveDataset, TlvsOf

-----------------------------------------------------------------------------
(* What a snapshot shows.                                                    *)

(* A link that one end reports, once, and a link that both ends show.        *)
ReportedOnce(reports, from, to, view) ==
    /\ [from |-> from, to |-> to, view |-> view] \in reports
    /\ \A p \in reports : p.from = from /\ p.to = to => p.view = view

SeenByBoth(links, r, s, view) ==
    /\ [other |-> s, view |-> view] \in MeshNeighbors(links, r)
    /\ \E n \in MeshNeighbors(links, s) : n.other = r /\ n.view # NoView

(* build_links keeps a link that one end reported, and both ends see it.     *)
LEMMA LinkSeen ==
    ASSUME NEW nodes, NEW r, NEW s, r # s, NEW x \in 0..3, NEW y \in 0..3,
           ReportedOnce(NeighborReports(nodes), r, s, [lin |-> x, lout |-> y])
    PROVE  SeenByBoth(BuildLinks(nodes), r, s, [lin |-> x, lout |-> y])
<1> DEFINE reports == NeighborReports(nodes)
           links == BuildLinks(nodes)
           v == [lin |-> x, lout |-> y]
           p0 == [from |-> r, to |-> s, view |-> v]
           M == links.mesh
           own == {p \in reports : p.from = r /\ p.to = s}
           back == ViewOf(reports, s, r)
<1>0. /\ links.mesh = [k \in {LinkKey(p) : p \in reports} |->
                          [a |-> ViewOf(reports, k[1], k[2]), b |-> ViewOf(reports, k[2], k[1])]]
      /\ p0 \in reports
      /\ \A p \in reports : p.from = r /\ p.to = s => p.view = v
  BY DEF BuildLinks, ReportedOnce
<1> HIDE DEF links, reports
<1>1. /\ v # NoView /\ [lin |-> v.lout, lout |-> v.lin] # NoView
      /\ p0.from = r /\ p0.to = s /\ p0.view = v
  BY DEF NoView
<1>2. ViewOf(reports, r, s) = v
  <2>1. p0 \in own /\ \A p \in own : p.view = v
    BY <1>0, <1>1
  <2>2. ViewOf(reports, r, s) = IF own = {} THEN NoView ELSE (CHOOSE p \in own : TRUE).view
    BY DEF ViewOf
  <2> HIDE DEF own, p0, v
  <2>3. (CHOOSE p \in own : TRUE) \in own
    BY <2>1
  <2> QED
    BY <2>1, <2>2, <2>3
<1>3. OwnView(v, back) = v
  BY <1>1 DEF OwnView
<1>4. OwnView(back, v) # NoView
  <2>1. CASE back # NoView
    BY <2>1 DEF OwnView
  <2>2. CASE back = NoView
    BY <1>1, <2>2 DEF OwnView
  <2> QED
    BY <2>1, <2>2
<1>5. LinkKey(p0) \in DOMAIN M /\ (LinkKey(p0) = <<r, s>> \/ LinkKey(p0) = <<s, r>>)
  <2>1. LinkKey(p0) \in {LinkKey(p) : p \in reports}
    BY <1>0
  <2>2. LinkKey(p0) = <<r, s>> \/ LinkKey(p0) = <<s, r>>
    BY <1>1 DEF LinkKey
  <2> QED
    BY <1>0, <2>1, <2>2
<1>6. ASSUME NEW k \in DOMAIN M
      PROVE  M[k] = [a |-> ViewOf(reports, k[1], k[2]), b |-> ViewOf(reports, k[2], k[1])]
  BY <1>0
<1>7. ASSUME NEW k \in DOMAIN M
      PROVE  [other |-> k[2], view |-> OwnView(M[k].a, M[k].b)] \in MeshNeighbors(links, k[1])
  BY DEF MeshNeighbors
<1>8. ASSUME NEW k \in DOMAIN M, k[1] # k[2]
      PROVE  [other |-> k[1], view |-> OwnView(M[k].b, M[k].a)] \in MeshNeighbors(links, k[2])
  BY <1>8 DEF MeshNeighbors
<1> HIDE DEF M, back, v, p0
<1>9. CASE LinkKey(p0) = <<r, s>>
  <2> DEFINE k == <<r, s>>
  <2>1. k \in DOMAIN M /\ k[1] = r /\ k[2] = s
    BY <1>5, <1>9
  <2>2. M[k].a = v /\ M[k].b = back
    BY <1>2, <1>6, <2>1 DEF back
  <2> HIDE DEF k
  <2>3. [other |-> s, view |-> v] \in MeshNeighbors(links, r)
    BY <1>3, <1>7, <2>1, <2>2
  <2>4. [other |-> r, view |-> OwnView(back, v)] \in MeshNeighbors(links, s)
    BY <1>8, <2>1, <2>2
  <2> QED
    BY <1>4, <2>3, <2>4 DEF v, links, SeenByBoth
<1>10. CASE LinkKey(p0) = <<s, r>>
  <2> DEFINE k == <<s, r>>
  <2>1. k \in DOMAIN M /\ k[1] = s /\ k[2] = r
    BY <1>5, <1>10
  <2>2. M[k].b = v /\ M[k].a = back
    BY <1>2, <1>6, <2>1 DEF back
  <2> HIDE DEF k
  <2>3. [other |-> s, view |-> v] \in MeshNeighbors(links, r)
    BY <1>3, <1>8, <2>1, <2>2
  <2>4. [other |-> r, view |-> OwnView(back, v)] \in MeshNeighbors(links, s)
    BY <1>7, <2>1, <2>2
  <2> QED
    BY <1>4, <2>3, <2>4 DEF v, links, SeenByBoth
<1> QED
  BY <1>5, <1>9, <1>10

(* Every neighbour that a router reports, once.                              *)
LEMMA NeighborLinks ==
    ASSUME NEW w, Snapshot(w), NEW r \in DOMAIN w.nodes, NEW e \in w.nodes[r].routes,
           e.rel = "neighbor"
    PROVE  SeenByBoth(BuildLinks(w.nodes), r, RouterRloc(e.id), [lin |-> e.lin, lout |-> e.lout])
<1> DEFINE N == w.nodes
           reports == NeighborReports(N)
           s == RouterRloc(e.id)
           v == [lin |-> e.lin, lout |-> e.lout]
           rep(q, f) == [from |-> q, to |-> RouterRloc(f.id), view |-> [lin |-> f.lin, lout |-> f.lout]]
           near(q) == {f \in N[q].routes : f.rel = "neighbor"}
<1>1. r \in RouterRlocSet /\ r \in DOMAIN w.answers /\ N[r].routes = RoutesOf(r, w.answers[r])
      /\ SoundTlvs(r, w.answers[r])
  BY DEF Snapshot, RouterRecord, ChildRecord
<1>2. /\ e.id \in 0..62 /\ e.lin \in 0..3 /\ e.lout \in 0..3
      /\ e.id # RouterId(r)
      /\ \A f \in N[r].routes : f.id = e.id => f = e
  BY <1>1, RouteEntries
<1>3. \A f \in N[r].routes : f.id \in 0..62
  BY <1>1, RouteEntries
<1>4. s # r
  BY <1>2, RouterIdOf
<1>5. reports = UNION {{rep(q, f) : f \in near(q)} : q \in DOMAIN N}
  BY DEF NeighborReports
<1>6. \A q, f : rep(q, f).from = q /\ rep(q, f).to = RouterRloc(f.id)
                /\ rep(q, f).view = [lin |-> f.lin, lout |-> f.lout]
  OBVIOUS
<1>7. rep(r, e) \in reports
  <2>1. e \in near(r)
    OBVIOUS
  <2> HIDE DEF rep, near, reports
  <2> QED
    BY <1>5, <2>1
<1>8. ASSUME NEW p \in reports, p.from = r, p.to = s
      PROVE  p.view = v
  <2> HIDE DEF rep, reports, v
  <2>1. PICK q \in DOMAIN N : \E f \in near(q) : p = rep(q, f)
    BY <1>5
  <2>2. PICK f \in near(q) : p = rep(q, f)
    BY <2>1
  <2>3. q = r /\ RouterRloc(f.id) = RouterRloc(e.id) /\ p.view = [lin |-> f.lin, lout |-> f.lout]
    BY <1>6, <1>8, <2>2
  <2>4. f \in N[r].routes
    BY <2>3
  <2>5. f.id = e.id
    BY <1>2, <1>3, <2>3, <2>4, RouterRlocInjective
  <2> QED
    BY <1>2, <2>3, <2>4, <2>5 DEF v
<1>9. ReportedOnce(reports, r, s, v)
  <2>1. [from |-> r, to |-> s, view |-> v] \in reports
    BY <1>7
  <2>2. \A p \in reports : p.from = r /\ p.to = s => p.view = v
    BY <1>8
  <2> QED
    BY <2>1, <2>2 DEF ReportedOnce
<1> QED
  BY <1>2, <1>4, <1>9, LinkSeen

(* The parts of SnapshotConsistent, for any set of records.                  *)
Shown(nodes, r) ==
    LET rows == Rows(nodes, BuildLinks(nodes))
    IN  {row \in rows : row.router = r} \cup {row \in rows : \E c \in row.children : c.rloc = r}

(* The roles that the records of a finished snapshot carry.                  *)
LEMMA Roles ==
    ASSUME NEW w, Snapshot(w), NEW r \in DOMAIN w.nodes
    PROVE  /\ r \in RouterRlocSet => w.nodes[r].role = IF r = w.leader THEN "leader" ELSE "router"
           /\ r \notin RouterRlocSet => w.nodes[r].role = "child"
<1>1. r \in RouterRlocSet => RouterRecord(w, r)
  BY DEF Snapshot
<1>2. r \notin RouterRlocSet => ChildRecord(w, r)
  BY DEF Snapshot
<1> QED
  BY <1>1, <1>2 DEF RouterRecord, ChildRecord

(* One leader.                                                               *)
LEMMA OneLeader ==
    ASSUME NEW w, Snapshot(w), w.stage # "routers"
    PROVE  {r \in DOMAIN w.nodes : w.nodes[r].role = "leader"} = {w.leader}
<1>1. w.leader \in DOMAIN w.nodes /\ w.leader \in RouterRlocSet
  BY DEF Snapshot
<1>2. w.nodes[w.leader].role = "leader"
  BY <1>1, Roles
<1>3. \A r \in DOMAIN w.nodes : w.nodes[r].role = "leader" => r = w.leader
  <2> TAKE r \in DOMAIN w.nodes
  <2> QED
    BY Roles
<1> QED
  BY <1>1, <1>2, <1>3

(* A child hangs under a router that answered and that listed it.            *)
LEMMA ChildUnderParent ==
    ASSUME NEW w, Snapshot(w), NEW r \in DOMAIN w.nodes, w.nodes[r].role = "child"
    PROVE  /\ w.nodes[r].parent \in DOMAIN w.nodes \cap RouterRlocSet
           /\ r \in w.nodes[w.nodes[r].parent].children
<1> DEFINE p == w.nodes[r].parent
<1>1. r \notin RouterRlocSet
  BY Roles
<1>2. ChildRecord(w, r)
  BY <1>1 DEF Snapshot
<1>3. p \in DOMAIN w.answers /\ r \in ChildRlocs(p, w.answers[p])
  BY <1>2 DEF ChildRecord
<1>4. p \in DOMAIN w.nodes /\ p \in RouterRlocSet
  BY <1>3 DEF Snapshot
<1>5. RouterRecord(w, p)
  BY <1>4 DEF Snapshot
<1>6. w.nodes[p].children = ChildRlocs(p, w.answers[p])
  BY <1>3, <1>5 DEF RouterRecord
<1> QED
  BY <1>3, <1>4, <1>6

(* Both ends of an attachment are present.                                   *)
LEMMA BothEnds ==
    ASSUME NEW w, Snapshot(w), w.stage # "routers", NEW r \in DOMAIN w.nodes,
           NEW c \in w.nodes[r].children
    PROVE  c \in DOMAIN w.nodes
<1>1. r \in RouterRlocSet
  BY DEF Snapshot, ChildRecord
<1>2. RouterRecord(w, r)
  BY <1>1 DEF Snapshot
<1>3. r \in DOMAIN w.answers /\ c \in ChildRlocs(r, w.answers[r])
  BY <1>2 DEF RouterRecord
<1>4. ChildRlocs(r, w.answers[r]) \subseteq DOMAIN w.nodes
  BY <1>3 DEF Snapshot
<1> QED
  BY <1>3, <1>4

(* The attachments of the links.                                             *)
LEMMA Attachments ==
    ASSUME NEW nodes
    PROVE  /\ \A l \in BuildLinks(nodes).parentChild :
                \E r \in DOMAIN nodes : \E c \in nodes[r].children : l = <<r, c>>
           /\ \A r \in DOMAIN nodes : \A c \in nodes[r].children :
                <<r, c>> \in BuildLinks(nodes).parentChild
<1>1. BuildLinks(nodes).parentChild = UNION {{<<r, c>> : c \in nodes[r].children} : r \in DOMAIN nodes}
  BY DEF BuildLinks
<1> HIDE DEF BuildLinks
<1> QED
  BY <1>1

(* Every node is shown once: a router by its row, a child in its parent's.   *)
LEMMA ShownOnce ==
    ASSUME NEW w, Snapshot(w), NEW r \in DOMAIN w.nodes
    PROVE  Cardinality(Shown(w.nodes, r)) = 1
<1> DEFINE N == w.nodes
           links == BuildLinks(N)
           kids(q) == {x \in DOMAIN N : N[x].role = "child" /\ N[x].parent = q}
           cell(c) == [rloc |-> c, direct |-> N[c].discovery = "direct"]
           row(q) == [router |-> q, neighbors |-> MeshNeighbors(links, q),
                      unreachable |-> N[q].discovery = "unreachable",
                      children |-> {cell(c) : c \in kids(q)}]
           routers == {q \in DOMAIN N : N[q].role # "child"}
           rows == Rows(N, links)
<1>1. rows = {row(q) : q \in routers}
  BY DEF Rows
<1>2. \A q : row(q).router = q /\ row(q).children = {cell(c) : c \in kids(q)}
  OBVIOUS
<1>3. \A c : cell(c).rloc = c
  OBVIOUS
<1>4. Shown(N, r) = {x \in rows : x.router = r} \cup {x \in rows : \E c \in x.children : c.rloc = r}
  BY DEF Shown
<1> HIDE DEF row, cell, rows, links
<1>5. \A q : (\E c \in row(q).children : c.rloc = r) <=> r \in kids(q)
  <2> TAKE q
  <2>1. ASSUME NEW c \in row(q).children, c.rloc = r PROVE r \in kids(q)
    <3> HIDE DEF kids
    <3>1. PICK x \in kids(q) : c = cell(x)
      BY <1>2
    <3> QED
      BY <1>3, <2>1, <3>1
  <2>2. ASSUME r \in kids(q) PROVE \E c \in row(q).children : c.rloc = r
    <3> HIDE DEF kids
    <3>1. cell(r) \in row(q).children
      BY <1>2, <2>2
    <3> QED
      BY <1>3, <3>1
  <2> QED
    BY <2>1, <2>2
<1>6. Shown(N, r) = {row(q) : q \in {x \in routers : x = r \/ r \in kids(x)}}
  <2>1. \A q \in routers : row(q) \in Shown(N, r) <=> (q = r \/ r \in kids(q))
    <3> HIDE DEF kids, routers
    <3> QED
      BY <1>1, <1>2, <1>4, <1>5
  <2>2. \A x \in Shown(N, r) : \E q \in routers : x = row(q)
    <3> HIDE DEF kids, routers
    <3> QED
      BY <1>1, <1>4
  <2> HIDE DEF kids, routers
  <2> QED
    BY <2>1, <2>2
<1>7. \E q : {x \in routers : x = r \/ r \in kids(x)} = {q}
  <2>1. CASE N[r].role = "child"
    <3> DEFINE p == N[r].parent
    <3>1. p \in DOMAIN N /\ p \in RouterRlocSet
      BY <2>1, ChildUnderParent
    <3>2. N[p].role # "child"
      BY <3>1, Roles
    <3>3. {x \in routers : x = r \/ r \in kids(x)} = {p}
      BY <2>1, <3>1, <3>2
    <3> QED
      BY <3>3
  <2>2. CASE N[r].role # "child"
    <3>1. {x \in routers : x = r \/ r \in kids(x)} = {r}
      BY <2>2
    <3> QED
      BY <3>1
  <2> QED
    BY <2>1, <2>2
<1>8. PICK q : {x \in routers : x = r \/ r \in kids(x)} = {q}
  BY <1>7
<1>9. Shown(N, r) = {row(q)}
  <2> HIDE DEF kids, routers
  <2> QED
    BY <1>6, <1>8
<1> QED
  BY <1>9, FS_Singleton

-----------------------------------------------------------------------------
(* The walk.                                                                 *)

(* It holds before the connection.                                           *)
LEMMA ReportStart == Init => ReportInv
<1> SUFFICES ASSUME Init PROVE ReportInv
  OBVIOUS
<1>1. MeshInv
  BY MeshAssumption DEF Init, MeshInv
<1>2. pc = "connect" /\ outcome = "none" /\ work = NoWork /\ AirFields \subseteq DOMAIN air
      /\ air.faults = 0
  BY DEF Init, AirFields
<1>3. CollectInv
  <2>1. /\ WorkFields \subseteq DOMAIN work /\ work.primed = FALSE /\ work.stack = <<>>
        /\ work.merged = EmptyDiag /\ work.tries = 0
    BY <1>2 DEF NoWork, WorkFields
  <2>2. CollectTypes /\ DOMAIN work.merged \cup Asked(work.stack) \subseteq Range(work.tlvs)
        /\ Truthful(Target(work.dest), work.merged)
    BY <1>2, <2>1, NothingAsked DEF CollectTypes, Truthful, Walking
  <2>3. 0 <= 0 + 1 /\ 0 <= 0 + 0
    OBVIOUS
  <2>4. Progress
    BY <1>2, <2>1, <2>3 DEF Progress
  <2> QED
    BY <1>2, <2>1, <2>2, <2>4 DEF CollectInv
<1>4. PICK c \in Commands : walk = NoWalk(c)
  BY DEF Init
<1>5. /\ WalkFields \subseteq DOMAIN walk /\ walk.stage = "start" /\ walk.nodes = EmptyDiag
      /\ walk.answers = EmptyDiag /\ walk.todo = <<>>
  BY <1>4 DEF NoWalk, WalkFields
<1>6. Recorded(walk) /\ Drawn(walk)
  BY <1>5, NothingAsked DEF Recorded, Drawn
<1>7. StageInv
  BY <1>2, <1>5 DEF StageInv, Empty, Walking
<1> QED
  BY <1>1, <1>3, <1>6, <1>7 DEF ReportInv

(* Every step of the walk keeps it.                                          *)
LEMMA ReportStep == WalkInv /\ ReportInv /\ [Next]_vars => ReportInv'
<1> SUFFICES ASSUME WalkInv, ReportInv, [Next]_vars PROVE ReportInv'
  OBVIOUS
<1>0. air.faults \in Nat /\ work.tries \in Nat
  <2>1. air.faults \in 0..MaxFaults /\ work.tries \in 0..PRIME_ATTEMPTS
    BY DEF WalkInv, AirInv, WorkInv
  <2> QED
    BY <2>1
<1>a. AirFields \subseteq DOMAIN air
  BY DEF ReportInv, CollectInv, CollectTypes
<1>1. CASE Connect
  BY <1>0, <1>1, <1>a, MovesReport DEF Connect
<1>2. CASE Petition
  <2>1. CASE Fail /\ UNCHANGED <<session, elapsed, air>>
    BY <1>0, <1>2, <1>a, <2>1, FailReports DEF Petition
  <2>2. CASE /\ pc' = "dataset" /\ UNCHANGED <<work, walk, outcome>>
             /\ air' = [air EXCEPT !.held = TRUE]
    <3>1. /\ AirFields \subseteq DOMAIN air' /\ air'.left = air.left /\ air'.dropped = air.dropped
          /\ air'.resolved = air.resolved /\ air'.faults = air.faults
      BY <1>a, <2>2 DEF AirFields
    <3>2. pc = "petition" /\ mesh' = mesh
      BY <1>2 DEF Petition
    <3> QED
      BY <1>0, <2>2, <3>1, <3>2, MovesReport
  <2> QED
    BY <1>2, <2>1, <2>2 DEF Petition
<1>3. CASE GetActiveDataset
  BY <1>0, <1>3, DatasetReports
<1>4. CASE SendKeepAlive
  BY <1>0, <1>4, <1>a, MovesReport DEF SendKeepAlive, Walking
<1>5. CASE KeepAliveAccepted
  BY <1>0, <1>5, <1>a, MovesReport DEF KeepAliveAccepted, Walking
<1>6. CASE KeepAliveRefused
  <2>1. PICK h \in BOOLEAN : air' = [air EXCEPT !.held = h]
    BY <1>6 DEF KeepAliveRefused
  <2>2. /\ AirFields \subseteq DOMAIN air' /\ air'.left = air.left /\ air'.dropped = air.dropped
        /\ air'.faults = air.faults
    BY <1>a, <2>1 DEF AirFields
  <2>3. Fail /\ mesh' = mesh
    BY <1>6 DEF KeepAliveRefused
  <2> QED
    BY <1>0, <2>2, <2>3, FailReports
<1>7. CASE SendQuery
  BY <1>0, <1>7, <1>a, MovesReport DEF SendQuery, Walking
<1>8. CASE QueryAnswered
  BY <1>0, <1>8, AnsweredReports
<1>9. CASE QueryUnanswered
  BY <1>0, <1>9, SilentReports
<1>10. CASE QueryLost
  BY <1>0, <1>10, LostReports
<1>11. CASE QueryFatal
  BY <1>0, <1>11, <1>a, FailReports DEF QueryFatal
<1>12. CASE CollectDone
  BY <1>0, <1>12, CollectDoneReports
<1>13. CASE Resign
  <2>1. /\ AirFields \subseteq DOMAIN air' /\ air'.left = air.left /\ air'.dropped = air.dropped
        /\ air'.resolved = air.resolved /\ air'.faults = air.faults
    BY <1>13, <1>a DEF Resign, AirFields
  <2>2. pc' = "exit" /\ work' = work /\ walk' = walk /\ mesh' = mesh
        /\ (outcome' = outcome \/ outcome' = "err")
    BY <1>13 DEF Resign
  <2> QED
    BY <1>0, <2>1, <2>2, MovesReport
<1>14. CASE NodeLeaves
  BY <1>0, <1>14, LeavesReports
<1>15. CASE UNCHANGED vars
  <2>1. pc = "wait" => ~Collected
    BY DEF ReportInv, CollectInv
  <2> QED
    BY <1>0, <1>15, <1>a, <2>1, MovesReport DEF vars, Walking
<1> QED
  BY <1>1, <1>2, <1>3, <1>4, <1>5, <1>6, <1>7, <1>8, <1>9, <1>10, <1>11, <1>12, <1>13, <1>14,
     <1>15 DEF Next, Step, Exited

(* What it says of a finished walk.                                          *)
LEMMA ReportConsequences ==
    WalkInv /\ ReportInv => NobodyMissed /\ AnswersComplete /\ SnapshotConsistent
<1> SUFFICES ASSUME WalkInv, ReportInv PROVE NobodyMissed /\ AnswersComplete /\ SnapshotConsistent
  OBVIOUS
<1>0. Recorded(walk) /\ Drawn(walk) /\ (outcome = "ok" => walk.stage = "done")
  BY DEF ReportInv, StageInv
<1>1. NobodyMissed
  <2> SUFFICES ASSUME outcome = "ok", air.faults <= 2, NEW r \in DOMAIN walk.nodes, Stays(r)
               PROVE  walk.nodes[r].discovery = "direct"
    BY DEF NobodyMissed
  <2>1. Excused(walk, r) /\ walk.stage = "done"
    BY <1>0 DEF Recorded
  <2>2. ~(air.faults > 2)
    <3>1. air.faults \in 0..MaxFaults
      BY DEF WalkInv, AirInv
    <3> QED
      BY <3>1
  <2> QED
    BY <2>1, <2>2 DEF Excused
<1>2. AnswersComplete
  BY <1>0 DEF AnswersComplete, Recorded, Complete, Owed, TlvsOf
<1>3. SnapshotConsistent
  <2> SUFFICES ASSUME outcome = "ok", walk.cmd = WholeMesh
               PROVE  SnapshotConsistent
    BY DEF SnapshotConsistent
  <2> DEFINE N == walk.nodes
             links == BuildLinks(N)
  <2>1. Snapshot(walk) /\ walk.stage # "routers"
    BY <1>0 DEF Drawn
  <2>2. {r \in DOMAIN N : N[r].role = "leader"} = {walk.leader}
    BY <2>1, OneLeader
  <2>3. ASSUME NEW l \in links.parentChild
        PROVE  l[1] \in DOMAIN N /\ l[2] \in DOMAIN N
    <3>1. PICK r \in DOMAIN N : \E c \in N[r].children : l = <<r, c>>
      BY Attachments
    <3>2. PICK c \in N[r].children : l = <<r, c>>
      BY <3>1
    <3>3. c \in DOMAIN N
      BY <2>1, BothEnds
    <3>4. l[1] = r /\ l[2] = c
      BY <3>2
    <3> QED
      BY <3>3, <3>4
  <2>4. ASSUME NEW r \in DOMAIN N, N[r].role = "child"
        PROVE  <<N[r].parent, r>> \in links.parentChild
    BY <2>1, <2>4, ChildUnderParent, Attachments
  <2>5. ASSUME NEW r \in DOMAIN N, NEW e \in N[r].routes, e.rel = "neighbor"
        PROVE  SeenByBoth(links, r, RouterRloc(e.id), [lin |-> e.lin, lout |-> e.lout])
    BY <2>1, <2>5, NeighborLinks
  <2>6. ASSUME NEW r \in DOMAIN N
        PROVE  Cardinality(Shown(N, r)) = 1
    BY <2>1, ShownOnce
  <2> QED
    BY <2>2, <2>3, <2>4, <2>5, <2>6 DEF SnapshotConsistent, SeenByBoth, Shown
<1> QED
  BY <1>1, <1>2, <1>3

(* A node that stays, and whose parent answered if it is a child, is never   *)
(* reported as silent as long as at most two exchanges are lost and nodes    *)
(* gone, whatever the mesh and the order of the losses (collect.rs:330).     *)
THEOREM NobodyIsMissed == Spec => []NobodyMissed
BY WalkStart, WalkStep, ReportStart, ReportStep, ReportConsequences, PTL DEF Spec

(* Priming, halving and merging lose nothing: a node that answered and stays *)
(* gives the report every TLV it supports and can answer alone, with the     *)
(* value it has, unless the request for that TLV alone was lost.             *)
THEOREM AnswersAreComplete == Spec => []AnswersComplete
BY WalkStart, WalkStep, ReportStart, ReportStep, ReportConsequences, PTL DEF Spec

(* The snapshot of the whole mesh hangs together, whatever was lost: one     *)
(* leader, every child under a router that listed it, every node shown once, *)
(* and every mesh link seen from both of its ends (topology.rs).             *)
THEOREM SnapshotHangsTogether == Spec => []SnapshotConsistent
BY WalkStart, WalkStep, ReportStart, ReportStep, ReportConsequences, PTL DEF Spec

===============================================================================
