------------------------------- MODULE Topology -------------------------------
(***************************************************************************)
(* The topology that ot-netdiag assembles (model.rs, the pure functions of *)
(* collect.rs, and what graph.rs and report.rs show of it).                *)
(*                                                                         *)
(* A diagnostic answer (NetDiagData) is a function on the TLVs it carries: *)
(* MAC_ADDR is the RLOC16, LEADER_DATA the leader's router ID, ROUTE64 a   *)
(* set of routing entries, CHILD_TABLE a set of child IDs and              *)
(* CHILD_IPV6_ADDRESSES the RLOC16s that have an address list.  What the   *)
(* other TLVs carry is only copied, so their value is the TLV's name.      *)
(***************************************************************************)
EXTENDS Integers, FiniteSets, Sequences, Functions

RouteEntry == [id : 0..63, lin : 0..3, lout : 0..3]

EmptyDiag == [t \in {} |-> t]

(* BTreeMap::insert and extend: what is new replaces what was there.         *)

Extend(map, new) ==
    [k \in DOMAIN map \cup DOMAIN new |-> IF k \in DOMAIN new THEN new[k] ELSE map[k]]

Insert(map, key, value) == Extend(map, [k \in {key} |-> value])

(* merge_netdiag: the fields the new answer carries are overwritten.         *)
MergeNetdiag(acc, new) == Extend(acc, new)

(* The numbers of a finite set in order: the i-th has i - 1 smaller ones.    *)
Ascending(S) ==
    [i \in 1..Cardinality(S) |-> CHOOSE x \in S : Cardinality({y \in S : y < x}) = i - 1]

-----------------------------------------------------------------------------
(* RLOC16s: a router ID in the top six bits, a child ID in the low ten.      *)

RouterRloc(id) == id * 1024

RouterId(rloc) == rloc \div 1024

ChildId(rloc) == rloc % 1024

IsChild(rloc) == ChildId(rloc) # 0

ParentOf(rloc) == rloc - ChildId(rloc)

DefaultRole(rloc) == IF IsChild(rloc) THEN "child" ELSE "router"

ResolveRole(rloc, data, fallback) ==
    IF IsChild(rloc) THEN "child"
    ELSE IF "LEADER_DATA" \in DOMAIN data /\ RouterRloc(data["LEADER_DATA"]) = rloc
         THEN "leader" ELSE fallback

-----------------------------------------------------------------------------
(* Node records.  `data' is everything copied from answers; `routes' and     *)
(* `children' are the two tables that are rewritten on the way.  A parent of *)
(* -1 is None.                                                               *)

NoParent == -1

Skeleton(rloc, role, discovery) ==
    [rloc |-> rloc, role |-> role, discovery |-> discovery, parent |-> NoParent,
     data |-> EmptyDiag, routes |-> {}, children |-> {}]

Relation(own, e) ==
    CASE e.id = own -> "self"
      [] e.id # own /\ (e.lin > 0 \/ e.lout > 0) -> "neighbor"
      [] OTHER -> "multihop"

ChildRloc(parent, id) == parent + id

(* The fields of an answer that a record has no place for.                   *)
NotStored == {"MAC_ADDR", "CHILD_IPV6_ADDRESSES"}

Stored(data) == [t \in DOMAIN data \ NotStored |-> data[t]]

MergeDiag(node, data) ==
    LET own == RouterId(node.rloc)
    IN  [node EXCEPT
           !.discovery = "direct",
           !.data = MergeNetdiag(@, Stored(data)),
           !.routes = IF "ROUTE64" \in DOMAIN data
                      THEN {[id |-> e.id, rel |-> Relation(own, e),
                             lin |-> e.lin, lout |-> e.lout] : e \in data["ROUTE64"]}
                      ELSE @,
           !.children = IF "CHILD_TABLE" \in DOMAIN data
                        THEN {ChildRloc(RouterRloc(own), c) : c \in data["CHILD_TABLE"]}
                        ELSE @]

FromDiag(rloc, role, data) == MergeDiag(Skeleton(rloc, role, "direct"), data)

Unreachable(rloc, role) == [Skeleton(rloc, "router", "unreachable") EXCEPT !.role = role]

(* merge_parent_children for one parent: the children its answer names.      *)
ChildNodes(parent, data) ==
    LET table == IF "CHILD_TABLE" \in DOMAIN data THEN data["CHILD_TABLE"] ELSE {}
        listed == IF "CHILD_IPV6_ADDRESSES" \in DOMAIN data
                  THEN data["CHILD_IPV6_ADDRESSES"] ELSE {}
        copied(r) == {"MODE", "TIMEOUT"} \cup
                     (IF r \in listed THEN {"IPV6_ADDRESSES"} ELSE {})
    IN  [r \in {ChildRloc(parent, c) : c \in table} |->
           [Skeleton(r, "child", "parent-table") EXCEPT
              !.parent = parent, !.data = [t \in copied(r) |-> t]]]

-----------------------------------------------------------------------------
(* build_links.  A mesh link is keyed by its two ends in order; each end     *)
(* that reports it fills its own view.                                       *)

NoView == [lin |-> -1, lout |-> -1]

NeighborReports(nodes) ==
    UNION {{[from |-> r, to |-> RouterRloc(e.id), view |-> [lin |-> e.lin, lout |-> e.lout]] :
              e \in {x \in nodes[r].routes : x.rel = "neighbor"}} : r \in DOMAIN nodes}

LinkKey(p) == IF p.from <= p.to THEN <<p.from, p.to>> ELSE <<p.to, p.from>>

ViewOf(reports, from, to) ==
    LET own == {p \in reports : p.from = from /\ p.to = to}
    IN  IF own = {} THEN NoView ELSE (CHOOSE p \in own : TRUE).view

BuildLinks(nodes) ==
    LET reports == NeighborReports(nodes)
    IN  [mesh |-> [k \in {LinkKey(p) : p \in reports} |->
                    [a |-> ViewOf(reports, k[1], k[2]), b |-> ViewOf(reports, k[2], k[1])]],
         parentChild |-> UNION {{<<r, c>> : c \in nodes[r].children} : r \in DOMAIN nodes}]

-----------------------------------------------------------------------------
(* What the renderers show.                                                  *)

OwnView(own, peer) ==
    IF own # NoView THEN own
    ELSE IF peer = NoView THEN NoView ELSE [lin |-> peer.lout, lout |-> peer.lin]

(* mesh_neighbors: the links of one router, from that router's side.         *)
MeshNeighbors(links, rloc) ==
    {[other |-> k[2], view |-> OwnView(links.mesh[k].a, links.mesh[k].b)] :
        k \in {l \in DOMAIN links.mesh : l[1] = rloc}}
    \cup
    {[other |-> k[1], view |-> OwnView(links.mesh[k].b, links.mesh[k].a)] :
        k \in {l \in DOMAIN links.mesh : l[2] = rloc /\ l[1] # rloc}}

(* topology_ascii: the rows below the title, a router (its parent is None)   *)
(* with its mesh links, and under it the children that name it as parent.    *)
Rows(nodes, links) ==
    LET routers == {r \in DOMAIN nodes : nodes[r].role # "child"}
    IN  {[router |-> r, neighbors |-> MeshNeighbors(links, r),
          unreachable |-> nodes[r].discovery = "unreachable",
          children |-> {[rloc |-> c, direct |-> nodes[c].discovery = "direct"] :
                          c \in {x \in DOMAIN nodes : nodes[x].role = "child" /\ nodes[x].parent = r}}]
         : r \in routers}

===============================================================================
