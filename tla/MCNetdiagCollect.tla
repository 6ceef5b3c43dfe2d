--------------------------- MODULE MCNetdiagCollect ---------------------------
(* Instances of NetdiagCollect: small meshes.  Router 1 leads the      *)
(* first and has a neighbour with one child; the caps are such that batches  *)
(* are split, some down to a lone TLV that is never answered.  In the second *)
(* the leader reports neither its address nor itself, and lists a router     *)
(* that is gone.  The other two have a dataset that the tool cannot use.     *)
EXTENDS NetdiagCollect, TLC

Entry(id, lin, lout) == [id |-> id, lin |-> lin, lout |-> lout]

Opaque(tlvs) == [t \in tlvs |-> t]

Leader1 ==
    ("MAC_ADDR" :> 1024) @@ ("LEADER_DATA" :> 1) @@ ("CHILD_TABLE" :> {}) @@
    ("ROUTE64" :> {Entry(1, 0, 0), Entry(2, 3, 2)}) @@
    Opaque({"EXT_MAC_ADDR", "MODE", "CONNECTIVITY", "NETWORK_DATA", "IPV6_ADDRESSES"})

Router2 ==
    ("MAC_ADDR" :> 2048) @@ ("LEADER_DATA" :> 1) @@ ("CHILD_TABLE" :> {1}) @@
    ("ROUTE64" :> {Entry(1, 2, 3), Entry(2, 0, 0)}) @@
    ("CHILD_IPV6_ADDRESSES" :> {2049}) @@
    Opaque({"MODE", "MAC_COUNTERS", "EUI64", "NETWORK_DATA"})

Child2049 == ("MAC_ADDR" :> 2049) @@ Opaque({"EXT_MAC_ADDR", "TIMEOUT", "IPV6_ADDRESSES"})

Terse1 ==
    ("LEADER_DATA" :> 1) @@ ("CHILD_TABLE" :> {3}) @@
    ("ROUTE64" :> {Entry(2, 1, 1), Entry(3, 0, 0)}) @@ Opaque({"MODE"})

MCMeshes ==
    {[leader |-> 1024, alocCap |-> 2, dataset |-> "ok",
      nodes |-> (1024 :> [cap |-> 5, tlvs |-> Leader1]) @@
                (2048 :> [cap |-> 3, tlvs |-> Router2]) @@
                (2049 :> [cap |-> 6, tlvs |-> Child2049])],
     [leader |-> 1024, alocCap |-> 3, dataset |-> "ok",
      nodes |-> (1024 :> [cap |-> 6, tlvs |-> Terse1]) @@
                (2048 :> [cap |-> 6, tlvs |-> Router2])],
     [leader |-> 1024, alocCap |-> 3, dataset |-> "malformed",
      nodes |-> 1024 :> [cap |-> 16, tlvs |-> ("MAC_ADDR" :> 1024)]],
     [leader |-> 1024, alocCap |-> 3, dataset |-> "no prefix",
      nodes |-> 1024 :> [cap |-> 16, tlvs |-> Opaque({"MODE"})]]}

MCCommands == {WholeMesh, 1024, 2049, 2050}

===============================================================================
