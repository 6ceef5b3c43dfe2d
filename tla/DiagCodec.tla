------------------------------- MODULE DiagCodec -------------------------------
(***************************************************************************)
(* Network diagnostic TLVs: meshcop/diag/decode.rs.  Decoded values are    *)
(* records named as the structures of meshcop/diag/model.rs; a flag is     *)
(* BOOLEAN; wide integers stay the bytes they are.                         *)
(*                                                                         *)
(* The program only decodes.  What a node sends is the Node operators,     *)
(* which stand for the mesh's own encoder.                                 *)
(***************************************************************************)
EXTENDS MeshcopCodec

\* Bits of a byte: the field of w bits above bit s, and one flag.
Bits(byte, s, w) == (byte \div 2^s) % 2^w
Flag(byte, s) == Bits(byte, s, 1) = 1

\* value.chunks_exact(n): a length that is no multiple of n is an error.
Chunks(value, n) ==
    IF Len(value) % n # 0 THEN Err
    ELSE Ok([k \in 1..(Len(value) \div n) |->
               SubSeq(value, (k - 1) * n + 1, k * n)])
Each(chunks, F(_)) == Then(chunks, LAMBDA cs : Ok([k \in DOMAIN cs |-> F(cs[k])]))

ModeOf(byte) == [rx_on_when_idle |-> Flag(byte, 3), is_mtd |-> ~Flag(byte, 1),
                 full_network_data |-> Flag(byte, 0)]
ModeDecode(value) ==
    Then(read_array(1, value), LAMBDA v : Ok(ModeOf(v[1])))

\* NetworkDataTlvIter: the type is above the stable flag.
NetworkDataTlv(bytes) ==
    IF Len(bytes) < 2 THEN Err
    ELSE Then(read_vec_u8(Tail(bytes)), LAMBDA r :
           Ok([got |-> Tlv(bytes[1] \div 2, r.got), rest |-> r.rest]))

decode_has_route(value) ==
    Each(Chunks(value, 3), LAMBDA c :
        [rloc16 |-> from16(c), preference |-> Bits(c[3], 6, 2),
         is_nat64 |-> Flag(c[3], 5)])

decode_border_router(value) ==
    Each(Chunks(value, 4), LAMBDA c :
        [rloc16 |-> from16(c), preference |-> Bits(c[3], 6, 2),
         is_preferred |-> Flag(c[3], 5), is_slaac |-> Flag(c[3], 4),
         is_dhcp |-> Flag(c[3], 3), is_configure |-> Flag(c[3], 2),
         is_default_route |-> Flag(c[3], 1), is_on_mesh |-> Flag(c[3], 0),
         is_nd_dns |-> Flag(c[4], 7), is_dp |-> Flag(c[4], 6)])

decode_six_low_pan_context(value) ==
    Then(read_array(2, value), LAMBDA v :
        Ok([is_compress |-> Flag(v[1], 4), context_id |-> Bits(v[1], 0, 4),
            context_length |-> v[2]]))

\* Sub-TLVs of types 0, 2 and 3; routes accumulate, the last context wins.
decode_prefix_entry(value) ==
    IF Len(value) < 2 THEN Err
    ELSE Then(read_exact((value[2] + 7) \div 8, Drop(value, 2)), LAMBDA prefix :
         Then(ParseAll(NetworkDataTlv, prefix.rest), LAMBDA subs :
           LET Of(ty) == SelectSeq(subs, LAMBDA s : s.ty = ty)
               Decoded(ty, F(_)) == [k \in DOMAIN Of(ty) |-> F(Of(ty)[k].value)]
               routes == Decoded(0, decode_has_route)
               routers == Decoded(2, decode_border_router)
               contexts == Decoded(3, decode_six_low_pan_context)
               All(rs) == FlattenSeq([k \in DOMAIN rs |-> rs[k][1]])
           IN  IF Err \in ToSet(routes) \/ Err \in ToSet(routers)
                      \/ Err \in ToSet(contexts)
               THEN Err
               ELSE Ok([domain_id |-> value[1], bit_length |-> value[2],
                        prefix |-> prefix.got, has_route |-> All(routes),
                        border_routers |-> All(routers),
                        context |-> IF contexts = <<>> THEN <<>>
                                    ELSE Last(contexts)])))

\* The prefix TLVs (type 1) of the network data.
NetworkDataDecode(value) ==
    Then(ParseAll(NetworkDataTlv, value), LAMBDA tlvs :
        LET of == SelectSeq(tlvs, LAMBDA t : t.ty = 1)
            ps == [k \in DOMAIN of |-> decode_prefix_entry(of[k].value)]
        IN  IF Err \in ToSet(ps) THEN Err
            ELSE Ok([k \in DOMAIN ps |-> ps[k][1]]))

decode_connectivity(value) ==
    IF Len(value) < 7 THEN Err
    ELSE Ok([priority |-> CASE Bits(value[1], 6, 2) = 1 -> 1
                            [] Bits(value[1], 6, 2) = 0 -> 0
                            [] Bits(value[1], 6, 2) = 3 -> -1
                            [] OTHER -> -2,
             counts |-> SubSeq(value, 2, 7),
             rx_off_child |-> IF Len(value) >= 10 THEN SubSeq(value, 8, 10)
                              ELSE <<>>])

\* The router IDs of the mask, most significant bit first.
RouterIds(mask) ==
    SetToSortSeq({id \in 0..63 : Flag(mask[id \div 8 + 1], 7 - (id % 8))}, <)

decode_route64(value) ==
    IF Len(value) < 9 THEN Err
    ELSE LET ids == RouterIds(SubSeq(value, 2, 9))
             bytes == Drop(value, 9)
         IN  IF Len(bytes) # Len(ids) THEN Err
             ELSE Ok([id_sequence |-> value[1],
                      routes |-> [k \in DOMAIN ids |->
                         [router_id |-> ids[k], out |-> Bits(bytes[k], 6, 2),
                          in |-> Bits(bytes[k], 4, 2),
                          cost |-> Bits(bytes[k], 0, 4)]]])

decode_leader_data(value) == read_array(8, value)
decode_mac_counters(value) ==
    Then(read_array(36, value), LAMBDA v : Chunks(v, 4))
decode_ipv6_address_list(value) == Chunks(value, 16)

\* The child ID has 9 bits: the low bit of the first byte is its high bit.
decode_child_table(value) ==
    Each(Chunks(value, 3), LAMBDA c :
        [timeout_exponent |-> c[1] \div 8, in |-> Bits(c[1], 1, 2),
         child_id |-> (c[1] % 2) * 256 + c[2], mode |-> ModeOf(c[3])])

decode_child_ipv6_addresses(value) ==
    IF Len(value) < 2 THEN Err
    ELSE Then(Chunks(Drop(value, 2), 16), LAMBDA addresses :
           Ok([rloc16 |-> from16(value), child_id |-> from16(value) % 512,
               addresses |-> addresses]))

DiagTypes == 0..9 \cup 14..18 \cup {23, 30}
CHILD_IPV6_ADDRESSES == 30

DecodeField(ty, value) ==
    CASE ty \in {0, 17, 18} -> Ok(value)
      [] ty \in {1, 15} -> read_array(2, value)
      [] ty = 2 -> ModeDecode(value)
      [] ty = 3 -> read_array(4, value)
      [] ty = 4 -> decode_connectivity(value)
      [] ty = 5 -> decode_route64(value)
      [] ty = 6 -> decode_leader_data(value)
      [] ty = 7 -> NetworkDataDecode(value)
      [] ty = 8 -> decode_ipv6_address_list(value)
      [] ty = 9 -> decode_mac_counters(value)
      [] ty = 14 -> read_array(1, value)
      [] ty = 16 -> decode_child_table(value)
      [] ty = 23 -> read_array(8, value)
      [] ty = CHILD_IPV6_ADDRESSES -> decode_child_ipv6_addresses(value)

\* Unknown types are ignored; the last TLV of a type wins, except that child
\* addresses accumulate.  Each field is the sequence of what it holds.
NetDiagDecode(payload) ==
    Then(TlvSetParse(payload), LAMBDA entries :
        LET Of(ty) == SelectSeq(entries, LAMBDA e : e.ty = ty)
            kept(ty) == IF ty = CHILD_IPV6_ADDRESSES \/ Of(ty) = <<>> THEN Of(ty)
                        ELSE <<Last(Of(ty))>>
        IN  IF \E i \in DOMAIN entries :
                  /\ entries[i].ty \in DiagTypes
                  /\ DecodeField(entries[i].ty, entries[i].value) = Err
            THEN Err
            ELSE Ok([ty \in {t \in DiagTypes : Of(t) # <<>>} |->
                       [k \in DOMAIN kept(ty) |->
                          DecodeField(ty, kept(ty)[k].value)[1]]]))

\* Ok(None) for a resource that is no notification.
parse_notification(m) ==
    LET WithTlvs(F(_)) == Then(TlvSetParse(m.payload), F)
    IN  CASE HasPath(m, uri.MGMT_DATASET_CHANGED) ->
                 Some([what |-> "DatasetChanged"])
          [] HasPath(m, uri.MGMT_PANID_CONFLICT) -> WithTlvs(PanIdConflict)
          [] HasPath(m, uri.MGMT_ED_REPORT) -> WithTlvs(EnergyReport)
          [] HasPath(m, uri.DIAG_GET_ANSWER) ->
                 Then(NetDiagDecode(m.payload), LAMBDA data :
                     Some([what |-> "DiagGetAnswer", data |-> data]))
          [] HasPath(m, uri.RELAY_RX) -> WithTlvs(RelayRx)
          [] OTHER -> None

-------------------------------------------------------------------------------
(* The mesh's encoder. *)

NodeMode(m) == (IF m.rx_on_when_idle THEN 8 ELSE 0) +
               (IF m.is_mtd THEN 0 ELSE 2) +
               (IF m.full_network_data THEN 1 ELSE 0)
NodeChild(c) == <<c.timeout_exponent * 8 + c.in * 2 + c.child_id \div 256,
                  c.child_id % 256, NodeMode(c.mode)>>
NodeRoute64(r) ==
    LET ids == {r.routes[k].router_id : k \in DOMAIN r.routes}
        mask == [b \in 1..8 |-> SumSet({2^(7 - (id % 8)) :
                    id \in {i \in ids : i \div 8 + 1 = b}})]
    IN  <<r.id_sequence>> \o mask \o
        [k \in DOMAIN r.routes |-> r.routes[k].out * 64 + r.routes[k].in * 16
                                   + r.routes[k].cost]
NodeConnectivity(c) ==
    <<64 * (c.priority % 4)>> \o c.counts \o c.rx_off_child
NodePrefix(p) ==
    LET Bit(flag, s) == IF flag THEN 2^s ELSE 0
        Sub(ty, body) == IF body = <<>> THEN <<>>
                         ELSE <<ty * 2, Len(body)>> \o body
        All(F(_), seq) == FlattenSeq([k \in DOMAIN seq |-> F(seq[k])])
        Route(r) == be16(r.rloc16) \o
                    <<r.preference * 64 + Bit(r.is_nat64, 5)>>
        Router(r) == be16(r.rloc16) \o
                     <<r.preference * 64 + Bit(r.is_preferred, 5) +
                       Bit(r.is_slaac, 4) + Bit(r.is_dhcp, 3) +
                       Bit(r.is_configure, 2) + Bit(r.is_default_route, 1) +
                       Bit(r.is_on_mesh, 0),
                       Bit(r.is_nd_dns, 7) + Bit(r.is_dp, 6)>>
        Context(c) == <<Bit(c.is_compress, 4) + c.context_id, c.context_length>>
        body == <<p.domain_id, p.bit_length>> \o p.prefix
                \o Sub(0, All(Route, p.has_route))
                \o Sub(2, All(Router, p.border_routers))
                \o Sub(3, All(Context, p.context))
    IN  <<3, Len(body)>> \o body

===============================================================================
