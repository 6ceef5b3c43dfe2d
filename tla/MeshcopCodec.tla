----------------------------- MODULE MeshcopCodec -----------------------------
(***************************************************************************)
(* MeshCoP requests and answers: meshcop/builders.rs, parsers.rs,          *)
(* types.rs, flags.rs and constants.rs.                                    *)
(*                                                                         *)
(* A URI path is its bytes, `/` being 47.  h is the message ID and token   *)
(* every builder takes.  A u32 is its two words.  Flags are the set of     *)
(* their bits.                                                             *)
(***************************************************************************)
EXTENDS CoapCodec

TLV_STEERING_DATA == 8
TLV_BORDER_AGENT_LOCATOR == 9
TLV_COMMISSIONER_ID == 10
TLV_COMMISSIONER_SESSION_ID == 11
TLV_GET == 13
TLV_STATE == 16
TLV_JOINER_DTLS_ENCAPSULATION == 17
TLV_JOINER_UDP_PORT == 18
TLV_JOINER_IID == 19
TLV_JOINER_ROUTER_LOCATOR == 20
TLV_JOINER_ROUTER_KEK == 21
TLV_UDP_ENCAPSULATION == 48
TLV_IPV6_ADDRESS == 49
TLV_COUNT == 54
TLV_PERIOD == 55
TLV_SCAN_DURATION == 56
TLV_ENERGY_LIST == 57
TLV_SECURE_DISSEMINATION == 58
THREAD_TLV_TIMEOUT == 11
THREAD_TLV_IPV6_ADDRESSES == 14
THREAD_TLV_COMMISSIONER_SESSION_ID == 15
NETWORK_DIAG_TLV_TYPE_LIST == 18
DEFAULT_MM_PORT == 61631

Path(a, b, c) == <<47, a, 47, b, c>>

\* constants::uri
uri == [PETITIONING |-> Path(99, 99, 112), KEEP_ALIVE |-> Path(99, 99, 97),
        MGMT_COMMISSIONER_GET |-> Path(99, 99, 103),
        MGMT_COMMISSIONER_SET |-> Path(99, 99, 115),
        MGMT_BBR_GET |-> Path(99, 98, 103), MGMT_BBR_SET |-> Path(99, 98, 115),
        MGMT_ACTIVE_GET |-> Path(99, 97, 103),
        MGMT_ACTIVE_SET |-> Path(99, 97, 115),
        MGMT_PENDING_GET |-> Path(99, 112, 103),
        MGMT_PENDING_SET |-> Path(99, 112, 115),
        MGMT_DATASET_CHANGED |-> Path(99, 100, 99),
        MGMT_ANNOUNCE_BEGIN |-> Path(99, 97, 98),
        MGMT_PANID_QUERY |-> Path(99, 112, 113),
        MGMT_PANID_CONFLICT |-> Path(99, 112, 99),
        MGMT_ED_SCAN |-> Path(99, 101, 115),
        MGMT_ED_REPORT |-> Path(99, 101, 114),
        MGMT_REENROLL |-> Path(99, 114, 101),
        MGMT_DOMAIN_RESET |-> Path(99, 114, 116),
        MGMT_NET_MIGRATE |-> Path(99, 110, 109),
        MGMT_SEC_PENDING_SET |-> Path(99, 115, 112),
        RELAY_TX |-> Path(99, 116, 120), RELAY_RX |-> Path(99, 114, 120),
        UDP_TX |-> Path(99, 117, 116), UDP_RX |-> Path(99, 117, 114),
        JOIN_FIN |-> Path(99, 106, 102),
        DIAG_GET_REQUEST |-> Path(100, 100, 103),
        DIAG_GET_QUERY |-> Path(100, 100, 113),
        DIAG_GET_ANSWER |-> Path(100, 100, 97),
        DIAG_RESET |-> Path(100, 100, 114), MLR |-> Path(110, 109, 114)]

\* uri_path.split('/') behind an optional leading slash.
Segments(path) ==
    LET trimmed == IF path # <<>> /\ path[1] = 47 THEN Tail(path) ELSE path
        cuts == SetToSortSeq({0, Len(trimmed) + 1} \cup
                    {i \in DOMAIN trimmed : trimmed[i] = 47}, <)
    IN  IF trimmed = <<>> THEN <<>>
        ELSE [k \in 1..(Len(cuts) - 1) |->
                SubSeq(trimmed, cuts[k] + 1, cuts[k + 1] - 1)]

set_uri_path(m, path) ==
    IF \E k \in DOMAIN Segments(path) : Segments(path)[k] = <<>> THEN Err
    ELSE Ok([m EXCEPT !.options =
             SelectSeq(@, LAMBDA o : o.number # COAP_OPTION_URI_PATH) \o
             [k \in DOMAIN Segments(path) |->
                [number |-> COAP_OPTION_URI_PATH,
                 value |-> Segments(path)[k]]]])

\* None (Err here) without Uri-Path options.
uri_path(m) ==
    LET segments == SelectSeq(m.options,
                        LAMBDA o : o.number = COAP_OPTION_URI_PATH)
    IN  IF segments = <<>> THEN Err
        ELSE Ok(FlattenSeq([k \in DOMAIN segments |->
                              <<47>> \o segments[k].value]))

post_request(ty, h, path, payload) ==
    set_uri_path([ty |-> ty, code |-> POST, message_id |-> h.message_id,
                  token |-> h.token, options |-> <<>>, payload |-> payload],
                 path)

Response(code, h) ==
    [ty |-> Acknowledgement, code |-> code, message_id |-> h.message_id,
     token |-> h.token, options |-> <<>>, payload |-> <<>>]
empty_ack(message_id) == Response(EMPTY, [message_id |-> message_id,
                                          token |-> <<>>])
empty_changed_response(request) == Response(CHANGED, request)
is_empty_ack_for(m, message_id) == m = empty_ack(message_id)

Request(ty, h, path, tlvs) ==
    Then(TlvSetEncode(tlvs), LAMBDA payload : post_request(ty, h, path, payload))
Type(confirmable) == IF confirmable THEN Confirmable ELSE NonConfirmable
SessionTlv(session_id) == Tlv(TLV_COMMISSIONER_SESSION_ID, be16(session_id))

-------------------------------------------------------------------------------
(* The request builders. *)

MeshcopState == ("Reject" :> 255) @@ ("Pending" :> 0) @@ ("Accept" :> 1)
from_wire(value) ==
    IF \E st \in DOMAIN MeshcopState : MeshcopState[st] = value
    THEN Ok(CHOOSE st \in DOMAIN MeshcopState : MeshcopState[st] = value)
    ELSE Err

\* The bits of `flags` that have a TLV type, in the table's order.
flag_types(flags, mappings) ==
    LET chosen == SelectSeq(mappings, LAMBDA m : m[1] \in flags)
    IN  [k \in DOMAIN chosen |-> chosen[k][2]]
network_diag_tlv_types(flags) ==
    flag_types(flags, <<<<0, 0>>, <<1, 1>>, <<2, 2>>, <<3, 5>>, <<4, 6>>,
        <<5, 8>>, <<8, 9>>, <<6, 16>>, <<7, 23>>, <<9, 30>>, <<10, 7>>,
        <<11, 3>>, <<12, 4>>, <<13, 14>>, <<14, 15>>, <<15, 17>>, <<16, 18>>>>)
commissioner_dataset_tlv_types(flags) ==
    flag_types(flags, <<<<15, TLV_BORDER_AGENT_LOCATOR>>,
        <<14, TLV_COMMISSIONER_SESSION_ID>>, <<13, TLV_STEERING_DATA>>,
        <<12, 61>>, <<11, 62>>, <<10, TLV_JOINER_UDP_PORT>>, <<9, 65>>,
        <<8, 66>>>>)
dataset_tlv_types(flags, pending) ==
    flag_types(flags, <<<<15, TLV_ACTIVE_TIMESTAMP>>, <<14, TLV_CHANNEL>>,
        <<13, TLV_CHANNEL_MASK>>, <<12, TLV_EXTENDED_PAN_ID>>,
        <<11, TLV_MESH_LOCAL_PREFIX>>, <<10, TLV_NETWORK_KEY>>,
        <<9, TLV_NETWORK_NAME>>, <<8, TLV_PAN_ID>>, <<7, TLV_PSKC>>,
        <<6, TLV_SECURITY_POLICY>>>> \o
        (IF pending THEN <<<<5, TLV_DELAY_TIMER>>, <<4, TLV_PENDING_TIMESTAMP>>>>
         ELSE <<>>))

petition_request(h, commissioner_id) ==
    Request(Confirmable, h, uri.PETITIONING,
            <<Tlv(TLV_COMMISSIONER_ID, commissioner_id)>>)

keep_alive_request(h, session_id, keep_alive) ==
    Request(Confirmable, h, uri.KEEP_ALIVE,
            <<Tlv(TLV_STATE, <<MeshcopState[IF keep_alive THEN "Accept"
                                            ELSE "Reject"]>>),
              SessionTlv(session_id)>>)

dataset_get_request(h, path, types) ==
    Request(Confirmable, h, path,
            IF types = <<>> THEN <<>> ELSE <<Tlv(TLV_GET, types)>>)

dataset_set_request(h, path, session_id, dataset) ==
    Request(Confirmable, h, path, <<SessionTlv(session_id)>> \o dataset)

\* A pending timestamp of the wrong length stops the request.
secure_pending_set_request(h, session_id, timer, retrieval_uri, dataset) ==
    LET stamp == accessor(dataset, TLV_PENDING_TIMESTAMP)
    IN  IF stamp.st = "invalid" THEN Err
        ELSE Request(Confirmable, h, uri.MGMT_SEC_PENDING_SET,
                 <<SessionTlv(session_id),
                   Tlv(TLV_SECURE_DISSEMINATION,
                       stamp.value \o BytesOfWords(timer) \o retrieval_uri)>>
                 \o dataset)

channel_mask_value(mask) ==
    IF mask = <<0, 0>> THEN Err
    ELSE encode_all(<<[page |-> 0, mask |-> BytesOfWords(mask)]>>)

\* The three queries that carry a channel mask, with what follows it.
MaskedRequest(h, path, session_id, mask, tlvs, confirmable) ==
    Then(channel_mask_value(mask), LAMBDA value :
        Request(Type(confirmable), h, path,
                <<SessionTlv(session_id), Tlv(TLV_CHANNEL_MASK, value)>> \o tlvs))
announce_begin_request(h, session_id, mask, count, period, confirmable) ==
    MaskedRequest(h, uri.MGMT_ANNOUNCE_BEGIN, session_id, mask,
        <<Tlv(TLV_COUNT, <<count>>), Tlv(TLV_PERIOD, be16(period))>>,
        confirmable)
pan_id_query_request(h, session_id, mask, pan_id, confirmable) ==
    MaskedRequest(h, uri.MGMT_PANID_QUERY, session_id, mask,
        <<Tlv(TLV_PAN_ID, be16(pan_id))>>, confirmable)
energy_scan_request(h, session_id, scan) ==
    MaskedRequest(h, uri.MGMT_ED_SCAN, session_id, scan.mask,
        <<Tlv(TLV_COUNT, <<scan.count>>), Tlv(TLV_PERIOD, be16(scan.period)),
          Tlv(TLV_SCAN_DURATION, be16(scan.duration))>>, scan.confirmable)

session_command_request(h, path, session_id, confirmable) ==
    Request(Type(confirmable), h, path, <<SessionTlv(session_id)>>)
migrate_request(h, session_id, network, confirmable) ==
    Request(Type(confirmable), h, uri.MGMT_NET_MIGRATE,
            <<SessionTlv(session_id), Tlv(TLV_NETWORK_NAME, network)>>)
diagnostic_request(h, path, flags, confirmable) ==
    Request(Type(confirmable), h, path,
            <<Tlv(NETWORK_DIAG_TLV_TYPE_LIST, network_diag_tlv_types(flags))>>)

\* At least one address, and every one multicast (ff00::/8).
multicast_listener_request(h, session_id, addresses, timeout) ==
    IF \/ addresses = <<>>
       \/ \E i \in DOMAIN addresses : addresses[i][1] # 255
    THEN Err
    ELSE Request(Confirmable, h, uri.MLR,
             <<Tlv(THREAD_TLV_COMMISSIONER_SESSION_ID, be16(session_id)),
               Tlv(THREAD_TLV_TIMEOUT, BytesOfWords(timeout)),
               Tlv(THREAD_TLV_IPV6_ADDRESSES, FlattenSeq(addresses))>>)

\* kek is <<>> or <<the key>>; relay_tx_request passes <<>>.
relay_tx_request_with_kek(h, iid, port, locator, payload, kek) ==
    IF Len(iid) # 8 THEN Err
    ELSE Request(NonConfirmable, h, uri.RELAY_TX,
             <<Tlv(TLV_JOINER_UDP_PORT, be16(port)),
               Tlv(TLV_JOINER_ROUTER_LOCATOR, be16(locator)),
               Tlv(TLV_JOINER_IID, iid),
               Tlv(TLV_JOINER_DTLS_ENCAPSULATION, payload)>> \o
             [k \in DOMAIN kek |-> Tlv(TLV_JOINER_ROUTER_KEK, kek[k])])

udp_tx_request(h, destination, port, inner) ==
    Request(NonConfirmable, h, uri.UDP_TX,
        <<Tlv(TLV_IPV6_ADDRESS, destination),
          Tlv(TLV_UDP_ENCAPSULATION,
              be16(DEFAULT_MM_PORT) \o be16(port) \o inner)>>)

-------------------------------------------------------------------------------
(* The parsers.  Ok(<<>>) is Ok(None) and Ok(<<v>>) is Ok(Some(v)). *)

None == Ok(<<>>)
Some(v) == Ok(<<v>>)
HasPath(m, path) == uri_path(m) = Ok(path)

\* A required TLV of n bytes.
Required(tlvs, ty, n) ==
    Then(last_value(tlvs, ty), LAMBDA v : read_array(n, v))

parse_udp_rx(m) ==
    IF ~HasPath(m, uri.UDP_RX) THEN None
    ELSE Then(TlvSetParse(m.payload), LAMBDA tlvs :
         Then(Required(tlvs, TLV_IPV6_ADDRESS, 16), LAMBDA address :
         Then(last_value(tlvs, TLV_UDP_ENCAPSULATION), LAMBDA udp :
           IF Len(udp) < 4 THEN Err
           ELSE Some([address |-> address, source_port |-> from16(udp),
                      destination_port |-> from16(Drop(udp, 2)),
                      payload |-> Drop(udp, 4)]))))

parse_state(payload) ==
    Then(TlvSetParse(payload), LAMBDA tlvs :
        IF last_value(tlvs, TLV_STATE) = Err THEN None
        ELSE Then(Required(tlvs, TLV_STATE, 1), LAMBDA v :
               Then(from_wire(v[1]), LAMBDA st : Some(st))))

parse_state_response(m, state_mandatory) ==
    IF m.code # CHANGED THEN Err
    ELSE LET state == parse_state(m.payload)
         IN  IF state_mandatory /\ state = None THEN Err ELSE state

\* The session ID and the ID of the rival commissioner are optional.
parse_petition_response(m) ==
    Then(parse_state_response(m, TRUE), LAMBDA state :
    Then(TlvSetParse(m.payload), LAMBDA tlvs :
        LET session == last_value(tlvs, TLV_COMMISSIONER_SESSION_ID)
        IN  IF session # Err /\ Len(session[1]) # 2 THEN Err
            ELSE Ok([state |-> state[1],
                     session_id |-> IF session = Err THEN <<>>
                                    ELSE <<from16(session[1])>>,
                     existing |-> last_value(tlvs, TLV_COMMISSIONER_ID)])))

\* The union of the page-0 masks; there must be one, of 4 bytes each.
channel_mask_from_value(value) ==
    Then(parse_all(value), LAMBDA entries :
        LET zero == SelectSeq(entries, LAMBDA e : e.page = 0)
            Union(words, e) == [i \in 1..2 |-> Or(words[i], WordsOf(e.mask)[i])]
        IN  IF zero = <<>> \/ \E i \in DOMAIN zero : Len(zero[i].mask) # 4
            THEN Err ELSE Ok(FoldLeft(Union, <<0, 0>>, zero)))

PanIdConflict(tlvs) ==
    Then(last_value(tlvs, TLV_CHANNEL_MASK), LAMBDA value :
    Then(channel_mask_from_value(value), LAMBDA mask :
    Then(Required(tlvs, TLV_PAN_ID, 2), LAMBDA pan_id :
        Some([what |-> "PanIdConflict", mask |-> mask,
              pan_id |-> from16(pan_id)]))))

\* Both TLVs may be absent: a zero mask and an empty list.
EnergyReport(tlvs) ==
    LET value == last_value(tlvs, TLV_CHANNEL_MASK)
        energy == last_value(tlvs, TLV_ENERGY_LIST)
        list == IF energy = Err THEN <<>> ELSE energy[1]
    IN  IF value = Err
        THEN Some([what |-> "EnergyReport", mask |-> <<0, 0>>, list |-> list])
        ELSE Then(channel_mask_from_value(value[1]), LAMBDA mask :
               Some([what |-> "EnergyReport", mask |-> mask, list |-> list]))

RelayRx(tlvs) ==
    Then(Required(tlvs, TLV_JOINER_UDP_PORT, 2), LAMBDA port :
    Then(Required(tlvs, TLV_JOINER_ROUTER_LOCATOR, 2), LAMBDA locator :
    Then(Required(tlvs, TLV_JOINER_IID, 8), LAMBDA iid :
    Then(last_value(tlvs, TLV_JOINER_DTLS_ENCAPSULATION), LAMBDA payload :
        Some([what |-> "RelayRx", port |-> from16(port),
              locator |-> from16(locator), iid |-> iid,
              payload |-> payload])))))

===============================================================================
