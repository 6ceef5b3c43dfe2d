-------------------------------- MODULE Codecs --------------------------------
(***************************************************************************)
(* The encoders and decoders at work.  A behaviour is one of five stories, *)
(* side by side: the three of the modules it extends, a message that is    *)
(* encoded, carried, perhaps cut short, and decoded, and an EC J-PAKE      *)
(* exchange between two parties.                                           *)
(***************************************************************************)
EXTENDS DiagCodec, EcJpake, Reassembly, DatasetEditing, SteeringData

CONSTANTS
    Examples(_),        \* the values of each kind that are sent
    MaxCutLength,       \* longer messages are not cut short
    Secrets,            \* shared secrets, as numbers
    Nonces              \* what the random source yields for proofs

-------------------------------------------------------------------------------
(* Requests: what is asked for, the message that asks it, and the same as  *)
(* the program's own readers find it in a message.                         *)

H == [message_id |-> 4660, token |-> <<1, 2>>]

Build(r) ==
    CASE r.op = "petition" -> petition_request(H, r.id)
      [] r.op = "keep_alive" -> keep_alive_request(H, r.session, r.accept)
      [] r.op = "get" -> dataset_get_request(H, uri[r.path], r.types)
      [] r.op = "set" -> dataset_set_request(H, uri[r.path], r.session, r.tlvs)
      [] r.op = "secure_pending" ->
             secure_pending_set_request(H, r.session, r.timer, r.uri, r.tlvs)
      [] r.op = "announce" ->
             announce_begin_request(H, r.session, r.mask, r.count, r.period,
                                    r.confirmable)
      [] r.op = "pan_id" ->
             pan_id_query_request(H, r.session, r.mask, r.pan_id, r.confirmable)
      [] r.op = "scan" -> energy_scan_request(H, r.session, r)
      [] r.op = "command" ->
             session_command_request(H, uri[r.path], r.session, r.confirmable)
      [] r.op = "migrate" -> migrate_request(H, r.session, r.network,
                                             r.confirmable)
      [] r.op = "diag" -> diagnostic_request(H, uri[r.path], r.flags,
                                             r.confirmable)
      [] r.op = "mlr" ->
             multicast_listener_request(H, r.session, r.addresses, r.timeout)
      [] r.op = "relay_tx" ->
             relay_tx_request_with_kek(H, r.iid, r.port, r.locator, r.payload,
                                       r.kek)
      [] r.op = "udp_tx" -> udp_tx_request(H, r.address, r.port, r.payload)

\* The resource each request goes to.
Resource(r) ==
    CASE r.op = "petition" -> uri.PETITIONING
      [] r.op = "keep_alive" -> uri.KEEP_ALIVE
      [] r.op = "secure_pending" -> uri.MGMT_SEC_PENDING_SET
      [] r.op = "announce" -> uri.MGMT_ANNOUNCE_BEGIN
      [] r.op = "pan_id" -> uri.MGMT_PANID_QUERY
      [] r.op = "scan" -> uri.MGMT_ED_SCAN
      [] r.op = "migrate" -> uri.MGMT_NET_MIGRATE
      [] r.op = "mlr" -> uri.MLR
      [] r.op = "relay_tx" -> uri.RELAY_TX
      [] r.op = "udp_tx" -> uri.UDP_TX
      [] OTHER -> uri[r.path]

\* The fields of r that message m with TLVs t carries.
Understood(r, m, t) ==
    LET V(ty) == last_value(t, ty)[1]
        session == from16(V(TLV_COMMISSIONER_SESSION_ID))
        confirmable == m.ty = Confirmable
        mask == channel_mask_from_value(V(TLV_CHANNEL_MASK))[1]
    IN  CASE r.op = "petition" -> [r EXCEPT !.id = V(TLV_COMMISSIONER_ID)]
          [] r.op = "keep_alive" ->
                 [r EXCEPT !.accept = parse_state(m.payload) = Some("Accept"),
                           !.session = session]
          [] r.op = "get" ->
                 [r EXCEPT !.types = IF t = <<>> THEN <<>> ELSE V(TLV_GET)]
          [] r.op = "set" -> [r EXCEPT !.session = session, !.tlvs = Tail(t)]
          [] r.op = "secure_pending" ->
                 LET body == V(TLV_SECURE_DISSEMINATION)
                     start == Len(accessor(t, TLV_PENDING_TIMESTAMP).value)
                 IN  [r EXCEPT !.session = session, !.tlvs = Drop(t, 2),
                               !.timer = WordsOf(SubSeq(body, start + 1, start + 4)),
                               !.uri = Drop(body, start + 4)]
          [] r.op = "announce" ->
                 [r EXCEPT !.session = session, !.mask = mask,
                           !.count = V(TLV_COUNT)[1],
                           !.period = from16(V(TLV_PERIOD)),
                           !.confirmable = confirmable]
          [] r.op = "pan_id" ->
                 LET found == PanIdConflict(t)[1][1]
                 IN  [r EXCEPT !.session = session, !.mask = found.mask,
                               !.pan_id = found.pan_id,
                               !.confirmable = confirmable]
          [] r.op = "scan" ->
                 [r EXCEPT !.session = session, !.mask = mask,
                           !.count = V(TLV_COUNT)[1],
                           !.period = from16(V(TLV_PERIOD)),
                           !.duration = from16(V(TLV_SCAN_DURATION)),
                           !.confirmable = confirmable]
          [] r.op = "command" ->
                 [r EXCEPT !.session = session, !.confirmable = confirmable]
          [] r.op = "migrate" ->
                 [r EXCEPT !.session = session, !.confirmable = confirmable,
                           !.network = V(TLV_NETWORK_NAME)]
          [] r.op = "diag" ->
                 [r EXCEPT !.confirmable = confirmable,
                           !.flags = {f \in 0..16 : ToSet(network_diag_tlv_types(
                               {f})) \subseteq ToSet(V(NETWORK_DIAG_TLV_TYPE_LIST))}]
          [] r.op = "mlr" ->
                 [r EXCEPT
                    !.session = from16(V(THREAD_TLV_COMMISSIONER_SESSION_ID)),
                    !.timeout = WordsOf(V(THREAD_TLV_TIMEOUT)),
                    !.addresses = decode_ipv6_address_list(
                                      V(THREAD_TLV_IPV6_ADDRESSES))[1]]
          [] r.op = "relay_tx" ->
                 LET relay == RelayRx(t)[1][1]
                 IN  [r EXCEPT !.iid = relay.iid, !.port = relay.port,
                               !.locator = relay.locator,
                               !.payload = relay.payload,
                               !.kek = last_value(t, TLV_JOINER_ROUTER_KEK)]
          [] r.op = "udp_tx" ->
                 LET udp == V(TLV_UDP_ENCAPSULATION)
                 IN  [r EXCEPT !.address = V(TLV_IPV6_ADDRESS),
                               !.port = from16(Drop(udp, 2)),
                               !.payload = Drop(udp, 4)]

RequestRead(r, bytes) ==
    Then(CoapDecode(bytes), LAMBDA m :
    Then(TlvSetParse(m.payload), LAMBDA t :
        IF HasPath(m, Resource(r)) /\ m.code = POST /\ m.token = H.token
        THEN Ok(Understood(r, m, t)) ELSE Err))

-------------------------------------------------------------------------------
(* What the border agent and the mesh send, and how it is read. *)

MaskTlv(mask) == Tlv(TLV_CHANNEL_MASK, <<0, 4>> \o BytesOfWords(mask))

NodeDiag(fields) ==
    LET Value(ty, v) ==
            CASE ty = 2 -> <<NodeMode(v)>>
              [] ty = 4 -> NodeConnectivity(v)
              [] ty = 5 -> NodeRoute64(v)
              [] ty = 7 -> FlattenSeq([k \in DOMAIN v |-> NodePrefix(v[k])])
              [] ty \in {8, 9} -> FlattenSeq(v)
              [] ty = 16 -> FlattenSeq([k \in DOMAIN v |-> NodeChild(v[k])])
              [] ty = CHILD_IPV6_ADDRESSES ->
                     be16(v.rloc16) \o FlattenSeq(v.addresses)
              [] OTHER -> v
        types == SetToSortSeq(DOMAIN fields, <)
        Of(ty) == [k \in DOMAIN fields[ty] |-> Tlv(ty, Value(ty, fields[ty][k]))]
    IN  FlattenSeq([i \in DOMAIN types |-> Of(types[i])])

Sent(n) ==
    LET Msg(path, tlvs) ==
            post_request(NonConfirmable, H, path, TlvSetEncode(tlvs)[1])
    IN  CASE n.what = "DatasetChanged" -> Msg(uri.MGMT_DATASET_CHANGED, <<>>)
          [] n.what = "PanIdConflict" ->
                 Msg(uri.MGMT_PANID_CONFLICT,
                     <<MaskTlv(n.mask), Tlv(TLV_PAN_ID, be16(n.pan_id))>>)
          [] n.what = "EnergyReport" ->
                 Msg(uri.MGMT_ED_REPORT,
                     <<MaskTlv(n.mask), Tlv(TLV_ENERGY_LIST, n.list)>>)
          [] n.what = "RelayRx" ->
                 Msg(uri.RELAY_RX,
                     <<Tlv(TLV_JOINER_UDP_PORT, be16(n.port)),
                       Tlv(TLV_JOINER_ROUTER_LOCATOR, be16(n.locator)),
                       Tlv(TLV_JOINER_IID, n.iid),
                       Tlv(TLV_JOINER_DTLS_ENCAPSULATION, n.payload)>>)
          [] n.what = "DiagGetAnswer" ->
                 Msg(uri.DIAG_GET_ANSWER, NodeDiag(n.data))
          [] n.what = "UdpRx" ->
                 Msg(uri.UDP_RX,
                     <<Tlv(TLV_IPV6_ADDRESS, n.address),
                       Tlv(TLV_UDP_ENCAPSULATION,
                           be16(n.source_port) \o be16(n.destination_port)
                           \o n.payload)>>)
          [] n.what = "Ack" -> Ok(empty_ack(n.message_id))
          [] n.what = "Petition" ->
                 Ok([empty_changed_response(H) EXCEPT !.payload =
                     TlvSetEncode(<<Tlv(TLV_STATE, <<MeshcopState[n.state]>>)>>
                         \o [k \in DOMAIN n.session_id |->
                               SessionTlv(n.session_id[k])]
                         \o [k \in DOMAIN n.existing |->
                               Tlv(TLV_COMMISSIONER_ID, n.existing[k])])[1]])

SentRead(n, bytes) ==
    Then(CoapDecode(bytes), LAMBDA m :
        CASE n.what = "UdpRx" ->
                 Then(parse_udp_rx(m), LAMBDA udp :
                     Ok([what |-> "UdpRx", address |-> udp[1].address,
                         source_port |-> udp[1].source_port,
                         destination_port |-> udp[1].destination_port,
                         payload |-> udp[1].payload]))
          [] n.what = "Ack" ->
                 IF is_empty_ack_for(m, n.message_id) THEN Ok(n) ELSE Err
          [] n.what = "Petition" ->
                 IF is_empty_ack_for(m, H.message_id) THEN Err ELSE
                 Then(parse_petition_response(m), LAMBDA p :
                     Ok([what |-> "Petition", state |-> p.state,
                         session_id |-> p.session_id, existing |-> p.existing]))
          [] OTHER -> parse_notification(m)[1])

-------------------------------------------------------------------------------
(* Kinds of messages: how each is written, which fit, how it is read. *)

Kinds == {"tlvs", "coap", "request", "notice", "datagram", "handshake",
          "client_hello", "server_hello", "hello_verify", "mask", "timestamp",
          "channel", "policy"}

HELLO_VERIFY_REQUEST == 3
HandshakeRecord(payload) == NewRecord(HANDSHAKE, 0, <<0, 0, 0, 5>>, payload)

\* A hello as its sender builds it: kkpp is <<>> or <<its bytes>>.
HelloOf(v) ==
    LET plain == thread_profile(v.random, v.cookie)
    IN  IF v.kkpp = <<>> THEN plain ELSE set_ecjpake_kkpp(plain, v.kkpp[1])

Encoded(kind, v) ==
    CASE kind = "tlvs" -> TlvSetEncode(v)
      [] kind = "coap" -> CoapEncode(v)
      [] kind = "request" -> Then(Build(v), CoapEncode)
      [] kind = "notice" -> Then(Sent(v), CoapEncode)
      [] kind = "datagram" -> EncodeAll(RecordEncode, v)
      [] kind = "handshake" -> EncodeAll(MessageEncode, v)
      [] kind = "client_hello" -> ClientHelloEncode(HelloOf(v))
      [] kind = "server_hello" -> ServerHelloEncode(v)
      [] kind = "hello_verify" ->
             Then(HelloVerifyEncode(v), LAMBDA body :
             Then(MessageEncode([ty |-> HELLO_VERIFY_REQUEST, seq |-> 1,
                                 payload |-> body]), LAMBDA bytes :
             Then(HandshakeRecord(bytes), RecordEncode)))
      [] kind = "mask" -> encode_all(v)
      [] kind = "timestamp" ->
             Ok(BytesOfWords(Timestamp(v.seconds, v.ticks, v.authoritative)))
      [] kind = "channel" -> Ok(ChannelToValue(v))
      [] kind = "policy" -> Ok(PolicyToValue(v))

\* v tells which reader the receiver uses where there are several.
Decoded(kind, v, bytes) ==
    CASE kind = "tlvs" -> TlvSetParse(bytes)
      [] kind = "coap" -> CoapDecode(bytes)
      [] kind = "request" -> RequestRead(v, bytes)
      [] kind = "notice" -> SentRead(v, bytes)
      [] kind = "datagram" -> parse_datagram(bytes)
      [] kind = "handshake" ->
             Then(HandshakeRecord(bytes), parse_unfragmented_handshake_messages)
      [] kind = "client_hello" ->
             Then(ClientHelloDecode(bytes), LAMBDA h :
                 Ok([random |-> h.random, cookie |-> h.cookie, kkpp |->
                     find_extension(h.extensions, EXTENSION_ECJPAKE_KKPP)]))
      [] kind = "server_hello" ->
             Then(ServerHelloDecode(bytes), LAMBDA h :
                 IF validate_thread_profile(h) THEN Ok(h) ELSE Err)
      [] kind = "hello_verify" ->
             Then(parse_datagram(bytes), LAMBDA records :
             IF records = <<>> THEN Err ELSE
             Then(parse_unfragmented_handshake_record(records[1],
                      HELLO_VERIFY_REQUEST), LAMBDA message :
             HelloVerifyDecode(message.payload)))
      [] kind = "mask" -> parse_all(bytes)
      [] kind = "timestamp" ->
             Then(TimestampParse(bytes), LAMBDA raw : Ok(TimestampFields(raw)))
      [] kind = "channel" -> ChannelParse(bytes)
      [] kind = "policy" -> PolicyParse(bytes)

InitMessage ==
    /\ part = "message"
    /\ \E kind \in Kinds : \E v \in Examples(kind) :
         /\ meant = [kind |-> kind, value |-> v]
         /\ held = [cut |-> 0, result |-> Encoded(kind, v)]

\* The carrier loses the tail of what was encoded.
Cut(n) ==
    /\ part = "message" /\ held.cut = 0 /\ held.result # Err
    /\ meant.kind \notin {"request", "notice"}
    /\ Len(held.result[1]) <= MaxCutLength /\ n <= Len(held.result[1])
    /\ held' = [cut |-> n, result |->
                  Ok(SubSeq(held.result[1], 1, Len(held.result[1]) - n))]
    /\ UNCHANGED <<part, meant>>

-------------------------------------------------------------------------------
(* Key agreement.  Each party's messages cross as bytes; a step that fails *)
(* ends the exchange for both.                                             *)

Party(role, secret, x1, x2) ==
    [role |-> role, secret |-> scalar_from_secret(secret), x1 |-> x1, x2 |-> x2]

InitJpake ==
    /\ part = "jpake"
    /\ \E sc, ss \in Secrets, x1, x2, x3, x4 \in Scalar \ {0} :
         meant = [client |-> Party("client", sc, x1, x2),
                  server |-> Party("server", ss, x3, x4)]
    /\ held = [at |-> "start", one |-> <<>>, flight |-> <<>>, two |-> <<>>,
               client_key |-> <<>>, server_key |-> <<>>]

Fail == held' = [held EXCEPT !.at = "failed"]

ClientHelloSent(nonce) ==
    /\ part = "jpake" /\ held.at = "start"
    /\ held' = [held EXCEPT !.at = "hello",
                   !.one = round_one(meant.client, nonce)]
    /\ UNCHANGED <<part, meant>>

\* The server's round one and round two leave together.
ServerFlight(nonce) ==
    LET peer == Then(encode_tls_kkpp(held.one), LAMBDA b :
                         decode_tls_kkpp(b, "client"))
        own == round_one(meant.server, nonce)
        two == Then(peer, LAMBDA one : round_two(meant.server, own, one, nonce))
    IN  /\ part = "jpake" /\ held.at = "hello"
        /\ IF two = Err THEN Fail
           ELSE held' = [held EXCEPT !.at = "flight",
                            !.flight = [one |-> own, two |-> two[1]]]
        /\ UNCHANGED <<part, meant>>

ClientFinish(nonce) ==
    LET one == Then(encode_tls_kkpp(held.flight.one), LAMBDA b :
                        decode_tls_kkpp(b, "server"))
        two == Then(encode_tls_key_exchange(held.flight.two, TRUE), LAMBDA b :
                        decode_tls_key_exchange(b, "server", TRUE))
        key == Then(one, LAMBDA o : Then(two, LAMBDA t :
                   finish(meant.client, held.one, o, t)))
        own == Then(one, LAMBDA o :
                   round_two(meant.client, held.one, o, nonce))
    IN  /\ part = "jpake" /\ held.at = "flight"
        /\ IF key = Err \/ own = Err THEN Fail
           ELSE held' = [held EXCEPT !.at = "exchange", !.two = own[1],
                            !.client_key = key]
        /\ UNCHANGED <<part, meant>>

ServerFinish ==
    LET one == Then(encode_tls_kkpp(held.one), LAMBDA b :
                        decode_tls_kkpp(b, "client"))
        two == Then(encode_tls_key_exchange(held.two, FALSE), LAMBDA b :
                        decode_tls_key_exchange(b, "client", FALSE))
        key == Then(one, LAMBDA o : Then(two, LAMBDA t :
                   finish(meant.server, held.flight.one, o, t)))
    IN  /\ part = "jpake" /\ held.at = "exchange"
        /\ IF key = Err THEN Fail
           ELSE held' = [held EXCEPT !.at = "done", !.server_key = key]
        /\ UNCHANGED <<part, meant>>

-------------------------------------------------------------------------------
Init == InitMessage \/ InitReassembly \/ InitDataset \/ InitSteering \/ InitJpake

Next ==
    \/ \E n \in 1..MaxCutLength : Cut(n)
    \/ Reassemble
    \/ EditDataset
    \/ Steer
    \/ \E nonce \in Nonces : ClientHelloSent(nonce) \/ ServerFlight(nonce)
                                                    \/ ClientFinish(nonce)
    \/ ServerFinish

Spec == Init /\ [][Next]_vars

-------------------------------------------------------------------------------
(* Properties. *)

AllBytes(v) == \A i \in DOMAIN v : v[i] \in Byte

\* Which values have an encoding: the limits of the formats, not the code's.
Fits(kind, v) ==
    CASE kind = "tlvs" -> \A i \in DOMAIN v : Len(v[i].value) < 2^16
      [] kind = "coap" -> /\ Len(v.token) <= 8
                          /\ \A i \in DOMAIN v.options :
                               Len(v.options[i].value) < 2^16
      [] kind = "request" ->
             CASE v.op = "mlr" -> v.addresses # <<>> /\
                     \A i \in DOMAIN v.addresses : v.addresses[i][1] = 255
               [] v.op \in {"announce", "pan_id", "scan"} -> v.mask # <<0, 0>>
               [] OTHER -> TRUE
      [] kind \in {"client_hello", "hello_verify"} -> Len(v.cookie) < 2^8
      [] kind = "server_hello" -> Len(v.session_id) < 2^8
      [] kind = "mask" -> \A i \in DOMAIN v : Len(v[i].mask) < 2^8
      [] OTHER -> TRUE


\* What is left of a value by the wire format itself: options in order of
\* their numbers, 48 bits of seconds and 15 of ticks.
Normal(kind, v) ==
    CASE kind = "coap" -> [v EXCEPT !.options = SortOptions(@)]
      [] kind = "timestamp" -> [v EXCEPT !.seconds = <<0>> \o Tail(@),
                                         !.ticks = @ % 2^15]
      [] OTHER -> v

\* RoundTrip: every value whose parts fit their length fields is encoded, to
\* bytes, and the decoder of the other side returns exactly that value; every
\* other value is refused and never written with a truncated length.  For
\* requests the reader is the program's own parsers, for notices the writer is
\* the mesh.  A ServerHello that selects another profile is decoded and
\* refused.  A handshake message enters the Finished hash as it is sent.
RoundTrip ==
    (part = "message" /\ held.cut = 0) =>
        LET v == meant.value
            bytes == held.result[1]
        IN  IF ~Fits(meant.kind, v) THEN held.result = Err
            ELSE /\ held.result # Err
                 /\ AllBytes(bytes)
                 /\ Decoded(meant.kind, v, bytes) =
                        IF meant.kind = "server_hello" /\ v.cipher_suite # 49407
                        THEN Err ELSE Ok(Normal(meant.kind, v))
                 /\ meant.kind = "handshake" =>
                        held.result = EncodeAll(transcript_bytes, v)

\* What may be read from a message that lost its tail.
CutReading(kind, v, read) ==
    CASE kind \in {"tlvs", "datagram", "handshake", "mask"} ->
             IsStrictPrefix(read, v)
      [] kind = "coap" ->
             LET sorted == SortOptions(v.options)
             IN  /\ IsPrefix(read.options, sorted)
                 /\ IsPrefix(read.payload, v.payload)
                 /\ read.payload # <<>> => read.options = sorted
                 /\ [read EXCEPT !.options = v.options, !.payload = v.payload] = v
      [] kind = "client_hello" -> read = [v EXCEPT !.kkpp = <<>>]
      [] kind = "server_hello" -> read = [v EXCEPT !.extensions = <<>>]
      [] OTHER -> FALSE

\* TruncationNeverMisread: the decoders are fed what arrived, and a message
\* that lost any part of its tail is refused or read as a leading part of
\* what was sent: whole TLVs, records or options, never one with a shortened
\* value and never another value.
TruncationNeverMisread ==
    (part = "message" /\ held.cut > 0) =>
        LET read == Decoded(meant.kind, meant.value, held.result[1])
        IN  read # Err => CutReading(meant.kind, meant.value, read[1])

\* KeysAgree: when both parties finish, their session keys are equal exactly
\* if their secrets are, but for two relations among the random scalars that
\* make the shared points equal or opposite.  With one secret the exchange
\* fails only where a generator or the shared point is the identity.
KeysAgree ==
    part = "jpake" =>
        LET c == meant.client
            s == meant.server
            same == c.secret = s.secret
            equal == Mod(c.x1 + c.x2 + s.x1 + s.x2) = 0
            opposite == Mod((c.secret + s.secret) * (c.x1 + s.x1)
                         + (c.x2 - s.x2) * (s.secret - c.secret)) = 0
        IN  /\ held.at = "done" =>
                 (held.client_key = held.server_key
                    <=> same \/ equal \/ opposite)
            /\ held.at = "failed" /\ same =>
                 0 \in {Mod(c.x1 + s.x1 + s.x2), Mod(c.x1 + c.x2 + s.x1),
                        Mod(c.x1 + s.x1)}

===============================================================================
