------------------------------- MODULE MCCodecs -------------------------------
(* Values for Codecs: every format on both sides of each of its limits.     *)
EXTENDS Codecs

Bytes32 == [i \in 1..32 |-> i]
Addr(first) == [i \in 1..16 |-> IF i = 1 THEN first ELSE i]
Iid == <<1, 2, 3, 4, 5, 6, 7, 8>>

TlvExamples ==
    {<<Tlv(1, Repeat(7, n))>> : n \in {0, 1, 2, 254, 255, 256, 300, 65535, 65536}}
    \cup {<<>>, <<Tlv(255, <<255>>), Tlv(0, <<>>), Tlv(255, <<1, 2>>)>>,
          <<Tlv(3, Repeat(255, 255)), Tlv(4, <<9>>)>>}

CoapOf(token, options, payload) ==
    [ty |-> NonConfirmable, code |-> POST, message_id |-> 65535,
     token |-> token, options |-> options, payload |-> payload]
Opt(number, n) == [number |-> number, value |-> Repeat(11, n)]
CoapExamples ==
    {CoapOf(<<>>, <<Opt(number, n)>>, payload) :
        number \in {0, 12, 13, 268, 269, 65535}, n \in {0, 12, 13},
        payload \in {<<>>, <<255, 0>>}}
    \cup {CoapOf(<<5>>, <<Opt(11, n)>>, <<1>>) : n \in {14, 268, 269, 270, 65536}}
    \cup {CoapOf(<<>>, <<Opt(300, 1), Opt(11, 2), Opt(31, 0), Opt(11, 1)>>, <<4, 5>>)}
    \cup {CoapOf(Repeat(9, n), <<>>, <<>>) : n \in {0, 1, 8, 9}}

MaskValue == <<2047, 63488>>
PolicyTlv(rotation, flags) ==
    Tlv(TLV_SECURITY_POLICY, be16(rotation) \o be16(flags))
StampTlv == Tlv(TLV_PENDING_TIMESTAMP, Iid)
RequestExamples ==
    {[op |-> "petition", id |-> <<111, 116>>]}
    \cup [op : {"keep_alive"}, session : {0, 65535}, accept : BOOLEAN]
    \cup [op : {"get"}, path : {"MGMT_ACTIVE_GET", "MGMT_PENDING_GET"},
          types : {<<>>, dataset_tlv_types({4, 5, 9, 15}, TRUE),
                   commissioner_dataset_tlv_types({10, 13, 14})}]
    \cup [op : {"set"}, path : {"MGMT_ACTIVE_SET"}, session : {258},
          tlvs : {<<>>, <<PolicyTlv(672, 255)>>, <<Tlv(3, Repeat(5, 300))>>}]
    \cup [op : {"secure_pending"}, session : {258}, timer : {<<1, 2>>},
          uri : {<<99, 111>>}, tlvs : {<<>>, <<StampTlv, Tlv(1, <<1, 2>>)>>}]
    \cup [op : {"announce"}, session : {1}, mask : {MaskValue, <<0, 0>>},
          count : {255}, period : {256}, confirmable : BOOLEAN]
    \cup [op : {"pan_id"}, session : {1}, mask : {MaskValue, <<0, 0>>},
          pan_id : {64222}, confirmable : BOOLEAN]
    \cup [op : {"scan"}, session : {1}, mask : {MaskValue, <<0, 0>>},
          count : {1}, period : {2}, duration : {65535}, confirmable : BOOLEAN]
    \cup [op : {"command"}, path : {"MGMT_REENROLL", "MGMT_DOMAIN_RESET"},
          session : {9}, confirmable : BOOLEAN]
    \cup [op : {"migrate"}, session : {9}, network : {<<110>>},
          confirmable : BOOLEAN]
    \cup [op : {"diag"}, path : {"DIAG_GET_QUERY", "DIAG_RESET"},
          flags : {{}, {0}, {3, 10, 16}, 0..16}, confirmable : BOOLEAN]
    \cup [op : {"mlr"}, session : {3}, timeout : {<<65535, 1>>},
          addresses : {<<>>, <<Addr(255)>>, <<Addr(255), Addr(254)>>,
                       [i \in 1..16 |-> Addr(255)]}]
    \cup [op : {"relay_tx"}, iid : {Iid}, port : {1000}, locator : {1024},
          payload : {Repeat(22, n) : n \in {0, 254, 255}},
          kek : {<<>>, <<Repeat(3, 16)>>}]
    \cup [op : {"udp_tx"}, address : {Addr(253)}, port : {61631},
          payload : {Repeat(64, n) : n \in {0, 250, 251}}]

ModeValue == [rx_on_when_idle |-> TRUE, is_mtd |-> FALSE,
              full_network_data |-> TRUE]
Route(id, out, in, cost) ==
    [router_id |-> id, out |-> out, in |-> in, cost |-> cost]
ChildOf(id) == [timeout_exponent |-> 31, in |-> 2, child_id |-> id,
                mode |-> [ModeValue EXCEPT !.is_mtd = TRUE]]
PrefixOf(bits, routes) ==
    [domain_id |-> 0, bit_length |-> bits,
     prefix |-> Repeat(253, (bits + 7) \div 8), has_route |-> routes,
     border_routers |-> <<>>, context |-> <<>>]
RouterEntry(slaac, dp) ==
    [rloc16 |-> 2048, preference |-> 1, is_preferred |-> ~slaac,
     is_slaac |-> slaac, is_dhcp |-> ~slaac, is_configure |-> slaac,
     is_default_route |-> ~slaac, is_on_mesh |-> slaac,
     is_nd_dns |-> ~dp, is_dp |-> dp]
FullPrefix ==
    [PrefixOf(64, <<>>) EXCEPT
        !.border_routers = <<RouterEntry(TRUE, FALSE), RouterEntry(FALSE, TRUE)>>,
        !.context = <<[is_compress |-> TRUE, context_id |-> 15,
                       context_length |-> 64]>>]
DiagExamples ==
    {(1 :> <<<<4, 0>>>>) @@ (2 :> <<ModeValue>>) @@
     (5 :> <<[id_sequence |-> 7, routes |-> routes]>>) @@
     (16 :> <<<<ChildOf(1), ChildOf(511)>>>>) @@
     (30 :> <<[rloc16 |-> 1025, child_id |-> 1, addresses |-> <<Addr(253)>>],
              [rloc16 |-> 1026, child_id |-> 2, addresses |-> <<>>]>>) :
        routes \in {<<>>, <<Route(0, 3, 2, 1), Route(7, 0, 3, 15),
                            Route(8, 1, 1, 0), Route(62, 2, 0, 2)>>}}
    \cup {(7 :> <<<<FullPrefix, PrefixOf(bits, <<[rloc16 |-> 1024,
              preference |-> 3, is_nat64 |-> TRUE]>>)>>>>) @@
          (8 :> <<<<Addr(253), Addr(254)>>>>) : bits \in {0, 1, 48, 49}}
    \cup {(0 :> <<Iid>>) @@ (3 :> <<<<0, 0, 1, 44>>>>) @@ (23 :> <<Iid>>) @@
          (4 :> <<[priority |-> priority, counts |-> <<1, 2, 3, 4, 5, 6>>,
                   rx_off_child |-> buffer]>>) :
            priority \in {-2, -1, 0, 1}, buffer \in {<<>>, <<5, 0, 1>>}}
    \cup {(6 :> <<Iid>>) @@ (9 :> <<[k \in 1..9 |-> <<0, 1, k, 255>>]>>) @@
          (14 :> <<<<99>>>>) @@ (15 :> <<<<12, 228>>>>)}
NoticeExamples ==
    {[what |-> "DatasetChanged"], [what |-> "Ack", message_id |-> 258]}
    \cup [what : {"PanIdConflict"}, mask : {MaskValue}, pan_id : {64222}]
    \cup [what : {"EnergyReport"}, mask : {MaskValue}, list : {<<>>, <<200, 201>>}]
    \cup [what : {"RelayRx"}, port : {1000}, locator : {1024}, iid : {Iid},
          payload : {<<>>, Repeat(22, 255)}]
    \cup [what : {"DiagGetAnswer"}, data : DiagExamples]
    \cup [what : {"UdpRx"}, address : {Addr(253)}, source_port : {61631},
          destination_port : {49191}, payload : {<<>>, <<96, 1>>}]
    \cup [what : {"Petition"}, state : {"Accept", "Reject", "Pending"},
          session_id : {<<>>, <<65535>>}, existing : {<<>>, <<<<111>>>>}]

Rec(ty, epoch, sequence, n) == NewRecord(ty, epoch, sequence, Repeat(8, n))[1]
DatagramExamples ==
    {<<>>, <<Rec(23, 1, <<0, 65535, 1, 2>>, 3)>>, <<Rec(22, 0, <<0, 0, 0, 256>>, 256)>>,
     <<Rec(20, 0, <<0, 0, 0, 7>>, 1), Rec(22, 65535, <<0, 0, 1, 0>>, 0)>>}

HandshakeExamples ==
    {<<[ty |-> 14, seq |-> 4, payload |-> <<>>]>>,
     <<[ty |-> 1, seq |-> 0, payload |-> Repeat(3, 300)]>>,
     <<[ty |-> 2, seq |-> 1, payload |-> <<1, 2, 3>>],
       [ty |-> 14, seq |-> 65535, payload |-> <<>>]>>}

ClientHelloExamples ==
    [random : {Bytes32}, cookie : {Repeat(6, n) : n \in {0, 3, 255, 256}},
     kkpp : {<<>>, <<<<1, 2, 3>>>>}]
ServerHelloExamples ==
    [random : {Bytes32}, session_id : {<<>>, Repeat(1, 255), Repeat(1, 256)},
     cipher_suite : {TLS_ECJPAKE_WITH_AES_128_CCM_8}, compression_method : {0},
     extensions : {<<>>, <<ec_point_formats_extension,
                           Extension(EXTENSION_ECJPAKE_KKPP, <<4, 5>>)>>}]
    \cup [random : {Bytes32}, session_id : {<<>>}, cipher_suite : {49192},
          compression_method : {0}, extensions : {<<>>}]
HelloVerifyExamples ==
    [server_version : {DTLS_1_2_VERSION},
     cookie : {Repeat(6, n) : n \in {0, 4, 255, 256}}]

MaskExamples ==
    {<<>>, <<[page |-> 0, mask |-> <<7, 255, 248, 0>>]>>,
     <<[page |-> 2, mask |-> <<>>], [page |-> 0, mask |-> <<1>>]>>}
    \cup {<<[page |-> 0, mask |-> Repeat(1, n)]>> : n \in {255, 256}}
TimestampExamples ==
    [seconds : {<<0, 0, 0, 1>>, <<0, 65535, 65535, 65535>>, <<1, 0, 0, 2>>},
     ticks : {0, 1, 32767, 32768}, authoritative : BOOLEAN]

MCExamples(kind) ==
    CASE kind = "tlvs" -> TlvExamples
      [] kind = "coap" -> CoapExamples
      [] kind = "request" -> RequestExamples
      [] kind = "notice" -> NoticeExamples
      [] kind = "datagram" -> DatagramExamples
      [] kind = "handshake" -> HandshakeExamples
      [] kind = "client_hello" -> ClientHelloExamples
      [] kind = "server_hello" -> ServerHelloExamples
      [] kind = "hello_verify" -> HelloVerifyExamples
      [] kind = "mask" -> MaskExamples
      [] kind = "timestamp" -> TimestampExamples
      [] kind = "channel" -> [page : {0, 2}, channel : {11, 255, 65535}]
      [] kind = "policy" -> [rotation_time : {672, 65535}, flags : {0, 255, 57344}]

\* A dataset as it came, with a duplicate; the same with a policy that is one
\* byte short; an empty one.
PanTlv(id) == Tlv(TLV_PAN_ID, be16(id))
MCDatasets ==
    {<<PanTlv(1), PolicyTlv(672, 57343), PanTlv(2)>>,
     <<Tlv(TLV_SECURITY_POLICY, <<2, 160, 0>>), PanTlv(1)>>, <<>>}
MCEdits == {PanTlv(3), PolicyTlv(1, 24580), Tlv(TLV_PAN_ID, Repeat(1, 255))}

MCJoiners == {[i \in 1..8 |-> (n * 37 + i * i) % 256] : n \in 1..5}
MCFilters == {<<>>, <<255>>, <<0>>, Repeat(0, 16), Repeat(170, 16)}

===============================================================================
