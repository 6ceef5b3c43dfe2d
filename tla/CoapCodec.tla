------------------------------- MODULE CoapCodec -------------------------------
(***************************************************************************)
(* CoAP messages: meshcop/coap.rs.  A message is [ty, code, message_id,    *)
(* token, options, payload], an option [number, value].                    *)
(***************************************************************************)
EXTENDS TlvCodec, SequencesExt

Confirmable == 0
NonConfirmable == 1
Acknowledgement == 2

EMPTY == 0
POST == 2
CHANGED == 68
COAP_OPTION_URI_PATH == 11

\* The nibble and the extension bytes of a delta or a length.
encode_extended_nibble(value) ==
    CASE value <= 12 -> <<value, <<>>>>
      [] value \in 13..268 -> <<13, <<value - 13>>>>
      [] OTHER -> <<14, be16(value - 269)>>

encode_option_header(delta, length) ==
    LET d == encode_extended_nibble(delta)
        l == encode_extended_nibble(length)
    IN  IF length > 65535 THEN Err
        ELSE Ok(<<d[1] * 16 + l[1]>> \o d[2] \o l[2])

\* The value a nibble stands for, and what is left behind its extension.
decode_extended_nibble(nibble, bytes) ==
    CASE nibble <= 12 -> Ok([got |-> nibble, rest |-> bytes])
      [] nibble = 13 -> Then(read_exact(1, bytes), LAMBDA r :
                          Ok([got |-> r.got[1] + 13, rest |-> r.rest]))
      [] nibble = 14 -> Then(read_exact(2, bytes), LAMBDA r :
                          IF from16(r.got) + 269 > 65535 THEN Err
                          ELSE Ok([got |-> from16(r.got) + 269,
                                   rest |-> r.rest]))
      [] OTHER -> Err

\* options.sort_by_key(|(idx, option)| (option.number, *idx))
SortOptions(options) ==
    LET Before(i, j) == \/ options[i].number < options[j].number
                        \/ options[i].number = options[j].number /\ i < j
        order == SetToSortSeq(DOMAIN options, Before)
    IN  [k \in DOMAIN options |-> options[order[k]]]

CoapEncode(m) ==
    LET sorted == SortOptions(m.options)
        last(k) == IF k = 1 THEN 0 ELSE sorted[k - 1].number
        One(k) == Then(encode_option_header(sorted[k].number - last(k),
                                            Len(sorted[k].value)),
                       LAMBDA header : Ok(header \o sorted[k].value))
        options == EncodeAll(One, [k \in DOMAIN sorted |-> k])
        payload == IF m.payload = <<>> THEN <<>> ELSE <<255>> \o m.payload
    IN  IF Len(m.token) > 8 \/ options = Err THEN Err
        ELSE Ok(<<64 + m.ty * 16 + Len(m.token), m.code>>
                \o be16(m.message_id) \o m.token \o options[1] \o payload)

(* Fault: an option is accepted although its value is cut short. *)
DecodeOption_Short(last, bytes) ==
    Then(decode_extended_nibble(bytes[1] \div 16, Tail(bytes)), LAMBDA delta :
    Then(decode_extended_nibble(bytes[1] % 16, delta.rest), LAMBDA length :
        LET n == IF Len(length.rest) < length.got THEN Len(length.rest)
                                                  ELSE length.got
        IN  Ok([number |-> last + delta.got,
                value |-> SubSeq(length.rest, 1, n),
                rest |-> Drop(length.rest, n)])))

\* One option behind number `last`.
DecodeOption(last, bytes) ==
    Then(decode_extended_nibble(bytes[1] \div 16, Tail(bytes)), LAMBDA delta :
    Then(decode_extended_nibble(bytes[1] % 16, delta.rest), LAMBDA length :
    Then(read_exact(length.got, length.rest), LAMBDA value :
        IF last + delta.got > 65535 THEN Err
        ELSE Ok([number |-> last + delta.got, value |-> value.got,
                 rest |-> value.rest]))))

\* The options up to the end or the payload marker, then the payload.
DecodeOptions(bytes) ==
    LET rest[last \in 0..65535, b \in Seq(Byte)] ==
            IF b = <<>> THEN Ok([options |-> <<>>, payload |-> <<>>])
            ELSE IF b[1] = 255
                 THEN Ok([options |-> <<>>, payload |-> Tail(b)])
            ELSE Then(DecodeOption(last, b), LAMBDA one :
                   Then(rest[one.number, one.rest], LAMBDA more :
                     Ok([more EXCEPT !.options =
                          <<[number |-> one.number, value |-> one.value]>>
                          \o @])))
    IN  rest[0, bytes]

CoapDecode(bytes) ==
    IF Len(bytes) < 4 \/ bytes[1] \div 64 # 1 \/ bytes[1] % 16 > 8 THEN Err
    ELSE Then(read_exact(bytes[1] % 16, Drop(bytes, 4)), LAMBDA token :
           Then(DecodeOptions(token.rest), LAMBDA tail :
             Ok([ty |-> (bytes[1] \div 16) % 4, code |-> bytes[2],
                 message_id |-> from16(Drop(bytes, 2)), token |-> token.got,
                 options |-> tail.options, payload |-> tail.payload])))

===============================================================================
