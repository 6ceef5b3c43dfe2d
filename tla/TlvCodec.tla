------------------------------- MODULE TlvCodec -------------------------------
(***************************************************************************)
(* TLVs (ot-commissioner-rs/src/tlv.rs), operational datasets and their    *)
(* typed values (dataset.rs), and steering data (crypto/pskc.rs).          *)
(***************************************************************************)
EXTENDS Bytes

MAX_STANDARD_TLV_LENGTH == 254
MAX_EXTENDED_TLV_LENGTH == 65535
EXTENDED_TLV_MARKER == 255

TlvEntry == [ty : Byte, value : Seq(Byte)]
Tlv(ty, value) == [ty |-> ty, value |-> value]

(* Fault: a 255-byte value is written in the standard form. *)
encode_header_Inclusive(ty, length) ==
    IF length <= 255 THEN Ok(<<ty, length>>)
    ELSE IF length <= MAX_EXTENDED_TLV_LENGTH
         THEN Ok(<<ty, EXTENDED_TLV_MARKER>> \o be16(length))
    ELSE Err

encode_header(ty, length) ==
    IF length <= MAX_STANDARD_TLV_LENGTH THEN Ok(<<ty, length>>)
    ELSE IF length <= MAX_EXTENDED_TLV_LENGTH
         THEN Ok(<<ty, EXTENDED_TLV_MARKER>> \o be16(length))
    ELSE Err

TlvEncode(entry) ==
    Then(encode_header(entry.ty, Len(entry.value)),
         LAMBDA header : Ok(header \o entry.value))

parse_one(bytes) ==
    LET extended == Len(bytes) >= 2 /\ bytes[2] = EXTENDED_TLV_MARKER
        header == IF extended THEN 4 ELSE 2
        length == IF extended THEN from16(Drop(bytes, 2)) ELSE bytes[2]
    IN  IF Len(bytes) < header THEN Err
        ELSE Then(read_exact(length, Drop(bytes, header)), LAMBDA r :
               Ok([got |-> Tlv(bytes[1], r.got), rest |-> r.rest]))

TlvSetEncode(entries) == EncodeAll(TlvEncode, entries)
TlvSetParse(bytes) == ParseAll(parse_one, bytes)

\* The last value of a type: Ok(value), or Err when there is none.
last_value(entries, ty) ==
    LET of_type == {i \in DOMAIN entries : entries[i].ty = ty}
        last == CHOOSE i \in of_type : \A j \in of_type : j <= i
    IN  IF of_type = {} THEN Err ELSE Ok(entries[last].value)

-------------------------------------------------------------------------------
(* Datasets.  A dataset is its TLVs in wire order. *)

remove_all(dataset, ty) ==
    LET kept[n \in 0..Len(dataset)] ==
            IF n = 0 THEN <<>>
            ELSE IF dataset[n].ty = ty THEN kept[n - 1]
            ELSE Append(kept[n - 1], dataset[n])
    IN  kept[Len(dataset)]

(* Fault: the new value is put in front of the TLVs instead of behind. *)
set_raw_Kept(dataset, ty, value) == <<Tlv(ty, value)>> \o dataset

set_raw(dataset, ty, value) ==
    Append(remove_all(dataset, ty), Tlv(ty, value))

\* Channel: a page and a 16-bit channel.
ChannelToValue(c) == <<c.page>> \o be16(c.channel)
ChannelParse(value) ==
    Then(read_array(3, value), LAMBDA v :
        Ok([page |-> v[1], channel |-> from16(Drop(v, 1))]))

\* A timestamp is a u64: four words.  seconds << 16 loses the top word.
Timestamp(seconds, ticks, authoritative) ==
    <<seconds[2], seconds[3], seconds[4],
      (ticks % 32768) * 2 + (IF authoritative THEN 1 ELSE 0)>>
TimestampFields(raw) ==
    [seconds |-> <<0, raw[1], raw[2], raw[3]>>,
     ticks |-> raw[4] \div 2,
     authoritative |-> raw[4] % 2 = 1]
TimestampParse(value) ==
    Then(read_array(8, value), LAMBDA v : Ok(WordsOf(v)))

\* A security policy: rotation time and flags.
PolicyToValue(p) == be16(p.rotation_time) \o be16(p.flags)
PolicyParse(value) ==
    Then(read_array(4, value), LAMBDA v :
        Ok([rotation_time |-> from16(v), flags |-> from16(Drop(v, 2))]))

\* "V1Or2" is the legacy flag; V3..V10 are bits 13-15.
LEGACY_ROUTERS_ENABLED == 4
Versions == {"V1Or2", "V3", "V4", "V5", "V6", "V7", "V8", "V9", "V10"}
FieldVersions == <<"V3", "V4", "V5", "V6", "V7", "V8", "V9", "V10">>
Legacy(flags) == (flags \div LEGACY_ROUTERS_ENABLED) % 2 = 1
to_bits(version) ==
    (CHOOSE i \in 1..8 : FieldVersions[i] = version) - 1
version_threshold_for_routing(flags) ==
    IF Legacy(flags) THEN "V1Or2" ELSE FieldVersions[flags \div 8192 + 1]
set_version_threshold_for_routing(flags, version) ==
    LET cleared == IF Legacy(flags) THEN flags - LEGACY_ROUTERS_ENABLED
                                    ELSE flags
    IN  IF version = "V1Or2" THEN cleared + LEGACY_ROUTERS_ENABLED
        ELSE (cleared % 8192) + to_bits(version) * 8192

\* Channel masks: entries of a page and its mask bytes.
MaskEntryEncode(entry) ==
    IF Len(entry.mask) > 255 THEN Err
    ELSE Ok(<<entry.page, Len(entry.mask)>> \o entry.mask)
MaskEntryParse(bytes) ==
    IF Len(bytes) < 2 THEN Err
    ELSE Then(read_vec_u8(Drop(bytes, 1)), LAMBDA r :
           Ok([got |-> [page |-> bytes[1], mask |-> r.got], rest |-> r.rest]))
encode_all(entries) == EncodeAll(MaskEntryEncode, entries)
parse_all(value) == ParseAll(MaskEntryParse, value)

TLV_CHANNEL == 0
TLV_PAN_ID == 1
TLV_EXTENDED_PAN_ID == 2
TLV_NETWORK_NAME == 3
TLV_PSKC == 4
TLV_NETWORK_KEY == 5
TLV_MESH_LOCAL_PREFIX == 7
TLV_SECURITY_POLICY == 12
TLV_ACTIVE_TIMESTAMP == 14
TLV_PENDING_TIMESTAMP == 51
TLV_DELAY_TIMER == 52
TLV_CHANNEL_MASK == 53

\* The length an accessor insists on.  The network name and the PSKc are
\* returned as they are; that a name is UTF-8 is not modelled.
FixedLength ==
    [ty \in {TLV_CHANNEL, TLV_PAN_ID, TLV_EXTENDED_PAN_ID, TLV_NETWORK_KEY,
             TLV_MESH_LOCAL_PREFIX, TLV_SECURITY_POLICY, TLV_ACTIVE_TIMESTAMP,
             TLV_PENDING_TIMESTAMP, TLV_DELAY_TIMER} |->
        CASE ty = TLV_CHANNEL -> 3
          [] ty = TLV_PAN_ID -> 2
          [] ty = TLV_NETWORK_KEY -> 16
          [] ty \in {TLV_SECURITY_POLICY, TLV_DELAY_TIMER} -> 4
          [] OTHER -> 8]

\* What the accessor of a type returns: None, an error, or the last value.
accessor(dataset, ty) ==
    LET raw == last_value(dataset, ty)
        wrong == \/ ty \in DOMAIN FixedLength /\ Len(raw[1]) # FixedLength[ty]
                 \/ ty = TLV_CHANNEL_MASK /\ parse_all(raw[1]) = Err
    IN  IF raw = Err THEN [st |-> "absent", value |-> <<>>]
        ELSE IF wrong THEN [st |-> "invalid", value |-> <<>>]
        ELSE [st |-> "present", value |-> raw[1]]

-------------------------------------------------------------------------------
(* Steering data: a Bloom filter of two CRCs of the joiner ID. *)

MAX_STEERING_DATA_LEN == 16

\* Every byte enters the high half, and leaves it in eight steps.
crc16(poly, bytes) ==
    LET Shift[n \in Nat] == IF n >= 32768 THEN Xor[<<(2 * n) % 65536, poly>>] ELSE 2 * n
        crc[k \in 0..(8 * Len(bytes))] ==
            IF k = 0 THEN 0
            ELSE Shift[IF k % 8 = 1 THEN Xor[<<crc[k - 1], 256 * bytes[(k + 7) \div 8]>>]
                                    ELSE crc[k - 1]]
    IN  crc[8 * Len(bytes)]

\* Bits count from the last byte; out[idx] |= 1 << (bit % 8).
HasBit(byte, n) == (byte \div Weight[n + 1]) % 2 = 1
set_bit(filter, bit) ==
    LET i == Len(filter) - bit \div 8
        n == bit % 8
    IN  [filter EXCEPT ![i] = IF HasBit(@, n) THEN @ ELSE @ + Weight[n + 1]]
bloom_bit(poly, filter, joiner_id) == crc16(poly, joiner_id) % (8 * Len(filter))
compute_bloom_filter(filter, joiner_id) ==
    set_bit(set_bit(filter, bloom_bit(4129, filter, joiner_id)),
            bloom_bit(32773, filter, joiner_id))

(* Fault: a full-length filter is cleared as well. *)
add_joiner_to_steering_data_Clears(filter, joiner_id) ==
    compute_bloom_filter(Repeat(0, MAX_STEERING_DATA_LEN), joiner_id)

add_joiner_to_steering_data(filter, joiner_id) ==
    compute_bloom_filter(
        IF Len(filter) # MAX_STEERING_DATA_LEN
        THEN Repeat(0, MAX_STEERING_DATA_LEN) ELSE filter, joiner_id)

===============================================================================
