------------------------------- MODULE DtlsCodec -------------------------------
(***************************************************************************)
(* DTLS framing: records (thread-dtls/src/record.rs), handshake messages,  *)
(* fragments and their reassembly (handshake.rs), hello messages           *)
(* (hello.rs) and the EC J-PAKE structures they carry (ecjpake/codec.rs).  *)
(*                                                                         *)
(* A record sequence number is a u64: four words.  A random is 32 bytes.   *)
(***************************************************************************)
EXTENDS Bytes

DTLS_1_2_VERSION == 65277

-------------------------------------------------------------------------------
(* Records. *)

ContentTypes == 20..23
HANDSHAKE == 22

\* DtlsRecord::new: the payload must fit the 16-bit length.
NewRecord(content_type, epoch, sequence, payload) ==
    IF Len(payload) > 65535 THEN Err
    ELSE Ok([content_type |-> content_type, version |-> DTLS_1_2_VERSION,
             epoch |-> epoch, sequence |-> sequence, length |-> Len(payload),
             payload |-> payload])

\* Only the low 48 bits of the sequence number are written.
RecordEncode(r) ==
    IF Len(r.payload) # r.length THEN Err
    ELSE Ok(<<r.content_type>> \o be16(r.version) \o be16(r.epoch)
            \o BytesOfWords(Tail(r.sequence)) \o be16(r.length) \o r.payload)

RecordParse(bytes) ==
    IF Len(bytes) < 13 \/ bytes[1] \notin ContentTypes THEN Err
    ELSE Then(read_exact(from16(SubSeq(bytes, 12, 13)), Drop(bytes, 13)),
              LAMBDA body :
           Ok([got |-> [content_type |-> bytes[1],
                        version |-> from16(SubSeq(bytes, 2, 3)),
                        epoch |-> from16(SubSeq(bytes, 4, 5)),
                        sequence |-> <<0>> \o WordsOf(SubSeq(bytes, 6, 11)),
                        length |-> from16(SubSeq(bytes, 12, 13)),
                        payload |-> body.got],
               rest |-> body.rest]))

parse_datagram(bytes) == ParseAll(RecordParse, bytes)

-------------------------------------------------------------------------------
(* Handshake messages and fragments. *)

HandshakeTypes == 0..3 \cup 11..16 \cup {20}
MAX_U24 == 16777215
HEADER_LEN == 12

\* HandshakeHeader::validate.
ValidHeader(f) ==
    /\ f.length <= MAX_U24 /\ f.offset <= MAX_U24 /\ f.size <= MAX_U24
    /\ f.offset + f.size <= f.length

Fragment(ty, seq, length, offset, bytes) ==
    [ty |-> ty, seq |-> seq, length |-> length, offset |-> offset,
     size |-> Len(bytes), bytes |-> bytes]

FragmentEncode(f) ==
    IF Len(f.bytes) # f.size \/ ~ValidHeader(f) THEN Err
    ELSE Ok(<<f.ty>> \o be24(f.length) \o be16(f.seq) \o be24(f.offset)
            \o be24(f.size) \o f.bytes)

FragmentParse(bytes) ==
    IF Len(bytes) < HEADER_LEN \/ bytes[1] \notin HandshakeTypes THEN Err
    ELSE LET length == from24(SubSeq(bytes, 2, 4))
             offset == from24(SubSeq(bytes, 7, 9))
             size == from24(SubSeq(bytes, 10, 12))
         IN  IF offset + size > length THEN Err
             ELSE Then(read_exact(size, Drop(bytes, HEADER_LEN)), LAMBDA r :
                    Ok([got |-> Fragment(bytes[1], from16(SubSeq(bytes, 5, 6)),
                                         length, offset, r.got),
                        rest |-> r.rest]))

\* HandshakeMessage::fragment; an empty body is one empty fragment.
fragment(m, max) ==
    LET n == (Len(m.payload) + max - 1) \div max
        At(k) == (k - 1) * max
    IN  IF max = 0 \/ Len(m.payload) > MAX_U24 THEN Err
        ELSE Ok([k \in 1..(IF n = 0 THEN 1 ELSE n) |->
                   Fragment(m.ty, m.seq, Len(m.payload), At(k),
                            SubSeq(m.payload, At(k) + 1,
                                   IF At(k) + max <= Len(m.payload)
                                   THEN At(k) + max ELSE Len(m.payload)))])

\* encode and transcript_bytes: the message as a single fragment.
MessageEncode(m) ==
    Then(fragment(m, IF m.payload = <<>> THEN 1 ELSE Len(m.payload)),
         LAMBDA fs : FragmentEncode(fs[1]))
transcript_bytes(m) ==
    FragmentEncode(Fragment(m.ty, m.seq, Len(m.payload), 0, m.payload))

Whole(f) == f.offset = 0 /\ f.size = f.length
MessageOf(f) == [ty |-> f.ty, seq |-> f.seq, payload |-> f.bytes]

parse_unfragmented_handshake_record(r, expected_type) ==
    IF r.content_type # HANDSHAKE THEN Err
    ELSE Then(FragmentParse(r.payload), LAMBDA f :
           IF f.rest # <<>> \/ f.got.ty # expected_type \/ ~Whole(f.got)
           THEN Err ELSE Ok(MessageOf(f.got)))

parse_unfragmented_handshake_messages(r) ==
    IF r.content_type # HANDSHAKE THEN Err
    ELSE ParseAll(LAMBDA b : Then(FragmentParse(b), LAMBDA f :
             IF Whole(f.got)
             THEN Ok([got |-> MessageOf(f.got), rest |-> f.rest])
             ELSE Err), r.payload)

-------------------------------------------------------------------------------
(* HandshakeReassembler.  ty = -1 while no fragment has initialised it. *)

MAX_HANDSHAKE_MESSAGE_LEN == 65536
EmptyReassembler == [ty |-> -1, seq |-> -1, bytes |-> <<>>, filled |-> {}]

initialize_or_validate(a, f) ==
    IF a = EmptyReassembler
    THEN IF f.length > MAX_HANDSHAKE_MESSAGE_LEN THEN Err
         ELSE Ok([ty |-> f.ty, seq |-> f.seq, bytes |-> Repeat(0, f.length),
                  filled |-> {}])
    ELSE IF a.ty = f.ty /\ a.seq = f.seq /\ Len(a.bytes) = f.length
         THEN Ok(a) ELSE Err

\* The positions the loop writes: all of the fragment's, or those before the
\* first one that is already filled with a different byte.
Positions(f) == (f.offset + 1)..(f.offset + Len(f.bytes))
Conflicts(a, f) ==
    {p \in Positions(f) \cap a.filled : a.bytes[p] # f.bytes[p - f.offset]}
Written(a, f) == {p \in Positions(f) : \A c \in Conflicts(a, f) : p < c}

Write(a, f, where) ==
    [ty |-> a.ty, seq |-> a.seq,
     bytes |-> [p \in DOMAIN a.bytes |-> IF p \in where THEN f.bytes[p - f.offset]
                                         ELSE a.bytes[p]],
     filled |-> a.filled \cup where]

\* Both forms return the reassembler after the call and the call's result:
\* Err, Ok(<<>>) while bytes are missing, Ok(<<message>>).
Pushed(a, f, where) ==
    LET after == Write(a, f, where)
    IN  [asm |-> after,
         res |-> IF where # Positions(f) THEN Err
                 ELSE IF after.filled = DOMAIN after.bytes
                 THEN Ok(<<[ty |-> after.ty, seq |-> after.seq,
                            payload |-> after.bytes]>>)
                 ELSE Ok(<<>>)]

(* Fault: the overlap is not compared with the bytes already there. *)
push_Overwrites(a, f) ==
    LET begun == initialize_or_validate(a, f)
    IN  IF begun = Err THEN [asm |-> a, res |-> Err]
        ELSE IF f.offset + Len(f.bytes) > Len(begun[1].bytes)
        THEN [asm |-> begun[1], res |-> Err]
        ELSE Pushed(begun[1], f, Positions(f))

push(a, f) ==
    LET begun == initialize_or_validate(a, f)
    IN  IF begun = Err THEN [asm |-> a, res |-> Err]
        ELSE IF f.offset + Len(f.bytes) > Len(begun[1].bytes)
        THEN [asm |-> begun[1], res |-> Err]
        ELSE Pushed(begun[1], f, Written(begun[1], f))

-------------------------------------------------------------------------------
(* Hello messages.  An extension is [ty, data]. *)

TLS_ECJPAKE_WITH_AES_128_CCM_8 == 49407
TLS_EMPTY_RENEGOTIATION_INFO_SCSV == 255
EXTENSION_MAX_FRAGMENT_LENGTH == 1
EXTENSION_ECJPAKE_KKPP == 256

Extension(ty, data) == [ty |-> ty, data |-> data]
supported_groups_extension == Extension(10, <<0, 2, 0, 23>>)
signature_algorithms_extension == Extension(13, <<0, 2, 4, 3>>)
ec_point_formats_extension == Extension(11, <<1, 0>>)
max_fragment_length_extension == Extension(EXTENSION_MAX_FRAGMENT_LENGTH, <<2>>)

\* The first extension of a type, if any.
find_extension(extensions, ty) ==
    LET found == SelectSeq(extensions, LAMBDA x : x.ty = ty)
    IN  IF found = <<>> THEN <<>> ELSE <<found[1].data>>

\* One length byte or two, and what they count.
Vec8(v) == IF Len(v) > 255 THEN Err ELSE Ok(<<Len(v)>> \o v)
Vec16(v) == IF Len(v) > 65535 THEN Err ELSE Ok(be16(Len(v)) \o v)

append_extensions(extensions) ==
    Then(EncodeAll(LAMBDA x : Then(Vec16(x.data), LAMBDA data :
                                  Ok(be16(x.ty) \o data)),
                   extensions), Vec16)

read_extensions(bytes) ==
    IF bytes = <<>> THEN Ok([got |-> <<>>, rest |-> <<>>])
    ELSE Then(read_vec_u16(bytes), LAMBDA all :
           Then(ParseAll(LAMBDA b :
                    Then(read_exact(2, b), LAMBDA ty :
                      Then(read_vec_u16(ty.rest), LAMBDA data :
                        Ok([got |-> Extension(from16(ty.got), data.got),
                            rest |-> data.rest]))), all.got),
                LAMBDA extensions :
                    Ok([got |-> extensions, rest |-> all.rest])))

thread_profile(random, cookie) ==
    [random |-> random, session_id |-> <<>>, cookie |-> cookie,
     cipher_suites |-> <<TLS_ECJPAKE_WITH_AES_128_CCM_8,
                         TLS_EMPTY_RENEGOTIATION_INFO_SCSV>>,
     compression_methods |-> <<0>>,
     extensions |-> <<supported_groups_extension,
                      signature_algorithms_extension,
                      ec_point_formats_extension>>]

\* The extension replaces an earlier one and the max-fragment-length follows it.
set_ecjpake_kkpp(hello, kkpp) ==
    [hello EXCEPT !.extensions =
        SelectSeq(@, LAMBDA x : x.ty \notin {EXTENSION_ECJPAKE_KKPP,
                                             EXTENSION_MAX_FRAGMENT_LENGTH})
        \o <<Extension(EXTENSION_ECJPAKE_KKPP, kkpp),
             max_fragment_length_extension>>]

\* Encodings laid end to end, or the first error among them.
Joined(parts) == EncodeAll(LAMBDA part : part, parts)

ClientHelloEncode(h) ==
    Joined(<<Ok(be16(DTLS_1_2_VERSION) \o h.random), Vec8(h.session_id),
             Vec8(h.cookie), Vec16(BytesOfWords(h.cipher_suites)),
             Vec8(h.compression_methods), append_extensions(h.extensions)>>)

\* Version and random, and what follows them.
HelloStart(bytes) ==
    Then(read_exact(2, bytes), LAMBDA v :
        IF from16(v.got) # DTLS_1_2_VERSION THEN Err
        ELSE read_exact(32, v.rest))

ClientHelloDecode(bytes) ==
    Then(HelloStart(bytes), LAMBDA random :
    Then(read_vec_u8(random.rest), LAMBDA session_id :
    Then(read_vec_u8(session_id.rest), LAMBDA cookie :
    Then(read_vec_u16(cookie.rest), LAMBDA suites :
        IF Len(suites.got) % 2 # 0 THEN Err ELSE
    Then(read_vec_u8(suites.rest), LAMBDA methods :
    Then(read_extensions(methods.rest), LAMBDA extensions :
        IF extensions.rest # <<>> THEN Err
        ELSE Ok([random |-> random.got, session_id |-> session_id.got,
                 cookie |-> cookie.got, cipher_suites |-> WordsOf(suites.got),
                 compression_methods |-> methods.got,
                 extensions |-> extensions.got])))))))

HelloVerifyEncode(h) ==
    Joined(<<Ok(be16(h.server_version)), Vec8(h.cookie)>>)
HelloVerifyDecode(bytes) ==
    Then(read_exact(2, bytes), LAMBDA v :
    Then(read_vec_u8(v.rest), LAMBDA cookie :
        IF cookie.rest # <<>> THEN Err
        ELSE Ok([server_version |-> from16(v.got), cookie |-> cookie.got])))

ServerHelloEncode(h) ==
    Joined(<<Ok(be16(DTLS_1_2_VERSION) \o h.random), Vec8(h.session_id),
             Ok(be16(h.cipher_suite) \o <<h.compression_method>>),
             append_extensions(h.extensions)>>)
ServerHelloDecode(bytes) ==
    Then(HelloStart(bytes), LAMBDA random :
    Then(read_vec_u8(random.rest), LAMBDA session_id :
    Then(read_exact(3, session_id.rest), LAMBDA chosen :
    Then(read_extensions(chosen.rest), LAMBDA extensions :
        IF extensions.rest # <<>> THEN Err
        ELSE Ok([random |-> random.got, session_id |-> session_id.got,
                 cipher_suite |-> from16(SubSeq(chosen.got, 1, 2)),
                 compression_method |-> chosen.got[3],
                 extensions |-> extensions.got])))))

validate_thread_profile(h) ==
    h.cipher_suite = TLS_ECJPAKE_WITH_AES_128_CCM_8 /\ h.compression_method = 0

===============================================================================
