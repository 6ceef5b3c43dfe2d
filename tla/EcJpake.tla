-------------------------------- MODULE EcJpake --------------------------------
(***************************************************************************)
(* The EC J-PAKE key agreement of thread-dtls/src/ecjpake/: the party, its *)
(* Schnorr proofs and their TLS encoding.                                  *)
(*                                                                         *)
(* P-256 is replaced by a group of prime order Order written additively: a *)
(* point is its discrete logarithm, the generator is 1 and the identity 0. *)
(* A coordinate is one byte; p and -p share the first one, as points of a  *)
(* curve do.  A scalar keeps its 32 bytes.                                 *)
(***************************************************************************)
EXTENDS DtlsCodec

CONSTANT Order                  \* the group's prime order, at most 251

ASSUME OrderAssumption == Order \in 3..251

Scalar == 0..(Order - 1)
Mod(n) == n % Order
IDENTITY == 0
GENERATOR == 1

-------------------------------------------------------------------------------
(* p256: SEC1 points, SHA-256 as an unstructured function. *)

x_of(p) == IF 2 * p <= Order THEN p ELSE Order - p
point_to_bytes(p) == IF p = IDENTITY THEN <<0>> ELSE <<4, x_of(p), p>>
Compressed(p) == <<IF p = x_of(p) THEN 2 ELSE 3, x_of(p)>>

\* Either form of a point that is not the identity.
point_from_bytes(bytes) ==
    LET found == {p \in Scalar \ {IDENTITY} :
                    bytes \in {point_to_bytes(p), Compressed(p)}}
    IN  IF found = {} THEN Err ELSE Ok(CHOOSE p \in found : TRUE)

scalar_to_repr(n) == Repeat(0, 31) \o <<n>>
scalar_from_repr(bytes) ==
    IF SubSeq(bytes, 1, 31) = Repeat(0, 31) /\ bytes[32] \in Scalar
    THEN Ok(bytes[32]) ELSE Err

\* A secret that reduces to zero is taken to be one.
scalar_from_secret(secret) == IF Mod(secret) = 0 THEN 1 ELSE Mod(secret)

\* Fiat-Shamir: some function of everything that is hashed.
challenge_scalar(base, v, public, prover_id) ==
    Mod(3 * base + v * v + 2 * public * (v + 1)
        + (IF prover_id = "client" THEN 1 ELSE 2))

\* Only the x coordinate of the shared point enters the session key.
derive_session_key(shared) == x_of(shared)

-------------------------------------------------------------------------------
(* SchnorrProof. *)

\* nonce is the prover's random nonzero scalar.
generate(base, private, public, prover_id, nonce) ==
    LET v == Mod(base * nonce)
        h == challenge_scalar(base, v, public, prover_id)
    IN  [v |-> point_to_bytes(v),
         r |-> scalar_to_repr(Mod(nonce - private * h)),
         prover_id |-> prover_id]

verify(proof, base, public, expected_prover_id) ==
    IF proof.prover_id # expected_prover_id \/ public = IDENTITY THEN Err
    ELSE Then(point_from_bytes(proof.v), LAMBDA v :
         Then(scalar_from_repr(proof.r), LAMBDA r :
           IF point_to_bytes(Mod(base * r + public
                 * challenge_scalar(base, v, public, expected_prover_id)))
              # proof.v
           THEN Err ELSE Ok("verified")))

-------------------------------------------------------------------------------
(* EcJpakeParty: [role, secret, x1, x2]; the identity is the role's name. *)

peer_role(role) == IF role = "client" THEN "server" ELSE "client"

round_one(party, nonce) ==
    LET Proof(x) == generate(GENERATOR, x, x, party.role, nonce)
    IN  [g1 |-> point_to_bytes(party.x1), g2 |-> point_to_bytes(party.x2),
         proof1 |-> Proof(party.x1), proof2 |-> Proof(party.x2),
         participant_id |-> party.role]

verify_round_one(peer) ==
    Then(point_from_bytes(peer.g1), LAMBDA g1 :
    Then(point_from_bytes(peer.g2), LAMBDA g2 :
    Then(verify(peer.proof1, GENERATOR, g1, peer.participant_id), LAMBDA ok :
         verify(peer.proof2, GENERATOR, g2, peer.participant_id))))

(* Fault: both parties' generators leave out the sender's own first point. *)
second_round_base_OwnSecond(role, own, peer, sender) ==
    LET P(bytes) == point_from_bytes(bytes)[1]
    IN  IF sender = role
        THEN Mod(P(own.g2) + P(peer.g1) + P(peer.g2))
        ELSE Mod(P(own.g1) + P(own.g2) + P(peer.g1))

\* The sender's first point and both of the receiver's.
second_round_base(role, own, peer, sender) ==
    LET P(bytes) == point_from_bytes(bytes)[1]
    IN  IF sender = role
        THEN Mod(P(own.g1) + P(peer.g1) + P(peer.g2))
        ELSE Mod(P(own.g1) + P(own.g2) + P(peer.g1))

round_two(party, own, peer, nonce) ==
    Then(verify_round_one(peer), LAMBDA ok :
      LET base == second_round_base(party.role, own, peer, party.role)
          exponent == Mod(party.x2 * party.secret)
          point == Mod(base * exponent)
      IN  IF base = IDENTITY THEN Err
          ELSE Ok([point |-> point_to_bytes(point),
                   proof |-> generate(base, exponent, point, party.role, nonce)]))

finish(party, own, peer, peer_two) ==
    Then(verify_round_one(peer), LAMBDA ok :
    Then(point_from_bytes(peer_two.point), LAMBDA peer_point :
    Then(verify(peer_two.proof,
                second_round_base(party.role, own, peer, peer_role(party.role)),
                peer_point, peer.participant_id), LAMBDA proven :
      LET peer_g2 == point_from_bytes(peer.g2)[1]
          shared == Mod((peer_point - peer_g2 * party.x2 * party.secret)
                        * party.x2)
      IN  IF shared = IDENTITY THEN Err ELSE Ok(derive_session_key(shared)))))

-------------------------------------------------------------------------------
(* TLS encodings: lengths, canonical points and trimmed scalars. *)

trim_scalar_bytes(bytes) ==
    LET significant == {i \in 1..32 : bytes[i] # 0} \cup {32}
    IN  Drop(bytes, (CHOOSE i \in significant :
                        \A j \in significant : i <= j) - 1)

write_tls_point(bytes) ==
    Then(point_from_bytes(bytes), LAMBDA p : Vec8(point_to_bytes(p)))
write_key_kp(point, proof) ==
    Joined(<<write_tls_point(point), write_tls_point(proof.v),
             Vec8(trim_scalar_bytes(proof.r))>>)

encode_tls_kkpp(one) ==
    Joined(<<write_key_kp(one.g1, one.proof1), write_key_kp(one.g2, one.proof2)>>)

CurveParams == <<3, 0, 23>>
encode_tls_key_exchange(two, include_curve_params) ==
    Joined(<<Ok(IF include_curve_params THEN CurveParams ELSE <<>>),
             write_key_kp(two.point, two.proof)>>)

read_opaque_u8(bytes) ==
    Then(read_vec_u8(bytes), LAMBDA v : IF v.got = <<>> THEN Err ELSE Ok(v))
read_tls_point(bytes) ==
    Then(read_opaque_u8(bytes), LAMBDA point :
    Then(point_from_bytes(point.got), LAMBDA p :
        Ok([got |-> point_to_bytes(p), rest |-> point.rest])))
read_proof(bytes, participant_id) ==
    Then(read_tls_point(bytes), LAMBDA v :
    Then(read_opaque_u8(v.rest), LAMBDA r :
        IF Len(r.got) > 32 THEN Err ELSE
        LET padded == Repeat(0, 32 - Len(r.got)) \o r.got
        IN  Then(scalar_from_repr(padded), LAMBDA n :
              Ok([got |-> [v |-> v.got, r |-> padded,
                           prover_id |-> participant_id],
                  rest |-> r.rest]))))
read_key_kp(bytes, participant_id) ==
    Then(read_tls_point(bytes), LAMBDA point :
    Then(read_proof(point.rest, participant_id), LAMBDA proof :
        Ok([point |-> point.got, proof |-> proof.got, rest |-> proof.rest])))

decode_tls_kkpp(bytes, participant_id) ==
    Then(read_key_kp(bytes, participant_id), LAMBDA first :
    Then(read_key_kp(first.rest, participant_id), LAMBDA second :
        IF second.rest # <<>> THEN Err ELSE
        LET one == [g1 |-> first.point, g2 |-> second.point,
                    proof1 |-> first.proof, proof2 |-> second.proof,
                    participant_id |-> participant_id]
        IN  Then(verify_round_one(one), LAMBDA ok : Ok(one))))

read_secp256r1_curve_params(bytes) ==
    Then(read_exact(3, bytes), LAMBDA params :
        IF params.got = CurveParams THEN Ok(params.rest) ELSE Err)

decode_tls_key_exchange(bytes, participant_id, expect_curve_params) ==
    Then(IF expect_curve_params THEN read_secp256r1_curve_params(bytes)
         ELSE Ok(bytes), LAMBDA rest :
    Then(read_key_kp(rest, participant_id), LAMBDA kp :
        IF kp.rest # <<>> THEN Err
        ELSE Ok([point |-> kp.point, proof |-> kp.proof])))

===============================================================================
