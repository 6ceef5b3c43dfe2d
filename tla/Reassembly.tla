------------------------------ MODULE Reassembly ------------------------------
(***************************************************************************)
(* A handshake message reassembled from fragments (HandshakeReassembler).  *)
(* A retransmission may be split differently; a rival message claims the   *)
(* same number, and a third one another length.                            *)
(***************************************************************************)
EXTENDS Story, DtlsCodec

CONSTANT BodyLength     \* bytes of the message that is reassembled

ASSUME BodyAssumption == BodyLength \in 1..MAX_HANDSHAKE_MESSAGE_LEN

Body(F(_), n) ==
    [ty |-> 16, seq |-> 2, payload |-> [i \in 1..n |-> F(i)]]
Original == Body(LAMBDA i : i, BodyLength)
Rival == Body(LAMBDA i : IF i % 2 = 0 THEN i ELSE 100 + i, BodyLength)
Shorter == Body(LAMBDA i : i, BodyLength - 1)
FragmentsOf(m) ==
    UNION {{fragment(m, max)[1][i] : i \in DOMAIN fragment(m, max)[1]} :
              max \in 1..Len(m.payload)}

InitReassembly ==
    /\ part = "reassembly"
    /\ meant = {}               \* the fragments that have arrived
    /\ held = [asm |-> EmptyReassembler, res |-> Ok(<<>>)]

Arrive(f) ==
    /\ part = "reassembly"
    /\ held' = push(held.asm, f)
    /\ meant' = meant \cup {f}
    /\ UNCHANGED part

Reassemble ==
    \E f \in FragmentsOf(Original) \cup FragmentsOf(Rival) \cup FragmentsOf(Shorter) :
        Arrive(f)

ReassemblySpec == InitReassembly /\ [][Reassemble]_vars

-------------------------------------------------------------------------------
\* ReassemblyExact: HandshakeReassembler keeps the first byte it was given for
\* a position whatever arrives later, and while all fragments come from one
\* message, however it was split, repeated and reordered, it returns that
\* message exactly when every byte has arrived.
ReassemblyExact ==
    [][part = "reassembly" =>
        LET covered == UNION {Positions(f) : f \in meant'}
        IN  /\ \A p \in held.asm.filled :
                 /\ p \in held'.asm.filled
                 /\ held'.asm.bytes[p] = held.asm.bytes[p]
            /\ meant' \subseteq FragmentsOf(Original) =>
                 held'.res = IF covered = 1..BodyLength THEN Ok(<<Original>>)
                             ELSE Ok(<<>>)]_vars

===============================================================================
