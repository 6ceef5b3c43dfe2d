---------------------------- MODULE JoinerSession ----------------------------
(***************************************************************************)
(* One commissioning session with a relayed joiner: the server side of the *)
(* joiner's DTLS handshake and of its JOIN_FIN exchange, as in             *)
(* commissioner/joiner.rs.  The module has no variables: a handler of the  *)
(* code is an operator from a session and one DTLS record to an outcome.   *)
(*                                                                         *)
(* Cryptography is symbolic.  A session carries the number `sid' of the    *)
(* randomness it was created with (server random, EC J-PAKE scalars and    *)
(* cookie key), a joiner the number `aid' of its handshake attempt (client *)
(* random and scalars).  Both ends derive the same key material exactly    *)
(* when they agree on attempt, session and PSKd; a record opens only under *)
(* the key it was sealed with; a cookie verifies only for the session that *)
(* issued it.                                                              *)
(***************************************************************************)
EXTENDS Naturals

CONSTANTS
    Pskd,           \* the joiner passphrases
    NoPskd,         \* "this joiner is not enabled"
    SessionTimeout  \* JOINER_SESSION_TIMEOUT, in ticks of the clock

ASSUME PskdAssumption == NoPskd \notin Pskd
ASSUME TimeoutAssumption == SessionTimeout \in Nat \ {0}

Key == [aid : Nat, sid : Nat, pskd : Pskd \cup {NoPskd}]

NoKey == [aid |-> 0, sid |-> 0, pskd |-> NoPskd]

-----------------------------------------------------------------------------
(* Records a joiner sends.  `cookie' is the session whose HelloVerifyRequest *)
(* is echoed (0: none); `key' seals an epoch-1 record and, for a             *)
(* ClientKeyExchange, names the EC J-PAKE run it belongs to; `uri' and `mid' *)
(* are the URI and the message ID of the CoAP request in application data.   *)

ClientRecord ==
    [kind   : {"ClientHello", "ClientKeyExchange", "ChangeCipherSpec",
               "Finished", "ApplicationData", "Alert", "Malformed"},
     aid    : Nat,
     cookie : Nat,
     key    : Key,
     uri    : {"none", "JOIN_FIN", "other"},
     mid    : Nat]

(* Records the session sends: a number in an epoch and what is under it.     *)

ServerRecord ==
    [sid   : Nat,
     epoch : {0, 1},
     seq   : Nat,
     kind  : {"HelloVerifyRequest", "ServerHello", "ServerKeyExchange",
              "ServerHelloDone", "ChangeCipherSpec", "Finished", "Response"},
     aid   : Nat,
     key   : Key,
     mid   : Nat,
     state : {"none", "accept", "reject"}]

Plain(s, n, kind, aid) ==
    [sid |-> s.sid, epoch |-> 0, seq |-> s.e0 + n, kind |-> kind, aid |-> aid,
     key |-> NoKey, mid |-> 0, state |-> "none"]

Sealed(s, kind, mid, state) ==
    [sid |-> s.sid, epoch |-> 1, seq |-> s.e1, kind |-> kind,
     aid |-> s.key.aid, key |-> s.key, mid |-> mid, state |-> state]

-----------------------------------------------------------------------------
(* The session.  `hello' is the attempt whose ClientHello was accepted and   *)
(* `ckes' how many ClientKeyExchange messages the transcript holds (2: more  *)
(* than one); `e0' and `e1' are the next record numbers; `left' is           *)
(* expires_at - now.                                                         *)

Phase == {"Vacant", "AwaitingClientHello", "AwaitingClientFlight",
          "Connected", "Finalized"}

Session ==
    [sid      : Nat,
     phase    : Phase,
     pskd     : Pskd \cup {NoPskd},
     hello    : Nat,
     ckes     : 0 .. 2,
     key      : Key,
     flight   : SUBSET ServerRecord,
     e0       : Nat,
     e1       : Nat,
     saw      : BOOLEAN,
     decision : {"none", "accept", "reject"},
     left     : 0 .. SessionTimeout]

(* Fault: a deadline one tick late.                                          *)
LifetimeLate == SessionTimeout + 1

Lifetime == SessionTimeout

NewSession(sid, pskd) ==
    [sid |-> sid, phase |-> "AwaitingClientHello", pskd |-> pskd, hello |-> 0,
     ckes |-> 0, key |-> NoKey, flight |-> {}, e0 |-> 0, e1 |-> 0,
     saw |-> FALSE, decision |-> "none", left |-> Lifetime]

(* An empty entry of the session table.                                      *)
NoSession ==
    [sid |-> 0, phase |-> "Vacant", pskd |-> NoPskd, hello |-> 0,
     ckes |-> 0, key |-> NoKey, flight |-> {}, e0 |-> 0, e1 |-> 0,
     saw |-> FALSE, decision |-> "none", left |-> 0]

Expired(s) == s.left = 0

-----------------------------------------------------------------------------
(* The outcome of one record: the session afterwards, the datagram to        *)
(* transmit ({}: none) and whether the KEK goes with it, and the event.      *)
(* ok = FALSE is an Err: the caller drops the session and everything the     *)
(* datagram produced.                                                        *)

Quiet(s) == [ok |-> TRUE, s |-> s, datagram |-> {}, kek |-> FALSE, event |-> "none"]

Reply(s, datagram) == [Quiet(s) EXCEPT !.datagram = datagram]

Err(s) == [Quiet(s) EXCEPT !.ok = FALSE]

ServerFlight(s, aid) ==
    {Plain(s, 0, "ServerHello", aid), Plain(s, 1, "ServerKeyExchange", aid),
     Plain(s, 2, "ServerHelloDone", aid)}

(* A ClientHello: ask for the cookie, commit to the attempt that returns it, *)
(* repeat the cached flight to any later hello, and refuse one after the     *)
(* handshake.                                                                *)
HandleClientHello(s, r) ==
    CASE s.phase = "AwaitingClientHello" /\ r.cookie # s.sid ->
            Reply([s EXCEPT !.e0 = @ + 1],
                  {Plain(s, 0, "HelloVerifyRequest", r.aid)})
      [] s.phase = "AwaitingClientHello" /\ r.cookie = s.sid ->
            Reply([s EXCEPT !.phase = "AwaitingClientFlight",
                            !.hello = r.aid,
                            !.flight = ServerFlight(s, r.aid),
                            !.e0 = @ + 3],
                  ServerFlight(s, r.aid))
      [] s.phase = "AwaitingClientFlight" -> Reply(s, s.flight)
      [] OTHER -> Err(s)

(* A ClientKeyExchange is recorded in the transcript every time it arrives;  *)
(* the key derivation verifies its proof, which is bound to one attempt and  *)
(* one session.                                                              *)
HandleClientKeyExchange(s, r) ==
    IF s.phase = "AwaitingClientFlight" /\ r.key.aid = s.hello /\ r.key.sid = s.sid
    THEN Quiet([s EXCEPT !.ckes = IF @ = 2 THEN 2 ELSE @ + 1,
                         !.key = [aid |-> s.hello, sid |-> s.sid, pskd |-> s.pskd]])
    ELSE Err(s)

HandlePlaintextHandshake(s, r) ==
    IF r.kind = "ClientHello" THEN HandleClientHello(s, r)
                              ELSE HandleClientKeyExchange(s, r)

HandleChangeCipherSpec(s, r) == Quiet([s EXCEPT !.saw = TRUE])

(* Fault: the record is opened without checking its tag.                     *)
OpensUnauthenticated(s, r) == s.key # NoKey

(* open_record: the key must exist and be the one that sealed the record.    *)
Opens(s, r) == s.key # NoKey /\ r.key = s.key

(* The joiner's Finished verifies when both transcripts agree: the joiner    *)
(* sent one ClientKeyExchange.                                               *)
HandleEncryptedHandshake(s, r) ==
    CASE s.phase # "AwaitingClientFlight" -> Quiet(s)
      [] s.phase = "AwaitingClientFlight" /\ s.saw /\ Opens(s, r) /\ s.ckes = 1 ->
            [Reply([s EXCEPT !.phase = "Connected", !.e0 = @ + 1, !.e1 = @ + 1],
                   {Plain(s, 0, "ChangeCipherSpec", s.key.aid),
                    Sealed(s, "Finished", 0, "none")})
             EXCEPT !.event = "Connected"]
      [] OTHER -> Err(s)

(* Fault: every request asks again.                                          *)
DecideAgain(s, answer) == answer

(* The decision is the handler's first answer; later requests repeat it.     *)
Decide(s, answer) == IF s.decision = "none" THEN answer ELSE s.decision

(* Fault: the response's record number is not consumed.                      *)
AnsweredSameNumber(s, decision) ==
    [s EXCEPT !.phase = "Finalized", !.decision = decision]

Answered(s, decision) ==
    [s EXCEPT !.phase = "Finalized", !.decision = decision, !.e1 = @ + 1]

IncludeKek(decision) == decision = "accept"

(* Fault: the application is told of every response.                         *)
FinalizedEventAlways(s) == "Finalized"

(* Fault: the phase is tested after it was set.                              *)
FinalizedEventNever(s) == "none"

FinalizedEvent(s) == IF s.phase = "Finalized" THEN "none" ELSE "Finalized"

(* Requests other than JOIN_FIN are ignored.                                 *)
HandleApplicationData(s, r, answer) ==
    CASE s.phase \notin {"Connected", "Finalized"} \/ ~Opens(s, r) -> Err(s)
      [] s.phase \in {"Connected", "Finalized"} /\ Opens(s, r) /\ r.uri # "JOIN_FIN" ->
            Quiet(s)
      [] OTHER ->
            LET decision == Decide(s, answer)
            IN  [ok       |-> TRUE,
                 s        |-> Answered(s, decision),
                 datagram |-> {Sealed(s, "Response", r.mid, decision)},
                 kek      |-> IncludeKek(decision),
                 event    |-> FinalizedEvent(s)]

=============================================================================
