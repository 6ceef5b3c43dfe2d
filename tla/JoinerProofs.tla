---------------------------- MODULE JoinerProofs ----------------------------
(***************************************************************************)
(* What a joiner can rely on, for any set of joiners and PSKds, any        *)
(* timeout and any datagrams.  First what each record handler of one       *)
(* session does; then the session table of JoinerRelay; then what the      *)
(* commissioner builds, decides, entrusts and tells the application.  Each *)
(* invariant rests on the ones before it.                                  *)
(***************************************************************************)
EXTENDS JoinerRelay, TLAPS

\* The obligations below carry a large context, which Zenon takes better than
\* SMT, and whose translation for SMT may take more than one attempt.
USE ZenonT(5), SMTT(30), ZenonT(25), SMTT(20), SMTT(25), SMTT(15), SMTT(35)

-----------------------------------------------------------------------------
(* A session by itself.                                                      *)

SessionOK(s) ==
    /\ s \in Session
    /\ s.phase = "Vacant" => s = NoSession
    /\ s.phase # "Vacant" => s.sid # 0 /\ s.pskd \in Pskd
    /\ s.key # NoKey => s.key = [aid |-> s.hello, sid |-> s.sid, pskd |-> s.pskd]
    /\ s.phase = "AwaitingClientHello" => s.key = NoKey
    /\ s.phase \in {"Connected", "Finalized"} => s.key # NoKey
    /\ s.decision # "none" <=> s.phase = "Finalized"
    /\ \A r \in s.flight :
          r.sid = s.sid /\ r.epoch = 0 /\ r.seq < s.e0 /\ r.kind # "Response"

(* r is numbered between the counters of s and those of its successor t.     *)
Fresh(s, t, r) ==
    \/ r.epoch = 0 /\ s.e0 <= r.seq /\ r.seq < t.e0
    \/ r.epoch = 1 /\ s.e1 <= r.seq /\ r.seq < t.e1

(* What a handler guarantees of its outcome on session s.                    *)
Continues(s, t) ==
    /\ SessionOK(t)
    /\ t.phase # "Vacant"
    /\ t.sid = s.sid /\ t.pskd = s.pskd /\ t.left = s.left
    /\ s.e0 <= t.e0 /\ s.e1 <= t.e1
    /\ s.decision # "none" => t.decision = s.decision

OutType(out) ==
    /\ out.ok \in BOOLEAN
    /\ out.kek \in BOOLEAN
    /\ out.event \in {"none", "Connected", "Finalized"}
    /\ out.datagram \subseteq ServerRecord

Numbered(s, out) ==
    /\ \A r \in out.datagram : r.sid = s.sid
    /\ \A r \in out.datagram : r \in s.flight \/ Fresh(s, out.s, r)
    /\ \A r, q \in out.datagram :
          r \notin s.flight /\ q \notin s.flight /\ r.epoch = q.epoch /\ r.seq = q.seq
            => r = q
    /\ \A r \in out.s.flight : r \in s.flight \/ r \in out.datagram

Answers(s, out) ==
    /\ \A r \in out.datagram : r.kind = "Response" =>
          out.s.decision # "none" /\ r.state = out.s.decision /\ (out.kek <=> r.state = "accept")
    /\ out.kek => \E r \in out.datagram : r.kind = "Response" /\ r.state = "accept"

OutOK(s, out) ==
    /\ OutType(out)
    /\ ~out.ok => out.datagram = {} /\ ~out.kek /\ out.s = s
    /\ out.ok => Continues(s, out.s) /\ Numbered(s, out) /\ Answers(s, out)

(* An error produces nothing.                                                *)
LEMMA ErrOK ==
    ASSUME NEW s
    PROVE  OutOK(s, Err(s))
BY DEF OutOK, OutType, Err, Quiet

(* A handler that says nothing satisfies the contract when its session does. *)
LEMMA QuietOK ==
    ASSUME NEW s, NEW t, Continues(s, t), t.flight = s.flight
    PROVE  OutOK(s, Quiet(t))
BY DEF OutOK, OutType, Quiet, Numbered, Answers

(* A ChangeCipherSpec record (receive) keeps the session contract.           *)
LEMMA ChangeCipherSpecOK ==
    ASSUME NEW s, SessionOK(s), s.phase # "Vacant", NEW r
    PROVE  OutOK(s, HandleChangeCipherSpec(s, r))
<1> DEFINE t == [s EXCEPT !.saw = TRUE]
<1>1. t \in Session
  BY DEF SessionOK, Session, Phase
<1>2. /\ t.phase = s.phase /\ t.sid = s.sid /\ t.pskd = s.pskd /\ t.key = s.key
      /\ t.hello = s.hello /\ t.decision = s.decision /\ t.flight = s.flight
      /\ t.e0 = s.e0 /\ t.e1 = s.e1 /\ t.left = s.left
  BY DEF SessionOK, Session
<1>3. s.e0 <= s.e0 /\ s.e1 <= s.e1
  BY DEF SessionOK, Session
<1>4. SessionOK(t)
  BY <1>1, <1>2 DEF SessionOK
<1>5. Continues(s, t)
  BY <1>2, <1>3, <1>4 DEF Continues
<1> QED
  BY <1>5, <1>2, QuietOK DEF HandleChangeCipherSpec

(* A ClientHello keeps the contract: the HelloVerifyRequest and the server   *)
(* flight take fresh epoch-0 numbers, a repeated flight takes none.          *)
LEMMA ClientHelloOK ==
    ASSUME NEW s, SessionOK(s), s.phase # "Vacant", NEW r, r \in ClientRecord
    PROVE  OutOK(s, HandleClientHello(s, r))
<1> DEFINE out == HandleClientHello(s, r)
<1>t. s.e0 \in Nat /\ s.e1 \in Nat /\ s.sid \in Nat /\ r.aid \in Nat /\ NoKey \in Key
      /\ s.flight \subseteq ServerRecord
  BY DEF SessionOK, Session, ClientRecord, Key, NoKey
<1>1. CASE s.phase = "AwaitingClientHello" /\ r.cookie # s.sid
  <2> DEFINE t == [s EXCEPT !.e0 = @ + 1]
             p == Plain(s, 0, "HelloVerifyRequest", r.aid)
  <2>1. t \in Session
    BY <1>t DEF SessionOK, Session, Phase
  <2>2. /\ t.phase = s.phase /\ t.sid = s.sid /\ t.pskd = s.pskd /\ t.key = s.key
        /\ t.hello = s.hello /\ t.decision = s.decision /\ t.flight = s.flight
        /\ t.e0 = s.e0 + 1 /\ t.e1 = s.e1 /\ t.left = s.left
    BY <1>t DEF SessionOK, Session
  <2>3. \A q \in s.flight : q.seq \in Nat
    BY <1>t DEF ServerRecord
  <2>4. SessionOK(t)
    BY <1>t, <2>1, <2>2, <2>3, <1>1 DEF SessionOK
  <2>5. Continues(s, t)
    BY <1>t, <2>2, <2>4, <1>1 DEF Continues
  <2>6. p \in ServerRecord /\ p.sid = s.sid /\ p.epoch = 0 /\ p.seq = s.e0
        /\ p.kind = "HelloVerifyRequest"
    BY <1>t DEF Plain, ServerRecord
  <2>7. out = [ok |-> TRUE, s |-> t, datagram |-> {p}, kek |-> FALSE, event |-> "none"]
    BY <1>1 DEF HandleClientHello, Reply, Quiet
  <2> HIDE DEF t, p, out
  <2>8. OutType(out)
    BY <2>6, <2>7 DEF OutType
  <2>9. Numbered(s, out)
    BY <1>t, <2>2, <2>6, <2>7 DEF Numbered, Fresh
  <2>10. Answers(s, out)
    BY <2>6, <2>7 DEF Answers
  <2> QED
    BY <2>5, <2>7, <2>8, <2>9, <2>10 DEF OutOK, out
<1>2. CASE s.phase = "AwaitingClientHello" /\ r.cookie = s.sid
  <2> DEFINE f == ServerFlight(s, r.aid)
             t == [s EXCEPT !.phase = "AwaitingClientFlight", !.hello = r.aid,
                            !.flight = f, !.e0 = @ + 3]
             p == Plain(s, 0, "ServerHello", r.aid)
             q == Plain(s, 1, "ServerKeyExchange", r.aid)
             u == Plain(s, 2, "ServerHelloDone", r.aid)
  <2>1. f = {p, q, u}
    BY DEF ServerFlight
  <2>2. /\ p \in ServerRecord /\ q \in ServerRecord /\ u \in ServerRecord
        /\ p.sid = s.sid /\ q.sid = s.sid /\ u.sid = s.sid
        /\ p.epoch = 0 /\ q.epoch = 0 /\ u.epoch = 0
        /\ p.seq = s.e0 /\ q.seq = s.e0 + 1 /\ u.seq = s.e0 + 2
        /\ p.kind # "Response" /\ q.kind # "Response" /\ u.kind # "Response"
    BY <1>t DEF Plain, ServerRecord
  <2> HIDE DEF p, q, u
  <2>3. f \subseteq ServerRecord
    BY <2>1, <2>2
  <2> HIDE DEF f
  <2>4. t \in Session
    <3>1. s \in Session
      BY DEF SessionOK
    <3>2. f \in SUBSET ServerRecord /\ s.e0 + 3 \in Nat /\ r.aid \in Nat
      BY <1>t, <2>3
    <3> QED BY <3>1, <3>2 DEF Session, Phase
  <2>5. /\ t.phase = "AwaitingClientFlight" /\ t.sid = s.sid /\ t.pskd = s.pskd
        /\ t.key = s.key /\ t.hello = r.aid /\ t.decision = s.decision
        /\ t.flight = f /\ t.e0 = s.e0 + 3 /\ t.e1 = s.e1 /\ t.left = s.left
    BY <1>t DEF SessionOK, Session
  <2>6. SessionOK(t)
    BY <1>t, <1>2, <2>1, <2>2, <2>4, <2>5 DEF SessionOK
  <2>7. Continues(s, t)
    BY <1>t, <1>2, <2>5, <2>6 DEF Continues, SessionOK
  <2>8. out = [ok |-> TRUE, s |-> t, datagram |-> f, kek |-> FALSE, event |-> "none"]
    BY <1>2 DEF HandleClientHello, Reply, Quiet, f
  <2> HIDE DEF t, out
  <2>9. OutType(out)
    BY <2>3, <2>8 DEF OutType
  <2>10. Numbered(s, out)
    BY <1>t, <2>1, <2>2, <2>5, <2>8 DEF Numbered, Fresh
  <2>11. Answers(s, out)
    BY <2>1, <2>2, <2>8 DEF Answers
  <2> QED
    BY <2>7, <2>8, <2>9, <2>10, <2>11 DEF OutOK, out
<1>3. CASE s.phase = "AwaitingClientFlight"
  <2>1. out = [ok |-> TRUE, s |-> s, datagram |-> s.flight, kek |-> FALSE, event |-> "none"]
    BY <1>3 DEF HandleClientHello, Reply, Quiet
  <2> HIDE DEF out
  <2>2. Continues(s, s)
    BY <1>t DEF Continues
  <2>3. OutType(out)
    BY <1>t, <2>1 DEF OutType
  <2>4. Numbered(s, out)
    BY <2>1 DEF Numbered, SessionOK
  <2>5. Answers(s, out)
    BY <2>1 DEF Answers, SessionOK
  <2> QED
    BY <2>1, <2>2, <2>3, <2>4, <2>5 DEF OutOK, out
<1>4. CASE s.phase \notin {"AwaitingClientHello", "AwaitingClientFlight"}
  <2>1. out = Err(s)
    BY <1>4 DEF HandleClientHello
  <2> QED
    BY <2>1, ErrOK
<1> QED
  BY <1>1, <1>2, <1>3, <1>4

(* A ClientKeyExchange keeps the contract: it only sets the key material.    *)
LEMMA ClientKeyExchangeOK ==
    ASSUME NEW s, SessionOK(s), s.phase # "Vacant", NEW r
    PROVE  OutOK(s, HandleClientKeyExchange(s, r))
<1>1. CASE s.phase = "AwaitingClientFlight" /\ r.key.aid = s.hello /\ r.key.sid = s.sid
  <2> DEFINE n == IF s.ckes = 2 THEN 2 ELSE s.ckes + 1
             k == [aid |-> s.hello, sid |-> s.sid, pskd |-> s.pskd]
             t == [s EXCEPT !.ckes = n, !.key = k]
  <2>1. s \in Session
    BY DEF SessionOK
  <2>2. n \in 0 .. 2 /\ k \in Key
    BY <2>1 DEF Session, Key
  <2>3. t \in Session
    BY <2>1, <2>2 DEF Session, Phase
  <2>4. /\ t.phase = s.phase /\ t.sid = s.sid /\ t.pskd = s.pskd /\ t.key = k
        /\ t.hello = s.hello /\ t.decision = s.decision /\ t.flight = s.flight
        /\ t.e0 = s.e0 /\ t.e1 = s.e1 /\ t.left = s.left /\ s.e0 \in Nat /\ s.e1 \in Nat
    BY <2>1 DEF Session
  <2>5. SessionOK(t)
    BY <1>1, <2>3, <2>4 DEF SessionOK
  <2>6. Continues(s, t)
    BY <1>1, <2>4, <2>5 DEF Continues
  <2>7. HandleClientKeyExchange(s, r) = Quiet(t)
    BY <1>1 DEF HandleClientKeyExchange
  <2> HIDE DEF t
  <2> QED
    BY <2>4, <2>6, <2>7, QuietOK
<1>2. CASE ~(s.phase = "AwaitingClientFlight" /\ r.key.aid = s.hello /\ r.key.sid = s.sid)
  BY <1>2, ErrOK DEF HandleClientKeyExchange
<1> QED
  BY <1>1, <1>2

(* The Finished exchange keeps the contract: one fresh number in each epoch. *)
LEMMA EncryptedHandshakeOK ==
    ASSUME NEW s, SessionOK(s), s.phase # "Vacant", NEW r
    PROVE  OutOK(s, HandleEncryptedHandshake(s, r))
<1> DEFINE out == HandleEncryptedHandshake(s, r)
<1>s. s \in Session
  BY DEF SessionOK
<1>1. CASE s.phase # "AwaitingClientFlight"
  <2>1. Continues(s, s)
    BY <1>s DEF Continues, Session
  <2>2. out = Quiet(s)
    BY <1>1 DEF HandleEncryptedHandshake
  <2> QED
    BY <2>1, <2>2, QuietOK
<1>2. CASE s.phase = "AwaitingClientFlight" /\ s.saw /\ Opens(s, r) /\ s.ckes = 1
  <2> DEFINE t == [s EXCEPT !.phase = "Connected", !.e0 = @ + 1, !.e1 = @ + 1]
             p == Plain(s, 0, "ChangeCipherSpec", s.key.aid)
             q == Sealed(s, "Finished", 0, "none")
  <2>1. s.e0 \in Nat /\ s.e1 \in Nat /\ s.e0 + 1 \in Nat /\ s.e1 + 1 \in Nat
        /\ s.sid \in Nat /\ s.key \in Key /\ s.key.aid \in Nat /\ NoKey \in Key
    BY <1>s DEF Session, Key, NoKey
  <2>2. t \in Session
    BY <1>s, <2>1 DEF Session, Phase
  <2>3. /\ t.phase = "Connected" /\ t.sid = s.sid /\ t.pskd = s.pskd /\ t.key = s.key
        /\ t.hello = s.hello /\ t.decision = s.decision /\ t.flight = s.flight
        /\ t.e0 = s.e0 + 1 /\ t.e1 = s.e1 + 1 /\ t.left = s.left
    BY <1>s DEF Session
  <2>4. \A z \in s.flight : z.seq \in Nat
    BY <1>s DEF Session, ServerRecord
  <2>5. SessionOK(t)
    BY <1>2, <2>1, <2>2, <2>3, <2>4 DEF SessionOK, Opens
  <2>6. Continues(s, t)
    BY <1>2, <2>1, <2>3, <2>5 DEF Continues
  <2>7. /\ p \in ServerRecord /\ q \in ServerRecord /\ p.sid = s.sid /\ q.sid = s.sid
        /\ p.epoch = 0 /\ q.epoch = 1 /\ p.seq = s.e0 /\ q.seq = s.e1
        /\ p.kind = "ChangeCipherSpec" /\ q.kind = "Finished"
    BY <2>1 DEF Plain, Sealed, ServerRecord
  <2>8. out = [ok |-> TRUE, s |-> t, datagram |-> {p, q}, kek |-> FALSE,
               event |-> "Connected"]
    BY <1>2 DEF HandleEncryptedHandshake, Reply, Quiet
  <2> HIDE DEF t, p, q, out
  <2>9. OutType(out)
    BY <2>7, <2>8 DEF OutType
  <2>10. Numbered(s, out)
    BY <2>1, <2>3, <2>7, <2>8 DEF Numbered, Fresh
  <2>11. Answers(s, out)
    BY <2>7, <2>8 DEF Answers
  <2> QED
    BY <2>6, <2>8, <2>9, <2>10, <2>11 DEF OutOK, out
<1>3. CASE s.phase = "AwaitingClientFlight" /\ ~(s.saw /\ Opens(s, r) /\ s.ckes = 1)
  <2>1. out = Err(s)
    BY <1>3 DEF HandleEncryptedHandshake
  <2> QED
    BY <2>1, ErrOK
<1> QED
  BY <1>1, <1>2, <1>3

(* A JOIN_FIN.req keeps the contract: one fresh epoch-1 number, and one      *)
(* decision however often it is repeated.                                    *)
LEMMA ApplicationDataOK ==
    ASSUME NEW s, SessionOK(s), s.phase # "Vacant", NEW r, r.mid \in Nat,
           NEW answer \in {"accept", "reject"}
    PROVE  OutOK(s, HandleApplicationData(s, r, answer))
<1> DEFINE out == HandleApplicationData(s, r, answer)
           ready == s.phase \in {"Connected", "Finalized"} /\ Opens(s, r)
<1>s. s \in Session
  BY DEF SessionOK
<1>1. CASE ~ready
  <2>1. out = Err(s)
    BY <1>1 DEF HandleApplicationData
  <2> QED
    BY <2>1, ErrOK
<1>2. CASE ready /\ r.uri # "JOIN_FIN"
  <2>1. Continues(s, s)
    BY <1>s DEF Continues, Session
  <2>2. out = Quiet(s)
    BY <1>2 DEF HandleApplicationData
  <2> QED
    BY <2>1, <2>2, QuietOK
<1>3. CASE ready /\ r.uri = "JOIN_FIN"
  <2> DEFINE d == Decide(s, answer)
             t == Answered(s, d)
             q == Sealed(s, "Response", r.mid, d)
  <2>1. s.e0 \in Nat /\ s.e1 \in Nat /\ s.e1 + 1 \in Nat /\ s.sid \in Nat
        /\ s.key \in Key /\ s.key.aid \in Nat
    BY <1>s DEF Session, Key
  <2>2. d \in {"accept", "reject"} /\ (s.decision # "none" => d = s.decision)
    BY <1>s DEF Decide, Session
  <2> HIDE DEF d
  <2>3. t \in Session
    BY <1>s, <2>1, <2>2 DEF Answered, Session, Phase
  <2>4. /\ t.phase = "Finalized" /\ t.sid = s.sid /\ t.pskd = s.pskd /\ t.key = s.key
        /\ t.hello = s.hello /\ t.decision = d /\ t.flight = s.flight
        /\ t.e0 = s.e0 /\ t.e1 = s.e1 + 1 /\ t.left = s.left
    BY <1>s DEF Answered, Session
  <2>5. SessionOK(t)
    BY <1>3, <2>1, <2>2, <2>3, <2>4 DEF SessionOK
  <2>6. Continues(s, t)
    BY <1>3, <2>1, <2>2, <2>4, <2>5 DEF Continues
  <2>7. /\ q \in ServerRecord /\ q.sid = s.sid /\ q.epoch = 1 /\ q.seq = s.e1
        /\ q.kind = "Response" /\ q.state = d
    BY <2>1, <2>2 DEF Sealed, ServerRecord
  <2>8. out = [ok |-> TRUE, s |-> t, datagram |-> {q}, kek |-> IncludeKek(d),
               event |-> FinalizedEvent(s)]
    BY <1>3 DEF HandleApplicationData, d
  <2> HIDE DEF t, q, out
  <2>9. OutType(out)
    BY <2>7, <2>8 DEF OutType, IncludeKek, FinalizedEvent
  <2>10. Numbered(s, out)
    BY <2>1, <2>4, <2>7, <2>8 DEF Numbered, Fresh
  <2>11. Answers(s, out)
    BY <2>2, <2>4, <2>7, <2>8 DEF Answers, IncludeKek
  <2> QED
    BY <2>6, <2>8, <2>9, <2>10, <2>11 DEF OutOK, out
<1> QED
  BY <1>1, <1>2, <1>3

-----------------------------------------------------------------------------
(* What a record lets the others conclude.                                   *)

(* A session becomes connected only by a Finished sealed under its key.      *)
ConnectsBy(s, r, out) ==
    out.ok /\ out.s.phase \in {"Connected", "Finalized"} =>
        /\ out.s.key = s.key
        /\ \/ s.phase \in {"Connected", "Finalized"}
           \/ r.kind = "Finished" /\ r.key = s.key

(* The events are the phase changes, and only a connected session seals a    *)
(* Finished.                                                                 *)
Reports(s, out) ==
    out.ok =>
        /\ out.event = "none" => /\ out.s.phase = "Connected" <=> s.phase = "Connected"
                                 /\ out.s.phase = "Finalized" <=> s.phase = "Finalized"
        /\ out.event = "Connected" =>
              s.phase = "AwaitingClientFlight" /\ out.s.phase = "Connected"
        /\ out.event = "Finalized" => s.phase = "Connected" /\ out.s.phase = "Finalized"
        /\ \A q \in out.datagram : q.kind = "Finished" =>
              out.s.phase = "Connected" /\ q.key.sid = s.sid
        /\ \A q \in out.datagram : q.kind = "Response" =>
              out.s.phase = "Finalized" /\ q.key.sid = s.sid
        /\ \A q \in out.s.flight : q.kind # "Finished"

NoFinished(s) == \A q \in s.flight : q.kind # "Finished"

Tells(s, r, out) == ConnectsBy(s, r, out) /\ (NoFinished(s) => Reports(s, out))

(* An error tells nothing.                                                   *)
LEMMA ErrTells ==
    ASSUME NEW s, NEW r
    PROVE  Tells(s, r, Err(s))
BY DEF Tells, ConnectsBy, Reports, Err, Quiet

(* A handler that keeps phase, key and flight and says nothing tells nothing.*)
LEMMA QuietTells ==
    ASSUME NEW s, NEW r, NEW t, t.phase = s.phase, t.flight = s.flight,
           t.key = s.key \/ t.phase \notin {"Connected", "Finalized"}
    PROVE  Tells(s, r, Quiet(t))
BY DEF Tells, ConnectsBy, Reports, NoFinished, Quiet

(* A reply of a session that has not connected tells nothing.                *)
LEMMA ReplyTells ==
    ASSUME NEW s, NEW r, NEW t, NEW D,
           s.phase \in {"AwaitingClientHello", "AwaitingClientFlight"},
           t.phase \in {"AwaitingClientHello", "AwaitingClientFlight"},
           NoFinished(s) => NoFinished(t),
           \A q \in D : q.kind # "Response" /\ (NoFinished(s) => q.kind # "Finished")
    PROVE  Tells(s, r, Reply(t, D))
<1>1. /\ Reply(t, D).ok /\ Reply(t, D).s = t /\ Reply(t, D).datagram = D
      /\ Reply(t, D).event = "none"
  BY DEF Reply, Quiet
<1> DEFINE out == Reply(t, D)
<1> HIDE DEF out
<1>2. out.ok /\ out.s = t /\ out.datagram = D /\ out.event = "none"
  BY <1>1 DEF out
<1>3. ConnectsBy(s, r, out)
  BY <1>2 DEF ConnectsBy
<1>4. NoFinished(s) => Reports(s, out)
  BY <1>2 DEF Reports, NoFinished
<1> QED
  BY <1>3, <1>4 DEF Tells, out

(* A ClientHello is answered and nothing else.                               *)
LEMMA ClientHelloTells ==
    ASSUME NEW s, SessionOK(s), NEW r
    PROVE  Tells(s, r, HandleClientHello(s, r))
<1>1. s \in Session /\ \A q \in s.flight : q.kind # "Response"
  BY DEF SessionOK
<1>2. CASE s.phase = "AwaitingClientHello" /\ r.cookie # s.sid
  <2> DEFINE t == [s EXCEPT !.e0 = @ + 1]
             p == Plain(s, 0, "HelloVerifyRequest", r.aid)
  <2>1. t.phase = s.phase /\ t.flight = s.flight
    BY <1>1 DEF Session
  <2>2. p.kind = "HelloVerifyRequest"
    BY DEF Plain
  <2>3. HandleClientHello(s, r) = Reply(t, {p})
    BY <1>2 DEF HandleClientHello
  <2> HIDE DEF t, p
  <2>4. NoFinished(s) => NoFinished(t)
    BY <2>1 DEF NoFinished
  <2> QED
    BY <1>2, <2>1, <2>2, <2>3, <2>4, ReplyTells
<1>3. CASE s.phase = "AwaitingClientHello" /\ r.cookie = s.sid
  <2> DEFINE f == ServerFlight(s, r.aid)
             t == [s EXCEPT !.phase = "AwaitingClientFlight", !.hello = r.aid,
                            !.flight = f, !.e0 = @ + 3]
  <2>1. \A q \in f : q.kind # "Finished" /\ q.kind # "Response"
    BY DEF ServerFlight, Plain
  <2>2. HandleClientHello(s, r) = Reply(t, f)
    BY <1>3 DEF HandleClientHello
  <2> HIDE DEF f
  <2>3. t.phase = "AwaitingClientFlight" /\ t.flight = f
    BY <1>1 DEF Session
  <2> HIDE DEF t
  <2>4. NoFinished(t)
    BY <2>1, <2>3 DEF NoFinished
  <2> QED
    BY <1>3, <2>1, <2>2, <2>3, <2>4, ReplyTells
<1>4. CASE s.phase = "AwaitingClientFlight"
  <2>1. HandleClientHello(s, r) = Reply(s, s.flight)
    BY <1>4 DEF HandleClientHello
  <2>2. NoFinished(s) => \A q \in s.flight : q.kind # "Finished"
    BY DEF NoFinished
  <2> QED
    BY <1>1, <1>4, <2>1, <2>2, ReplyTells
<1>5. CASE s.phase \notin {"AwaitingClientHello", "AwaitingClientFlight"}
  <2>1. HandleClientHello(s, r) = Err(s)
    BY <1>5 DEF HandleClientHello
  <2> QED
    BY <2>1, ErrTells
<1> QED
  BY <1>2, <1>3, <1>4, <1>5

(* A ClientKeyExchange tells nothing.                                        *)
LEMMA ClientKeyExchangeTells ==
    ASSUME NEW s, SessionOK(s), NEW r
    PROVE  Tells(s, r, HandleClientKeyExchange(s, r))
<1> DEFINE t == [s EXCEPT !.ckes = IF @ = 2 THEN 2 ELSE @ + 1,
                          !.key = [aid |-> s.hello, sid |-> s.sid, pskd |-> s.pskd]]
<1>1. t.phase = s.phase /\ t.flight = s.flight
  BY DEF SessionOK, Session
<1>2. \/ HandleClientKeyExchange(s, r) = Quiet(t) /\ s.phase = "AwaitingClientFlight"
      \/ HandleClientKeyExchange(s, r) = Err(s)
  BY DEF HandleClientKeyExchange
<1> HIDE DEF t
<1>3. s.phase = "AwaitingClientFlight" => t.phase \notin {"Connected", "Finalized"}
  BY <1>1
<1> QED
  BY <1>1, <1>2, <1>3, QuietTells, ErrTells

(* A ChangeCipherSpec tells nothing.                                         *)
LEMMA ChangeCipherSpecTells ==
    ASSUME NEW s, SessionOK(s), NEW r
    PROVE  Tells(s, r, HandleChangeCipherSpec(s, r))
<1> DEFINE t == [s EXCEPT !.saw = TRUE]
<1>1. t.phase = s.phase /\ t.flight = s.flight /\ t.key = s.key
  BY DEF SessionOK, Session
<1>2. HandleChangeCipherSpec(s, r) = Quiet(t)
  BY DEF HandleChangeCipherSpec
<1> HIDE DEF t
<1> QED
  BY <1>1, <1>2, QuietTells

(* The joiner's Finished connects the session, and is answered and reported. *)
LEMMA EncryptedHandshakeTells ==
    ASSUME NEW s, SessionOK(s), NEW r, r.kind = "Finished"
    PROVE  Tells(s, r, HandleEncryptedHandshake(s, r))
<1>1. CASE s.phase = "AwaitingClientFlight" /\ s.saw /\ Opens(s, r) /\ s.ckes = 1
  <2> DEFINE t == [s EXCEPT !.phase = "Connected", !.e0 = @ + 1, !.e1 = @ + 1]
             p == Plain(s, 0, "ChangeCipherSpec", s.key.aid)
             q == Sealed(s, "Finished", 0, "none")
             out == HandleEncryptedHandshake(s, r)
  <2>1. t.phase = "Connected" /\ t.flight = s.flight /\ t.key = s.key
    BY DEF SessionOK, Session
  <2>2. p.kind = "ChangeCipherSpec" /\ q.kind = "Finished" /\ q.key = s.key
    BY DEF Plain, Sealed
  <2>3. s.key.sid = s.sid /\ r.key = s.key
    BY <1>1 DEF SessionOK, Opens
  <2>4. out = [ok |-> TRUE, s |-> t, datagram |-> {p, q}, kek |-> FALSE,
               event |-> "Connected"]
    BY <1>1 DEF HandleEncryptedHandshake, Reply, Quiet
  <2> HIDE DEF t, p, q, out
  <2>5. out.ok /\ out.s = t /\ out.datagram = {p, q} /\ out.event = "Connected"
    BY <2>4
  <2>6. ConnectsBy(s, r, out)
    BY <2>1, <2>3, <2>5 DEF ConnectsBy
  <2>7. NoFinished(s) => Reports(s, out)
    BY <1>1, <2>1, <2>2, <2>3, <2>5 DEF Reports, NoFinished
  <2> QED
    BY <2>6, <2>7 DEF Tells, out
<1>2. CASE s.phase = "AwaitingClientFlight" /\ ~(s.saw /\ Opens(s, r) /\ s.ckes = 1)
  <2>1. HandleEncryptedHandshake(s, r) = Err(s)
    BY <1>2 DEF HandleEncryptedHandshake
  <2> QED
    BY <2>1, ErrTells
<1>3. CASE s.phase # "AwaitingClientFlight"
  <2>1. HandleEncryptedHandshake(s, r) = Quiet(s)
    BY <1>3 DEF HandleEncryptedHandshake
  <2> QED
    BY <2>1, QuietTells
<1> QED
  BY <1>1, <1>2, <1>3

(* The first JOIN_FIN.req is reported, its repetitions are only answered.    *)
LEMMA ApplicationDataTells ==
    ASSUME NEW s, SessionOK(s), NEW r, NEW answer \in {"accept", "reject"}
    PROVE  Tells(s, r, HandleApplicationData(s, r, answer))
<1> DEFINE out == HandleApplicationData(s, r, answer)
           ready == s.phase \in {"Connected", "Finalized"} /\ Opens(s, r)
<1>1. CASE ready /\ r.uri = "JOIN_FIN"
  <2> DEFINE d == Decide(s, answer)
             t == Answered(s, d)
             q == Sealed(s, "Response", r.mid, d)
  <2>1. t.phase = "Finalized" /\ t.flight = s.flight /\ t.key = s.key
    BY DEF Answered, SessionOK, Session
  <2>2. q.kind = "Response" /\ q.key = s.key
    BY DEF Sealed
  <2>3. s.key.sid = s.sid
    BY <1>1 DEF SessionOK, Opens
  <2>4. out = [ok |-> TRUE, s |-> t, datagram |-> {q}, kek |-> IncludeKek(d),
               event |-> FinalizedEvent(s)]
    BY <1>1 DEF HandleApplicationData
  <2> HIDE DEF d, t, q, out
  <2>5. out.ok /\ out.s = t /\ out.datagram = {q}
    BY <2>4
  <2>6. /\ s.phase = "Finalized" => out.event = "none"
        /\ s.phase = "Connected" => out.event = "Finalized"
    BY <2>4 DEF FinalizedEvent
  <2>7. ConnectsBy(s, r, out)
    BY <1>1, <2>1, <2>5 DEF ConnectsBy
  <2>8. NoFinished(s) => Reports(s, out)
    BY <1>1, <2>1, <2>2, <2>3, <2>5, <2>6 DEF Reports, NoFinished
  <2> QED
    BY <2>7, <2>8 DEF Tells, out
<1>2. CASE ready /\ r.uri # "JOIN_FIN"
  <2>1. out = Quiet(s)
    BY <1>2 DEF HandleApplicationData
  <2> QED
    BY <2>1, QuietTells
<1>3. CASE ~ready
  <2>1. out = Err(s)
    BY <1>3 DEF HandleApplicationData
  <2> QED
    BY <2>1, ErrTells
<1> QED
  BY <1>1, <1>2, <1>3

-----------------------------------------------------------------------------
(* Logs of reports.                                                          *)

TellsConnected(E, n) ==
    \E i \in DOMAIN E : E[i] = [kind |-> "Connected", sid |-> n, accepted |-> FALSE]

TellsFinalized(E, n, a) ==
    \E i \in DOMAIN E : E[i] = [kind |-> "Finalized", sid |-> n, accepted |-> a]

(* Reports of a session come once and in order.                              *)
Orderly(E) ==
    /\ \A i, k \in DOMAIN E : i < k /\ E[i].sid = E[k].sid =>
          E[i].kind = "Connected" /\ E[k].kind = "Finalized"
    /\ \A k \in DOMAIN E : E[k].kind = "Finalized" =>
          \E i \in 1 .. k : E[i].kind = "Connected" /\ E[i].sid = E[k].sid

(* The reports of session s are the ones its phase calls for.                *)
Reported(E, s) ==
    /\ s.phase \notin {"Connected", "Finalized"} => \A i \in DOMAIN E : E[i].sid # s.sid
    /\ s.phase = "Connected" =>
          \A i \in DOMAIN E : E[i].sid = s.sid => E[i].kind = "Connected"
    /\ s.phase \in {"Connected", "Finalized"} => TellsConnected(E, s.sid)
    /\ s.phase = "Finalized" => TellsFinalized(E, s.sid, s.decision = "accept")

(* What record r lets a joiner conclude has been reported.                   *)
Backed(E, r) ==
    /\ r.kind = "Finished" => TellsConnected(E, r.key.sid)
    /\ r.kind = "Response" => TellsFinalized(E, r.key.sid, r.state = "accept")

(* M is L with the event e added.                                            *)
Grows(L, M, e) ==
    /\ Len(L) \in Nat
    /\ DOMAIN L = 1 .. Len(L) /\ DOMAIN M = 1 .. Len(L) + 1
    /\ \A i \in 1 .. Len(L) : M[i] = L[i]
    /\ M[Len(L) + 1] = e

(* An event added to the pending ones is added to the log.                   *)
LEMMA LogAppend ==
    ASSUME NEW S, NEW E \in Seq(S), NEW P \in Seq(S), NEW e \in S
    PROVE  Grows(E \o P, E \o Append(P, e), e)
<1> DEFINE Q == Append(P, e)
<1>1. /\ Q \in Seq(S) /\ Len(Q) = Len(P) + 1 /\ Len(P) \in Nat /\ Len(E) \in Nat
      /\ \A i \in 1 .. Len(P) : Q[i] = P[i]
      /\ Q[Len(P) + 1] = e
  OBVIOUS
<1> HIDE DEF Q
<1>2. /\ E \o P \in Seq(S) /\ Len(E \o P) = Len(E) + Len(P)
      /\ \A i \in 1 .. Len(E) + Len(P) :
            (E \o P)[i] = IF i <= Len(E) THEN E[i] ELSE P[i - Len(E)]
  OBVIOUS
<1>3. /\ E \o Q \in Seq(S) /\ Len(E \o Q) = Len(E) + Len(Q)
      /\ \A i \in 1 .. Len(E) + Len(Q) :
            (E \o Q)[i] = IF i <= Len(E) THEN E[i] ELSE Q[i - Len(E)]
  BY <1>1
<1> DEFINE L == E \o P
           M == E \o Q
<1>4. Len(L) = Len(E) + Len(P) /\ Len(M) = Len(L) + 1 /\ Len(L) \in Nat
  BY <1>1, <1>2, <1>3
<1>5. DOMAIN L = 1 .. Len(L) /\ DOMAIN M = 1 .. Len(L) + 1
  BY <1>2, <1>3, <1>4
<1>6. ASSUME NEW i \in 1 .. Len(L) PROVE M[i] = L[i]
  <2>1. i \in 1 .. Len(E) + Len(P) /\ i \in 1 .. Len(E) + Len(Q)
    BY <1>1, <1>4
  <2>2. i > Len(E) => i - Len(E) \in 1 .. Len(P)
    BY <1>1, <2>1
  <2>3. L[i] = IF i <= Len(E) THEN E[i] ELSE P[i - Len(E)]
    BY <1>2, <2>1
  <2>4. M[i] = IF i <= Len(E) THEN E[i] ELSE Q[i - Len(E)]
    BY <1>3, <2>1
  <2>5. i > Len(E) => Q[i - Len(E)] = P[i - Len(E)]
    BY <1>1, <2>2
  <2>6. i <= Len(E) \/ i > Len(E)
    BY <1>1, <2>1
  <2> HIDE DEF L, M
  <2> QED
    BY <2>3, <2>4, <2>5, <2>6
<1>7. M[Len(L) + 1] = e
  <2>1. Len(L) + 1 \in 1 .. Len(E) + Len(Q) /\ ~(Len(L) + 1 <= Len(E))
        /\ Len(L) + 1 - Len(E) = Len(P) + 1
    BY <1>1, <1>4
  <2> QED
    BY <1>1, <1>3, <2>1
<1> QED
  BY <1>2, <1>3, <1>4, <1>5, <1>6, <1>7 DEF Grows, Q

(* The queued events are the beginning of the log.                           *)
LEMMA LogPrefix ==
    ASSUME NEW S, NEW E \in Seq(S), NEW P \in Seq(S)
    PROVE  /\ E \o P \in Seq(S)
           /\ DOMAIN E \subseteq DOMAIN (E \o P) /\ DOMAIN E \subseteq Nat
           /\ \A i \in DOMAIN E : (E \o P)[i] = E[i] /\ 1 .. i \subseteq DOMAIN E
           /\ \A i \in DOMAIN (E \o P) : i \in DOMAIN E \/ \E k \in DOMAIN P : (E \o P)[i] = P[k]
           /\ P = << >> => E \o P = E
<1>1. /\ E \o P \in Seq(S) /\ Len(E \o P) = Len(E) + Len(P)
      /\ \A i \in 1 .. Len(E) + Len(P) :
            (E \o P)[i] = IF i <= Len(E) THEN E[i] ELSE P[i - Len(E)]
  OBVIOUS
<1>2. Len(E) \in Nat /\ Len(P) \in Nat /\ DOMAIN E = 1 .. Len(E) /\ DOMAIN P = 1 .. Len(P)
      /\ DOMAIN (E \o P) = 1 .. Len(E) + Len(P)
  BY <1>1
<1>3. DOMAIN E \subseteq DOMAIN (E \o P) /\ DOMAIN E \subseteq Nat
  BY <1>2
<1>4. ASSUME NEW i \in DOMAIN E PROVE (E \o P)[i] = E[i] /\ 1 .. i \subseteq DOMAIN E
  BY <1>1, <1>2
<1>5. ASSUME NEW i \in DOMAIN (E \o P), i \notin DOMAIN E
      PROVE  \E k \in DOMAIN P : (E \o P)[i] = P[k]
  <2>1. i - Len(E) \in DOMAIN P /\ (E \o P)[i] = P[i - Len(E)]
    BY <1>1, <1>2, <1>5
  <2> QED
    BY <2>1
<1>6. P = << >> => E \o P = E
  OBVIOUS
<1> QED
  BY <1>1, <1>3, <1>4, <1>5, <1>6

(* Two logs that agree on the reports of a session report it alike.          *)
LEMMA ReportedFrame ==
    ASSUME NEW E, NEW F, NEW s, Reported(E, s),
           \A i \in DOMAIN E : E[i].sid = s.sid => \E k \in DOMAIN F : F[k] = E[i],
           \A i \in DOMAIN F : F[i].sid = s.sid => \E k \in DOMAIN E : E[k] = F[i]
    PROVE  Reported(F, s)
<1>1. s.phase \notin {"Connected", "Finalized"} => \A i \in DOMAIN F : F[i].sid # s.sid
  BY DEF Reported
<1>2. s.phase = "Connected" =>
          \A i \in DOMAIN F : F[i].sid = s.sid => F[i].kind = "Connected"
  BY DEF Reported
<1>3. s.phase \in {"Connected", "Finalized"} => TellsConnected(F, s.sid)
  BY DEF Reported, TellsConnected
<1>4. s.phase = "Finalized" => TellsFinalized(F, s.sid, s.decision = "accept")
  BY DEF Reported, TellsFinalized
<1> QED
  BY <1>1, <1>2, <1>3, <1>4 DEF Reported

(* A report in order keeps the log in order.                                 *)
LEMMA GrowsOrderly ==
    ASSUME NEW L, NEW M, NEW e, Grows(L, M, e), Orderly(L),
           \/ e.kind = "Connected" /\ \A i \in DOMAIN L : L[i].sid # e.sid
           \/ /\ e.kind = "Finalized" /\ \A i \in DOMAIN L : L[i].sid = e.sid => L[i].kind = "Connected"
              /\ \E i \in DOMAIN L : L[i].kind = "Connected" /\ L[i].sid = e.sid
    PROVE  Orderly(M)
<1>1. /\ Len(L) \in Nat /\ DOMAIN L = 1 .. Len(L) /\ DOMAIN M = 1 .. Len(L) + 1
      /\ \A i \in 1 .. Len(L) : M[i] = L[i]
      /\ M[Len(L) + 1] = e
  BY DEF Grows
<1>2. ASSUME NEW i \in DOMAIN M, NEW k \in DOMAIN M, i < k, M[i].sid = M[k].sid
      PROVE  M[i].kind = "Connected" /\ M[k].kind = "Finalized"
  <2>1. i \in DOMAIN L /\ (k \in DOMAIN L \/ k = Len(L) + 1)
    BY <1>1, <1>2
  <2> QED
    BY <1>1, <1>2, <2>1 DEF Orderly
<1>3. ASSUME NEW k \in DOMAIN M, M[k].kind = "Finalized"
      PROVE  \E i \in 1 .. k : M[i].kind = "Connected" /\ M[i].sid = M[k].sid
  <2>1. CASE k \in DOMAIN L
    <3>1. PICK i \in 1 .. k : L[i].kind = "Connected" /\ L[i].sid = L[k].sid
      BY <1>1, <1>3, <2>1 DEF Orderly
    <3>2. i \in DOMAIN L
      BY <1>1, <2>1
    <3> QED
      BY <1>1, <2>1, <3>1, <3>2
  <2>2. CASE k = Len(L) + 1
    <3>1. PICK i \in DOMAIN L : L[i].kind = "Connected" /\ L[i].sid = e.sid
      BY <1>1, <1>3, <2>2
    <3>2. i \in 1 .. k
      BY <1>1, <2>2
    <3> QED
      BY <1>1, <2>2, <3>1, <3>2
  <2> QED
    BY <1>1, <2>1, <2>2
<1> QED
  BY <1>2, <1>3 DEF Orderly

(* The beginning of a log in order is in order.                              *)
LEMMA PrefixOrderly ==
    ASSUME NEW S, NEW E \in Seq(S), NEW P \in Seq(S), Orderly(E \o P)
    PROVE  Orderly(E)
<1> DEFINE L == E \o P
<1>1. /\ DOMAIN E \subseteq DOMAIN L
      /\ \A i \in DOMAIN E : L[i] = E[i] /\ 1 .. i \subseteq DOMAIN E
  BY LogPrefix
<1>2. Orderly(L)
  OBVIOUS
<1> HIDE DEF L
<1>3. ASSUME NEW k \in DOMAIN E, E[k].kind = "Finalized"
      PROVE  \E i \in 1 .. k : E[i].kind = "Connected" /\ E[i].sid = E[k].sid
  <2>1. PICK i \in 1 .. k : L[i].kind = "Connected" /\ L[i].sid = L[k].sid
    BY <1>1, <1>2, <1>3 DEF Orderly
  <2> QED
    BY <1>1, <2>1
<1> QED
  BY <1>1, <1>2, <1>3 DEF Orderly

(* A report stays when the log grows.                                        *)
LEMMA BackedLasts ==
    ASSUME NEW E, NEW F, \A i \in DOMAIN E : \E k \in DOMAIN F : F[k] = E[i],
           NEW r, Backed(E, r)
    PROVE  Backed(F, r)
BY DEF Backed, TellsConnected, TellsFinalized

(* What a handler's event does to the log keeps it in order and keeps the    *)
(* session reported.                                                         *)
LEMMA EventKeepsOrder ==
    ASSUME NEW L, NEW M, NEW e, NEW s, NEW t, Grows(L, M, e), Orderly(L), Reported(L, s),
           SessionOK(t), t.sid = s.sid,
           e = [kind |-> e.kind, sid |-> t.sid, accepted |-> t.decision = "accept"],
           \/ e.kind = "Connected" /\ s.phase = "AwaitingClientFlight" /\ t.phase = "Connected"
           \/ e.kind = "Finalized" /\ s.phase = "Connected" /\ t.phase = "Finalized"
    PROVE  Orderly(M) /\ Reported(M, t)
<1>1. e.sid = s.sid
  OBVIOUS
<1>2. /\ Len(L) \in Nat /\ DOMAIN L = 1 .. Len(L) /\ DOMAIN M = 1 .. Len(L) + 1
      /\ \A i \in 1 .. Len(L) : M[i] = L[i]
      /\ M[Len(L) + 1] = e
  BY DEF Grows
<1>3. Len(L) + 1 \in DOMAIN M /\ DOMAIN L \subseteq DOMAIN M
      /\ \A i \in DOMAIN M : i \in DOMAIN L \/ i = Len(L) + 1
  BY <1>2
<1>4. CASE e.kind = "Connected" /\ s.phase = "AwaitingClientFlight" /\ t.phase = "Connected"
  <2>1. \A i \in DOMAIN L : L[i].sid # e.sid
    BY <1>1, <1>4 DEF Reported
  <2>2. Orderly(M)
    BY <1>4, <2>1, GrowsOrderly
  <2>3. t.decision = "none"
    BY <1>4 DEF SessionOK
  <2>4. e = [kind |-> "Connected", sid |-> t.sid, accepted |-> FALSE]
    BY <1>4, <2>3
  <2>5. TellsConnected(M, t.sid)
    BY <1>2, <1>3, <2>4 DEF TellsConnected
  <2>6. \A i \in DOMAIN M : M[i].sid = t.sid => M[i].kind = "Connected"
    BY <1>1, <1>2, <1>3, <1>4, <2>1
  <2> QED
    BY <1>4, <2>2, <2>5, <2>6 DEF Reported
<1>5. CASE e.kind = "Finalized" /\ s.phase = "Connected" /\ t.phase = "Finalized"
  <2>1. TellsConnected(L, s.sid) /\ \A i \in DOMAIN L : L[i].sid = s.sid => L[i].kind = "Connected"
    BY <1>5 DEF Reported
  <2>2. PICK i \in DOMAIN L : L[i] = [kind |-> "Connected", sid |-> s.sid, accepted |-> FALSE]
    BY <2>1 DEF TellsConnected
  <2>3. L[i].kind = "Connected" /\ L[i].sid = e.sid
    BY <1>1, <2>2
  <2>4. Orderly(M)
    BY <1>1, <1>5, <2>1, <2>3, GrowsOrderly
  <2>5. TellsConnected(M, t.sid)
    BY <1>2, <1>3, <2>2 DEF TellsConnected
  <2>6. e = [kind |-> "Finalized", sid |-> t.sid, accepted |-> t.decision = "accept"]
    BY <1>5
  <2>7. TellsFinalized(M, t.sid, t.decision = "accept")
    BY <1>2, <1>3, <2>6 DEF TellsFinalized
  <2> QED
    BY <1>5, <2>4, <2>5, <2>7 DEF Reported
<1> QED
  BY <1>4, <1>5

-----------------------------------------------------------------------------
(* The history `born' of created sessions grows at its end.                  *)
LEMMA BirthAdded ==
    ASSUME NEW S, NEW q \in Seq(S), NEW e \in S
    PROVE  /\ Append(q, e) \in Seq(S)
           /\ Len(Append(q, e)) = Len(q) + 1
           /\ \A i \in 1 .. Len(q) : Append(q, e)[i] = q[i]
           /\ Append(q, e)[Len(q) + 1] = e
OBVIOUS

(* A handler call is counted in the entry of its session, in place.          *)
LEMMA BirthCounted ==
    ASSUME NEW S, NEW q \in Seq(S), NEW i \in 1 .. Len(q), NEW e \in S
    PROVE  /\ [q EXCEPT ![i] = e] \in Seq(S)
           /\ Len([q EXCEPT ![i] = e]) = Len(q)
           /\ \A k \in 1 .. Len(q) : [q EXCEPT ![i] = e][k] = IF k = i THEN e ELSE q[k]
OBVIOUS

-----------------------------------------------------------------------------
(* Layer 1: types, the session table and the datagram being handled.         *)

(* A session and the history of its sid agree.                               *)
Registered(j, s) ==
    s.phase # "Vacant" =>
        /\ s.sid \in 1 .. Len(born)
        /\ born[s.sid].joiner = j
        /\ born[s.sid].pskd = s.pskd
        /\ born[s.sid].calls = IF s.decision = "none" THEN 0 ELSE 1

TableInv ==
    /\ TypeOK
    /\ \A j \in Joiner : SessionOK(sessions[j]) /\ Registered(j, sessions[j])
    /\ ~Idle => sessions[cur].phase # "Vacant" /\ ~Expired(sessions[cur])
    /\ Idle => rest = << >> /\ pendTx = {} /\ pendEv = << >>
    /\ \A b \in DOMAIN born : born[b].calls <= 1

(* An empty table entry satisfies the session contract.                      *)
LEMMA NoSessionOK == SessionOK(NoSession) /\ NoSession.phase = "Vacant" /\ NoSession.left = 0
<1>1. NoSession \in Session
  BY TimeoutAssumption DEF NoSession, Session, Phase, Key, NoKey
<1> QED
  BY <1>1 DEF SessionOK, NoSession

(* A session as JoinerSession::new builds it satisfies the contract.         *)
LEMMA NewSessionOK ==
    ASSUME NEW n \in Nat, n # 0, NEW p \in Pskd
    PROVE  LET s == NewSession(n, p) IN
           /\ SessionOK(s) /\ s.phase = "AwaitingClientHello" /\ s.sid = n /\ s.pskd = p
           /\ s.decision = "none" /\ ~Expired(s) /\ s.flight = {} /\ s.e0 = 0 /\ s.e1 = 0
<1> DEFINE s == NewSession(n, p)
<1>1. s \in Session
  BY TimeoutAssumption DEF NewSession, Lifetime, Session, Phase, Key, NoKey
<1>2. /\ s.phase = "AwaitingClientHello" /\ s.sid = n /\ s.pskd = p /\ s.key = NoKey
      /\ s.decision = "none" /\ s.flight = {} /\ s.e0 = 0 /\ s.e1 = 0
      /\ s.left = SessionTimeout
  BY DEF NewSession, Lifetime
<1> QED
  BY <1>1, <1>2, TimeoutAssumption DEF SessionOK, Expired

(* What an empty entry and a new session hold.                               *)
LEMMA VacantFields ==
    /\ NoSession.sid = 0 /\ NoSession.phase = "Vacant" /\ NoSession.flight = {}
    /\ NoSession.key = NoKey /\ NoSession.decision = "none"
BY DEF NoSession

LEMMA NewFields ==
    ASSUME NEW n, NEW p
    PROVE  /\ NewSession(n, p).sid = n /\ NewSession(n, p).flight = {}
           /\ NewSession(n, p).phase = "AwaitingClientHello"
BY DEF NewSession

(* The births of a well-formed table are counted by a natural number, which  *)
(* neither an empty entry's identity nor the next session's is among.        *)
LEMMA BirthsCounted ==
    ASSUME TableInv
    PROVE  /\ Len(born) \in Nat
           /\ 0 \notin 1 .. Len(born) /\ Len(born) + 1 \notin 1 .. Len(born)
<1>1. born \in Seq(Birth)
  BY DEF TableInv, TypeOK
<1>2. Len(born) \in Nat
  BY <1>1
<1> QED
  BY <1>2

(* A datagram of one record.                                                 *)
LEMMA Single ==
    ASSUME NEW m
    PROVE  DOMAIN <<m>> = {1} /\ <<m>>[1] = m
OBVIOUS

(* The clock keeps everything of a session but its deadline.                 *)
LEMMA CountdownOK ==
    ASSUME NEW s, SessionOK(s)
    PROVE  LET t == Countdown(s) IN
           /\ SessionOK(t) /\ t.phase = s.phase /\ t.sid = s.sid /\ t.pskd = s.pskd
           /\ t.decision = s.decision /\ t.flight = s.flight /\ t.e0 = s.e0
           /\ t.e1 = s.e1 /\ t.key = s.key
<1> DEFINE n == IF s.left = 0 THEN 0 ELSE s.left - 1
           t == [s EXCEPT !.left = n]
<1>1. s \in Session
  BY DEF SessionOK
<1>2. n \in 0 .. SessionTimeout
  BY <1>1, TimeoutAssumption DEF Session
<1>3. t \in Session
  BY <1>1, <1>2 DEF Session
<1>4. /\ t.phase = s.phase /\ t.sid = s.sid /\ t.pskd = s.pskd /\ t.key = s.key
      /\ t.hello = s.hello /\ t.decision = s.decision /\ t.flight = s.flight
      /\ t.e0 = s.e0 /\ t.e1 = s.e1
  BY <1>1 DEF Session
<1>5. s.phase = "Vacant" => t = NoSession
  <2>1. ASSUME s = NoSession PROVE t = s
    BY <2>1 DEF NoSession
  <2> QED BY <2>1 DEF SessionOK
<1> QED
  BY <1>3, <1>4, <1>5 DEF SessionOK, Countdown

(* Counting a call of the handler changes nothing else of a session's        *)
(* history.                                                                  *)
LEMMA OneMoreCall ==
    ASSUME NEW b \in Birth
    PROVE  /\ [b EXCEPT !.calls = @ + 1] \in Birth
           /\ [b EXCEPT !.calls = @ + 1].joiner = b.joiner
           /\ [b EXCEPT !.calls = @ + 1].pskd = b.pskd
           /\ [b EXCEPT !.calls = @ + 1].calls = b.calls + 1
BY DEF Birth

(* One record: whatever the outcome, layer 1 is kept.                        *)
LEMMA OutcomeKeepsTable ==
    ASSUME TableInv, ~Idle, rest # << >>, NEW out, OutOK(sessions[cur], out), Outcome(out)
    PROVE  TableInv'
<1> DEFINE s == sessions[cur]
<1>1. cur \in Joiner /\ s \in Session /\ SessionOK(s) /\ s.phase # "Vacant"
      /\ s.sid \in 1 .. Len(born) /\ Registered(cur, s) /\ sessions \in [Joiner -> Session]
  BY DEF TableInv, TypeOK, Idle, Registered
<1> DEFINE b1 == [born[s.sid] EXCEPT !.calls = @ + 1]
<1>2. born \in Seq(Birth) /\ born[s.sid] \in Birth
  BY <1>1 DEF TableInv, TypeOK
<1>3. b1 \in Birth /\ b1.joiner = born[s.sid].joiner /\ b1.pskd = born[s.sid].pskd
      /\ b1.calls = born[s.sid].calls + 1
  BY <1>2, OneMoreCall
<1>4. born' = IF Asks(s, out) THEN [born EXCEPT ![s.sid] = b1] ELSE born
  BY DEF Outcome
<1> HIDE DEF b1
<1>5. born' \in Seq(Birth) /\ Len(born') = Len(born)
      /\ \A b \in 1 .. Len(born) : b # s.sid => born'[b] = born[b]
  BY <1>1, <1>2, <1>3, <1>4, BirthCounted
<1>6. born'[s.sid] = IF Asks(s, out) THEN b1 ELSE born[s.sid]
  BY <1>1, <1>2, <1>3, <1>4, BirthCounted
<1>7. TypeOK'
  <2>1. out.ok => Tail(rest) \in Seq(ClientRecord)
    BY DEF TableInv, TypeOK
  <2>2. out.ok => out.s \in Session
    BY DEF OutOK, Continues, SessionOK
  <2>3. sessions' \in [Joiner -> Session]
    BY <1>1, <2>2, NoSessionOK DEF Outcome, Remove, SessionOK
  <2>4. pendTx' \subseteq Transmission
    BY DEF Outcome, OutOK, OutType, Transmission, TableInv, TypeOK
  <2>5. pendEv' \in Seq(Event)
    <3>1. CASE out.ok /\ out.event # "none"
      <4> DEFINE e == [kind |-> out.event, sid |-> out.s.sid,
                       accepted |-> out.s.decision = "accept"]
      <4>1. e \in Event
        BY <3>1, <2>2 DEF Event, Session, OutOK, OutType
      <4>2. pendEv' = Append(pendEv, e)
        BY <3>1 DEF Outcome
      <4> HIDE DEF e
      <4> QED
        BY <4>1, <4>2 DEF TableInv, TypeOK
    <3>2. CASE ~(out.ok /\ out.event # "none")
      BY <3>2 DEF Outcome, TableInv, TypeOK
    <3> QED BY <3>1, <3>2
  <2>6. sealed' \subseteq ServerRecord
    BY DEF Outcome, OutOK, OutType, TableInv, TypeOK
  <2>7. cur' \in Joiner \cup {NoJoiner} /\ rest' \in Seq(ClientRecord)
    BY <1>1, <2>1 DEF Outcome
  <2> QED
    BY <1>5, <2>3, <2>4, <2>5, <2>6, <2>7 DEF TypeOK, TableInv, Outcome, devVars
<1>8. \A j \in Joiner : SessionOK(sessions[j])' /\ Registered(j, sessions[j])'
  <2> SUFFICES ASSUME NEW j \in Joiner
               PROVE  SessionOK(sessions'[j]) /\ Registered(j, sessions[j])'
    BY DEF SessionOK
  <2>1. CASE j # cur
    <3>1. sessions'[j] = sessions[j]
      BY <1>1, <2>1 DEF Outcome, Remove
    <3>2. sessions[j].phase # "Vacant" => sessions[j].sid # s.sid
      BY <1>1, <2>1 DEF TableInv, Registered
    <3> QED
      BY <3>1, <3>2, <1>5 DEF TableInv, Registered
  <2>2. CASE j = cur /\ out.ok
    <3>1. sessions'[j] = out.s /\ Continues(s, out.s)
      BY <1>1, <2>2 DEF Outcome, OutOK
    <3>2. born[s.sid].calls = IF s.decision = "none" THEN 0 ELSE 1
      BY <1>1 DEF Registered
    <3>3. born'[s.sid].joiner = cur /\ born'[s.sid].pskd = s.pskd
      BY <1>1, <1>3, <1>6 DEF Registered
    <3>4. born'[s.sid].calls = IF out.s.decision = "none" THEN 0 ELSE 1
      BY <3>1, <3>2, <1>3, <1>6 DEF Asks, Continues
    <3> QED
      BY <1>1, <1>5, <2>2, <3>1, <3>3, <3>4 DEF Registered, Continues
  <2>3. CASE j = cur /\ ~out.ok
    <3>1. sessions'[j] = NoSession
      BY <1>1, <2>3 DEF Outcome, Remove
    <3> QED
      BY <3>1, NoSessionOK DEF Registered
  <2> QED
    BY <2>1, <2>2, <2>3
<1>9. ~Idle' => sessions'[cur'].phase # "Vacant" /\ ~Expired(sessions'[cur'])
  BY <1>1 DEF Outcome, Idle, OutOK, Continues, Expired, TableInv
<1>10. Idle' => rest' = << >> /\ pendTx' = {} /\ pendEv' = << >>
  BY <1>1, JoinerAssumption DEF Outcome, Idle
<1>11. \A b \in DOMAIN born' : born'[b].calls <= 1
  <2>1. DOMAIN born' = 1 .. Len(born) /\ DOMAIN born = 1 .. Len(born)
    BY <1>2, <1>5
  <2>2. born'[s.sid].calls <= 1
    <3>1. CASE Asks(s, out)
      <4>1. out.ok /\ s.decision = "none"
        BY <3>1 DEF Asks, OutOK, Continues
      <4> QED
        BY <3>1, <4>1, <1>1, <1>3, <1>6 DEF Registered
    <3>2. CASE ~Asks(s, out)
      BY <3>2, <1>1, <1>6, <2>1 DEF TableInv
    <3> QED BY <3>1, <3>2
  <2> QED
    BY <1>5, <2>1, <2>2 DEF TableInv
<1> QED
  BY <1>7, <1>8, <1>9, <1>10, <1>11 DEF TableInv, Expired

(* The handlers' outcomes all satisfy the contract.                          *)
LEMMA RecordOutcome ==
    ASSUME TableInv,
           PlaintextHandshake \/ ChangeCipherSpec \/ EncryptedHandshake
             \/ ApplicationData \/ AlertOrMalformed
    PROVE  /\ ~Idle /\ rest # << >>
           /\ \E out : /\ OutOK(sessions[cur], out) /\ Outcome(out)
                       /\ Tells(sessions[cur], Head(rest), out)
<1> DEFINE s == sessions[cur]
           r == Head(rest)
<1>1. ~Idle /\ rest # << >>
  BY DEF PlaintextHandshake, ChangeCipherSpec, EncryptedHandshake, ApplicationData,
         AlertOrMalformed, Next1
<1>2. SessionOK(s) /\ s.phase # "Vacant"
  BY <1>1 DEF TableInv, TypeOK, Idle
<1>3. r \in ClientRecord
  BY <1>1 DEF TableInv, TypeOK
<1> SUFFICES \E out : OutOK(s, out) /\ Outcome(out) /\ Tells(s, r, out)
  BY <1>1
<1>4. CASE PlaintextHandshake
  <2>1. OutOK(s, HandlePlaintextHandshake(s, r))
    BY <1>2, <1>3, ClientHelloOK, ClientKeyExchangeOK DEF HandlePlaintextHandshake
  <2>2. Tells(s, r, HandlePlaintextHandshake(s, r))
    BY <1>2, ClientHelloTells, ClientKeyExchangeTells DEF HandlePlaintextHandshake
  <2> QED
    BY <1>4, <2>1, <2>2 DEF PlaintextHandshake
<1>5. CASE ChangeCipherSpec
  <2>1. OutOK(s, HandleChangeCipherSpec(s, r)) /\ Tells(s, r, HandleChangeCipherSpec(s, r))
    BY <1>2, ChangeCipherSpecOK, ChangeCipherSpecTells
  <2> QED
    BY <1>5, <2>1 DEF ChangeCipherSpec
<1>6. CASE EncryptedHandshake
  <2>1. r.kind = "Finished"
    BY <1>6 DEF EncryptedHandshake, Next1
  <2>2. OutOK(s, HandleEncryptedHandshake(s, r)) /\ Tells(s, r, HandleEncryptedHandshake(s, r))
    BY <1>2, <2>1, EncryptedHandshakeOK, EncryptedHandshakeTells
  <2> QED
    BY <1>6, <2>2 DEF EncryptedHandshake
<1>7. CASE ApplicationData
  <2>1. PICK answer \in {"accept", "reject"} : Outcome(HandleApplicationData(s, r, answer))
    BY <1>7 DEF ApplicationData
  <2>2. r.mid \in Nat
    BY <1>3 DEF ClientRecord
  <2>3. OutOK(s, HandleApplicationData(s, r, answer))
    BY <1>2, <2>2, ApplicationDataOK
  <2>4. Tells(s, r, HandleApplicationData(s, r, answer))
    BY <1>2, ApplicationDataTells
  <2> QED
    BY <2>1, <2>3, <2>4
<1>8. CASE AlertOrMalformed
  <2>1. OutOK(s, Err(s)) /\ Tells(s, r, Err(s))
    BY ErrOK, ErrTells
  <2> QED
    BY <1>8, <2>1 DEF AlertOrMalformed
<1> QED
  BY <1>4, <1>5, <1>6, <1>7, <1>8

(* The commissioner starts with an empty, well-formed session table.         *)
LEMMA TableInit == Init => TableInv
<1> SUFFICES ASSUME Init PROVE TableInv
  OBVIOUS
<1>1. NoSession \in Session
  BY NoSessionOK DEF SessionOK
<1>2. TypeOK
  BY <1>1 DEF Init, TypeOK, Device
<1> QED
  BY <1>2, NoSessionOK DEF Init, TableInv, Registered, Idle

(* The joiner's actions touch nothing of layer 1 but dev and rx.             *)
DeviceStep(j) ==
    \/ DeviceStart(j) \/ DeviceCookie(j) \/ DeviceFlight(j) \/ DeviceConnected(j)
    \/ DeviceRequest(j) \/ DeviceFinalized(j) \/ DeviceFails(j)

(* A joiner touches neither the commissioner nor what was sent to it.        *)
LEMMA DeviceFrame ==
    ASSUME NEW j \in Joiner, DeviceStep(j)
    PROVE  UNCHANGED <<handler, sessions, events, cur, rest, pendTx, pendEv, tx,
                       devPskd, born, sealed>>
BY DEF DeviceStep, DeviceStart, DeviceCookie, DeviceFlight, DeviceConnected, DeviceRequest,
       DeviceFinalized, DeviceFails, commVars, devVars

(* The messages of a joiner are client records.                              *)
LEMMA MessagesTyped ==
    ASSUME NEW k \in Key, NEW n \in Nat, NEW c \in Nat
    PROVE  /\ Hello(n, c) \in ClientRecord /\ Kex(k) \in ClientRecord
           /\ Ccs \in ClientRecord /\ Fin(k) \in ClientRecord
           /\ App(k, "JOIN_FIN", n) \in ClientRecord /\ App(k, "other", n) \in ClientRecord
           /\ Alert \in ClientRecord /\ Garbage \in ClientRecord
<1>1. NoKey \in Key
  BY DEF NoKey, Key
<1> QED
  BY <1>1 DEF Hello, Kex, Ccs, Fin, App, Alert, Garbage, ClientMsg, ClientRecord

(* What a joiner sends keeps the relay well typed.                           *)
LEMMA SendTyped ==
    ASSUME TypeOK, NEW j \in Joiner, NEW D, D \subseteq Seq(ClientRecord), Send(j, D)
    PROVE  rx' \in [Joiner -> SUBSET Seq(ClientRecord)]
<1>1. rx \in [Joiner -> SUBSET Seq(ClientRecord)] /\ rx' = [rx EXCEPT ![j] = rx[j] \cup D]
  BY DEF TypeOK, Send
<1>2. rx[j] \cup D \in SUBSET Seq(ClientRecord)
  BY <1>1
<1> QED
  BY <1>1, <1>2

(* A joiner's steps keep the relay and the joiner well typed.                *)
LEMMA DeviceTyped ==
    ASSUME TypeOK, NEW j \in Joiner, DeviceStep(j)
    PROVE  dev' \in [Joiner -> Device] /\ rx' \in [Joiner -> SUBSET Seq(ClientRecord)]
<1>1. dev[j] \in Device /\ DevKey(j) \in Key
  BY DEF TypeOK, Device, DevKey, Key
<1>2. \A r \in Heard(j) : r \in ServerRecord
  BY DEF Heard, TypeOK, RelayTx
<1>3. CASE DeviceStart(j)
  <2>1. <<Hello(dev[j].aid + 1, 0)>> \in Seq(ClientRecord)
    BY <1>1, MessagesTyped DEF Device, TypeOK
  <2> QED
    <3>1. rx' \in [Joiner -> SUBSET Seq(ClientRecord)]
      BY <1>3, <2>1, SendTyped DEF DeviceStart
    <3>2. dev' \in [Joiner -> Device]
      BY <1>1, <1>3 DEF DeviceStart, TypeOK, Device
    <3> QED BY <3>1, <3>2
<1>4. CASE DeviceCookie(j)
  <2>1. PICK r \in Heard(j) : Send(j, {<<Hello(dev[j].aid, r.sid)>>})
    BY <1>4 DEF DeviceCookie
  <2>2. <<Hello(dev[j].aid, r.sid)>> \in Seq(ClientRecord)
    BY <1>1, <1>2, MessagesTyped DEF Device, ServerRecord
  <2> QED
    BY <1>4, <2>1, <2>2, SendTyped DEF DeviceCookie, TypeOK, devVars
<1>5. CASE DeviceFlight(j)
  <2> DEFINE key(r) == [aid |-> dev[j].aid, sid |-> r.sid, pskd |-> devPskd[j]]
  <2>1. PICK r \in Heard(j) :
           /\ dev' = [dev EXCEPT ![j].st = "flight", ![j].sid = r.sid]
           /\ \/ Send(j, {<<Kex(key(r)), Ccs, Fin(key(r))>>})
              \/ Send(j, {<<Kex(key(r))>>, <<Ccs>>, <<Fin(key(r))>>})
    BY <1>5 DEF DeviceFlight
  <2>2. key(r) \in Key /\ r.sid \in Nat
    BY <1>1, <1>2 DEF Key, ServerRecord, Device, TypeOK
  <2> HIDE DEF key
  <2>3. Kex(key(r)) \in ClientRecord /\ Ccs \in ClientRecord /\ Fin(key(r)) \in ClientRecord
    BY <2>2, MessagesTyped
  <2>4. /\ <<Kex(key(r)), Ccs, Fin(key(r))>> \in Seq(ClientRecord)
        /\ <<Kex(key(r))>> \in Seq(ClientRecord) /\ <<Ccs>> \in Seq(ClientRecord)
        /\ <<Fin(key(r))>> \in Seq(ClientRecord)
    BY <2>3
  <2>5. dev' \in [Joiner -> Device]
    BY <1>1, <2>1, <2>2 DEF TypeOK, Device
  <2>6. rx' \in [Joiner -> SUBSET Seq(ClientRecord)]
    BY <2>1, <2>4, SendTyped
  <2> QED
    BY <2>5, <2>6
<1>6. CASE DeviceConnected(j)
  BY <1>1, <1>6 DEF DeviceConnected, TypeOK, Device
<1>7. CASE DeviceRequest(j)
  <2> DEFINE D == {<<App(DevKey(j), "JOIN_FIN", 1)>>, <<App(DevKey(j), "JOIN_FIN", 2)>>,
                   <<App(DevKey(j), "other", 3)>>,
                   <<App(DevKey(j), "JOIN_FIN", 1), Alert>>}
  <2>1. PICK d \in D : Send(j, {d})
    BY <1>7 DEF DeviceRequest
  <2>2. /\ App(DevKey(j), "JOIN_FIN", 1) \in ClientRecord
        /\ App(DevKey(j), "JOIN_FIN", 2) \in ClientRecord
        /\ App(DevKey(j), "other", 3) \in ClientRecord /\ Alert \in ClientRecord
    BY <1>1, MessagesTyped
  <2>3. D \subseteq Seq(ClientRecord)
    BY <2>2
  <2> QED
    BY <1>7, <2>1, <2>3, SendTyped DEF DeviceRequest, TypeOK, devVars
<1>8. CASE DeviceFinalized(j)
  <2>1. PICK r \in Heard(j) : dev' = [dev EXCEPT ![j].st = "done", ![j].result = r.state]
    BY <1>8 DEF DeviceFinalized
  <2>2. r.state \in {"none", "accept", "reject"}
    BY <1>2 DEF ServerRecord
  <2> QED
    BY <1>1, <1>8, <2>1, <2>2 DEF DeviceFinalized, TypeOK, Device
<1>9. CASE DeviceFails(j)
  <2>1. <<Alert>> \in Seq(ClientRecord) /\ <<Garbage>> \in Seq(ClientRecord)
    BY <1>1, MessagesTyped DEF Device
  <2> QED
    <3>1. rx' \in [Joiner -> SUBSET Seq(ClientRecord)]
      BY <1>9, <2>1, SendTyped DEF DeviceFails
    <3>2. dev' \in [Joiner -> Device]
      BY <1>1, <1>9 DEF DeviceFails, TypeOK, Device
    <3> QED BY <3>1, <3>2
<1> QED
  BY <1>3, <1>4, <1>5, <1>6, <1>7, <1>8, <1>9 DEF DeviceStep

(* An action that only drops sessions, or none, between two datagrams.       *)
LEMMA DropKeepsTable ==
    ASSUME TableInv, Idle, handler' \in Handlers \cup {NoHandler},
           sessions' \in [Joiner -> Session],
           \A j \in Joiner : sessions'[j] = sessions[j] \/ sessions'[j] = NoSession,
           UNCHANGED <<events, cur, rest, pendTx, pendEv, rx, tx, devVars, born, sealed>>
    PROVE  TableInv'
<1>1. TypeOK'
  BY DEF TableInv, TypeOK, devVars
<1>2. \A j \in Joiner : SessionOK(sessions'[j]) /\ Registered(j, sessions[j])'
  BY NoSessionOK DEF TableInv, Registered
<1> QED
  BY <1>1, <1>2 DEF TableInv, Idle, SessionOK, Expired

(* The sweep of handle_relay_rx keeps or empties an entry, and empties every *)
(* expired one.                                                              *)
LEMMA SweepShape ==
    ASSUME TableInv
    PROVE  /\ Sweep(sessions) \in [Joiner -> Session]
           /\ \A j \in Joiner : Sweep(sessions)[j] = sessions[j] \/ Sweep(sessions)[j] = NoSession
           /\ \A j \in Joiner : Sweep(sessions)[j] # NoSession =>
                 ~Expired(sessions[j]) /\ Sweep(sessions)[j] = sessions[j]
                 /\ sessions[j].phase # "Vacant"
BY NoSessionOK DEF Sweep, TableInv, TypeOK, SessionOK

(* Layer 1 is inductive: every action keeps the session table well formed.   *)
LEMMA TableStep == TableInv /\ [Next]_vars => TableInv'
<1> SUFFICES ASSUME TableInv, [Next]_vars PROVE TableInv'
  OBVIOUS
<1>t. TypeOK
  BY DEF TableInv
<1>n. NoSession \in Session
  BY NoSessionOK DEF SessionOK
<1>1. CASE \E j \in Joiner : DeviceStep(j)
  <2>1. PICK j \in Joiner : DeviceStep(j)
    BY <1>1
  <2>2. UNCHANGED <<handler, sessions, events, cur, rest, pendTx, pendEv, tx, devPskd,
                    born, sealed>>
    BY <2>1, DeviceFrame
  <2>3. TypeOK'
    BY <1>t, <2>1, <2>2, DeviceTyped DEF TypeOK
  <2> QED
    BY <2>2, <2>3 DEF TableInv, Registered, Idle, SessionOK, Expired
<1>2. ASSUME NEW j \in Joiner, RelayRxIgnored(j) PROVE TableInv'
  BY <1>2, <1>t, SweepShape, DropKeepsTable DEF RelayRxIgnored, TypeOK
<1>3. ASSUME NEW j \in Joiner, RelayRxNewSession(j) PROVE TableInv'
  <2> DEFINE n == Len(born) + 1
             new == NewSession(n, handler[j])
             b == [joiner |-> j, pskd |-> handler[j], calls |-> 0]
             swept == Sweep(sessions)
  <2>1. handler[j] \in Pskd /\ born \in Seq(Birth) /\ n \in Nat /\ n # 0
    BY <1>3, <1>t DEF RelayRxNewSession, TypeOK, Handlers
  <2>2. b \in Birth /\ b.calls <= 1
    BY <2>1 DEF Birth
  <2>3. /\ SessionOK(new) /\ new.phase = "AwaitingClientHello" /\ new.sid = n
        /\ new.pskd = handler[j] /\ new.decision = "none" /\ ~Expired(new)
    BY <2>1, NewSessionOK
  <2> HIDE DEF new, b
  <2>4. born' \in Seq(Birth) /\ Len(born') = n /\ born'[n] = b
        /\ \A i \in 1 .. Len(born) : born'[i] = born[i]
    <3>1. born' = Append(born, b)
      BY <1>3 DEF RelayRxNewSession, b
    <3> QED
      BY <2>1, <2>2, <3>1, BirthAdded
  <2>5. sessions' \in [Joiner -> Session] /\ sessions'[j] = new
        /\ \A k \in Joiner : k # j => sessions'[k] = swept[k]
    BY <1>3, <2>3, SweepShape DEF RelayRxNewSession, SessionOK, new
  <2>6. cur' = j /\ rest' \in Seq(ClientRecord)
    BY <1>3, <1>t DEF RelayRxNewSession, TypeOK
  <2>7. TypeOK'
    BY <1>3, <1>t, <2>4, <2>5, <2>6 DEF RelayRxNewSession, TypeOK, devVars
  <2>8. ASSUME NEW k \in Joiner PROVE SessionOK(sessions'[k]) /\ Registered(k, sessions[k])'
    <3>1. CASE k = j
      BY <3>1, <2>1, <2>3, <2>4, <2>5 DEF Registered, b
    <3>2. CASE k # j
      <4>1. sessions'[k] = sessions[k] \/ sessions'[k] = NoSession
        BY <3>2, <2>5, SweepShape
      <4> QED
        BY <4>1, <2>1, <2>4, NoSessionOK DEF TableInv, Registered
    <3> QED BY <3>1, <3>2
  <2>9. \A i \in DOMAIN born' : born'[i].calls <= 1
    BY <2>1, <2>2, <2>4 DEF TableInv
  <2>10. Idle' = FALSE
    BY <2>6, JoinerAssumption DEF Idle
  <2> QED
    BY <2>3, <2>5, <2>6, <2>7, <2>8, <2>9, <2>10 DEF TableInv, Expired, SessionOK
<1>4. ASSUME NEW j \in Joiner, RelayRx(j) PROVE TableInv'
  <2>1. cur' = j /\ rest' \in Seq(ClientRecord)
    BY <1>4, <1>t DEF RelayRx, TypeOK
  <2>2. sessions' = Sweep(sessions) /\ sessions' \in [Joiner -> Session]
        /\ \A k \in Joiner : sessions'[k] = sessions[k] \/ sessions'[k] = NoSession
    BY <1>4, SweepShape DEF RelayRx
  <2>3. sessions'[j] = sessions[j] /\ ~Expired(sessions[j]) /\ sessions[j].phase # "Vacant"
    BY <1>4, <2>2, SweepShape DEF RelayRx
  <2>4. TypeOK'
    BY <1>4, <1>t, <2>1, <2>2 DEF RelayRx, TypeOK, devVars
  <2>5. ASSUME NEW k \in Joiner
        PROVE  SessionOK(sessions'[k]) /\ Registered(k, sessions[k])'
    <3>1. born' = born
      BY <1>4 DEF RelayRx
    <3>2. SessionOK(sessions[k]) /\ Registered(k, sessions[k])
      BY DEF TableInv
    <3>3. CASE sessions'[k] = sessions[k]
      BY <3>1, <3>2, <3>3 DEF Registered
    <3>4. CASE sessions'[k] = NoSession
      BY <3>4, NoSessionOK DEF Registered
    <3> QED BY <2>2, <3>3, <3>4
  <2>6. Idle' = FALSE
    BY <2>1, JoinerAssumption DEF Idle
  <2> QED
    BY <1>4, <2>1, <2>3, <2>4, <2>5, <2>6 DEF RelayRx, TableInv, Expired, SessionOK
<1>5. CASE SetJoinerHandler
  BY <1>5, <1>t, DropKeepsTable DEF SetJoinerHandler, TypeOK
<1>6. CASE ClearJoinerHandler
  BY <1>6, <1>n, DropKeepsTable DEF ClearJoinerHandler
<1>7. CASE Disconnect
  BY <1>7, <1>t, <1>n, DropKeepsTable DEF Disconnect, TypeOK
<1>8. CASE Tick
  <2>1. \A j \in Joiner : sessions'[j] = Countdown(sessions[j])
    BY <1>8 DEF Tick
  <2>2. ASSUME NEW j \in Joiner
        PROVE  /\ SessionOK(sessions'[j]) /\ sessions'[j].phase = sessions[j].phase
               /\ sessions'[j].sid = sessions[j].sid /\ sessions'[j].pskd = sessions[j].pskd
               /\ sessions'[j].decision = sessions[j].decision
    BY <2>1, CountdownOK DEF TableInv
  <2>3. \A j \in Joiner : sessions'[j] \in Session
    BY <2>2 DEF SessionOK
  <2>4. sessions' \in [Joiner -> Session]
    BY <1>8, <2>3 DEF Tick
  <2>5. TypeOK'
    BY <1>8, <1>t, <2>4 DEF Tick, TypeOK, devVars
  <2>6. \A j \in Joiner : Registered(j, sessions[j])'
    BY <1>8, <2>2 DEF Tick, TableInv, Registered
  <2> QED
    BY <1>8, <2>2, <2>5, <2>6 DEF Tick, TableInv, Idle, SessionOK
<1>9. CASE PlaintextHandshake \/ ChangeCipherSpec \/ EncryptedHandshake
             \/ ApplicationData \/ AlertOrMalformed
  BY <1>9, RecordOutcome, OutcomeKeepsTable
<1>10. CASE RelayTxAll
  <2> DEFINE key == sessions[cur].key
  <2>1. cur \in Joiner /\ cur' = NoJoiner /\ Idle'
    BY <1>10, <1>t DEF RelayTxAll, TypeOK, Idle
  <2>2. sessions' \in [Joiner -> Session]
        /\ \A j \in Joiner : sessions'[j] = sessions[j] \/ sessions'[j] = NoSession
    BY <1>10, <1>t, <1>n, <2>1 DEF RelayTxAll, Remove, TypeOK
  <2>3. key \in Key /\ NoKey \in Key
    BY <1>t, <2>1 DEF TypeOK, Session, NoKey, Key
  <2>4. \A t \in pendTx :
          [kek |-> IF t.kek THEN key ELSE NoKey, datagram |-> t.datagram] \in RelayTx
    BY <1>t, <2>3 DEF TypeOK, Transmission, RelayTx
  <2>5. tx' \in [Joiner -> SUBSET RelayTx]
    BY <1>10, <1>t, <2>1, <2>4 DEF RelayTxAll, TypeOK
  <2>6. events' \in Seq(Event)
    BY <1>10, <1>t DEF RelayTxAll, TypeOK
  <2>7. TypeOK'
    BY <1>10, <1>t, <2>1, <2>2, <2>5, <2>6 DEF RelayTxAll, TypeOK, devVars
  <2>8. \A j \in Joiner : SessionOK(sessions'[j]) /\ Registered(j, sessions[j])'
    BY <1>10, <2>2, NoSessionOK DEF RelayTxAll, TableInv, Registered
  <2> QED
    BY <1>10, <2>1, <2>7, <2>8 DEF RelayTxAll, TableInv, SessionOK
<1>11. CASE UNCHANGED vars
  <2>1. TypeOK'
    BY <1>11, <1>t DEF vars, TypeOK
  <2>2. /\ born' = born /\ sessions' = sessions /\ cur' = cur /\ rest' = rest
        /\ pendTx' = pendTx /\ pendEv' = pendEv
    BY <1>11 DEF vars
  <2> QED
    BY <2>1, <2>2 DEF TableInv, Registered, Idle, Expired
<1> QED
  BY <1>1, <1>2, <1>3, <1>4, <1>5, <1>6, <1>7, <1>8, <1>9, <1>10, <1>11
     DEF Next, DeviceStep

(* Every reachable state is well typed: in particular a deadline never       *)
(* exceeds JOINER_SESSION_TIMEOUT and every counter stays a number.          *)
THEOREM TypeCorrect == Spec => []TypeOK
<1>1. TableInv => TypeOK
  BY DEF TableInv
<1> QED
  BY <1>1, TableInit, TableStep, PTL DEF Spec

(* handle_relay_rx never feeds a datagram to a session past expires_at.      *)
THEOREM Freshness == Spec => []ServedSessionIsFresh
<1>1. TableInv => ServedSessionIsFresh
  BY DEF TableInv, ServedSessionIsFresh
<1> QED
  BY <1>1, TableInit, TableStep, PTL DEF Spec

(* While a RLY_RX is handled only the session and the transmissions of its   *)
(* joiner change, also when a record fails the session.                      *)
LEMMA LocalStep ==
    ASSUME TypeOK, [Next]_vars, ~Idle, NEW j \in Joiner \ {cur}
    PROVE  sessions'[j] = sessions[j] /\ tx'[j] = tx[j]
<1>1. DOMAIN sessions = Joiner /\ DOMAIN tx = Joiner
  BY DEF TypeOK
<1>2. ASSUME NEW out, Outcome(out)
      PROVE  sessions'[j] = sessions[j] /\ tx' = tx
  BY <1>1, <1>2 DEF Outcome, Remove
<1>3. CASE PlaintextHandshake \/ ChangeCipherSpec \/ EncryptedHandshake
  BY <1>2, <1>3 DEF PlaintextHandshake, ChangeCipherSpec, EncryptedHandshake
<1>4. CASE ApplicationData
  BY <1>2, <1>4 DEF ApplicationData
<1>5. CASE AlertOrMalformed
  BY <1>2, <1>5 DEF AlertOrMalformed
<1>6. CASE RelayTxAll
  BY <1>1, <1>6 DEF RelayTxAll, Remove
<1>7. CASE UNCHANGED vars
  BY <1>7 DEF vars
<1> QED
  BY <1>3, <1>4, <1>5, <1>6, <1>7
     DEF Next, DeviceStart, DeviceCookie, DeviceFlight, DeviceConnected, DeviceRequest,
         DeviceFinalized, DeviceFails, RelayRxIgnored, RelayRxNewSession, RelayRx,
         SetJoinerHandler, ClearJoinerHandler, Disconnect, Tick

(* handle_relay_rx drops at most the session it serves, for any number of    *)
(* joiners.                                                                  *)
THEOREM FailureStaysLocal == Spec => FailureIsJoinerLocal
<1>1. TableInv /\ [Next]_vars =>
        [~Idle => \A j \in Joiner \ {cur} :
            sessions'[j] = sessions[j] /\ tx'[j] = tx[j]]_vars
  BY LocalStep DEF TableInv
<1> QED
  BY <1>1, TableInit, TableStep, PTL DEF Spec, FailureIsJoinerLocal

-----------------------------------------------------------------------------
(* Layer 2: record numbers.                                                  *)

Below(r, s) == (r.epoch = 0 => r.seq < s.e0) /\ (r.epoch = 1 => r.seq < s.e1)

NumberInv ==
    /\ \A r \in sealed : r.sid \in 1 .. Len(born)
    /\ \A j \in Joiner : \A r \in sealed : r.sid = sessions[j].sid => Below(r, sessions[j])
    /\ \A j \in Joiner : sessions[j].flight \subseteq sealed
    /\ RecordNumbersUnique

(* A step that builds no record and keeps, drops or creates sessions.        *)
LEMMA NumberFrame ==
    ASSUME TableInv, NumberInv, sealed' = sealed, Len(born') \in Nat, Len(born) <= Len(born'),
           \A j \in Joiner :
              \/ /\ sessions'[j].sid = sessions[j].sid
                 /\ sessions'[j].e0 = sessions[j].e0 /\ sessions'[j].e1 = sessions[j].e1
                 /\ sessions'[j].flight = sessions[j].flight
              \/ sessions'[j].sid \notin 1 .. Len(born) /\ sessions'[j].flight = {}
    PROVE  NumberInv'
<1>1. Len(born) \in Nat
  BY BirthsCounted
<1>2. \A r \in sealed' : r.sid \in 1 .. Len(born')
  BY <1>1 DEF NumberInv
<1>3. ASSUME NEW j \in Joiner, NEW r \in sealed', r.sid = sessions'[j].sid
      PROVE  Below(r, sessions'[j])
  BY <1>3 DEF NumberInv, Below
<1>4. \A j \in Joiner : sessions'[j].flight \subseteq sealed'
  BY DEF NumberInv
<1> QED
  BY <1>2, <1>3, <1>4 DEF NumberInv, RecordNumbersUnique, Below

(* One record: whatever the outcome, the numbers it uses are fresh.          *)
LEMMA OutcomeKeepsNumbers ==
    ASSUME TableInv, TableInv', NumberInv, ~Idle, NEW out, OutOK(sessions[cur], out),
           Outcome(out)
    PROVE  NumberInv'
<1> DEFINE s == sessions[cur]
<1>1. cur \in Joiner /\ s \in Session /\ SessionOK(s) /\ s.phase # "Vacant"
      /\ s.sid \in 1 .. Len(born) /\ sessions \in [Joiner -> Session]
      /\ sealed \subseteq ServerRecord /\ born \in Seq(Birth)
  BY DEF TableInv, TypeOK, Idle, Registered
<1>2. Len(born') = Len(born)
  <2>1. \A x : Len([born EXCEPT ![s.sid] = x]) = Len(born)
    BY <1>1
  <2> QED
    BY <1>1, <2>1 DEF Outcome
<1>3. \A j \in Joiner : j # cur => sessions'[j] = sessions[j] /\ sessions[j].sid # s.sid
  <2>1. ASSUME NEW j \in Joiner, j # cur PROVE sessions[j].sid # s.sid
    <3>1. CASE sessions[j].phase = "Vacant"
      <4>1. sessions[j] = NoSession
        BY <3>1 DEF TableInv, SessionOK
      <4>2. NoSession.sid = 0
        BY VacantFields
      <4> QED BY <1>1, <4>1, <4>2
    <3>2. CASE sessions[j].phase # "Vacant"
      BY <1>1, <2>1, <3>2 DEF TableInv, Registered
    <3> QED BY <3>1, <3>2
  <2> QED
    BY <1>1, <2>1 DEF Outcome, Remove
<1>4. CASE ~out.ok
  <2>1. sessions'[cur] = NoSession /\ sealed' = sealed
    BY <1>1, <1>4 DEF Outcome, Remove, OutOK
  <2>2. NoSession.sid = 0 /\ NoSession.flight = {}
    BY VacantFields
  <2> QED
    BY <1>1, <1>2, <1>3, <2>1, <2>2, NumberFrame
<1>5. CASE out.ok
  <2>1. /\ sessions'[cur] = out.s /\ out.s.sid = s.sid /\ out.s \in Session
        /\ s.e0 <= out.s.e0 /\ s.e1 <= out.s.e1 /\ Numbered(s, out)
        /\ out.datagram \subseteq ServerRecord /\ sealed' = sealed \cup out.datagram
    BY <1>1, <1>5 DEF Outcome, OutOK, OutType, Continues, SessionOK
  <2>2. s.e0 \in Nat /\ s.e1 \in Nat /\ out.s.e0 \in Nat /\ out.s.e1 \in Nat
        /\ \A r \in sealed' : r.seq \in Nat /\ r.epoch \in {0, 1}
    BY <1>1, <2>1 DEF Session, ServerRecord
  <2>3. s.flight \subseteq sealed
    BY <1>1 DEF NumberInv
  <2>4. \A r \in out.datagram : r.sid = s.sid /\ (r \in sealed \/ Fresh(s, out.s, r))
    BY <2>1, <2>3 DEF Numbered
  <2>5. \A r \in sealed' : r.sid \in 1 .. Len(born')
    BY <1>1, <1>2, <2>1, <2>4 DEF NumberInv
  <2>6. ASSUME NEW j \in Joiner, NEW r \in sealed', r.sid = sessions'[j].sid
        PROVE  Below(r, sessions'[j])
    <3>1. CASE j = cur
      <4>1. CASE r \in sealed
        BY <1>1, <2>1, <2>2, <2>6, <3>1, <4>1 DEF NumberInv, Below
      <4>2. CASE r \notin sealed
        BY <2>1, <2>2, <2>4, <2>6, <3>1, <4>2 DEF Fresh, Below
      <4> QED BY <4>1, <4>2
    <3>2. CASE j # cur
      BY <1>3, <2>1, <2>4, <2>6, <3>2 DEF NumberInv
    <3> QED BY <3>1, <3>2
  <2>7. \A j \in Joiner : sessions'[j].flight \subseteq sealed'
    BY <1>3, <2>1, <2>3 DEF NumberInv, Numbered
  <2>8. ASSUME NEW a \in sealed', NEW b \in sealed',
               a.sid = b.sid, a.epoch = b.epoch, a.seq = b.seq
        PROVE  a = b
    <3>1. ASSUME NEW x \in sealed, NEW y \in sealed', y \notin sealed,
                 x.sid = y.sid, x.epoch = y.epoch, x.seq = y.seq
          PROVE  FALSE
      <4>1. y.sid = s.sid /\ Fresh(s, out.s, y)
        BY <2>1, <2>4, <3>1
      <4>2. Below(x, s)
        BY <1>1, <3>1, <4>1 DEF NumberInv
      <4> QED
        BY <2>2, <3>1, <4>1, <4>2 DEF Below, Fresh
    <3>2. CASE a \in sealed /\ b \in sealed
      BY <2>8, <3>2 DEF NumberInv, RecordNumbersUnique
    <3>3. CASE a \notin sealed /\ b \notin sealed
      BY <2>1, <2>3, <2>8, <3>3 DEF Numbered
    <3> QED
      BY <2>8, <3>1, <3>2, <3>3
  <2> QED
    BY <2>5, <2>6, <2>7, <2>8 DEF NumberInv, RecordNumbersUnique, Below
<1> QED
  BY <1>4, <1>5

(* Between records: what every other action does to the table.               *)
LEMMA OtherSteps ==
    ASSUME TableInv, [Next]_vars,
           ~(PlaintextHandshake \/ ChangeCipherSpec \/ EncryptedHandshake
              \/ ApplicationData \/ AlertOrMalformed)
    PROVE  /\ sealed' = sealed
           /\ born' = born \/ \E b \in Birth : born' = Append(born, b)
           /\ \A j \in Joiner :
                \/ sessions'[j] = sessions[j]
                \/ sessions'[j] = Countdown(sessions[j])
                \/ sessions'[j] = NoSession
                \/ \E p \in Pskd : sessions'[j] = NewSession(Len(born) + 1, p)
<1>t. TypeOK
  BY DEF TableInv
<1>1. CASE \E j \in Joiner : DeviceStep(j)
  BY <1>1, DeviceFrame
<1>2. ASSUME NEW j \in Joiner, RelayRxIgnored(j)
      PROVE  sealed' = sealed /\ born' = born /\ sessions' = Sweep(sessions)
  BY <1>2 DEF RelayRxIgnored
<1>3. ASSUME NEW j \in Joiner, RelayRx(j)
      PROVE  sealed' = sealed /\ born' = born /\ sessions' = Sweep(sessions)
  BY <1>3 DEF RelayRx
<1>4. ASSUME NEW j \in Joiner, RelayRxNewSession(j)
      PROVE  /\ sealed' = sealed /\ \E b \in Birth : born' = Append(born, b)
             /\ \A k \in Joiner :
                  \/ sessions'[k] = sessions[k] \/ sessions'[k] = NoSession
                  \/ \E p \in Pskd : sessions'[k] = NewSession(Len(born) + 1, p)
  <2>1. handler[j] \in Pskd
    BY <1>4, <1>t DEF RelayRxNewSession, TypeOK, Handlers
  <2>2. [joiner |-> j, pskd |-> handler[j], calls |-> 0] \in Birth
    BY <2>1 DEF Birth
  <2>3. sessions'[j] = NewSession(Len(born) + 1, handler[j])
        /\ \A k \in Joiner : k # j => sessions'[k] = Sweep(sessions)[k]
    BY <1>4, SweepShape DEF RelayRxNewSession
  <2>4. \A k \in Joiner :
           \/ sessions'[k] = sessions[k] \/ sessions'[k] = NoSession
           \/ \E p \in Pskd : sessions'[k] = NewSession(Len(born) + 1, p)
    BY <2>1, <2>3, SweepShape
  <2> QED
    BY <1>4, <2>2, <2>4 DEF RelayRxNewSession
<1>5. CASE SetJoinerHandler \/ ClearJoinerHandler \/ Disconnect
  BY <1>5 DEF SetJoinerHandler, ClearJoinerHandler, Disconnect
<1>6. CASE Tick
  BY <1>6 DEF Tick
<1>7. CASE RelayTxAll
  BY <1>7, <1>t DEF RelayTxAll, Remove, TypeOK, Idle
<1>8. CASE UNCHANGED vars
  BY <1>8 DEF vars
<1>9. CASE \E j \in Joiner : RelayRxIgnored(j) \/ RelayRx(j)
  BY <1>2, <1>3, <1>9, SweepShape
<1>10. CASE \E j \in Joiner : RelayRxNewSession(j)
  BY <1>4, <1>10
<1> QED
  BY <1>1, <1>5, <1>6, <1>7, <1>8, <1>9, <1>10 DEF Next, DeviceStep

(* Layer 2 is inductive: every action keeps the record numbers unique.       *)
LEMMA NumberStep == TableInv /\ TableInv' /\ NumberInv /\ [Next]_vars => NumberInv'
<1> SUFFICES ASSUME TableInv, TableInv', NumberInv, [Next]_vars PROVE NumberInv'
  OBVIOUS
<1>1. CASE PlaintextHandshake \/ ChangeCipherSpec \/ EncryptedHandshake
             \/ ApplicationData \/ AlertOrMalformed
  BY <1>1, RecordOutcome, OutcomeKeepsNumbers
<1>2. CASE ~(PlaintextHandshake \/ ChangeCipherSpec \/ EncryptedHandshake
              \/ ApplicationData \/ AlertOrMalformed)
  <2>1. born \in Seq(Birth) /\ Len(born) \in Nat
    BY DEF TableInv, TypeOK
  <2>2. Len(born') \in Nat /\ Len(born) <= Len(born')
    BY <1>2, <2>1, OtherSteps
  <2>3. ASSUME NEW j \in Joiner
        PROVE  \/ /\ sessions'[j].sid = sessions[j].sid
                  /\ sessions'[j].e0 = sessions[j].e0 /\ sessions'[j].e1 = sessions[j].e1
                  /\ sessions'[j].flight = sessions[j].flight
               \/ sessions'[j].sid \notin 1 .. Len(born) /\ sessions'[j].flight = {}
    <3>1. CASE sessions'[j] = Countdown(sessions[j])
      BY <3>1, CountdownOK DEF TableInv
    <3>2. CASE sessions'[j] = NoSession
      BY <3>2, VacantFields, BirthsCounted
    <3>3. CASE \E p \in Pskd : sessions'[j] = NewSession(Len(born) + 1, p)
      BY <3>3, NewFields, BirthsCounted
    <3> QED
      BY <1>2, <3>1, <3>2, <3>3, OtherSteps
  <2>4. sealed' = sealed
    BY <1>2, OtherSteps
  <2> QED
    BY <2>2, <2>3, <2>4, NumberFrame
<1> QED
  BY <1>1, <1>2

(* Record numbers of a joiner session are never reused for another record,   *)
(* in either epoch, for any interleaving of losses, retransmissions,         *)
(* restarts and expiries.                                                    *)
THEOREM NoncesUnique == Spec => []RecordNumbersUnique
<1>1. Init => NumberInv
  BY DEF Init, NumberInv, RecordNumbersUnique, NoSession
<1>2. NumberInv => RecordNumbersUnique
  BY DEF NumberInv
<1> QED
  BY <1>1, <1>2, TableInit, TableStep, NumberStep, PTL DEF Spec

-----------------------------------------------------------------------------
(* Layer 3: decisions.                                                       *)

IsResponse(r) == r.kind = "Response"

DecisionInv ==
    /\ \A r \in sealed : IsResponse(r) => r.state # "none"
    /\ \A r, q \in sealed : IsResponse(r) /\ IsResponse(q) /\ r.sid = q.sid => r.state = q.state
    /\ \A j \in Joiner : \A r \in sealed :
          IsResponse(r) /\ r.sid = sessions[j].sid => r.state = sessions[j].decision
    /\ \A t \in pendTx :
          /\ t.datagram \subseteq sealed
          /\ \A r \in t.datagram : IsResponse(r) => (t.kek <=> r.state = "accept")
          /\ t.kek => /\ sessions[cur].phase = "Finalized"
                      /\ \E r \in t.datagram : IsResponse(r) /\ r.state = "accept"
    /\ \A j \in Joiner : \A m \in tx[j] :
          /\ m.datagram \subseteq sealed
          /\ \A r \in m.datagram : IsResponse(r) => (m.kek # NoKey <=> r.state = "accept")

RecordStep ==
    \/ PlaintextHandshake \/ ChangeCipherSpec \/ EncryptedHandshake
    \/ ApplicationData \/ AlertOrMalformed

(* Apart from records and the sends at the end of a datagram, nothing is     *)
(* relayed and nothing happens during a datagram.                            *)
LEMMA CalmSteps ==
    ASSUME [Next]_vars, ~RecordStep, ~RelayTxAll
    PROVE  /\ pendTx' = pendTx /\ tx' = tx /\ devPskd' = devPskd
           /\ Idle \/ UNCHANGED vars
<1>1. CASE \E j \in Joiner : DeviceStep(j)
  <2>1. PICK j \in Joiner : DeviceStep(j)
    BY <1>1
  <2>2. Idle
    BY <2>1 DEF DeviceStep, DeviceStart, DeviceCookie, DeviceFlight, DeviceConnected,
                DeviceRequest, DeviceFinalized, DeviceFails
  <2> QED
    BY <2>1, <2>2, DeviceFrame
<1>2. CASE \E j \in Joiner : RelayRxIgnored(j) \/ RelayRx(j) \/ RelayRxNewSession(j)
  BY <1>2 DEF RelayRxIgnored, RelayRx, RelayRxNewSession, devVars
<1>3. CASE SetJoinerHandler \/ ClearJoinerHandler \/ Disconnect \/ Tick
  BY <1>3 DEF SetJoinerHandler, ClearJoinerHandler, Disconnect, Tick, devVars
<1>4. CASE UNCHANGED vars
  BY <1>4 DEF vars
<1> QED
  BY <1>1, <1>2, <1>3, <1>4 DEF Next, DeviceStep, RecordStep

(* The session that is being served.                                         *)
LEMMA CurrentSession ==
    ASSUME TableInv, ~Idle
    PROVE  /\ cur \in Joiner /\ sessions \in [Joiner -> Session]
           /\ SessionOK(sessions[cur]) /\ sessions[cur].phase # "Vacant"
           /\ sessions[cur].sid \in 1 .. Len(born) /\ Len(born) \in Nat
<1>1. TypeOK
  BY DEF TableInv
<1>2. sessions \in [Joiner -> Session] /\ born \in Seq(Birth) /\ cur \in Joiner \cup {NoJoiner}
  BY <1>1 DEF TypeOK
<1>3. cur \in Joiner
  BY <1>2 DEF Idle
<1>4. Len(born) \in Nat
  BY <1>2
<1>5. SessionOK(sessions[cur]) /\ Registered(cur, sessions[cur])
  BY <1>3 DEF TableInv
<1>6. sessions[cur].phase # "Vacant"
  BY DEF TableInv
<1>7. sessions[cur].sid \in 1 .. Len(born)
  BY <1>5, <1>6 DEF Registered
<1> QED
  BY <1>2, <1>3, <1>4, <1>5, <1>6, <1>7

(* One record: its response, if any, carries the session's decision.         *)
LEMMA OutcomeKeepsDecisions ==
    ASSUME TableInv, NumberInv, DecisionInv, ~Idle, NEW out, OutOK(sessions[cur], out),
           Outcome(out)
    PROVE  DecisionInv'
<1> DEFINE s == sessions[cur]
<1>1. cur \in Joiner /\ SessionOK(s) /\ s.phase # "Vacant" /\ sessions \in [Joiner -> Session]
      /\ s.sid \in 1 .. Len(born) /\ Len(born) \in Nat
  BY CurrentSession
<1>2. \A j \in Joiner : j # cur => sessions'[j] = sessions[j] /\ sessions[j].sid # s.sid
  <2>1. ASSUME NEW j \in Joiner, j # cur PROVE sessions[j].sid # s.sid
    <3>1. CASE sessions[j].phase = "Vacant"
      <4>1. sessions[j] = NoSession
        BY <3>1 DEF TableInv, SessionOK
      <4>2. NoSession.sid = 0
        BY VacantFields
      <4> QED BY <1>1, <4>1, <4>2
    <3>2. CASE sessions[j].phase # "Vacant"
      BY <1>1, <2>1, <3>2 DEF TableInv, Registered
    <3> QED BY <3>1, <3>2
  <2> QED
    BY <1>1, <2>1 DEF Outcome, Remove
<1>3. \A j \in Joiner : \A m \in tx'[j] :
          /\ m.datagram \subseteq sealed'
          /\ \A r \in m.datagram : IsResponse(r) => (m.kek # NoKey <=> r.state = "accept")
  BY DEF Outcome, DecisionInv
<1>4. CASE ~out.ok
  <2>1. sealed' = sealed /\ pendTx' = {} /\ sessions'[cur] = NoSession
    BY <1>1, <1>4 DEF Outcome, OutOK, Remove
  <2>2. \A r \in sealed : r.sid # NoSession.sid
    BY VacantFields, BirthsCounted DEF NumberInv
  <2>3. \A j \in Joiner : \A r \in sealed' :
          IsResponse(r) /\ r.sid = sessions'[j].sid => r.state = sessions'[j].decision
    BY <1>2, <2>1, <2>2 DEF DecisionInv
  <2> QED
    BY <1>3, <2>1, <2>3 DEF DecisionInv, IsResponse
<1>5. CASE out.ok
  <2>1. /\ sessions'[cur] = out.s /\ out.s.sid = s.sid
        /\ (s.decision # "none" => out.s.decision = s.decision)
        /\ Answers(s, out) /\ sealed' = sealed \cup out.datagram /\ cur' = cur
        /\ \A r \in out.datagram : r.sid = s.sid
    BY <1>1, <1>5 DEF Outcome, OutOK, Continues, Numbered
  <2>2. \A r \in out.datagram : IsResponse(r) => r.state = out.s.decision /\ r.state # "none"
    BY <2>1 DEF Answers, IsResponse
  <2>3. \A r \in sealed : IsResponse(r) /\ r.sid = s.sid => r.state = out.s.decision
    BY <1>1, <2>1 DEF DecisionInv
  <2>4. \A r \in sealed' : IsResponse(r) => r.state # "none"
    BY <2>1, <2>2 DEF DecisionInv
  <2>5. \A r \in sealed' : IsResponse(r) /\ r.sid = s.sid => r.state = out.s.decision
    BY <2>1, <2>2, <2>3
  <2>6. \A r \in sealed' : r.sid # s.sid => r \in sealed
    BY <2>1
  <2>7. \A r, q \in sealed' :
          IsResponse(r) /\ IsResponse(q) /\ r.sid = q.sid => r.state = q.state
    BY <2>5, <2>6 DEF DecisionInv
  <2>8. \A j \in Joiner : \A r \in sealed' :
          IsResponse(r) /\ r.sid = sessions'[j].sid => r.state = sessions'[j].decision
    BY <1>2, <2>1, <2>5, <2>6 DEF DecisionInv
  <2>9. out.kek => out.s.phase = "Finalized"
    <3>1. SessionOK(out.s)
      BY <1>5 DEF OutOK, Continues
    <3> QED
      BY <2>1, <3>1 DEF Answers, SessionOK
  <2>10. s.phase = "Finalized" => out.s.phase = "Finalized"
    BY <1>1, <1>5 DEF SessionOK, OutOK, Continues
  <2>11. ASSUME NEW t \in pendTx'
         PROVE  /\ t.datagram \subseteq sealed'
                /\ \A r \in t.datagram : IsResponse(r) => (t.kek <=> r.state = "accept")
                /\ t.kek => /\ sessions'[cur'].phase = "Finalized"
                            /\ \E r \in t.datagram : IsResponse(r) /\ r.state = "accept"
    <3>1. CASE t \in pendTx
      BY <2>1, <2>10, <3>1 DEF DecisionInv
    <3>2. CASE t \notin pendTx
      <4>1. t = [kek |-> out.kek, datagram |-> out.datagram]
        BY <1>5, <3>2 DEF Outcome
      <4> QED
        BY <2>1, <2>9, <4>1 DEF Answers, IsResponse
    <3> QED BY <3>1, <3>2
  <2> QED
    BY <1>3, <2>4, <2>7, <2>8, <2>11 DEF DecisionInv, IsResponse
<1> QED
  BY <1>4, <1>5

(* Layer 3 is inductive: every action keeps responses, decisions and KEKs in *)
(* step.                                                                     *)
LEMMA DecisionStep ==
    TableInv /\ NumberInv /\ DecisionInv /\ [Next]_vars => DecisionInv'
<1> SUFFICES ASSUME TableInv, NumberInv, DecisionInv, [Next]_vars PROVE DecisionInv'
  OBVIOUS
<1>1. CASE RecordStep
  BY <1>1, RecordOutcome, OutcomeKeepsDecisions DEF RecordStep
<1>2. CASE ~RecordStep
  <2>1. sealed' = sealed
    BY <1>2, OtherSteps DEF RecordStep
  <2>2. \A r \in sealed : r.sid # 0 /\ r.sid # Len(born) + 1
    BY BirthsCounted DEF NumberInv
  <2>3. ASSUME NEW j \in Joiner, NEW r \in sealed', IsResponse(r), r.sid = sessions'[j].sid
        PROVE  r.state = sessions'[j].decision
    <3>1. CASE sessions'[j] = Countdown(sessions[j])
      BY <2>1, <2>3, <3>1, CountdownOK DEF TableInv, DecisionInv
    <3>2. CASE sessions'[j] = NoSession
      BY <2>1, <2>2, <2>3, <3>2, VacantFields
    <3>3. CASE \E p \in Pskd : sessions'[j] = NewSession(Len(born) + 1, p)
      BY <2>1, <2>2, <2>3, <3>3, NewFields
    <3>4. CASE sessions'[j] = sessions[j]
      BY <2>1, <2>3, <3>4 DEF DecisionInv
    <3> QED
      BY <1>2, <3>1, <3>2, <3>3, <3>4, OtherSteps DEF RecordStep
  <2>4. CASE RelayTxAll
    <3> DEFINE key == sessions[cur].key
    <3>1. cur \in Joiner /\ pendTx' = {} /\ tx \in [Joiner -> SUBSET RelayTx]
      BY <2>4 DEF RelayTxAll, TableInv, TypeOK, Idle
    <3>2. \A t \in pendTx : t.kek => key # NoKey
      BY <3>1 DEF DecisionInv, TableInv, SessionOK
    <3>3. \A t \in pendTx : t.kek \in BOOLEAN
      BY DEF TableInv, TypeOK, Transmission
    <3>4. ASSUME NEW j \in Joiner, NEW m \in tx'[j]
          PROVE  /\ m.datagram \subseteq sealed'
                 /\ \A r \in m.datagram : IsResponse(r) => (m.kek # NoKey <=> r.state = "accept")
      <4>1. CASE m \in tx[j]
        BY <2>1, <4>1 DEF DecisionInv
      <4>2. CASE m \notin tx[j]
        <5>1. PICK t \in pendTx :
                m = [kek |-> IF t.kek THEN key ELSE NoKey, datagram |-> t.datagram]
          BY <2>4, <3>1, <3>4, <4>2 DEF RelayTxAll
        <5>2. m.datagram = t.datagram /\ (m.kek # NoKey <=> t.kek)
          BY <3>2, <3>3, <5>1
        <5> QED
          BY <2>1, <5>2 DEF DecisionInv
      <4> QED BY <4>1, <4>2
    <3> QED
      BY <2>1, <2>3, <3>1, <3>4 DEF DecisionInv, IsResponse
  <2>5. CASE ~RelayTxAll
    <3>1. pendTx' = pendTx /\ tx' = tx /\ (Idle \/ UNCHANGED vars)
      BY <1>2, <2>5, CalmSteps
    <3>2. CASE Idle
      <4>1. pendTx = {}
        BY <3>2 DEF TableInv
      <4> QED
        BY <2>1, <2>3, <3>1, <4>1 DEF DecisionInv, IsResponse
    <3>3. CASE UNCHANGED vars
      BY <3>3 DEF vars, DecisionInv, IsResponse
    <3> QED BY <3>1, <3>2, <3>3
  <2> QED BY <2>4, <2>5
<1> QED
  BY <1>1, <1>2

(* Layers 2 and 3 hold when nothing has been sent.                           *)
LEMMA DecisionInit == Init => NumberInv /\ DecisionInv
<1> SUFFICES ASSUME Init PROVE NumberInv /\ DecisionInv
  OBVIOUS
<1>1. sealed = {} /\ pendTx = {} /\ \A j \in Joiner : tx[j] = {}
  BY DEF Init
<1>2. \A j \in Joiner : sessions[j].flight = {}
  BY DEF Init, NoSession
<1>3. RecordNumbersUnique
  BY <1>1 DEF RecordNumbersUnique
<1>4. NumberInv
  BY <1>1, <1>2, <1>3 DEF NumberInv
<1>5. DecisionInv
  BY <1>1 DEF DecisionInv
<1> QED
  BY <1>4, <1>5

(* A joiner session gives one decision, taken from one call of the handler,  *)
(* however often JOIN_FIN.req is repeated, and sends the KEK with it exactly *)
(* when it accepts.                                                          *)
THEOREM DecisionUnique == Spec => []OneDecisionPerSession
<1>1. TableInv /\ DecisionInv => OneDecisionPerSession
  <2> SUFFICES ASSUME TableInv, DecisionInv PROVE OneDecisionPerSession
    OBVIOUS
  <2>1. \A s \in DOMAIN born : born[s].calls <= 1
    BY DEF TableInv
  <2>2. ASSUME NEW j \in Joiner, NEW m \in tx[j], NEW n \in tx[j],
               NEW r \in m.datagram, NEW q \in n.datagram,
               r.kind = "Response", q.kind = "Response", r.sid = q.sid
        PROVE  r.state = q.state /\ (m.kek # NoKey <=> r.state = "accept")
    <3>1. r \in sealed /\ q \in sealed
      BY DEF DecisionInv
    <3> QED
      BY <2>2, <3>1 DEF DecisionInv, IsResponse
  <2> QED
    BY <2>1, <2>2 DEF OneDecisionPerSession
<1> QED
  BY <1>1, TableInit, TableStep, DecisionInit, NumberStep, DecisionStep, PTL DEF Spec

-----------------------------------------------------------------------------
(* What joiners send.                                                       *)

(* What joiners have sent stays sent; only a joiner's own action adds to it, *)
(* and the only Finished it adds is sealed with its own PSKd.                *)
LEMMA SendGrows ==
    ASSUME TypeOK, NEW j \in Joiner, NEW D, Send(j, D)
    PROVE  /\ \A k \in Joiner : rx[k] \subseteq rx'[k]
           /\ \A k \in Joiner : \A d \in rx'[k] : d \in rx[k] \/ (k = j /\ d \in D)
BY DEF Send, TypeOK

(* A joiner only adds to what it has sent, and seals a Finished only with    *)
(* its own PSKd.                                                             *)
LEMMA DeviceSends ==
    ASSUME TypeOK, NEW j \in Joiner, DeviceStep(j)
    PROVE  /\ \A k \in Joiner : rx[k] \subseteq rx'[k]
           /\ \A k \in Joiner : \A d \in rx'[k] : d \in rx[k] \/
                \A i \in DOMAIN d : d[i].kind = "Finished" =>
                   d[i] = Fin(d[i].key) /\ d[i].key.pskd = devPskd[k]
<1> DEFINE Own(d) == \A i \in DOMAIN d : d[i].kind = "Finished" =>
                        d[i] = Fin(d[i].key) /\ d[i].key.pskd = devPskd[j]
<1>1. ASSUME NEW D, Send(j, D), \A d \in D : Own(d)
      PROVE  /\ \A k \in Joiner : rx[k] \subseteq rx'[k]
             /\ \A k \in Joiner : \A d \in rx'[k] : d \in rx[k] \/ (k = j /\ Own(d))
  BY <1>1, SendGrows
<1>2. \A n, c, k : /\ Hello(n, c).kind # "Finished" /\ Kex(k).kind # "Finished"
                   /\ App(k, "JOIN_FIN", n).kind # "Finished"
                   /\ App(k, "other", n).kind # "Finished"
                   /\ Fin(k).key = k
  BY DEF Hello, Kex, App, Fin, ClientMsg
<1>3. Ccs.kind # "Finished" /\ Alert.kind # "Finished" /\ Garbage.kind # "Finished"
  BY DEF Ccs, Alert, Garbage, ClientMsg
<1>s. \A m : (m.kind = "Finished" => m = Fin(m.key) /\ m.key.pskd = devPskd[j])
              => Own(<<m>>)
  BY Single
<1>4. CASE DeviceStart(j)
  <2>1. Own(<<Hello(dev[j].aid + 1, 0)>>)
    BY <1>2, <1>s
  <2> QED
    BY <1>1, <1>4, <2>1 DEF DeviceStart
<1>5. CASE DeviceCookie(j)
  <2>1. PICK r \in Heard(j) : Send(j, {<<Hello(dev[j].aid, r.sid)>>})
    BY <1>5 DEF DeviceCookie
  <2>2. Own(<<Hello(dev[j].aid, r.sid)>>)
    BY <1>2, <1>s
  <2> QED
    BY <1>1, <2>1, <2>2
<1>6. CASE DeviceFlight(j)
  <2> DEFINE key(r) == [aid |-> dev[j].aid, sid |-> r.sid, pskd |-> devPskd[j]]
  <2>1. PICK r \in Heard(j) :
           \/ Send(j, {<<Kex(key(r)), Ccs, Fin(key(r))>>})
           \/ Send(j, {<<Kex(key(r))>>, <<Ccs>>, <<Fin(key(r))>>})
    BY <1>6 DEF DeviceFlight
  <2>2. key(r).pskd = devPskd[j]
    OBVIOUS
  <2> HIDE DEF key
  <2>3. Own(<<Kex(key(r)), Ccs, Fin(key(r))>>)
    <3> DEFINE a == Kex(key(r))
               c == Fin(key(r))
               d == <<a, Ccs, c>>
    <3>1. a.kind # "Finished" /\ c = Fin(c.key) /\ c.key.pskd = devPskd[j]
      BY <1>2, <2>2
    <3> HIDE DEF a, c
    <3>2. DOMAIN d = 1 .. 3 /\ d[1] = a /\ d[2] = Ccs /\ d[3] = c
      OBVIOUS
    <3> HIDE DEF d
    <3>3. Own(d)
      BY <1>3, <3>1, <3>2
    <3> QED
      BY <3>3 DEF a, c, d
  <2>4. Own(<<Kex(key(r))>>) /\ Own(<<Ccs>>) /\ Own(<<Fin(key(r))>>)
    BY <1>2, <1>3, <1>s, <2>2
  <2> HIDE DEF Own
  <2>5. \A d \in {<<Kex(key(r)), Ccs, Fin(key(r))>>} : Own(d)
    BY <2>3
  <2>6. \A d \in {<<Kex(key(r))>>, <<Ccs>>, <<Fin(key(r))>>} : Own(d)
    BY <2>4
  <2> QED
    BY <1>1, <2>1, <2>5, <2>6 DEF Own
<1>7. CASE DeviceRequest(j)
  <2> DEFINE D == {<<App(DevKey(j), "JOIN_FIN", 1)>>, <<App(DevKey(j), "JOIN_FIN", 2)>>,
                   <<App(DevKey(j), "other", 3)>>,
                   <<App(DevKey(j), "JOIN_FIN", 1), Alert>>}
  <2>1. PICK d \in D : Send(j, {d})
    BY <1>7 DEF DeviceRequest
  <2>2. Own(d)
    <3> DEFINE a == App(DevKey(j), "JOIN_FIN", 1)
               b == App(DevKey(j), "JOIN_FIN", 2)
               c == App(DevKey(j), "other", 3)
    <3>1. a.kind # "Finished" /\ b.kind # "Finished" /\ c.kind # "Finished"
      BY <1>2
    <3>2. d \in {<<a>>, <<b>>, <<c>>, <<a, Alert>>}
      BY <2>1
    <3> HIDE DEF a, b, c, D
    <3>3. Own(<<a>>) /\ Own(<<b>>) /\ Own(<<c>>)
      BY <1>s, <3>1
    <3>4. Own(<<a, Alert>>)
      BY <1>3, <3>1
    <3> HIDE DEF Own
    <3> QED
      BY <3>2, <3>3, <3>4
  <2> QED
    BY <1>1, <2>1, <2>2
<1>8. CASE DeviceConnected(j) \/ DeviceFinalized(j)
  BY <1>8 DEF DeviceConnected, DeviceFinalized
<1>9. CASE DeviceFails(j)
  <2>1. PICK r \in {Alert, Garbage} : Send(j, {<<r>>})
    BY <1>9 DEF DeviceFails
  <2>2. Own(<<r>>)
    BY <1>3, <1>s
  <2> QED
    BY <1>1, <2>1, <2>2
<1> QED
  BY <1>4, <1>5, <1>6, <1>7, <1>8, <1>9 DEF DeviceStep

(* No step takes back what a joiner has proved or what was decided.          *)
LEMMA ProofsLast ==
    ASSUME TableInv, [Next]_vars
    PROVE  /\ devPskd' = devPskd
           /\ \A j \in Joiner : rx[j] \subseteq rx'[j]
           /\ ~(\E j \in Joiner : DeviceStep(j)) => rx' = rx
           /\ \A b \in DOMAIN born : b \in DOMAIN born'
                   /\ (born[b].calls = 1 => born'[b] = born[b])
<1>t. TypeOK /\ born \in Seq(Birth)
  BY DEF TableInv, TypeOK
<1>1. CASE RecordStep
  <2>1. PICK out : OutOK(sessions[cur], out) /\ Outcome(out)
    BY <1>1, RecordOutcome DEF RecordStep
  <2>2. ~Idle
    BY <1>1, RecordOutcome DEF RecordStep
  <2> DEFINE s == sessions[cur]
  <2>3. Registered(cur, s) /\ s.phase # "Vacant"
    BY <2>2 DEF TableInv, TypeOK, Idle
  <2>4. Asks(s, out) => s.decision = "none"
    BY <2>1 DEF Asks, OutOK, Continues
  <2>5. \A b \in DOMAIN born : b \in DOMAIN born'
                   /\ (born[b].calls = 1 => born'[b] = born[b])
    <3>1. CASE Asks(s, out)
      <4>1. born' = [born EXCEPT ![s.sid] = [born[s.sid] EXCEPT !.calls = @ + 1]]
        BY <2>1, <3>1 DEF Outcome
      <4>2. born[s.sid].calls = 0
        BY <2>3, <2>4, <3>1 DEF Registered
      <4> QED
        BY <1>t, <4>1, <4>2
    <3>2. CASE ~Asks(s, out)
      BY <2>1, <3>2 DEF Outcome
    <3> QED BY <3>1, <3>2
  <2> QED
    BY <2>1, <2>5 DEF Outcome, devVars
<1>2. CASE ~RecordStep
  <2>1. \A b \in DOMAIN born : b \in DOMAIN born' /\ born'[b] = born[b]
    <3>1. CASE born' = born
      BY <3>1
    <3>2. CASE \E b \in Birth : born' = Append(born, b)
      BY <1>t, <3>2, BirthAdded
    <3> QED
      BY <1>2, <3>1, <3>2, OtherSteps DEF RecordStep
  <2>2. CASE \E j \in Joiner : DeviceStep(j)
    BY <1>t, <2>1, <2>2, DeviceSends, DeviceFrame
  <2>3. CASE ~\E j \in Joiner : DeviceStep(j)
    <3>1. rx' = rx /\ devPskd' = devPskd
      BY <1>2, <2>3
         DEF Next, DeviceStep, RecordStep, RelayRxIgnored, RelayRx, RelayRxNewSession,
             SetJoinerHandler, ClearJoinerHandler, Disconnect, Tick, RelayTxAll, vars, devVars
    <3> QED
      BY <2>1, <2>3, <3>1
  <2> QED BY <2>2, <2>3
<1> QED
  BY <1>1, <1>2

-----------------------------------------------------------------------------
(* Layer 4: who is entrusted.                                                *)

(* Joiner j has sent a Finished sealed under k, with the PSKd it holds.      *)
HasProved(j, k) ==
    /\ k.pskd = devPskd[j]
    /\ \E d \in rx[j] : \E i \in DOMAIN d : d[i] = Fin(k)

AuthInv ==
    /\ \A j \in Joiner : \A d \in rx[j] : \A i \in DOMAIN d :
          d[i].kind = "Finished" => d[i] = Fin(d[i].key) /\ d[i].key.pskd = devPskd[j]
    /\ ~Idle => \A i \in DOMAIN rest : \E d \in rx[cur] : \E k \in DOMAIN d : d[k] = rest[i]
    /\ \A j \in Joiner : sessions[j].phase \in {"Connected", "Finalized"} =>
          HasProved(j, sessions[j].key)
    /\ EntrustedJoinerIsAuthentic

(* The RLY_TX m, with the KEK aboard, goes to a joiner entitled to it.       *)
Entrusted(j, m) ==
    /\ m.kek.sid \in DOMAIN born
    /\ born[m.kek.sid] = [joiner |-> j, pskd |-> devPskd[j], calls |-> 1]
    /\ HasProved(j, m.kek)
    /\ \E r \in m.datagram : r.kind = "Response" /\ r.state = "accept"

(* EntrustedJoinerIsAuthentic, message by message.                           *)
LEMMA EntrustedAll ==
    EntrustedJoinerIsAuthentic <=>
        \A j \in Joiner : \A m \in tx[j] : m.kek # NoKey => Entrusted(j, m)
BY DEF EntrustedJoinerIsAuthentic, Entrusted, HasProved

(* Layer 4 is inductive: every action keeps entrustment tied to a proof of   *)
(* the PSKd.                                                                 *)
LEMMA AuthStep ==
    TableInv /\ TableInv' /\ DecisionInv /\ AuthInv /\ [Next]_vars => AuthInv'
<1> SUFFICES ASSUME TableInv, TableInv', DecisionInv, AuthInv, [Next]_vars PROVE AuthInv'
  OBVIOUS
<1> DEFINE Proved(j, k) == /\ k.pskd = devPskd'[j]
                           /\ \E d \in rx'[j] : \E i \in DOMAIN d : d[i] = Fin(k)
<1>t. TypeOK /\ born \in Seq(Birth)
  BY DEF TableInv, TypeOK
<1>1. /\ devPskd' = devPskd
      /\ \A j \in Joiner : rx[j] \subseteq rx'[j]
      /\ ~(\E j \in Joiner : DeviceStep(j)) => rx' = rx
      /\ \A b \in DOMAIN born : b \in DOMAIN born'
              /\ (born[b].calls = 1 => born'[b] = born[b])
  BY ProofsLast
<1>2. \A j \in Joiner : \A d \in rx'[j] : \A i \in DOMAIN d :
          d[i].kind = "Finished" => d[i] = Fin(d[i].key) /\ d[i].key.pskd = devPskd'[j]
  <2>1. CASE \E j \in Joiner : DeviceStep(j)
    BY <1>t, <1>1, <2>1, DeviceSends DEF AuthInv
  <2>2. CASE ~\E j \in Joiner : DeviceStep(j)
    BY <1>1, <2>2 DEF AuthInv
  <2> QED BY <2>1, <2>2
<1>3. \A j \in Joiner : \A k : HasProved(j, k) => Proved(j, k)
  BY <1>1 DEF HasProved
<1>4. \A j \in Joiner : \A m : Entrusted(j, m) => Entrusted(j, m)'
  <2> SUFFICES ASSUME NEW j \in Joiner, NEW m, Entrusted(j, m) PROVE Entrusted(j, m)'
    OBVIOUS
  <2>1. born[m.kek.sid].calls = 1 /\ m.kek.sid \in DOMAIN born
    BY DEF Entrusted
  <2> QED
    BY <1>1, <1>3, <2>1 DEF Entrusted, HasProved
<1>5. (~Idle => \A i \in DOMAIN rest : \E d \in rx[cur] : \E k \in DOMAIN d : d[k] = rest[i])'
  <2>1. CASE RecordStep
    <3>1. PICK out : Outcome(out)
      BY <2>1, RecordOutcome DEF RecordStep
    <3>2. ~Idle /\ rest # << >> /\ rest \in Seq(ClientRecord) /\ rx' = rx
      BY <1>t, <2>1, <3>1, RecordOutcome DEF RecordStep, Outcome, TypeOK
    <3>3. CASE out.ok
      <4>1. rest' = Tail(rest) /\ cur' = cur
        BY <3>1, <3>3 DEF Outcome
      <4>2. \A i \in DOMAIN Tail(rest) : i + 1 \in DOMAIN rest /\ Tail(rest)[i] = rest[i + 1]
        BY <3>2
      <4> QED
        BY <3>2, <4>1, <4>2 DEF AuthInv
    <3>4. CASE ~out.ok
      BY <3>1, <3>4 DEF Outcome, Idle
    <3> QED BY <3>3, <3>4
  <2>2. CASE \E j \in Joiner : RelayRx(j) \/ RelayRxNewSession(j)
    BY <1>1, <2>2 DEF RelayRx, RelayRxNewSession
  <2>3. CASE \E j \in Joiner : DeviceStep(j)
    <3>1. cur' = cur /\ rest' = rest
      BY <2>3, DeviceFrame
    <3>2. Idle
      BY <2>3 DEF DeviceStep, DeviceStart, DeviceCookie, DeviceFlight, DeviceConnected,
                  DeviceRequest, DeviceFinalized, DeviceFails
    <3> QED BY <3>1, <3>2 DEF Idle
  <2>4. CASE (\E j \in Joiner : RelayRxIgnored(j)) \/ SetJoinerHandler \/ ClearJoinerHandler
               \/ Disconnect \/ Tick
    BY <2>4 DEF RelayRxIgnored, SetJoinerHandler, ClearJoinerHandler, Disconnect, Tick, Idle
  <2>5. CASE RelayTxAll
    BY <2>5 DEF RelayTxAll, Idle
  <2>6. CASE UNCHANGED vars
    BY <2>6 DEF vars, AuthInv, Idle
  <2> QED
    BY <2>1, <2>2, <2>3, <2>4, <2>5, <2>6 DEF Next, DeviceStep, RecordStep
<1>6. \A j \in Joiner : sessions'[j].phase \in {"Connected", "Finalized"} =>
          Proved(j, sessions'[j].key)
  <2> HIDE DEF Proved
  <2> SUFFICES ASSUME NEW j \in Joiner, sessions'[j].phase \in {"Connected", "Finalized"}
               PROVE  Proved(j, sessions'[j].key)
    OBVIOUS
  <2>1. CASE RecordStep
    <3> DEFINE s == sessions[cur]
    <3>1. PICK out : OutOK(s, out) /\ Outcome(out) /\ ConnectsBy(s, Head(rest), out)
      BY <2>1, RecordOutcome DEF RecordStep, Tells
    <3>2. ~Idle /\ rest # << >> /\ cur \in Joiner /\ sessions \in [Joiner -> Session]
          /\ rest \in Seq(ClientRecord)
      BY <1>t, <2>1, RecordOutcome DEF RecordStep, TypeOK, Idle
    <3>3. CASE j # cur
      <4>1. sessions'[j] = sessions[j]
        BY <3>1, <3>2, <3>3 DEF Outcome, Remove
      <4> QED
        BY <1>3, <4>1 DEF AuthInv
    <3>4. CASE j = cur
      <4>1. out.ok /\ sessions'[cur] = out.s
        BY <3>1, <3>2, <3>4 DEF Outcome, Remove, NoSession
      <4>2. out.s.key = s.key
        BY <3>1, <3>4, <4>1 DEF ConnectsBy
      <4>3. CASE s.phase \in {"Connected", "Finalized"}
        BY <1>3, <3>2, <3>4, <4>1, <4>2, <4>3 DEF AuthInv
      <4>4. CASE Head(rest).kind = "Finished" /\ Head(rest).key = s.key
        <5>1. PICK d \in rx[cur] : \E i \in DOMAIN d : d[i] = Head(rest)
          <6>1. 1 \in DOMAIN rest /\ Head(rest) = rest[1]
            BY <3>2
          <6> QED BY <3>2, <6>1 DEF AuthInv
        <5>2. PICK i \in DOMAIN d : d[i] = Head(rest)
          BY <5>1
        <5>3. d[i] = Fin(s.key) /\ s.key.pskd = devPskd[cur]
          <6>1. d[i].kind = "Finished" /\ d[i].key = s.key
            BY <4>4, <5>2
          <6>2. d[i] = Fin(d[i].key) /\ d[i].key.pskd = devPskd[cur]
            BY <3>2, <6>1 DEF AuthInv
          <6> QED BY <6>1, <6>2
        <5>4. HasProved(cur, s.key)
          BY <5>2, <5>3 DEF HasProved
        <5> QED
          BY <1>3, <3>2, <3>4, <4>1, <4>2, <5>4
      <4> QED
        BY <3>1, <3>4, <4>1, <4>3, <4>4 DEF ConnectsBy
    <3> QED BY <3>3, <3>4
  <2>2. CASE ~RecordStep
    <3>1. CASE sessions'[j] = sessions[j]
      BY <1>3, <3>1 DEF AuthInv
    <3>2. CASE sessions'[j] = Countdown(sessions[j])
      <4>1. sessions'[j].phase = sessions[j].phase /\ sessions'[j].key = sessions[j].key
        BY <3>2, CountdownOK DEF TableInv
      <4> QED
        BY <1>3, <4>1 DEF AuthInv
    <3>3. CASE sessions'[j] = NoSession
      BY <3>3, VacantFields
    <3>4. CASE \E p \in Pskd : sessions'[j] = NewSession(Len(born) + 1, p)
      <4>1. sessions'[j].phase = "AwaitingClientHello"
        BY <3>4, NewFields
      <4> QED BY <4>1
    <3> QED
      BY <2>2, <3>1, <3>2, <3>3, <3>4, OtherSteps DEF RecordStep
  <2> QED BY <2>1, <2>2
<1>7. \A j \in Joiner : \A m \in tx'[j] : m.kek # NoKey => Entrusted(j, m)'
  <2> SUFFICES ASSUME NEW j \in Joiner, NEW m \in tx'[j], m.kek # NoKey
               PROVE  Entrusted(j, m)'
    OBVIOUS
  <2>1. CASE m \in tx[j]
    BY <1>4, <2>1, EntrustedAll DEF AuthInv
  <2>2. CASE m \notin tx[j]
    <3>1. RelayTxAll
      <4>1. CASE RecordStep
        <5>1. PICK out : Outcome(out)
          BY <4>1, RecordOutcome DEF RecordStep
        <5> QED BY <2>2, <5>1 DEF Outcome
      <4> QED BY <2>2, <4>1, CalmSteps
    <3> DEFINE s == sessions[cur]
    <3>2. cur \in Joiner /\ tx \in [Joiner -> SUBSET RelayTx]
      BY <1>t, <3>1 DEF RelayTxAll, TypeOK, Idle
    <3>3. j = cur /\ \E t \in pendTx :
                m = [kek |-> IF t.kek THEN s.key ELSE NoKey, datagram |-> t.datagram]
      BY <2>2, <3>1, <3>2 DEF RelayTxAll
    <3>4. PICK t \in pendTx :
                m = [kek |-> IF t.kek THEN s.key ELSE NoKey, datagram |-> t.datagram]
      BY <3>3
    <3>5. t.kek /\ m.kek = s.key /\ m.datagram = t.datagram
      BY <3>4
    <3>6. s.phase = "Finalized" /\ \E r \in m.datagram : r.kind = "Response" /\ r.state = "accept"
      BY <3>5 DEF DecisionInv, IsResponse
    <3>7. HasProved(cur, s.key)
      BY <3>2, <3>6 DEF AuthInv
    <3>8. SessionOK(s) /\ Registered(cur, s)
      BY <3>2 DEF TableInv
    <3>9. s.key = [aid |-> s.hello, sid |-> s.sid, pskd |-> s.pskd] /\ s.decision # "none"
      BY <3>6, <3>8 DEF SessionOK
    <3>10. s.key.sid \in DOMAIN born /\ born[s.key.sid].joiner = cur
           /\ born[s.key.sid].pskd = devPskd[cur] /\ born[s.key.sid].calls = 1
      <4>1. s.key.sid = s.sid /\ s.key.pskd = s.pskd
        BY <3>9
      <4>2. s.pskd = devPskd[cur]
        BY <3>7, <4>1 DEF HasProved
      <4>3. s.sid \in 1 .. Len(born) /\ born[s.sid].joiner = cur
            /\ born[s.sid].pskd = s.pskd /\ born[s.sid].calls = 1
        BY <3>6, <3>8, <3>9 DEF Registered
      <4>4. DOMAIN born = 1 .. Len(born)
        BY <1>t
      <4> QED
        BY <4>1, <4>2, <4>3, <4>4
    <3>11. born[s.key.sid] \in Birth
      BY <1>t, <3>10
    <3>12. born[s.key.sid] = [joiner |-> cur, pskd |-> devPskd[cur], calls |-> 1]
      BY <3>10, <3>11 DEF Birth
    <3>13. Entrusted(j, m)
      BY <3>3, <3>5, <3>6, <3>7, <3>10, <3>12 DEF Entrusted
    <3> QED BY <1>4, <3>13
  <2> QED BY <2>1, <2>2
<1>8. EntrustedJoinerIsAuthentic'
  BY <1>7 DEF EntrustedJoinerIsAuthentic, Entrusted, HasProved
<1> QED
  BY <1>2, <1>5, <1>6, <1>8 DEF AuthInv, HasProved

(* The KEK of joiner-router entrustment only ever goes to a joiner that      *)
(* proved the PSKd the handler had given for it, after one accepting call.   *)
THEOREM EntrustmentAuthentic == Spec => []EntrustedJoinerIsAuthentic
<1>1. ASSUME Init PROVE AuthInv
  <2>1. Idle /\ \A j \in Joiner : rx[j] = {} /\ tx[j] = {} /\ sessions[j] = NoSession
    BY <1>1 DEF Init, Idle
  <2>2. NoSession.phase \notin {"Connected", "Finalized"}
    BY VacantFields
  <2>3. EntrustedJoinerIsAuthentic
    BY <2>1 DEF EntrustedJoinerIsAuthentic
  <2> QED
    BY <2>1, <2>2, <2>3 DEF AuthInv
<1>2. AuthInv => EntrustedJoinerIsAuthentic
  BY DEF AuthInv
<1> QED
  BY <1>1, <1>2, TableInit, TableStep, DecisionInit, NumberStep, DecisionStep, AuthStep, PTL
     DEF Spec

-----------------------------------------------------------------------------
(* Layer 5: reports.                                                         *)

(* The events queued so far and those of the datagram being handled.         *)
Log == events \o pendEv

ReportInv ==
    /\ Orderly(Log)
    /\ \A i \in DOMAIN Log : Log[i].sid \in 1 .. Len(born)
    /\ \A i \in DOMAIN pendEv : pendEv[i].sid = sessions[cur].sid
    /\ \A j \in Joiner : sessions[j].phase # "Vacant" => Reported(Log, sessions[j])
    /\ \A j \in Joiner : \A r \in sessions[j].flight : r.kind # "Finished"
    /\ \A t \in pendTx : \A r \in t.datagram : Backed(Log, r)

HeardInv ==
    /\ \A j \in Joiner : \A m \in tx[j] : \A r \in m.datagram : Backed(events, r)
    /\ \A j \in Joiner :
          /\ dev[j].st \in {"connected", "done"} => TellsConnected(events, dev[j].sid)
          /\ dev[j].st = "done" =>
                TellsFinalized(events, dev[j].sid, dev[j].result = "accept")

(* Two joiners never share a session number.                                 *)
LEMMA SidsApart ==
    ASSUME TableInv, NEW j \in Joiner, NEW k \in Joiner, j # k,
           sessions[j].phase # "Vacant", sessions[k].phase # "Vacant"
    PROVE  sessions[j].sid # sessions[k].sid
BY DEF TableInv, Registered

(* One record: whatever the outcome, every session stays reported.           *)
LEMMA OutcomeKeepsReports ==
    ASSUME TableInv, TableInv', ReportInv, ~Idle, NEW out, OutOK(sessions[cur], out),
           Reports(sessions[cur], out), Outcome(out)
    PROVE  ReportInv'
<1> DEFINE s == sessions[cur]
<1>1. /\ cur \in Joiner /\ sessions \in [Joiner -> Session] /\ SessionOK(s)
      /\ s.phase # "Vacant" /\ s.sid \in 1 .. Len(born)
      /\ events \in Seq(Event) /\ pendEv \in Seq(Event) /\ pendEv' \in Seq(Event)
      /\ Len(born) \in Nat
  <2>1. TypeOK /\ TypeOK'
    BY DEF TableInv
  <2>2. events \in Seq(Event) /\ pendEv \in Seq(Event)
    BY <2>1 DEF TypeOK
  <2>3. pendEv' \in Seq(Event)
    BY <2>1 DEF TypeOK
  <2> QED
    BY <2>2, <2>3, CurrentSession
<1>2. events' = events
  BY DEF Outcome
<1>3. Len(born') = Len(born)
  BY <1>1 DEF Outcome, TableInv, TypeOK
<1>4. ASSUME NEW j \in Joiner, j # cur
      PROVE  sessions'[j] = sessions[j]
  BY <1>1, <1>4 DEF Outcome, Remove
<1>5. ASSUME NEW j \in Joiner, j # cur, sessions[j].phase # "Vacant"
      PROVE  sessions[j].sid # s.sid
  BY <1>1, <1>5, SidsApart
<1>6. /\ Log \in Seq(Event) /\ DOMAIN events \subseteq DOMAIN Log
      /\ \A i \in DOMAIN events : Log[i] = events[i]
      /\ \A i \in DOMAIN Log : i \in DOMAIN events \/ \E k \in DOMAIN pendEv : Log[i] = pendEv[k]
  BY <1>1, LogPrefix DEF Log
<1>7. CASE ~out.ok
  <2>1. pendEv' = << >> /\ pendTx' = {} /\ sessions'[cur] = NoSession
    BY <1>1, <1>7 DEF Outcome, Remove
  <2>2. Log' = events
    BY <1>1, <1>2, <2>1, LogPrefix DEF Log
  <2>3. Orderly(events)
    BY <1>1, PrefixOrderly DEF ReportInv, Log
  <2>4. \A i \in DOMAIN events : events[i].sid \in 1 .. Len(born')
    BY <1>3, <1>6 DEF ReportInv
  <2>5. ASSUME NEW j \in Joiner, sessions'[j].phase # "Vacant"
        PROVE  Reported(events, sessions'[j])
    <3>1. j # cur /\ sessions'[j] = sessions[j]
      BY <1>4, <2>1, <2>5, NoSessionOK
    <3>2. Reported(Log, sessions[j]) /\ sessions[j].sid # s.sid
      BY <1>5, <2>5, <3>1 DEF ReportInv
    <3>3. \A i \in DOMAIN pendEv : pendEv[i].sid = s.sid
      BY DEF ReportInv
    <3>4. \A i \in DOMAIN Log : Log[i].sid = sessions[j].sid =>
             \E k \in DOMAIN events : events[k] = Log[i]
      BY <1>6, <3>2, <3>3
    <3>5. \A i \in DOMAIN events : \E k \in DOMAIN Log : Log[k] = events[i]
      BY <1>6
    <3> QED
      BY <3>1, <3>2, <3>4, <3>5, ReportedFrame
  <2>6. ASSUME NEW j \in Joiner
        PROVE  \A r \in sessions'[j].flight : r.kind # "Finished"
    <3>1. CASE j = cur
      <4>1. NoSession.flight = {}
        BY VacantFields
      <4> QED
        BY <2>1, <3>1, <4>1
    <3>2. CASE j # cur
      BY <1>4, <3>2 DEF ReportInv
    <3> QED
      BY <3>1, <3>2
  <2>7. \A i \in DOMAIN pendEv' : FALSE
    BY <2>1
  <2> QED
    BY <2>1, <2>2, <2>3, <2>4, <2>5, <2>6, <2>7 DEF ReportInv
<1>8. CASE out.ok
  <2> DEFINE t == out.s
  <2>1. /\ Continues(s, t) /\ SessionOK(t) /\ t.sid = s.sid /\ t.phase # "Vacant"
        /\ (s.decision # "none" => t.decision = s.decision) /\ Answers(s, out)
    BY <1>8 DEF OutOK, Continues
  <2>2. sessions'[cur] = t /\ cur' = cur
    BY <1>1, <1>8 DEF Outcome
  <2>r. Reported(Log, s) /\ Orderly(Log)
    BY <1>1 DEF ReportInv
  <2>l. /\ \A i \in DOMAIN Log : Log[i].sid \in 1 .. Len(born)
        /\ \A i \in DOMAIN pendEv : pendEv[i].sid = s.sid
    BY DEF ReportInv
  <2> DEFINE e == [kind |-> out.event, sid |-> t.sid, accepted |-> t.decision = "accept"]
  <2>3. /\ Orderly(Log') /\ Reported(Log', t)
        /\ \A i \in DOMAIN Log : \E k \in DOMAIN Log' : Log'[k] = Log[i]
        /\ \A k \in DOMAIN Log' : Log'[k].sid = s.sid \/ \E i \in DOMAIN Log : Log'[k] = Log[i]
        /\ \A i \in DOMAIN pendEv' : pendEv'[i].sid = s.sid
    <3>1. CASE out.event = "none"
      <4>1. pendEv' = pendEv /\ Log' = Log
        BY <1>2, <1>8, <3>1 DEF Outcome, Log
      <4>2. /\ t.phase = "Connected" <=> s.phase = "Connected"
            /\ t.phase = "Finalized" <=> s.phase = "Finalized"
        BY <1>8, <3>1 DEF Reports
      <4>3. t.phase = "Finalized" => t.decision = s.decision
        BY <1>1, <2>1, <4>2 DEF SessionOK
      <4>4. Reported(Log, t)
        BY <2>1, <2>r, <4>2, <4>3 DEF Reported
      <4> QED
        BY <2>r, <2>l, <4>1, <4>4
    <3>2. CASE out.event # "none"
      <4>1. out.event \in {"Connected", "Finalized"}
        BY <3>2 DEF OutOK, OutType
      <4>2. pendEv' = Append(pendEv, e)
        BY <1>8, <3>2 DEF Outcome
      <4>3. s.sid \in Nat /\ e \in Event
        <5>1. s.sid \in Nat
          BY <1>1
        <5>2. t.sid \in Nat /\ (t.decision = "accept") \in BOOLEAN
          BY <2>1, <5>1
        <5> HIDE DEF t
        <5> QED
          BY <4>1, <5>1, <5>2 DEF Event
      <4>4. e.kind = out.event /\ e.sid = s.sid
            /\ e = [kind |-> e.kind, sid |-> t.sid, accepted |-> t.decision = "accept"]
        BY <2>1
      <4> HIDE DEF e
      <4>5. Grows(Log, Log', e)
        BY <1>1, <1>2, <4>2, <4>3, LogAppend DEF Log
      <4>6. \/ e.kind = "Connected" /\ s.phase = "AwaitingClientFlight" /\ t.phase = "Connected"
            \/ e.kind = "Finalized" /\ s.phase = "Connected" /\ t.phase = "Finalized"
        BY <1>8, <4>1, <4>4 DEF Reports
      <4> HIDE DEF t, s
      <4>7. Orderly(Log') /\ Reported(Log', t)
        BY <2>1, <2>r, <4>4, <4>5, <4>6, EventKeepsOrder
      <4>8. /\ \A i \in DOMAIN Log : \E k \in DOMAIN Log' : Log'[k] = Log[i]
            /\ \A k \in DOMAIN Log' : Log'[k] = e \/ \E i \in DOMAIN Log : Log'[k] = Log[i]
        BY <4>5 DEF Grows
      <4>9. \A i \in DOMAIN pendEv' : pendEv'[i] = e \/ \E k \in DOMAIN pendEv : pendEv'[i] = pendEv[k]
        <5>1. Len(pendEv) \in Nat /\ DOMAIN pendEv = 1 .. Len(pendEv)
              /\ DOMAIN Append(pendEv, e) = 1 .. Len(pendEv) + 1
              /\ Append(pendEv, e)[Len(pendEv) + 1] = e
              /\ \A i \in 1 .. Len(pendEv) : Append(pendEv, e)[i] = pendEv[i]
          BY <1>1, <4>3, BirthAdded
        <5> QED
          BY <4>2, <5>1
      <4> QED
        BY <2>l, <4>4, <4>7, <4>8, <4>9
    <3> QED
      BY <3>1, <3>2
  <2>4. \A i \in DOMAIN Log' : Log'[i].sid \in 1 .. Len(born')
    BY <1>1, <1>3, <2>3, <2>l
  <2>5. ASSUME NEW j \in Joiner, sessions'[j].phase # "Vacant"
        PROVE  Reported(Log', sessions'[j])
    <3>1. CASE j = cur
      BY <2>2, <2>3, <3>1
    <3>2. CASE j # cur
      <4>1. sessions'[j] = sessions[j] /\ sessions[j].sid # s.sid /\ Reported(Log, sessions[j])
        BY <1>4, <1>5, <2>5, <3>2 DEF ReportInv
      <4>2. \A i \in DOMAIN Log' : Log'[i].sid = sessions[j].sid =>
               \E k \in DOMAIN Log : Log[k] = Log'[i]
        BY <2>3, <4>1
      <4>3. \A i \in DOMAIN Log : \E k \in DOMAIN Log' : Log'[k] = Log[i]
        BY <2>3
      <4>4. Reported(Log', sessions[j])
        <5> HIDE DEF s
        <5> QED
          BY <4>1, <4>2, <4>3, ReportedFrame
      <4> QED
        BY <4>1, <4>4
    <3> QED
      BY <3>1, <3>2
  <2>6. \A j \in Joiner : \A r \in sessions'[j].flight : r.kind # "Finished"
    BY <1>4, <1>8, <2>2 DEF ReportInv, Reports
  <2>7. ASSUME NEW r \in out.datagram PROVE Backed(Log', r)
    <3>1. CASE r.kind = "Finished"
      BY <1>8, <2>1, <2>3, <3>1 DEF Reports, Reported, Backed
    <3>2. CASE r.kind = "Response"
      <4>1. t.phase = "Finalized" /\ r.key.sid = t.sid /\ r.state = t.decision
        BY <1>8, <2>1, <3>2 DEF Reports, Answers
      <4> QED
        BY <2>3, <3>2, <4>1 DEF Reported, Backed
    <3> QED
      BY <3>1, <3>2 DEF Backed
  <2>8. ASSUME NEW q \in pendTx', NEW r \in q.datagram PROVE Backed(Log', r)
    <3>1. q \in pendTx \/ q.datagram = out.datagram
      BY <1>8, <2>8 DEF Outcome
    <3>2. CASE q \in pendTx
      <4>1. Backed(Log, r)
        BY <2>8, <3>2 DEF ReportInv
      <4> QED
        BY <2>3, <4>1, BackedLasts
    <3> QED
      BY <2>7, <2>8, <3>1, <3>2
  <2> QED
    BY <2>1, <2>2, <2>3, <2>4, <2>5, <2>6, <2>8 DEF ReportInv
<1> QED
  BY <1>7, <1>8 DEF OutOK, OutType

(* Nothing is reported apart from the records and the end of a datagram.     *)
LEMMA CalmReports ==
    ASSUME [Next]_vars, ~RecordStep, ~RelayTxAll
    PROVE  /\ events' = events /\ pendEv' = pendEv
           /\ dev' = dev \/ \E j \in Joiner : DeviceStep(j)
<1>1. CASE \E j \in Joiner : DeviceStep(j)
  BY <1>1, DeviceFrame
<1>2. CASE \E j \in Joiner : RelayRxIgnored(j) \/ RelayRxNewSession(j) \/ RelayRx(j)
  BY <1>2 DEF RelayRxIgnored, RelayRxNewSession, RelayRx, devVars
<1>3. CASE SetJoinerHandler \/ ClearJoinerHandler \/ Disconnect \/ Tick
  BY <1>3 DEF SetJoinerHandler, ClearJoinerHandler, Disconnect, Tick, devVars
<1>4. CASE UNCHANGED vars
  BY <1>4 DEF vars
<1> QED
  BY <1>1, <1>2, <1>3, <1>4 DEF Next, DeviceStep, RecordStep

(* A joiner concludes nothing that was not reported.                         *)
LEMMA DeviceHeard ==
    ASSUME TypeOK, HeardInv, NEW j \in Joiner, DeviceStep(j)
    PROVE  HeardInv'
<1>1. tx' = tx /\ events' = events
  BY DeviceFrame
<1>2. \A r \in Heard(j) : Backed(events, r)
  BY DEF Heard, HeardInv
<1>3. dev \in [Joiner -> Device] /\ dev[j] \in Device
  BY DEF TypeOK
<1>4. DevKey(j).sid = dev[j].sid
  BY DEF DevKey
<1> DEFINE Knows(d) ==
             /\ d.st \in {"connected", "done"} => TellsConnected(events, d.sid)
             /\ d.st = "done" => TellsFinalized(events, d.sid, d.result = "accept")
<1>5. \A k \in Joiner : Knows(dev[k])
  BY DEF HeardInv
<1>7. /\ \A k \in Joiner \ {j} : dev'[k] = dev[k]
      /\ \/ dev'[j].st \notin {"connected", "done"}
         \/ dev'[j] = dev[j]
         \/ dev'[j].st = "connected" /\ dev'[j].sid = dev[j].sid
            /\ \E r \in Heard(j) : r.kind = "Finished" /\ r.key = DevKey(j)
         \/ dev'[j].st = "done" /\ dev'[j].sid = dev[j].sid /\ dev[j].st = "connected"
            /\ \E r \in Heard(j) : r.kind = "Response" /\ r.key = DevKey(j)
                                    /\ dev'[j].result = r.state
  <2>1. CASE DeviceStart(j)
    BY <1>3, <2>1 DEF DeviceStart
  <2>2. CASE DeviceCookie(j) \/ DeviceRequest(j)
    BY <2>2 DEF DeviceCookie, DeviceRequest, devVars
  <2>3. CASE DeviceFlight(j)
    BY <1>3, <2>3 DEF DeviceFlight, Device
  <2>4. CASE DeviceConnected(j)
    BY <1>3, <2>4 DEF DeviceConnected, Device
  <2>5. CASE DeviceFinalized(j)
    BY <1>3, <2>5 DEF DeviceFinalized, Device
  <2>6. CASE DeviceFails(j)
    BY <1>3, <2>6 DEF DeviceFails, Device
  <2> QED
    BY <2>1, <2>2, <2>3, <2>4, <2>5, <2>6 DEF DeviceStep
<1>8. Knows(dev'[j])
  <2>1. CASE \E r \in Heard(j) : r.kind = "Finished" /\ r.key = DevKey(j)
    <3>1. TellsConnected(events, dev[j].sid)
      BY <1>2, <1>4, <2>1 DEF Backed
    <3>2. CASE dev'[j].st = "connected" /\ dev'[j].sid = dev[j].sid
      BY <3>1, <3>2
    <3>3. CASE dev'[j].st = "done" /\ dev'[j].sid = dev[j].sid
               /\ \E r \in Heard(j) : r.kind = "Response" /\ r.key = DevKey(j)
                                       /\ dev'[j].result = r.state
      BY <1>2, <1>4, <3>1, <3>3 DEF Backed
    <3> QED
      BY <1>5, <1>7, <3>2, <3>3
  <2>2. CASE ~\E r \in Heard(j) : r.kind = "Finished" /\ r.key = DevKey(j)
    <3>1. CASE dev'[j].st = "done" /\ dev'[j].sid = dev[j].sid /\ dev[j].st = "connected"
               /\ \E r \in Heard(j) : r.kind = "Response" /\ r.key = DevKey(j)
                                       /\ dev'[j].result = r.state
      BY <1>2, <1>4, <1>5, <3>1 DEF Backed
    <3> QED
      BY <1>5, <1>7, <2>2, <3>1
  <2> QED
    BY <2>1, <2>2
<1>9. \A k \in Joiner : Knows(dev'[k])
  BY <1>5, <1>7, <1>8
<1>10. \A k \in Joiner : \A m \in tx'[k] : \A r \in m.datagram : Backed(events', r)
  BY <1>1 DEF HeardInv
<1> QED
  BY <1>1, <1>9, <1>10 DEF HeardInv

(* Reports are inductive: every action keeps sessions, joiners and the       *)
(* application in step.                                                      *)
LEMMA ReportStep ==
    TableInv /\ TableInv' /\ ReportInv /\ HeardInv /\ [Next]_vars => ReportInv' /\ HeardInv'
<1> SUFFICES ASSUME TableInv, TableInv', ReportInv, HeardInv, [Next]_vars
             PROVE  ReportInv' /\ HeardInv'
  OBVIOUS
<1>t. /\ events \in Seq(Event) /\ pendEv \in Seq(Event) /\ TypeOK /\ Len(born) \in Nat
      /\ born \in Seq(Birth)
  <2>1. TypeOK
    BY DEF TableInv
  <2> QED
    BY <2>1 DEF TypeOK
<1>1. CASE RecordStep
  <2>1. ~Idle /\ cur \in Joiner
    BY <1>1, <1>t, RecordOutcome DEF RecordStep, TypeOK, Idle
  <2>2. PICK out : OutOK(sessions[cur], out) /\ Outcome(out) /\ Reports(sessions[cur], out)
    <3>1. NoFinished(sessions[cur])
      BY <2>1 DEF ReportInv, NoFinished
    <3> QED
      BY <1>1, <3>1, RecordOutcome DEF RecordStep, Tells
  <2>3. ReportInv'
    BY <2>1, <2>2, OutcomeKeepsReports
  <2>4. tx' = tx /\ dev' = dev /\ events' = events
    BY <2>2 DEF Outcome, devVars
  <2> QED
    BY <2>3, <2>4 DEF HeardInv
<1>2. CASE RelayTxAll
  <2>1. /\ events' = Log /\ pendEv' = << >> /\ pendTx' = {} /\ born' = born /\ dev' = dev
        /\ cur \in Joiner
    BY <1>2, <1>t DEF RelayTxAll, Log, devVars, Idle, TypeOK
  <2>2. /\ Log \in Seq(Event) /\ DOMAIN events \subseteq DOMAIN Log
        /\ \A i \in DOMAIN events : Log[i] = events[i]
    BY <1>t, LogPrefix DEF Log
  <2>3. Log' = Log
    <3>1. << >> \in Seq(Event)
      OBVIOUS
    <3> QED
      BY <2>1, <2>2, <3>1, LogPrefix DEF Log
  <2>4. \A j \in Joiner : sessions'[j] = sessions[j] \/ sessions'[j] = NoSession
    BY <1>2, <1>t, <2>1 DEF RelayTxAll, Remove, TypeOK
  <2>5. ReportInv'
    <3>1. \A i \in DOMAIN pendEv' : FALSE
      BY <2>1
    <3>2. \A j \in Joiner : sessions'[j].phase # "Vacant" => Reported(Log', sessions'[j])
      BY <2>3, <2>4, NoSessionOK DEF ReportInv
    <3>3. ASSUME NEW j \in Joiner, NEW r \in sessions'[j].flight PROVE r.kind # "Finished"
      <4>1. NoSession.flight = {}
        BY VacantFields
      <4>2. sessions'[j] = sessions[j]
        BY <2>4, <3>3, <4>1
      <4> QED
        BY <3>3, <4>2 DEF ReportInv
    <3>4. Orderly(Log') /\ \A i \in DOMAIN Log' : Log'[i].sid \in 1 .. Len(born')
      BY <2>1, <2>3 DEF ReportInv
    <3> QED
      BY <2>1, <3>1, <3>2, <3>3, <3>4 DEF ReportInv
  <2>6. ASSUME NEW j \in Joiner, NEW m \in tx'[j], NEW r \in m.datagram
        PROVE  Backed(events', r)
    <3>1. CASE m \in tx[j]
      <4>1. Backed(events, r)
        BY <3>1 DEF HeardInv
      <4> QED
        BY <2>1, <2>2, <4>1, BackedLasts
    <3>2. CASE m \notin tx[j]
      <4>1. tx \in [Joiner -> SUBSET RelayTx]
        BY <1>t DEF TypeOK
      <4>2. PICK t \in pendTx : m.datagram = t.datagram
        BY <1>2, <2>1, <2>6, <3>2, <4>1 DEF RelayTxAll
      <4> QED
        BY <2>1, <2>6, <4>2 DEF ReportInv
    <3> QED
      BY <3>1, <3>2
  <2>7. ASSUME NEW j \in Joiner
        PROVE  /\ dev'[j].st \in {"connected", "done"} => TellsConnected(events', dev'[j].sid)
               /\ dev'[j].st = "done" =>
                     TellsFinalized(events', dev'[j].sid, dev'[j].result = "accept")
    BY <2>1, <2>2 DEF HeardInv, TellsConnected, TellsFinalized
  <2> QED
    BY <2>5, <2>6, <2>7 DEF HeardInv
<1>3. CASE ~RecordStep /\ ~RelayTxAll /\ Idle
  <2>1. /\ events' = events /\ pendEv' = pendEv /\ pendTx' = pendTx /\ tx' = tx
        /\ (dev' = dev \/ \E j \in Joiner : DeviceStep(j))
    BY <1>3, CalmReports, CalmSteps
  <2>2. pendEv = << >> /\ pendTx = {} /\ Log' = Log
    BY <1>3, <2>1 DEF TableInv, Log
  <2>3. Len(born') \in Nat /\ Len(born) <= Len(born')
    BY <1>3, <1>t, OtherSteps, BirthAdded DEF RecordStep
  <2>4. \A i \in DOMAIN Log : Log[i].sid \in 1 .. Len(born)
    BY DEF ReportInv
  <2>5. ASSUME NEW j \in Joiner
        PROVE  /\ sessions'[j].phase # "Vacant" => Reported(Log, sessions'[j])
               /\ \A r \in sessions'[j].flight : r.kind # "Finished"
    <3>1. CASE sessions'[j] = Countdown(sessions[j])
      <4>1. SessionOK(sessions[j])
        BY DEF TableInv
      <4>2. /\ sessions'[j].phase = sessions[j].phase /\ sessions'[j].sid = sessions[j].sid
            /\ sessions'[j].decision = sessions[j].decision
            /\ sessions'[j].flight = sessions[j].flight
        BY <3>1, <4>1, CountdownOK
      <4> QED
        BY <4>2 DEF ReportInv, Reported
    <3>2. CASE sessions'[j] = NoSession
      BY <3>2, VacantFields
    <3>3. CASE \E p \in Pskd : sessions'[j] = NewSession(Len(born) + 1, p)
      <4>1. /\ sessions'[j].phase = "AwaitingClientHello" /\ sessions'[j].flight = {}
            /\ sessions'[j].sid = Len(born) + 1
        BY <3>3, NewFields
      <4>2. \A i \in DOMAIN Log : Log[i].sid # sessions'[j].sid
        BY <1>t, <2>4, <4>1
      <4> QED
        BY <4>1, <4>2 DEF Reported
    <3>4. CASE sessions'[j] = sessions[j]
      BY <3>4 DEF ReportInv
    <3> QED
      BY <1>3, <3>1, <3>2, <3>3, <3>4, OtherSteps DEF RecordStep
  <2>6. ReportInv'
    <3>1. \A i \in DOMAIN Log' : Log'[i].sid \in 1 .. Len(born')
      BY <1>t, <2>2, <2>3, <2>4
    <3>2. Orderly(Log') /\ \A i \in DOMAIN pendEv' : FALSE
      BY <2>1, <2>2 DEF ReportInv
    <3> QED
      BY <2>1, <2>2, <2>5, <3>1, <3>2 DEF ReportInv
  <2>7. HeardInv'
    BY <1>t, <2>1, DeviceHeard DEF HeardInv
  <2> QED
    BY <2>6, <2>7
<1>4. CASE UNCHANGED vars
  <2>1. Log' = Log
    BY <1>4 DEF vars, Log
  <2> QED
    BY <1>4, <2>1 DEF vars, ReportInv, HeardInv
<1> QED
  BY <1>1, <1>2, <1>3, <1>4, CalmSteps

(* Nothing has been reported at the start.                                   *)
LEMMA ReportInit == Init => ReportInv /\ HeardInv
<1> SUFFICES ASSUME Init PROVE ReportInv /\ HeardInv
  OBVIOUS
<1>1. << >> \in Seq(Event)
  OBVIOUS
<1>2. Log = << >>
  BY <1>1, LogPrefix DEF Init, Log
<1>3. \A i \in DOMAIN Log : FALSE
  BY <1>2
<1>4. \A i \in DOMAIN pendEv : FALSE
  BY DEF Init
<1>5. Orderly(Log)
  BY <1>3 DEF Orderly
<1>6. \A j \in Joiner : sessions[j].phase = "Vacant" /\ sessions[j].flight = {} /\ tx[j] = {}
                        /\ dev[j].st = "off"
  BY DEF Init, NoSession
<1>7. pendTx = {}
  BY DEF Init
<1> QED
  BY <1>3, <1>4, <1>5, <1>6, <1>7 DEF ReportInv, HeardInv

(* Whatever the relay loses, repeats or reorders, a joiner that takes itself *)
(* for connected or finalized was reported so to the application, with the   *)
(* same answer, and the reports of a session come once and in order.         *)
THEOREM ViewsAgree == Spec => []JoinerAndApplicationAgree
<1>1. TableInv /\ ReportInv /\ HeardInv => JoinerAndApplicationAgree
  <2> SUFFICES ASSUME TableInv, ReportInv, HeardInv PROVE JoinerAndApplicationAgree
    OBVIOUS
  <2>1. Orderly(events)
    BY PrefixOrderly DEF TableInv, TypeOK, ReportInv, Log
  <2>2. \A j \in Joiner :
          /\ dev[j].st \in {"connected", "done"} => Told("Connected", dev[j].sid, FALSE)
          /\ dev[j].st = "done" => Told("Finalized", dev[j].sid, dev[j].result = "accept")
    BY DEF HeardInv, Told, TellsConnected, TellsFinalized
  <2> QED
    BY <2>1, <2>2 DEF JoinerAndApplicationAgree, Orderly
<1> QED
  BY <1>1, TableInit, TableStep, ReportInit, ReportStep, PTL DEF Spec

(* No decision of the handler outlives its datagram unreported.              *)
THEOREM DecisionReported == Spec => []DecisionSurfaced
<1>1. TableInv /\ ReportInv => DecisionSurfaced
  <2> SUFFICES ASSUME TableInv, ReportInv, Idle, NEW j \in Joiner,
                      sessions[j].decision # "none"
               PROVE  Told("Finalized", sessions[j].sid, sessions[j].decision = "accept")
    BY DEF DecisionSurfaced
  <2>1. sessions[j].phase = "Finalized"
    BY DEF TableInv, SessionOK
  <2>2. TellsFinalized(Log, sessions[j].sid, sessions[j].decision = "accept")
    BY <2>1 DEF ReportInv, Reported
  <2>3. Log = events
    BY LogPrefix DEF TableInv, TypeOK, Log
  <2> QED
    BY <2>2, <2>3 DEF TellsFinalized, Told
<1> QED
  BY <1>1, TableInit, TableStep, ReportInit, ReportStep, PTL DEF Spec

=============================================================================
