-------------------------- MODULE CommissionerProofs --------------------------
(***************************************************************************)
(* What the commissioner handle promises for any identity space, any       *)
(* number of requests, sessions, dataset versions and notifications, and   *)
(* any number of messages in flight.  The inductive invariant Inv says     *)
(* what an operation in progress implies of the handle (OperationInv),     *)
(* which requests and messages may be in flight beside it (FlightInv), and *)
(* how the cached prefix relates to the changes processed (FloorInv).      *)
(***************************************************************************)
EXTENDS Commissioner, FiniteSetTheorems, TLAPS

\* The obligations of this module carry a large context, which Zenon takes better than
\* SMT, and whose translation for SMT may take more than one attempt.
USE ZenonT(5), SMTT(30), ZenonT(25), SMTT(20), SMTT(25)

-----------------------------------------------------------------------------
(* The inductive invariant.                                                  *)

OperationInv ==
    \/ op = NoOp
    \/ /\ state # "Disabled"
       /\ op.kind # "none" /\ op.stage # "none"
       /\ op.kind = "event" => op.stage = "wait"
       /\ op.stage = "wait" => dtls
       /\ op.kind # "event" => op.id \in 1 .. ids
       /\ op.kind = "petition" => state = "Petitioning"
       /\ op.fetch => op.kind = "leader" /\ prefix = 0

Pending == op.kind \notin {"none", "event"}

(* A response to the request in progress carries what the border agent did.  *)
Genuine(m) ==
    /\ op.kind = "petition" /\ m.result = "accept" /\ m.value # 0 =>
          [id |-> op.id, sid |-> m.value] \in grants
    /\ op.fetch /\ m.result \notin {"none", "error"} => m.value \in floor .. version

RequestOK(q) ==
    /\ q.id \in 1 .. ids
    /\ q.fetch => q.kind = "leader"
    /\ Pending => q.id <= op.id
    /\ Pending /\ q.id = op.id =>
          op.stage = "wait" /\ q.kind = op.kind /\ q.fetch = op.fetch

(* A message nobody asked for.                                               *)
Unsolicited(m) == m.kind \notin {"response", "ack"}

(* A response bears the token of the request it answers, an acknowledgement  *)
(* none, and what nobody asked for any token but neither state nor prefix.   *)
MessageOK(m) ==
    IF Unsolicited(m) THEN m.value <= version /\ m.id = 0 /\ m.result = "none"
    ELSE /\ m.id \in 1 .. ids
         /\ m.token = IF m.kind = "response" THEN Token(m.id) ELSE NoToken
         /\ Pending => m.id <= op.id
         /\ Pending /\ m.id = op.id =>
               op.stage = "wait" /\ (m.kind = "response" => Genuine(m))

FlightInv ==
    /\ \A q \in requests : RequestOK(q)
    /\ \A m \in inbox : MessageOK(m)

FloorInv ==
    /\ floor <= notified /\ notified <= version
    /\ PrefixReflectsNotices

EndInv == AnswersMatch

Inv ==
    /\ TypeOK
    /\ IsFiniteSet(grants)
    /\ OperationInv
    /\ FlightInv
    /\ FloorInv
    /\ LifecycleConsistent
    /\ EndInv

-----------------------------------------------------------------------------
(* Identities.                                                               *)

(* Two identities less than the identity space apart that share a token are  *)
(* the same.                                                                 *)
LEMMA TokenInjective ==
    ASSUME NEW a \in Nat, NEW b \in Nat, a <= b, b < a + IdSpace, Token(a) = Token(b)
    PROVE  a = b
<1>1. IdSpace \in Nat /\ IdSpace > 0
  BY BoundAssumption
<1>2. ASSUME NEW x \in Nat
      PROVE  x \div IdSpace \in Nat /\ x = IdSpace * (x \div IdSpace) + (x % IdSpace)
  BY <1>1, <1>2
<1>3. Token(a) = a % IdSpace /\ Token(b) = a % IdSpace /\ a % IdSpace \in Nat
  BY <1>1 DEF Token
<1>4. PICK p \in Nat : a = IdSpace * p + Token(a)
  BY <1>2, <1>3
<1>5. PICK r \in Nat : b = IdSpace * r + Token(a)
  BY <1>2, <1>3 DEF Token
<1>6. IdSpace * p \in Nat /\ IdSpace * r \in Nat /\ Token(a) \in Nat
  BY <1>1, <1>3
<1>7. IdSpace * p <= IdSpace * r /\ IdSpace * r < IdSpace * p + IdSpace
  BY <1>1, <1>4, <1>5, <1>6
<1>8. p = r
  BY <1>1, <1>7
<1> QED
  BY <1>4, <1>5, <1>8

(* Every identity has a token.                                               *)
LEMMA TokenType ==
    ASSUME NEW id \in Nat
    PROVE  Token(id) \in 0 .. IdSpace /\ Token(id) # NoToken /\ NoToken \in 0 .. IdSpace
<1>1. IdSpace \in Nat /\ IdSpace > 0
  BY BoundAssumption
<1>2. id % IdSpace \in 0 .. IdSpace - 1
  BY <1>1
<1> QED
  BY <1>1, <1>2 DEF Token, NoToken

(* With the types expanded once.                                             *)
LEMMA Typed ==
    ASSUME TypeOK
    PROVE  /\ ids \in Nat /\ floor \in Nat /\ notified \in Nat /\ version \in Nat
           /\ prefix \in Nat /\ sessionId \in Nat
           /\ op.id \in Nat /\ op.fetch \in BOOLEAN
           /\ op.kind \in Operation \cup {"none"} /\ op.stage \in {"none", "connect", "wait"}
           /\ \A q \in requests : q.id \in Nat /\ q.kind \in Operation /\ q.fetch \in BOOLEAN
           /\ \A m \in inbox : m.id \in Nat /\ m.value \in Nat
BY BoundAssumption DEF TypeOK, Op, Request, Message

(* An operation that waits is one in progress.                               *)
LEMMA Waiting ==
    ASSUME Inv, op.stage = "wait"
    PROVE  /\ op # NoOp /\ op.kind # "none" /\ dtls /\ state # "Disabled"
           /\ Expected <=> Pending
           /\ Pending => op.id \in 1 .. ids
           /\ op.kind = "petition" => state = "Petitioning"
           /\ op.fetch => op.kind = "leader" /\ prefix = 0
<1>1. op # NoOp
  BY DEF NoOp
<1> QED
  BY <1>1 DEF Inv, OperationInv, Pending, Expected

(* A message whose token matches is the response to the request in progress  *)
(* or one that nobody asked for, which carries neither state nor prefix.     *)
LEMMA OwnAnswer ==
    ASSUME Inv, NEW m \in inbox, Take(m), IsAnswer(m)
    PROVE  /\ Pending
           /\ (m.id = op.id /\ Genuine(m)) \/ (m.id = 0 /\ m.result = "none")
<1>1. TypeOK /\ FlightInv
  BY DEF Inv
<1>2. Pending /\ op.id \in 1 .. ids
  BY Waiting DEF Take, IsAnswer
<1>3. MessageOK(m)
  BY <1>1 DEF FlightInv
<1>4. CASE Unsolicited(m)
  BY <1>2, <1>3, <1>4 DEF MessageOK
<1>5. CASE ~Unsolicited(m)
  <2>1. /\ m.id \in 1 .. ids /\ m.id <= op.id
        /\ m.token = IF m.kind = "response" THEN Token(m.id) ELSE NoToken
    BY <1>2, <1>3, <1>5 DEF MessageOK
  <2>2. ids \in Nat /\ IdSpace \in Nat
    BY <1>1, BoundAssumption DEF TypeOK
  <2>3. m.id \in Nat /\ op.id \in Nat
    BY <1>2, <2>1, <2>2
  <2>4. m.kind = "response" /\ Token(m.id) = Token(op.id)
    BY <2>1, <2>3, TokenType DEF IsAnswer
  <2>5. m.id # 0 => m.id + IdSpace > ids
    BY DEF Take
  <2>6. op.id < m.id + IdSpace
    BY <1>2, <2>1, <2>2, <2>3, <2>5
  <2>7. m.id = op.id
    BY <2>1, <2>3, <2>4, <2>6, TokenInjective
  <2> QED
    BY <1>2, <1>3, <1>5, <2>4, <2>7 DEF MessageOK
<1> QED
  BY <1>4, <1>5

-----------------------------------------------------------------------------
(* Requests and messages in flight.                                          *)

(* What is in flight stays in order when identities and versions only grow   *)
(* and the operation goes on as it was, ends, or leaves identities aside.    *)
LEMMA FlightFrame ==
    ASSUME Inv, requests' \subseteq requests, inbox' \subseteq inbox,
           ids' \in Nat, ids <= ids', version' \in Nat, version <= version',
           grants \subseteq grants',
           \/ ~Pending'
           \/ op' = op /\ (op.fetch => floor' = floor)
    PROVE  FlightInv'
<1>0. TypeOK /\ FlightInv
  BY DEF Inv
<1>t. /\ ids \in Nat /\ version \in Nat /\ floor \in Nat
      /\ \A q \in requests : q.id \in Nat
      /\ \A m \in inbox : m.id \in Nat /\ m.value \in Nat
  BY <1>0, Typed
<1>1. ASSUME NEW q \in requests'
      PROVE  RequestOK(q)'
  <2>1. RequestOK(q) /\ q.id \in Nat
    BY <1>0, <1>1, <1>t DEF FlightInv
  <2>2. q.id \in 1 .. ids'
    BY <1>t, <2>1 DEF RequestOK
  <2> QED
    BY <2>1, <2>2 DEF RequestOK, Pending
<1>2. ASSUME NEW m \in inbox'
      PROVE  MessageOK(m)'
  <2>1. MessageOK(m) /\ m.id \in Nat /\ m.value \in Nat
    BY <1>0, <1>2, <1>t DEF FlightInv
  <2>2. CASE Unsolicited(m)
    <3>1. m.value <= version'
      BY <1>t, <2>1, <2>2 DEF MessageOK
    <3> QED
      BY <2>1, <2>2, <3>1 DEF MessageOK, Unsolicited
  <2>3. CASE ~Unsolicited(m)
    <3>1. m.id \in 1 .. ids'
      BY <1>t, <2>1, <2>3 DEF MessageOK
    <3>2. ASSUME Pending'
          PROVE  m.id <= op'.id
      BY <2>1, <2>3, <3>2 DEF MessageOK, Pending
    <3>3. ASSUME Pending', m.id = op'.id
          PROVE  op'.stage = "wait" /\ (m.kind = "response" => Genuine(m)')
      <4>1. op.stage = "wait" /\ (m.kind = "response" => Genuine(m))
        BY <2>1, <2>3, <3>3 DEF MessageOK, Pending
      <4>2. m.kind = "response" /\ op.fetch /\ m.result \notin {"none", "error"} =>
                m.value \in floor' .. version'
        BY <1>t, <2>1, <3>3, <4>1 DEF Genuine, Pending
      <4> QED
        BY <3>3, <4>1, <4>2 DEF Genuine, Pending
    <3>4. m.token = IF m.kind = "response" THEN Token(m.id) ELSE NoToken
      BY <2>1, <2>3 DEF MessageOK
    <3> QED
      BY <2>3, <3>1, <3>2, <3>3, <3>4 DEF MessageOK, Unsolicited
  <2> QED
    BY <2>2, <2>3
<1> QED
  BY <1>1, <1>2 DEF FlightInv

(* The border agent's answer to q is in order when it says what it did.      *)
LEMMA AnswerFlight ==
    ASSUME Inv, NEW q \in requests,
           NEW result \in {"accept", "reject", "pending", "error"}, NEW value \in Nat,
           Answer(q, result, value), grants \subseteq grants',
           q.kind = "petition" /\ result = "accept" /\ value # 0 =>
              [id |-> q.id, sid |-> value] \in grants',
           q.fetch /\ result # "error" => value \in floor .. version
    PROVE  FlightInv' /\ inbox' \subseteq Message /\ requests' \subseteq Request
<1>0. TypeOK /\ FlightInv /\ q \in Request /\ RequestOK(q)
  BY DEF Inv, TypeOK, FlightInv
<1>u. /\ op' = op /\ ids' = ids /\ version' = version /\ floor' = floor
      /\ requests' = requests \ {q}
  BY DEF Answer, handleVars, historyVars
<1>1. PICK separate \in BOOLEAN :
         inbox' = inbox \cup {Response(q, result, value, separate)}
                        \cup (IF separate THEN {EmptyAck(q)} ELSE {})
  BY DEF Answer
<1> DEFINE r == Response(q, result, value, separate)
           a == EmptyAck(q)
<1>t. q.id \in Nat /\ q.fetch \in BOOLEAN /\ ViaProxy(q.kind) \in BOOLEAN
  BY <1>0 DEF Request, ViaProxy
<1>k. Token(q.id) \in 0 .. IdSpace /\ NoToken \in 0 .. IdSpace
  BY <1>t, TokenType
<1>2. /\ r \in Message /\ r.id = q.id /\ r.kind = "response"
      /\ r.result = result /\ r.value = value /\ r.token = Token(q.id)
  BY <1>t, <1>k DEF Response, Message
<1>3. a \in Message /\ a.id = q.id /\ a.kind = "ack" /\ a.token = NoToken
  BY <1>t, <1>k DEF EmptyAck, Message
<1> HIDE DEF r, a
<1>4. inbox' \subseteq inbox \cup {r, a}
  BY <1>1 DEF r, a
<1>5. \A x \in requests' : RequestOK(x)'
  BY <1>0, <1>u DEF FlightInv, RequestOK, Pending
<1>6. ASSUME NEW m \in inbox
      PROVE  MessageOK(m)'
  BY <1>0, <1>6, <1>u DEF FlightInv, MessageOK, Pending, Genuine, Unsolicited
<1>7. MessageOK(a)'
  BY <1>0, <1>3, <1>u DEF MessageOK, RequestOK, Pending, Unsolicited
<1>8. MessageOK(r)'
  <2>1. ASSUME Pending, r.id = op.id
        PROVE  Genuine(r)'
    BY <1>0, <1>2, <1>u, <2>1 DEF Genuine, RequestOK
  <2> QED
    BY <1>0, <1>2, <1>u, <2>1 DEF MessageOK, RequestOK, Pending, Unsolicited
<1>9. FlightInv'
  BY <1>4, <1>5, <1>6, <1>7, <1>8 DEF FlightInv
<1>10. inbox \subseteq Message /\ requests \subseteq Request
  BY <1>0 DEF TypeOK
<1> QED
  BY <1>2, <1>3, <1>4, <1>9, <1>10, <1>u

-----------------------------------------------------------------------------
(* The operations.                                                           *)

(* An operation starts with an identity beyond all that are in flight.       *)
LEMMA BeginStep ==
    ASSUME Inv, NEW kind \in Operation \ {"event"}, Begin(kind)
    PROVE  Inv'
<1>0. TypeOK /\ FlightInv /\ FloorInv /\ LifecycleConsistent /\ IsFiniteSet(grants)
  BY DEF Inv
<1>n. /\ ids \in Nat /\ prefix \in Nat
      /\ \A q \in requests : q.id \in Nat
      /\ \A m \in inbox : m.id \in Nat
  BY <1>0, Typed
<1>u. UNCHANGED <<sessionId, dtls, events, prefix, requests, inbox, agentSid, version, notes,
                  grants, notified, floor>>
  BY DEF Begin, agentVars
<1>1. /\ op' = [kind |-> kind, stage |-> "connect", fetch |-> NeedsPrefix(kind),
                id |-> ids + 1]
      /\ NeedsPrefix(kind) \in BOOLEAN
      /\ last' = NoEnd /\ state # "Disabled"
      /\ state' = IF kind = "petition" THEN "Petitioning" ELSE state
      /\ kind = "petition" => state = "Connected"
      /\ kind \in Operation /\ kind # "event" /\ kind # "none"
  BY DEF Begin, NeedsPrefix, MayExecute, Operation
<1>2. ids' \in Nat /\ ids + 1 <= ids'
  BY <1>n DEF Begin, Cost
<1>3. TypeOK'
  BY <1>0, <1>n, <1>u, <1>1, <1>2 DEF TypeOK, Op, NoEnd
<1>4. OperationInv'
  <2>1. op'.id \in 1 .. ids'
    BY <1>n, <1>1, <1>2
  <2>2. state' # "Disabled" /\ (kind = "petition" => state' = "Petitioning")
    BY <1>1
  <2> QED
    BY <1>1, <1>u, <2>1, <2>2 DEF OperationInv, NeedsPrefix
<1>5. FlightInv'
  <2>1. ASSUME NEW q \in requests
        PROVE  RequestOK(q)'
    <3>1. q.id \in 1 .. ids /\ (q.fetch => q.kind = "leader")
      BY <1>0, <2>1 DEF FlightInv, RequestOK
    <3>2. q.id \in 1 .. ids' /\ q.id <= op'.id /\ q.id # op'.id
      BY <1>n, <1>1, <1>2, <3>1
    <3> QED
      BY <3>1, <3>2 DEF RequestOK
  <2>2. ASSUME NEW m \in inbox
        PROVE  MessageOK(m)'
    <3>1. CASE Unsolicited(m)
      BY <1>0, <1>u, <2>2, <3>1 DEF FlightInv, MessageOK, Unsolicited
    <3>2. CASE ~Unsolicited(m)
      <4>1. /\ m.id \in 1 .. ids
            /\ m.token = IF m.kind = "response" THEN Token(m.id) ELSE NoToken
        BY <1>0, <2>2, <3>2 DEF FlightInv, MessageOK
      <4>2. m.id \in 1 .. ids' /\ m.id <= op'.id /\ m.id # op'.id
        BY <1>n, <1>1, <1>2, <4>1
      <4> QED
        BY <3>2, <4>1, <4>2 DEF MessageOK, Unsolicited
    <3> QED
      BY <3>1, <3>2
  <2> QED
    BY <1>u, <2>1, <2>2 DEF FlightInv
<1>6. FloorInv'
  BY <1>0, <1>u DEF FloorInv, PrefixReflectsNotices
<1>7. LifecycleConsistent'
  BY <1>0, <1>u, <1>1 DEF LifecycleConsistent
<1>8. EndInv'
  BY <1>1 DEF EndInv, AnswersMatch, NoEnd
<1> QED
  BY <1>0, <1>u, <1>3, <1>4, <1>5, <1>6, <1>7, <1>8 DEF Inv

(* A step that leaves everything but identities and the event queue alone,   *)
(* or ends the operation.                                                    *)
LEMMA QuietStep ==
    ASSUME Inv, UNCHANGED <<sessionId, dtls, prefix, agentVars, historyVars>>,
           requests' \subseteq requests, inbox' \subseteq inbox,
           ids' \in Nat, ids <= ids',
           events' \in Seq({"DatasetChanged", "KeepAliveResponse", "Report", "Joiner"}),
           op' \in {op, NoOp} \/ (op'.kind = "event" /\ op' \in Op /\ OperationInv'),
           \/ state' = state
           \/ op' = NoOp /\ state = "Petitioning" /\ state' = "Connected"
    PROVE  Inv'
<1>0. /\ TypeOK /\ FlightInv /\ FloorInv /\ LifecycleConsistent /\ IsFiniteSet(grants)
      /\ OperationInv /\ EndInv /\ ids \in Nat /\ version \in Nat /\ op.id \in Nat
  BY Typed DEF Inv
<1>u. /\ UNCHANGED <<sessionId, dtls, prefix, agentSid, version, notes, grants>>
      /\ UNCHANGED <<notified, floor, last>>
  BY DEF agentVars, historyVars
<1>1. NoOp \in Op
  BY DEF NoOp, Op
<1>2. TypeOK'
  BY <1>0, <1>u, <1>1 DEF TypeOK
<1>3. OperationInv'
  <2>1. CASE op' = op /\ state' = state
    BY <1>0, <1>u, <2>1 DEF OperationInv
  <2> QED
    BY <2>1 DEF OperationInv
<1>4. FlightInv'
  <2>1. ~Pending' \/ op' = op
    BY DEF Pending, NoOp
  <2> QED
    BY <1>0, <1>u, <2>1, FlightFrame
<1>5. FloorInv' /\ EndInv' /\ IsFiniteSet(grants')
  BY <1>0, <1>u DEF FloorInv, PrefixReflectsNotices, EndInv, AnswersMatch
<1>6. LifecycleConsistent'
  BY <1>0, <1>u DEF LifecycleConsistent
<1> QED
  BY <1>2, <1>3, <1>4, <1>5, <1>6 DEF Inv

(* Refusals, failures, dropped futures and events returned.                  *)
LEMMA ApplicationStep ==
    ASSUME Inv,
           \/ \E kind \in Operation : Refused(kind)
           \/ NextEvent \/ OperationFails \/ Cancel
    PROVE  Inv'
<1>0. /\ TypeOK /\ OperationInv /\ LifecycleConsistent /\ ids \in Nat
      /\ events \in Seq({"DatasetChanged", "KeepAliveResponse", "Report", "Joiner"})
  BY DEF Inv, TypeOK
<1>1. CASE \E kind \in Operation : Refused(kind)
  <2>1. ids' \in Nat /\ ids <= ids'
    BY <1>0, <1>1 DEF Refused
  <2> QED
    BY <1>0, <1>1, <2>1, QuietStep DEF Refused
<1>2. CASE NextEvent
  <2>1. events' \in Seq({"DatasetChanged", "KeepAliveResponse", "Report", "Joiner"})
    BY <1>0, <1>2 DEF NextEvent
  <2>2. CASE events # << >>
    BY <1>0, <1>2, <2>1, <2>2, QuietStep DEF NextEvent
  <2>3. CASE events = << >>
    <3>1. /\ op' = [kind |-> "event", stage |-> "wait", fetch |-> FALSE, id |-> 0]
          /\ dtls /\ dtls' = dtls /\ state' = state
      BY <1>2, <2>3 DEF NextEvent
    <3>2. op'.kind = "event" /\ op' \in Op
      BY <3>1 DEF Op, Operation
    <3>3. OperationInv'
      BY <1>0, <3>1 DEF OperationInv, LifecycleConsistent
    <3> QED
      BY <1>0, <1>2, <2>1, <3>2, <3>3, QuietStep DEF NextEvent
  <2> QED
    BY <2>2, <2>3
<1>3. CASE OperationFails
  <2>1. op.kind = "petition" => state = "Petitioning"
    BY <1>0 DEF OperationInv, NoOp
  <2>2. state' = state \/ (state = "Petitioning" /\ state' = "Connected")
    BY <1>3, <2>1 DEF OperationFails, Restore
  <2> QED
    BY <1>0, <1>3, <2>2, QuietStep DEF OperationFails
<1>4. CASE Cancel
  BY <1>0, <1>4, QuietStep DEF Cancel
<1> QED
  BY <1>1, <1>2, <1>3, <1>4

(* The session is there and the request is sent.                             *)
LEMMA ConnectStep ==
    ASSUME Inv, Connect
    PROVE  Inv'
<1>0. /\ TypeOK /\ FlightInv /\ FloorInv /\ LifecycleConsistent /\ IsFiniteSet(grants)
      /\ OperationInv /\ EndInv
  BY DEF Inv
<1>n. /\ ids \in Nat /\ notified \in Nat /\ version \in Nat /\ prefix \in Nat
      /\ sessionId \in Nat /\ op.id \in Nat /\ op.fetch \in BOOLEAN
  BY <1>0, Typed
<1>u. UNCHANGED <<state, sessionId, ids, events, prefix, inbox, agentSid, version, notes,
                  grants, notified, last>>
  BY DEF Connect, agentVars
<1> DEFINE q == [kind |-> op.kind, fetch |-> op.fetch, id |-> op.id, sid |-> sessionId,
                 dst |-> prefix]
<1>1. /\ op # NoOp /\ op.stage = "connect" /\ state # "Disabled"
      /\ op.kind # "none" /\ op.kind # "event" /\ op.id \in 1 .. ids
      /\ op.kind = "petition" => state = "Petitioning"
      /\ op.fetch => op.kind = "leader" /\ prefix = 0
  BY <1>0 DEF Connect, OperationInv, NoOp
<1>2. \/ op' = NoOp /\ requests' = requests
      \/ op' = [op EXCEPT !.stage = "wait"] /\ requests' = requests \cup {q}
  BY DEF Connect
<1>3. dtls' /\ dtls' \in BOOLEAN /\ floor' = IF op.fetch THEN notified ELSE floor
  BY DEF Connect
<1>o. op \in Op /\ NoOp \in Op
  BY <1>0 DEF TypeOK, Op, NoOp
<1>p. ASSUME op' = [op EXCEPT !.stage = "wait"]
      PROVE  /\ op' \in Op /\ op'.kind = op.kind /\ op'.id = op.id /\ op'.fetch = op.fetch
             /\ op'.stage = "wait"
  BY <1>o, <1>p DEF Op
<1>q. q \in Request
  BY <1>0, <1>n, <1>1 DEF Request, TypeOK, Op
<1>4. TypeOK'
  <2>1. op' \in Op /\ requests' \subseteq Request
    BY <1>0, <1>2, <1>o, <1>p, <1>q DEF TypeOK
  <2>2. floor' \in 0 .. MaxVersion
    BY <1>0, <1>3 DEF TypeOK
  <2> QED
    BY <1>0, <1>u, <1>3, <2>1, <2>2 DEF TypeOK
<1>5. OperationInv'
  BY <1>1, <1>2, <1>3, <1>p, <1>u DEF OperationInv
<1>6. FlightInv'
  <2>1. CASE op' = NoOp
    BY <1>0, <1>2, <1>n, <1>u, <2>1, FlightFrame DEF Pending, NoOp
  <2>2. CASE op' = [op EXCEPT !.stage = "wait"] /\ requests' = requests \cup {q}
    <3>p. Pending /\ Pending' /\ op'.kind = op.kind /\ op'.id = op.id /\ op'.fetch = op.fetch
      BY <1>1, <1>p, <2>2 DEF Pending
    <3>1. ASSUME NEW x \in requests
          PROVE  RequestOK(x)'
      BY <1>0, <1>1, <1>u, <3>p DEF FlightInv, RequestOK
    <3>2. RequestOK(q)'
      BY <1>1, <1>u, <1>n, <1>p, <2>2 DEF RequestOK
    <3>3. ASSUME NEW m \in inbox
          PROVE  MessageOK(m)'
      BY <1>0, <1>1, <1>u, <3>p DEF FlightInv, MessageOK, Unsolicited
    <3> QED
      BY <1>u, <2>2, <3>1, <3>2, <3>3 DEF FlightInv
  <2> QED
    BY <1>2, <2>1, <2>2
<1>7. FloorInv'
  BY <1>0, <1>n, <1>1, <1>3, <1>u DEF FloorInv, PrefixReflectsNotices
<1>8. LifecycleConsistent' /\ EndInv'
  BY <1>0, <1>1, <1>3, <1>u DEF LifecycleConsistent, EndInv, AnswersMatch
<1> QED
  BY <1>0, <1>u, <1>4, <1>5, <1>6, <1>7, <1>8 DEF Inv

(* A step that ends the operation, whatever it does to the session.          *)
LEMMA EndStep ==
    ASSUME Inv, op' = NoOp, requests' \subseteq requests, inbox' \subseteq inbox,
           ids' \in Nat, ids <= ids', UNCHANGED <<agentVars, notified, floor>>,
           events' \in Seq({"DatasetChanged", "KeepAliveResponse", "Report", "Joiner"}),
           state' \in {"Connected", "Petitioning", "Active", "Disabled"},
           sessionId' \in 0 .. MaxSessions, dtls' \in BOOLEAN, prefix' \in {0, prefix},
           last' \in [end : {"none", "answered"}, asked : Nat, answered : Nat],
           LifecycleConsistent', EndInv'
    PROVE  Inv'
<1>0. /\ TypeOK /\ FloorInv /\ IsFiniteSet(grants)
      /\ ids \in Nat /\ version \in Nat
  BY Typed DEF Inv
<1>u. UNCHANGED <<agentSid, version, notes, grants, notified, floor>>
  BY DEF agentVars
<1>1. TypeOK'
  <2>1. NoOp \in Op /\ 0 \in 0 .. MaxVersion
    BY BoundAssumption DEF NoOp, Op
  <2> QED
    BY <1>0, <1>u, <2>1 DEF TypeOK
<1>2. FlightInv'
  BY <1>0, <1>u, FlightFrame DEF Pending, NoOp
<1>3. FloorInv'
  BY <1>0, <1>u DEF FloorInv, PrefixReflectsNotices
<1> QED
  BY <1>0, <1>u, <1>1, <1>2, <1>3 DEF Inv, OperationInv

(* The application disconnects.                                              *)
LEMMA DisconnectStep ==
    ASSUME Inv, Disconnect
    PROVE  Inv'
<1>0. TypeOK /\ EndInv /\ ids \in Nat
  BY DEF Inv, TypeOK
<1>u. /\ UNCHANGED <<ids, events, notified, floor, last>> /\ UNCHANGED agentVars
      /\ op' = NoOp /\ requests' = {} /\ inbox' = {}
      /\ state' = "Disabled" /\ sessionId' = 0 /\ dtls' = FALSE /\ prefix' = 0
  BY DEF Disconnect, Disconnected, Idle, historyVars
<1>1. LifecycleConsistent' /\ EndInv'
  BY <1>0, <1>u DEF LifecycleConsistent, EndInv, AnswersMatch
<1>2. sessionId' \in 0 .. MaxSessions /\ ids' \in Nat /\ ids <= ids'
  BY <1>0, <1>u, BoundAssumption
<1>3. /\ events' \in Seq({"DatasetChanged", "KeepAliveResponse", "Report", "Joiner"})
      /\ state' \in {"Connected", "Petitioning", "Active", "Disabled"}
      /\ dtls' \in BOOLEAN /\ prefix' \in {0, prefix}
      /\ last' \in [end : {"none", "answered"}, asked : Nat, answered : Nat]
  BY <1>0, <1>u DEF TypeOK
<1> QED
  BY <1>u, <1>1, <1>2, <1>3, EndStep

(* A petition whose request cannot be built leaves only its state behind.    *)
LEMMA NotBuiltStep ==
    ASSUME Inv, PetitionNotBuilt
    PROVE  Inv'
<1>0. TypeOK /\ LifecycleConsistent /\ ids \in Nat
  BY DEF Inv, TypeOK
<1>u. /\ UNCHANGED <<sessionId, dtls, events, prefix, requests, inbox, notified, floor>>
      /\ UNCHANGED agentVars
      /\ op' = NoOp /\ ids' = ids + 1 /\ state = "Connected" /\ state' = "Petitioning"
      /\ last' = [end |-> "none", asked |-> 0, answered |-> 0]
  BY DEF PetitionNotBuilt, Idle, MayExecute, NoEnd
<1>1. LifecycleConsistent' /\ EndInv'
  BY <1>0, <1>u DEF LifecycleConsistent, EndInv, AnswersMatch
<1>2. /\ sessionId' \in 0 .. MaxSessions /\ dtls' \in BOOLEAN /\ ids' \in Nat /\ ids <= ids'
      /\ events' \in Seq({"DatasetChanged", "KeepAliveResponse", "Report", "Joiner"})
      /\ last' \in [end : {"none", "answered"}, asked : Nat, answered : Nat]
  BY <1>0, <1>u DEF TypeOK
<1> QED
  BY <1>u, <1>1, <1>2, EndStep

-----------------------------------------------------------------------------
(* Incoming messages.                                                        *)

(* A message the exchange goes on after.                                     *)
LEMMA IgnoredStep ==
    ASSUME Inv, NEW m \in inbox, IncomingIgnored(m)
    PROVE  Inv'
<1>0. /\ ids \in Nat
      /\ events \in Seq({"DatasetChanged", "KeepAliveResponse", "Report", "Joiner"})
  BY DEF Inv, TypeOK
<1>1. inbox' \subseteq inbox
  BY DEF IncomingIgnored, Take
<1>2. /\ events' \in Seq({"DatasetChanged", "KeepAliveResponse", "Report", "Joiner"})
      /\ op' \in {op, NoOp}
  BY <1>0 DEF IncomingIgnored, Continue
<1> QED
  BY <1>0, <1>1, <1>2, QuietStep DEF IncomingIgnored

(* A message that fails the operation.                                       *)
LEMMA FailsStep ==
    ASSUME Inv, NEW m \in inbox, IncomingFails(m)
    PROVE  Inv'
<1>0. TypeOK /\ ids \in Nat
  BY DEF Inv, TypeOK
<1>w. op.stage = "wait" /\ inbox' \subseteq inbox
  BY DEF IncomingFails, Take
<1>u. /\ UNCHANGED <<sessionId, dtls, prefix, agentVars, historyVars>>
      /\ UNCHANGED <<events, requests>>
      /\ op' = NoOp /\ state' = Restore
  BY DEF IncomingFails
<1>1. ids' \in Nat /\ ids <= ids'
  <2>1. AckCost(m) \in {0, 1}
    BY DEF AckCost
  <2> QED
    BY <1>0, <2>1 DEF IncomingFails
<1>2. state' = state \/ (state = "Petitioning" /\ state' = "Connected")
  BY <1>u, <1>w, Waiting DEF Restore
<1>3. events' \in Seq({"DatasetChanged", "KeepAliveResponse", "Report", "Joiner"})
  BY <1>0, <1>u DEF TypeOK
<1> QED
  BY <1>u, <1>w, <1>1, <1>2, <1>3, QuietStep

(* A notification may drop the prefix, queues an event and is acknowledged.  *)
LEMMA NotificationStep ==
    ASSUME Inv, NEW m \in inbox, IncomingNotification(m)
    PROVE  Inv'
<1> DEFINE E == {"DatasetChanged", "KeepAliveResponse", "Report", "Joiner"}
<1>0. /\ TypeOK /\ FlightInv /\ FloorInv /\ LifecycleConsistent /\ IsFiniteSet(grants)
      /\ OperationInv /\ EndInv /\ m \in Message
  BY DEF Inv, TypeOK
<1>n. /\ ids \in Nat /\ notified \in Nat /\ version \in Nat /\ floor \in Nat
      /\ prefix \in Nat /\ m.value \in Nat /\ op.fetch \in BOOLEAN
  BY <1>0, Typed
<1>w. op.stage = "wait" /\ inbox' \subseteq inbox /\ m.value <= version
  <2>1. Unsolicited(m)
    BY DEF IncomingNotification, IsNotification, Unsolicited
  <2> QED
    BY <1>0, <2>1 DEF IncomingNotification, Take, FlightInv, MessageOK
<1>u. UNCHANGED <<sessionId, dtls, requests, agentSid, version, notes, grants, last>>
  BY DEF IncomingNotification, agentVars
<1>1. PICK new \in Surfaced(m), taken \in Replies(m) :
         /\ ids' = ids + taken
         /\ \/ Continue(events \o new) /\ UNCHANGED state
            \/ /\ m.confirmable \/ taken = 1
               /\ events' = events \o new
               /\ op' = NoOp
               /\ state' = Restore
  BY DEF IncomingNotification
<1>2. ids' \in Nat /\ ids <= ids'
  <2>1. taken \in {0, 1}
    BY DEF Replies
  <2> QED
    BY <1>n, <1>1, <2>1
<1>3. events' \in Seq(E)
  <2>1. m.kind \in {"changed", "report", "relay"}
    BY DEF IncomingNotification, IsNotification
  <2>2. new \in {<<"DatasetChanged">>, <<"Report">>, << >>, <<"Joiner">>}
    BY <2>1 DEF Surfaced
  <2>3. new \in Seq(E)
    <3>1. /\ <<"DatasetChanged">> \in Seq(E) /\ <<"Report">> \in Seq(E)
          /\ <<"Joiner">> \in Seq(E) /\ << >> \in Seq(E)
      OBVIOUS
    <3> QED
      BY <2>2, <3>1
  <2>4. events \o new \in Seq(E)
    BY <1>0, <2>3 DEF TypeOK
  <2>5. CASE events' = events \o new
    BY <2>4, <2>5
  <2>6. CASE events' = Tail(events \o new) /\ events \o new # << >>
    BY <2>4, <2>6
  <2> QED
    BY <1>1, <2>5, <2>6 DEF Continue
<1>4. /\ op' \in {op, NoOp}
      /\ state' = state \/ (op' = NoOp /\ state = "Petitioning" /\ state' = "Connected")
  BY <1>1, <1>w, Waiting DEF Continue, Restore
<1>5. prefix' = IF m.kind = "changed" THEN 0 ELSE prefix
  BY DEF IncomingNotification, PrefixAfter
<1>6. /\ notified' \in Nat /\ notified <= notified' /\ notified' <= version
      /\ floor' = IF m.kind = "changed" /\ ~op.fetch THEN notified' ELSE floor
  <2>1. /\ notified' = IF m.value > notified THEN m.value ELSE notified
        /\ floor' = IF m.kind = "changed" /\ ~op.fetch THEN notified' ELSE floor
    BY DEF IncomingNotification
  <2> QED
    BY <1>0, <1>n, <1>w, <2>1 DEF FloorInv
<1>7. FloorInv'
  BY <1>0, <1>n, <1>5, <1>6, <1>u DEF FloorInv, PrefixReflectsNotices
<1>8. TypeOK'
  <2>1. floor' \in Nat /\ floor' <= version
    BY <1>0, <1>n, <1>6 DEF FloorInv
  <2>2. prefix' \in 0 .. MaxVersion /\ floor' \in 0 .. MaxVersion /\ notified' \in 0 .. MaxVersion
    BY <1>0, <1>n, <1>5, <1>6, <2>1, BoundAssumption DEF TypeOK
  <2>3. op' \in Op /\ state' \in {"Connected", "Petitioning", "Active", "Disabled"}
    <3>1. op \in Op /\ NoOp \in Op
      BY <1>0 DEF TypeOK, Op, NoOp
    <3> QED
      BY <1>0, <1>4, <3>1 DEF TypeOK
  <2>4. requests' \subseteq Request /\ inbox' \subseteq Message
    BY <1>0, <1>u, <1>w DEF TypeOK
  <2> QED
    BY <1>0, <1>2, <1>3, <1>u, <2>2, <2>3, <2>4 DEF TypeOK
<1>9. OperationInv'
  <2>1. CASE op' = NoOp
    BY <2>1 DEF OperationInv
  <2>2. CASE op' = op /\ state' = state
    <3>1. op.id \in 1 .. ids => op.id \in 1 .. ids'
      BY <1>n, <1>2
    <3> QED
      BY <1>0, <1>5, <1>u, <2>2, <3>1 DEF OperationInv
  <2> QED
    BY <1>4, <2>1, <2>2
<1>10. FlightInv'
  <2>1. ~Pending' \/ (op' = op /\ (op.fetch => floor' = floor))
    BY <1>4, <1>6 DEF Pending, NoOp
  <2> QED
    BY <1>n, <1>2, <1>u, <1>w, <2>1, FlightFrame
<1>11. LifecycleConsistent' /\ EndInv'
  BY <1>0, <1>4, <1>5, <1>u
     DEF LifecycleConsistent, EndInv, AnswersMatch
<1> QED
  BY <1>0, <1>u, <1>7, <1>8, <1>9, <1>10, <1>11 DEF Inv

(* What every answer has in common.                                          *)
LEMMA AnswerEnds ==
    ASSUME Inv, NEW m \in inbox, NEW kind, Answered(m, kind)
    PROVE  /\ (m.id = op.id /\ Genuine(m)) \/ (m.id = 0 /\ m.result = "none")
           /\ op.kind = kind /\ op.stage = "wait"
           /\ inbox' \subseteq inbox
           /\ last' = [end |-> "answered", asked |-> op.id, answered |-> m.id]
           /\ last' \in [end : {"none", "answered"}, asked : Nat, answered : Nat]
           /\ EndInv'
           /\ AckCost(m) \in {0, 1}
<1>1. (m.id = op.id /\ Genuine(m)) \/ (m.id = 0 /\ m.result = "none")
  BY OwnAnswer DEF Answered
<1>2. op.id \in Nat
  BY Typed DEF Inv
<1>3. last' = [end |-> "answered", asked |-> op.id, answered |-> m.id]
  BY DEF Answered
<1>4. EndInv'
  BY <1>1, <1>3 DEF EndInv, AnswersMatch
<1>5. last' \in [end : {"none", "answered"}, asked : Nat, answered : Nat]
  BY <1>1, <1>2, <1>3
<1> QED
  BY <1>1, <1>3, <1>4, <1>5 DEF Answered, Take, AckCost

(* A granted petition makes the session the one granted to it.               *)
LEMMA PetitionStep ==
    ASSUME Inv, NEW m \in inbox, PetitionAnswered(m)
    PROVE  /\ Inv'
           /\ sessionId' # sessionId => [id |-> op.id, sid |-> sessionId'] \in grants
<1>0. TypeOK /\ LifecycleConsistent /\ ids \in Nat
  BY DEF Inv, TypeOK
<1>1. Answered(m, "petition")
  BY DEF PetitionAnswered
<1>2. /\ Genuine(m) \/ m.result = "none"
      /\ op.kind = "petition" /\ op.stage = "wait" /\ inbox' \subseteq inbox
      /\ last' \in [end : {"none", "answered"}, asked : Nat, answered : Nat]
      /\ EndInv' /\ AckCost(m) \in {0, 1}
  BY <1>1, AnswerEnds
<1>3. state = "Petitioning" /\ sessionId = 0
  BY <1>0, <1>2, Waiting DEF LifecycleConsistent
<1>u. /\ UNCHANGED <<dtls, events, prefix, requests, notified, floor>> /\ UNCHANGED agentVars
      /\ op' = NoOp /\ ids' = ids + AckCost(m)
  BY DEF PetitionAnswered
<1>4. \/ sessionId' = sessionId /\ state' = "Connected"
      \/ /\ sessionId' = m.value /\ state' = "Active" /\ m.value # 0
         /\ [id |-> op.id, sid |-> m.value] \in grants
  BY <1>2 DEF PetitionAnswered, Genuine
<1>5. sessionId' \in 0 .. MaxSessions /\ ids' \in Nat /\ ids <= ids'
  <2>1. \A g \in grants : g.sid \in 1 .. MaxSessions
    BY <1>0 DEF TypeOK
  <2>2. [id |-> op.id, sid |-> m.value] \in grants => m.value \in 1 .. MaxSessions
    BY <2>1
  <2>3. sessionId' \in 0 .. MaxSessions
    BY <1>0, <1>4, <2>2, BoundAssumption DEF TypeOK
  <2> QED
    BY <1>0, <1>2, <1>u, <2>3
<1>6. /\ events' \in Seq({"DatasetChanged", "KeepAliveResponse", "Report", "Joiner"})
      /\ state' \in {"Connected", "Petitioning", "Active", "Disabled"}
      /\ dtls' \in BOOLEAN /\ prefix' \in {0, prefix}
  BY <1>0, <1>4, <1>u DEF TypeOK
<1>7. LifecycleConsistent'
  BY <1>0, <1>3, <1>4, <1>u DEF LifecycleConsistent
<1>8. Inv'
  BY <1>2, <1>5, <1>6, <1>7, <1>u, EndStep
<1> QED
  BY <1>4, <1>8

(* A keep-alive keeps the session or, rejected, ends it.                     *)
LEMMA KeepAliveStep ==
    ASSUME Inv, NEW m \in inbox, KeepAliveAnswered(m)
    PROVE  Inv' /\ sessionId' \in {0, sessionId}
<1> DEFINE E == {"DatasetChanged", "KeepAliveResponse", "Report", "Joiner"}
<1>0. TypeOK /\ LifecycleConsistent /\ ids \in Nat
  BY DEF Inv, TypeOK
<1>1. Answered(m, "keepAlive")
  BY DEF KeepAliveAnswered
<1>2. /\ op.stage = "wait" /\ inbox' \subseteq inbox /\ EndInv' /\ AckCost(m) \in {0, 1}
      /\ last' \in [end : {"none", "answered"}, asked : Nat, answered : Nat]
  BY <1>1, AnswerEnds
<1>u. /\ UNCHANGED <<dtls, prefix, requests, notified, floor>> /\ UNCHANGED agentVars
      /\ op' = NoOp /\ ids' = ids + AckCost(m)
      /\ events' = IF m.result \in {"none", "error"} THEN events
                   ELSE Append(events, "KeepAliveResponse")
      /\ state' = IF m.result = "reject" THEN "Connected" ELSE state
      /\ sessionId' = IF m.result = "reject" THEN 0 ELSE sessionId
  BY DEF KeepAliveAnswered, KeepAliveSession
<1>3. sessionId' \in 0 .. MaxSessions /\ ids' \in Nat /\ ids <= ids'
  BY <1>0, <1>2, <1>u, BoundAssumption DEF TypeOK
<1>4. events' \in Seq(E)
  <2>1. events \in Seq(E) /\ Append(events, "KeepAliveResponse") \in Seq(E)
    BY <1>0 DEF TypeOK
  <2> QED
    BY <1>u, <2>1
<1>5. /\ state' \in {"Connected", "Petitioning", "Active", "Disabled"}
      /\ dtls' \in BOOLEAN /\ prefix' \in {0, prefix}
  BY <1>0, <1>u DEF TypeOK
<1>6. LifecycleConsistent'
  BY <1>0, <1>u DEF LifecycleConsistent
<1> QED
  BY <1>2, <1>3, <1>4, <1>5, <1>6, <1>u, EndStep

(* A resignation leaves the handle alone or disconnects it.                  *)
LEMMA ResignStep ==
    ASSUME Inv, NEW m \in inbox, ResignAnswered(m)
    PROVE  Inv' /\ sessionId' \in {0, sessionId}
<1>0. TypeOK /\ LifecycleConsistent /\ ids \in Nat
  BY DEF Inv, TypeOK
<1>1. Answered(m, "resign")
  BY DEF ResignAnswered
<1>2. /\ op.stage = "wait" /\ inbox' \subseteq inbox /\ EndInv' /\ AckCost(m) \in {0, 1}
      /\ last' \in [end : {"none", "answered"}, asked : Nat, answered : Nat]
  BY <1>1, AnswerEnds
<1>u. /\ UNCHANGED <<events, requests, notified, floor>> /\ UNCHANGED agentVars
      /\ op' = NoOp /\ ids' = ids + AckCost(m)
      /\ \/ UNCHANGED <<state, sessionId, dtls, prefix>>
         \/ state' = "Disabled" /\ sessionId' = 0 /\ dtls' = FALSE /\ prefix' = 0
  BY DEF ResignAnswered, Disconnected
<1>3. sessionId' \in 0 .. MaxSessions /\ ids' \in Nat /\ ids <= ids'
  BY <1>0, <1>2, <1>u, BoundAssumption DEF TypeOK
<1>4. /\ events' \in Seq({"DatasetChanged", "KeepAliveResponse", "Report", "Joiner"})
      /\ state' \in {"Connected", "Petitioning", "Active", "Disabled"}
      /\ dtls' \in BOOLEAN /\ prefix' \in {0, prefix}
  BY <1>0, <1>u DEF TypeOK
<1>5. LifecycleConsistent'
  BY <1>0, <1>u DEF LifecycleConsistent
<1> QED
  BY <1>2, <1>3, <1>4, <1>5, <1>u, EndStep

(* A plain exchange, or the fetch of the prefix with an error, just ends.    *)
LEMMA ExchangeStep ==
    ASSUME Inv, NEW m \in inbox,
           \/ ExchangeAnswered(m)
           \/ PrefixAnswered(m) /\ m.result \in {"none", "error"}
    PROVE  Inv'
<1>0. TypeOK /\ LifecycleConsistent /\ ids \in Nat
  BY DEF Inv, TypeOK
<1>1. Answered(m, op.kind)
  BY DEF ExchangeAnswered, PrefixAnswered, Answered
<1>2. /\ inbox' \subseteq inbox /\ EndInv' /\ AckCost(m) \in {0, 1}
      /\ last' \in [end : {"none", "answered"}, asked : Nat, answered : Nat]
  BY <1>1, AnswerEnds
<1>u. /\ UNCHANGED <<state, sessionId, dtls, events, prefix, requests, notified, floor>>
      /\ UNCHANGED agentVars
      /\ op' = NoOp /\ ids' = ids + AckCost(m)
  BY DEF ExchangeAnswered, PrefixAnswered
<1>3. sessionId' \in 0 .. MaxSessions /\ ids' \in Nat /\ ids <= ids'
  BY <1>0, <1>2, <1>u DEF TypeOK
<1>4. /\ events' \in Seq({"DatasetChanged", "KeepAliveResponse", "Report", "Joiner"})
      /\ state' \in {"Connected", "Petitioning", "Active", "Disabled"}
      /\ dtls' \in BOOLEAN /\ prefix' \in {0, prefix}
  BY <1>0, <1>u DEF TypeOK
<1>5. LifecycleConsistent'
  BY <1>0, <1>u DEF LifecycleConsistent
<1> QED
  BY <1>2, <1>3, <1>4, <1>5, <1>u, EndStep

(* The fetched prefix is kept and the proxied request follows.               *)
LEMMA PrefixStep ==
    ASSUME Inv, NEW m \in inbox, PrefixAnswered(m), m.result \notin {"none", "error"}
    PROVE  Inv'
<1>0. /\ TypeOK /\ FlightInv /\ FloorInv /\ LifecycleConsistent /\ IsFiniteSet(grants)
  BY DEF Inv
<1>n. /\ ids \in Nat /\ floor \in Nat /\ notified \in Nat /\ version \in Nat
      /\ m.value \in Nat /\ sessionId \in Nat
      /\ \A q \in requests : q.id \in Nat
      /\ \A x \in inbox : x.id \in Nat /\ x.value \in Nat
  BY <1>0, Typed
<1> DEFINE id == ids + AckCost(m) + 1
           q == [kind |-> op.kind, fetch |-> FALSE, id |-> id, sid |-> sessionId,
                 dst |-> m.value]
<1>u. /\ UNCHANGED <<state, sessionId, dtls, events, notified, floor>>
      /\ UNCHANGED <<agentSid, version, notes, grants>>
      /\ prefix' = m.value /\ ids' = id + 1
      /\ op' = [op EXCEPT !.fetch = FALSE, !.id = id]
      /\ requests' = requests \cup {q}
      /\ op.fetch
  BY DEF PrefixAnswered, agentVars
<1>1. Answered(m, "leader")
  BY DEF PrefixAnswered
<1>2. /\ Genuine(m) \/ m.result = "none"
      /\ op.kind = "leader" /\ op.stage = "wait" /\ inbox' \subseteq inbox
      /\ last' \in [end : {"none", "answered"}, asked : Nat, answered : Nat]
      /\ EndInv' /\ AckCost(m) \in {0, 1}
  BY <1>1, AnswerEnds
<1>3. m.value \in floor .. version
  BY <1>2, <1>u DEF Genuine
<1>4. id \in Nat /\ ids < id /\ ids' \in Nat /\ ids <= ids' /\ id \in 1 .. ids'
  BY <1>n, <1>2, <1>u
<1> HIDE DEF id
<1>o. /\ op' \in Op /\ op'.kind = "leader" /\ op'.stage = "wait" /\ op'.fetch = FALSE
      /\ op'.id = id
  <2>1. op \in Op
    BY <1>0 DEF TypeOK
  <2> QED
    BY <1>2, <1>4, <1>u, <2>1 DEF Op
<1>q. q \in Request
  BY <1>n, <1>2, <1>4 DEF Request, Operation
<1>w. dtls /\ state # "Disabled"
  BY <1>2, Waiting
<1>5. TypeOK'
  <2>1. prefix' \in 0 .. MaxVersion
    BY <1>0, <1>n, <1>3, <1>u, BoundAssumption DEF TypeOK
  <2>2. requests' \subseteq Request /\ inbox' \subseteq Message
    BY <1>0, <1>2, <1>q, <1>u DEF TypeOK
  <2> QED
    BY <1>0, <1>2, <1>4, <1>o, <1>u, <2>1, <2>2 DEF TypeOK
<1>6. OperationInv'
  BY <1>4, <1>o, <1>u, <1>w DEF OperationInv
<1>7. FlightInv'
  <2>1. ASSUME NEW x \in requests
        PROVE  RequestOK(x)'
    <3>1. x.id \in 1 .. ids /\ (x.fetch => x.kind = "leader")
      BY <1>0, <2>1 DEF FlightInv, RequestOK
    <3>2. x.id \in 1 .. ids' /\ x.id <= op'.id /\ x.id # op'.id
      BY <1>n, <1>4, <1>o, <3>1
    <3> QED
      BY <3>1, <3>2 DEF RequestOK
  <2>2. ASSUME NEW x, x = q
        PROVE  RequestOK(x)'
    <3>1. x.id = id /\ x.kind = "leader" /\ x.fetch = FALSE
      BY <1>2, <2>2
    <3>2. x.id <= op'.id /\ x.id \in 1 .. ids'
      BY <1>4, <1>o, <3>1
    <3> QED
      BY <1>o, <3>1, <3>2 DEF RequestOK
  <2>3. ASSUME NEW x \in inbox
        PROVE  MessageOK(x)'
    <3>1. CASE Unsolicited(x)
      BY <1>0, <1>u, <2>3, <3>1 DEF FlightInv, MessageOK, Unsolicited
    <3>2. CASE ~Unsolicited(x)
      <4>1. /\ x.id \in 1 .. ids
            /\ x.token = IF x.kind = "response" THEN Token(x.id) ELSE NoToken
        BY <1>0, <2>3, <3>2 DEF FlightInv, MessageOK
      <4>2. x.id \in 1 .. ids' /\ x.id <= op'.id /\ x.id # op'.id
        BY <1>n, <1>4, <1>o, <4>1
      <4> QED
        BY <3>2, <4>1, <4>2 DEF MessageOK, Unsolicited
    <3> QED
      BY <3>1, <3>2
  <2> QED
    BY <1>2, <1>u, <2>1, <2>2, <2>3 DEF FlightInv
<1>8. FloorInv'
  BY <1>0, <1>n, <1>3, <1>u DEF FloorInv, PrefixReflectsNotices
<1>9. LifecycleConsistent'
  BY <1>0, <1>u, <1>w DEF LifecycleConsistent
<1> QED
  BY <1>0, <1>2, <1>u, <1>5, <1>6, <1>7, <1>8, <1>9 DEF Inv

(* Every incoming message.                                                   *)
LEMMA IncomingStep ==
    ASSUME Inv, NEW m \in inbox, Incoming(m)
    PROVE  Inv'
BY NotificationStep, IgnoredStep, FailsStep, PetitionStep, KeepAliveStep, ResignStep,
   ExchangeStep, PrefixStep
   DEF Incoming

-----------------------------------------------------------------------------
(* The border agent and the mesh.                                            *)

(* They leave the handle alone.                                              *)
LEMMA AgentFrame ==
    ASSUME Inv, UNCHANGED <<handleVars, historyVars>>,
           agentSid' \in 0 .. MaxSessions, version' \in 1 .. MaxVersion, version <= version',
           notes' \in 0 .. MaxNotes,
           grants' \subseteq [id : Nat, sid : 1 .. MaxSessions], IsFiniteSet(grants'),
           requests' \subseteq Request, inbox' \subseteq Message, FlightInv'
    PROVE  Inv'
<1>0. /\ TypeOK /\ FloorInv /\ LifecycleConsistent /\ OperationInv /\ EndInv
      /\ notified \in Nat /\ version \in Nat
  BY Typed DEF Inv
<1>u. UNCHANGED <<state, sessionId, dtls, ids, events, prefix, op, notified, floor, last>>
  BY DEF handleVars, historyVars
<1>1. TypeOK'
  BY <1>0, <1>u DEF TypeOK
<1>2. OperationInv' /\ LifecycleConsistent' /\ EndInv'
  BY <1>0, <1>u
     DEF OperationInv, LifecycleConsistent, EndInv, AnswersMatch
<1>3. FloorInv'
  <2>1. version' \in Nat
    BY BoundAssumption
  <2>2. notified <= version'
    BY <1>0, <2>1 DEF FloorInv
  <2> QED
    BY <1>0, <1>u, <2>2 DEF FloorInv, PrefixReflectsNotices
<1> QED
  BY <1>1, <1>2, <1>3 DEF Inv

(* A petition is granted the next session.                                   *)
LEMMA GrantStep ==
    ASSUME Inv, AgentGrants
    PROVE  Inv'
<1>0. TypeOK /\ IsFiniteSet(grants)
  BY DEF Inv
<1>1. PICK q \in requests :
         /\ q.kind = "petition"
         /\ Cardinality(grants) < MaxSessions
         /\ agentSid' = Cardinality(grants) + 1
         /\ grants' = grants \cup {[id |-> q.id, sid |-> Cardinality(grants) + 1]}
         /\ Answer(q, "accept", Cardinality(grants) + 1)
  BY DEF AgentGrants
<1> DEFINE n == Cardinality(grants) + 1
<1>2. n \in Nat /\ n \in 1 .. MaxSessions
  BY <1>0, <1>1, FS_CardinalityType, BoundAssumption
<1>q. q \in Request /\ q.id \in Nat /\ RequestOK(q)
  BY <1>0, <1>1 DEF TypeOK, Request, Inv, FlightInv
<1> HIDE DEF n
<1>3. /\ grants \subseteq grants' /\ [id |-> q.id, sid |-> n] \in grants'
      /\ grants' = grants \cup {[id |-> q.id, sid |-> n]}
      /\ Answer(q, "accept", n) /\ agentSid' = n
  BY <1>1 DEF n
<1>4. IsFiniteSet(grants')
  BY <1>0, <1>3, FS_AddElement
<1>5. grants' \subseteq [id : Nat, sid : 1 .. MaxSessions]
  BY <1>0, <1>2, <1>3, <1>q DEF TypeOK
<1>6. ~q.fetch
  BY <1>1, <1>q DEF RequestOK
<1>7. FlightInv' /\ inbox' \subseteq Message /\ requests' \subseteq Request
  BY <1>1, <1>2, <1>3, <1>6, AnswerFlight
<1> QED
  BY <1>0, <1>2, <1>3, <1>4, <1>5, <1>7, AgentFrame DEF Answer, TypeOK

(* The other answers of the border agent.                                    *)
LEMMA AgentAnswers ==
    ASSUME Inv, AgentRefuses \/ AgentKeepAlive \/ AgentResign \/ AgentServes
    PROVE  Inv'
<1>0. TypeOK /\ IsFiniteSet(grants) /\ FloorInv
  BY DEF Inv
<1>n. version \in Nat /\ floor \in Nat /\ notified \in Nat
  BY <1>0, Typed
<1>1. PICK q \in requests, result \in {"accept", "reject", "pending", "error"},
           value \in {0, version} :
         /\ Answer(q, result, value)
         /\ q.kind = "petition" => value = 0
         /\ q.fetch => value = version
         /\ agentSid' \in {0, agentSid} /\ grants' = grants
  <2>f. \A q \in requests : q.fetch => q.kind = "leader"
    BY DEF Inv, FlightInv, RequestOK
  <2>1. CASE AgentRefuses
    BY <2>1, <2>f DEF AgentRefuses
  <2>2. CASE AgentKeepAlive
    BY <2>2, <2>f DEF AgentKeepAlive
  <2>3. CASE AgentResign
    BY <2>3, <2>f DEF AgentResign
  <2>4. CASE AgentServes
    <3>1. PICK q \in requests, result \in {"accept", "error"} :
             /\ q.kind \in {"query", "node", "leader"}
             /\ Answer(q, result, IF q.fetch THEN version ELSE 0)
             /\ UNCHANGED <<agentSid, grants>>
      BY <2>4 DEF AgentServes
    <3> QED
      BY <3>1
  <2> QED
    BY <2>1, <2>2, <2>3, <2>4
<1>2. value \in Nat
  BY <1>n
<1>3. q.fetch => value \in floor .. version
  BY <1>0, <1>n, <1>1 DEF FloorInv
<1>4. FlightInv' /\ inbox' \subseteq Message /\ requests' \subseteq Request
  BY <1>1, <1>2, <1>3, AnswerFlight
<1>5. agentSid' \in 0 .. MaxSessions
  BY <1>0, <1>1, BoundAssumption DEF TypeOK
<1>6. UNCHANGED <<handleVars, version, notes, historyVars>> /\ version <= version'
  BY <1>1, <1>n DEF Answer
<1> QED
  BY <1>0, <1>1, <1>4, <1>5, <1>6, AgentFrame DEF TypeOK

(* The mesh notifies of a change or of something else.                       *)
LEMMA NoteStep ==
    ASSUME Inv, MeshChange \/ MeshReport
    PROVE  Inv'
<1>0. TypeOK /\ IsFiniteSet(grants) /\ FlightInv
  BY DEF Inv
<1>n. /\ version \in Nat /\ floor \in Nat /\ notes \in Nat
      /\ \A m \in inbox : m.value \in Nat
  BY <1>0, Typed, BoundAssumption DEF TypeOK
<1>u. /\ UNCHANGED <<handleVars, requests, agentSid, grants, historyVars>>
      /\ UNCHANGED <<op, ids, floor>>
  BY DEF MeshChange, MeshReport, handleVars, historyVars
<1>1. /\ version' \in 1 .. MaxVersion /\ version <= version' /\ version' \in Nat
      /\ notes' \in 0 .. MaxNotes
  <2>1. /\ version \in 1 .. MaxVersion /\ notes \in 0 .. MaxNotes
        /\ MaxVersion \in Nat /\ MaxNotes \in Nat
    BY <1>0, BoundAssumption DEF TypeOK
  <2>2. \/ version' = version /\ notes < MaxNotes /\ notes' = notes + 1
        \/ version < MaxVersion /\ version' = version + 1 /\ notes' = notes
    BY DEF MeshChange, MeshReport
  <2> QED
    BY <1>n, <2>1, <2>2
<1>2. PICK n \in Message : /\ Unsolicited(n) /\ n.id = 0 /\ n.result = "none"
                          /\ n.value <= version' /\ inbox' = inbox \cup {n}
  <2>1. ASSUME NEW kind \in {"changed", "report", "relay", "malformed", "other"},
               NEW proxied \in BOOLEAN, NEW confirmable \in BOOLEAN, NEW token \in NoteTokens,
               NEW value \in Nat, NEW n, n = Note(kind, proxied, confirmable, token, value)
        PROVE  n \in Message /\ Unsolicited(n) /\ n.id = 0 /\ n.result = "none" /\ n.value = value
    <3>1. token \in 0 .. IdSpace
      BY BoundAssumption
    <3> QED
      BY <2>1, <3>1 DEF Note, Message, Unsolicited
  <2>2. CASE MeshChange
    <3>1. PICK proxied \in BOOLEAN, confirmable \in BOOLEAN, token \in NoteTokens :
             inbox' = inbox \cup {Note("changed", proxied, confirmable, token, version + 1)}
      BY <2>2 DEF MeshChange
    <3>2. version' = version + 1 /\ version + 1 \in Nat /\ version + 1 <= version'
      BY <1>n, <2>2 DEF MeshChange
    <3>v. PICK v \in Nat : v = version + 1
      BY <3>2
    <3> DEFINE n == Note("changed", proxied, confirmable, token, v)
    <3>3. n \in Message /\ Unsolicited(n) /\ n.id = 0 /\ n.result = "none" /\ n.value = v
      BY <2>1
    <3> HIDE DEF n
    <3>4. inbox' = inbox \cup {n} /\ n.value <= version'
      BY <3>1, <3>2, <3>3, <3>v DEF n
    <3> QED
      BY <3>3, <3>4
  <2>3. CASE MeshReport
    <3>1. PICK kind \in {"report", "relay", "malformed", "other"}, proxied \in BOOLEAN,
               confirmable \in BOOLEAN, token \in NoteTokens :
             inbox' = inbox \cup {Note(kind, proxied, confirmable, token, 0)}
      BY <2>3 DEF MeshReport
    <3> DEFINE n == Note(kind, proxied, confirmable, token, 0)
    <3>2. n \in Message /\ Unsolicited(n) /\ n.id = 0 /\ n.result = "none" /\ n.value = 0
      BY <2>1, <3>1
    <3> HIDE DEF n
    <3>3. inbox' = inbox \cup {n} /\ n.value <= version'
      BY <1>1, <3>1, <3>2 DEF n
    <3> QED
      BY <3>2, <3>3
  <2> QED
    BY <2>2, <2>3
<1>3. FlightInv'
  <2>1. \A q \in requests' : RequestOK(q)'
    BY <1>0, <1>u DEF FlightInv, RequestOK, Pending
  <2>2. MessageOK(n)'
    BY <1>2 DEF MessageOK, Unsolicited
  <2>3. ASSUME NEW m \in inbox
        PROVE  MessageOK(m)'
    <3>1. MessageOK(m) /\ m.value \in Nat
      BY <1>0, <1>n, <2>3 DEF FlightInv
    <3>2. m.value <= version => m.value <= version'
      BY <1>n, <1>1, <3>1
    <3>3. m.value \in floor .. version => m.value \in floor .. version'
      BY <1>n, <1>1, <3>1
    <3>4. Genuine(m) => Genuine(m)'
      BY <1>u, <3>3 DEF Genuine
    <3> QED
      BY <1>u, <3>1, <3>2, <3>4 DEF MessageOK, Unsolicited, Pending
  <2> QED
    BY <1>2, <2>1, <2>2, <2>3 DEF FlightInv
<1>4. inbox' \subseteq Message /\ requests' \subseteq Request
  BY <1>0, <1>2, <1>u DEF TypeOK
<1> QED
  BY <1>0, <1>1, <1>3, <1>4, <1>u, AgentFrame DEF TypeOK

(* The border agent ends the session.                                        *)
LEMMA EndsSessionStep ==
    ASSUME Inv, AgentEndsSession
    PROVE  Inv'
<1>0. TypeOK /\ IsFiniteSet(grants) /\ version \in Nat /\ ids \in Nat /\ version <= version
  BY Typed DEF Inv
<1>u. /\ UNCHANGED <<handleVars, requests, inbox, version, notes, grants, historyVars>>
      /\ UNCHANGED <<op, ids, floor>> /\ agentSid' = 0
  BY DEF AgentEndsSession, handleVars, historyVars
<1>1. FlightInv'
  BY <1>0, <1>u, FlightFrame
<1>2. agentSid' \in 0 .. MaxSessions
  BY <1>u, BoundAssumption
<1> QED
  BY <1>0, <1>u, <1>1, <1>2, AgentFrame DEF TypeOK

-----------------------------------------------------------------------------
(* The theorems.                                                             *)

(* Inv holds of a new handle.                                                *)
LEMMA InvInit == Init => Inv
<1> SUFFICES ASSUME Init PROVE Inv
  OBVIOUS
<1>1. TypeOK
  <2>1. NoOp \in Op
    BY DEF NoOp, Op
  <2>2. last \in [end : {"none", "answered"}, asked : Nat, answered : Nat]
    BY DEF Init, NoEnd
  <2>3. /\ 0 \in 0 .. MaxSessions /\ 0 \in 0 .. MaxVersion /\ 1 \in 1 .. MaxVersion
        /\ 0 \in 0 .. MaxNotes
    BY BoundAssumption
  <2>4. events \in Seq({"DatasetChanged", "KeepAliveResponse", "Report", "Joiner"})
    BY DEF Init
  <2> QED
    BY <2>1, <2>2, <2>3, <2>4 DEF Init, TypeOK
<1>2. IsFiniteSet(grants)
  BY FS_EmptySet DEF Init
<1>3. OperationInv /\ FlightInv
  BY DEF Init, OperationInv, FlightInv
<1>4. FloorInv /\ LifecycleConsistent
  BY DEF Init, FloorInv, PrefixReflectsNotices, LifecycleConsistent
<1>5. EndInv
  BY DEF Init, EndInv, AnswersMatch, NoEnd
<1> QED
  BY <1>1, <1>2, <1>3, <1>4, <1>5 DEF Inv

(* Every step keeps Inv.                                                     *)
LEMMA InvStep == Inv /\ [Next]_vars => Inv'
<1> SUFFICES ASSUME Inv, [Next]_vars PROVE Inv'
  OBVIOUS
<1>1. CASE \E kind \in Operation \ {"event"} : Begin(kind)
  BY <1>1, BeginStep
<1>2. CASE \E kind \in Operation \ {"event"} : Refused(kind)
  BY <1>2, ApplicationStep
<1>3. CASE NextEvent \/ OperationFails \/ Cancel
  BY <1>3, ApplicationStep
<1>4. CASE Connect
  BY <1>4, ConnectStep
<1>5. CASE Disconnect
  BY <1>5, DisconnectStep
<1>6. CASE \E m \in inbox : Incoming(m)
  BY <1>6, IncomingStep
<1>7. CASE AgentGrants
  BY <1>7, GrantStep
<1>8. CASE AgentRefuses \/ AgentKeepAlive \/ AgentResign \/ AgentServes
  BY <1>8, AgentAnswers
<1>9. CASE MeshChange \/ MeshReport
  BY <1>9, NoteStep
<1>10. CASE AgentEndsSession
  BY <1>10, EndsSessionStep
<1>12. CASE PetitionNotBuilt
  BY <1>12, NotBuiltStep
<1>11. CASE UNCHANGED vars
  <2>1. UNCHANGED <<sessionId, dtls, prefix, agentVars, historyVars>>
    BY <1>11 DEF vars, agentVars, historyVars
  <2>2. /\ ids' \in Nat /\ ids <= ids' /\ requests' = requests /\ inbox' = inbox
        /\ events' \in Seq({"DatasetChanged", "KeepAliveResponse", "Report", "Joiner"})
        /\ op' = op /\ state' = state
    BY <1>11 DEF vars, Inv, TypeOK
  <2> QED
    BY <2>1, <2>2, QuietStep
<1> QED
  BY <1>1, <1>2, <1>3, <1>4, <1>5, <1>6, <1>7, <1>8, <1>9, <1>10, <1>11, <1>12 DEF Next

(* The handle, the traffic and the histories keep their types.               *)
THEOREM HandleTypes == Spec => []TypeOK
<1>1. Inv => TypeOK
  BY DEF Inv
<1> QED
  BY <1>1, InvInit, InvStep, PTL DEF Spec

(* handle_incoming: an exchange never returns the answer to another request, *)
(* for any identity space, any traffic and any tokens that other senders     *)
(* choose, as long as no response outlives the reuse of its identity.        *)
THEOREM NeverAnothersAnswer == Spec => []AnswersMatch
<1>1. Inv => AnswersMatch
  BY DEF Inv, EndInv
<1> QED
  BY <1>1, InvInit, InvStep, PTL DEF Spec

(* What changes the session or stores a prefix is the response to the        *)
(* request in progress.                                                      *)
LEMMA DecidesStep ==
    ASSUME Inv, [Next]_vars, ~Idle, sessionId' # sessionId \/ prefix' \notin {0, prefix}
    PROVE  last' = [end |-> "answered", asked |-> op.id, answered |-> op.id]
<1>1. \E m \in inbox : Incoming(m)
  BY DEF Next, vars, Begin, PetitionNotBuilt, Refused, NextEvent, Connect, OperationFails,
         Cancel, Disconnect, AgentGrants, AgentRefuses, AgentKeepAlive, AgentResign,
         AgentServes, Answer, MeshChange, MeshReport, AgentEndsSession, handleVars
<1>2. PICK m \in inbox : Incoming(m)
  BY <1>1
<1>3. ~IncomingNotification(m) /\ ~IncomingIgnored(m) /\ ~IncomingFails(m)
  BY DEF IncomingNotification, PrefixAfter, IncomingIgnored, IncomingFails
<1>4. PICK kind : Answered(m, kind)
  BY <1>2, <1>3
     DEF Incoming, PetitionAnswered, KeepAliveAnswered, ResignAnswered, PrefixAnswered,
         ExchangeAnswered
<1>5. /\ m.id = op.id \/ m.result = "none"
      /\ last' = [end |-> "answered", asked |-> op.id, answered |-> m.id]
  BY <1>4, AnswerEnds
<1>6. m.result # "none"
  BY <1>2, <1>3
     DEF Incoming, PetitionAnswered, KeepAliveAnswered, KeepAliveSession, ResignAnswered,
         PrefixAnswered, ExchangeAnswered
<1> QED
  BY <1>5, <1>6

(* petition, keep_alive, resign and require_mesh_local_prefix: a session is  *)
(* entered or left and a prefix learnt only on the response to the request   *)
(* the operation waits for, whatever else arrives, and with whatever token.  *)
THEOREM OwnAnswerAlone == Spec => OwnAnswerDecides
<1>1. Inv /\ [Next]_vars =>
        [~Idle /\ (sessionId' # sessionId \/ prefix' \notin {0, prefix}) =>
           last' = [end |-> "answered", asked |-> op.id, answered |-> op.id]]_vars
  BY DecidesStep
<1> QED
  BY <1>1, InvInit, InvStep, PTL DEF Spec, OwnAnswerDecides

(* State, session ID, DTLS session and cached prefix stay consistent through *)
(* petition, keep-alive, resign, disconnect, failures and dropped futures.   *)
THEOREM LifecycleHolds == Spec => []LifecycleConsistent
<1>1. Inv => LifecycleConsistent
  BY DEF Inv
<1> QED
  BY <1>1, InvInit, InvStep, PTL DEF Spec

(* require_mesh_local_prefix: the cached prefix reflects the dataset changes *)
(* processed before its fetch was sent and after its fetch was over.         *)
THEOREM PrefixFollowsNotices == Spec => []PrefixReflectsNotices
<1>1. Inv => PrefixReflectsNotices
  BY DEF Inv, FloorInv
<1> QED
  BY <1>1, InvInit, InvStep, PTL DEF Spec

(* Only a granted petition brings a new session ID.                          *)
LEMMA AdoptStep ==
    ASSUME Inv, [Next]_vars, sessionId' \notin {0, sessionId}
    PROVE  [id |-> op.id, sid |-> sessionId'] \in grants
<1>1. \E m \in inbox : Incoming(m)
  BY DEF Next, vars, Begin, PetitionNotBuilt, Refused, NextEvent, Connect, OperationFails, Cancel, Disconnect,
         Disconnected, AgentGrants, AgentRefuses, AgentKeepAlive, AgentResign, AgentServes,
         Answer, MeshChange, MeshReport, AgentEndsSession, handleVars
<1>2. PICK m \in inbox : Incoming(m)
  BY <1>1
<1>3. CASE PetitionAnswered(m)
  BY <1>3, PetitionStep
<1>4. CASE KeepAliveAnswered(m) \/ ResignAnswered(m)
  BY <1>4, KeepAliveStep, ResignStep
<1>5. CASE IncomingNotification(m) \/ IncomingIgnored(m) \/ IncomingFails(m)
           \/ PrefixAnswered(m) \/ ExchangeAnswered(m)
  BY <1>5
     DEF IncomingNotification, IncomingIgnored, IncomingFails, PrefixAnswered,
         ExchangeAnswered
<1> QED
  BY <1>2, <1>3, <1>4, <1>5 DEF Incoming

(* petition: the session ID adopted is the one granted to this very          *)
(* petition, never the one of a late grant to an earlier petition.           *)
THEOREM SessionIsGranted == Spec => AdoptsOwnGrant
<1>1. Inv /\ [Next]_vars =>
        [sessionId' \notin {0, sessionId} =>
           [id |-> op.id, sid |-> sessionId'] \in grants]_vars
  BY AdoptStep
<1> QED
  BY <1>1, InvInit, InvStep, PTL DEF Spec, AdoptsOwnGrant

(* A disconnected handle has no operation in progress and starts none.       *)
LEMMA FinalStep ==
    ASSUME Inv, [Next]_vars, state = "Disabled"
    PROVE  state' = "Disabled" /\ requests' \subseteq requests
<1>1. op = NoOp /\ op.stage = "none"
  BY DEF Inv, OperationInv, NoOp
<1>2. ~ \E m \in inbox : Incoming(m)
  BY <1>1
     DEF Incoming, IncomingNotification, IncomingIgnored, IncomingFails, PetitionAnswered,
         KeepAliveAnswered, ResignAnswered, PrefixAnswered, ExchangeAnswered, Answered, Take
<1>3. ~Connect /\ ~OperationFails /\ ~Cancel
  BY <1>1 DEF Connect, OperationFails, Cancel, Idle
<1>4. ~PetitionNotBuilt /\ \A kind \in Operation : ~Begin(kind)
  BY DEF Begin, PetitionNotBuilt, MayExecute
<1> QED
  BY <1>2, <1>3, <1>4
     DEF Next, vars, Refused, NextEvent, Disconnect, Disconnected, AgentGrants, AgentRefuses,
         AgentKeepAlive, AgentResign, AgentServes, Answer, MeshChange, MeshReport,
         AgentEndsSession, handleVars

(* disconnect: no later call, answer or notification brings a disconnected   *)
(* handle back or makes it send.                                             *)
THEOREM DisconnectIsFinal == Spec => DisconnectedIsFinal
<1>1. Inv /\ [Next]_vars =>
        [state = "Disabled" => state' = "Disabled" /\ requests' \subseteq requests]_vars
  BY FinalStep
<1> QED
  BY <1>1, InvInit, InvStep, PTL DEF Spec, DisconnectedIsFinal

=============================================================================
