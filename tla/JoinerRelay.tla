----------------------------- MODULE JoinerRelay -----------------------------
(***************************************************************************)
(* The commissioner's relay of joiners (commissioner/client/relay.rs): the *)
(* table of joiner sessions, the application's JoinerHandler, and the      *)
(* joiners at the other end of an unreliable relay.                        *)
(*                                                                         *)
(* handle_relay_rx takes &mut self and awaits only to send, so one RLY_RX  *)
(* is atomic with respect to every other operation.  The model takes its   *)
(* records one at a time while `cur' names the joiner being served, and    *)
(* no other action of the commissioner is enabled until the datagram is    *)
(* finished or the session has failed.                                     *)
(*                                                                         *)
(* Everything ever sent stays in `rx' and `tx' and may be taken any number *)
(* of times in any order, or never: the relay loses, duplicates, delays    *)
(* and reorders.  A send that fails or is cancelled is a loss.             *)
(***************************************************************************)
EXTENDS JoinerSession, Sequences, FiniteSets

CONSTANTS
    Joiner,        \* the joiner IDs
    NoJoiner,      \* no RLY_RX is being handled
    NoHandler,     \* joiner_handler: None
    MaxSessions,   \* bound: sessions the commissioner creates
    MaxAttempts,   \* bound: handshakes a joiner starts
    MaxDatagrams,  \* bound: distinct datagrams a joiner sends
    MaxVerifies,   \* bound: HelloVerifyRequests a session has sent, and
    MaxSealed      \* epoch-1 records it has sealed, when it is given another
                   \* datagram

ASSUME JoinerAssumption == NoJoiner \notin Joiner
ASSUME HandlerAssumption == NoHandler \notin [Joiner -> Pskd \cup {NoPskd}]

VARIABLES
    handler,   \* joiner_handler: the PSKd it gives each joiner, or NoHandler
    sessions,  \* joiner_sessions
    events,    \* every joiner event queued for the application, in order
    cur,       \* the joiner whose RLY_RX is being handled
    rest,      \* the records of that datagram still to be handled
    pendTx,    \* the transmissions the datagram has produced so far
    pendEv,    \* the events the datagram has produced so far
    rx,        \* per joiner, the datagrams it has sent
    tx,        \* per joiner, the RLY_TX messages sent to it
    dev,       \* the joiners
    devPskd,   \* the PSKd each joiner was manufactured with
    born,      \* history: for each sid, its joiner, PSKd and handler calls
    sealed     \* history: every record a session has built

commVars == <<handler, sessions, events, cur, rest, pendTx, pendEv, born, sealed>>
devVars == <<dev, devPskd>>
vars == <<handler, sessions, events, cur, rest, pendTx, pendEv, rx, tx, dev,
          devPskd, born, sealed>>

Handlers == [Joiner -> Pskd \cup {NoPskd}]

Transmission == [kek : BOOLEAN, datagram : SUBSET ServerRecord]

Event == [kind : {"Connected", "Finalized"}, sid : Nat, accepted : BOOLEAN]

RelayTx == [kek : Key, datagram : SUBSET ServerRecord]

Device ==
    [st     : {"off", "hello", "flight", "connected", "done"},
     aid    : Nat,
     sid    : Nat,
     result : {"none", "accept", "reject"}]

Birth == [joiner : Joiner, pskd : Pskd, calls : Nat]

TypeOK ==
    /\ handler \in Handlers \cup {NoHandler}
    /\ sessions \in [Joiner -> Session]
    /\ events \in Seq(Event)
    /\ cur \in Joiner \cup {NoJoiner}
    /\ rest \in Seq(ClientRecord)
    /\ pendTx \subseteq Transmission
    /\ pendEv \in Seq(Event)
    /\ rx \in [Joiner -> SUBSET Seq(ClientRecord)]
    /\ tx \in [Joiner -> SUBSET RelayTx]
    /\ dev \in [Joiner -> Device]
    /\ devPskd \in [Joiner -> Pskd]
    /\ born \in Seq(Birth)
    /\ sealed \subseteq ServerRecord

Init ==
    /\ handler = NoHandler
    /\ sessions = [j \in Joiner |-> NoSession]
    /\ events = << >>
    /\ cur = NoJoiner
    /\ rest = << >>
    /\ pendTx = {}
    /\ pendEv = << >>
    /\ rx = [j \in Joiner |-> {}]
    /\ tx = [j \in Joiner |-> {}]
    /\ dev = [j \in Joiner |->
                [st |-> "off", aid |-> 0, sid |-> 0, result |-> "none"]]
    /\ devPskd \in [Joiner -> Pskd]
    /\ born = << >>
    /\ sealed = {}

-----------------------------------------------------------------------------
(* The joiner (external).  It starts attempts, answers what it is sent, and  *)
(* goes away when it likes.  What it does while a RLY_RX is being handled    *)
(* commutes with the handling, so its actions are taken between them.        *)

Idle == cur = NoJoiner

Send(j, datagrams) ==
    /\ Cardinality(rx[j] \cup datagrams) <= MaxDatagrams
    /\ rx' = [rx EXCEPT ![j] = @ \cup datagrams]

DevKey(j) == [aid |-> dev[j].aid, sid |-> dev[j].sid, pskd |-> devPskd[j]]

ClientMsg(kind, aid, cookie, key, uri, mid) ==
    [kind |-> kind, aid |-> aid, cookie |-> cookie, key |-> key, uri |-> uri,
     mid |-> mid]

Hello(aid, cookie) == ClientMsg("ClientHello", aid, cookie, NoKey, "none", 0)
Kex(key) == ClientMsg("ClientKeyExchange", 0, 0, key, "none", 0)
Ccs == ClientMsg("ChangeCipherSpec", 0, 0, NoKey, "none", 0)
Fin(key) == ClientMsg("Finished", 0, 0, key, "none", 0)
App(key, uri, mid) == ClientMsg("ApplicationData", 0, 0, key, uri, mid)
Alert == ClientMsg("Alert", 0, 0, NoKey, "none", 0)
Garbage == ClientMsg("Malformed", 0, 0, NoKey, "none", 0)

(* The records of every datagram sent to joiner j.                           *)
Heard(j) == UNION {m.datagram : m \in tx[j]}

DeviceStart(j) ==
    /\ Idle
    /\ dev[j].aid < MaxAttempts
    /\ dev' = [dev EXCEPT ![j] = [st |-> "hello", aid |-> dev[j].aid + 1,
                                  sid |-> 0, result |-> "none"]]
    /\ Send(j, {<<Hello(dev[j].aid + 1, 0)>>})
    /\ UNCHANGED <<commVars, tx, devPskd>>

DeviceCookie(j) ==
    /\ Idle
    /\ dev[j].st = "hello"
    /\ \E r \in Heard(j) :
          /\ r.kind = "HelloVerifyRequest"
          /\ r.aid = dev[j].aid
          /\ <<Hello(dev[j].aid, r.sid)>> \notin rx[j]
          /\ Send(j, {<<Hello(dev[j].aid, r.sid)>>})
    /\ UNCHANGED <<commVars, tx, devVars>>

(* The joiner's flight goes out as one datagram or record by record.         *)
DeviceFlight(j) ==
    /\ Idle
    /\ dev[j].st = "hello"
    /\ \E r \in Heard(j) :
          /\ r.kind = "ServerHelloDone"
          /\ r.aid = dev[j].aid
          /\ dev' = [dev EXCEPT ![j].st = "flight", ![j].sid = r.sid]
          /\ LET key == [aid |-> dev[j].aid, sid |-> r.sid, pskd |-> devPskd[j]]
             IN  \/ Send(j, {<<Kex(key), Ccs, Fin(key)>>})
                 \/ Send(j, {<<Kex(key)>>, <<Ccs>>, <<Fin(key)>>})
    /\ UNCHANGED <<commVars, tx, devPskd>>

DeviceConnected(j) ==
    /\ Idle
    /\ dev[j].st = "flight"
    /\ \E r \in Heard(j) : r.kind = "Finished" /\ r.key = DevKey(j)
    /\ dev' = [dev EXCEPT ![j].st = "connected"]
    /\ UNCHANGED <<commVars, rx, tx, devPskd>>

(* A JOIN_FIN.req, another under a new message ID, some other request, or a  *)
(* JOIN_FIN.req with a closing alert in the same datagram.                   *)
DeviceRequest(j) ==
    /\ Idle
    /\ dev[j].st = "connected"
    /\ \E d \in {<<App(DevKey(j), "JOIN_FIN", 1)>>, <<App(DevKey(j), "JOIN_FIN", 2)>>,
                 <<App(DevKey(j), "other", 3)>>,
                 <<App(DevKey(j), "JOIN_FIN", 1), Alert>>} :
          d \notin rx[j] /\ Send(j, {d})
    /\ UNCHANGED <<commVars, tx, devVars>>

DeviceFinalized(j) ==
    /\ Idle
    /\ dev[j].st = "connected"
    /\ \E r \in Heard(j) :
          /\ r.kind = "Response"
          /\ r.key = DevKey(j)
          /\ dev' = [dev EXCEPT ![j].st = "done", ![j].result = r.state]
    /\ UNCHANGED <<commVars, rx, tx, devPskd>>

(* The joiner gives up with an alert, or something on its link garbles a     *)
(* datagram.                                                                 *)
DeviceFails(j) ==
    /\ Idle
    /\ dev[j].st \in {"hello", "flight", "connected"}
    /\ dev' = [dev EXCEPT ![j].st = "off"]
    /\ \E r \in {Alert, Garbage} : Send(j, {<<r>>})
    /\ UNCHANGED <<commVars, tx, devPskd>>

-----------------------------------------------------------------------------
(* The application's calls and the clock.                                    *)

SetJoinerHandler ==
    /\ Idle
    /\ \E h \in Handlers : h # handler /\ handler' = h
    /\ UNCHANGED <<sessions, events, cur, rest, pendTx, pendEv, rx, tx, devVars,
                   born, sealed>>

ClearJoinerHandler ==
    /\ Idle
    /\ handler # NoHandler
    /\ handler' = NoHandler
    /\ sessions' = [j \in Joiner |-> NoSession]
    /\ UNCHANGED <<events, cur, rest, pendTx, pendEv, rx, tx, devVars, born, sealed>>

(* disconnect drops the sessions and keeps the handler.                      *)
Disconnect ==
    /\ Idle
    /\ sessions' = [j \in Joiner |-> NoSession]
    /\ UNCHANGED <<handler, events, cur, rest, pendTx, pendEv, rx, tx, devVars,
                   born, sealed>>

Countdown(s) == [s EXCEPT !.left = IF @ = 0 THEN 0 ELSE @ - 1]

Tick ==
    /\ Idle
    /\ sessions' = [j \in Joiner |-> Countdown(sessions[j])]
    /\ UNCHANGED <<handler, events, cur, rest, pendTx, pendEv, rx, tx, devVars,
                   born, sealed>>

-----------------------------------------------------------------------------
(* handle_relay_rx.                                                          *)

(* Fault: expired sessions stay.                                             *)
SweepNothing(ss) == ss

Sweep(ss) == [j \in Joiner |-> IF Expired(ss[j]) THEN NoSession ELSE ss[j]]

(* No session and the handler does not enable the joiner.                    *)
RelayRxIgnored(j) ==
    /\ Idle
    /\ handler # NoHandler
    /\ rx[j] # {}
    /\ Sweep(sessions)[j] = NoSession
    /\ handler[j] = NoPskd
    /\ sessions' = Sweep(sessions)
    /\ UNCHANGED <<handler, events, cur, rest, pendTx, pendEv, rx, tx, devVars,
                   born, sealed>>

RelayRxNewSession(j) ==
    /\ Idle
    /\ handler # NoHandler
    /\ Sweep(sessions)[j] = NoSession
    /\ handler[j] # NoPskd
    /\ Len(born) < MaxSessions
    /\ \E d \in rx[j] :
          /\ cur' = j
          /\ rest' = d
    /\ sessions' = [Sweep(sessions) EXCEPT ![j] = NewSession(Len(born) + 1, handler[j])]
    /\ born' = Append(born, [joiner |-> j, pskd |-> handler[j], calls |-> 0])
    /\ UNCHANGED <<handler, events, pendTx, pendEv, rx, tx, devVars, sealed>>

RelayRx(j) ==
    /\ Idle
    /\ handler # NoHandler
    /\ Sweep(sessions)[j] # NoSession
    /\ sessions[j].phase = "AwaitingClientHello" => sessions[j].e0 <= MaxVerifies
    /\ sessions[j].e1 <= MaxSealed
    /\ \E d \in rx[j] :
          /\ cur' = j
          /\ rest' = d
    /\ sessions' = Sweep(sessions)
    /\ UNCHANGED <<handler, events, pendTx, pendEv, rx, tx, devVars, born, sealed>>

(* Fault: one joiner's failure drops every session.                          *)
RemoveAll(ss, j) == [k \in Joiner |-> NoSession]

Remove(ss, j) == [ss EXCEPT ![j] = NoSession]

(* The handler was asked: the session had no decision and now has one.       *)
Asks(s, out) == out.s.decision # s.decision

(* The bookkeeping of receive's loop around one record's outcome.            *)
Outcome(out) ==
    /\ sessions' = IF out.ok THEN [sessions EXCEPT ![cur] = out.s]
                             ELSE Remove(sessions, cur)
    /\ cur' = IF out.ok THEN cur ELSE NoJoiner
    /\ rest' = IF out.ok THEN Tail(rest) ELSE << >>
    /\ pendTx' = IF ~out.ok THEN {}
                 ELSE IF out.datagram = {} THEN pendTx
                 ELSE pendTx \cup {[kek |-> out.kek, datagram |-> out.datagram]}
    /\ pendEv' = IF ~out.ok THEN << >>
                 ELSE IF out.event = "none" THEN pendEv
                 ELSE Append(pendEv, [kind |-> out.event, sid |-> out.s.sid,
                                      accepted |-> out.s.decision = "accept"])
    /\ sealed' = sealed \cup out.datagram
    /\ born' = IF Asks(sessions[cur], out)
               THEN [born EXCEPT ![sessions[cur].sid].calls = @ + 1]
               ELSE born
    /\ UNCHANGED <<handler, events, rx, tx, devVars>>

Next1(kinds) ==
    /\ ~Idle
    /\ rest # << >>
    /\ Head(rest).kind \in kinds

PlaintextHandshake ==
    /\ Next1({"ClientHello", "ClientKeyExchange"})
    /\ Outcome(HandlePlaintextHandshake(sessions[cur], Head(rest)))

ChangeCipherSpec ==
    /\ Next1({"ChangeCipherSpec"})
    /\ Outcome(HandleChangeCipherSpec(sessions[cur], Head(rest)))

EncryptedHandshake ==
    /\ Next1({"Finished"})
    /\ Outcome(HandleEncryptedHandshake(sessions[cur], Head(rest)))

ApplicationData ==
    /\ Next1({"ApplicationData"})
    /\ \E answer \in {"accept", "reject"} :
          Outcome(HandleApplicationData(sessions[cur], Head(rest), answer))

AlertOrMalformed ==
    /\ Next1({"Alert", "Malformed"})
    /\ Outcome(Err(sessions[cur]))

(* The datagram is done: queue its events, derive the KEK of the accepting   *)
(* responses and send.  Were there no key, the session would be dropped.     *)
RelayTxAll ==
    /\ ~Idle
    /\ rest = << >>
    /\ events' = events \o pendEv
    /\ LET key == sessions[cur].key
           failed == key = NoKey /\ \E t \in pendTx : t.kek
       IN  /\ tx' = IF failed THEN tx
                    ELSE [tx EXCEPT ![cur] = @ \cup
                            {[kek |-> IF t.kek THEN key ELSE NoKey,
                              datagram |-> t.datagram] : t \in pendTx}]
           /\ sessions' = IF failed THEN Remove(sessions, cur) ELSE sessions
    /\ cur' = NoJoiner
    /\ pendTx' = {}
    /\ pendEv' = << >>
    /\ UNCHANGED <<handler, rest, rx, devVars, born, sealed>>

Next ==
    \/ \E j \in Joiner :
          \/ DeviceStart(j) \/ DeviceCookie(j) \/ DeviceFlight(j)
          \/ DeviceConnected(j) \/ DeviceRequest(j) \/ DeviceFinalized(j)
          \/ DeviceFails(j)
          \/ RelayRxIgnored(j) \/ RelayRxNewSession(j) \/ RelayRx(j)
    \/ SetJoinerHandler \/ ClearJoinerHandler \/ Disconnect \/ Tick
    \/ PlaintextHandshake \/ ChangeCipherSpec \/ EncryptedHandshake
    \/ ApplicationData \/ AlertOrMalformed \/ RelayTxAll

Spec == Init /\ [][Next]_vars

-----------------------------------------------------------------------------
(* Properties.                                                               *)

(* No record number of an epoch is used for two different records: under one *)
(* key the number is the AES-CCM nonce.  Retransmitted hellos (repeated      *)
(* flight) and retransmitted JOIN_FIN.req (response sealed anew) both lean   *)
(* on epoch0_sequence and epoch1_sequence for it.                            *)
RecordNumbersUnique ==
    \A a, b \in sealed :
        a.sid = b.sid /\ a.epoch = b.epoch /\ a.seq = b.seq => a = b

(* The Joiner Router KEK accompanies a RLY_TX only when the joiner it goes   *)
(* to has proved, in a Finished of its own, the PSKd the handler gave for it *)
(* when the session was created, and the handler was asked once and said     *)
(* yes; whatever happens to the handler, the table or the clock meanwhile.   *)
EntrustedJoinerIsAuthentic ==
    \A j \in Joiner : \A m \in tx[j] : m.kek # NoKey =>
        /\ m.kek.sid \in DOMAIN born
        /\ born[m.kek.sid] = [joiner |-> j, pskd |-> devPskd[j], calls |-> 1]
        /\ m.kek.pskd = devPskd[j]
        /\ \E d \in rx[j] : \E i \in DOMAIN d : d[i] = Fin(m.kek)
        /\ \E r \in m.datagram : r.kind = "Response" /\ r.state = "accept"

(* However often JOIN_FIN.req is repeated, a session answers with one        *)
(* decision, from one call of the handler, and the KEK goes with exactly     *)
(* the accepting answers.                                                    *)
OneDecisionPerSession ==
    /\ \A s \in DOMAIN born : born[s].calls <= 1
    /\ \A j \in Joiner : \A m, n \in tx[j] : \A r \in m.datagram, q \in n.datagram :
          r.kind = "Response" /\ q.kind = "Response" /\ r.sid = q.sid =>
              /\ r.state = q.state
              /\ m.kek # NoKey <=> r.state = "accept"

(* What the application has been told of session sid.                        *)
Told(kind, sid, accepted) ==
    \E i \in DOMAIN events :
        events[i] = [kind |-> kind, sid |-> sid, accepted |-> accepted]

(* A joiner and the application never hold different views of a session: a   *)
(* joiner that completed the handshake was reported connected, one that was  *)
(* answered was reported finalized with that answer, and reports of a        *)
(* session come once and in order.                                           *)
JoinerAndApplicationAgree ==
    /\ \A j \in Joiner :
          /\ dev[j].st \in {"connected", "done"} => Told("Connected", dev[j].sid, FALSE)
          /\ dev[j].st = "done" =>
                Told("Finalized", dev[j].sid, dev[j].result = "accept")
    /\ \A i, k \in DOMAIN events : i < k /\ events[i].sid = events[k].sid =>
          events[i].kind = "Connected" /\ events[k].kind = "Finalized"
    /\ \A k \in DOMAIN events : events[k].kind = "Finalized" =>
          \E i \in 1 .. k : events[i].kind = "Connected" /\ events[i].sid = events[k].sid

(* Between two RLY_RX messages, a decision the handler has made is either    *)
(* reported to the application or lost together with its session (a later    *)
(* record of the same datagram failed): none is kept and repeated to the     *)
(* joiner unreported.                                                        *)
DecisionSurfaced ==
    Idle => \A j \in Joiner : sessions[j].decision # "none" =>
        Told("Finalized", sessions[j].sid, sessions[j].decision = "accept")

(* No session past its deadline is given a datagram: a joiner that returns   *)
(* later is served by a session made for the PSKd in force then.             *)
ServedSessionIsFresh == ~Idle => ~Expired(sessions[cur])

(* Handling one joiner's records, failure included, leaves the sessions of   *)
(* the others and what was relayed to them alone.                            *)
FailureIsJoinerLocal ==
    [][~Idle => \A j \in Joiner \ {cur} :
            sessions'[j] = sessions[j] /\ tx'[j] = tx[j]]_vars

=============================================================================
