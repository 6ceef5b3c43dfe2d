----------------------------- MODULE Commissioner -----------------------------
(***************************************************************************)
(* The commissioner handle (commissioner/client/mod.rs and transport.rs):  *)
(* its lifecycle, the request/response exchange over the DTLS session, the *)
(* UDP proxy with its cached mesh-local prefix, and the event queue; with  *)
(* the border agent and the mesh behind it.                                *)
(*                                                                         *)
(* Every operation takes &mut self, so one is in progress at a time (`op') *)
(* and it interleaves only with the border agent, the mesh and the clock.  *)
(* A future can be dropped at any await.  Relayed joiner traffic is        *)
(* JoinerRelay; here it matters only for the request identities it takes   *)
(* while an exchange waits.                                                *)
(*                                                                         *)
(* The DTLS session delivers a record at most once, in any order, or never *)
(* (RecordChannel): a message in flight is taken out of `inbox' when it is *)
(* delivered.                                                              *)
(***************************************************************************)
EXTENDS Naturals, Sequences, FiniteSets

CONSTANTS
    IdSpace,      \* request identities before next_message_id wraps (2^16)
    MaxIds,       \* bound: identities the application's requests take
    MaxSessions,  \* bound: session IDs the border agent grants
    MaxVersion,   \* bound: versions of the active dataset
    MaxNotes,     \* bound: unsolicited messages other than dataset changes
    NoteTokens,   \* the tokens that the senders of unsolicited messages choose
    MaxFlight     \* bound: requests and messages in flight when one more is sent

ASSUME BoundAssumption ==
    /\ IdSpace \in Nat \ {0}
    /\ MaxIds \in Nat /\ MaxSessions \in Nat /\ MaxVersion \in Nat \ {0}
    /\ MaxNotes \in Nat /\ MaxFlight \in Nat
    /\ NoteTokens \subseteq 0 .. IdSpace

VARIABLES
    state,      \* state
    sessionId,  \* session_id (0: None)
    dtls,       \* dtls_session.is_some()
    ids,        \* identities allocated; next_message_id is ids % IdSpace
    events,     \* events
    prefix,     \* mesh_local_prefix: the dataset version it is from (0: None)
    op,         \* the operation in progress
    requests,   \* requests on their way to the border agent
    inbox,      \* messages on their way to the commissioner
    agentSid,   \* the commissioner session the border agent holds (0: none)
    version,    \* the current version of the active dataset
    notes,      \* unsolicited messages sent so far, dataset changes aside
    grants,     \* history: the session granted to each accepted petition
    notified,   \* history: the newest dataset change processed
    floor,      \* history: the newest change the cached prefix must reflect
    last        \* history: what the last exchange asked, and which answer it returned

handleVars == <<state, sessionId, dtls, ids, events, prefix, op>>
agentVars == <<agentSid, version, notes, grants>>
historyVars == <<notified, floor, last>>
vars == <<state, sessionId, dtls, ids, events, prefix, op, requests, inbox,
          agentSid, version, notes, grants, notified, floor, last>>

(* What the application can ask for.  "query" is any direct exchange that    *)
(* leaves the handle alone (dataset gets and sets), "leader" one proxied to  *)
(* an anycast locator, "node" one proxied to a given address, "multicast" a  *)
(* command proxied to a multicast address, "notify" a direct message without *)
(* an answer (RLY_TX), "event" next_event.                                   *)
Operation == {"petition", "keepAlive", "resign", "query", "leader", "node", "multicast",
              "notify", "event"}

ViaProxy(kind) == kind \in {"leader", "node", "multicast"}

(* execute_proxied_command and execute_no_response.                          *)
AwaitsAnswer(kind) == kind \notin {"multicast", "notify"}

(* An operation in progress.  `fetch': the exchange is the dataset get that  *)
(* leads to the prefix; `id': the request's identity.                        *)
Op == [kind : Operation \cup {"none"},
       stage : {"none", "connect", "wait"},
       fetch : BOOLEAN,
       id : Nat]

NoOp == [kind |-> "none", stage |-> "none", fetch |-> FALSE, id |-> 0]

Request == [kind : Operation, fetch : BOOLEAN, id : Nat, sid : Nat, dst : Nat]

(* An empty acknowledgement, and any message whose sender chose none, has no *)
(* token.                                                                    *)
NoToken == IdSpace

(* `id' is the request that a response or empty ACK answers, 0 for a message *)
(* nobody asked for.  "malformed" is a notification that does not parse,     *)
(* "other" a message the commissioner has no use for: an unknown resource, a *)
(* reset, a ping and, through the proxy, what came to another port or does   *)
(* not decode.                                                               *)
Message ==
    [kind : {"response", "ack", "changed", "report", "relay", "malformed", "other"},
     proxied : BOOLEAN, confirmable : BOOLEAN, id : Nat, token : 0 .. IdSpace,
     result : {"none", "accept", "reject", "pending", "error"}, value : Nat]

NoEnd == [end |-> "none", asked |-> 0, answered |-> 0]

TypeOK ==
    /\ state \in {"Connected", "Petitioning", "Active", "Disabled"}
    /\ sessionId \in 0 .. MaxSessions
    /\ dtls \in BOOLEAN
    /\ ids \in Nat
    /\ events \in Seq({"DatasetChanged", "KeepAliveResponse", "Report", "Joiner"})
    /\ prefix \in 0 .. MaxVersion
    /\ op \in Op
    /\ requests \subseteq Request
    /\ inbox \subseteq Message
    /\ agentSid \in 0 .. MaxSessions
    /\ version \in 1 .. MaxVersion
    /\ notes \in 0 .. MaxNotes
    /\ grants \subseteq [id : Nat, sid : 1 .. MaxSessions]
    /\ notified \in 0 .. MaxVersion
    /\ floor \in 0 .. MaxVersion
    /\ last \in [end : {"none", "answered"}, asked : Nat, answered : Nat]

Init ==
    /\ state = "Connected"
    /\ sessionId = 0
    /\ dtls = FALSE
    /\ ids = 0
    /\ events = << >>
    /\ prefix = 0
    /\ op = NoOp
    /\ requests = {}
    /\ inbox = {}
    /\ agentSid = 0
    /\ version = 1
    /\ notes = 0
    /\ grants = {}
    /\ notified = 0
    /\ floor = 0
    /\ last = NoEnd

Idle == op = NoOp

InFlight == Cardinality(requests) + Cardinality(inbox)

-----------------------------------------------------------------------------
(* Fault: only one byte of the identity goes into the token.                 *)
TokenShort(id) == id % 2

(* next_request_identity: message ID and token are the same 16 bits.         *)
Token(id) == id % IdSpace

(* Fault: a disconnected handle is not refused.                              *)
MayExecuteAlways(kind) ==
    /\ kind \in {"keepAlive", "resign", "node", "multicast"} => sessionId # 0
    /\ kind = "petition" => state = "Connected"

(* The guards of the operations and of execute: not disconnected, a session  *)
(* where one is required, and petition only from Connected.                  *)
MayExecute(kind) ==
    /\ state # "Disabled"
    /\ kind \in {"keepAlive", "resign", "node", "multicast"} => sessionId # 0
    /\ kind = "petition" => state = "Connected"

NeedsPrefix(kind) == kind = "leader" /\ prefix = 0

(* A proxied request takes a second identity for its UDP_TX.                 *)
Cost(kind, fetch) == IF ViaProxy(kind) /\ ~fetch THEN 2 ELSE 1

Begin(kind) ==
    /\ Idle
    /\ MayExecute(kind)
    /\ ids + 2 <= MaxIds
    /\ ids' = ids + Cost(kind, NeedsPrefix(kind))
    /\ op' = [kind |-> kind, stage |-> "connect", fetch |-> NeedsPrefix(kind), id |-> ids + 1]
    /\ state' = IF kind = "petition" THEN "Petitioning" ELSE state
    /\ last' = NoEnd
    /\ UNCHANGED <<sessionId, dtls, events, prefix, requests, inbox, agentVars, notified,
                   floor>>

(* petition is already in its new state when it builds its request, which    *)
(* fails when the commissioner ID is longer than a TLV: that state stays.    *)
PetitionNotBuilt ==
    /\ Idle
    /\ MayExecute("petition")
    /\ ids < MaxIds
    /\ ids' = ids + 1
    /\ state' = "Petitioning"
    /\ last' = NoEnd
    /\ UNCHANGED <<sessionId, dtls, events, prefix, op, requests, inbox, agentVars, notified,
                   floor>>

(* On a disconnected handle an operation without a guard of its own takes an *)
(* identity before execute refuses it.                                       *)
Refused(kind) ==
    /\ Idle
    /\ kind \in {"query", "leader", "notify"}
    /\ ~MayExecute(kind)
    /\ ids < MaxIds
    /\ ids' = ids + 1
    /\ UNCHANGED <<state, sessionId, dtls, events, prefix, op, requests, inbox, agentVars,
                   historyVars>>

(* next_event: a queued event is returned at once; otherwise it waits for    *)
(* messages on the session.                                                  *)
NextEvent ==
    /\ Idle
    /\ events # << >> \/ dtls
    /\ events' = IF events = << >> THEN << >> ELSE Tail(events)
    /\ op' = IF events # << >> THEN NoOp
             ELSE [kind |-> "event", stage |-> "wait", fetch |-> FALSE, id |-> 0]
    /\ UNCHANGED <<state, sessionId, dtls, ids, prefix, requests, inbox, agentVars,
                   historyVars>>

(* ensure_dtls_session, which runs a handshake the first time, and the send. *)
Connect ==
    /\ op.stage = "connect"
    /\ InFlight < MaxFlight
    /\ dtls' = TRUE
    /\ op' = IF AwaitsAnswer(op.kind) THEN [op EXCEPT !.stage = "wait"] ELSE NoOp
    /\ requests' = IF AwaitsAnswer(op.kind)
                   THEN requests \cup {[kind |-> op.kind, fetch |-> op.fetch, id |-> op.id,
                                        sid |-> sessionId, dst |-> prefix]}
                   ELSE requests
    /\ floor' = IF op.fetch THEN notified ELSE floor
    /\ UNCHANGED <<state, sessionId, ids, events, prefix, inbox, agentVars, notified, last>>

-----------------------------------------------------------------------------
(* handle_incoming.                                                          *)

Expected == op.kind # "event"

IsAck(m) == Expected /\ m.kind = "ack" /\ Token(m.id) = Token(op.id)

(* Fault: the token is not compared.                                         *)
IsAnswerAny(m) == Expected /\ m.kind = "response"

(* Whatever bears the request's token is its answer: the token is looked at  *)
(* before the message is classified.                                         *)
IsAnswer(m) == Expected /\ m.token = Token(op.id)

IsNotification(m) == m.kind \in {"changed", "report", "relay"}

(* A message the exchange goes on after.  In next_event the first event ends *)
(* the operation.                                                            *)
Continue(queue) ==
    /\ events' = IF op.kind = "event" /\ queue # << >> THEN Tail(queue) ELSE queue
    /\ op' = IF op.kind = "event" /\ queue # << >> THEN NoOp ELSE op

(* A message is taken off the session.  The network does not hold one back   *)
(* until its identity is used again.                                         *)
Take(m) ==
    /\ op.stage = "wait"
    /\ m \in inbox
    /\ m.id # 0 => m.id + IdSpace > ids
    /\ inbox' = inbox \ {m}

(* Fault: the cached prefix survives a dataset change.                       *)
PrefixAfterKept(m) == prefix

(* route_unsolicited_message and route_unsolicited_proxied.                  *)
PrefixAfter(m) == IF m.kind = "changed" THEN 0 ELSE prefix

(* Fault: a relayed message is queued as it came, not as an event.           *)
SurfacedRaw(m) == IF m.kind = "relay" THEN {<<"RelayRx">>} ELSE {<<"Report">>}

(* What a notification adds to the queue.  Relayed joiner traffic may        *)
(* surface an event, of the joiner session or, without a handler, raw.       *)
Surfaced(m) ==
    CASE m.kind = "changed" -> {<<"DatasetChanged">>}
      [] m.kind = "report" -> {<<"Report">>}
      [] m.kind = "relay" -> {<< >>, <<"Joiner">>}

(* Identities its acknowledgement or reply takes.                            *)
Replies(m) ==
    IF m.kind = "relay" THEN {0, 1} ELSE IF m.proxied /\ m.confirmable THEN {1} ELSE {0}

Restore == IF op.kind = "petition" THEN "Connected" ELSE state

(* A notification is processed and acknowledged or, if it is a joiner's,     *)
(* replied to.  When that send fails so does the operation, and what was     *)
(* queued stays queued.                                                      *)
IncomingNotification(m) ==
    /\ Take(m)
    /\ IsNotification(m)
    /\ ~IsAnswer(m)
    /\ prefix' = PrefixAfter(m)
    /\ \E new \in Surfaced(m), taken \in Replies(m) :
          /\ ids' = ids + taken
          /\ \/ /\ Continue(events \o new)
                /\ UNCHANGED state
             \/ /\ m.confirmable \/ taken = 1
                /\ events' = events \o new
                /\ op' = NoOp
                /\ state' = Restore
    /\ notified' = IF m.value > notified THEN m.value ELSE notified
    /\ floor' = IF m.kind = "changed" /\ ~op.fetch THEN notified' ELSE floor
    /\ UNCHANGED <<sessionId, dtls, requests, agentVars, last>>

(* A confirmable message that came through the proxy is acknowledged through *)
(* the proxy, which takes an identity.                                       *)
AckCost(m) == IF m.proxied /\ m.confirmable THEN 1 ELSE 0

(* The ACK of our request, proxied messages that answer nothing, and, when   *)
(* nothing is expected, direct ones.                                         *)
IsIgnored(m) ==
    /\ ~IsAnswer(m)
    /\ m.kind \in {"response", "ack", "other"}
    /\ IsAck(m) \/ m.proxied \/ ~Expected

IncomingIgnored(m) ==
    /\ Take(m)
    /\ IsIgnored(m)
    /\ Continue(events)
    /\ UNCHANGED <<state, sessionId, dtls, ids, prefix, requests, agentVars, historyVars>>

(* Any other direct message fails the exchange: a leftover of an earlier one *)
(* or one the commissioner has no use for.  So does a notification that does *)
(* not parse, in next_event and through the proxy too, and the answer itself *)
(* when its acknowledgement cannot be sent.                                  *)
IncomingFails(m) ==
    /\ Take(m)
    /\ ~IsIgnored(m)
    /\ IF IsAnswer(m) THEN m.confirmable ELSE ~IsNotification(m)
    /\ ids' = ids + IF IsAnswer(m) THEN AckCost(m) ELSE 0
    /\ op' = NoOp
    /\ state' = Restore
    /\ UNCHANGED <<sessionId, dtls, events, prefix, requests, agentVars, historyVars>>

-----------------------------------------------------------------------------
(* The answer, or what passes for it.  A message nobody asked for is taken   *)
(* to carry no state and no prefix, as no notification does, so that         *)
(* parse_state_response and require_mesh_local_prefix refuse it.             *)

Answered(m, kind) ==
    /\ Take(m)
    /\ op.kind = kind
    /\ IsAnswer(m)
    /\ last' = [end |-> "answered", asked |-> op.id, answered |-> m.id]

PetitionAnswered(m) ==
    /\ Answered(m, "petition")
    /\ op' = NoOp
    /\ ids' = ids + AckCost(m)
    /\ LET granted == m.result = "accept" /\ m.value # 0
       IN  /\ sessionId' = IF granted THEN m.value ELSE sessionId
           /\ state' = IF granted THEN "Active" ELSE "Connected"
    /\ UNCHANGED <<dtls, events, prefix, requests, agentVars, notified, floor>>

(* Fault: a rejected keep-alive leaves the session ID in place.              *)
KeepAliveSessionKept(m) == sessionId

(* Fault: whatever does not accept a keep-alive ends the session.            *)
KeepAliveSessionUnlessAccepted(m) == IF m.result = "accept" THEN sessionId ELSE 0

(* A rejected keep-alive ends the session; the handle may petition again.    *)
KeepAliveSession(m) == IF m.result = "reject" THEN 0 ELSE sessionId

KeepAliveAnswered(m) ==
    /\ Answered(m, "keepAlive")
    /\ op' = NoOp
    /\ ids' = ids + AckCost(m)
    /\ events' = IF m.result \in {"none", "error"} THEN events
                ELSE Append(events, "KeepAliveResponse")
    /\ state' = IF m.result = "reject" THEN "Connected" ELSE state
    /\ sessionId' = KeepAliveSession(m)
    /\ UNCHANGED <<dtls, prefix, requests, agentVars, notified, floor>>

(* disconnect.  Nothing more is read from the socket.                        *)
Disconnected ==
    /\ state' = "Disabled"
    /\ sessionId' = 0
    /\ dtls' = FALSE
    /\ prefix' = 0

(* resign disconnects on acceptance and on rejection, not while pending.     *)
ResignAnswered(m) ==
    /\ Answered(m, "resign")
    /\ op' = NoOp
    /\ ids' = ids + AckCost(m)
    /\ IF m.result \in {"none", "error", "pending"}
       THEN UNCHANGED <<state, sessionId, dtls, prefix>>
       ELSE Disconnected
    /\ UNCHANGED <<events, requests, agentVars, notified, floor>>

(* require_mesh_local_prefix stores what it was sent and the operation goes  *)
(* on, with the prefix it got, to its proxied request.                       *)
PrefixAnswered(m) ==
    /\ Answered(m, "leader")
    /\ op.fetch
    /\ IF m.result \in {"none", "error"}
       THEN /\ op' = NoOp
            /\ ids' = ids + AckCost(m)
            /\ UNCHANGED <<prefix, requests>>
       ELSE LET id == ids + AckCost(m) + 1
            IN  /\ InFlight < MaxFlight
                /\ prefix' = m.value
                /\ ids' = id + 1
                /\ op' = [op EXCEPT !.fetch = FALSE, !.id = id]
                /\ requests' = requests \cup {[kind |-> op.kind, fetch |-> FALSE, id |-> id,
                                               sid |-> sessionId, dst |-> m.value]}
    /\ UNCHANGED <<state, sessionId, dtls, events, agentVars, notified, floor>>

(* Exchanges that leave the handle as it is, whatever the answer says.       *)
ExchangeAnswered(m) ==
    /\ Answered(m, op.kind)
    /\ op.kind \in {"query", "leader", "node"}
    /\ ~op.fetch
    /\ op' = NoOp
    /\ ids' = ids + AckCost(m)
    /\ UNCHANGED <<state, sessionId, dtls, events, prefix, requests, agentVars, notified,
                   floor>>

(* The operation ends in an error: MESHCOP_TIMEOUT or the handshake budget,  *)
(* a socket error, an alert, a message that does not decode.                 *)
OperationFails ==
    /\ ~Idle
    /\ op' = NoOp
    /\ state' = Restore
    /\ UNCHANGED <<sessionId, dtls, ids, events, prefix, requests, inbox, agentVars,
                   historyVars>>

(* The application drops the operation's future at an await.                 *)
Cancel ==
    /\ ~Idle
    /\ op' = NoOp
    /\ UNCHANGED <<state, sessionId, dtls, ids, events, prefix, requests, inbox, agentVars,
                   historyVars>>

(* The application disconnects.  What is still in flight can no longer       *)
(* reach the handle and is forgotten.                                        *)
Disconnect ==
    /\ Idle
    /\ Disconnected
    /\ requests' = {}
    /\ inbox' = {}
    /\ UNCHANGED <<ids, events, op, agentVars, historyVars>>

-----------------------------------------------------------------------------
(* The border agent and the mesh (external).  One that restarts or goes away *)
(* is one that never answers again.  Of the results that the handle treats   *)
(* alike one is sent.                                                        *)

Response(q, result, value, separate) ==
    [kind |-> "response", proxied |-> ViaProxy(q.kind) /\ ~q.fetch, confirmable |-> separate,
     id |-> q.id, token |-> Token(q.id), result |-> result, value |-> value]

EmptyAck(q) ==
    [kind |-> "ack", proxied |-> ViaProxy(q.kind) /\ ~q.fetch, confirmable |-> FALSE,
     id |-> q.id, token |-> NoToken, result |-> "none", value |-> 0]

(* A response comes with the acknowledgement or separately after it.         *)
Answer(q, result, value) ==
    /\ requests' = requests \ {q}
    /\ \E separate \in BOOLEAN :
          inbox' = inbox \cup {Response(q, result, value, separate)}
                         \cup (IF separate THEN {EmptyAck(q)} ELSE {})
    /\ UNCHANGED <<handleVars, version, notes, historyVars>>

AgentGrants ==
    \E q \in requests :
        /\ q.kind = "petition"
        /\ Cardinality(grants) < MaxSessions
        /\ agentSid' = Cardinality(grants) + 1
        /\ grants' = grants \cup {[id |-> q.id, sid |-> Cardinality(grants) + 1]}
        /\ Answer(q, "accept", Cardinality(grants) + 1)

AgentRefuses ==
    \E q \in requests : \E result \in {"accept", "reject"} :
        /\ q.kind = "petition"
        /\ Answer(q, result, 0)
        /\ UNCHANGED <<agentSid, grants>>

AgentKeepAlive ==
    \E q \in requests : \E result \in {"accept", "reject", "pending", "error"} :
        /\ q.kind = "keepAlive"
        /\ result = "accept" <=> q.sid = agentSid
        /\ Answer(q, result, 0)
        /\ UNCHANGED <<agentSid, grants>>

AgentResign ==
    \E q \in requests : \E result \in {"reject", "pending"} :
        /\ q.kind = "resign"
        /\ agentSid' = IF q.sid = agentSid THEN 0 ELSE agentSid
        /\ Answer(q, result, 0)
        /\ UNCHANGED grants

AgentServes ==
    \E q \in requests : \E result \in {"accept"} \cup (IF q.fetch THEN {"error"} ELSE {}) :
        /\ q.kind \in {"query", "node"} \/ (q.kind = "leader" /\ (q.fetch \/ q.dst = version))
        /\ Answer(q, result, IF q.fetch THEN version ELSE 0)
        /\ UNCHANGED <<agentSid, grants>>

Note(kind, proxied, confirmable, token, value) ==
    [kind |-> kind, proxied |-> proxied, confirmable |-> confirmable, id |-> 0,
     token |-> token, result |-> "none", value |-> value]

(* The active dataset, and with it the mesh-local prefix, changes; a         *)
(* confirmable notification says so, directly or through the proxy.          *)
MeshChange ==
    /\ dtls
    /\ InFlight < MaxFlight
    /\ version < MaxVersion
    /\ version' = version + 1
    /\ \E proxied \in BOOLEAN, token \in NoteTokens :
          inbox' = inbox \cup {Note("changed", proxied, TRUE, token, version + 1)}
    /\ UNCHANGED <<handleVars, requests, agentSid, notes, grants, historyVars>>

(* Another notification, or a message the commissioner does not understand.  *)
MeshReport ==
    /\ dtls
    /\ InFlight < MaxFlight
    /\ notes < MaxNotes
    /\ notes' = notes + 1
    /\ \E token \in NoteTokens, confirmable \in BOOLEAN, proxied \in BOOLEAN :
          \E n \in {Note("report", TRUE, confirmable, token, 0),
                   Note("relay", FALSE, FALSE, token, 0),
                   Note("malformed", proxied, FALSE, token, 0),
                   Note("other", proxied, FALSE, token, 0)} : inbox' = inbox \cup {n}
    /\ UNCHANGED <<handleVars, requests, agentSid, version, grants, historyVars>>

(* The border agent times the session out or gives it to another.            *)
AgentEndsSession ==
    /\ dtls /\ agentSid # 0
    /\ agentSid' = 0
    /\ UNCHANGED <<handleVars, requests, inbox, version, notes, grants, historyVars>>

Incoming(m) ==
    \/ IncomingNotification(m) \/ IncomingIgnored(m) \/ IncomingFails(m)
    \/ PetitionAnswered(m) \/ KeepAliveAnswered(m) \/ ResignAnswered(m)
    \/ PrefixAnswered(m) \/ ExchangeAnswered(m)

Next ==
    \/ \E kind \in Operation \ {"event"} : Begin(kind) \/ Refused(kind)
    \/ PetitionNotBuilt \/ NextEvent \/ Connect \/ OperationFails \/ Cancel \/ Disconnect
    \/ \E m \in inbox : Incoming(m)
    \/ AgentGrants \/ AgentRefuses \/ AgentKeepAlive \/ AgentResign \/ AgentServes
    \/ MeshChange \/ MeshReport \/ AgentEndsSession

Spec == Init /\ [][Next]_vars

-----------------------------------------------------------------------------
(* Properties.                                                               *)

(* An exchange never returns the answer to another request, however many     *)
(* earlier requests timed out or were dropped with their answers still in    *)
(* flight, and although identities wrap and are also taken by                *)
(* acknowledgements and relayed replies while it waits.  What it returns is  *)
(* the answer to its own request or, because handle_incoming compares the    *)
(* token alone, a message nobody asked for whose sender chose that token.    *)
AnswersMatch == last.end = "answered" => last.answered \in {0, last.asked}

(* While an operation is in progress, a session is entered or left and a     *)
(* prefix is learnt only on the response to the request it waits for: not on *)
(* a leftover, and not on a message nobody asked for that bears its token    *)
(* (and, as notifications do, carries neither state nor dataset).            *)
OwnAnswerDecides ==
    [][~Idle /\ (sessionId' # sessionId \/ prefix' \notin {0, prefix}) =>
          last' = [end |-> "answered", asked |-> op.id, answered |-> op.id]]_vars

(* A session ID is held exactly in state Active; a prefix is cached only     *)
(* over an established DTLS session; a disconnected handle holds nothing.    *)
LifecycleConsistent ==
    /\ state = "Active" <=> sessionId # 0
    /\ prefix # 0 => dtls
    /\ state = "Disabled" => ~dtls

(* The handle adopts a session ID only from the border agent's grant to the  *)
(* very petition in progress, not from a late grant to an earlier one.       *)
AdoptsOwnGrant ==
    [][sessionId' \notin {0, sessionId} =>
          [id |-> op.id, sid |-> sessionId'] \in grants]_vars

(* A cached prefix reflects every dataset change processed before its fetch  *)
(* was sent or after its fetch was over.                                     *)
PrefixReflectsNotices == prefix # 0 => prefix >= floor

(* Once disconnected, a handle sends nothing and never comes back.           *)
DisconnectedIsFinal ==
    [][state = "Disabled" =>
          state' = "Disabled" /\ requests' \subseteq requests]_vars

(* After a dataset change was processed, the next anycast route is computed  *)
(* from a prefix at least as new as the change.                              *)
PrefixNotStale == prefix # 0 => prefix >= notified

(* Dropping a future cancels its request: a petition that is over, however   *)
(* it ended, does not leave the handle in the middle of it.                  *)
NoOrphanPetition ==
    [][op.kind = "petition" /\ Idle' => state' # "Petitioning"]_vars

=============================================================================
