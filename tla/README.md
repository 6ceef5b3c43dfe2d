# A TLA+ verification of ot-commissioner-rs

ot-commissioner-rs is a Thread commissioner: it connects to a border agent over
DTLS, petitions to become the network's active commissioner, manages datasets
and diagnostics through the border agent, and admits new devices ("joiners")
whose own DTLS sessions reach it through relayed messages. Two programs use the
library: an interactive commissioner and a topology collector. This directory
models the parts whose correctness depends on the order of events and the
formats that two ends must agree on, checks them on small instances with TLC,
and proves the safety properties of the state machines for every size with
TLAPS.

`PROJECT.json` lists components, runs, the correspondence of every definition
to source lines, the mutants that show each property can fail, the hazards and
the theorems. This file explains them.

## 1. The system

### Parts, their state and their operations

Paths are relative to `src/crates/`.

| Part | Source | State | Operations that change it |
|---|---|---|---|
| Commissioner handle | `ot-commissioner-rs/src/commissioner/client/mod.rs` | lifecycle state, session ID, DTLS session, message-ID counter, event queue, joiner handler and session table, cached mesh-local prefix | `connect`, `petition`, `keep_alive`, `resign`, `disconnect`, `next_event`, `set_joiner_handler`, `clear_joiner_handler` |
| Request exchange and UDP proxy | `.../client/transport.rs` | (the handle's) | `execute`, `handle_incoming`, `route_unsolicited_*`, `require_mesh_local_prefix`, acknowledgements |
| Dataset, command, diagnostic operations | `.../client/{datasets,commands,diagnostics}.rs` | (the handle's) | one or two exchanges each |
| Joiner relay | `.../client/relay.rs` | joiner session table | `handle_relay_rx`, `send_to_joiner` |
| Joiner session | `.../commissioner/joiner.rs` | phase, handshake, keys, record numbers, cached flight, decision, deadline | one handler per record type |
| DTLS record channel | `thread-dtls/src/driver.rs` | record number, replay window | `send_application_data`, `recv_application_data` |
| DTLS handshakes | `thread-dtls/src/{client_driver,server_driver,thread_handshake,thread_server_handshake}.rs` | transcript, EC J-PAKE state, keys | one step per flight |
| Codecs and EC J-PAKE | `thread-dtls/src/{record,handshake,hello}.rs`, `ecjpake/`, `ot-commissioner-rs/src/{tlv,dataset}.rs`, `meshcop/` | a reassembler's bytes, a dataset's TLVs | encoders, decoders, setters, key-exchange rounds |
| CLI session | `ot-commissioner-cli/src/cli/mod.rs`, `cli/interpreter/` | keep-alive deadline, commissioner, reports, joiner tables | the read loop, the keep-alive, every command |
| Topology collector | `ot-netdiag/src/{main,collect}.rs` | the walk, batches still to ask, time since the last keep-alive | query, halve, keep-alive, merge, resign |
| Topology model | `ot-netdiag/src/{model,graph,report}.rs` | none | merging answers, links, rows |

### How they interact

The handle owns everything and every operation takes `&mut self`, so one
operation runs at a time. It is not alone, though: at each await the border
agent, the mesh, the joiners and the clock move, and the future may be dropped.
While an exchange waits for its answer, `handle_incoming` processes whatever
arrives first: notifications, relayed joiner traffic, late answers to earlier
requests. Relayed traffic drives the joiner sessions, whose replies and events
go out through the same handle. All of it travels in application records of one
DTLS session, which the network may lose, repeat or reorder. The CLI and the
collector each own one handle and must keep its session alive while their own
exchanges occupy it.

### What is hard

* A joiner's datagrams can be repeated, reordered or lost. The joiner session
  has no replay window of its own, repeats its flight from a cache, and answers
  a repeated request by sealing a new record.
* The application can change or clear the handler in the middle of a joiner's
  session; sessions expire, but are only swept when the next message arrives.
* A datagram may hold several records, of which a later one fails.
* Requests time out with their answers still in flight; tokens are a wrapping
  counter that acknowledgements and relayed replies use as well. The token is
  compared before a message is classified, and the senders of notifications
  choose their own.
* A dropped future leaves whatever the operation had changed before its await.
* The mesh-local prefix is cached while the mesh can change it.
* Neither handshake driver retransmits, and datagrams of an earlier attempt
  meet a later one.
* One task sends the keep-alive and waits for answers, so every wait has to fit
  before the deadline.
* Encoders and decoders meet at length limits, and a datagram may be cut.

The hazards in `PROJECT.json` give these with the line where each one bites.

### What should be true

1. A joiner gets the network's key-encryption key only after proving the PSKd
   that was enabled for it and after being accepted; no AES-CCM nonce is used
   twice; one decision per session; the joiner, the session and the
   application agree on it; joiners do not disturb one another.
2. The record channel delivers each record at most once and only what was sent,
   and its replay window never refuses a fresh record that is in range.
3. An exchange never returns the answer to another request. (It may return a
   message that answers no request and happens to bear its token.) Nothing but
   the response to its own request lets an operation enter or leave a session or
   learn a prefix, and an operation that fails, on a leftover of an earlier
   request or on a message that makes no sense, changes neither. Lifecycle state,
   session ID and DTLS session agree; a cached prefix reflects the dataset
   changes the handle was told of.
4. A handshake that returns a session at one end has its session at the other,
   with the same key; every wait ends; an undisturbed handshake completes.
5. The keep-alive is sent before its deadline whatever the CLI or the collector
   is doing; the CLI's tables and the installed handler agree; no report is
   lost; the collector loses no TLV by halving, sends nothing after a refused
   keep-alive, and terminates.
6. What one end encodes the other decodes, at every limit of a length field; a
   message cut short is never taken for another; EC J-PAKE keys agree when the
   secrets do, and otherwise only for coincidences of the random scalars that
   the property spells out.

## 2. Modules

| Module | Models | |
|---|---|---|
| `JoinerSession` | `joiner.rs`, with the parts of the server handshake it relies on | operators from a session and one record to an outcome |
| `JoinerRelay` | `relay.rs`, the handler calls of `mod.rs`, the joiners | state machine over `JoinerSession` |
| `RecordChannel` | `driver.rs`: `SessionState`, `DtlsReplayWindow`, `recv_application_data` | state machine |
| `AtMostOnceChannel` | the promise of a DTLS session | abstract specification, implemented by `RecordChannel` |
| `Commissioner` | `mod.rs`, `transport.rs`, operations as classes of exchange; the border agent and the mesh | state machine |
| `DtlsHandshake` | `connect_with_rng` and `accept_with_rng` with the handshake state they keep | state machine |
| `CliSession` | the read loop, the interpreter's keep-alive schedule and every command | state machine |
| `NetdiagCollect` | `run`, `dispatch` and the collector | state machine over `Topology` |
| `Topology` | `model.rs`, the pure functions of `collect.rs`, what `graph.rs` and `report.rs` show | operators |
| `Bytes`, `TlvCodec`, `CoapCodec`, `MeshcopCodec`, `DiagCodec`, `DtlsCodec` | the encoders and decoders, on sequences of bytes | operators |
| `EcJpake` | `ecjpake/`, over a small group | operators |
| `Story`, `Reassembly`, `DatasetEditing`, `SteeringData` | the codecs that keep state, one story each: `HandshakeReassembler`, the dataset setters, `add_joiner_to_steering_data` | state machines over the codecs they use |
| `Codecs` | all codecs at work: the three stories above, a message carried and perhaps cut, an EC J-PAKE exchange | state machine, composes the stories |
| `MC...` | | instances for TLC |
| `JoinerProofs` | | proofs about `JoinerRelay` |
| `NetdiagProofs`, `NetdiagReportProofs` | | proofs about `NetdiagCollect`: its timing, then its report |
| `CodecProofs` | | proofs about `Reassembly`, `SteeringData`, `TlvCodec` and `DatasetEditing` |
| `RecordChannelProofs`, `CommissionerProofs`, `DtlsHandshakeProofs`, `CliProofs` | | proofs about the module each is named for |

Definitions whose comment starts with `Fault:` are mutated forms of the
definition that follows them. No specification uses them.

### JoinerSession and JoinerRelay

Cryptography is symbolic. A session's randomness is a number `sid`, a joiner's
attempt a number `aid`. Key material is the triple of attempt, session and
PSKd; a record opens under the key it was sealed with and no other; a cookie
verifies only in the session that issued it. A ClientKeyExchange's proof is
bound to attempt and session but not to the PSKd, which is why a wrong PSKd
shows only at the Finished, as in EC J-PAKE.

| Variable | Code |
|---|---|
| `handler` | `joiner_handler`, as the PSKd it returns for each joiner |
| `sessions` | `joiner_sessions`; an entry is a record with the fields of `JoinerSession`, `NoSession` when there is none |
| `events` | joiner events queued, in order, never removed |
| `cur`, `rest`, `pendTx`, `pendEv` | the RLY_RX being handled: its joiner, records left, transmissions and events so far |
| `rx`, `tx` | everything joiners and commissioner have sent; any of it may arrive again at any time |
| `dev`, `devPskd` | the joiners |
| `born`, `sealed` | histories: who each session was created for and how often its handler was asked; every record built |

`handle_relay_rx` is `RelayRxIgnored`, `RelayRxNewSession` or `RelayRx` (sweep,
lookup, handler's PSKd), then one action per record (`PlaintextHandshake`,
`ChangeCipherSpec`, `EncryptedHandshake`, `ApplicationData`,
`AlertOrMalformed`), then `RelayTxAll`. Nothing else of the commissioner is
enabled in between, because the code holds `&mut self` throughout. The
bookkeeping of an outcome, with the removal of a failed session and the loss of
what the datagram produced, is `Outcome`. A send that fails or is dropped is
the same as a message the relay loses.

The joiner is external code, modelled as a client that may start again at any
time, send its flight in one datagram or several, repeat requests under new
message IDs, ask for something else, append an alert, or fail.

### RecordChannel

`next`, `newest` and `seen` are `next_application_sequence`, `newest_sequence`
and the bits of `seen` as the set of offsets that are set; `delivered` and
`returned` record what the caller got and how often. `RecvApplicationData` is
one datagram of two records, each a genuine record (any already sent, so
replays and reordering are included), one that does not verify, or an alert.
The code's loop skips seen records, returns the first it delivers and drops the
rest, or fails. The width and the last number are constants; the code's are 64
and 2^48 - 1.

### Commissioner

| Variable | Code |
|---|---|
| `state`, `sessionId`, `dtls`, `events`, `prefix` | `state`, `session_id`, `dtls_session.is_some()`, `events`, `mesh_local_prefix` |
| `ids` | identities allocated so far; `next_message_id` is its value modulo `IdSpace` |
| `op` | the operation in progress and what it waits for |
| `requests`, `inbox` | messages in flight, as `AtMostOnceChannel` allows: any order, at most once, perhaps never |
| `agentSid`, `version`, `notes` | the border agent's session, the active dataset's version, notifications sent |
| `grants`, `notified`, `floor`, `last` | histories for the properties |

Operations that act alike on the handle are one class: `query` (direct
exchanges), `leader` (proxied to an anycast locator, which needs the prefix),
`node` (proxied to a given address), `multicast` (proxied, not answered),
`notify` (sent without waiting). `leader` stands for operations that require a
session and for those that do not, a superset of both. `Begin` covers an
operation's guards and what it does up to its first await, `Connect` the
handshake and the send, one action per kind of incoming message the rest.
`OperationFails` is every error that no message brings about (timeout, socket,
alert, undecodable datagram), `PetitionNotBuilt` a petition that fails before it
sends, and `Cancel` a dropped future.

An incoming message is classified as `handle_incoming` does it: the empty
acknowledgement of the request, then anything with the request's token
(`IsAnswer`), then notifications; the rest is ignored through the proxy and
fails the exchange otherwise (`IncomingFails`). The border agent and the mesh
also send notifications that do not parse and messages the commissioner has no
use for. All messages nobody asked for bear a token out of `NoteTokens`, so they
may be taken for the answer. It is assumed that they carry neither a state TLV
nor a mesh-local prefix, as none of the notifications the code knows does: then
`parse_state_response`, `parse_petition_response` and
`require_mesh_local_prefix` refuse them. Other than by error responses of CoAP,
the code tells an answer only by its token and its payload.

A message is not held back by the network until its identity has wrapped around
(`Take`): with 65536 identities that would be a message older than 65536
requests.

### DtlsHandshake

Clients run `connect_with_rng` against one server that runs `accept_with_rng`,
again and again. A flight travels in one datagram, as the drivers send it, so a
datagram is a flight. Cryptography is symbolic: `cid` is the randomness of one
connect, `sid` that of one accept; both ends derive the same key exactly from
the same `cid`, `sid` and secret; a Finished verifies under its key for its
transcript only.

`client[c]` and `server` hold what a driver keeps across its waits: the state,
the attempt, the record sequence, the cookie, the key, the transcript, and for
the server the peer it committed to. `net` is the datagrams in flight. `Lose`
and `Damage` are the network's faults; a datagram may also be taken without
being removed, which is a repetition. `ClientReceives` and `ServerReceives` are
one disjunct per kind of datagram and state, error paths included. A timeout is
natural when nothing that the driver would accept is on its way and counts as a
fault otherwise, because then the network was slower than the timer.

### CliSession

One task runs everything. A command is the sequence of steps it makes
(`Steps`): a check that the session is active, the prefix that may have to be
fetched, an exchange, a write to the leader, the collection of reports.
`Evaluate` is a line of input, with the refresh that goes before a command that
might outlast the deadline; `Tick` is time passing at the prompt. `handle` is
the interpreter's commissioner, `fresh` the one a start is bringing up, `timer`
and `left` are `keepalive_deadline`, `pskds` and `allPskd` the joiner tables,
`steering` what the leader's filter admits, which `commdataset set` may change to
anything. Every exchange may fail, and may take any time up to its timeout.

### NetdiagCollect and Topology

`walk` is the command in progress (stage, nodes still to visit, records
gathered), `work` the `collect_diag` in progress (attempts at priming, stack of
batches), `elapsed` the time since the last keep-alive. The mesh is external: a
node answers unless it has left, its route is not resolved yet, the answer is
larger than it can send, or the request is lost. `air` holds the mesh's side:
who left, which routes are resolved, the faults so far, whether the leader holds
the tool's session (`held`) and whether a resignation was sent (`resigned`). A
rejected keep-alive means the leader holds it no more; one that failed or stays
pending leaves that open. `Topology` keeps the TLVs that the program looks into
(RLOC16, leader data, routes, child tables) as numbers and sets, and copies the
others; a record has no place for the RLOC16 and the children's addresses of an
answer (`NotStored`).

### The codecs

These modules work on bytes, with the limits of every length field as they are
in the code: both forms of a TLV length, option deltas and lengths at 13 and
269, 48-bit seconds, 24-bit handshake lengths. Exclusive and inclusive or of
bytes, and the CRC-16s over them, are recursive functions of `Bytes` and
`TlvCodec` on numbers. `Codecs` tells one of five stories per behaviour: a message that is encoded, perhaps cut at any byte, and
decoded; a handshake message reassembled from any fragments in any order, among
fragments of other messages; a dataset that is edited, saved and loaded;
steering data to which joiners are added; an EC J-PAKE exchange. `EcJpake` runs
in the additive group of integers modulo a small prime, where an exchange with
all its proofs can be enumerated; SHA-256 is replaced by a function of
everything that is hashed.

## 3. Runs

| Run | Instance | Checks |
|---|---|---|
| `joiner_relay` | 1 joiner, 2 PSKds, 2 sessions, 2 attempts, 7 datagrams | type invariant, nonces, entrustment, decisions, agreement, events, freshness |
| `joiner_relay_two` | 2 joiners, 1 attempt each | a joiner's failure is its own |
| `record_channel` | window 4, 9 numbers | exact window, refinement of the at-most-once channel, only deliveries move the window |
| `commissioner` | 3 identities that wrap, 2 dataset versions, 2 messages in flight, unsolicited ones with a token of a request or none | no exchange returns another's answer, only an operation's own answer moves session and prefix, lifecycle, prefix cache, grants, disconnection |
| `dtls_handshake` | 2 clients, 2 secrets, 2 connects, 2 accepts, 2 faults | sessions agree at both ends, commitment after the cookie, waits end, clean handshakes complete |
| `cli_session` | 1 joiner, 2 PSKds, 2 notices; in units of 5 s | keep-alive not late, sessions serviced, handler matches tables, notices kept, keep-alive happens |
| `netdiag_walk` | 2 small meshes and 2 with a dataset the tool cannot use, every command, 2 faults | keep-alive in time, queries in session, halving loses nothing, nobody missed, consistent snapshot, termination |
| `codecs` | every format at its limits; group of order 7 | round trips, truncation, reassembly, datasets, steering, key agreement |
| `petition_cancelled`, `prefix_stale` | as `commissioner` | **violated**: see below |
| `netdiag_resign` | as `netdiag_walk`, no faults | **violated**: see below |
| `cli_disable` | as `cli_session` | **violated**: see below |

Bounds and why they are enough.

* `joiner_relay` has two sessions and two attempts, so a restarted joiner meets
  an old session and an old flight meets a new session; two PSKds give one
  wrong passphrase; a timeout of one tick makes a session fresh or expired, the
  only two cases the code distinguishes; seven datagrams let an attempt go
  through with repetitions. Two joiners need a run of their own to stay small;
  one attempt each has both in the table in every pair of phases.
* A window of 4 with 9 numbers has shifts inside, of exactly and beyond the
  width, and reaches the last number.
* Three identities wrap within one behaviour, which is where a late answer
  could be mistaken; two in flight allow a late answer or a notification to
  overtake the current answer. Of the tokens of unsolicited messages two matter,
  one that some request has too (2) and none (3).
* Two connects and two accepts make datagrams of an old attempt meet a new one
  at either end. Two faults allow, for example, a repeated flight and a lost
  one in the same behaviour.
* `cli_session` has the code's durations in units of five seconds: an exchange
  1, the headroom and the handshake 4, the minimum interval 6. With the
  smallest interval the schedule has no slack to hide in.
* `netdiag_walk` has waits of 2 and 1 in an interval of 5, so that a wait may
  start on either side of the last moment that is early enough. Nodes can answer
  three to six TLVs at once, so batches are halved, some down to one TLV that is
  never answered; one mesh lists a router that is gone.
* `codecs` takes each format on both sides of each of its limits. Messages of
  up to 64 bytes are cut at every byte. The reassembled message has three
  bytes, enough for fragments that overlap, repeat, and leave a hole; fragments
  of a rival message and of a shorter one are mixed in.

PSKds and joiners of `JoinerRelay` are symmetric; nothing tells one from
another. Deadlock is checked for `NetdiagCollect`, whose program exits. It is
not checked elsewhere: when the bounds are used up, or every party has gone
away, those systems really stop.

### Fairness

Safety properties assume none. The liveness properties assume:

* `netdiag_walk`, `WalkEnds`: the walk is one task that nobody cancels and each
  of its waits has a timer, so it takes a step while it has one: weak fairness
  of `Step`. The mesh's own moves are not fair.
* `dtls_handshake`, `HandshakeEnds` and `CleanHandshakeCompletes`: a driver that
  has a datagram takes it, and the timer of a wait that nothing will answer runs
  out (`recv_from` and the receive timeout share one wait). Weak fairness of
  both receives and of the natural timeouts; nothing is assumed of a server
  that nobody came to, nor of `Connect` and `Accept`.
* `cli_session`, `KeepAliveHappens`: every exchange ends, by its timeout at the
  latest, and the loop runs on: weak fairness of `Step`. Time passes however
  often the user types: strong fairness of `Tick`, which typing disables again
  and again without stopping the clock.

### Where code and documentation disagree

* **A dropped petition** (`petition_cancelled`, `NoOrphanPetition`).
  `docs/PARITY.md:32` says requests are "cancelled by dropping futures".
  `petition` sets `Petitioning` before its first await and only what follows the
  exchange undoes it, so a dropped petition leaves a handle that refuses to
  petition again. (So does one whose request cannot be built.)
* **A stale prefix** (`prefix_stale`, `PrefixNotStale`). A comment in
  `transport.rs` and `docs/PARITY.md:45` say a dataset change clears the cached
  prefix so that the next route is recomputed. A change processed while the
  prefix is being fetched clears nothing, and the older answer is then cached.
  What does hold is `PrefixReflectsNotices`: a cached prefix reflects every
  change processed before its fetch was sent or after the fetch was over.
* **A session left behind** (`netdiag_resign`, `ResignsBeforeExit`). The header
  of ot-netdiag's `main.rs` says the tool "always resigns the commissioner
  session before exiting". When a keep-alive fails or is answered Pending,
  `collect.rs:396` and `:405` disconnect the handle first. The resignation that
  follows is refused locally for want of a session ID, and the leader, which may
  hold the session still, has to time it out.
* **A disabled joiner** (`cli_disable`, `DisableRewritesSteering`). A comment in
  the `disable` branch of `joiner.rs` says "Steering is rewritten from the
  remaining enabled joiners". The branch sends nothing, and the leader's filter
  goes on admitting the joiner that was enabled. It no longer has a PSKd there, unless every
  joiner is enabled: `HandlerMatchesTable` holds all the same.

## 4. Proofs

The theorems hold for every value of the constants that satisfies the named
ASSUMEs of the modules: markers such as `NoPskd`, `NoJoiner` and the server's
address differ from real values; timeouts, widths and bounds are natural numbers,
positive where it matters; and the conditions on durations that the code states
or tests itself (`ExchangeAssumption` is the minimum of the keep-alive interval,
`HeadroomAssumption` the comment above `COMMAND_KEEPALIVE_HEADROOM`). The
configured numbers satisfy them. The rest say what the outside gives the code:

* `MeshAssumption`, what a Thread mesh guarantees of the nodes that are walked.
  Router IDs end at 62, as Thread assigns them (63 is where the code's
  `LEADER_ALOC16` and the other anycast locators are), child IDs are 1 to 1023, a node reports its own RLOC16, link qualities are two
  bits wide, a Route64 has one entry per router, and a node answers at least one
  TLV at a time. Nothing is assumed of how tables of different nodes agree, of
  who is a neighbour of whom, or of which TLVs a node has.
* `BodyAssumption`, the reassembled message has between 1 and
  `MAX_HANDSHAKE_MESSAGE_LEN` bytes; a longer one is refused by the code.
* `JoinerAssumption` and `FilterAssumption`, joiner IDs and steering data are
  sequences of bytes; `DatasetAssumption` and `EditAssumption`, datasets are lists
  of TLVs and the values written into them sequences of bytes.

Every invariant below was checked with TLC on the run's instance before it was
proved (`DatasetInv` with the list it speaks of computed from what is held).

**JoinerRelay.** None of the properties is inductive by itself. The proof is in
layers, each resting on the ones before:

1. A contract `OutOK` of every record handler. From a
   well-formed session it gives a well-formed one with the same identity, PSKd
   and deadline; new records are numbered between the old and the new counters;
   a decision, once made, stays; a response carries it, and the KEK flag says
   whether it accepts. `Tells` is the same for events.
2. `TableInv`, the types, every session well formed and
   agreeing with its creation in `born` (handler calls are 0 or 1 and follow
   the decision), and no work pending between datagrams. Gives `TypeCorrect`
   and `Freshness`, and, because an outcome touches one entry only,
   `FailureStaysLocal`.
3. `NumberInv`, every record built is numbered below
   its session's counters and cached flights are records built; gives
   `NoncesUnique`. `DecisionInv`, every response of a session carries its
   decision, and everything pending or sent has the KEK exactly with accepting
   responses; gives `DecisionUnique`. `AuthInv`, a Finished under a key was sent
   by a joiner with that key's PSKd, and a connected session has received one
   under its own key; gives `EntrustmentAuthentic`. `ReportInv` and `HeardInv`
   relate decisions to the log of events, queued and pending, and to what the
   joiner heard; they give `ViewsAgree` and `DecisionReported`.

**RecordChannel.** The invariant is the exactness of the window together with
"what was delivered was sent"; without the latter a delivery could outrun the
sender. `MarkExact` shows `mark_seen` keeps it in the three cases of the code
(first record, newer record shifting the bits, older record setting one). From
it follow `ChannelTypes`, `ReplayWindowExact`, `WindowMovesByDelivery` and
`ImplementsAtMostOnce`, the refinement: each step is a send, a first delivery
or a stutter.

**Commissioner.** `AnswersMatch` and `OwnAnswerDecides` rest on `FlightInv`:
every request and every response in flight carries an identity that was
allocated no later than the current operation's, a response that carries exactly
that identity is its genuine answer, and a message nobody asked for carries
neither a state nor a prefix, which is the assumption of section 2. Identities are compared modulo `IdSpace`;
`TokenInjective` shows that two less than `IdSpace` apart with the same token are
equal, and `Take` keeps them that close. `OperationInv` says what an operation in
progress implies about the handle, `FloorInv` that the version a cached prefix
must reflect is at most the last notified one. Theorems: `HandleTypes`,
`NeverAnothersAnswer`, `OwnAnswerAlone`, `LifecycleHolds`,
`PrefixFollowsNotices`, `SessionIsGranted`, `DisconnectIsFinal`. They hold for
every choice of `NoteTokens`.

**DtlsHandshake.** `HandshakeInv` has four parts beside the types: `NumberInv`
(a hello or a flight names a connect that took place, and no connect's number is
given out twice), `CookieInv` (the cookie of a ClientHello is absent or was
received by its client), `KeyInv` (whose secret is in a key, and a Finished on
its way to a client belongs to an accept that returned a session to it) and
`TranscriptInv` (a client's flight tells the state of its sender, as long as the
sender is in the same connect and has not failed). The agreement theorems
`ConnectImpliesAccept` and `AcceptImpliesConnect` follow because a Finished
verifies only under the key of both attempts; `ServerCommitsAfterCookie` follows
from `CookieInv`.

**CliSession.** `LeftInv`: while a command runs, the time left covers the cost
of all its remaining steps, however they end. The check before a command
establishes it from `HeadroomAssumption`, each step consumes its own share. With
`ArmedInv`, `HandlerInv` and `NoticeInv` it gives `KeepAliveInTime`,
`SessionIsServiced`, `HandlerIsCurrent` and `EveryNoticeKept`.

**NetdiagCollect, timing.** `TimeInv`: while an answer is awaited, the time
since the last keep-alive plus the node's timeout is below the interval. Sending
checks it, and a keep-alive resets it. With the invariants that say where the
walk is and what it still has to do it gives `WalkTypes`, `KeepAliveNeverLate`
and `WalkStaysInSession`.

**NetdiagCollect, report.** The three properties of the finished report are about
state that is built up over many exchanges, so `ReportInv` says what is true of
it at every point on the way:

* `CollectInv`, one `collect_diag`: what was merged so far is what the node
  says, and `Progress`, every TLV the node owes (it has it, can answer it alone
  and no request for it alone was lost) is merged or still in a batch on the
  stack. Halving a batch, popping one that was answered and merging its answer
  each keep the union. While the node has not been primed, the attempts made are
  paid for by faults, at most one of them by an address that was not yet
  resolved.
* `Recorded`, a node already in the report has everything it owes, or it is
  excused: it left, or more than two faults occurred, or it is a child whose
  turn is still to come.
* `Drawn`, the snapshot of the whole mesh so far: the roles, children and routes
  of a record are those of the node's answer, every child is under a router that
  listed it, and the leader is in the report or on the list.
* `StageInv`, who is being asked at each stage and for which TLVs.

`AnswersAreComplete`, `NobodyIsMissed` and `SnapshotHangsTogether` follow. They
rest on lemmas about the collector's pure functions: `Chunks`, the sorted list of
routers, `MergeNetdiag`, and the links that `graph.rs` draws from both ends.

**Reassembly.** `ReassemblyInv`: the bytes a `HandshakeReassembler` holds are
within the length it was told and unchanged since they came; and as long as only
fragments of one message were pushed, what is held agrees with that message and
the positions filled are exactly those the fragments cover.
`ReassemblyIsExact` follows for a message of any length up to the code's 64 KiB
limit, cut, repeated and reordered in any way.

**SteeringData.** `SteeringInv`: after the first joiner the steering data is a
16-byte filter, and both hash bits of every joiner added so far are set in it.
Setting a bit keeps the others (`set_bit` through the arithmetic of inclusive
or on one byte). `SteeringStaysOpen` follows for any joiner IDs and any initial
steering data. That the CRC-16 of a joiner ID is a number at all had to be shown
too: tlapm knows nothing of a recursively defined function until it is proved
that one exists, and there is no induction to prove it with. `LeastNatural`
takes a least counterexample by the well-foundedness of `<`, `CountingUp` turns
that into induction over an opaque predicate, and `Iterates` builds the function.

**TLV sets and datasets.** `TlvRoundTrip`: `TlvSet::parse` returns exactly the
entries that `TlvSet::encode` wrote, for any number of entries, any types and
any lengths the encoder accepts, on both sides of the change from the two-byte
to the four-byte header. The proof is the same counting induction: what was
written for the last n entries parses to those entries. One header tells
`parse_one` where its value ends whatever follows it (`ParseWritten`), and
`Encoding` and `Parsing` give the recursion of the two loops.
`DatasetInv`, for the editing of datasets: there is a list of TLVs whose last
value of each type says what was last written, and what is held is that list, or
bytes that parse to it. The last disjunct is what makes the invariant inductive:
after a save, the bytes alone say nothing of the accessors. Saving keeps it by
`TlvRoundTrip`; `set_raw` and `remove_all` by lemmas on the last value of a type
(`SetLast`, `Removed`), which hold whatever duplicates the dataset came with; a
threshold change by the arithmetic of the 16-bit flags word (`FlagFields`: the
three version bits, the legacy bit and the others make up the word;
`ThresholdSet`: the setter changes only the former two). `DatasetReadsBackAlways` follows.

`ReassemblyIsExact`, `SteeringStaysOpen` and `DatasetReadsBackAlways` are about
`ReassemblySpec`, `SteeringSpec` and `DatasetSpec`, the specifications of the
three stories alone. `Codecs` composes
their initial states and steps with the other stories'; a step belongs to the
story that `part` names and never changes `part`, so a behaviour of `Codecs`
that begins with one of these stories is a behaviour of its specification.

Only model-checked:

* all liveness (`WalkEnds`, `HandshakeEnds`, `CleanHandshakeCompletes`,
  `KeepAliveHappens`): liveness under fairness is beyond the prover;
* `RoundTrip` and `TruncationNeverMisread`: they compare recursive encoders with
  recursive decoders of a dozen formats, and each would need an induction over
  the structure of the message, as `TlvRoundTrip` is for one of them;
* `KeysAgree`: it is algebra in a field of prime order, where the existence of
  inverses is itself an induction.

## 5. What is not modelled

* **Cryptographic computation**: P-256, the TLS PRF, AES-CCM, PBKDF2, AES-CMAC
  and the SHA-256 of an EUI-64. They are assumed ideal as described above; their
  test vectors are the right check.
* **Adapters and input or output**: the Tokio sockets, the scripted transport of
  the tests, configuration files and their ranges, argument parsing, printing,
  the JSON form of datasets, and the layout of the text, DOT and HTML reports.
  What the reports contain is in `Topology`.
* **The ESP32-H2 demonstration**, which is board support around the library.

Hazards that no property covers, with the reason:

* That a joiner eventually joins (`joiner.rs:360`). It depends on how often the
  joiner retries and on what the relay loses, which the repository does not say.
* A joiner that moved to another joiner router after its session was created
  (`relay.rs:97`): the relay address is not in the model, and an answer that
  misses its joiner is one of the network's losses.
* How long a handshake may wait (`driver.rs:265`): the receive timer restarts with
  every datagram and `DtlsHandshake` counts no time. `HandshakeEnds` shows that
  the waits end once the datagrams do.
* A proxied request that goes unanswered because the prefix is wrong leaves the
  prefix cached (`transport.rs:24`); no document says it should not.
* Records behind the first one in a datagram are dropped (`driver.rs:227`): the
  model has it, and the at-most-once promise allows it.
