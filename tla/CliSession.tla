------------------------------ MODULE CliSession ------------------------------
(***************************************************************************)
(* The interactive commissioner (ot-commissioner-cli): the read loop of    *)
(* cli/mod.rs, the interpreter's keep-alive schedule, and the commands     *)
(* that own the commissioner's transport while they wait.                  *)
(*                                                                         *)
(* One task runs everything, so a keep-alive cannot be sent while a        *)
(* command waits.  The interpreter therefore looks at the time left before *)
(* it starts a command and sends the keep-alive first if the command might *)
(* outlast it.  Time is counted in units in which one MeshCoP exchange     *)
(* takes at most ExchangeTimeout; it passes while the loop waits for input *)
(* and during exchanges.                                                   *)
(*                                                                         *)
(* A command is the sequence of exchanges it makes (Steps).  A PSKd is a   *)
(* model value; a notice stands for the energy reports and PAN ID          *)
(* conflicts the interpreter keeps.  The leader's steering data is the set *)
(* of joiners its filter admits, and its length in bytes.                  *)
(***************************************************************************)
EXTENDS Integers, Sequences

CONSTANTS
    Joiners,           \* joiner identities
    Pskds,             \* PSKds
    NoJoiner, NoPskd,  \* absent values
    Interval,          \* the configured keep-alive interval
    Headroom,          \* COMMAND_KEEPALIVE_HEADROOM
    ExchangeTimeout,   \* MESHCOP_TIMEOUT
    HandshakeTimeout,  \* DTLS_HANDSHAKE_TIMEOUT
    PumpTime,          \* how long a scan collects reports
    MaxNotices         \* bound on the notices that arrive

ASSUME TimeAssumption ==
    /\ {Interval, Headroom, ExchangeTimeout, HandshakeTimeout, PumpTime} \subseteq Nat
    /\ ExchangeTimeout > 0

(* What interpreter/mod.rs:34-39 and :191-193 rely on: no command takes      *)
(* longer than the headroom, and a start no longer than the interval.        *)
ASSUME HeadroomAssumption ==
    /\ 4 * ExchangeTimeout <= Headroom
    /\ ExchangeTimeout + PumpTime <= Headroom
    /\ Headroom <= Interval
    /\ HandshakeTimeout + ExchangeTimeout <= Interval

VARIABLES
    pc,        \* "prompt", "keepalive", "dispatch", "command" or "exited"
    cmd,       \* the command being run, or the one a keep-alive goes before
    steps,     \* what the command still has to do
    handle,    \* the interpreter's commissioner
    fresh,     \* the commissioner a start is bringing up
    timer,     \* whether keepalive_deadline is set
    left,      \* the time until it
    pskds,     \* joiner_pskds
    allPskd,   \* joiner_all_pskd
    reports,   \* energy_reports and panid_conflicts
    steering,  \* the leader's steering data
    notices,   \* the number of notices that arrived
    dropped    \* history: notices that went with their commissioner

vars == <<pc, cmd, steps, handle, fresh, timer, left, pskds, allPskd, reports, steering,
          notices, dropped>>

-----------------------------------------------------------------------------
(* Commands, as <<name, joiner, pskd>>.  "local" stands for help, config,    *)
(* state, active, sessionid, the cached reports and every line that fails    *)
(* before it reaches the network.                                            *)

Plain == {"start", "connect", "stop", "borderagent", "getport", "setport", "disableall",
          "commdataset get", "commdataset set", "bbrdataset", "opdataset get", "opdataset set",
          "opdataset field get", "opdataset field set", "managed", "mlr", "announce", "panid",
          "energy", "netdiag", "local", "exit"}

Commands ==
    (Plain \X {NoJoiner} \X {NoPskd})
      \cup ({"enable"} \X Joiners \X Pskds)
      \cup ({"enableall"} \X {NoJoiner} \X Pskds)
      \cup ({"disable"} \X Joiners \X {NoPskd})

NoCommand == <<"none", NoJoiner, NoPskd>>

(* command_may_wait_for_commissioner.                                        *)
MayWait(name) ==
    name \in (Plain \ {"stop", "local", "exit"}) \cup {"enable", "enableall"}

(* What the commands do with the commissioner: "session" is                  *)
(* session_id_required, "exchange" one request and its answer, "prefix" the  *)
(* exchange for the mesh-local prefix the leader's address needs (unless it  *)
(* is cached), "write" the one that changes the leader's commissioner        *)
(* dataset, "pump" pump_events.  The commissioner of a start connects with   *)
(* its first exchange and is installed at the end.                           *)

CmdStart == <<"handshake", "petition", "install">>

CmdStop == <<"resign">>

GetCommissionerDataset == <<"prefix", "exchange">>

SetCommissionerDataset == <<"session", "prefix", "write">>

EnableJoiner == GetCommissionerDataset \o SetCommissionerDataset

CmdBorderAgent == GetCommissionerDataset

CmdCommDataset(name) ==
    IF name = "commdataset get" THEN GetCommissionerDataset ELSE SetCommissionerDataset

CmdBbrDataset == <<"exchange">>

CmdOpDataset(name) == IF name = "opdataset get" THEN <<"exchange">> ELSE <<"session", "exchange">>

OpDatasetFieldGet == <<"exchange">>

(* The active timestamp is fetched first.                                    *)
OpDatasetFieldSet == <<"exchange", "session", "exchange">>

(* reenroll, domainreset and migrate.                                        *)
CmdManaged == <<"session", "exchange">>

CmdMlr == <<"session", "prefix", "exchange">>

CmdAnnounce == <<"session", "exchange">>

CmdPanid == <<"session", "exchange", "pump">>

CmdEnergy == <<"session", "exchange", "pump">>

CmdNetdiag == <<"session", "exchange">>

Steps(name) ==
    CASE name = "start" -> CmdStart
      [] name = "stop" -> CmdStop
      [] name = "borderagent" -> CmdBorderAgent
      [] name = "getport" -> GetCommissionerDataset
      [] name = "enable" -> EnableJoiner
      [] name \in {"setport", "enableall", "disableall"} -> SetCommissionerDataset
      [] name \in {"commdataset get", "commdataset set"} -> CmdCommDataset(name)
      [] name = "bbrdataset" -> CmdBbrDataset
      [] name \in {"opdataset get", "opdataset set"} -> CmdOpDataset(name)
      [] name = "opdataset field get" -> OpDatasetFieldGet
      [] name = "opdataset field set" -> OpDatasetFieldSet
      [] name = "managed" -> CmdManaged
      [] name = "mlr" -> CmdMlr
      [] name = "announce" -> CmdAnnounce
      [] name = "panid" -> CmdPanid
      [] name = "energy" -> CmdEnergy
      [] name = "netdiag" -> CmdNetdiag
      [] OTHER -> <<>>

-----------------------------------------------------------------------------
Handler == [all |-> allPskd, ids |-> pskds]

NoPskds == [j \in Joiners |-> NoPskd]

NoHandle == [st |-> "none", prefix |-> "none", queue |-> <<>>,
             handler |-> [all |-> NoPskd, ids |-> NoPskds]]

(* Commissioner::connect and install_joiner_handler.                         *)
Connected == [NoHandle EXCEPT !.st = "connected", !.handler = Handler]

Queued(h) == {h.queue[i] : i \in DOMAIN h.queue}

Disconnect(h) == [h EXCEPT !.st = "disabled", !.prefix = "none"]

(* Steering data: enable_all_joiners writes one byte, 0xff or 0x00; anything *)
(* but a 16-byte filter is cleared before a joiner is added to it.           *)
Nobody == [len |-> 1, ids |-> {}]

Anyone == [len |-> 1, ids |-> Joiners]

AddJoiner(s, j) == [len |-> 16, ids |-> (IF s.len = 16 THEN s.ids ELSE {}) \cup {j}]

(* A commissioner after an exchange: a notice may have been queued, and a    *)
(* dataset change may have dropped the cached prefix.                        *)
Heard(h) ==
    LET queues == {h.queue} \cup
                  (IF notices < MaxNotices THEN {Append(h.queue, notices + 1)} ELSE {})
    IN  {[h EXCEPT !.queue = q] : q \in queues} \cup
        {[h EXCEPT !.queue = q, !.prefix = "none"] : q \in queues}

Counts(h, g) == notices' = notices + Len(g.queue) - Len(h.queue)

Spend(d) == left' = IF timer = "armed" THEN left - d ELSE left

(* schedule_keepalive.                                                       *)
Schedule(h) ==
    IF h.st = "active" THEN timer' = "armed" /\ left' = Interval
                       ELSE timer' = "off" /\ left' = 0

Unschedule == timer' = "off" /\ left' = 0

Init ==
    /\ pc = "prompt"
    /\ cmd = NoCommand
    /\ steps = <<>>
    /\ handle = NoHandle
    /\ fresh = NoHandle
    /\ timer = "off"
    /\ left = 0
    /\ pskds = NoPskds
    /\ allPskd = NoPskd
    /\ reports = <<>>
    /\ steering = Nobody
    /\ notices = 0
    /\ dropped = {}

-----------------------------------------------------------------------------
(* The read loop: sleep_until(deadline) against the input, biased.           *)

Tick ==
    /\ pc = "prompt" /\ timer = "armed" /\ left > 0
    /\ left' = left - 1
    /\ UNCHANGED <<pc, cmd, steps, handle, fresh, timer, pskds, allPskd, reports, steering,
                   notices, dropped>>

(* handle_scheduled_keepalive up to its exchange.                            *)
BeginKeepAlive(c) ==
    /\ Unschedule
    /\ IF handle.st = "active" THEN pc' = "keepalive" /\ cmd' = c
                               ELSE pc' = "prompt" /\ cmd' = NoCommand
    /\ UNCHANGED <<steps, handle, fresh, pskds, allPskd, reports, steering, notices, dropped>>

KeepAliveDue ==
    /\ pc = "prompt" /\ timer = "armed" /\ left = 0
    /\ BeginKeepAlive(NoCommand)

(* Fault: the headroom is compared with the interval, not the time left. *)
NeedsRefreshNever(c) ==
    /\ MayWait(c[1]) /\ timer = "armed"
    /\ c[1] \in {"start", "connect"} \/ Interval <= Headroom

NeedsRefresh(c) ==
    /\ MayWait(c[1]) /\ timer = "armed"
    /\ c[1] \in {"start", "connect"} \/ left <= Headroom

(* Fault: the loop sleeps for the interval anew after every line of input. *)
EvaluateRestarts(c) ==
    /\ pc = "prompt" /\ ~(timer = "armed" /\ left = 0)
    /\ pc' = "dispatch" /\ cmd' = c
    /\ left' = IF timer = "armed" THEN Interval ELSE left
    /\ UNCHANGED <<steps, handle, fresh, timer, pskds, allPskd, reports, steering, notices,
                   dropped>>

(* evaluate_and_print: the keep-alive first if the command may outlast it.   *)
Evaluate(c) ==
    /\ pc = "prompt" /\ ~(timer = "armed" /\ left = 0)
    /\ \/ NeedsRefresh(c) /\ BeginKeepAlive(c)
       \/ /\ ~NeedsRefresh(c)
          /\ pc' = "dispatch" /\ cmd' = c
          /\ UNCHANGED <<steps, handle, fresh, timer, left, pskds, allPskd, reports, steering,
                         notices, dropped>>

(* Fault: events deferred while the response is looked for are dropped. *)
KeepAliveAcceptedDeaf ==
    /\ pc = "keepalive"
    /\ \E h \in Heard(handle) :
         /\ handle' = [h EXCEPT !.queue = <<>>]
         /\ Schedule(h)
         /\ Counts(handle, h)
    /\ IF cmd = NoCommand THEN pc' = "prompt" ELSE pc' = "dispatch"
    /\ UNCHANGED <<cmd, steps, fresh, pskds, allPskd, reports, steering, dropped>>

(* The response is found behind the queued events, which are recorded.       *)
KeepAliveAccepted ==
    /\ pc = "keepalive"
    /\ \E h \in Heard(handle) :
         /\ handle' = [h EXCEPT !.queue = <<>>]
         /\ reports' = reports \o h.queue
         /\ Schedule(h)
         /\ Counts(handle, h)
    /\ IF cmd = NoCommand THEN pc' = "prompt" ELSE pc' = "dispatch"
    /\ UNCHANGED <<cmd, steps, fresh, pskds, allPskd, steering, dropped>>

(* Fault: a rejected keep-alive is reported and the session kept. *)
KeepAliveRefusedKept ==
    /\ pc = "keepalive"
    /\ pc' = "prompt" /\ cmd' = NoCommand
    /\ UNCHANGED <<handle, reports, notices, steps, fresh, timer, left, pskds, allPskd, steering,
                   dropped>>

(* Pending or Reject: recorded like an acceptance, but the session is given  *)
(* up.  A failed exchange leaves the queue as it is.  The command that was   *)
(* waiting is not run.                                                       *)
KeepAliveRefused ==
    /\ pc = "keepalive"
    /\ \E h \in Heard(handle) :
         /\ \/ handle' = Disconnect([h EXCEPT !.queue = <<>>]) /\ reports' = reports \o h.queue
            \/ handle' = Disconnect(h) /\ UNCHANGED reports
         /\ Counts(handle, h)
    /\ pc' = "prompt" /\ cmd' = NoCommand
    /\ UNCHANGED <<steps, fresh, timer, left, pskds, allPskd, steering, dropped>>

-----------------------------------------------------------------------------
(* The commands.                                                             *)

ToPrompt == pc' = "prompt" /\ cmd' = NoCommand /\ steps' = <<>>

Replace(h) == handle' = h /\ fresh' = NoHandle /\ dropped' = dropped \cup Queued(handle)

(* cmd_start before the petition.                                            *)
Start ==
    /\ pc = "dispatch" /\ cmd[1] = "start"
    /\ fresh' = Connected
    /\ pc' = "command" /\ steps' = Steps("start")
    /\ UNCHANGED <<cmd, handle, timer, left, pskds, allPskd, reports, steering, notices, dropped>>

(* A configuration or address that connect refuses.                          *)
StartFails ==
    /\ pc = "dispatch" /\ cmd[1] \in {"start", "connect"}
    /\ ToPrompt
    /\ UNCHANGED <<handle, fresh, timer, left, pskds, allPskd, reports, steering, notices, dropped>>

ConnectOnly ==
    /\ pc = "dispatch" /\ cmd[1] = "connect"
    /\ Replace(Connected) /\ Schedule(Connected)
    /\ ToPrompt
    /\ UNCHANGED <<pskds, allPskd, reports, steering, notices>>

(* The deadline goes first, whatever becomes of the resignation.             *)
Stop ==
    /\ pc = "dispatch" /\ cmd[1] = "stop"
    /\ Unschedule
    /\ IF handle.st = "none" THEN ToPrompt
                             ELSE pc' = "command" /\ steps' = Steps("stop") /\ UNCHANGED cmd
    /\ UNCHANGED <<handle, fresh, pskds, allPskd, reports, steering, notices, dropped>>

(* joiner disable: the local table only.                                     *)
Disable ==
    /\ pc = "dispatch" /\ cmd[1] = "disable"
    /\ IF handle.st = "none"
       THEN UNCHANGED <<pskds, handle>>
       ELSE /\ pskds' = [pskds EXCEPT ![cmd[2]] = NoPskd]
            /\ handle' = [handle EXCEPT !.handler = [all |-> allPskd, ids |-> pskds']]
    /\ ToPrompt
    /\ UNCHANGED <<fresh, timer, left, allPskd, reports, steering, notices, dropped>>

Local ==
    /\ pc = "dispatch" /\ cmd[1] = "local"
    /\ ToPrompt
    /\ UNCHANGED <<handle, fresh, timer, left, pskds, allPskd, reports, steering, notices, dropped>>

(* exit, quit or the end of the input: the loop ends, with no resignation.   *)
Exit ==
    /\ pc = "dispatch" /\ cmd[1] = "exit"
    /\ pc' = "exited"
    /\ UNCHANGED <<cmd, steps, handle, fresh, timer, left, pskds, allPskd, reports, steering,
                   notices, dropped>>

(* Every other command needs a commissioner, and then works through Steps.   *)
Dispatch ==
    /\ pc = "dispatch"
    /\ cmd[1] \notin {"start", "connect", "stop", "disable", "local", "exit"}
    /\ IF handle.st = "none" THEN ToPrompt
                             ELSE pc' = "command" /\ steps' = Steps(cmd[1]) /\ UNCHANGED cmd
    /\ UNCHANGED <<handle, fresh, timer, left, pskds, allPskd, reports, steering, notices, dropped>>

-----------------------------------------------------------------------------
(* What a command leaves in the interpreter.                                 *)

Tables(all, ids, h) ==
    /\ allPskd' = all /\ pskds' = ids
    /\ handle' = [h EXCEPT !.handler = [all |-> all, ids |-> ids]]

(* Fault: the tables are cleared, the commissioner keeps its handler. *)
FinishTablesOnly(h) ==
    LET name == cmd[1]
    IN  /\ CASE name = "enable" -> Tables(allPskd, [pskds EXCEPT ![cmd[2]] = cmd[3]], h)
             [] name = "enableall" -> Tables(cmd[3], pskds, h)
             [] name = "disableall" -> allPskd' = NoPskd /\ pskds' = NoPskds /\ handle' = h
             [] OTHER -> handle' = h /\ UNCHANGED <<allPskd, pskds>>
        /\ UNCHANGED <<fresh, dropped>>

(* joiner enable, enableall and disableall change the tables and reinstall   *)
(* the handler; disableall does so even if the leader was not told.          *)
Finish(h) ==
    LET name == cmd[1]
    IN  /\ CASE name = "enable" -> Tables(allPskd, [pskds EXCEPT ![cmd[2]] = cmd[3]], h)
             [] name = "enableall" -> Tables(cmd[3], pskds, h)
             [] name = "disableall" -> Tables(NoPskd, NoPskds, h)
             [] OTHER -> handle' = h /\ UNCHANGED <<allPskd, pskds>>
        /\ UNCHANGED <<fresh, dropped>>

(* How a failed command ends.                                                *)
Abort(h) ==
    IF cmd[1] = "disableall" THEN Finish(h)
    ELSE handle' = h /\ UNCHANGED <<allPskd, pskds, fresh, dropped>>

(* What the leader may make of a write: the dataset of `commdataset set' may *)
(* name any steering data.                                                   *)
Written ==
    CASE cmd[1] = "enable" -> {AddJoiner(steering, cmd[2])}
      [] cmd[1] = "enableall" -> {Anyone}
      [] cmd[1] = "disableall" -> {Nobody}
      [] cmd[1] = "commdataset set" ->
           {steering} \cup [len : {1, 16}, ids : SUBSET Joiners]
      [] OTHER -> {steering}

(* The step at hand is done and took d.                                      *)
Advance(h, d) ==
    /\ Spend(d)
    /\ UNCHANGED timer
    /\ IF Len(steps) = 1 THEN Finish(h) /\ ToPrompt
       ELSE /\ handle' = h /\ steps' = Tail(steps)
            /\ UNCHANGED <<pc, cmd, fresh, allPskd, pskds, dropped>>

At(kind) == pc = "command" /\ Head(steps) = kind

RequireSession ==
    /\ At("session")
    /\ IF handle.st = "active" THEN Advance(handle, 0)
       ELSE Abort(handle) /\ ToPrompt /\ UNCHANGED <<timer, left>>
    /\ UNCHANGED <<reports, steering, notices>>

PrefixCached ==
    /\ At("prefix") /\ handle.prefix = "cached"
    /\ Advance(handle, 0)
    /\ UNCHANGED <<reports, steering, notices>>

(* require_mesh_local_prefix with nothing cached.                            *)
PrefixFetched ==
    /\ At("prefix") /\ handle.prefix = "none" /\ handle.st \in {"connected", "active"}
    /\ \E h \in Heard(handle), d \in 0..ExchangeTimeout :
         /\ Advance([h EXCEPT !.prefix = "cached"], d)
         /\ Counts(handle, h)
    /\ UNCHANGED <<reports, steering>>

Exchanged ==
    /\ At("exchange") \/ At("write")
    /\ handle.st \in {"connected", "active"}
    /\ \E h \in Heard(handle), d \in 0..ExchangeTimeout : Advance(h, d) /\ Counts(handle, h)
    /\ steering' \in IF Head(steps) = "write" THEN Written ELSE {steering}
    /\ UNCHANGED reports

(* The exchange fails: refused, or no answer in time, perhaps after the      *)
(* leader took the change.                                                   *)
ExchangeFails ==
    /\ At("exchange") \/ At("write") \/ (At("prefix") /\ handle.prefix = "none")
    /\ \E h \in Heard(handle), d \in 0..ExchangeTimeout :
         /\ Spend(d) /\ UNCHANGED timer
         /\ Abort(h) /\ Counts(handle, h)
    /\ ToPrompt
    /\ steering' \in IF Head(steps) = "write" THEN {steering} \cup Written ELSE {steering}
    /\ UNCHANGED reports

(* pump_events: everything that is or gets queued in PumpTime is recorded.   *)
Pump ==
    /\ At("pump")
    /\ \E h \in Heard(handle), d \in 0..PumpTime :
         /\ Advance([h EXCEPT !.queue = <<>>], d)
         /\ reports' = reports \o h.queue
         /\ Counts(handle, h)
    /\ UNCHANGED steering

(* The commissioner of a start: ensure_dtls_session and petition.  The old   *)
(* one stays, and its time runs.                                             *)
Handshake ==
    /\ At("handshake")
    /\ \E d \in 0..HandshakeTimeout : Spend(d)
    /\ steps' \in {Tail(steps), <<"install">>}
    /\ UNCHANGED <<pc, cmd, handle, fresh, timer, pskds, allPskd, reports, steering, notices,
                   dropped>>

(* A leader may forget the steering data of another session.                 *)
Petition ==
    /\ At("petition")
    /\ \E h \in Heard(fresh), st \in {"active", "connected"}, d \in 0..ExchangeTimeout :
         /\ fresh' = [h EXCEPT !.st = st]
         /\ Spend(d)
         /\ Counts(fresh, h)
         /\ steering' \in IF st = "active" THEN {steering, Nobody} ELSE {steering}
    /\ steps' = Tail(steps)
    /\ UNCHANGED <<pc, cmd, handle, timer, pskds, allPskd, reports, dropped>>

(* The rest of cmd_start: whatever the petition brought, the new             *)
(* commissioner replaces the old one.                                        *)
Install ==
    /\ At("install")
    /\ Replace(fresh) /\ Schedule(fresh)
    /\ ToPrompt
    /\ UNCHANGED <<pskds, allPskd, reports, steering, notices>>

(* cmd_stop drops the commissioner, resigned or not.                         *)
Resign ==
    /\ At("resign")
    /\ Replace(NoHandle)
    /\ ToPrompt
    /\ UNCHANGED <<timer, left, pskds, allPskd, reports, steering, notices>>

KeepAliveEnds == KeepAliveAccepted \/ KeepAliveRefused

Dispatched == \/ Start \/ StartFails \/ ConnectOnly \/ Stop \/ Disable \/ Local \/ Exit \/ Dispatch

CommandStep ==
    \/ RequireSession \/ PrefixCached \/ PrefixFetched \/ Exchanged \/ ExchangeFails
    \/ Pump \/ Handshake \/ Petition \/ Install \/ Resign

Step == KeepAliveDue \/ KeepAliveEnds \/ Dispatched \/ CommandStep

Next == Tick \/ Step \/ \E c \in Commands : Evaluate(c)

Spec == Init /\ [][Next]_vars

(* Every exchange ends, by its timeout at the latest, the loop runs on, and  *)
(* time passes however often the user types.                                 *)
FairSpec == Spec /\ WF_vars(Step) /\ SF_vars(Tick)

-----------------------------------------------------------------------------
(* Properties.                                                               *)

(* The keep-alive of the session is never late: no command, started with the *)
(* time left that the interpreter asks for, holds the transport beyond the   *)
(* deadline (interpreter/mod.rs:34-40, :191-201).                            *)
KeepAliveNotLate == timer = "armed" => left >= 0

(* At the prompt a deadline is armed exactly while the session is active: no *)
(* sequence of starts, stops, failures and refusals leaves an active session *)
(* that nothing keeps alive, or a timer without one (interpreter/mod.rs:171, *)
(* session.rs:69-76).                                                        *)
ActiveIsServiced == pc = "prompt" => (timer = "armed" <=> handle.st = "active")

(* At the prompt the commissioner decides on joiners by the interpreter's    *)
(* own tables, across enabling, disabling, failures and replacement of the   *)
(* commissioner (joiner.rs:136-157, session.rs:56).                          *)
HandlerMatchesTable == pc = "prompt" /\ handle.st # "none" => handle.handler = Handler

(* Every notice that reached a commissioner is recorded once, waits in its   *)
(* queue, or went with it when it was replaced or stopped: none is lost to a *)
(* keep-alive that looks for its own answer (interpreter/mod.rs:111-138).    *)
NoticesKept ==
    /\ {reports[i] : i \in DOMAIN reports} \cup Queued(handle) \cup Queued(fresh) \cup dropped
         = 1..notices
    /\ \A i, k \in DOMAIN reports : reports[i] = reports[k] => i = k

(* An armed deadline is met: a keep-alive goes out, unless the session is    *)
(* given up or the program ends first (cli/mod.rs:150-159).                  *)
KeepAliveHappens == (timer = "armed") ~> (timer = "off" \/ pc = "exited")

(* joiner.rs:94 "Steering is rewritten from the remaining enabled joiners."  *)
(* said of joiner disable: after it the leader no longer admits the joiner   *)
(* that was enabled, unless every joiner is.                                 *)
DisableRewritesSteering ==
    [][pc = "dispatch" /\ cmd[1] = "disable" /\ handle.st = "active"
         /\ pskds[cmd[2]] # NoPskd =>
         cmd[2] \notin steering'.ids \/ allPskd # NoPskd]_vars

===============================================================================
