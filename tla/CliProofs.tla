------------------------------- MODULE CliProofs ------------------------------
(***************************************************************************)
(* What the interactive commissioner promises, for every interval,         *)
(* headroom and timeout that meets HeadroomAssumption, any set of joiners  *)
(* and any number of notices: its keep-alive is never late, an active      *)
(* session is always serviced, and its joiner handler is its own table's.  *)
(***************************************************************************)
EXTENDS CliSession, SequenceTheorems, TLAPS

\* The obligations of this module carry a large context, which Zenon takes better than
\* SMT, and whose translation for SMT may take more than one attempt.
USE ZenonT(5), SMTT(30), ZenonT(25), SMTT(20), SMTT(25)

-----------------------------------------------------------------------------
(* The longest each step, and so what is left of a command, can take.        *)

Kinds == {"session", "prefix", "exchange", "write", "pump"}

StepTime(kind) ==
    CASE kind \in {"prefix", "exchange", "write", "petition"} -> ExchangeTimeout
      [] kind = "pump" -> PumpTime
      [] kind = "handshake" -> HandshakeTimeout
      [] OTHER -> 0

Share(s, i) == IF i <= Len(s) THEN StepTime(s[i]) ELSE 0

(* No command has more than five steps.                                      *)
Cost(s) == Share(s, 1) + Share(s, 2) + Share(s, 3) + Share(s, 4) + Share(s, 5)

(* The times are natural numbers.                                            *)
LEMMA Times ==
    /\ Interval \in Nat /\ Headroom \in Nat /\ ExchangeTimeout \in Nat
    /\ HandshakeTimeout \in Nat /\ PumpTime \in Nat
    /\ 4 * ExchangeTimeout <= Headroom
    /\ ExchangeTimeout + PumpTime <= Headroom
    /\ Headroom <= Interval
    /\ HandshakeTimeout + ExchangeTimeout <= Interval
BY TimeAssumption, HeadroomAssumption

(* So is every share of a cost.                                              *)
LEMMA Shares == \A s, i : Share(s, i) \in Nat
<1>1. \A k : StepTime(k) \in Nat
  BY Times DEF StepTime
<1> QED
  BY <1>1 DEF Share

(* A step that is done takes its share with it.                              *)
LEMMA TailCost ==
    ASSUME NEW S, NEW s \in Seq(S), Len(s) >= 1, Len(s) <= 5
    PROVE  /\ Cost(Tail(s)) = Cost(s) - StepTime(Head(s))
           /\ Cost(s) >= StepTime(Head(s))
           /\ StepTime(Head(s)) \in Nat /\ Cost(s) \in Nat /\ Cost(Tail(s)) \in Nat
<1>0. Len(s) \in Nat /\ Len(Tail(s)) = Len(s) - 1
  OBVIOUS
<1>1. Share(s, 1) = StepTime(Head(s))
  BY DEF Share
<1>2. ASSUME NEW i \in 1..4
      PROVE  Share(Tail(s), i) = Share(s, i + 1)
  <2>1. CASE i + 1 <= Len(s)
    BY <1>0, <2>1 DEF Share
  <2>2. CASE ~(i + 1 <= Len(s))
    BY <1>0, <2>2 DEF Share
  <2> QED
    BY <2>1, <2>2
<1>3. /\ Share(Tail(s), 1) = Share(s, 2) /\ Share(Tail(s), 2) = Share(s, 3)
      /\ Share(Tail(s), 3) = Share(s, 4) /\ Share(Tail(s), 4) = Share(s, 5)
  BY <1>2
<1>4. Share(Tail(s), 5) = 0
  BY <1>0 DEF Share
<1>5. /\ Share(s, 1) \in Nat /\ Share(s, 2) \in Nat /\ Share(s, 3) \in Nat
      /\ Share(s, 4) \in Nat /\ Share(s, 5) \in Nat
  BY Shares
<1> QED
  BY <1>1, <1>3, <1>4, <1>5 DEF Cost

(* What a start takes.                                                       *)
LEMMA StartCost ==
    /\ Cost(<<"handshake", "petition", "install">>) = HandshakeTimeout + ExchangeTimeout
    /\ Cost(<<"petition", "install">>) = ExchangeTimeout
    /\ Cost(<<"install">>) = 0
BY Times DEF Cost, Share, StepTime

(* A sequence of steps that fits the headroom.                               *)
Fits(s) == s \in Seq(Kinds) /\ Len(s) >= 1 /\ Len(s) <= 5 /\ Cost(s) <= Headroom

(* joiner enable reads the dataset and writes it back.                       *)
LEMMA EnableFits == Fits(EnableJoiner)
<1> DEFINE a == <<"prefix", "exchange">>
           b == <<"session", "prefix", "write">>
<1>1. /\ a \in Seq(Kinds) /\ Len(a) = 2 /\ a[1] = "prefix" /\ a[2] = "exchange"
      /\ b \in Seq(Kinds) /\ Len(b) = 3 /\ b[1] = "session" /\ b[2] = "prefix" /\ b[3] = "write"
  BY DEF Kinds
<1>2. EnableJoiner = a \o b
  BY DEF EnableJoiner, GetCommissionerDataset, SetCommissionerDataset
<1> HIDE DEF a, b
<1>c. /\ EnableJoiner \in Seq(Kinds) /\ Len(EnableJoiner) = Len(a) + Len(b)
      /\ \A i \in 1..Len(a) + Len(b) :
           EnableJoiner[i] = IF i <= Len(a) THEN a[i] ELSE b[i - Len(a)]
  BY <1>1, <1>2, ConcatProperties
<1>3. EnableJoiner \in Seq(Kinds) /\ Len(EnableJoiner) = 5
  BY <1>1, <1>c
<1>4. /\ EnableJoiner[1] = "prefix" /\ EnableJoiner[2] = "exchange"
      /\ EnableJoiner[3] = "session" /\ EnableJoiner[4] = "prefix" /\ EnableJoiner[5] = "write"
  BY <1>1, <1>c
<1>5. /\ Share(EnableJoiner, 1) = ExchangeTimeout /\ Share(EnableJoiner, 2) = ExchangeTimeout
      /\ Share(EnableJoiner, 3) = 0 /\ Share(EnableJoiner, 4) = ExchangeTimeout
      /\ Share(EnableJoiner, 5) = ExchangeTimeout
  BY <1>3, <1>4 DEF Share, StepTime
<1> QED
  BY <1>3, <1>5, Times DEF Cost, Fits

(* The commands that use a commissioner take no more than the headroom.      *)
LEMMA CommandFits ==
    ASSUME NEW name \in (Plain \cup {"enable", "enableall"})
                          \ {"start", "connect", "stop", "disable", "local", "exit"}
    PROVE  Fits(Steps(name))
<1>1. /\ Fits(<<"exchange">>)
      /\ Fits(<<"session", "exchange">>)
      /\ Fits(<<"prefix", "exchange">>)
  BY Times DEF Fits, Kinds, Cost, Share, StepTime
<1>2. /\ Fits(<<"session", "prefix", "write">>)
      /\ Fits(<<"session", "prefix", "exchange">>)
      /\ Fits(<<"exchange", "session", "exchange">>)
      /\ Fits(<<"session", "exchange", "pump">>)
  BY Times DEF Fits, Kinds, Cost, Share, StepTime
<1>3. \/ Steps(name) = <<"exchange">>
      \/ Steps(name) = <<"session", "exchange">>
      \/ Steps(name) = <<"prefix", "exchange">>
      \/ Steps(name) = <<"session", "prefix", "write">>
      \/ Steps(name) = <<"session", "prefix", "exchange">>
      \/ Steps(name) = <<"exchange", "session", "exchange">>
      \/ Steps(name) = <<"session", "exchange", "pump">>
      \/ Steps(name) = EnableJoiner
  BY DEF Plain, Steps, CmdBorderAgent, GetCommissionerDataset, SetCommissionerDataset,
         CmdCommDataset, CmdBbrDataset, CmdOpDataset, OpDatasetFieldGet, OpDatasetFieldSet,
         CmdManaged, CmdMlr, CmdAnnounce, CmdPanid, CmdEnergy, CmdNetdiag
<1> QED
  BY <1>1, <1>2, <1>3, EnableFits

-----------------------------------------------------------------------------
(* The inductive invariant.                                                  *)

States == {"none", "connected", "active", "disabled"}

(* A commissioner handle.                                                    *)
Full(h) == {"st", "prefix", "queue", "handler"} \subseteq DOMAIN h /\ h.st \in States

PlaceInv ==
    /\ pc \in {"prompt", "keepalive", "dispatch", "command", "exited"}
    /\ timer \in {"armed", "off"}
    /\ left \in Int
    /\ Full(handle) /\ Full(fresh)
    /\ pc = "dispatch" => cmd \in Commands
    /\ pc = "keepalive" => cmd \in Commands \cup {NoCommand}

(* What a running command still has to do.                                   *)
StartSteps ==
    {<<"handshake", "petition", "install">>, <<"petition", "install">>, <<"install">>}

StepsInv ==
    pc = "command" =>
      \/ cmd[1] = "start" /\ steps \in StartSteps
      \/ cmd[1] = "stop" /\ steps = <<"resign">>
      \/ /\ cmd[1] \notin {"start", "stop"}
         /\ steps \in Seq(Kinds) /\ Len(steps) >= 1 /\ Len(steps) <= 5

(* The deadline is armed exactly while the session is active, but for the    *)
(* keep-alive itself and for a stop, which are about to change the session.  *)
ArmedInv ==
    /\ pc \in {"prompt", "dispatch", "exited"} => (timer = "armed" <=> handle.st = "active")
    /\ pc = "keepalive" => timer = "off" /\ handle.st = "active"
    /\ pc = "command" => IF cmd[1] = "stop" THEN timer = "off"
                                            ELSE timer = "armed" <=> handle.st = "active"

(* The time left covers what the command still has to do; when a command is  *)
(* dispatched it is the whole interval or more than the headroom.            *)
LeftInv ==
    timer = "armed" =>
      /\ left >= 0
      /\ pc = "dispatch" /\ MayWait(cmd[1]) =>
           left = Interval \/ (left > Headroom /\ cmd[1] \notin {"start", "connect"})
      /\ pc = "command" => left >= Cost(steps)

(* A commissioner has the handler of the interpreter's own tables.           *)
HandlerInv ==
    /\ handle.st # "none" => handle.handler = Handler
    /\ pc = "command" /\ cmd[1] = "start" => fresh.handler = Handler

CliInv == PlaceInv /\ StepsInv /\ ArmedInv /\ LeftInv /\ HandlerInv

-----------------------------------------------------------------------------
(* What an exchange leaves of a commissioner.                                *)
LEMMA HeardKeeps ==
    ASSUME NEW h, Full(h), NEW g \in Heard(h)
    PROVE  Full(g) /\ g.st = h.st /\ g.handler = h.handler
<1>1. \E q : \/ g = [h EXCEPT !.queue = q]
              \/ g = [h EXCEPT !.queue = q, !.prefix = "none"]
  BY DEF Heard
<1> QED
  BY <1>1 DEF Full

(* A new commissioner.                                                       *)
LEMMA NewHandles ==
    /\ Full(NoHandle) /\ NoHandle.st = "none"
    /\ Full(Connected) /\ Connected.st = "connected" /\ Connected.handler = Handler
<1>1. Full(NoHandle) /\ NoHandle.st = "none"
  BY DEF NoHandle, Full, States
<1>2. Full(Connected) /\ Connected.st = "connected" /\ Connected.handler = Handler
  BY DEF NoHandle, Connected, Full, States
<1> QED
  BY <1>1, <1>2

(* The invariant holds when the program starts.                              *)
LEMMA CliStart == Init => CliInv
<1> SUFFICES ASSUME Init PROVE CliInv
  OBVIOUS
<1>1. pc = "prompt" /\ timer = "off" /\ left = 0 /\ handle = NoHandle /\ fresh = NoHandle
  BY DEF Init
<1>2. handle.st = "none" /\ Full(handle) /\ Full(fresh)
  BY <1>1, NewHandles
<1> QED
  BY <1>1, <1>2 DEF CliInv, PlaceInv, StepsInv, ArmedInv, LeftInv, HandlerInv

(* The end of a command at the prompt keeps the tables and the handler       *)
(* together, whichever command it is.                                        *)
LEMMA FinishKeeps ==
    ASSUME NEW h, Full(h), h.st # "none" => h.handler = Handler, Finish(h) \/ Abort(h)
    PROVE  /\ Full(handle') /\ handle'.st = h.st /\ fresh' = fresh
           /\ h.st # "none" => handle'.handler = Handler'
<1>0. fresh' = fresh
  BY DEF Finish, Abort
<1>1. ASSUME NEW a, NEW b, Tables(a, b, h)
      PROVE  Full(handle') /\ handle'.st = h.st /\ handle'.handler = Handler'
  BY <1>1 DEF Tables, Full, Handler
<1>2. CASE handle' = h /\ UNCHANGED <<allPskd, pskds>>
  BY <1>0, <1>2 DEF Handler
<1> QED
  BY <1>0, <1>1, <1>2 DEF Finish, Abort

-----------------------------------------------------------------------------
(* One step of a command that works with the interpreter's commissioner.     *)
Works ==
    /\ pc = "command" /\ Head(steps) \in Kinds
    /\ \E d \in Nat : d <= StepTime(Head(steps)) /\ Spend(d)
    /\ timer' = timer /\ fresh' = fresh
    /\ Full(handle') /\ handle'.st = handle.st
    /\ handle.st # "none" => handle'.handler = Handler'
    /\ \/ ToPrompt
       \/ Len(steps) # 1 /\ steps' = Tail(steps) /\ UNCHANGED <<pc, cmd>>

(* An advance with a commissioner that an exchange left is such a step.      *)
LEMMA AdvanceWorks ==
    ASSUME CliInv, NEW h, NEW d \in Nat, Full(h), h.st = handle.st, h.handler = handle.handler,
           pc = "command", Head(steps) \in Kinds, d <= StepTime(Head(steps)), Advance(h, d)
    PROVE  Works
<1>0. h.st # "none" => h.handler = Handler
  BY DEF CliInv, HandlerInv
<1>1. Spend(d) /\ timer' = timer
  BY DEF Advance
<1>2. CASE Len(steps) = 1
  <2>1. Finish(h) /\ ToPrompt
    BY <1>2 DEF Advance
  <2>2. /\ Full(handle') /\ handle'.st = h.st /\ fresh' = fresh
        /\ h.st # "none" => handle'.handler = Handler'
    BY <1>0, <2>1, FinishKeeps
  <2> QED
    BY <1>1, <2>1, <2>2 DEF Works
<1>3. CASE Len(steps) # 1
  <2>1. /\ handle' = h /\ steps' = Tail(steps)
        /\ UNCHANGED <<pc, cmd, fresh, allPskd, pskds>>
    BY <1>3 DEF Advance
  <2>2. Handler' = Handler
    BY <2>1 DEF Handler
  <2> QED
    BY <1>0, <1>1, <1>3, <2>1, <2>2 DEF Works
<1> QED
  BY <1>2, <1>3

(* The steps that work with the interpreter's commissioner.                  *)
LEMMA WorkingSteps ==
    ASSUME CliInv,
           RequireSession \/ PrefixCached \/ PrefixFetched \/ Exchanged \/ ExchangeFails \/ Pump
    PROVE  Works
<1>0. /\ PlaceInv /\ Full(handle) /\ left \in Int
      /\ handle.st # "none" => handle.handler = Handler
  BY DEF CliInv, PlaceInv, HandlerInv
<1>t. /\ StepTime("session") = 0 /\ StepTime("prefix") = ExchangeTimeout
      /\ StepTime("exchange") = ExchangeTimeout /\ StepTime("write") = ExchangeTimeout
      /\ StepTime("pump") = PumpTime
      /\ ExchangeTimeout \in Nat /\ PumpTime \in Nat
  BY Times DEF StepTime
<1>1. CASE RequireSession
  <2>1. pc = "command" /\ Head(steps) = "session"
    BY <1>1 DEF RequireSession, At
  <2>2. CASE Advance(handle, 0)
    BY <1>0, <1>t, <2>1, <2>2, AdvanceWorks DEF Kinds
  <2>3. CASE Abort(handle) /\ ToPrompt /\ UNCHANGED <<timer, left>>
    <3>1. /\ Full(handle') /\ handle'.st = handle.st /\ fresh' = fresh
          /\ handle.st # "none" => handle'.handler = Handler'
      BY <1>0, <2>3, FinishKeeps
    <3>2. 0 \in Nat /\ 0 <= StepTime(Head(steps)) /\ Spend(0)
      BY <1>0, <1>t, <2>1, <2>3 DEF Spend
    <3> QED
      BY <2>1, <2>3, <3>1, <3>2 DEF Works, Kinds
  <2> QED
    BY <1>1, <2>2, <2>3 DEF RequireSession
<1>2. CASE PrefixCached
  <2>1. pc = "command" /\ Head(steps) = "prefix" /\ Advance(handle, 0)
    BY <1>2 DEF PrefixCached, At
  <2> QED
    BY <1>0, <1>t, <2>1, AdvanceWorks DEF Kinds
<1>3. CASE PrefixFetched
  <2>1. pc = "command" /\ Head(steps) = "prefix"
    BY <1>3 DEF PrefixFetched, At
  <2>2. PICK h \in Heard(handle), d \in 0..ExchangeTimeout :
          Advance([h EXCEPT !.prefix = "cached"], d)
    BY <1>3 DEF PrefixFetched
  <2>3. Full(h) /\ h.st = handle.st /\ h.handler = handle.handler
    BY <1>0, HeardKeeps
  <2> DEFINE g == [h EXCEPT !.prefix = "cached"]
  <2>4. Full(g) /\ g.st = handle.st /\ g.handler = handle.handler
    BY <2>3 DEF Full
  <2>5. d \in Nat /\ d <= StepTime(Head(steps)) /\ Head(steps) \in Kinds
    BY <1>t, <2>1 DEF Kinds
  <2>6. Advance(g, d)
    BY <2>2
  <2> HIDE DEF g
  <2> QED
    BY <2>1, <2>4, <2>5, <2>6, AdvanceWorks
<1>4. CASE Exchanged
  <2>1. pc = "command" /\ Head(steps) \in {"exchange", "write"}
    BY <1>4 DEF Exchanged, At
  <2>2. PICK h \in Heard(handle), d \in 0..ExchangeTimeout : Advance(h, d)
    BY <1>4 DEF Exchanged
  <2>3. Full(h) /\ h.st = handle.st /\ h.handler = handle.handler
    BY <1>0, HeardKeeps
  <2>4. d \in Nat /\ d <= StepTime(Head(steps)) /\ Head(steps) \in Kinds
    BY <1>t, <2>1 DEF Kinds
  <2> QED
    BY <2>1, <2>2, <2>3, <2>4, AdvanceWorks
<1>5. CASE ExchangeFails
  <2>1. pc = "command" /\ Head(steps) \in {"exchange", "write", "prefix"} /\ ToPrompt
    BY <1>5 DEF ExchangeFails, At
  <2>2. PICK h \in Heard(handle), d \in 0..ExchangeTimeout :
          Spend(d) /\ timer' = timer /\ Abort(h)
    BY <1>5 DEF ExchangeFails
  <2>3. Full(h) /\ h.st = handle.st /\ h.handler = handle.handler
    BY <1>0, HeardKeeps
  <2>4. d \in Nat /\ d <= StepTime(Head(steps)) /\ Head(steps) \in Kinds
    BY <1>t, <2>1 DEF Kinds
  <2>5. /\ Full(handle') /\ handle'.st = handle.st /\ fresh' = fresh
        /\ handle.st # "none" => handle'.handler = Handler'
    BY <1>0, <2>2, <2>3, FinishKeeps
  <2> QED
    BY <2>1, <2>2, <2>4, <2>5 DEF Works
<1>6. CASE Pump
  <2>1. pc = "command" /\ Head(steps) = "pump"
    BY <1>6 DEF Pump, At
  <2>2. PICK h \in Heard(handle), d \in 0..PumpTime : Advance([h EXCEPT !.queue = <<>>], d)
    BY <1>6 DEF Pump
  <2>3. Full(h) /\ h.st = handle.st /\ h.handler = handle.handler
    BY <1>0, HeardKeeps
  <2> DEFINE g == [h EXCEPT !.queue = <<>>]
  <2>4. Full(g) /\ g.st = handle.st /\ g.handler = handle.handler
    BY <2>3 DEF Full
  <2>5. d \in Nat /\ d <= StepTime(Head(steps)) /\ Head(steps) \in Kinds
    BY <1>t, <2>1 DEF Kinds
  <2>6. Advance(g, d)
    BY <2>2
  <2> HIDE DEF g
  <2> QED
    BY <2>1, <2>4, <2>5, <2>6, AdvanceWorks
<1> QED
  BY <1>1, <1>2, <1>3, <1>4, <1>5, <1>6

(* Such a step keeps the invariant: the time it takes was reserved.          *)
LEMMA WorksKeeps ==
    ASSUME CliInv, Works
    PROVE  CliInv'
<1>0. PlaceInv /\ StepsInv /\ ArmedInv /\ LeftInv /\ HandlerInv /\ left \in Int
  BY DEF CliInv, PlaceInv
<1>1. /\ pc = "command" /\ Head(steps) \in Kinds /\ timer' = timer /\ fresh' = fresh
      /\ Full(handle') /\ handle'.st = handle.st
      /\ handle.st # "none" => handle'.handler = Handler'
  BY DEF Works
<1>2. PICK d \in Nat : d <= StepTime(Head(steps)) /\ Spend(d)
  BY DEF Works
<1>3. /\ cmd[1] \notin {"start", "stop"}
      /\ steps \in Seq(Kinds) /\ Len(steps) >= 1 /\ Len(steps) <= 5
  <2>1. /\ Head(<<"handshake", "petition", "install">>) \notin Kinds
        /\ Head(<<"petition", "install">>) \notin Kinds
        /\ Head(<<"install">>) \notin Kinds
        /\ Head(<<"resign">>) \notin Kinds
    BY DEF Kinds
  <2> QED
    BY <1>0, <1>1, <2>1 DEF StepsInv, StartSteps
<1>4. /\ Cost(Tail(steps)) = Cost(steps) - StepTime(Head(steps))
      /\ Cost(steps) >= StepTime(Head(steps))
      /\ StepTime(Head(steps)) \in Nat /\ Cost(steps) \in Nat /\ Cost(Tail(steps)) \in Nat
  BY <1>3, TailCost
<1>5. left' \in Int /\ (timer = "armed" => left' >= Cost(Tail(steps)) /\ left' >= 0)
  <2>1. CASE timer = "armed"
    <3>1. left >= Cost(steps) /\ left' = left - d
      BY <1>0, <1>1, <1>2, <2>1 DEF LeftInv, Spend
    <3> QED
      BY <1>0, <1>2, <1>4, <3>1
  <2>2. CASE timer # "armed"
    BY <1>0, <1>2, <2>2 DEF Spend
  <2> QED
    BY <2>1, <2>2
<1>6. timer = "armed" <=> handle.st = "active"
  BY <1>0, <1>1, <1>3 DEF ArmedInv
<1>7. CASE ToPrompt
  <2>1. pc' = "prompt"
    BY <1>7 DEF ToPrompt
  <2>2. PlaceInv' /\ StepsInv'
    BY <1>0, <1>1, <1>5, <2>1 DEF PlaceInv, StepsInv, Full
  <2>3. ArmedInv' /\ LeftInv' /\ HandlerInv'
    BY <1>1, <1>5, <1>6, <2>1 DEF ArmedInv, LeftInv, HandlerInv
  <2> QED
    BY <2>2, <2>3 DEF CliInv
<1>8. CASE Len(steps) # 1 /\ steps' = Tail(steps) /\ UNCHANGED <<pc, cmd>>
  <2>1. steps' \in Seq(Kinds) /\ Len(steps') >= 1 /\ Len(steps') <= 5
    <3>1. steps # <<>> /\ Len(steps) \in Nat
      BY <1>3
    <3>2. Tail(steps) \in Seq(Kinds) /\ Len(Tail(steps)) = Len(steps) - 1
      BY <1>3, <3>1, HeadTailProperties
    <3> QED
      BY <1>3, <1>8, <3>1, <3>2
  <2>2. PlaceInv'
    BY <1>0, <1>1, <1>5, <1>8 DEF PlaceInv, Full
  <2>3. StepsInv'
    BY <1>3, <1>8, <2>1 DEF StepsInv
  <2>4. ArmedInv' /\ LeftInv' /\ HandlerInv'
    BY <1>1, <1>3, <1>5, <1>6, <1>8 DEF ArmedInv, LeftInv, HandlerInv
  <2> QED
    BY <2>2, <2>3, <2>4 DEF CliInv
<1> QED
  BY <1>7, <1>8 DEF Works

-----------------------------------------------------------------------------
(* A command is named by the first of its parts.                             *)
LEMMA CommandNames ==
    ASSUME NEW c \in Commands
    PROVE  c[1] \in Plain \cup {"enable", "enableall", "disable"}
BY DEF Commands

(* A return to the prompt, or the end, with the deadline and the session in  *)
(* step.                                                                     *)
LEMMA RestsKeeps ==
    ASSUME CliInv, pc' \in {"prompt", "exited"}, timer' \in {"armed", "off"}, left' \in Int,
           Full(handle'), Full(fresh'),
           timer' = "armed" <=> handle'.st = "active", timer' = "armed" => left' >= 0,
           handle'.st # "none" => handle'.handler = Handler'
    PROVE  CliInv'
BY DEF CliInv, PlaceInv, StepsInv, ArmedInv, LeftInv, HandlerInv, Full

(* A deadline that is set anew.                                              *)
LEMMA ScheduleSets ==
    ASSUME NEW h, Schedule(h)
    PROVE  /\ timer' \in {"armed", "off"} /\ left' \in Int
           /\ timer' = "armed" <=> h.st = "active"
           /\ timer' = "armed" => left' = Interval /\ left' >= 0
BY Times DEF Schedule

(* The read loop and the check before a command.                             *)
LEMMA PromptKeeps ==
    ASSUME CliInv, Tick \/ KeepAliveDue \/ \E c \in Commands : Evaluate(c)
    PROVE  CliInv'
<1>0. /\ PlaceInv /\ ArmedInv /\ LeftInv /\ HandlerInv
      /\ left \in Int /\ timer \in {"armed", "off"} /\ Full(handle) /\ Full(fresh)
  BY DEF CliInv, PlaceInv
<1>1. CASE Tick
  <2>1. /\ pc' = "prompt" /\ timer' = timer /\ left' = left - 1 /\ left > 0
        /\ handle' = handle /\ fresh' = fresh /\ Handler' = Handler /\ pc = "prompt"
    BY <1>1 DEF Tick, Handler
  <2>2. left' \in Int /\ left' >= 0
    BY <1>0, <2>1
  <2> QED
    BY <1>0, <2>1, <2>2, RestsKeeps DEF ArmedInv, HandlerInv
<1>2. ASSUME NEW c \in Commands \cup {NoCommand}, pc = "prompt", timer = "armed", BeginKeepAlive(c)
      PROVE  CliInv'
  <2>1. handle.st = "active"
    BY <1>0, <1>2 DEF ArmedInv
  <2>2. /\ pc' = "keepalive" /\ cmd' = c /\ timer' = "off" /\ left' = 0
        /\ handle' = handle /\ fresh' = fresh /\ Handler' = Handler
    BY <1>2, <2>1 DEF BeginKeepAlive, Unschedule, Handler
  <2> QED
    BY <1>0, <2>1, <2>2
       DEF CliInv, PlaceInv, StepsInv, ArmedInv, LeftInv, HandlerInv, Full
<1>3. ASSUME NEW c \in Commands, Evaluate(c)
      PROVE  CliInv'
  <2>1. CASE NeedsRefresh(c) /\ BeginKeepAlive(c)
    BY <1>2, <1>3, <2>1 DEF Evaluate, NeedsRefresh
  <2>2. CASE ~NeedsRefresh(c) /\ pc' = "dispatch"
    <3>1. /\ pc = "prompt" /\ cmd' = c /\ timer' = timer /\ left' = left
          /\ handle' = handle /\ fresh' = fresh /\ Handler' = Handler
      BY <1>3, <2>2 DEF Evaluate, BeginKeepAlive, Handler
    <3>2. timer = "armed" /\ MayWait(c[1]) =>
            left > Headroom /\ c[1] \notin {"start", "connect"}
      BY <1>0, <2>2, Times DEF NeedsRefresh
    <3>3. LeftInv'
      BY <1>0, <2>2, <3>1, <3>2 DEF LeftInv, MayWait
    <3>4. PlaceInv' /\ StepsInv' /\ ArmedInv' /\ HandlerInv'
      BY <1>0, <2>2, <3>1 DEF PlaceInv, StepsInv, ArmedInv, HandlerInv, Full
    <3> QED
      BY <3>3, <3>4 DEF CliInv
  <2> QED
    BY <1>3, <2>1, <2>2 DEF Evaluate
<1> QED
  BY <1>1, <1>2, <1>3 DEF KeepAliveDue

(* The answer to a keep-alive: the whole interval again, or no session.      *)
LEMMA KeepAliveKeeps ==
    ASSUME CliInv, KeepAliveEnds
    PROVE  CliInv'
<1>0. /\ PlaceInv /\ ArmedInv /\ LeftInv /\ HandlerInv
      /\ left \in Int /\ timer \in {"armed", "off"} /\ Full(handle) /\ Full(fresh)
  BY DEF CliInv, PlaceInv
<1>1. /\ pc = "keepalive" /\ timer = "off" /\ handle.st = "active"
      /\ handle.handler = Handler /\ cmd \in Commands \cup {NoCommand}
  BY <1>0 DEF KeepAliveEnds, KeepAliveAccepted, KeepAliveRefused, PlaceInv, ArmedInv, HandlerInv
<1>2. fresh' = fresh /\ Handler' = Handler
  BY DEF KeepAliveEnds, KeepAliveAccepted, KeepAliveRefused, Handler
<1>3. CASE KeepAliveAccepted
  <2>1. PICK h \in Heard(handle) : handle' = [h EXCEPT !.queue = <<>>] /\ Schedule(h)
    BY <1>3 DEF KeepAliveAccepted
  <2>2. Full(h) /\ h.st = "active" /\ h.handler = Handler
    BY <1>0, <1>1, HeardKeeps
  <2>3. Full(handle') /\ handle'.st = "active" /\ handle'.handler = Handler
    BY <2>1, <2>2 DEF Full
  <2>4. timer' = "armed" /\ left' = Interval /\ left' \in Int /\ left' >= 0
    BY <2>1, <2>2, Times DEF Schedule
  <2>5. CASE pc' = "prompt"
    BY <1>0, <1>2, <2>3, <2>4, <2>5, RestsKeeps
  <2>6. CASE pc' = "dispatch" /\ cmd \in Commands /\ cmd' = cmd
    <3>1. LeftInv'
      BY <2>4, <2>6 DEF LeftInv
    <3>2. PlaceInv' /\ StepsInv' /\ ArmedInv' /\ HandlerInv'
      BY <1>0, <1>2, <2>3, <2>4, <2>6 DEF PlaceInv, StepsInv, ArmedInv, HandlerInv, Full
    <3> QED
      BY <3>1, <3>2 DEF CliInv
  <2> QED
    BY <1>1, <1>3, <2>5, <2>6 DEF KeepAliveAccepted
<1>4. CASE KeepAliveRefused
  <2>1. PICK h \in Heard(handle) :
          handle' = Disconnect([h EXCEPT !.queue = <<>>]) \/ handle' = Disconnect(h)
    BY <1>4 DEF KeepAliveRefused
  <2>2. Full(h) /\ h.handler = Handler
    BY <1>0, <1>1, HeardKeeps
  <2>3. Full(handle') /\ handle'.st = "disabled" /\ handle'.handler = Handler
    BY <2>1, <2>2 DEF Full, States, Disconnect
  <2>4. pc' = "prompt" /\ timer' = timer /\ left' = left
    BY <1>4 DEF KeepAliveRefused
  <2> QED
    BY <1>0, <1>1, <1>2, <2>3, <2>4, RestsKeeps
<1> QED
  BY <1>3, <1>4 DEF KeepAliveEnds

(* The dispatch of a command.                                                *)
LEMMA DispatchKeeps ==
    ASSUME CliInv, Dispatched
    PROVE  CliInv'
<1>0. /\ PlaceInv /\ ArmedInv /\ LeftInv /\ HandlerInv
      /\ left \in Int /\ timer \in {"armed", "off"} /\ Full(handle) /\ Full(fresh)
  BY DEF CliInv, PlaceInv
<1>1. pc = "dispatch"
  BY DEF Dispatched, Start, StartFails, ConnectOnly, Stop, Disable, Local, Exit, Dispatch
<1>2. /\ cmd \in Commands /\ (timer = "armed" <=> handle.st = "active")
      /\ timer = "armed" => left >= 0
      /\ handle.st # "none" => handle.handler = Handler
  BY <1>0, <1>1 DEF PlaceInv, ArmedInv, LeftInv, HandlerInv
<1>3. ASSUME pc' \in {"prompt", "exited"},
             UNCHANGED <<handle, fresh, timer, left, pskds, allPskd>>
      PROVE  CliInv'
  <2>1. Handler' = Handler
    BY <1>3 DEF Handler
  <2> QED
    BY <1>0, <1>2, <1>3, <2>1, RestsKeeps
<1>4. CASE StartFails \/ Local \/ Exit
  BY <1>3, <1>4 DEF StartFails, Local, Exit, ToPrompt
<1>5. CASE Start
  <2>1. /\ cmd[1] = "start" /\ pc' = "command" /\ steps' = Steps("start") /\ fresh' = Connected
        /\ cmd' = cmd /\ handle' = handle /\ timer' = timer /\ left' = left /\ Handler' = Handler
    BY <1>5 DEF Start, Handler
  <2>2. steps' = <<"handshake", "petition", "install">>
    BY <2>1 DEF Steps, CmdStart
  <2>3. timer = "armed" => left >= Cost(steps')
    <3>1. timer = "armed" => left = Interval
      BY <1>0, <1>1, <2>1 DEF LeftInv, MayWait, Plain
    <3>2. Cost(steps') = HandshakeTimeout + ExchangeTimeout
      BY <2>2, StartCost
    <3> QED
      BY <3>1, <3>2, Times
  <2>4. StepsInv'
    BY <2>1, <2>2 DEF StepsInv, StartSteps
  <2>5. PlaceInv' /\ HandlerInv'
    BY <1>0, <1>2, <2>1, NewHandles DEF PlaceInv, HandlerInv, Full
  <2>6. ArmedInv' /\ LeftInv'
    BY <1>2, <2>1, <2>3 DEF ArmedInv, LeftInv
  <2> QED
    BY <2>4, <2>5, <2>6 DEF CliInv
<1>6. CASE ConnectOnly
  <2>1. /\ handle' = Connected /\ fresh' = NoHandle /\ pc' = "prompt" /\ Schedule(Connected)
        /\ Handler' = Handler
    BY <1>6 DEF ConnectOnly, Replace, ToPrompt, Handler
  <2>2. /\ timer' \in {"armed", "off"} /\ left' \in Int
        /\ timer' = "armed" <=> Connected.st = "active"
        /\ timer' = "armed" => left' >= 0
    BY <2>1, ScheduleSets
  <2>3. /\ Full(handle') /\ Full(fresh') /\ handle'.st = Connected.st
        /\ handle'.handler = Handler
    BY <2>1, NewHandles
  <2> QED
    BY <2>1, <2>2, <2>3, RestsKeeps
<1>7. CASE Stop
  <2>1. /\ cmd[1] = "stop" /\ timer' = "off" /\ left' = 0 /\ handle' = handle /\ fresh' = fresh
        /\ Handler' = Handler
    BY <1>7 DEF Stop, Unschedule, Handler
  <2>2. CASE handle.st = "none"
    <3>1. pc' = "prompt"
      BY <1>7, <2>2 DEF Stop, ToPrompt
    <3> QED
      BY <1>0, <2>1, <2>2, <3>1, RestsKeeps
  <2>3. CASE handle.st # "none"
    <3>1. pc' = "command" /\ steps' = <<"resign">> /\ cmd' = cmd
      BY <1>7, <2>3 DEF Stop, Steps, CmdStop
    <3> QED
      BY <1>0, <1>2, <2>1, <3>1
         DEF CliInv, PlaceInv, StepsInv, ArmedInv, LeftInv, HandlerInv, Full
  <2> QED
    BY <2>2, <2>3
<1>8. CASE Disable
  <2>1. /\ pc' = "prompt" /\ fresh' = fresh /\ timer' = timer /\ left' = left
        /\ allPskd' = allPskd
    BY <1>8 DEF Disable, ToPrompt
  <2>2. CASE handle.st = "none"
    BY <1>3, <1>8, <2>1, <2>2 DEF Disable
  <2>3. CASE handle.st # "none"
    <3>1. handle' = [handle EXCEPT !.handler = [all |-> allPskd, ids |-> pskds']]
      BY <1>8, <2>3 DEF Disable
    <3>2. Full(handle') /\ handle'.st = handle.st /\ handle'.handler = Handler'
      BY <1>0, <2>1, <3>1 DEF Full, Handler
    <3> QED
      BY <1>0, <1>2, <2>1, <3>2, RestsKeeps
  <2> QED
    BY <2>2, <2>3
<1>9. CASE Dispatch
  <2>1. /\ cmd[1] \notin {"start", "connect", "stop", "disable", "local", "exit"}
        /\ UNCHANGED <<handle, fresh, timer, left, pskds, allPskd>>
    BY <1>9 DEF Dispatch
  <2>2. CASE handle.st = "none"
    BY <1>3, <1>9, <2>1, <2>2 DEF Dispatch, ToPrompt
  <2>3. CASE handle.st # "none"
    <3>1. pc' = "command" /\ steps' = Steps(cmd[1]) /\ cmd' = cmd
      BY <1>9, <2>3 DEF Dispatch
    <3>2. cmd[1] \in (Plain \cup {"enable", "enableall"})
                       \ {"start", "connect", "stop", "disable", "local", "exit"}
      BY <1>2, <2>1, CommandNames
    <3>3. Fits(steps')
      BY <3>1, <3>2, CommandFits
    <3>4. Cost(steps') \in Nat
      BY Shares DEF Cost
    <3>5. timer = "armed" => left >= Cost(steps')
      <4>1. MayWait(cmd[1])
        BY <3>2 DEF MayWait
      <4>2. timer = "armed" => left = Interval \/ left > Headroom
        BY <1>0, <1>1, <4>1 DEF LeftInv
      <4> QED
        BY <1>0, <3>3, <3>4, <4>2, Times DEF Fits
    <3>6. Handler' = Handler
      BY <2>1 DEF Handler
    <3>7. StepsInv'
      BY <2>1, <3>1, <3>3 DEF StepsInv, Fits
    <3>8. PlaceInv' /\ ArmedInv'
      BY <1>0, <1>2, <2>1, <3>1 DEF PlaceInv, ArmedInv, Full
    <3>9. LeftInv' /\ HandlerInv'
      BY <1>2, <2>1, <3>1, <3>5, <3>6 DEF LeftInv, HandlerInv
    <3> QED
      BY <3>7, <3>8, <3>9 DEF CliInv
  <2> QED
    BY <2>2, <2>3
<1> QED
  BY <1>4, <1>5, <1>6, <1>7, <1>8, <1>9 DEF Dispatched

(* The steps of a start, while the old session's time runs, and of a stop.   *)
LEMMA SessionKeeps ==
    ASSUME CliInv, Handshake \/ Petition \/ Install \/ Resign
    PROVE  CliInv'
<1>0. /\ PlaceInv /\ StepsInv /\ ArmedInv /\ LeftInv /\ HandlerInv
      /\ left \in Int /\ timer \in {"armed", "off"} /\ Full(handle) /\ Full(fresh)
  BY DEF CliInv, PlaceInv
<1>c. Cost(<<"petition", "install">>) = ExchangeTimeout /\ Cost(<<"install">>) = 0
  BY StartCost
<1>h. /\ Head(<<"handshake", "petition", "install">>) = "handshake"
      /\ Head(<<"petition", "install">>) = "petition" /\ Head(<<"install">>) = "install"
      /\ Head(<<"resign">>) = "resign"
      /\ \A s \in Seq(Kinds) : Len(s) >= 1 =>
           Head(s) \notin {"handshake", "petition", "install", "resign"}
  <2>1. \A s \in Seq(Kinds) : Len(s) >= 1 => Head(s) \in Kinds
    OBVIOUS
  <2> QED
    BY <2>1 DEF Kinds
<1>1. CASE Handshake
  <2>1. /\ pc = "command" /\ Head(steps) = "handshake" /\ pc' = pc /\ cmd' = cmd
        /\ UNCHANGED <<handle, fresh, timer>> /\ Handler' = Handler
    BY <1>1 DEF Handshake, At, Handler
  <2>2. cmd[1] = "start" /\ steps = <<"handshake", "petition", "install">>
    BY <1>0, <1>h, <2>1 DEF StepsInv, StartSteps
  <2>3. PICK d \in 0..HandshakeTimeout : Spend(d)
    BY <1>1 DEF Handshake
  <2>4. steps' = <<"petition", "install">> \/ steps' = <<"install">>
    BY <1>1, <2>2 DEF Handshake
  <2>5. left' \in Int /\ (timer = "armed" => left' >= ExchangeTimeout /\ left' >= 0)
    <3>1. timer = "armed" => left >= HandshakeTimeout + ExchangeTimeout
      BY <1>0, <2>1, <2>2, StartCost DEF LeftInv
    <3> QED
      BY <1>0, <2>3, <3>1, Times DEF Spend
  <2>6. timer = "armed" => left' >= Cost(steps')
    BY <1>c, <2>4, <2>5
  <2>7. StepsInv'
    BY <2>1, <2>2, <2>4 DEF StepsInv, StartSteps
  <2>8. PlaceInv' /\ ArmedInv' /\ LeftInv' /\ HandlerInv'
    BY <1>0, <2>1, <2>2, <2>5, <2>6 DEF PlaceInv, ArmedInv, LeftInv, HandlerInv, Full
  <2> QED
    BY <2>7, <2>8 DEF CliInv
<1>2. CASE Petition
  <2>1. /\ pc = "command" /\ Head(steps) = "petition" /\ pc' = pc /\ cmd' = cmd
        /\ UNCHANGED <<handle, timer>> /\ Handler' = Handler /\ steps' = Tail(steps)
    BY <1>2 DEF Petition, At, Handler
  <2>2. cmd[1] = "start" /\ steps = <<"petition", "install">>
    BY <1>0, <1>h, <2>1 DEF StepsInv, StartSteps
  <2>3. PICK h \in Heard(fresh), st \in {"active", "connected"}, d \in 0..ExchangeTimeout :
          fresh' = [h EXCEPT !.st = st] /\ Spend(d)
    BY <1>2 DEF Petition
  <2>4. Full(h) /\ h.handler = Handler
    BY <1>0, <2>1, <2>2, HeardKeeps DEF HandlerInv
  <2>5. Full(fresh') /\ fresh'.handler = Handler
    BY <2>3, <2>4 DEF Full, States
  <2>6. steps' = <<"install">>
    BY <2>1, <2>2
  <2>7. left' \in Int /\ (timer = "armed" => left' >= 0)
    <3>1. timer = "armed" => left >= ExchangeTimeout
      BY <1>0, <1>c, <2>1, <2>2 DEF LeftInv
    <3> QED
      BY <1>0, <2>3, <3>1, Times DEF Spend
  <2>8. StepsInv'
    BY <2>1, <2>2, <2>6 DEF StepsInv, StartSteps
  <2>9. LeftInv'
    BY <1>c, <2>1, <2>6, <2>7 DEF LeftInv
  <2>10. PlaceInv' /\ ArmedInv' /\ HandlerInv'
    BY <1>0, <2>1, <2>2, <2>5, <2>7 DEF PlaceInv, ArmedInv, HandlerInv, Full
  <2> QED
    BY <2>8, <2>9, <2>10 DEF CliInv
<1>3. CASE Install
  <2>1. /\ pc = "command" /\ Head(steps) = "install" /\ pc' = "prompt" /\ Handler' = Handler
        /\ handle' = fresh /\ fresh' = NoHandle /\ Schedule(fresh)
    BY <1>3 DEF Install, At, Handler, Replace, ToPrompt
  <2>2. cmd[1] = "start"
    BY <1>0, <1>h, <2>1 DEF StepsInv
  <2>3. fresh.handler = Handler
    BY <1>0, <2>1, <2>2 DEF HandlerInv
  <2>4. /\ timer' \in {"armed", "off"} /\ left' \in Int
        /\ timer' = "armed" <=> fresh.st = "active"
        /\ timer' = "armed" => left' >= 0
    BY <2>1, ScheduleSets
  <2>5. Full(fresh')
    BY <2>1, NewHandles
  <2> QED
    BY <1>0, <2>1, <2>3, <2>4, <2>5, RestsKeeps
<1>4. CASE Resign
  <2>1. /\ pc = "command" /\ Head(steps) = "resign" /\ pc' = "prompt"
        /\ handle' = NoHandle /\ fresh' = NoHandle /\ timer' = timer /\ left' = left
    BY <1>4 DEF Resign, At, Replace, ToPrompt
  <2>2. cmd[1] = "stop"
    BY <1>0, <1>h, <2>1 DEF StepsInv, StartSteps
  <2>3. timer = "off"
    BY <1>0, <2>1, <2>2 DEF ArmedInv
  <2>4. Full(handle') /\ Full(fresh') /\ handle'.st = "none"
    BY <2>1, NewHandles
  <2> QED
    BY <1>0, <2>1, <2>3, <2>4, RestsKeeps
<1> QED
  BY <1>1, <1>2, <1>3, <1>4

-----------------------------------------------------------------------------
(* Every step of the program preserves the invariant.                        *)
LEMMA CliStep == CliInv /\ [Next]_vars => CliInv'
<1> SUFFICES ASSUME CliInv, [Next]_vars PROVE CliInv'
  OBVIOUS
<1>1. CASE Tick \/ KeepAliveDue \/ \E c \in Commands : Evaluate(c)
  BY <1>1, PromptKeeps
<1>2. CASE KeepAliveEnds
  BY <1>2, KeepAliveKeeps
<1>3. CASE Dispatched
  BY <1>3, DispatchKeeps
<1>4. CASE CommandStep
  BY <1>4, WorkingSteps, WorksKeeps, SessionKeeps DEF CommandStep
<1>5. CASE UNCHANGED vars
  BY <1>5 DEF vars, CliInv, PlaceInv, StepsInv, ArmedInv, LeftInv, HandlerInv, Full, Handler
<1> QED
  BY <1>1, <1>2, <1>3, <1>4, <1>5 DEF Next, Step

(* What it says of one state.                                                *)
LEMMA CliConsequences == CliInv => KeepAliveNotLate /\ ActiveIsServiced /\ HandlerMatchesTable
BY DEF CliInv, ArmedInv, LeftInv, HandlerInv, KeepAliveNotLate, ActiveIsServiced,
       HandlerMatchesTable

(* The keep-alive of an active session is sent in time, whatever commands    *)
(* are given in whatever order and however long their exchanges take within  *)
(* their timeouts (interpreter/mod.rs:34-40, :191-201).                      *)
THEOREM KeepAliveInTime == Spec => []KeepAliveNotLate
BY CliStart, CliStep, CliConsequences, PTL DEF Spec

(* Whenever the prompt shows, an active session has a deadline and a         *)
(* deadline has an active session (interpreter/mod.rs:171).                  *)
THEOREM SessionIsServiced == Spec => []ActiveIsServiced
BY CliStart, CliStep, CliConsequences, PTL DEF Spec

(* Whenever the prompt shows, the commissioner decides on joiners by the     *)
(* interpreter's tables, for any set of joiners (joiner.rs:136-157).         *)
THEOREM HandlerIsCurrent == Spec => []HandlerMatchesTable
BY CliStart, CliStep, CliConsequences, PTL DEF Spec

-----------------------------------------------------------------------------
(* The notices: where the first n of them are, once each, when r is what was *)
(* recorded, h and f the queues of the two commissioners and d what went     *)
(* with a replaced one.                                                      *)
Elems(s) == {s[i] : i \in DOMAIN s}

Distinct(s) == \A i, k \in DOMAIN s : s[i] = s[k] => i = k

Kept(r, h, f, d, n) ==
    /\ n \in Nat /\ r \in Seq(Nat) /\ h \in Seq(Nat) /\ f \in Seq(Nat)
    /\ Distinct(r) /\ Distinct(h) /\ Distinct(f)
    /\ Elems(r) \cap Elems(h) = {} /\ Elems(r) \cap Elems(f) = {} /\ Elems(h) \cap Elems(f) = {}
    /\ ((Elems(r) \cup Elems(h)) \cup Elems(f)) \cup d = 1..n

(* The elements of a longer queue.                                           *)
LEMMA AppendElems ==
    ASSUME NEW s \in Seq(Nat), NEW x \in Nat, x \notin Elems(s), Distinct(s)
    PROVE  /\ Append(s, x) \in Seq(Nat) /\ Elems(Append(s, x)) = Elems(s) \cup {x}
           /\ Distinct(Append(s, x))
<1>1. /\ Append(s, x) \in Seq(Nat) /\ Len(Append(s, x)) = Len(s) + 1 /\ Len(s) \in Nat
      /\ DOMAIN Append(s, x) = 1..(Len(s) + 1) /\ DOMAIN s = 1..Len(s)
      /\ Append(s, x)[Len(s) + 1] = x
      /\ \A i \in 1..Len(s) : Append(s, x)[i] = s[i]
  BY AppendProperties, LenProperties
<1>2. Elems(Append(s, x)) \subseteq Elems(s) \cup {x}
  BY <1>1 DEF Elems
<1>3. Elems(s) \cup {x} \subseteq Elems(Append(s, x))
  BY <1>1 DEF Elems
<1>4. Distinct(Append(s, x))
  <2> SUFFICES ASSUME NEW i \in 1..(Len(s) + 1), NEW k \in 1..(Len(s) + 1),
                      Append(s, x)[i] = Append(s, x)[k]
               PROVE  i = k
    BY <1>1 DEF Distinct
  <2>1. CASE i \in 1..Len(s) /\ k \in 1..Len(s)
    BY <1>1, <2>1 DEF Distinct
  <2>2. CASE i = Len(s) + 1 /\ k \in 1..Len(s)
    BY <1>1, <2>2 DEF Elems
  <2>3. CASE k = Len(s) + 1 /\ i \in 1..Len(s)
    BY <1>1, <2>3 DEF Elems
  <2> QED
    BY <1>1, <2>1, <2>2, <2>3
<1> QED
  BY <1>1, <1>2, <1>3, <1>4

(* The elements of two sequences put together.                               *)
LEMMA ConcatElems ==
    ASSUME NEW s \in Seq(Nat), NEW t \in Seq(Nat), Elems(s) \cap Elems(t) = {},
           Distinct(s), Distinct(t)
    PROVE  /\ s \o t \in Seq(Nat) /\ Elems(s \o t) = Elems(s) \cup Elems(t)
           /\ Distinct(s \o t)
<1>1. /\ s \o t \in Seq(Nat) /\ Len(s \o t) = Len(s) + Len(t)
      /\ \A i \in 1..(Len(s) + Len(t)) :
           (s \o t)[i] = IF i <= Len(s) THEN s[i] ELSE t[i - Len(s)]
  BY ConcatProperties
<1>2. /\ Len(s) \in Nat /\ Len(t) \in Nat /\ DOMAIN s = 1..Len(s) /\ DOMAIN t = 1..Len(t)
      /\ DOMAIN (s \o t) = 1..(Len(s) + Len(t))
  BY <1>1, LenProperties
<1> DEFINE u == s \o t
<1>3. /\ \A i \in 1..Len(s) : u[i] = s[i]
      /\ \A i \in 1..Len(t) : u[i + Len(s)] = t[i] /\ i + Len(s) \in DOMAIN u
      /\ \A i \in DOMAIN u : i \in 1..Len(s) \/ (i - Len(s) \in 1..Len(t) /\ u[i] = t[i - Len(s)])
      /\ 1..Len(s) \subseteq DOMAIN u
  BY <1>1, <1>2
<1> HIDE DEF u
<1>4. Elems(u) \subseteq Elems(s) \cup Elems(t)
  BY <1>2, <1>3 DEF Elems
<1>5. Elems(s) \subseteq Elems(u)
  BY <1>2, <1>3 DEF Elems
<1>6. Elems(t) \subseteq Elems(u)
  BY <1>2, <1>3 DEF Elems
<1>7. Distinct(u)
  <2> SUFFICES ASSUME NEW i \in DOMAIN u, NEW k \in DOMAIN u, u[i] = u[k]
               PROVE  i = k
    BY DEF Distinct
  <2>0. i \in Int /\ k \in Int
    BY <1>2 DEF u
  <2>1. CASE i \in 1..Len(s) /\ k \in 1..Len(s)
    BY <1>2, <1>3, <2>1 DEF Distinct
  <2>s. \A j \in DOMAIN u : j \in 1..Len(s) => u[j] \in Elems(s)
    <3>1. \A j \in DOMAIN s : s[j] \in Elems(s)
      BY DEF Elems
    <3> QED
      BY <1>2, <1>3, <3>1
  <2>t. \A j \in DOMAIN u : j \notin 1..Len(s) => u[j] \in Elems(t)
    <3>1. \A j \in DOMAIN t : t[j] \in Elems(t)
      BY DEF Elems
    <3> QED
      BY <1>2, <1>3, <3>1
  <2>2. CASE i \in 1..Len(s) /\ k \notin 1..Len(s)
    BY <2>2, <2>s, <2>t
  <2>3. CASE i \notin 1..Len(s) /\ k \in 1..Len(s)
    BY <2>3, <2>s, <2>t
  <2>4. CASE i \notin 1..Len(s) /\ k \notin 1..Len(s)
    <3>1. /\ i - Len(s) \in DOMAIN t /\ k - Len(s) \in DOMAIN t
          /\ t[i - Len(s)] = t[k - Len(s)]
      BY <1>2, <1>3, <2>4
    <3>2. i - Len(s) = k - Len(s)
      BY <3>1 DEF Distinct
    <3> QED
      BY <1>2, <2>0, <3>2
  <2> QED
    BY <2>1, <2>2, <2>3, <2>4
<1> QED
  BY <1>1, <1>4, <1>5, <1>6, <1>7 DEF u

(* A notice that reaches the interpreter's commissioner is queued there.     *)
LEMMA KeptHeard ==
    ASSUME NEW r, NEW h, NEW f, NEW d, NEW n, Kept(r, h, f, d, n)
    PROVE  Kept(r, Append(h, n + 1), f, d, n + 1)
<1>1. /\ n \in Nat /\ n + 1 \in Nat /\ h \in Seq(Nat) /\ Distinct(h)
      /\ n + 1 \notin ((Elems(r) \cup Elems(h)) \cup Elems(f)) \cup d
      /\ 1..(n + 1) = 1..n \cup {n + 1}
  BY DEF Kept
<1>2. /\ Append(h, n + 1) \in Seq(Nat) /\ Elems(Append(h, n + 1)) = Elems(h) \cup {n + 1}
      /\ Distinct(Append(h, n + 1))
  BY <1>1, AppendElems
<1> DEFINE g == Append(h, n + 1)
<1> HIDE DEF g
<1>3. g \in Seq(Nat) /\ Elems(g) = Elems(h) \cup {n + 1} /\ Distinct(g)
  BY <1>2 DEF g
<1>4. Kept(r, g, f, d, n + 1)
  BY <1>1, <1>3 DEF Kept
<1> QED
  BY <1>4 DEF g

(* The two queues have the same part in it.                                  *)
LEMMA KeptSwap ==
    ASSUME NEW r, NEW h, NEW f, NEW d, NEW n, Kept(r, h, f, d, n)
    PROVE  Kept(r, f, h, d, n)
BY DEF Kept

(* Nothing is in an empty queue.                                             *)
LEMMA EmptyQueue == <<>> \in Seq(Nat) /\ Elems(<<>>) = {} /\ Distinct(<<>>)
BY DEF Elems, Distinct

(* What is queued is recorded.                                               *)
LEMMA KeptRecorded ==
    ASSUME NEW r, NEW h, NEW f, NEW d, NEW n, Kept(r, h, f, d, n)
    PROVE  Kept(r \o h, <<>>, f, d, n)
<1>1. /\ r \o h \in Seq(Nat) /\ Elems(r \o h) = Elems(r) \cup Elems(h) /\ Distinct(r \o h)
  BY ConcatElems DEF Kept
<1> DEFINE u == r \o h
           e == <<>>
<1>2. e \in Seq(Nat) /\ Elems(e) = {} /\ Distinct(e)
  BY EmptyQueue
<1>3. u \in Seq(Nat) /\ Elems(u) = Elems(r) \cup Elems(h) /\ Distinct(u)
  BY <1>1
<1> HIDE DEF u, e
<1>4. Kept(u, e, f, d, n)
  BY <1>2, <1>3 DEF Kept
<1> QED
  BY <1>4 DEF u, e

(* A commissioner that is replaced takes its queue with it.                  *)
LEMMA KeptReplaced ==
    ASSUME NEW r, NEW h, NEW f, NEW d, NEW n, Kept(r, h, f, d, n)
    PROVE  Kept(r, f, <<>>, d \cup Elems(h), n)
<1> DEFINE e == <<>>
<1>1. e \in Seq(Nat) /\ Elems(e) = {} /\ Distinct(e)
  BY EmptyQueue
<1> HIDE DEF e
<1>2. Kept(r, f, e, d \cup Elems(h), n)
  BY <1>1 DEF Kept
<1> QED
  BY <1>2 DEF e

-----------------------------------------------------------------------------
(* Every notice is in one place, and only a start has a second commissioner  *)
(* for one to be in.                                                         *)
NoticeInv ==
    /\ Kept(reports, handle.queue, fresh.queue, dropped, notices)
    /\ (pc = "command" /\ cmd[1] = "start") \/ fresh.queue = <<>>

(* An exchange queues nothing, or the next notice.                           *)
LEMMA HeardQueue ==
    ASSUME NEW h, Full(h), h.queue \in Seq(Nat), notices \in Nat, NEW g \in Heard(h), Counts(h, g)
    PROVE  /\ Full(g)
           /\ \/ g.queue = h.queue /\ notices' = notices
              \/ g.queue = Append(h.queue, notices + 1) /\ notices' = notices + 1
<1>1. PICK q \in {h.queue, Append(h.queue, notices + 1)} :
        \/ g = [h EXCEPT !.queue = q]
        \/ g = [h EXCEPT !.queue = q, !.prefix = "none"]
  BY DEF Heard
<1>2. g.queue = q /\ Full(g)
  BY <1>1 DEF Full
<1>3. /\ Len(h.queue) \in Nat /\ Len(Append(h.queue, notices + 1)) = Len(h.queue) + 1
  <2> DEFINE k == h.queue
  <2>1. k \in Seq(Nat) /\ notices + 1 \in Nat
    OBVIOUS
  <2> HIDE DEF k
  <2>2. Len(k) \in Nat /\ Len(Append(k, notices + 1)) = Len(k) + 1
    BY <2>1, AppendProperties, LenProperties
  <2> QED
    BY <2>2 DEF k
<1>4. notices' = notices + Len(q) - Len(h.queue)
  BY <1>2 DEF Counts
<1>5. CASE q = h.queue
  <2>1. Len(q) = Len(h.queue)
    BY <1>5
  <2>2. notices' = notices
    BY <1>3, <1>4, <2>1
  <2> QED
    BY <1>2, <1>5, <2>2
<1>6. CASE q = Append(h.queue, notices + 1)
  <2>1. Len(q) = Len(h.queue) + 1
    BY <1>3, <1>6
  <2>2. notices' = notices + 1
    BY <1>3, <1>4, <2>1
  <2> QED
    BY <1>2, <1>6, <2>2
<1> QED
  BY <1>2, <1>5, <1>6

(* Neither the end of a command nor its next step touches a queue.           *)
LEMMA CommandQueue ==
    ASSUME NEW h, Full(h), Finish(h) \/ Abort(h) \/ \E d : Advance(h, d)
    PROVE  handle'.queue = h.queue /\ fresh' = fresh /\ dropped' = dropped
<1>1. ASSUME NEW a, NEW b, Tables(a, b, h)
      PROVE  handle'.queue = h.queue
  BY <1>1 DEF Tables, Full
<1>2. ASSUME Finish(h) \/ Abort(h)
      PROVE  handle'.queue = h.queue /\ fresh' = fresh /\ dropped' = dropped
  BY <1>1, <1>2 DEF Finish, Abort
<1>3. ASSUME NEW d, Advance(h, d)
      PROVE  handle'.queue = h.queue /\ fresh' = fresh /\ dropped' = dropped
  BY <1>2, <1>3 DEF Advance
<1> QED
  BY <1>2, <1>3

(* What a step does with the notices.                                        *)
HandleHears ==
    /\ \/ handle'.queue = handle.queue /\ notices' = notices
       \/ handle'.queue = Append(handle.queue, notices + 1) /\ notices' = notices + 1
    /\ fresh' = fresh /\ UNCHANGED <<reports, dropped>>

FreshHears ==
    /\ \/ fresh'.queue = fresh.queue /\ notices' = notices
       \/ fresh'.queue = Append(fresh.queue, notices + 1) /\ notices' = notices + 1
    /\ handle' = handle /\ UNCHANGED <<reports, dropped>>

Records ==
    /\ \/ reports' = reports \o handle.queue /\ notices' = notices
       \/ reports' = reports \o Append(handle.queue, notices + 1) /\ notices' = notices + 1
    /\ handle'.queue = <<>> /\ fresh' = fresh /\ dropped' = dropped

Replaces ==
    /\ handle'.queue = fresh.queue /\ fresh'.queue = <<>>
    /\ dropped' = dropped \cup Elems(handle.queue) /\ UNCHANGED <<reports, notices>>

(* Each of them keeps every notice in one place.                             *)
LEMMA NoticeShapes ==
    ASSUME Kept(reports, handle.queue, fresh.queue, dropped, notices),
           HandleHears \/ FreshHears \/ Records \/ Replaces
    PROVE  Kept(reports', handle'.queue, fresh'.queue, dropped', notices')
<1>1. Kept(reports, Append(handle.queue, notices + 1), fresh.queue, dropped, notices + 1)
  BY KeptHeard
<1>2. CASE HandleHears
  BY <1>1, <1>2 DEF HandleHears
<1>3. CASE FreshHears
  <2>1. Kept(reports, fresh.queue, handle.queue, dropped, notices)
    BY KeptSwap
  <2>2. Kept(reports, Append(fresh.queue, notices + 1), handle.queue, dropped, notices + 1)
    BY <2>1, KeptHeard
  <2>3. Kept(reports, handle.queue, Append(fresh.queue, notices + 1), dropped, notices + 1)
    BY <2>2, KeptSwap
  <2> QED
    BY <1>3, <2>3 DEF FreshHears
<1>4. CASE Records
  <2>1. Kept(reports \o handle.queue, <<>>, fresh.queue, dropped, notices)
    BY KeptRecorded
  <2>2. Kept(reports \o Append(handle.queue, notices + 1), <<>>, fresh.queue, dropped, notices + 1)
    BY <1>1, KeptRecorded
  <2> QED
    BY <1>4, <2>1, <2>2 DEF Records
<1>5. CASE Replaces
  <2>1. Kept(reports, fresh.queue, <<>>, dropped \cup Elems(handle.queue), notices)
    BY KeptReplaced
  <2> QED
    BY <1>5, <2>1 DEF Replaces
<1> QED
  BY <1>2, <1>3, <1>4, <1>5

(* Every step keeps every notice in one place.                               *)
LEMMA NoticeStep == CliInv /\ NoticeInv /\ [Next]_vars => NoticeInv'
<1> SUFFICES ASSUME CliInv, NoticeInv, [Next]_vars PROVE NoticeInv'
  OBVIOUS
<1>0. /\ Full(handle) /\ Full(fresh) /\ StepsInv
      /\ Kept(reports, handle.queue, fresh.queue, dropped, notices)
      /\ handle.queue \in Seq(Nat) /\ fresh.queue \in Seq(Nat) /\ notices \in Nat
  BY DEF CliInv, PlaceInv, NoticeInv, Kept
<1>s. ASSUME HandleHears \/ Records, pc # "command" \/ Head(steps) \in Kinds
      PROVE  NoticeInv'
  <2>1. ~(pc = "command" /\ cmd[1] = "start")
    <3>1. /\ Head(<<"handshake", "petition", "install">>) \notin Kinds
          /\ Head(<<"petition", "install">>) \notin Kinds
          /\ Head(<<"install">>) \notin Kinds
      BY DEF Kinds
    <3> QED
      BY <1>0, <1>s, <3>1 DEF StepsInv, StartSteps
  <2>2. fresh'.queue = <<>>
    BY <1>s, <2>1 DEF NoticeInv, HandleHears, Records
  <2>3. Kept(reports', handle'.queue, fresh'.queue, dropped', notices')
    BY <1>0, <1>s, NoticeShapes
  <2> QED
    BY <2>2, <2>3 DEF NoticeInv
<1>r. ASSUME Replaces PROVE NoticeInv'
  BY <1>0, <1>r, NoticeShapes DEF NoticeInv, Replaces
<1>n. NoHandle.queue = <<>> /\ Connected.queue = <<>>
  BY DEF NoHandle, Connected
<1>1. CASE Tick \/ KeepAliveDue \/ \E c \in Commands : Evaluate(c)
  <2>1. pc = "prompt" /\ HandleHears
    BY <1>1 DEF Tick, KeepAliveDue, Evaluate, BeginKeepAlive, HandleHears
  <2> QED
    BY <1>s, <2>1
<1>2. CASE KeepAliveAccepted
  <2>1. PICK h \in Heard(handle) :
          handle' = [h EXCEPT !.queue = <<>>] /\ reports' = reports \o h.queue /\ Counts(handle, h)
    BY <1>2 DEF KeepAliveAccepted
  <2>2. /\ Full(h)
        /\ \/ h.queue = handle.queue /\ notices' = notices
           \/ h.queue = Append(handle.queue, notices + 1) /\ notices' = notices + 1
    BY <1>0, <2>1, HeardQueue
  <2>3. handle'.queue = <<>>
    BY <2>1, <2>2 DEF Full
  <2>4. Records /\ pc = "keepalive"
    BY <1>2, <2>1, <2>2, <2>3 DEF Records, KeepAliveAccepted
  <2> QED
    BY <1>s, <2>4
<1>3. CASE KeepAliveRefused
  <2>1. PICK h \in Heard(handle) :
          /\ \/ handle' = Disconnect([h EXCEPT !.queue = <<>>]) /\ reports' = reports \o h.queue
             \/ handle' = Disconnect(h) /\ UNCHANGED reports
          /\ Counts(handle, h)
    BY <1>3 DEF KeepAliveRefused
  <2>2. /\ Full(h)
        /\ \/ h.queue = handle.queue /\ notices' = notices
           \/ h.queue = Append(handle.queue, notices + 1) /\ notices' = notices + 1
    BY <1>0, <2>1, HeardQueue
  <2>3. pc = "keepalive" /\ fresh' = fresh /\ dropped' = dropped
    BY <1>3 DEF KeepAliveRefused
  <2>4. CASE handle' = Disconnect([h EXCEPT !.queue = <<>>]) /\ reports' = reports \o h.queue
    <3>1. handle'.queue = <<>>
      BY <2>2, <2>4 DEF Disconnect, Full
    <3>2. Records
      BY <2>2, <2>3, <2>4, <3>1 DEF Records
    <3> QED
      BY <1>s, <2>3, <3>2
  <2>5. CASE handle' = Disconnect(h) /\ UNCHANGED reports
    <3>1. handle'.queue = h.queue
      BY <2>2, <2>5 DEF Disconnect, Full
    <3>2. HandleHears
      BY <2>2, <2>3, <2>5, <3>1 DEF HandleHears
    <3> QED
      BY <1>s, <2>3, <3>2
  <2> QED
    BY <2>1, <2>4, <2>5
<1>4. CASE Start
  <2>1. /\ pc = "dispatch" /\ fresh' = Connected /\ pc' = "command" /\ cmd' = cmd /\ cmd[1] = "start"
        /\ UNCHANGED <<handle, reports, notices, dropped>>
    BY <1>4 DEF Start
  <2>2. fresh.queue = <<>> /\ fresh'.queue = <<>>
    BY <1>n, <2>1 DEF NoticeInv
  <2> QED
    BY <1>0, <2>1, <2>2 DEF NoticeInv
<1>5. CASE StartFails \/ Stop \/ Local \/ Exit \/ Dispatch
  <2>1. pc = "dispatch" /\ HandleHears
    BY <1>5 DEF StartFails, Stop, Local, Exit, Dispatch, HandleHears
  <2> QED
    BY <1>s, <2>1
<1>6. CASE Disable
  <2>1. handle'.queue = handle.queue
    BY <1>0, <1>6 DEF Disable, Full
  <2>2. pc = "dispatch" /\ HandleHears
    BY <1>6, <2>1 DEF Disable, HandleHears
  <2> QED
    BY <1>s, <2>2
<1>7. CASE ConnectOnly
  <2>1. fresh.queue = <<>>
    BY <1>7 DEF ConnectOnly, NoticeInv
  <2>2. Replaces
    BY <1>7, <1>n, <2>1 DEF ConnectOnly, Replace, Replaces, Queued, Elems
  <2> QED
    BY <1>r, <2>2
<1>8. CASE RequireSession \/ PrefixCached
  <2>1. pc = "command" /\ Head(steps) \in Kinds /\ UNCHANGED <<reports, notices>>
    BY <1>8 DEF RequireSession, PrefixCached, At, Kinds
  <2>2. Abort(handle) \/ \E d : Advance(handle, d)
    BY <1>8 DEF RequireSession, PrefixCached
  <2>3. handle'.queue = handle.queue /\ fresh' = fresh /\ dropped' = dropped
    BY <1>0, <2>2, CommandQueue
  <2> QED
    BY <1>s, <2>1, <2>3 DEF HandleHears
<1>9. CASE PrefixFetched \/ Exchanged \/ ExchangeFails
  <2>1. pc = "command" /\ Head(steps) \in Kinds /\ reports' = reports
    BY <1>9 DEF PrefixFetched, Exchanged, ExchangeFails, At, Kinds
  <2>2. PICK h \in Heard(handle) :
          /\ Counts(handle, h)
          /\ \/ Abort(h)
             \/ \E d : Advance(h, d)
             \/ \E d : Advance([h EXCEPT !.prefix = "cached"], d)
    BY <1>9 DEF PrefixFetched, Exchanged, ExchangeFails
  <2>3. /\ Full(h)
        /\ \/ h.queue = handle.queue /\ notices' = notices
           \/ h.queue = Append(handle.queue, notices + 1) /\ notices' = notices + 1
    BY <1>0, <2>2, HeardQueue
  <2> DEFINE g == [h EXCEPT !.prefix = "cached"]
  <2>4. Full(g) /\ g.queue = h.queue
    BY <2>3 DEF Full
  <2>5. Abort(h) \/ (\E d : Advance(h, d)) \/ (\E d : Advance(g, d))
    BY <2>2
  <2> HIDE DEF g
  <2>6. handle'.queue = h.queue /\ fresh' = fresh /\ dropped' = dropped
    BY <2>3, <2>4, <2>5, CommandQueue
  <2>7. HandleHears
    BY <2>1, <2>3, <2>6 DEF HandleHears
  <2> QED
    BY <1>s, <2>1, <2>7
<1>10. CASE Pump
  <2>1. pc = "command" /\ Head(steps) \in Kinds
    BY <1>10 DEF Pump, At, Kinds
  <2>2. PICK h \in Heard(handle) :
          /\ \E d : Advance([h EXCEPT !.queue = <<>>], d)
          /\ reports' = reports \o h.queue /\ Counts(handle, h)
    BY <1>10 DEF Pump
  <2>3. /\ Full(h)
        /\ \/ h.queue = handle.queue /\ notices' = notices
           \/ h.queue = Append(handle.queue, notices + 1) /\ notices' = notices + 1
    BY <1>0, <2>2, HeardQueue
  <2> DEFINE g == [h EXCEPT !.queue = <<>>]
  <2>4. Full(g) /\ g.queue = <<>>
    BY <2>3 DEF Full
  <2>5. \E d : Advance(g, d)
    BY <2>2
  <2> HIDE DEF g
  <2>6. handle'.queue = <<>> /\ fresh' = fresh /\ dropped' = dropped
    BY <2>4, <2>5, CommandQueue
  <2>7. Records
    BY <2>2, <2>3, <2>6 DEF Records
  <2> QED
    BY <1>s, <2>1, <2>7
<1>11. CASE Handshake
  <2>1. UNCHANGED <<pc, cmd, handle, fresh, reports, notices, dropped>>
    BY <1>11 DEF Handshake
  <2> QED
    BY <2>1 DEF NoticeInv
<1>12. CASE Petition
  <2>1. PICK h \in Heard(fresh) : (\E st : fresh' = [h EXCEPT !.st = st]) /\ Counts(fresh, h)
    BY <1>12 DEF Petition
  <2>2. /\ Full(h)
        /\ \/ h.queue = fresh.queue /\ notices' = notices
           \/ h.queue = Append(fresh.queue, notices + 1) /\ notices' = notices + 1
    BY <1>0, <2>1, HeardQueue
  <2>3. fresh'.queue = h.queue
    BY <2>1, <2>2 DEF Full
  <2>4. /\ pc = "command" /\ Head(steps) = "petition" /\ pc' = pc /\ cmd' = cmd
        /\ UNCHANGED <<handle, reports, dropped>>
    BY <1>12 DEF Petition, At
  <2>5. cmd[1] = "start"
    <3>1. \A s \in Seq(Kinds) : Len(s) >= 1 => Head(s) \in Kinds
      OBVIOUS
    <3>2. Head(<<"resign">>) # "petition" /\ "petition" \notin Kinds
      BY DEF Kinds
    <3> QED
      BY <1>0, <2>4, <3>1, <3>2 DEF StepsInv
  <2>6. FreshHears
    BY <2>2, <2>3, <2>4 DEF FreshHears
  <2>7. Kept(reports', handle'.queue, fresh'.queue, dropped', notices')
    BY <1>0, <2>6, NoticeShapes
  <2> QED
    BY <2>4, <2>5, <2>7 DEF NoticeInv
<1>13. CASE Install
  <2>1. Replaces
    BY <1>13, <1>n DEF Install, Replace, Replaces, Queued, Elems
  <2> QED
    BY <1>r, <2>1
<1>14. CASE Resign
  <2>1. pc = "command" /\ Head(steps) = "resign"
    BY <1>14 DEF Resign, At
  <2>2. cmd[1] # "start"
    <3>1. /\ Head(<<"handshake", "petition", "install">>) # "resign"
          /\ Head(<<"petition", "install">>) # "resign"
          /\ Head(<<"install">>) # "resign"
      OBVIOUS
    <3> QED
      BY <1>0, <2>1, <3>1 DEF StepsInv, StartSteps
  <2>3. fresh.queue = <<>>
    BY <2>2 DEF NoticeInv
  <2>4. Replaces
    BY <1>14, <1>n, <2>3 DEF Resign, Replace, Replaces, Queued, Elems
  <2> QED
    BY <1>r, <2>4
<1>15. CASE UNCHANGED vars
  BY <1>15 DEF vars, NoticeInv
<1> QED
  BY <1>1, <1>2, <1>3, <1>4, <1>5, <1>6, <1>7, <1>8, <1>9, <1>10, <1>11, <1>12, <1>13, <1>14,
     <1>15 DEF Next, Step, KeepAliveEnds, Dispatched, CommandStep

(* Nothing has arrived when the program starts.                              *)
LEMMA NoticeStart == Init => NoticeInv
<1> SUFFICES ASSUME Init PROVE NoticeInv
  OBVIOUS
<1>1. /\ reports = <<>> /\ handle.queue = <<>> /\ fresh.queue = <<>> /\ dropped = {}
      /\ notices = 0
  BY DEF Init, NoHandle
<1>2. Elems(reports) = {} /\ Distinct(reports) /\ reports \in Seq(Nat)
  BY <1>1, EmptyQueue
<1> QED
  BY <1>1, <1>2 DEF NoticeInv, Kept

(* What the invariant says of one state.                                     *)
LEMMA NoticeConsequences == NoticeInv => NoticesKept
BY DEF NoticeInv, Kept, NoticesKept, Elems, Distinct, Queued

(* No notice is lost or recorded twice, however many arrive and whatever     *)
(* exchange or keep-alive they arrive in (interpreter/mod.rs:111-138).       *)
THEOREM EveryNoticeKept == Spec => []NoticesKept
BY CliStart, CliStep, NoticeStart, NoticeStep, NoticeConsequences, PTL DEF Spec

===============================================================================
