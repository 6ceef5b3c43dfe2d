---------------------------- MODULE RecordChannel ----------------------------
(***************************************************************************)
(* The application-data path of an established DTLS session in one         *)
(* direction (thread-dtls driver.rs): the sender numbers and seals         *)
(* records, the receiver opens them behind an anti-replay window.  Client  *)
(* and server use the same SessionState, with the two keys swapped.        *)
(*                                                                         *)
(* The network keeps every record it was given and hands over datagrams of *)
(* one or two records, old ones again, garbled ones and alerts included.   *)
(***************************************************************************)
EXTENDS Integers, FiniteSets

CONSTANTS
    Window,       \* u64::BITS, the width of `seen'
    MaxSequence   \* the last 48-bit record number (dtls_ccm_nonce)

ASSUME WindowAssumption == Window \in Nat \ {0}
ASSUME SequenceAssumption == MaxSequence \in Nat \ {0}

VARIABLES
    next,       \* next_application_sequence of the sender
    newest,     \* newest_sequence, or None
    seen,       \* the offsets below newest whose bit is set
    delivered,  \* history: the records recv_application_data has returned
    returned    \* history: how many times it has returned one

receiver == <<newest, seen, delivered, returned>>

vars == <<next, newest, seen, delivered, returned>>

None == -1

Offset == 0 .. Window - 1

(* Records 1 .. next - 1 exist; record 0 of epoch 1 was the Finished.        *)
Sent == 1 .. next - 1

TypeOK ==
    /\ next \in 1 .. MaxSequence + 1
    /\ newest \in {None} \cup 1 .. MaxSequence
    /\ seen \subseteq Offset
    /\ delivered \subseteq 1 .. MaxSequence
    /\ returned \in Nat

Init ==
    /\ next = 1
    /\ newest = None
    /\ seen = {}
    /\ delivered = {}
    /\ returned = 0

-----------------------------------------------------------------------------
(* The window.                                                               *)

(* Fault: the comparison with the width is off by one.                       *)
HasSeenOffByOne(n) ==
    /\ newest # None
    /\ n <= newest
    /\ newest - n > Window \/ newest - n \in seen

HasSeen(n) ==
    /\ newest # None
    /\ n <= newest
    /\ newest - n >= Window \/ newest - n \in seen

(* Fault: the older bits stay where they were.                               *)
ShiftedNot(n) == seen \cup {0}

(* (seen << shift) | 1: bits shifted past the width are gone.                *)
Shifted(n) == {o \in Offset : o = 0 \/ o - (n - newest) \in seen}

MarkSeen(n) ==
    /\ newest' = IF newest = None \/ n > newest THEN n ELSE newest
    /\ seen' = CASE newest = None -> {0}
                 [] newest # None /\ n > newest ->
                      IF n - newest >= Window THEN {0} ELSE Shifted(n)
                 [] OTHER -> seen \cup ({newest - n} \cap Offset)

-----------------------------------------------------------------------------
(* protect_application_data and the send.  A send that fails, or a future    *)
(* dropped while sending, loses the record and its number.                   *)
SendApplicationData ==
    /\ next <= MaxSequence
    /\ next' = next + 1
    /\ UNCHANGED receiver

(* A datagram, record by record: a number and whether the record's tag       *)
(* verifies, or an alert.  Only the peer seals records that verify.          *)
Record ==
    [kind : {"ApplicationData"}, n : Sent, tag : {"valid"}]
      \cup [kind : {"ApplicationData"}, n : 0 .. MaxSequence, tag : {"wrong"}]
      \cup {[kind |-> "Alert", n |-> 0, tag |-> "wrong"]}

(* Record n is handed to the caller of recv_application_data.                *)
Return(n) ==
    /\ delivered' = delivered \cup {n}
    /\ returned' = returned + 1

(* Fault: the window is updated before the record is opened.                 *)
OpenMarksFirst(r) ==
    /\ MarkSeen(r.n)
    /\ IF r.tag = "valid" THEN Return(r.n) ELSE UNCHANGED <<delivered, returned>>

(* open_application_data of a record that was not seen: opened, marked and   *)
(* returned, or refused with nothing changed.                                *)
Open(r) ==
    IF r.tag = "valid" THEN MarkSeen(r.n) /\ Return(r.n) ELSE UNCHANGED receiver

Skipped(r) == r.kind = "ApplicationData" /\ HasSeen(r.n)

(* recv_application_data on one datagram.  Records already seen are skipped; *)
(* the first other record decides the call and the rest is dropped: it is    *)
(* delivered, or it is an alert or does not open and the call fails.         *)
RecvApplicationData(first, second) ==
    /\ CASE ~Skipped(first) /\ first.kind = "ApplicationData" -> Open(first)
         [] Skipped(first) /\ ~Skipped(second) /\ second.kind = "ApplicationData" ->
               Open(second)
         [] OTHER -> UNCHANGED receiver
    /\ UNCHANGED next

Next ==
    \/ SendApplicationData
    \/ \E first, second \in Record : RecvApplicationData(first, second)

Spec == Init /\ [][Next]_vars

-----------------------------------------------------------------------------
(* Properties.                                                               *)

(* The window is exact: has_seen refuses a number precisely when the record  *)
(* was delivered or is a whole window behind the newest delivered one.  No   *)
(* shift, gap or late record makes it forget a delivery or refuse a fresh    *)
(* record that is still in range.                                            *)
WindowExact ==
    /\ newest = None <=> delivered = {}
    /\ newest # None => newest \in delivered /\ \A n \in delivered : n <= newest
    /\ \A n \in 1 .. MaxSequence :
          HasSeen(n) <=> n \in delivered \/ (newest # None /\ newest - n >= Window)

Channel == INSTANCE AtMostOnceChannel WITH sent <- Sent, got <- delivered, count <- returned

(* The session implements an at-most-once channel: whatever the network      *)
(* repeats, reorders or garbles, a record is returned to the user at most    *)
(* once and only if the peer sealed it.                                      *)
AtMostOnce == Channel!ChannelSpec

(* Only a delivery moves the window: a record that does not open, an alert   *)
(* or a replay leaves it as it was, so it can never cost an authentic record *)
(* its turn.                                                                 *)
OnlyDeliveryMovesWindow ==
    [][<<newest, seen>>' # <<newest, seen>> =>
          \E n \in Sent \ delivered : delivered' = delivered \cup {n}]_vars

=============================================================================
