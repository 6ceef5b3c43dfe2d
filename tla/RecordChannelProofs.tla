------------------------- MODULE RecordChannelProofs -------------------------
(***************************************************************************)
(* Proofs about RecordChannel, for every window width and every range of   *)
(* record numbers: the code's 64 bits and 48 bits among them.              *)
(***************************************************************************)
EXTENDS RecordChannel, TLAPS

(* The inductive invariant: WindowExact needs to know that what was          *)
(* delivered was sent, or a delivery could outrun the sender's numbers.      *)
ChannelInv == TypeOK /\ delivered \subseteq Sent /\ WindowExact

(* Marking a number that has_seen did not refuse keeps the window exact.     *)
LEMMA MarkExact ==
    ASSUME ChannelInv, NEW n \in Sent, ~HasSeen(n), MarkSeen(n), next' = next,
           delivered' = delivered \cup {n}, returned' = returned + 1
    PROVE  ChannelInv' /\ n \notin delivered
<1>1. /\ Window \in Nat /\ Window >= 1 /\ MaxSequence \in Nat
      /\ next \in Int /\ next <= MaxSequence + 1
      /\ n \in 1 .. MaxSequence /\ n < next
  BY WindowAssumption, SequenceAssumption DEF ChannelInv, TypeOK, Sent
<1>2. n \notin delivered
  BY <1>1 DEF ChannelInv, WindowExact
<1>3. TypeOK' /\ delivered' \subseteq Sent'
  <2>1. seen' \subseteq Offset
    BY <1>1 DEF ChannelInv, TypeOK, MarkSeen, Shifted, Offset
  <2>2. newest' \in {None} \cup 1 .. MaxSequence
    BY <1>1 DEF ChannelInv, TypeOK, MarkSeen
  <2> QED
    BY <1>1, <2>1, <2>2 DEF ChannelInv, TypeOK, Sent
<1>4. CASE newest = None
  <2>1. delivered = {} /\ newest' = n /\ seen' = {0} /\ delivered' = {n}
    BY <1>4 DEF ChannelInv, WindowExact, MarkSeen
  <2>2. newest' # None
    BY <1>1, <2>1 DEF None
  <2>3. \A m \in 1 .. MaxSequence :
           HasSeen(m)' <=> m \in delivered' \/ (newest' # None /\ newest' - m >= Window)
    BY <1>1, <2>1, <2>2 DEF HasSeen
  <2> QED
    BY <1>1, <1>2, <1>3, <2>1, <2>2, <2>3 DEF ChannelInv, WindowExact
<1>5. CASE newest # None /\ n > newest
  <2>1. newest' = n /\ newest \in 1 .. MaxSequence /\ newest' # None
    BY <1>1, <1>5 DEF ChannelInv, TypeOK, MarkSeen, None
  <2>2. ASSUME NEW m \in 1 .. MaxSequence
        PROVE  HasSeen(m)' <=> m \in delivered' \/ (newest' # None /\ newest' - m >= Window)
    <3>1. HasSeen(m) <=> m \in delivered \/ newest - m >= Window
      BY <1>5 DEF ChannelInv, WindowExact
    <3>2. m \in delivered => m <= newest
      BY <1>5 DEF ChannelInv, WindowExact
    <3>3. CASE m >= n
      <4>1. m \in delivered' <=> m = n
        BY <1>1, <1>5, <2>1, <3>2, <3>3
      <4>2. 0 \in seen'
        BY <1>1, <1>5, <2>1 DEF MarkSeen, Shifted, Offset
      <4>3. HasSeen(m)' <=> m = n
        BY <1>1, <2>1, <3>3, <4>2 DEF HasSeen
      <4> QED
        BY <1>1, <2>1, <3>3, <4>1, <4>3
    <3>4. CASE m < n /\ n - newest >= Window
      <4>1. seen' = {0}
        BY <1>1, <1>5, <2>1, <3>4 DEF MarkSeen
      <4>2. HasSeen(m)' <=> n - m >= Window
        BY <1>1, <2>1, <3>4, <4>1 DEF HasSeen
      <4> QED
        BY <1>1, <1>5, <2>1, <3>2, <3>4, <4>2
    <3>5. CASE m < n /\ ~(n - newest >= Window)
      <4>1. seen' = Shifted(n)
        BY <1>1, <1>5, <2>1, <3>5 DEF MarkSeen
      <4>2. HasSeen(m)' <=> n - m >= Window \/ n - m \in seen'
        BY <1>1, <2>1, <3>5 DEF HasSeen
      <4>3. CASE n - m >= Window
        BY <2>1, <4>2, <4>3
      <4>4. CASE ~(n - m >= Window)
        <5>1. n - m \in Offset /\ (n - m) - (n - newest) = newest - m
          BY <1>1, <2>1, <3>5, <4>4 DEF Offset
        <5>2. n - m \in seen' <=> newest - m \in seen
          BY <1>1, <3>5, <4>1, <5>1 DEF Shifted
        <5>3. newest - m \in seen <=> m \in delivered
          <6>1. newest - m \in seen => newest - m >= 0
            BY <1>1, <2>1 DEF ChannelInv, TypeOK, Offset
          <6>2. ~(newest - m >= Window)
            BY <1>1, <1>5, <2>1, <4>4
          <6> QED
            BY <1>1, <1>5, <2>1, <3>1, <3>2, <6>1, <6>2 DEF HasSeen
        <5> QED
          BY <1>1, <2>1, <3>5, <4>2, <4>4, <5>2, <5>3
      <4> QED BY <4>3, <4>4
    <3> QED BY <1>1, <3>3, <3>4, <3>5
  <2>3. \A m \in delivered' : m <= newest'
    BY <1>1, <1>5, <2>1 DEF ChannelInv, WindowExact, TypeOK
  <2> QED
    BY <1>2, <1>3, <2>1, <2>2, <2>3 DEF ChannelInv, WindowExact
<1>6. CASE newest # None /\ ~(n > newest)
  <2>1. newest' = newest /\ newest \in 1 .. MaxSequence
    BY <1>1, <1>6 DEF ChannelInv, TypeOK, MarkSeen, None
  <2>2. newest - n \in Offset
    BY <1>1, <1>6, <2>1 DEF HasSeen, Offset
  <2>3. seen' = seen \cup {newest - n}
    BY <1>1, <1>6, <2>1, <2>2 DEF MarkSeen
  <2>4. \A m \in 1 .. MaxSequence :
           HasSeen(m)' <=> m \in delivered' \/ (newest' # None /\ newest' - m >= Window)
    <3> TAKE m \in 1 .. MaxSequence
    <3>1. newest - m = newest - n <=> m = n
      BY <1>1, <2>1
    <3>2. HasSeen(m) <=> m \in delivered \/ newest - m >= Window
      BY <1>6 DEF ChannelInv, WindowExact
    <3>3. n <= newest
      BY <1>1, <1>6, <2>1
    <3> QED
      BY <1>6, <2>1, <2>3, <3>1, <3>2, <3>3 DEF HasSeen
  <2>5. newest \in delivered' /\ \A m \in delivered' : m <= newest
    BY <1>1, <1>6, <2>1 DEF ChannelInv, WindowExact
  <2> QED
    BY <1>2, <1>3, <1>6, <2>1, <2>4, <2>5 DEF ChannelInv, WindowExact
<1> QED
  BY <1>4, <1>5, <1>6

(* A call of recv_application_data delivers one record that has_seen did not *)
(* refuse, or changes nothing.                                               *)
LEMMA RecvShape ==
    ASSUME NEW first \in Record, NEW second \in Record,
           RecvApplicationData(first, second)
    PROVE  /\ next' = next
           /\ \/ UNCHANGED receiver
              \/ \E n \in Sent : ~HasSeen(n) /\ MarkSeen(n) /\ Return(n)
<1>1. ASSUME NEW r \in Record, ~Skipped(r), r.kind = "ApplicationData", Open(r)
      PROVE  \/ UNCHANGED receiver
             \/ \E n \in Sent : ~HasSeen(n) /\ MarkSeen(n) /\ Return(n)
  <2>1. CASE r.tag = "valid"
    <3>1. r.n \in Sent
      BY <1>1, <2>1 DEF Record
    <3> QED
      BY <1>1, <2>1, <3>1 DEF Open, Skipped
  <2>2. CASE r.tag # "valid"
    BY <1>1, <2>2 DEF Open
  <2> QED BY <2>1, <2>2
<1> QED
  BY <1>1 DEF RecvApplicationData

(* Every action keeps the invariant.                                         *)
LEMMA ChannelStep == ChannelInv /\ [Next]_vars => ChannelInv'
<1> SUFFICES ASSUME ChannelInv, [Next]_vars PROVE ChannelInv'
  OBVIOUS
<1>1. CASE SendApplicationData
  BY <1>1, SequenceAssumption
     DEF SendApplicationData, receiver, ChannelInv, TypeOK, WindowExact, HasSeen, Sent
<1>2. CASE UNCHANGED vars
  BY <1>2 DEF vars, ChannelInv, TypeOK, WindowExact, HasSeen, Sent
<1>3. ASSUME NEW first \in Record, NEW second \in Record, RecvApplicationData(first, second)
      PROVE  ChannelInv'
  <2>1. next' = next
    BY <1>3, RecvShape
  <2>2. CASE UNCHANGED receiver
    BY <2>1, <2>2 DEF receiver, ChannelInv, TypeOK, WindowExact, HasSeen, Sent
  <2>3. CASE \E n \in Sent : ~HasSeen(n) /\ MarkSeen(n) /\ Return(n)
    BY <2>1, <2>3, MarkExact DEF Return
  <2> QED BY <1>3, <2>2, <2>3, RecvShape
<1> QED
  BY <1>1, <1>2, <1>3 DEF Next

(* The invariant holds of a new session.                                     *)
LEMMA ChannelStart == Init => ChannelInv
BY WindowAssumption, SequenceAssumption
   DEF Init, ChannelInv, TypeOK, WindowExact, HasSeen, Sent, Offset, None

(* The anti-replay window is exact for every width: has_seen refuses a       *)
(* number exactly when it was delivered or fell out of the window.           *)
THEOREM ReplayWindowExact == Spec => []WindowExact
<1>1. ChannelInv => WindowExact
  BY DEF ChannelInv
<1> QED
  BY <1>1, ChannelStart, ChannelStep, PTL DEF Spec

(* The session implements the at-most-once channel: every step of it is a    *)
(* send, a first delivery, or nothing at all.                                *)
THEOREM ImplementsAtMostOnce == Spec => AtMostOnce
<1>1. Init => Channel!ChannelInit
  BY DEF Init, Channel!ChannelInit, Sent
<1>2. ChannelInv /\ [Next]_vars =>
         [Channel!ChannelSend \/ Channel!ChannelDeliver]_<<Sent, delivered, returned>>
  <2> SUFFICES ASSUME ChannelInv, [Next]_vars
               PROVE  [Channel!ChannelSend \/ Channel!ChannelDeliver]_<<Sent, delivered, returned>>
    OBVIOUS
  <2>1. CASE SendApplicationData
    <3>1. next \in Int /\ next >= 1
      BY DEF ChannelInv, TypeOK
    <3>2. /\ Sent' = Sent \cup {next} /\ next \notin Sent
          /\ delivered' = delivered /\ returned' = returned
      BY <2>1, <3>1 DEF SendApplicationData, receiver, Sent
    <3> QED
      BY <3>2 DEF Channel!ChannelSend
  <2>2. CASE UNCHANGED vars
    BY <2>2 DEF vars, Sent
  <2>3. ASSUME NEW first \in Record, NEW second \in Record, RecvApplicationData(first, second)
        PROVE  [Channel!ChannelSend \/ Channel!ChannelDeliver]_<<Sent, delivered, returned>>
    <3>1. Sent' = Sent
      BY <2>3, RecvShape DEF Sent
    <3>2. CASE UNCHANGED receiver
      BY <3>1, <3>2 DEF receiver
    <3>3. CASE \E n \in Sent : ~HasSeen(n) /\ MarkSeen(n) /\ Return(n)
      <4>1. PICK n \in Sent : ~HasSeen(n) /\ MarkSeen(n) /\ Return(n)
        BY <3>3
      <4>2. n \notin delivered
        BY <2>3, <4>1, MarkExact, RecvShape DEF Return
      <4> QED
        BY <3>1, <4>1, <4>2 DEF Return, Channel!ChannelDeliver
    <3> QED BY <2>3, <3>2, <3>3, RecvShape
  <2> QED
    BY <2>1, <2>2, <2>3 DEF Next
<1> QED
  BY <1>1, <1>2, ChannelStart, ChannelStep, PTL DEF Spec, AtMostOnce, Channel!ChannelSpec

(* A record that does not open, an alert or a replay never moves the window. *)
THEOREM WindowMovesByDelivery == Spec => OnlyDeliveryMovesWindow
<1>1. ChannelInv /\ [Next]_vars =>
         [<<newest, seen>>' # <<newest, seen>> =>
            \E n \in Sent \ delivered : delivered' = delivered \cup {n}]_vars
  <2> SUFFICES ASSUME ChannelInv, [Next]_vars, <<newest, seen>>' # <<newest, seen>>
               PROVE  \E n \in Sent \ delivered : delivered' = delivered \cup {n}
    BY DEF vars
  <2>1. PICK first \in Record, second \in Record : RecvApplicationData(first, second)
    BY DEF Next, SendApplicationData, receiver, vars
  <2>2. next' = next /\ \E n \in Sent :
           ~HasSeen(n) /\ MarkSeen(n) /\ Return(n)
    BY <2>1, RecvShape DEF receiver
  <2>3. PICK n \in Sent : ~HasSeen(n) /\ MarkSeen(n) /\ Return(n)
    BY <2>2
  <2>4. n \notin delivered
    BY <2>2, <2>3, MarkExact DEF Return
  <2> QED BY <2>3, <2>4 DEF Return
<1> QED
  BY <1>1, ChannelStart, ChannelStep, PTL DEF Spec, OnlyDeliveryMovesWindow

(* The window's variables keep their types for every window size and every   *)
(* number of records: no offset beyond the window is ever remembered.        *)
THEOREM ChannelTypes == Spec => []TypeOK
<1>1. ChannelInv => TypeOK
  BY DEF ChannelInv
<1> QED
  BY <1>1, ChannelStart, ChannelStep, PTL DEF Spec

=============================================================================
