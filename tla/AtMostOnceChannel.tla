-------------------------- MODULE AtMostOnceChannel --------------------------
(***************************************************************************)
(* What an established DTLS session promises its user in one direction:    *)
(* application records are delivered in any order, possibly never, but     *)
(* only if they were sent, and never twice.                                *)
(***************************************************************************)
EXTENDS Naturals

VARIABLES
    sent,  \* the records handed to the channel
    got,   \* the records delivered
    count  \* the number of deliveries

ChannelInit == sent = {} /\ got = {} /\ count = 0

ChannelSend ==
    /\ sent \subseteq sent'
    /\ \E n \in sent' : n \notin sent /\ sent' = sent \cup {n}
    /\ UNCHANGED <<got, count>>

ChannelDeliver ==
    /\ \E n \in sent \ got : got' = got \cup {n}
    /\ count' = count + 1
    /\ sent' = sent

ChannelSpec == ChannelInit /\ [][ChannelSend \/ ChannelDeliver]_<<sent, got, count>>

=============================================================================
