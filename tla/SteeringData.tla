----------------------------- MODULE SteeringData -----------------------------
(***************************************************************************)
(* Steering data to which joiners are added one after another.             *)
(***************************************************************************)
EXTENDS Story, TlvCodec

CONSTANTS
    Joiners,            \* joiner IDs
    Filters             \* steering data to start from

ASSUME JoinerAssumption == Joiners \subseteq Seq(Byte)
ASSUME FilterAssumption == Filters \subseteq Seq(Byte)

InitSteering ==
    /\ part = "steering"
    /\ meant = {}               \* the joiners added
    /\ held \in Filters

AddJoiner(j) ==
    /\ part = "steering"
    /\ held' = add_joiner_to_steering_data(held, j)
    /\ meant' = meant \cup {j}
    /\ UNCHANGED part

Steer == \E j \in Joiners : AddJoiner(j)

SteeringSpec == InitSteering /\ [][Steer]_vars

-------------------------------------------------------------------------------
\* SteeringAdmits: add_joiner_to_steering_data leaves every joiner that was
\* added before in the filter, whatever filter it started from.
SteeringAdmits ==
    part = "steering" =>
        \A j \in meant : \A poly \in {4129, 32773} :
            LET bit == bloom_bit(poly, held, j)
            IN  HasBit(held[Len(held) - bit \div 8], bit % 8)

===============================================================================
