---------------------------- MODULE MCJoinerRelay ----------------------------
(***************************************************************************)
(* Instances of JoinerRelay.  MCJoinerRelay.cfg: one joiner, two PSKds     *)
(* (the right one and a wrong one), two sessions and two attempts.         *)
(* MCJoinerRelayTwo.cfg: two joiners, one attempt each.                    *)
(***************************************************************************)
EXTENDS JoinerRelay, TLC

(* No action and no property tells one PSKd or one joiner from another.      *)
Symmetry == Permutations(Pskd) \cup Permutations(Joiner)

=============================================================================
