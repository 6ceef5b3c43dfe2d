---------------------------- MODULE MCCommissioner ----------------------------
(* Instances of Commissioner.                                                *)
EXTENDS Commissioner

===============================================================================
