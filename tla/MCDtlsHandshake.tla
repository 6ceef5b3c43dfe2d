--------------------------- MODULE MCDtlsHandshake ----------------------------
(* Instances of DtlsHandshake: two clients, of which one may have another    *)
(* secret than the server.                                                   *)
EXTENDS DtlsHandshake, TLC

CONSTANTS c1, c2, right, wrong

MCClientPsks == {(c1 :> right) @@ (c2 :> p) : p \in {right, wrong}}

===============================================================================
