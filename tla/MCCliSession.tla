----------------------------- MODULE MCCliSession -----------------------------
(* Instances of CliSession.  One unit is five seconds: an exchange takes up   *)
(* to one, a handshake up to four, and the interval is the shortest allowed.  *)
EXTENDS CliSession

===============================================================================
