-------------------------------- MODULE Story ---------------------------------
(***************************************************************************)
(* The state of one story of the codecs.  `part' names the story; `meant'  *)
(* is what was meant, kept by the model; `held' is what the program holds. *)
(***************************************************************************)

VARIABLES part, meant, held

vars == <<part, meant, held>>

===============================================================================
