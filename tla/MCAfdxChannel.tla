--------------------------- MODULE MCAfdxChannel ---------------------------
(* Instance of AfdxChannel for model checking. *)
EXTENDS AfdxChannel, TLC
=============================================================================
