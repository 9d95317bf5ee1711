--------------------------- MODULE MCTmcDriver ---------------------------
(* Small instances of TmcDriver for TLC. *)
EXTENDS TmcDriver
=============================================================================
