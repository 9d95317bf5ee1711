------------------------ MODULE MCEepromEmulation ------------------------
(* Small instances of EepromEmulation for TLC. *)
EXTENDS EepromEmulation

MCTable == <<"cfg", "axis">>
MCListed == {"cfg", "axis"}
MCOneVariable == <<"cfg">>
MCOneListed == {"cfg"}
=============================================================================
