------------------------------ MODULE MCSpiEncoder ------------------------------
(* Instances of SpiEncoder for TLC. *)
EXTENDS SpiEncoder

With(kind, readers, commands, invalid, failing) ==
    [kind |-> kind, mode |-> "AMT23", readers |-> readers, commands |-> commands,
     misread |-> FALSE, bad |-> invalid, errors |-> failing]

\* SSI in raw mode, and with disturbances its check does not find.
RawSsi(readers) == [With("ssi", readers, {}, 0, 0) EXCEPT !.mode = "raw"]
MisreadSsi(readers) == [With("ssi", readers, {}, 1, 0) EXCEPT !.misread = TRUE]

\* MagnTek has one reader; the others have two.
MCScenarios ==
    {With("mt", {"ffb"}, {"zero", "register"}, 1, 0), With("mt", {"tmc"}, {"register"}, 1, 0),
     With("biss", {"ffb", "tmc"}, {"zeroAtRest"}, 1, 0), With("ssi", {"ffb", "tmc"}, {}, 1, 0)}
    \union {RawSsi({"ffb", "tmc"}), MisreadSsi({"ffb"})}
    \union {With(kind, {"ffb"}, {}, 0, 1) : kind \in {"mt", "biss", "ssi"}}

\* The position is also asked for by a command.
AskedFor == {With("mt", {"ffb", "cmd"}, {}, 0, 0)}
=============================================================================
