------------------------- MODULE MCEepromFailures -------------------------
(* EepromEmulation with callers that write to each variable values no      *)
(* other variable has, so that a value shows what it was written to: for   *)
(* the run with all faults, where acknowledged values may be lost.         *)
EXTENDS MCEepromEmulation

Own == [cfg |-> {"FFFF", "v1"}, axis |-> {"v2"}]

OwnNext ==
    \/ Progress \/ PowerOn \/ PowerLoss \/ FlashFormat \/ ProgramFailure
    \/ \E a \in Addrs : \E d \in Own[a] : FlashWrite(a, d)

\* All but the history of acknowledged values, which no step depends on.
PagesAndCall == <<flash, call, retries>>

OwnSpec == Init /\ [][OwnNext]_vars

\* Whatever programming errors, power losses and formats came before, also those in
\* the middle of a transfer or a recovery or between the two halves of a pair: what
\* Flash_Read returns for a variable was once written to that variable.
ReadsOwnValues ==
    pc = "idle" => \A a \in Addrs : Read(a) \in Own[a] \union {None}
=============================================================================
