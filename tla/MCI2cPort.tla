------------------------------ MODULE MCI2cPort ------------------------------
(* Small instances of I2cPort for TLC. *)
EXTENDS I2cPort

\* Each device alone, with failing transfers and commands that reset the port.
MCScenarios ==
    {[devices |-> {"pcf"}, chips |-> NChips, faults |-> 4, resets |-> 3, preempts |-> {}],
     [devices |-> {"ads"}, chips |-> 1, faults |-> 4, resets |-> 0, preempts |-> {}]}
=============================================================================
