--------------------------- MODULE MCCommandSystem ---------------------------
(* Small instances of CommandSystem for TLC. *)
EXTENDS CommandSystem

\* Three commands under way with short replies, two if a reply exceeds the
\* FIFO, hosts that are slow, and one that sends more HID reports.  All of them
\* are Careful.
CarefulHosts ==
    {[commands |-> 1..4, window |-> 3, ring |-> 5, long |-> {}, slow |-> FALSE],
     [commands |-> 1..4, window |-> 2, ring |-> 5, long |-> {1, 2}, slow |-> FALSE],
     [commands |-> 1..3, window |-> 2, ring |-> 5, long |-> {1}, slow |-> TRUE],
     [commands |-> 1..4, window |-> 3, ring |-> 3, long |-> {}, slow |-> TRUE],
     [commands |-> {1, 4, 5}, window |-> 3, ring |-> 5, long |-> {}, slow |-> TRUE]}

\* One more under way than Careful allows.
EagerHosts ==
    {[commands |-> 1..4, window |-> 4, ring |-> 5, long |-> {}, slow |-> FALSE]}
=============================================================================
