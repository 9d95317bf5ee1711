-------------------------- MODULE PersistentStore --------------------------
(***************************************************************************)
(* What the firmware expects of its configuration memory (Flash_Read,      *)
(* Flash_Write, Flash_Format), whatever the storage behind it: a map from  *)
(* the 16 bit addresses of eeprom_addresses.c to 16 bit values, in which   *)
(* one write at a time is carried out completely or not at all, also when  *)
(* the board loses power.  EepromEmulation is shown to implement it.       *)
(***************************************************************************)
CONSTANTS
    Vars,       \* the addresses of the persistent variables
    Values,     \* what a variable can hold
    None        \* a variable that was never written; not one of the values

VARIABLES
    store,      \* the value each variable has
    req         \* the write being carried out, or None

storeVars == <<store, req>>

Empty == [v \in Vars |-> None]

StoreTypeOK ==
    /\ store \in [Vars -> Values \union {None}]
    /\ req \in [adr : Vars, dat : Values] \union {None}

Init ==
    /\ store = Empty
    /\ req = None

\* A caller asks for variable v to become d; only changes are written.
Begin(v, d) ==
    /\ req = None
    /\ store[v] # d
    /\ req' = [adr |-> v, dat |-> d]
    /\ UNCHANGED store

\* The write takes effect, at one instant and for this variable only.
Commit ==
    /\ req # None
    /\ store' = [store EXCEPT ![req.adr] = req.dat]
    /\ req' = None

\* The write is given up before it took effect: power loss or flash error.
Abandon ==
    /\ req # None
    /\ req' = None
    /\ UNCHANGED store

\* Nothing but an explicit format may drop values.
Format ==
    /\ req = None
    /\ store' = Empty
    /\ UNCHANGED req

Next ==
    \/ \E v \in Vars, d \in Values : Begin(v, d)
    \/ Commit
    \/ Abandon
    \/ Format

Spec == Init /\ [][Next]_storeVars
=============================================================================
