---------------------------- MODULE ReplyService ----------------------------
(***************************************************************************)
(* What the command interface promises to a terminal: the result of every  *)
(* command it accepts, the terminal's own or one of another interface,     *)
(* reaches the terminal once, as a whole reply, in the order in which the  *)
(* commands of that interface were sent.  A command may be given up, and   *)
(* then has no reply.                                                      *)
(***************************************************************************)
EXTENDS Naturals, Sequences

CONSTANTS
    Command,        \* the commands hosts may send: numbers, in their order
    Interfaces      \* for each interface, the set of its commands

VARIABLES
    waiting,        \* accepted, neither answered nor given up
    answered        \* the replies the terminal has received, in their order

Init == waiting = {} /\ answered = <<>>

\* The commands that have the interface of c.
Peers(c) == UNION {I \in Interfaces : c \in I}

\* A command for which there is no room is not accepted; making room may cost
\* others.
Accept(c) ==
    /\ \A d \in Peers(c) : d \in waiting \/ (\E i \in DOMAIN answered : answered[i] = d) => d < c
    /\ waiting' \in SUBSET (waiting \union {c})
    /\ UNCHANGED answered

Answer(c) ==
    /\ c \in waiting
    /\ \A d \in Peers(c) \intersect waiting : c <= d
    /\ answered' = Append(answered, c)
    /\ waiting' = waiting \ {c}

GiveUp ==
    /\ waiting' \in SUBSET waiting
    /\ UNCHANGED answered

Next == (\E c \in Command : Accept(c) \/ Answer(c)) \/ GiveUp

Spec == Init /\ [][Next]_<<waiting, answered>>
=============================================================================
