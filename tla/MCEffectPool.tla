----------------------------- MODULE MCEffectPool -----------------------------
(* Small instances of EffectPool for TLC. *)
EXTENDS EffectPool

\* A game that wants more effects than there are, one that plays an effect for
\* some time with and without a delay, one that plays two effects, one that changes
\* the type of its effect, and a program that uses commands and no filtered types.
MCHosts ==
    {[itf |-> "hid", types |-> {"sine", "damper"}, durations |-> {0}, delays |-> {0},
      retypes |-> FALSE, wants |-> NEffects + 1, until |-> 0],
     [itf |-> "hid", types |-> {"damper"}, durations |-> {0, 1}, delays |-> {0, 1},
      retypes |-> FALSE, wants |-> 1, until |-> 5],
     [itf |-> "hid", types |-> {"sine"}, durations |-> {1}, delays |-> {0},
      retypes |-> FALSE, wants |-> 2, until |-> 3],
     [itf |-> "hid", types |-> {"sine", "damper"}, durations |-> {1}, delays |-> {1},
      retypes |-> TRUE, wants |-> 1, until |-> 5],
     [itf |-> "serial", types |-> {"sine"}, durations |-> {0, 1}, delays |-> {0},
      retypes |-> FALSE, wants |-> 1, until |-> 4]}
=============================================================================
