------------------------------ MODULE EffectPool ------------------------------
(***************************************************************************)
(* The force feedback effects of a game: allocation, start, stop and       *)
(* duration (HidFFB.cpp, SerialFFB.cpp, EffectsCalculator.cpp).            *)
(*                                                                         *)
(* The array of effects is shared, without a lock, by the thread that      *)
(* receives the reports or commands of the host and the control loop       *)
(* (FFBMAIN, priority 30), which goes through all effects and sums up      *)
(* their forces.  HID reports arrive in the USB thread (40), commands in   *)
(* CMD_MAIN (32): both run to their end at any point of the loop.  Forces  *)
(* are abstracted to the set of blocks that contribute.                    *)
(***************************************************************************)
EXTENDS Integers, FiniteSets

CONSTANTS
    NEffects,       \* MAX_EFFECTS
    Type,           \* the types of effects
    Filtered,       \* those whose force is calculated by a filter
    None,           \* FFB_EFFECT_NONE, or no block
    Infinite,       \* FFB_EFFECT_DURATION_INFINITE
    Hosts           \* how hosts may behave: see Host

Interfaces == {"hid", "serial"}

\* The interface a host uses, the types, durations and start delays (in ticks)
\* it asks for, whether it changes the type of an effect it has, how many effects
\* it wants at a time, and the last tick (bound).  Hosts name only effects they
\* have: the code asks no more than that the index is in the array.
Host == [itf : Interfaces, types : SUBSET Type, durations : SUBSET Nat, delays : SUBSET Nat,
         retypes : BOOLEAN, wants : Nat, until : Nat]

ASSUME EffectAssumption ==
    /\ NEffects \in Nat \ {0} /\ Infinite \in Nat \ {0}
    /\ Filtered \subseteq Type /\ None \notin Type
    /\ Hosts \subseteq Host

Block == 1..NEffects

VARIABLES
    host,           \* the host
    owned,          \* the effects it has created, by block
    asked,          \* the type it has asked for, before it reads the answer
    effects,        \* EffectsCalculator::effects
    report,         \* HidFFB::blockLoad_report
    active,         \* effects_active and ffb_active
    now,            \* HAL_GetTick()
    pc,             \* where FFBMAIN is in calculateEffects
    fxi,            \* the effect it looks at
    forces,         \* the blocks whose forces it has added up
    torque,         \* those in the torque handed to the axes
    touched,        \* history: the host has changed fxi since the loop looked at it
    changed,        \* history: the blocks the host has changed since the pass began
    retyped         \* history: those whose type has changed since their filters were set

hostVars == <<host, owned, asked>>
pool == <<effects, report, active>>
loop == <<pc, fxi, forces, torque>>
history == <<touched, changed, retyped>>
vars == <<hostVars, pool, now, loop, history>>

\* FFB_Effect(): an unused effect.
Fresh == [type |-> None, playing |-> FALSE, duration |-> Infinite, startTime |-> 0,
          startDelay |-> 0, filter |-> FALSE]

Effect == [type : Type \union {None}, playing : BOOLEAN, duration : Nat, startTime : Nat,
           startDelay : Nat, filter : BOOLEAN]

TypeOK ==
    /\ host \in Hosts
    /\ owned \in [Block -> Type \union {None}] /\ asked \in Type \union {None}
    /\ effects \in [Block -> Effect]
    /\ report \in [status : {1, 2}, index : Block]
    /\ active \in BOOLEAN /\ now \in 0..host.until
    /\ pc \in {"idle", "look", "elapsed", "expired", "active", "filter", "fault"}
    /\ fxi \in 1..NEffects+1
    /\ touched \in BOOLEAN /\ {forces, torque, changed, retyped} \subseteq SUBSET Block

Init ==
    /\ host \in Hosts /\ owned = [b \in Block |-> None] /\ asked = None
    /\ effects = [b \in Block |-> Fresh]
    /\ report = [status |-> 1, index |-> 1] /\ active = FALSE /\ now = 0
    /\ pc = "idle" /\ fxi = 1 /\ forces = {} /\ torque = {} /\ touched = FALSE
    /\ changed = {} /\ retyped = {}

Finite(e) == e.duration \notin {Infinite, 0}
-----------------------------------------------------------------------------
(* The host                                                                *)

\* A wrong variant of SetFilters: filters are set, but not made.
SetFiltersOnly(e) == e

\* EffectsCalculator::setFilters: filters are made for the type the effect has.
SetFilters(e) == [e EXCEPT !.filter = @ \/ e.type \in Filtered]

\* EffectsCalculator::find_free_effect
Free == {b \in Block : effects[b].type = None}
First == CHOOSE b \in Free : \A c \in Free : b <= c

\* The host changes some effects.
Touch(bs) ==
    /\ touched' = (touched \/ (pc \notin {"idle", "look"} /\ fxi \in bs))
    /\ changed' = IF pc = "idle" THEN {} ELSE changed \union bs

Serves(itf) == host.itf = itf /\ pc # "fault"

WantsMore == Cardinality({b \in Block : owned[b] # None}) < host.wants

\* Wrong variants: a failure keeps the last status; the index counts from zero.
RefusedKeeping == report
AnswerFromZero(b) == [status |-> 1, index |-> b - 1]

\* The block load report.  The index of a failed request stays that of the last effect.
Refused == [report EXCEPT !.status = 2]
Answer(b) == [status |-> 1, index |-> b]

\* HidFFB::new_effect
NewEffect(t) ==
    /\ Serves("hid") /\ asked = None /\ WantsMore
    /\ asked' = t
    /\ IF Free = {}
       THEN /\ report' = Refused
            /\ UNCHANGED <<effects, touched, changed>>
       ELSE /\ effects' = [effects EXCEPT ![First] = SetFilters([Fresh EXCEPT !.type = t])]
            /\ report' = Answer(First)
            /\ Touch({First})
    /\ UNCHANGED <<host, owned, active, now, loop, retyped>>

\* HidFFB::hidGet: the host reads the block load report.
BlockLoad ==
    /\ Serves("hid") /\ asked # None
    /\ owned' = IF report.status = 1 THEN [owned EXCEPT ![report.index] = asked] ELSE owned
    /\ asked' = None
    /\ UNCHANGED <<host, pool, now, loop, history>>

\* The effect ends before the bound of the clock.
InTime(e) == Finite(e) => now + e.startDelay + e.duration + 1 < host.until

\* What HidFFB::set_effect makes of an effect.  With another type the filters are
\* set before the effect has that type, and its start time is the clock's start.
Updated(e, t, duration, delay) ==
    LET kept == IF t = e.type THEN e ELSE SetFilters([e EXCEPT !.startTime = 0])
    IN  [kept EXCEPT !.type = t, !.startDelay = delay,
                     !.duration = IF duration = 0 THEN Infinite ELSE duration]

SetEffect(b, t, duration, delay) ==
    /\ Serves("hid") /\ owned[b] # None
    /\ t = owned[b] \/ host.retypes
    /\ effects' = [effects EXCEPT ![b] = Updated(@, t, duration, delay)]
    /\ InTime(effects'[b])
    /\ owned' = [owned EXCEPT ![b] = t]
    /\ active' = TRUE
    /\ retyped' = IF t = effects[b].type THEN retyped ELSE retyped \union {b}
    /\ Touch({b})
    /\ UNCHANGED <<host, asked, report, now, loop>>

\* SerialFFB::newEffect: no filters are made.
NewSerialEffect(t) ==
    /\ Serves("serial") /\ WantsMore /\ Free # {}
    /\ effects' = [effects EXCEPT ![First].type = t, ![First].duration = Infinite]
    /\ owned' = [owned EXCEPT ![First] = t]
    /\ Touch({First})
    /\ UNCHANGED <<host, asked, report, active, now, loop, retyped>>

\* The duration set by a command.
SetDuration(b, duration) ==
    /\ Serves("serial") /\ owned[b] # None
    /\ effects' = [effects EXCEPT ![b].duration = duration]
    /\ InTime(effects'[b])
    /\ Touch({b})
    /\ UNCHANGED <<hostVars, report, active, now, loop, retyped>>

Started(e) == [e EXCEPT !.startTime = now + e.startDelay, !.playing = TRUE]

\* HidFFB::set_effect_operation: start, or start solo.
StartEffect(b, solo) ==
    LET e == effects[b]
        again == e.playing /\ ~solo
    IN  /\ Serves("hid") /\ owned[b] # None /\ InTime(e)
        /\ effects' = [c \in Block |->
                IF c = b THEN Started(IF again THEN e ELSE SetFilters(e))
                ELSE [effects[c] EXCEPT !.playing = @ /\ ~solo]]
        /\ retyped' = IF again THEN retyped ELSE retyped \ {b}
        /\ Touch(IF solo THEN Block ELSE {b})
        /\ UNCHANGED <<hostVars, report, active, now, loop>>

\* SerialFFB::setEffectState: start.
StartSerialEffect(b) ==
    /\ Serves("serial") /\ owned[b] # None /\ InTime(effects[b])
    /\ effects' = [effects EXCEPT ![b] = Started(@)]
    /\ Touch({b})
    /\ UNCHANGED <<hostVars, report, active, now, loop, retyped>>

\* Both interfaces: stop an effect.
StopEffect(b) ==
    /\ pc # "fault" /\ owned[b] # None
    /\ effects' = [effects EXCEPT ![b].playing = FALSE]
    /\ Touch({b})
    /\ UNCHANGED <<hostVars, report, active, now, loop, retyped>>

\* EffectsCalculator::free_effect for a block the host no longer needs.
FreeEffect(b) ==
    /\ pc # "fault" /\ owned[b] # None
    /\ effects' = [effects EXCEPT ![b] = Fresh]
    /\ owned' = [owned EXCEPT ![b] = None]
    /\ retyped' = retyped \ {b}
    /\ Touch({b})
    /\ UNCHANGED <<host, asked, report, active, now, loop>>

\* set_FFB: HidFFB::ffb_control and the command ffbstate.
SetFFB(state) ==
    /\ pc # "fault" /\ active # state
    /\ active' = state
    /\ UNCHANGED <<hostVars, effects, report, now, loop, history>>

\* reset_ffb by the host or by FFBHIDMain::usbSuspend, with stop_FFB.
Reset ==
    /\ pc # "fault"
    /\ active' = FALSE
    /\ effects' = [b \in Block |-> Fresh]
    /\ owned' = [b \in Block |-> None] /\ asked' = None
    /\ retyped' = {}
    /\ Touch(Block)
    /\ UNCHANGED <<host, report, now, loop>>

TimePasses ==
    /\ now < host.until /\ now' = now + 1
    /\ UNCHANGED <<hostVars, pool, loop, history>>
-----------------------------------------------------------------------------
(* FFBMAIN: EffectsCalculator::calculateEffects                            *)

AtEffect(place) == pc = place /\ fxi <= NEffects

\* The next effect.
Skip == pc' = "look" /\ fxi' = fxi + 1 /\ touched' = FALSE

\* A wrong variant of BeginPass: when effects are off the torque stays.
BeginPassKeeping ==
    /\ pc = "idle" /\ active
    /\ pc' = "look"
    /\ UNCHANGED <<hostVars, pool, now, fxi, forces, torque, history>>

BeginPass ==
    /\ pc = "idle"
    /\ IF active THEN pc' = "look" /\ UNCHANGED torque
                 ELSE torque' = {} /\ UNCHANGED pc
    /\ UNCHANGED <<hostVars, pool, now, fxi, forces, history>>

\* A wrong variant of Look: the start delay is not asked for.
LookPastDelay ==
    LET e == effects[fxi] IN
    /\ AtEffect("look")
    /\ pc' = IF e.playing /\ Finite(e) THEN "elapsed" ELSE "active"
    /\ UNCHANGED <<hostVars, pool, now, fxi, forces, torque, history>>

\* Is the effect in its start delay?  Effects without an end are not asked.
Look ==
    LET e == effects[fxi] IN
    /\ AtEffect("look")
    /\ IF e.playing /\ Finite(e)
       THEN IF now < e.startTime THEN Skip ELSE pc' = "elapsed" /\ UNCHANGED <<fxi, touched>>
       ELSE pc' = "active" /\ UNCHANGED <<fxi, touched>>
    /\ UNCHANGED <<hostVars, pool, now, forces, torque, changed, retyped>>

\* The difference is unsigned: a start time in the future is long ago.
Overdue(e) == now < e.startTime \/ now - e.startTime > e.duration

Elapsed ==
    /\ AtEffect("elapsed")
    /\ pc' = IF Overdue(effects[fxi]) THEN "expired" ELSE "active"
    /\ UNCHANGED <<hostVars, pool, now, fxi, forces, torque, history>>

\* A wrong variant of Expired: only the force is dropped.
ExpiredSkip ==
    /\ AtEffect("expired")
    /\ Skip
    /\ UNCHANGED <<hostVars, pool, now, forces, torque, changed, retyped>>

\* If the host has started the effect again meanwhile, it ends nevertheless.
Expired ==
    /\ AtEffect("expired")
    /\ effects' = [effects EXCEPT ![fxi].playing = FALSE]
    /\ pc' = "active"
    /\ UNCHANGED <<hostVars, report, active, now, fxi, forces, torque, history>>

Add == forces' = IF effects[fxi].type = None THEN forces ELSE forces \union {fxi}

\* A wrong variant of Active: what is not playing is filtered out only for types
\* without a filter.
ActiveFiltered ==
    LET e == effects[fxi] IN
    /\ AtEffect("active")
    /\ IF e.type \in Filtered THEN pc' = "filter" /\ UNCHANGED <<fxi, forces, touched>>
       ELSE Skip /\ IF e.playing THEN Add ELSE UNCHANGED forces
    /\ UNCHANGED <<hostVars, pool, now, torque, changed, retyped>>

\* Inactive effects have no force; damper, friction and inertia need a filter.
Active ==
    LET e == effects[fxi] IN
    /\ AtEffect("active")
    /\ IF e.playing /\ e.type \in Filtered THEN pc' = "filter" /\ UNCHANGED <<fxi, forces, touched>>
       ELSE Skip /\ IF e.playing THEN Add ELSE UNCHANGED forces
    /\ UNCHANGED <<hostVars, pool, now, torque, changed, retyped>>

\* calcComponentForce calls the filter without asking whether there is one.
UseFilter ==
    /\ AtEffect("filter")
    /\ IF effects[fxi].filter THEN Skip /\ forces' = forces \union {fxi}
       ELSE pc' = "fault" /\ UNCHANGED <<fxi, forces, touched>>
    /\ UNCHANGED <<hostVars, pool, now, torque, changed, retyped>>

EndPass ==
    /\ pc = "look" /\ fxi > NEffects
    /\ torque' = forces /\ forces' = {} /\ changed' = {}
    /\ pc' = "idle" /\ fxi' = 1
    /\ UNCHANGED <<hostVars, pool, now, touched, retyped>>
-----------------------------------------------------------------------------
HostStep ==
    \/ \E t \in host.types : NewEffect(t) \/ NewSerialEffect(t)
    \/ BlockLoad
    \/ \E b \in Block, t \in host.types, duration \in host.durations, delay \in host.delays :
            SetEffect(b, t, duration, delay)
    \/ \E b \in Block, duration \in host.durations : SetDuration(b, duration)
    \/ \E b \in Block, solo \in BOOLEAN : StartEffect(b, solo)
    \/ \E b \in Block : StartSerialEffect(b) \/ StopEffect(b) \/ FreeEffect(b)
    \/ \E state \in BOOLEAN : SetFFB(state)
    \/ Reset

Calculate == BeginPass \/ Look \/ Elapsed \/ Expired \/ Active \/ UseFilter \/ EndPass

Next == HostStep \/ TimePasses \/ Calculate

Spec == Init /\ [][Next]_vars

\* The loop runs at the rate of a timer, and time passes.
FairSpec == Spec /\ WF_vars(Calculate) /\ WF_vars(TimePasses)
-----------------------------------------------------------------------------
(* Properties                                                              *)

\* Host and device agree about the blocks: what the device holds is what the
\* host has created, or the effect it has asked for and not yet heard of; a
\* successful answer never names a block the host already has.
Agreement ==
    \A b \in Block :
        LET new == asked # None /\ report.status = 1 /\ report.index = b
        IN  /\ effects[b].type = IF new THEN asked ELSE owned[b]
            /\ new => owned[b] = None

\* At this time the effect has been through its start delay and its duration.
Over(e) == Finite(e) /\ now > e.startTime + e.duration

\* The control loop ends an effect only when its start delay and its duration
\* are over.  An effect the host changed between the loop's look and its end is
\* excepted: started again with a start delay it is ended before it has begun
\* (EffectsCalculator.cpp:135).
PlaysWhole ==
    [][pc' # pc => \A b \in Block :
        effects[b].playing /\ ~effects'[b].playing => touched \/ Over(effects[b])]_vars

\* What the loop adds up is playing, and not in the start delay of an effect
\* that ends, or was changed by the host during this pass.
FeltArePlaying ==
    \A b \in forces \ changed :
        LET e == effects[b]
        IN  e.playing /\ (Finite(e) => now >= e.startTime)

\* The loop never needs a filter that is not there, except that of an effect
\* changed during the calculation of its force, or of one whose type the host has
\* changed since it started: set_filters got the old type (HidFFB.cpp:290).
FilterPresent == pc = "fault" => touched \/ fxi \in retyped

\* An effect with a duration ends, unless force feedback is switched off.
EveryEffectEnds ==
    \A b \in Block :
        (active /\ effects[b].playing /\ Finite(effects[b]))
            ~> (~active \/ ~effects[b].playing \/ ~Finite(effects[b]) \/ pc = "fault")

\* The force of an effect that no longer plays leaves the torque, and all forces
\* do when force feedback is switched off.
ForceReleased ==
    /\ \A b \in Block : []<>(b \notin torque \/ effects[b].playing \/ pc = "fault")
    /\ []<>(torque = {} \/ active \/ pc = "fault")
=============================================================================
