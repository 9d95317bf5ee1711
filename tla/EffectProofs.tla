----------------------------- MODULE EffectProofs -----------------------------
(***************************************************************************)
(* What holds of the effect pool for every number of effects, every set of *)
(* types and every behaviour of the hosts, proved with TLAPS.              *)
(***************************************************************************)
EXTENDS EffectPool, DataFacts

LEMMA HostIsHost ==
    ASSUME TypeOK
    PROVE  /\ host \in Host /\ host.itf \in Interfaces /\ host.types \subseteq Type
           /\ host.durations \subseteq Nat /\ host.delays \subseteq Nat
           /\ host.until \in Nat /\ now \in Nat
BY EffectAssumption DEF TypeOK, Host

\* find_free_effect returns a free block, when there is one.
LEMMA FirstIsFree ==
    ASSUME Free # {}
    PROVE  First \in Free /\ First \in Block /\ effects[First].type = None
<1>1. Free \subseteq Nat /\ Free \subseteq Block
    BY EffectAssumption DEF Free, Block
<1>2. \E b \in Free : \A c \in Free : b <= c
    BY <1>1, LeastExists
<1> QED BY <1>1, <1>2 DEF First, Free

-----------------------------------------------------------------------------
(* Effects and their parts                                                 *)

LEMMA FreshIsEffect == Fresh \in Effect
BY EffectAssumption DEF Fresh, Effect

LEMMA EffectParts ==
    ASSUME NEW e \in Effect
    PROVE  /\ \A t \in Type \union {None} : [e EXCEPT !.type = t] \in Effect
           /\ \A p \in BOOLEAN : [e EXCEPT !.playing = p] \in Effect
           /\ \A d, s \in Nat : [e EXCEPT !.duration = d, !.startDelay = s] \in Effect
           /\ \A d \in Nat : [e EXCEPT !.duration = d] \in Effect
           /\ \A t \in Type, d \in Nat : [e EXCEPT !.type = t, !.duration = d] \in Effect
BY DEF Effect

LEMMA SetFiltersType ==
    ASSUME NEW e \in Effect
    PROVE  /\ SetFilters(e) \in Effect
           /\ SetFilters(e).type = e.type
           /\ SetFilters(e).playing = e.playing
BY DEF SetFilters, Effect

LEMMA StartedType ==
    ASSUME TypeOK, NEW e \in Effect
    PROVE  /\ Started(e) \in Effect
           /\ Started(e).type = e.type
<1>1. now + e.startDelay \in Nat
    BY HostIsHost DEF Effect
<1> QED BY <1>1 DEF Started, Effect

LEMMA NewEffectType ==
    ASSUME NEW t \in Type
    PROVE  /\ SetFilters([Fresh EXCEPT !.type = t]) \in Effect
           /\ SetFilters([Fresh EXCEPT !.type = t]).type = t
<1>1. [Fresh EXCEPT !.type = t] \in Effect /\ [Fresh EXCEPT !.type = t].type = t
    BY FreshIsEffect, EffectParts DEF Fresh
<1> QED BY <1>1, SetFiltersType

LEMMA UpdatedType ==
    ASSUME NEW e \in Effect, NEW t \in Type, NEW d \in Nat, NEW s \in Nat
    PROVE  /\ Updated(e, t, d, s) \in Effect
           /\ Updated(e, t, d, s).type = t
           /\ t = e.type => Updated(e, t, d, s).filter = e.filter
<1> DEFINE kept == IF t = e.type THEN e ELSE SetFilters([e EXCEPT !.startTime = 0])
           long == IF d = 0 THEN Infinite ELSE d
<1>1. [e EXCEPT !.startTime = 0] \in Effect
    BY DEF Effect
<1>2. kept \in Effect /\ (t = e.type => kept = e)
    BY <1>1, SetFiltersType
<1>3. long \in Nat
    BY EffectAssumption
<1>4. Updated(e, t, d, s) = [kept EXCEPT !.type = t, !.startDelay = s, !.duration = long]
    BY DEF Updated
<1> HIDE DEF kept, long
<1>5. ASSUME NEW f \in Effect
      PROVE  LET g == [f EXCEPT !.type = t, !.startDelay = s, !.duration = long]
             IN  g \in Effect /\ g.type = t /\ g.filter = f.filter
    BY <1>3 DEF Effect
<1> QED BY <1>2, <1>4, <1>5

LEMMA TouchType ==
    ASSUME TypeOK, NEW bs \in SUBSET Block, Touch(bs)
    PROVE  touched' \in BOOLEAN /\ changed' \subseteq Block
BY DEF TypeOK, Touch

-----------------------------------------------------------------------------
(* Type correctness                                                        *)

\* What a step of the host may do to the state, as far as its type goes.
LEMMA PoolType ==
    ASSUME TypeOK, UNCHANGED <<host, now, loop>>,
           owned' \in [Block -> Type \union {None}], asked' \in Type \union {None},
           effects' \in [Block -> Effect], report' \in [status : {1, 2}, index : Block],
           active' \in BOOLEAN, touched' \in BOOLEAN, changed' \subseteq Block,
           retyped' \subseteq Block
    PROVE  TypeOK'
BY DEF TypeOK, loop

LEMMA NewEffectKeepsType ==
    ASSUME TypeOK, NEW t \in host.types, NewEffect(t)
    PROVE  TypeOK'
<1>0. t \in Type
    BY HostIsHost
<1>1. CASE Free = {}
  <2>1. report' \in [status : {1, 2}, index : Block]
    BY <1>1 DEF NewEffect, Refused, TypeOK
  <2> QED BY <1>0, <1>1, <2>1, PoolType DEF NewEffect, TypeOK
<1>2. CASE Free # {}
  <2>1. First \in Block
    BY <1>2, FirstIsFree
  <2>2. effects' \in [Block -> Effect]
    BY <1>0, <1>2, <2>1, NewEffectType DEF NewEffect, TypeOK
  <2>3. report' \in [status : {1, 2}, index : Block]
    BY <1>2, <2>1 DEF NewEffect, Answer
  <2>4. touched' \in BOOLEAN /\ changed' \subseteq Block
    BY <1>2, <2>1, TouchType DEF NewEffect
  <2> QED BY <1>0, <2>2, <2>3, <2>4, PoolType DEF NewEffect, TypeOK
<1> QED BY <1>1, <1>2

LEMMA NewSerialEffectKeepsType ==
    ASSUME TypeOK, NEW t \in host.types, NewSerialEffect(t)
    PROVE  TypeOK'
<1>0. t \in Type
    BY HostIsHost
<1>1. First \in Block
    BY FirstIsFree DEF NewSerialEffect
<1>2. [effects[First] EXCEPT !.type = t, !.duration = Infinite] \in Effect
    BY <1>0, <1>1, EffectParts, EffectAssumption DEF TypeOK
<1>3. effects' \in [Block -> Effect]
    BY <1>1, <1>2 DEF NewSerialEffect, TypeOK
<1>4. owned' \in [Block -> Type \union {None}]
    BY <1>0 DEF NewSerialEffect, TypeOK
<1>5. touched' \in BOOLEAN /\ changed' \subseteq Block
    BY <1>1, TouchType DEF NewSerialEffect
<1> QED BY <1>3, <1>4, <1>5, PoolType DEF NewSerialEffect, TypeOK

LEMMA BlockLoadKeepsType == TypeOK /\ BlockLoad => TypeOK'
<1> SUFFICES ASSUME TypeOK, BlockLoad PROVE TypeOK'
    OBVIOUS
<1>1. owned' \in [Block -> Type \union {None}]
    BY DEF BlockLoad, TypeOK
<1> QED BY <1>1, PoolType DEF BlockLoad, TypeOK, pool, history

LEMMA StartKeepsType ==
    ASSUME TypeOK, NEW b \in Block, NEW solo \in BOOLEAN,
           StartEffect(b, solo) \/ StartSerialEffect(b)
    PROVE  TypeOK'
<1>0. effects[b] \in Effect /\ SetFilters(effects[b]) \in Effect
    BY SetFiltersType DEF TypeOK
<1>1. Started(effects[b]) \in Effect /\ Started(SetFilters(effects[b])) \in Effect
    BY <1>0, StartedType
<1>2. CASE StartEffect(b, solo)
  <2>1. ASSUME NEW c \in Block PROVE [effects[c] EXCEPT !.playing = @ /\ ~solo] \in Effect
    <3>1. effects[c] \in Effect
      BY DEF TypeOK
    <3> QED BY <3>1 DEF Effect
  <2>2. effects' \in [Block -> Effect]
    BY <1>1, <1>2, <2>1 DEF StartEffect
  <2>3. touched' \in BOOLEAN /\ changed' \subseteq Block
    BY <1>2, TouchType DEF StartEffect
  <2> QED BY <1>2, <2>2, <2>3, PoolType DEF StartEffect, TypeOK, hostVars
<1>3. CASE StartSerialEffect(b)
  <2>1. effects' \in [Block -> Effect]
    BY <1>1, <1>3 DEF StartSerialEffect, TypeOK
  <2>2. touched' \in BOOLEAN /\ changed' \subseteq Block
    BY <1>3, TouchType DEF StartSerialEffect
  <2> QED BY <1>3, <2>1, <2>2, PoolType DEF StartSerialEffect, TypeOK, hostVars
<1> QED BY <1>2, <1>3

LEMMA SetEffectKeepsType ==
    ASSUME TypeOK, NEW b \in Block, NEW t \in host.types, NEW d \in host.durations,
           NEW s \in host.delays, SetEffect(b, t, d, s)
    PROVE  TypeOK'
<1>1. effects[b] \in Effect /\ t \in Type /\ d \in Nat /\ s \in Nat
    BY HostIsHost DEF TypeOK
<1>2. effects' \in [Block -> Effect]
    BY <1>1, UpdatedType DEF SetEffect, TypeOK
<1>3. owned' \in [Block -> Type \union {None}]
    BY <1>1 DEF SetEffect, TypeOK
<1>4. touched' \in BOOLEAN /\ changed' \subseteq Block
    BY TouchType DEF SetEffect
<1>5. retyped' \subseteq Block
    BY DEF SetEffect, TypeOK
<1> QED BY <1>2, <1>3, <1>4, <1>5, PoolType DEF SetEffect, TypeOK

LEMMA SetDurationKeepsType ==
    ASSUME TypeOK, NEW b \in Block, NEW d \in host.durations, SetDuration(b, d)
    PROVE  TypeOK'
<1>1. [effects[b] EXCEPT !.duration = d] \in Effect
    BY HostIsHost, EffectParts DEF TypeOK
<1>2. effects' \in [Block -> Effect]
    BY <1>1 DEF SetDuration, TypeOK
<1>3. touched' \in BOOLEAN /\ changed' \subseteq Block
    BY TouchType DEF SetDuration
<1> QED BY <1>2, <1>3, PoolType DEF SetDuration, TypeOK, hostVars

LEMMA EndKeepsType ==
    ASSUME TypeOK, NEW b \in Block, StopEffect(b) \/ FreeEffect(b)
    PROVE  TypeOK'
<1>1. touched' \in BOOLEAN /\ changed' \subseteq Block
    BY TouchType DEF StopEffect, FreeEffect
<1>2. CASE StopEffect(b)
  <2>1. [effects[b] EXCEPT !.playing = FALSE] \in Effect
    BY EffectParts DEF TypeOK
  <2>2. effects' \in [Block -> Effect]
    BY <1>2, <2>1 DEF StopEffect, TypeOK
  <2> QED BY <1>1, <1>2, <2>2, PoolType DEF StopEffect, TypeOK, hostVars
<1>3. CASE FreeEffect(b)
  <2>1. effects' \in [Block -> Effect] /\ owned' \in [Block -> Type \union {None}]
    BY <1>3, FreshIsEffect DEF FreeEffect, TypeOK
  <2> QED BY <1>1, <1>3, <2>1, PoolType DEF FreeEffect, TypeOK
<1> QED BY <1>2, <1>3

LEMMA SwitchKeepsType ==
    ASSUME TypeOK, Reset \/ \E state \in BOOLEAN : SetFFB(state)
    PROVE  TypeOK'
<1>1. CASE Reset
  <2>1. effects' \in [Block -> Effect] /\ owned' \in [Block -> Type \union {None}]
    BY <1>1, FreshIsEffect DEF Reset
  <2>2. touched' \in BOOLEAN /\ changed' \subseteq Block
    BY <1>1, TouchType DEF Reset
  <2> QED BY <1>1, <2>1, <2>2, PoolType DEF Reset, TypeOK
<1>2. CASE \E state \in BOOLEAN : SetFFB(state)
    BY <1>2, PoolType DEF SetFFB, TypeOK, hostVars, history
<1> QED BY <1>1, <1>2

LEMMA HostKeepsType == TypeOK /\ HostStep => TypeOK'
BY NewEffectKeepsType, NewSerialEffectKeepsType, BlockLoadKeepsType, SetEffectKeepsType,
   SetDurationKeepsType, StartKeepsType, EndKeepsType, SwitchKeepsType DEF HostStep

\* In a pass, the effect looked at is one of the array.
LEMMA FxiInBlock ==
    ASSUME TypeOK, fxi <= NEffects
    PROVE  fxi \in Block /\ fxi + 1 \in 1..NEffects+1 /\ effects[fxi] \in Effect
BY EffectAssumption DEF TypeOK, Block

LEMMA CalculateKeepsType == TypeOK /\ Calculate => TypeOK'
<1> SUFFICES ASSUME TypeOK, Calculate PROVE TypeOK'
    OBVIOUS
<1>0. UNCHANGED hostVars /\ UNCHANGED <<report, active, now>>
    BY DEF Calculate, BeginPass, Look, Elapsed, Expired, Active, UseFilter, EndPass, pool
<1>1. CASE BeginPass
    BY <1>1 DEF BeginPass, TypeOK, hostVars, pool, history
<1>2. CASE Look
    BY <1>2, FxiInBlock DEF Look, AtEffect, Skip, TypeOK, hostVars, pool, history
<1>3. CASE Elapsed
    BY <1>3 DEF Elapsed, TypeOK, hostVars, pool, history
<1>4. CASE Expired
  <2>1. [effects[fxi] EXCEPT !.playing = FALSE] \in Effect
    BY <1>4, FxiInBlock, EffectParts DEF Expired, AtEffect
  <2>2. effects' \in [Block -> Effect]
    BY <1>4, <2>1 DEF Expired, TypeOK
  <2> QED BY <1>4, <2>2 DEF Expired, TypeOK, hostVars, history
<1>5. CASE Active
  <2>1. fxi \in Block /\ fxi + 1 \in 1..NEffects+1
    BY <1>5, FxiInBlock DEF Active, AtEffect
  <2>2. forces' \in SUBSET Block /\ fxi' \in 1..NEffects+1 /\ touched' \in BOOLEAN
    BY <1>5, <2>1 DEF Active, Skip, Add, TypeOK
  <2>3. pc' \in {"look", "filter"}
    BY <1>5 DEF Active, Skip
  <2> QED BY <1>5, <2>2, <2>3 DEF Active, TypeOK, hostVars, pool
<1>6. CASE UseFilter
    BY <1>6, FxiInBlock DEF UseFilter, AtEffect, Skip, TypeOK, hostVars, pool, history
<1>7. CASE EndPass
    BY <1>7, EffectAssumption DEF EndPass, TypeOK, hostVars, pool, history
<1> QED BY <1>1, <1>2, <1>3, <1>4, <1>5, <1>6, <1>7 DEF Calculate

LEMMA TimeKeepsType == TypeOK /\ TimePasses => TypeOK'
<1> SUFFICES ASSUME TypeOK, TimePasses PROVE TypeOK'
    OBVIOUS
<1>1. now' \in 0..host'.until
    BY HostIsHost DEF TimePasses, TypeOK, hostVars
<1> QED BY <1>1 DEF TimePasses, TypeOK, hostVars, pool, loop, history

LEMMA StutterKeepsType == TypeOK /\ UNCHANGED vars => TypeOK'
BY DEF TypeOK, vars, hostVars, pool, loop, history

\* Every state is of the declared type: no index of a block leaves the array,
\* in the report, in the loop or in the sets of blocks.
THEOREM TypeCorrect == Spec => []TypeOK
<1>1. Init => TypeOK
  <2>1. 1 \in Block /\ 1 \in 1..NEffects+1
    BY EffectAssumption DEF Block
  <2>2. \A h \in Hosts : 0 \in 0..h.until
    BY EffectAssumption DEF Host
  <2> SUFFICES ASSUME Init PROVE TypeOK
      OBVIOUS
  <2>3. host \in Hosts /\ owned \in [Block -> Type \union {None}] /\ now \in 0..host.until
    BY <2>2 DEF Init
  <2>4. effects \in [Block -> Effect] /\ report \in [status : {1, 2}, index : Block]
    BY <2>1, FreshIsEffect DEF Init
  <2> QED BY <2>1, <2>3, <2>4 DEF Init, TypeOK
<1>2. TypeOK /\ [Next]_vars => TypeOK'
    BY HostKeepsType, CalculateKeepsType, TimeKeepsType, StutterKeepsType DEF Next
<1> QED BY <1>1, <1>2, PTL DEF Spec

-----------------------------------------------------------------------------
(* Host and device agree about the blocks                                  *)

\* What the loop does to an effect leaves its type.
LEMMA LoopKeepsAgreement ==
    ASSUME TypeOK, Agreement, Calculate \/ TimePasses \/ UNCHANGED vars
    PROVE  Agreement'
<1>1. UNCHANGED <<hostVars, report>>
    BY DEF Calculate, BeginPass, Look, Elapsed, Expired, Active, UseFilter, EndPass, TimePasses,
           vars, pool
<1>2. \A b \in Block : effects'[b].type = effects[b].type
  <2>1. CASE Expired
    BY <2>1, FxiInBlock DEF Expired, AtEffect, TypeOK, Effect
  <2>2. CASE ~Expired
    BY <2>2 DEF Calculate, BeginPass, Look, Elapsed, Active, UseFilter, EndPass, TimePasses, vars, pool
  <2> QED BY <2>1, <2>2
<1> QED BY <1>1, <1>2 DEF Agreement, hostVars

LEMMA NewEffectKeepsAgreement ==
    ASSUME TypeOK, Agreement, NEW t \in host.types, NewEffect(t)
    PROVE  Agreement'
<1>0. t \in Type /\ t # None /\ \A b \in Block : effects[b].type = owned[b]
    BY HostIsHost, EffectAssumption DEF NewEffect, Agreement
<1>1. CASE Free = {}
  <2>1. report'.status = 2
    BY <1>1 DEF NewEffect, Refused, TypeOK
  <2> QED BY <1>0, <1>1, <2>1 DEF NewEffect, Agreement
<1>2. CASE Free # {}
  <2>1. First \in Block /\ owned[First] = None
    BY <1>0, <1>2, FirstIsFree
  <2>2. report'.status = 1 /\ report'.index = First
    BY <1>2 DEF NewEffect, Answer
  <2>3. \A b \in Block : effects'[b].type = IF b = First THEN t ELSE effects[b].type
    BY <1>0, <1>2, <2>1, NewEffectType DEF NewEffect, TypeOK
  <2> QED BY <1>0, <2>1, <2>2, <2>3 DEF NewEffect, Agreement
<1> QED BY <1>1, <1>2

LEMMA NewSerialEffectKeepsAgreement ==
    ASSUME TypeOK, Agreement, NEW t \in host.types, NewSerialEffect(t)
    PROVE  Agreement'
<1>0. t \in Type /\ t # None /\ UNCHANGED <<asked, report>>
    BY HostIsHost, EffectAssumption DEF NewSerialEffect
<1>1. First \in Block /\ effects[First].type = None
    BY FirstIsFree DEF NewSerialEffect
<1>2. \A b \in Block : /\ effects'[b].type = IF b = First THEN t ELSE effects[b].type
                       /\ owned'[b] = IF b = First THEN t ELSE owned[b]
    BY <1>1 DEF NewSerialEffect, TypeOK, Effect
<1>3. ~(asked # None /\ report.status = 1 /\ report.index = First)
    BY <1>1 DEF Agreement
<1> QED BY <1>0, <1>1, <1>2, <1>3 DEF Agreement

\* Host steps that keep the types of all effects, and those of free_effect.
LEMMA ChangeKeepsAgreement ==
    ASSUME TypeOK, Agreement, UNCHANGED <<hostVars, report>>,
           \A b \in Block : effects'[b].type = effects[b].type
    PROVE  Agreement'
BY DEF Agreement, hostVars

LEMMA StartKeepsAgreement ==
    ASSUME TypeOK, Agreement, NEW b \in Block, NEW solo \in BOOLEAN,
           StartEffect(b, solo) \/ StartSerialEffect(b)
    PROVE  Agreement'
<1>0. effects[b] \in Effect /\ SetFilters(effects[b]) \in Effect
    BY SetFiltersType DEF TypeOK
<1>1. Started(effects[b]).type = effects[b].type
    BY <1>0, StartedType
<1>2. Started(SetFilters(effects[b])).type = effects[b].type
    BY <1>0, StartedType, SetFiltersType
<1>3. \A c \in Block : [effects[c] EXCEPT !.playing = @ /\ ~solo].type = effects[c].type
    BY DEF TypeOK, Effect
<1>4. \A c \in Block : effects'[c].type = effects[c].type
    BY <1>1, <1>2, <1>3 DEF StartEffect, StartSerialEffect, TypeOK
<1>5. UNCHANGED <<hostVars, report>>
    BY DEF StartEffect, StartSerialEffect
<1> QED BY <1>4, <1>5, ChangeKeepsAgreement

LEMMA SetEffectKeepsAgreement ==
    ASSUME TypeOK, Agreement, NEW b \in Block, NEW t \in host.types, NEW d \in host.durations,
           NEW s \in host.delays, SetEffect(b, t, d, s)
    PROVE  Agreement'
<1>1. effects[b] \in Effect /\ t \in Type /\ d \in Nat /\ s \in Nat /\ t # None
    BY HostIsHost, EffectAssumption DEF TypeOK
<1>2. \A c \in Block : effects'[c].type = IF c = b THEN t ELSE effects[c].type
  <2>1. Updated(effects[b], t, d, s).type = t
    BY <1>1, UpdatedType
  <2> QED BY <2>1 DEF SetEffect, TypeOK
<1>3. \A c \in Block : owned'[c] = IF c = b THEN t ELSE owned[c]
    BY DEF SetEffect, TypeOK
<1>4. owned[b] # None /\ UNCHANGED <<asked, report>>
    BY DEF SetEffect
<1> QED BY <1>1, <1>2, <1>3, <1>4 DEF Agreement

LEMMA HostKeepsAgreement == TypeOK /\ Agreement /\ HostStep => Agreement'
<1> SUFFICES ASSUME TypeOK, Agreement, HostStep PROVE Agreement'
    OBVIOUS
<1>1. CASE \E t \in host.types : NewEffect(t) \/ NewSerialEffect(t)
    BY <1>1, NewEffectKeepsAgreement, NewSerialEffectKeepsAgreement
<1>2. CASE BlockLoad
    BY <1>2, EffectAssumption DEF BlockLoad, Agreement, TypeOK, pool
<1>3. CASE \E b \in Block, t \in host.types, d \in host.durations, s \in host.delays :
              SetEffect(b, t, d, s)
    BY <1>3, SetEffectKeepsAgreement
<1>4. CASE \E b \in Block, d \in host.durations : SetDuration(b, d)
    BY <1>4, ChangeKeepsAgreement DEF SetDuration, TypeOK, Effect
<1>5. CASE \E b \in Block, solo \in BOOLEAN : StartEffect(b, solo)
    BY <1>5, StartKeepsAgreement
<1>6. CASE \E b \in Block : StartSerialEffect(b)
    BY <1>6, StartKeepsAgreement
<1>7. CASE \E b \in Block : StopEffect(b)
    BY <1>7, ChangeKeepsAgreement DEF StopEffect, TypeOK, Effect
<1>8. CASE \E b \in Block : FreeEffect(b)
    BY <1>8 DEF FreeEffect, Agreement, TypeOK, Fresh
<1>9. CASE \E state \in BOOLEAN : SetFFB(state)
    BY <1>9, ChangeKeepsAgreement DEF SetFFB
<1>10. CASE Reset
    BY <1>10 DEF Reset, Agreement, Fresh
<1> QED BY <1>1, <1>2, <1>3, <1>4, <1>5, <1>6, <1>7, <1>8, <1>9, <1>10 DEF HostStep

\* What the host believes to have created is what the device holds, after any
\* sequence of allocations, refusals, answers read and effects freed.
THEOREM HostAndDeviceAgree == Spec => []Agreement
<1>1. Init => Agreement
    BY DEF Init, Agreement, Fresh
<1>2. TypeOK /\ Agreement /\ [Next]_vars => Agreement'
    BY HostKeepsAgreement, LoopKeepsAgreement DEF Next
<1> QED BY <1>1, <1>2, TypeCorrect, PTL DEF Spec

-----------------------------------------------------------------------------
(* The loop and the host on one effect                                     *)

\* What the loop knows of the effect it looks at, unless the host has changed
\* it since: after the look, that it ends and its delay is over; before its
\* end, that its duration is over.
Known ==
    LET e == effects[fxi] IN
    /\ pc \in {"idle", "look"} => ~touched
    /\ pc \notin {"idle", "look", "fault"} => fxi <= NEffects
    /\ pc \in {"elapsed", "expired"} /\ ~touched => Finite(e) /\ now >= e.startTime
    /\ pc = "expired" /\ ~touched => Over(e)

\* The same for the force, where a change since the start of the pass counts.
Counted ==
    LET e == effects[fxi] IN
    /\ pc = "idle" => forces = {} /\ changed = {}
    /\ pc # "idle" => \A b \in forces : b < fxi
    /\ pc \notin {"idle", "look", "fault"} /\ fxi \notin changed =>
            (e.playing /\ Finite(e) => now >= e.startTime)
    /\ pc = "filter" /\ fxi \notin changed => e.playing
    /\ FeltArePlaying

\* Every effect has the filter its type needs unless that type is another one
\* than it was started with, and so has the one looked at.
Filters ==
    \A b \in Block : effects[b].type \in Filtered => effects[b].filter \/ b \in retyped
FilterKnown ==
    /\ pc = "filter" /\ ~touched => effects[fxi].filter \/ fxi \in retyped
    /\ FilterPresent

\* A step of the host leaves the loop where it is, and marks the effects it changes.
Marked ==
    /\ UNCHANGED <<host, now, loop>>
    /\ touched => touched'
    /\ pc \in {"idle", "look"} => touched' = touched
    /\ pc \notin {"idle", "look"} /\ fxi \in Block =>
            touched' \/ (effects'[fxi] = effects[fxi] /\ (fxi \in retyped => fxi \in retyped'))
    /\ pc = "idle" => changed' \in {changed, {}}
    /\ pc # "idle" => changed \subseteq changed'
    /\ pc # "idle" => \A b \in Block : effects'[b] = effects[b] \/ b \in changed'

LEMMA TouchMarks ==
    ASSUME TypeOK, NEW bs \in SUBSET Block, Touch(bs), UNCHANGED <<host, now, loop>>,
           \A b \in Block \ bs : effects'[b] = effects[b], retyped \ bs \subseteq retyped'
    PROVE  Marked
<1>1. touched \in BOOLEAN
    BY DEF TypeOK
<1>2. pc \in {"idle", "look"} => touched' = touched
    BY <1>1 DEF Touch
<1>3. pc \notin {"idle", "look"} /\ fxi \in Block =>
            touched' \/ (effects'[fxi] = effects[fxi] /\ (fxi \in retyped => fxi \in retyped'))
    BY DEF Touch
<1>4. pc # "idle" => \A b \in Block : effects'[b] = effects[b] \/ b \in changed'
    BY DEF Touch
<1>5. (touched => touched') /\ (pc # "idle" => changed \subseteq changed')
    BY <1>1 DEF Touch
<1>6. pc = "idle" => changed' \in {changed, {}}
    BY DEF Touch
<1> QED BY <1>2, <1>3, <1>4, <1>5, <1>6 DEF Marked

LEMMA NoTouchMarks ==
    ASSUME UNCHANGED <<host, now, loop, effects, history>>
    PROVE  Marked
BY DEF Marked, history

LEMMA HostMarks == TypeOK /\ HostStep => Marked
<1> SUFFICES ASSUME TypeOK, HostStep PROVE Marked
    OBVIOUS
<1> USE DEF hostVars, pool, history
<1>1. CASE \E t \in host.types : NewEffect(t)
  <2>1. PICK t \in host.types : NewEffect(t)
    BY <1>1
  <2>2. CASE Free = {}
    BY <2>1, <2>2, NoTouchMarks DEF NewEffect
  <2>3. CASE Free # {}
    <3>1. {First} \in SUBSET Block
      BY <2>3, FirstIsFree
    <3> QED BY <2>1, <2>3, <3>1, TouchMarks DEF NewEffect, TypeOK
  <2> QED BY <2>2, <2>3
<1>2. CASE \E t \in host.types : NewSerialEffect(t)
  <2>1. {First} \in SUBSET Block
    BY <1>2, FirstIsFree DEF NewSerialEffect
  <2> QED BY <1>2, <2>1, TouchMarks DEF NewSerialEffect, TypeOK
<1>3. CASE BlockLoad \/ \E state \in BOOLEAN : SetFFB(state)
    BY <1>3, NoTouchMarks DEF BlockLoad, SetFFB
<1>4. CASE \E b \in Block, t \in host.types, d \in host.durations, s \in host.delays :
              SetEffect(b, t, d, s)
  <2>1. PICK b \in Block, t \in host.types, d \in host.durations, s \in host.delays :
            SetEffect(b, t, d, s)
    BY <1>4
  <2>2. (\A c \in Block \ {b} : effects'[c] = effects[c]) /\ retyped \subseteq retyped'
    BY <2>1 DEF SetEffect, TypeOK
  <2> QED BY <2>1, <2>2, TouchMarks DEF SetEffect
<1>5. CASE \E b \in Block, d \in host.durations : SetDuration(b, d)
    BY <1>5, TouchMarks DEF SetDuration, TypeOK
<1>6. CASE \E b \in Block, solo \in BOOLEAN : StartEffect(b, solo)
  <2>1. PICK b \in Block, solo \in BOOLEAN : StartEffect(b, solo)
    BY <1>6
  <2>2. CASE solo
    <3>1. Block \in SUBSET Block /\ Touch(Block)
      BY <2>1, <2>2 DEF StartEffect
    <3> QED BY <2>1, <3>1, TouchMarks DEF StartEffect
  <2>3. CASE ~solo
    <3>1. {b} \in SUBSET Block /\ Touch({b})
      BY <2>1, <2>3 DEF StartEffect
    <3>2. \A c \in Block \ {b} : effects'[c] = [effects[c] EXCEPT !.playing = @ /\ TRUE]
      BY <2>1, <2>3 DEF StartEffect
    <3>3. \A e \in Effect : [e EXCEPT !.playing = @ /\ TRUE] = e
      BY DEF Effect
    <3>4. \A c \in Block \ {b} : effects'[c] = effects[c]
      BY <3>2, <3>3 DEF TypeOK
    <3> QED BY <2>1, <3>1, <3>4, TouchMarks DEF StartEffect
  <2> QED BY <2>2, <2>3
<1>7. CASE \E b \in Block : StartSerialEffect(b) \/ StopEffect(b) \/ FreeEffect(b)
    BY <1>7, TouchMarks DEF StartSerialEffect, StopEffect, FreeEffect, TypeOK
<1>8. CASE Reset
  <2>1. Block \in SUBSET Block /\ Touch(Block) /\ retyped \ Block = {}
    BY <1>8 DEF Reset, TypeOK
  <2> QED BY <1>8, <2>1, TouchMarks DEF Reset
<1> QED BY <1>1, <1>2, <1>3, <1>4, <1>5, <1>6, <1>7, <1>8 DEF HostStep

\* Facts about the arithmetic of an effect's time.
LEMMA TimesAreNat ==
    ASSUME TypeOK
    PROVE  /\ now \in Nat
           /\ \A b \in Block : effects[b].startTime \in Nat /\ effects[b].duration \in Nat
<1>1. now \in Nat
    BY HostIsHost
<1>2. \A e \in Effect : e.startTime \in Nat /\ e.duration \in Nat
    BY DEF Effect
<1> QED BY <1>1, <1>2 DEF TypeOK

LEMMA MarkedKeepsKnown ==
    ASSUME TypeOK, Known, Marked
    PROVE  Known'
<1>1. CASE pc \in {"idle", "look", "fault"}
    BY <1>1 DEF Known, Marked, loop
<1>2. CASE pc \notin {"idle", "look", "fault"}
  <2>1. fxi \in Block
    BY <1>2, FxiInBlock DEF Known
  <2>2. touched' \/ (effects'[fxi] = effects[fxi] /\ ~touched)
    BY <1>2, <2>1 DEF Marked
  <2>3. UNCHANGED <<pc, fxi, now>>
    BY DEF Marked, loop
  <2> QED BY <1>2, <2>2, <2>3 DEF Known, Finite, Over
<1> QED BY <1>1, <1>2

LEMMA TimeKeepsKnown ==
    ASSUME TypeOK, Known, TimePasses
    PROVE  Known'
<1>1. CASE pc \in {"idle", "look", "fault"}
    BY <1>1 DEF Known, TimePasses, loop, history
<1>2. CASE pc \notin {"idle", "look", "fault"}
  <2>1. fxi \in Block
    BY <1>2, FxiInBlock DEF Known
  <2> QED BY <1>2, <2>1, TimesAreNat DEF Known, TimePasses, loop, pool, Finite, Over, Overdue, history
<1> QED BY <1>1, <1>2

LEMMA CalculateKeepsKnown ==
    ASSUME TypeOK, Known, Calculate
    PROVE  Known'
<1>1. CASE BeginPass
    BY <1>1 DEF BeginPass, Known, history
<1>2. CASE Look
    BY <1>2, FxiInBlock, TimesAreNat DEF Look, AtEffect, Skip, Known, Finite, pool
<1>3. CASE Elapsed
    BY <1>3, FxiInBlock, TimesAreNat DEF Elapsed, AtEffect, Known, Finite, Over, Overdue, pool, history
<1>4. CASE Expired
    BY <1>4 DEF Expired, AtEffect, Known
<1>5. CASE Active
    BY <1>5 DEF Active, AtEffect, Skip, Known
<1>6. CASE UseFilter
    BY <1>6 DEF UseFilter, AtEffect, Skip, Known
<1>7. CASE EndPass
    BY <1>7 DEF EndPass, Known
<1> QED BY <1>1, <1>2, <1>3, <1>4, <1>5, <1>6, <1>7 DEF Calculate

LEMMA KnownInvariant == Spec => []Known
<1>1. Init => Known
    BY DEF Init, Known
<1>2. TypeOK /\ Known /\ UNCHANGED vars => Known'
    BY DEF Known, vars, hostVars, pool, loop, history, Finite, Over
<1>3. TypeOK /\ Known /\ [Next]_vars => Known'
    BY <1>2, HostMarks, MarkedKeepsKnown, TimeKeepsKnown, CalculateKeepsKnown DEF Next
<1> QED BY <1>1, <1>3, TypeCorrect, PTL DEF Spec

\* The loop ends only effects whose start delay and duration are over: none that
\* the host has not touched since the loop looked at it is cut short.
THEOREM EffectsPlayWhole == Spec => PlaysWhole
<1> DEFINE Whole == pc' # pc => \A b \in Block :
                effects[b].playing /\ ~effects'[b].playing =>
                    touched \/ Over(effects[b])
<1>1. TypeOK /\ Known /\ [Next]_vars => [Whole]_vars
  <2> SUFFICES ASSUME TypeOK, Known, Next, pc' # pc PROVE Whole
      BY DEF vars
  <2>1. Calculate
    BY HostMarks DEF Next, Marked, loop, TimePasses
  <2>2. CASE Expired
    BY <2>2 DEF Expired, Known, AtEffect, TypeOK
  <2>3. CASE ~Expired
    BY <2>1, <2>3 DEF Calculate, BeginPass, Look, Elapsed, Active, UseFilter, EndPass, pool
  <2> QED BY <2>2, <2>3
<1> QED BY <1>1, TypeCorrect, KnownInvariant, PTL DEF Spec, PlaysWhole

LEMMA MarkedKeepsCounted ==
    ASSUME TypeOK, Counted, Known, Marked
    PROVE  Counted'
<1>1. CASE pc = "idle"
    BY <1>1 DEF Counted, Marked, loop, FeltArePlaying
<1>2. CASE pc # "idle"
  <2>1. FeltArePlaying'
    BY <1>2 DEF Counted, Marked, loop, FeltArePlaying, TypeOK, Finite
  <2>2. pc \notin {"idle", "look", "fault"} => fxi \in Block
    BY FxiInBlock DEF Known
  <2> QED BY <1>2, <2>1, <2>2 DEF Counted, Marked, loop, Finite
<1> QED BY <1>1, <1>2

LEMMA TimeKeepsCounted ==
    ASSUME TypeOK, Counted, Known, TimePasses
    PROVE  Counted'
<1>1. FeltArePlaying'
    BY TimesAreNat DEF Counted, FeltArePlaying, TimePasses, loop, pool, TypeOK, Finite, history
<1>2. pc \notin {"idle", "look", "fault"} => fxi \in Block
    BY FxiInBlock DEF Known
<1> QED BY <1>1, <1>2, TimesAreNat DEF Counted, TimePasses, loop, pool, Finite, history

LEMMA CalculateKeepsCounted ==
    ASSUME TypeOK, Counted, Known, Calculate
    PROVE  Counted'
<1> USE DEF pool, AtEffect
<1>0. \A b \in forces : b \in Block
    BY DEF TypeOK
<1>1. CASE BeginPass
    BY <1>1 DEF BeginPass, Counted, FeltArePlaying, Finite, history
<1>2. CASE Look
    BY <1>0, <1>2, FxiInBlock, TimesAreNat DEF Look, Skip, Counted, FeltArePlaying, Finite, Block
<1>3. CASE Elapsed
    BY <1>3 DEF Elapsed, Counted, FeltArePlaying, Finite, history
<1>4. CASE Expired
  <2>1. \A b \in forces : effects'[b] = effects[b]
    BY <1>4, <1>0, FxiInBlock DEF Expired, Counted, TypeOK, Block
  <2>2. ~effects'[fxi].playing
    BY <1>4, FxiInBlock DEF Expired, TypeOK, Effect
  <2> QED BY <1>4, <2>1, <2>2 DEF Expired, Counted, FeltArePlaying, Finite, history
<1>5. CASE Active
  <2>1. \A b \in forces' : b \in Block /\ b <= fxi
    BY <1>5, <1>0, FxiInBlock DEF Active, Add, Counted, Block
  <2>2. FeltArePlaying'
    BY <1>5 DEF Active, Skip, Add, Counted, FeltArePlaying, Finite
  <2> QED BY <1>5, <2>1, <2>2, FxiInBlock DEF Active, Skip, Counted, Finite, Block
<1>6. CASE UseFilter
  <2>1. \A b \in forces' : b \in Block /\ b <= fxi
    BY <1>6, <1>0, FxiInBlock DEF UseFilter, Counted, Block
  <2>2. FeltArePlaying'
    BY <1>6 DEF UseFilter, Skip, Counted, FeltArePlaying, Finite
  <2> QED BY <1>6, <2>1, <2>2, FxiInBlock DEF UseFilter, Skip, Counted, Block
<1>7. CASE EndPass
    BY <1>7 DEF EndPass, Counted, FeltArePlaying
<1> QED BY <1>1, <1>2, <1>3, <1>4, <1>5, <1>6, <1>7 DEF Calculate

\* A game feels no effect that does not play or is still in its delay, unless
\* the host has changed that effect during the pass.
THEOREM OnlyPlayingFelt == Spec => []FeltArePlaying
<1>1. Init => Counted
    BY DEF Init, Counted, FeltArePlaying
<1>2. TypeOK /\ Counted /\ UNCHANGED vars => Counted'
    BY DEF Counted, FeltArePlaying, vars, hostVars, pool, loop, history, Finite
<1>3. TypeOK /\ Known /\ Counted /\ [Next]_vars => Counted'
    BY <1>2, HostMarks, MarkedKeepsCounted, TimeKeepsCounted, CalculateKeepsCounted DEF Next
<1>4. Counted => FeltArePlaying
    BY DEF Counted
<1> QED BY <1>1, <1>3, <1>4, TypeCorrect, KnownInvariant, PTL DEF Spec

-----------------------------------------------------------------------------
(* Filters                                                                 *)

\* Programs that create effects by command use no type that needs a filter.
HidOnly == \A h \in Hosts : h.itf = "serial" => h.types \cap Filtered = {}

LEMMA FilterOfNew ==
    ASSUME NEW t \in Type
    PROVE  t \in Filtered => SetFilters([Fresh EXCEPT !.type = t]).filter
BY DEF SetFilters, Fresh

\* What happens to the filter in the operations on one effect.
LEMMA FilterKept ==
    ASSUME TypeOK, NEW e \in Effect
    PROVE  /\ SetFilters(e).type \in Filtered => SetFilters(e).filter
           /\ Started(e).type = e.type /\ Started(e).filter = e.filter
           /\ \A p : LET f == [e EXCEPT !.playing = p]
                    IN  f.type = e.type /\ f.filter = e.filter
BY DEF SetFilters, Started, Effect

LEMMA NewKeepsFilters ==
    ASSUME HidOnly, TypeOK, Filters, NEW t \in host.types, NewEffect(t) \/ NewSerialEffect(t)
    PROVE  Filters'
<1>0. t \in Type /\ host \in Hosts /\ retyped' = retyped
    BY HostIsHost DEF TypeOK, NewEffect, NewSerialEffect, history
<1>1. CASE NewEffect(t)
  <2>1. CASE Free = {}
    BY <1>1, <2>1 DEF NewEffect, Filters
  <2>2. CASE Free # {}
    <3>1. First \in Block
      BY <2>2, FirstIsFree
    <3> DEFINE e == SetFilters([Fresh EXCEPT !.type = t])
    <3>2. e.type \in Filtered => e.filter
      BY <1>0, FilterOfNew, NewEffectType
    <3>3. effects' = [effects EXCEPT ![First] = e]
      BY <1>1, <2>2 DEF NewEffect
    <3> HIDE DEF e
    <3>4. \A b \in Block : effects'[b] = IF b = First THEN e ELSE effects[b]
      BY <3>1, <3>3 DEF TypeOK
    <3> QED BY <1>0, <3>2, <3>4 DEF Filters
  <2> QED BY <2>1, <2>2
<1>2. CASE NewSerialEffect(t)
  <2>1. First \in Block
    BY <1>2, FirstIsFree DEF NewSerialEffect
  <2>2. t \notin Filtered
    BY <1>0, <1>2 DEF HidOnly, NewSerialEffect, Serves
  <2> QED BY <1>0, <1>2, <2>1, <2>2 DEF NewSerialEffect, Filters, TypeOK, Effect
<1> QED BY <1>1, <1>2

LEMMA StartKeepsFilters ==
    ASSUME TypeOK, Filters, NEW b \in Block, NEW solo \in BOOLEAN,
           StartEffect(b, solo) \/ StartSerialEffect(b)
    PROVE  Filters'
<1> DEFINE made == Started(SetFilters(effects[b]))
           again == Started(effects[b])
<1>1. \A c \in Block : effects[c] \in Effect
    BY DEF TypeOK
<1>2. SetFilters(effects[b]) \in Effect
    BY <1>1, SetFiltersType
<1>3. made.type \in Filtered => made.filter
    BY <1>1, <1>2, FilterKept
<1>4. again.type \in Filtered => again.filter \/ b \in retyped
    BY <1>1, FilterKept DEF Filters
<1>5. \A c \in Block : LET e == [effects[c] EXCEPT !.playing = @ /\ ~solo]
                       IN  e.type \in Filtered => e.filter \/ c \in retyped
    BY <1>1, FilterKept DEF Filters
<1> HIDE DEF made, again
<1>6. CASE StartEffect(b, solo)
  <2>1. \A c \in Block \ {b} : /\ effects'[c] = [effects[c] EXCEPT !.playing = @ /\ ~solo]
                               /\ c \in retyped => c \in retyped'
    BY <1>6 DEF StartEffect
  <2>2. \/ effects'[b] = made
        \/ effects'[b] = again /\ retyped' = retyped
    BY <1>6 DEF StartEffect, made, again
  <2>3. \A c \in Block \ {b} :
            effects'[c].type \in Filtered => effects'[c].filter \/ c \in retyped'
    BY <1>5, <2>1
  <2>4. effects'[b].type \in Filtered => effects'[b].filter \/ b \in retyped'
    BY <1>3, <1>4, <2>2
  <2> QED BY <2>3, <2>4 DEF Filters
<1>7. CASE StartSerialEffect(b)
    BY <1>4, <1>7 DEF StartSerialEffect, Filters, TypeOK, again
<1> QED BY <1>6, <1>7

LEMMA SetEffectKeepsFilters ==
    ASSUME TypeOK, Filters, NEW b \in Block, NEW t \in host.types, NEW d \in host.durations,
           NEW s \in host.delays, SetEffect(b, t, d, s)
    PROVE  Filters'
<1>1. effects[b] \in Effect /\ t \in Type /\ d \in Nat /\ s \in Nat
    BY HostIsHost DEF TypeOK
<1>2. \A c \in Block \ {b} : effects'[c] = effects[c] /\ (c \in retyped => c \in retyped')
    BY DEF SetEffect, TypeOK
<1>3. effects'[b] = Updated(effects[b], t, d, s)
    BY DEF SetEffect, TypeOK
<1>4. effects'[b].type \in Filtered => effects'[b].filter \/ b \in retyped'
    BY <1>1, <1>3, UpdatedType DEF SetEffect, Filters
<1> QED BY <1>2, <1>4 DEF Filters

LEMMA HostKeepsFilters ==
    ASSUME HidOnly, TypeOK, Filters, HostStep
    PROVE  Filters'
<1>1. CASE \E t \in host.types : NewEffect(t) \/ NewSerialEffect(t)
    BY <1>1, NewKeepsFilters
<1>2. CASE BlockLoad \/ \E state \in BOOLEAN : SetFFB(state)
    BY <1>2 DEF BlockLoad, SetFFB, Filters, pool, history
<1>3. CASE \E b \in Block, t \in host.types, d \in host.durations, s \in host.delays :
              SetEffect(b, t, d, s)
    BY <1>3, SetEffectKeepsFilters
<1>4. CASE \E b \in Block, d \in host.durations : SetDuration(b, d)
    BY <1>4 DEF SetDuration, Filters, TypeOK, Effect
<1>5. CASE \E b \in Block, solo \in BOOLEAN : StartEffect(b, solo)
    BY <1>5, StartKeepsFilters
<1>6. CASE \E b \in Block : StartSerialEffect(b)
    BY <1>6, StartKeepsFilters
<1>7. CASE \E b \in Block : StopEffect(b)
    BY <1>7 DEF StopEffect, Filters, TypeOK, Effect
<1>8. CASE \E b \in Block : FreeEffect(b)
    BY <1>8, EffectAssumption DEF FreeEffect, Filters, TypeOK, Fresh
<1>9. CASE Reset
    BY <1>9, EffectAssumption DEF Reset, Filters, Fresh
<1> QED BY <1>1, <1>2, <1>3, <1>4, <1>5, <1>6, <1>7, <1>8, <1>9 DEF HostStep

LEMMA LoopKeepsFilters ==
    ASSUME TypeOK, Filters, Calculate \/ TimePasses \/ UNCHANGED vars
    PROVE  Filters'
<1>1. CASE Expired
    BY <1>1, FxiInBlock DEF Expired, AtEffect, Filters, TypeOK, Effect, history
<1>2. CASE ~Expired
    BY <1>2 DEF Calculate, BeginPass, Look, Elapsed, Active, UseFilter, EndPass, TimePasses,
                vars, pool, Filters, history
<1> QED BY <1>1, <1>2

LEMMA NextKeepsFilterKnown ==
    ASSUME TypeOK, Known, Filters, FilterKnown, [Next]_vars
    PROVE  FilterKnown'
<1>1. CASE Marked
  <2>1. pc = "filter" => fxi \in Block
    BY FxiInBlock DEF Known
  <2>2. UNCHANGED <<pc, fxi>> /\ (touched => touched')
    BY <1>1 DEF Marked, loop
  <2>3. CASE pc = "filter"
    <3>1. touched' \/ (effects'[fxi] = effects[fxi] /\ (fxi \in retyped => fxi \in retyped'))
      BY <1>1, <2>1, <2>3 DEF Marked
    <3> QED BY <2>2, <2>3, <3>1 DEF FilterKnown, FilterPresent
  <2>4. CASE pc = "fault"
    <3>1. touched' \/ (fxi \in Block => (fxi \in retyped => fxi \in retyped'))
      BY <1>1, <2>4 DEF Marked
    <3>2. fxi \in retyped => fxi \in Block
      BY DEF TypeOK
    <3> QED BY <2>2, <2>4, <3>1, <3>2 DEF FilterKnown, FilterPresent
  <2> QED BY <2>2, <2>3, <2>4 DEF FilterKnown, FilterPresent
<1>2. CASE Active
    BY <1>2, FxiInBlock DEF Active, AtEffect, Skip, Filters, FilterKnown, FilterPresent, pool
<1>3. CASE UseFilter
  <2>1. effects[fxi].filter \in BOOLEAN
    BY <1>3, FxiInBlock DEF UseFilter, AtEffect, Effect
  <2> QED BY <1>3, <2>1 DEF UseFilter, AtEffect, Skip, FilterKnown, FilterPresent
<1>4. CASE BeginPass \/ Look \/ Elapsed \/ Expired \/ EndPass
    BY <1>4 DEF BeginPass, Look, Elapsed, Expired, EndPass, AtEffect, Skip, FilterKnown, FilterPresent
<1>5. CASE TimePasses \/ UNCHANGED vars
    BY <1>5 DEF TimePasses, vars, pool, loop, FilterKnown, FilterPresent, history
<1> QED BY <1>1, <1>2, <1>3, <1>4, <1>5, HostMarks DEF Next, Calculate

\* As long as programs create no filtered effects by command, the loop finds the
\* filter of every effect that the host does not change under its hands and whose
\* type it has not changed since it started it.
THEOREM FiltersAreMade == HidOnly => (Spec => []FilterPresent)
<1> SUFFICES ASSUME HidOnly PROVE Spec => []FilterPresent
    OBVIOUS
<1>1. Init => Filters /\ FilterKnown
    BY EffectAssumption DEF Init, Filters, FilterKnown, FilterPresent, Fresh
<1>2. TypeOK /\ Filters /\ [Next]_vars => Filters'
    BY HostKeepsFilters, LoopKeepsFilters DEF Next
<1>3. TypeOK /\ Known /\ Filters /\ FilterKnown /\ [Next]_vars => FilterKnown'
    BY NextKeepsFilterKnown
<1>4. FilterKnown => FilterPresent
    BY DEF FilterKnown
<1> QED BY <1>1, <1>2, <1>3, <1>4, TypeCorrect, KnownInvariant, PTL DEF Spec
=============================================================================
