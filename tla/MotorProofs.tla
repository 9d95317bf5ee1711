---------------------------- MODULE MotorProofs ----------------------------
(***************************************************************************)
(* What holds of the calls that start, stop and drive the motors for any   *)
(* number of axes, proved with TLAPS.                                      *)
(***************************************************************************)
EXTENDS MotorSafety, DataFacts

-----------------------------------------------------------------------------
(* Lists of steps                                                          *)

\* Steps with certain names and values, of any axis.
Of(fs, vs) == [f : fs, a : Nat, v : vs]
AnyStep == Of(StepNames, BOOLEAN)

Lists == todo \in [Thread -> Seq(AnyStep)]

\* The list l has the step s.
Has(l, s) == \E i \in 1..Len(l) : l[i] = s

LEMMA StepIsAny == scenario \in Scenarios => Step \subseteq AnyStep /\ Axes \subseteq Nat \ {0} /\ Axes # {}
<1> SUFFICES ASSUME scenario \in Scenarios PROVE Step \subseteq AnyStep /\ Axes \subseteq Nat \ {0} /\ Axes # {}
    OBVIOUS
<1>1. scenario.axes \in Nat \ {0}
    BY AxesAssumption DEF Scenario
<1>2. Axes \subseteq Nat \ {0} /\ 1 \in Axes
    BY <1>1 DEF Axes
<1>3. ASSUME NEW s \in Step PROVE s \in AnyStep
  <2>1. \A x \in Axes \union {0} : x \in Nat
    BY <1>2
  <2> QED BY <2>1 DEF Step, AnyStep, Of
<1> QED BY <1>2, <1>3

LEMMA Joined ==
    ASSUME NEW S, NEW s \in Seq(S), NEW u \in Seq(S)
    PROVE  s \o u \in Seq(S)
BY ConcatProperties

LEMMA DoIn ==
    ASSUME NEW S, NEW f, NEW a, NEW v, [f |-> f, a |-> a, v |-> v] \in S
    PROVE  Do(f, a, v) \in Seq(S)
BY DEF Do

\* One list for each axis.
LEMMA ListPerAxis ==
    ASSUME scenario \in Scenarios, NEW S, NEW h \in [Axes -> Seq(S)]
    PROVE  h \in Seq(Seq(S)) /\ h # <<>> /\ 1..Len(h) = Axes
<1>1. scenario.axes \in Nat \ {0}
    BY AxesAssumption DEF Scenario
<1>2. h \in [1..scenario.axes -> Seq(S)]
    BY DEF Axes
<1>3. h \in Seq(Seq(S))
    BY <1>1, <1>2, SeqDef
<1>4. Len(h) = scenario.axes
    BY <1>1, <1>2, <1>3, LenProperties
<1> QED BY <1>1, <1>3, <1>4 DEF Axes

LEMMA EachAxisIn ==
    ASSUME scenario \in Scenarios, NEW S, NEW h \in [Axes -> Seq(S)],
           NEW L, \A a \in Axes : h[a] \in L,
           \A s, t \in L : s \o t \in L
    PROVE  FlattenSeq(h) \in L
<1>1. h \in Seq(Seq(S)) /\ h # <<>> /\ \A i \in 1..Len(h) : h[i] \in L
    BY ListPerAxis
<1> QED BY <1>1, FlattenClosed

LEMMA EachAxisType ==
    ASSUME scenario \in Scenarios, NEW S, NEW h \in [Axes -> Seq(S)]
    PROVE  FlattenSeq(h) \in Seq(S)
BY ListPerAxis, FlattenType

LEMMA EachAxisHas ==
    ASSUME scenario \in Scenarios, NEW S, NEW h \in [Axes -> Seq(S)],
           NEW a \in Axes, NEW x \in S, Has(h[a], x)
    PROVE  Has(FlattenSeq(h), x)
<1>1. h \in Seq(Seq(S)) /\ a \in 1..Len(h)
    BY ListPerAxis
<1> QED BY <1>1, FlattenKeeps DEF Has

Zero(a) == [f |-> "turn", a |-> a, v |-> FALSE]
DriveOff(a) == [f |-> "drive", a |-> a, v |-> FALSE]
DriveOn(a) == [f |-> "drive", a |-> a, v |-> TRUE]
FlagOn == [f |-> "flag", a |-> 0, v |-> TRUE]
FlagOff == [f |-> "flag", a |-> 0, v |-> FALSE]
RangeOf(a) == [f |-> "range", a |-> a, v |-> TRUE]
InBoundsOf(a) == [f |-> "inBounds", a |-> a, v |-> TRUE]
ClearAxisOf(a) == [f |-> "clearAxis", a |-> a, v |-> TRUE]
ForgetAll == [f |-> "forget", a |-> 0, v |-> TRUE]
OutsideError == [f |-> "addError", a |-> 0, v |-> FALSE]

\* The calls of one axis, written out.
LEMMA CallsOfAxis ==
    ASSUME NEW a
    PROVE  /\ AxisEmergencyStop(a, FALSE) = <<Zero(a), Zero(a), DriveOff(a), FlagOn>>
           /\ AxisEmergencyStop(a, TRUE) = <<Zero(a), DriveOn(a), Zero(a), FlagOff>>
           /\ Turn(a, FALSE) \o StopMotor(a) = <<Zero(a), Zero(a), DriveOff(a)>>
           /\ StartMotor(a) = <<DriveOn(a), Zero(a)>>
           /\ StartMotor(a) \o Do("inBounds", a, TRUE) = <<DriveOn(a), Zero(a), InBoundsOf(a)>>
           /\ StopMotor(a) \o Do("range", a, TRUE) = <<Zero(a), DriveOff(a), RangeOf(a)>>
<1>1. /\ Turn(a, FALSE) = <<Zero(a)>> /\ Do("drive", a, TRUE) = <<DriveOn(a)>> /\ Do("drive", a, FALSE) = <<DriveOff(a)>>
      /\ Do("inBounds", a, TRUE) = <<InBoundsOf(a)>> /\ Do("range", a, TRUE) = <<RangeOf(a)>>
    BY DEF Turn, Do, Zero, DriveOn, DriveOff, InBoundsOf, RangeOf
<1>2. Flag(~FALSE) = <<FlagOn>> /\ Flag(~TRUE) = <<FlagOff>>
    BY DEF Flag, Do, FlagOn, FlagOff
<1>3. StartMotor(a) = <<DriveOn(a), Zero(a)>> /\ StopMotor(a) = <<Zero(a), DriveOff(a)>>
    BY <1>1, Tuples DEF StartMotor, StopMotor
<1>4. Turn(a, FALSE) \o StopMotor(a) = <<Zero(a), Zero(a), DriveOff(a)>>
  <2>1. <<Zero(a)>> \o <<Zero(a), DriveOff(a)>> = <<Zero(a), Zero(a), DriveOff(a)>>
    BY Tuples
  <2> QED BY <1>1, <1>3, <2>1
<1>5. AxisEmergencyStop(a, FALSE) = <<Zero(a), Zero(a), DriveOff(a), FlagOn>>
  <2>1. AxisEmergencyStop(a, FALSE) = (Turn(a, FALSE) \o StopMotor(a)) \o Flag(~FALSE)
    BY DEF AxisEmergencyStop, MotorEmergencyStop
  <2>2. <<Zero(a), Zero(a), DriveOff(a)>> \o <<FlagOn>> = <<Zero(a), Zero(a), DriveOff(a), FlagOn>>
    BY Quadruple
  <2> QED BY <1>2, <1>4, <2>1, <2>2
<1>6. AxisEmergencyStop(a, TRUE) = <<Zero(a), DriveOn(a), Zero(a), FlagOff>>
  <2>1. AxisEmergencyStop(a, TRUE) = (Turn(a, FALSE) \o StartMotor(a)) \o Flag(~TRUE)
    BY DEF AxisEmergencyStop, MotorEmergencyStop
  <2>2. <<Zero(a)>> \o <<DriveOn(a), Zero(a)>> = <<Zero(a), DriveOn(a), Zero(a)>>
    BY Tuples
  <2>3. <<Zero(a), DriveOn(a), Zero(a)>> \o <<FlagOff>> = <<Zero(a), DriveOn(a), Zero(a), FlagOff>>
    BY Quadruple
  <2> QED BY <1>1, <1>2, <1>3, <2>1, <2>2, <2>3
<1>7. StartMotor(a) \o Do("inBounds", a, TRUE) = <<DriveOn(a), Zero(a), InBoundsOf(a)>>
  <2>1. <<DriveOn(a), Zero(a)>> \o <<InBoundsOf(a)>> = <<DriveOn(a), Zero(a), InBoundsOf(a)>>
    BY Tuples
  <2> QED BY <1>1, <1>3, <2>1
<1>8. StopMotor(a) \o Do("range", a, TRUE) = <<Zero(a), DriveOff(a), RangeOf(a)>>
  <2>1. <<Zero(a), DriveOff(a)>> \o <<RangeOf(a)>> = <<Zero(a), DriveOff(a), RangeOf(a)>>
    BY Tuples
  <2> QED BY <1>1, <1>3, <2>1
<1> QED BY <1>3, <1>4, <1>5, <1>6, <1>7, <1>8

\* The steps of a stop, of a reset, of the commands, of the USB callbacks, of
\* the start of the loop and of the loop, which goes cold when it may not drive.
Still == Of({"turn", "set"}, {FALSE})
StopSteps == Still \union Of({"flag"}, {TRUE}) \union Of({"drive"}, {FALSE})
ReleaseSteps == Still \union Of({"flag"}, {FALSE}) \union Of({"drive"}, {TRUE})
UsbSteps == Still \union Of({"drive"}, BOOLEAN)
ClearSteps == Still \union Of({"drive", "clearAxis", "inBounds", "forget"}, {TRUE})
CommandSteps == ClearSteps \union StopSteps \union ReleaseSteps \union Of({"unlatch"}, {TRUE})
BootSteps == StopSteps \union Of({"boot", "stamp"}, {TRUE})
ColdSteps == Still \union Of({"drive", "addError"}, {FALSE}) \union Of({"prepare", "range", "gate"}, {TRUE})
LoopSteps == ColdSteps \union Of({"turn", "set"}, {TRUE}) \union Of({"update"}, {TRUE})

\* A list of steps in which a motor is turned off, and the axis recorded as out
\* of bounds, right after its torque was set to zero; and where a call ends.
AfterStop(s) == (s.f = "drive" /\ ~s.v) \/ s.f = "range"
Opens(s) == s.f # "set" /\ (s.f = "turn" => ~s.v) /\ ~AfterStop(s)
May(r, s) ==
    /\ s.f # "set" /\ (s.f = "turn" => ~s.v) /\ r.f # "forget"
    /\ s.f = "drive" /\ ~s.v => r.f \in {"turn", "set"} /\ r.a = s.a /\ ~r.v
    /\ s.f = "range" => r.f = "drive" /\ r.a = s.a /\ ~r.v

Chained == {l \in Seq(AnyStep) : \A i \in 1..Len(l) - 1 : May(l[i], l[i+1])}
Begins(l) == l # <<>> => Opens(l[1])
Calls == {l \in Chained : Begins(l) /\ \A i \in 1..Len(l) : l[i].f # "forget"}

\* A motor is turned off by a stop, which raises the flag, or by the range
\* check, which reports an error.
Guarded ==
    {l \in Seq(AnyStep) : \A i \in 1..Len(l) :
        l[i].f = "drive" /\ ~l[i].v => i < Len(l) /\ l[i+1] \in {FlagOn, RangeOf(l[i].a)}}

LEMMA ChainJoin ==
    ASSUME NEW x \in Chained, \A i \in 1..Len(x) : x[i].f # "forget",
           NEW y \in Chained, Begins(y)
    PROVE  x \o y \in Chained
<1>1. x \in Seq(AnyStep) /\ y \in Seq(AnyStep)
    BY DEF Chained
<1>2. /\ x \o y \in Seq(AnyStep) /\ Len(x \o y) = Len(x) + Len(y)
      /\ \A i \in 1..Len(x) + Len(y) : (x \o y)[i] = IF i <= Len(x) THEN x[i] ELSE y[i - Len(x)]
    BY <1>1, ConcatProperties
<1>3. Len(x) \in Nat /\ Len(y) \in Nat
    BY <1>1, LenProperties
<1>4. ASSUME NEW i \in 1..Len(x \o y) - 1 PROVE May((x \o y)[i], (x \o y)[i+1])
  <2>0. i \in 1..Len(x) + Len(y) - 1
    BY <1>2
  <2>1. CASE i < Len(x)
    <3>1. (x \o y)[i] = x[i] /\ (x \o y)[i+1] = x[i+1] /\ i \in 1..Len(x) - 1
        BY <1>2, <1>3, <2>0, <2>1
    <3> QED BY <3>1 DEF Chained
  <2>2. CASE i = Len(x)
    <3>1. (x \o y)[i] = x[i] /\ (x \o y)[i+1] = y[1] /\ i \in 1..Len(x) /\ y # <<>>
        BY <1>1, <1>2, <1>3, <2>0, <2>2, EmptySeq
    <3> QED BY <3>1 DEF Begins, Opens, May, AfterStop
  <2>3. CASE i > Len(x)
    <3>1. /\ (x \o y)[i] = y[i - Len(x)] /\ (x \o y)[i+1] = y[(i - Len(x)) + 1]
          /\ i - Len(x) \in 1..Len(y) - 1
        BY <1>2, <1>3, <2>0, <2>3
    <3> QED BY <3>1 DEF Chained
  <2> QED BY <1>3, <2>0, <2>1, <2>2, <2>3
<1> QED BY <1>2, <1>4 DEF Chained

LEMMA CallsJoin ==
    ASSUME NEW x \in Calls, NEW y \in Calls
    PROVE  x \o y \in Calls
<1>1. x \in Seq(AnyStep) /\ y \in Seq(AnyStep)
    BY DEF Calls, Chained
<1>2. /\ x \o y \in Seq(AnyStep) /\ Len(x \o y) = Len(x) + Len(y)
      /\ \A i \in 1..Len(x) + Len(y) : (x \o y)[i] = IF i <= Len(x) THEN x[i] ELSE y[i - Len(x)]
    BY <1>1, ConcatProperties
<1>3. Len(x) \in Nat /\ Len(y) \in Nat
    BY <1>1, LenProperties
<1>4. x \o y \in Chained
  <2>1. x \in Chained /\ y \in Chained /\ Begins(y) /\ \A i \in 1..Len(x) : x[i].f # "forget"
    BY DEF Calls
  <2> QED BY <2>1, ChainJoin
<1>5. Begins(x \o y)
  <2>1. CASE x = <<>>
    <3>1. x \o y = y
        BY <1>1, <2>1, ConcatEmptySeq
    <3> QED BY <3>1 DEF Calls
  <2>2. CASE x # <<>>
    <3>1. (x \o y)[1] = x[1]
        BY <1>1, <1>2, <1>3, <2>2, EmptySeq
    <3> QED BY <2>2, <3>1 DEF Calls, Begins
  <2> QED BY <2>1, <2>2
<1>6. ASSUME NEW i \in 1..Len(x) + Len(y) PROVE (x \o y)[i].f # "forget"
  <2>1. CASE i <= Len(x)
    <3>1. i \in 1..Len(x) /\ (x \o y)[i] = x[i]
        BY <1>2, <1>3, <2>1
    <3> QED BY <3>1 DEF Calls
  <2>2. CASE ~(i <= Len(x))
    <3>1. i - Len(x) \in 1..Len(y) /\ (x \o y)[i] = y[i - Len(x)]
        BY <1>2, <1>3, <2>2
    <3> QED BY <3>1 DEF Calls
  <2> QED BY <2>1, <2>2
<1> QED BY <1>2, <1>4, <1>5, <1>6 DEF Calls

LEMMA ChainTail ==
    ASSUME NEW x \in Chained, x # <<>>
    PROVE  /\ Tail(x) \in Chained
           /\ Tail(x) # <<>> => May(Head(x), Tail(x)[1])
<1>1. x \in Seq(AnyStep)
    BY DEF Chained
<1>2. /\ Head(x) = x[1] /\ Tail(x) \in Seq(AnyStep) /\ Len(Tail(x)) = Len(x) - 1
      /\ \A i \in 1..Len(Tail(x)) : Tail(x)[i] = x[i+1]
    BY <1>1, HeadTailProperties
<1>3. Len(x) \in Nat \ {0}
    BY <1>1, LenProperties, EmptySeq
<1>4. ASSUME NEW i \in 1..Len(Tail(x)) - 1 PROVE May(Tail(x)[i], Tail(x)[i+1])
  <2>1. i + 1 \in 1..Len(x) - 1 /\ Tail(x)[i] = x[i+1] /\ Tail(x)[i+1] = x[(i+1)+1]
    BY <1>2, <1>3
  <2> QED BY <2>1 DEF Chained
<1>5. ASSUME Tail(x) # <<>> PROVE May(Head(x), Tail(x)[1])
  <2>1. Len(Tail(x)) \in Nat \ {0}
    BY <1>2, <1>5, LenProperties, EmptySeq
  <2>2. 1 \in 1..Len(x) - 1 /\ Tail(x)[1] = x[1+1]
    BY <1>2, <1>3, <2>1
  <2> QED BY <1>2, <2>2 DEF Chained
<1> QED BY <1>2, <1>4, <1>5 DEF Chained

LEMMA GuardJoin ==
    ASSUME NEW x \in Guarded, NEW y \in Guarded
    PROVE  x \o y \in Guarded
<1>1. x \in Seq(AnyStep) /\ y \in Seq(AnyStep)
    BY DEF Guarded
<1>2. /\ x \o y \in Seq(AnyStep) /\ Len(x \o y) = Len(x) + Len(y)
      /\ \A i \in 1..Len(x) + Len(y) : (x \o y)[i] = IF i <= Len(x) THEN x[i] ELSE y[i - Len(x)]
    BY <1>1, ConcatProperties
<1>3. Len(x) \in Nat /\ Len(y) \in Nat
    BY <1>1, LenProperties
<1>4. ASSUME NEW i \in 1..Len(x) + Len(y), (x \o y)[i].f = "drive", ~(x \o y)[i].v
      PROVE  i < Len(x) + Len(y) /\ (x \o y)[i+1] \in {FlagOn, RangeOf((x \o y)[i].a)}
  <2>1. CASE i <= Len(x)
    <3>1. i \in 1..Len(x) /\ (x \o y)[i] = x[i]
        BY <1>2, <1>3, <2>1
    <3>2. i < Len(x) /\ x[i+1] \in {FlagOn, RangeOf(x[i].a)}
        BY <1>4, <3>1 DEF Guarded
    <3>3. (x \o y)[i+1] = x[i+1]
        BY <1>2, <1>3, <3>2
    <3> QED BY <1>3, <3>1, <3>2, <3>3
  <2>2. CASE ~(i <= Len(x))
    <3>1. i - Len(x) \in 1..Len(y) /\ (x \o y)[i] = y[i - Len(x)]
        BY <1>2, <1>3, <2>2
    <3>2. i - Len(x) < Len(y) /\ y[(i - Len(x)) + 1] \in {FlagOn, RangeOf(y[i - Len(x)].a)}
        BY <1>4, <3>1 DEF Guarded
    <3>3. (x \o y)[i+1] = y[(i - Len(x)) + 1]
        BY <1>2, <1>3, <2>2, <3>2
    <3> QED BY <1>3, <3>1, <3>2, <3>3
  <2> QED BY <2>1, <2>2
<1> QED BY <1>2, <1>4 DEF Guarded

LEMMA GuardTail ==
    ASSUME NEW x \in Guarded, x # <<>>
    PROVE  /\ Tail(x) \in Guarded
           /\ Head(x).f = "drive" /\ ~Head(x).v =>
                Tail(x) # <<>> /\ Head(Tail(x)) \in {FlagOn, RangeOf(Head(x).a)}
<1>1. x \in Seq(AnyStep)
    BY DEF Guarded
<1>2. /\ Head(x) = x[1] /\ Tail(x) \in Seq(AnyStep) /\ Len(Tail(x)) = Len(x) - 1
      /\ \A i \in 1..Len(Tail(x)) : Tail(x)[i] = x[i+1]
    BY <1>1, HeadTailProperties
<1>3. Len(x) \in Nat \ {0}
    BY <1>1, LenProperties, EmptySeq
<1>4. ASSUME NEW i \in 1..Len(Tail(x)), Tail(x)[i].f = "drive", ~Tail(x)[i].v
      PROVE  i < Len(Tail(x)) /\ Tail(x)[i+1] \in {FlagOn, RangeOf(Tail(x)[i].a)}
  <2>1. i + 1 \in 1..Len(x) /\ Tail(x)[i] = x[i+1]
    BY <1>2, <1>3
  <2>2. i + 1 < Len(x) /\ x[(i+1)+1] \in {FlagOn, RangeOf(x[i+1].a)}
    BY <1>4, <2>1 DEF Guarded
  <2>3. Tail(x)[i+1] = x[(i+1)+1]
    BY <1>2, <1>3, <2>2
  <2> QED BY <1>2, <1>3, <2>1, <2>2, <2>3
<1>5. ASSUME Head(x).f = "drive", ~Head(x).v
      PROVE  Tail(x) # <<>> /\ Head(Tail(x)) \in {FlagOn, RangeOf(Head(x).a)}
  <2>1. 1 < Len(x) /\ x[1+1] \in {FlagOn, RangeOf(x[1].a)}
    BY <1>2, <1>3, <1>5 DEF Guarded
  <2>2. Tail(x) # <<>> /\ Tail(x)[1] = x[1+1]
    BY <1>2, <1>3, <2>1, EmptySeq
  <2>3. Head(Tail(x)) = Tail(x)[1]
    BY <1>2, <2>2, HeadTailProperties
  <2> QED BY <1>2, <2>1, <2>2, <2>3
<1> QED BY <1>2, <1>4, <1>5 DEF Guarded

LEMMA HasJoin ==
    ASSUME NEW S, NEW x \in Seq(S), NEW y \in Seq(S), NEW s, Has(x, s) \/ Has(y, s)
    PROVE  Has(x \o y, s)
<1>1. /\ x \o y \in Seq(S) /\ Len(x \o y) = Len(x) + Len(y)
      /\ \A i \in 1..Len(x) + Len(y) : (x \o y)[i] = IF i <= Len(x) THEN x[i] ELSE y[i - Len(x)]
      /\ Len(x) \in Nat /\ Len(y) \in Nat
    BY ConcatProperties, LenProperties
<1>2. CASE Has(x, s)
  <2>1. PICK i \in 1..Len(x) : x[i] = s
    BY <1>2 DEF Has
  <2>2. i \in 1..Len(x \o y) /\ (x \o y)[i] = s
    BY <1>1, <2>1
  <2> QED BY <2>2 DEF Has
<1>3. CASE Has(y, s)
  <2>1. PICK i \in 1..Len(y) : y[i] = s
    BY <1>3 DEF Has
  <2>2. Len(x) + i \in 1..Len(x) + Len(y) /\ ~(Len(x) + i <= Len(x)) /\ (Len(x) + i) - Len(x) = i
    BY <1>1, <2>1
  <2>3. (x \o y)[Len(x) + i] = s
    BY <1>1, <2>1, <2>2
  <2> QED BY <1>1, <2>2, <2>3 DEF Has
<1> QED BY <1>2, <1>3

LEMMA HasHead ==
    ASSUME NEW S, NEW x \in Seq(S), x # <<>>, NEW s
    PROVE  Has(x, s) => s = Head(x) \/ Has(Tail(x), s)
<1> SUFFICES ASSUME Has(x, s), s # Head(x) PROVE Has(Tail(x), s)
    OBVIOUS
<1>1. /\ Head(x) = x[1] /\ Tail(x) \in Seq(S) /\ Len(Tail(x)) = Len(x) - 1
      /\ \A i \in 1..Len(Tail(x)) : Tail(x)[i] = x[i+1]
      /\ Len(x) \in Nat \ {0}
    BY HeadTailProperties, LenProperties, EmptySeq
<1>2. PICK i \in 1..Len(x) : x[i] = s
    BY DEF Has
<1>3. i - 1 \in 1..Len(Tail(x)) /\ Tail(x)[i-1] = x[i]
    BY <1>1, <1>2
<1> QED BY <1>2, <1>3 DEF Has

LEMMA HasIsIn ==
    ASSUME NEW S, NEW x \in Seq(S), NEW s, Has(x, s)
    PROVE  s \in S /\ x # <<>>
<1>1. PICK i \in 1..Len(x) : x[i] = s
    BY DEF Has
<1>2. x # <<>>
    BY <1>1
<1> QED BY <1>1, <1>2, ElementOfSeq

LEMMA HasItsHead ==
    ASSUME NEW S, NEW x \in Seq(S), x # <<>>
    PROVE  Has(x, Head(x))
<1>1. Head(x) = x[1] /\ Len(x) \in Nat \ {0}
    BY HeadTailProperties, LenProperties, EmptySeq
<1> QED BY <1>1 DEF Has


LEMMA HeadOfJoin ==
    ASSUME NEW S, NEW x \in S, NEW y \in Seq(S)
    PROVE  <<x>> \o y # <<>> /\ Head(<<x>> \o y) = x /\ Tail(<<x>> \o y) = y
<1>1. <<x>> \in Seq(S) /\ Len(<<x>>) = 1 /\ <<x>>[1] = x
    OBVIOUS
<1>2. /\ <<x>> \o y \in Seq(S) /\ Len(<<x>> \o y) = 1 + Len(y) /\ Len(y) \in Nat
      /\ \A i \in 1..1 + Len(y) : (<<x>> \o y)[i] = IF i <= 1 THEN x ELSE y[i - 1]
    BY <1>1, ConcatProperties, LenProperties
<1>3. <<x>> \o y # <<>>
    BY <1>2, EmptySeq
<1>4. /\ Head(<<x>> \o y) = (<<x>> \o y)[1] /\ Tail(<<x>> \o y) \in Seq(S)
      /\ Len(Tail(<<x>> \o y)) = Len(<<x>> \o y) - 1
      /\ \A i \in 1..Len(Tail(<<x>> \o y)) : Tail(<<x>> \o y)[i] = (<<x>> \o y)[i+1]
    BY <1>2, <1>3, HeadTailProperties
<1>5. Head(<<x>> \o y) = x
    BY <1>2, <1>4
<1>6. Tail(<<x>> \o y) = y
  <2>1. Len(Tail(<<x>> \o y)) = Len(y)
    BY <1>2, <1>4
  <2>2. \A i \in 1..Len(y) : Tail(<<x>> \o y)[i] = y[i]
    BY <1>2, <1>4, <2>1
  <2> QED BY <1>4, <2>1, <2>2, SeqEqual
<1> QED BY <1>3, <1>5, <1>6

LEMMA HasParts ==
    ASSUME NEW S, NEW x \in Seq(S), NEW y \in Seq(S), NEW s, Has(x \o y, s)
    PROVE  Has(x, s) \/ Has(y, s)
<1>1. /\ x \o y \in Seq(S) /\ Len(x \o y) = Len(x) + Len(y)
      /\ \A i \in 1..Len(x) + Len(y) : (x \o y)[i] = IF i <= Len(x) THEN x[i] ELSE y[i - Len(x)]
      /\ Len(x) \in Nat /\ Len(y) \in Nat
    BY ConcatProperties, LenProperties
<1>2. PICK i \in 1..Len(x \o y) : (x \o y)[i] = s
    BY DEF Has
<1>3. CASE i <= Len(x)
  <2>1. i \in 1..Len(x) /\ x[i] = s
    BY <1>1, <1>2, <1>3
  <2> QED BY <2>1 DEF Has
<1>4. CASE ~(i <= Len(x))
  <2>1. i - Len(x) \in 1..Len(y) /\ y[i - Len(x)] = s
    BY <1>1, <1>2, <1>4
  <2> QED BY <2>1 DEF Has
<1> QED BY <1>3, <1>4

LEMMA HasTail ==
    ASSUME NEW S, NEW x \in Seq(S), x # <<>>, NEW s, Has(Tail(x), s)
    PROVE  Has(x, s)
<1>1. /\ Tail(x) \in Seq(S) /\ Len(Tail(x)) = Len(x) - 1
      /\ \A i \in 1..Len(Tail(x)) : Tail(x)[i] = x[i+1]
      /\ Len(x) \in Nat \ {0}
    BY HeadTailProperties, LenProperties, EmptySeq
<1>2. PICK i \in 1..Len(Tail(x)) : Tail(x)[i] = s
    BY DEF Has
<1>3. i + 1 \in 1..Len(x) /\ x[i+1] = s
    BY <1>1, <1>2
<1> QED BY <1>3 DEF Has
LEMMA ShortLists ==
    ASSUME NEW S, NEW x \in S, NEW y \in S, NEW z \in S, NEW w \in S
    PROVE  /\ <<x>> \in Seq(S) /\ <<x, y>> \in Seq(S) /\ <<x, y, z>> \in Seq(S)
           /\ <<x, y, z, w>> \in Seq(S)
           /\ Has(<<x>>, x)
           /\ Has(<<x, y>>, x) /\ Has(<<x, y>>, y)
           /\ Has(<<x, y, z>>, x) /\ Has(<<x, y, z>>, y) /\ Has(<<x, y, z>>, z)
           /\ Has(<<x, y, z, w>>, x) /\ Has(<<x, y, z, w>>, y) /\ Has(<<x, y, z, w>>, z)
           /\ Has(<<x, y, z, w>>, w)
<1>1. /\ Len(<<x>>) = 1 /\ Len(<<x, y>>) = 2 /\ Len(<<x, y, z>>) = 3 /\ Len(<<x, y, z, w>>) = 4
    OBVIOUS
<1>2. /\ 1 \in 1..1 /\ 1 \in 1..2 /\ 2 \in 1..2 /\ 1 \in 1..3 /\ 2 \in 1..3 /\ 3 \in 1..3
      /\ 1 \in 1..4 /\ 2 \in 1..4 /\ 3 \in 1..4 /\ 4 \in 1..4
    OBVIOUS
<1>3. <<x>>[1] = x /\ <<x, y>>[1] = x /\ <<x, y>>[2] = y
    OBVIOUS
<1>4. <<x, y, z>>[1] = x /\ <<x, y, z>>[2] = y /\ <<x, y, z>>[3] = z
    OBVIOUS
<1>5. <<x, y, z, w>>[1] = x /\ <<x, y, z, w>>[2] = y /\ <<x, y, z, w>>[3] = z /\ <<x, y, z, w>>[4] = w
    OBVIOUS
<1>6. Has(<<x>>, x) /\ Has(<<x, y>>, x) /\ Has(<<x, y>>, y)
    BY <1>1, <1>2, <1>3 DEF Has
<1>7. Has(<<x, y, z>>, x) /\ Has(<<x, y, z>>, y) /\ Has(<<x, y, z>>, z)
    BY <1>1, <1>2, <1>4 DEF Has
<1>8. Has(<<x, y, z, w>>, x) /\ Has(<<x, y, z, w>>, y) /\ Has(<<x, y, z, w>>, z) /\ Has(<<x, y, z, w>>, w)
    BY <1>1, <1>2, <1>5 DEF Has
<1> QED BY <1>6, <1>7, <1>8

LEMMA ShortCalls ==
    ASSUME NEW x \in AnyStep, NEW y \in AnyStep, NEW z \in AnyStep, NEW w \in AnyStep,
           Opens(x), "forget" \notin {x.f, y.f, z.f, w.f}
    PROVE  /\ <<x>> \in Calls
           /\ May(x, y) => <<x, y>> \in Calls
           /\ May(x, y) /\ May(y, z) => <<x, y, z>> \in Calls
           /\ May(x, y) /\ May(y, z) /\ May(z, w) => <<x, y, z, w>> \in Calls
<1>1. <<x>> \in Calls
  <2>1. <<x>> \in Seq(AnyStep) /\ Len(<<x>>) = 1 /\ <<x>>[1] = x
    OBVIOUS
  <2> QED BY <2>1 DEF Calls, Chained, Begins
<1>2. ASSUME May(x, y) PROVE <<x, y>> \in Calls
  <2>1. <<x, y>> \in Seq(AnyStep) /\ Len(<<x, y>>) = 2 /\ <<x, y>>[1] = x /\ <<x, y>>[2] = y
    OBVIOUS
  <2>2. \A i \in 1..2 - 1 : i = 1
    OBVIOUS
  <2>3. \A i \in 1..2 : i = 1 \/ i = 2
    OBVIOUS
  <2> QED BY <1>2, <2>1, <2>2, <2>3 DEF Calls, Chained, Begins
<1>3. ASSUME May(x, y), May(y, z) PROVE <<x, y, z>> \in Calls
  <2>1. /\ <<x, y, z>> \in Seq(AnyStep) /\ Len(<<x, y, z>>) = 3
        /\ <<x, y, z>>[1] = x /\ <<x, y, z>>[2] = y /\ <<x, y, z>>[3] = z
    OBVIOUS
  <2>2. \A i \in 1..3 - 1 : i = 1 \/ i = 2
    OBVIOUS
  <2>3. \A i \in 1..3 : i = 1 \/ i = 2 \/ i = 3
    OBVIOUS
  <2> QED BY <1>3, <2>1, <2>2, <2>3 DEF Calls, Chained, Begins
<1>4. ASSUME May(x, y), May(y, z), May(z, w) PROVE <<x, y, z, w>> \in Calls
  <2>1. /\ <<x, y, z, w>> \in Seq(AnyStep) /\ Len(<<x, y, z, w>>) = 4
        /\ <<x, y, z, w>>[1] = x /\ <<x, y, z, w>>[2] = y /\ <<x, y, z, w>>[3] = z /\ <<x, y, z, w>>[4] = w
    OBVIOUS
  <2>2. \A i \in 1..4 - 1 : i = 1 \/ i = 2 \/ i = 3
    OBVIOUS
  <2>3. \A i \in 1..4 : i = 1 \/ i = 2 \/ i = 3 \/ i = 4
    OBVIOUS
  <2> QED BY <1>4, <2>1, <2>2, <2>3 DEF Calls, Chained, Begins
<1> QED BY <1>1, <1>2, <1>3, <1>4

\* Lists that turn no motor off, and the two ways to do it.
LEMMA GuardedLists ==
    /\ \A S : S \subseteq AnyStep /\ (\A s \in S : s.f = "drive" => s.v) => Seq(S) \subseteq Guarded
    /\ \A a \in Nat, x, y \in AnyStep : ~(x.f = "drive" /\ ~x.v) /\ ~(y.f = "drive" /\ ~y.v)
            => /\ <<x, y, DriveOff(a), FlagOn>> \in Guarded
               /\ <<x, DriveOff(a), RangeOf(a)>> \in Guarded
<1>1. ASSUME NEW S, S \subseteq AnyStep, \A s \in S : s.f = "drive" => s.v, NEW l \in Seq(S)
      PROVE  l \in Guarded
  <2>1. l \in Seq(AnyStep) /\ \A i \in 1..Len(l) : l[i] \in S
    BY <1>1, SeqMonotonic, ElementOfSeq
  <2> QED BY <1>1, <2>1 DEF Guarded
<1>2. ASSUME NEW a \in Nat, NEW x \in AnyStep, NEW y \in AnyStep,
             ~(x.f = "drive" /\ ~x.v), ~(y.f = "drive" /\ ~y.v)
      PROVE  /\ <<x, y, DriveOff(a), FlagOn>> \in Guarded
             /\ <<x, DriveOff(a), RangeOf(a)>> \in Guarded
  <2> DEFINE d == DriveOff(a)
             r == RangeOf(a)
  <2>1. /\ d \in AnyStep /\ FlagOn \in AnyStep /\ r \in AnyStep
        /\ d.a = a /\ FlagOn.f = "flag" /\ r.f = "range"
    BY DEF DriveOff, FlagOn, RangeOf, AnyStep, Of, StepNames
  <2> HIDE DEF d, r
  <2>2. <<x, y, d, FlagOn>> \in Guarded
    <3>1. /\ <<x, y, d, FlagOn>> \in Seq(AnyStep) /\ Len(<<x, y, d, FlagOn>>) = 4
          /\ <<x, y, d, FlagOn>>[1] = x /\ <<x, y, d, FlagOn>>[2] = y /\ <<x, y, d, FlagOn>>[3] = d
          /\ <<x, y, d, FlagOn>>[4] = FlagOn
        BY <2>1
    <3>2. \A i \in 1..4 : i = 1 \/ i = 2 \/ i = 3 \/ i = 4
        OBVIOUS
    <3>3. 3 < 4 /\ 3 + 1 = 4
        OBVIOUS
    <3> QED BY <1>2, <2>1, <3>1, <3>2, <3>3 DEF Guarded
  <2>3. <<x, d, r>> \in Guarded
    <3>1. /\ <<x, d, r>> \in Seq(AnyStep) /\ Len(<<x, d, r>>) = 3
          /\ <<x, d, r>>[1] = x /\ <<x, d, r>>[2] = d /\ <<x, d, r>>[3] = r
        BY <2>1
    <3>2. \A i \in 1..3 : i = 1 \/ i = 2 \/ i = 3
        OBVIOUS
    <3>3. 2 < 3 /\ 2 + 1 = 3
        OBVIOUS
    <3>4. r = RangeOf(d.a)
        BY <2>1 DEF r
    <3> QED BY <1>2, <2>1, <3>1, <3>2, <3>3, <3>4 DEF Guarded
  <2> QED BY <2>2, <2>3 DEF d, r
<1> QED BY <1>1, <1>2

-----------------------------------------------------------------------------
(* The calls                                                               *)

\* Each call's steps, for any set that has them.
LEMMA FlagSteps == Flag(~FALSE) = <<FlagOn>> /\ Flag(~TRUE) = <<FlagOff>>
BY DEF Flag, Do, FlagOn, FlagOff

LEMMA StopIn ==
    ASSUME scenario \in Scenarios, NEW S, FlagOn \in S,
           \A a \in Axes : Zero(a) \in S /\ DriveOff(a) \in S
    PROVE  EmergencyStop(FALSE) \in Seq(S)
<1> DEFINE h == [a \in Axes |-> AxisEmergencyStop(a, FALSE)]
<1>1. \A a \in Axes : AxisEmergencyStop(a, FALSE) \in Seq(S)
    BY CallsOfAxis, ShortLists
<1>2. h \in [Axes -> Seq(S)]
    BY <1>1
<1>3. FlattenSeq(h) \in Seq(S)
    BY <1>2, EachAxisType
<1>4. <<FlagOn>> \in Seq(S)
    BY ShortLists
<1>5. EmergencyStop(FALSE) = <<FlagOn>> \o FlattenSeq(h)
    BY FlagSteps DEF EmergencyStop, OnEachAxis
<1> QED BY <1>3, <1>4, <1>5, Joined

LEMMA ResetIn ==
    ASSUME scenario \in Scenarios, NEW S, FlagOff \in S,
           \A a \in Axes : Zero(a) \in S /\ DriveOn(a) \in S
    PROVE  EmergencyStop(TRUE) \in Seq(S)
<1> DEFINE h == [a \in Axes |-> AxisEmergencyStop(a, TRUE)]
<1>1. \A a \in Axes : AxisEmergencyStop(a, TRUE) \in Seq(S)
    BY CallsOfAxis, ShortLists
<1>2. h \in [Axes -> Seq(S)]
    BY <1>1
<1>3. FlattenSeq(h) \in Seq(S)
    BY <1>2, EachAxisType
<1>4. <<FlagOff>> \in Seq(S)
    BY ShortLists
<1>5. EmergencyStop(TRUE) = <<FlagOff>> \o FlattenSeq(h)
    BY FlagSteps DEF EmergencyStop, OnEachAxis
<1> QED BY <1>3, <1>4, <1>5, Joined

LEMMA SuspendIn ==
    ASSUME scenario \in Scenarios, NEW S, \A a \in Axes : Zero(a) \in S /\ DriveOff(a) \in S
    PROVE  SuspendAxes \in Seq(S)
<1> DEFINE h == [a \in Axes |-> Turn(a, FALSE) \o StopMotor(a)]
<1>1. \A a \in Axes : Turn(a, FALSE) \o StopMotor(a) \in Seq(S)
    BY CallsOfAxis, ShortLists
<1>2. h \in [Axes -> Seq(S)]
    BY <1>1
<1>3. SuspendAxes = FlattenSeq(h)
    BY DEF SuspendAxes, OnEachAxis
<1> QED BY <1>2, <1>3, EachAxisType

LEMMA ResumeIn ==
    ASSUME scenario \in Scenarios, NEW S, \A a \in Axes : Zero(a) \in S /\ DriveOn(a) \in S
    PROVE  ResumeAxes \in Seq(S)
<1> DEFINE h == [a \in Axes |-> StartMotor(a)]
<1>1. \A a \in Axes : StartMotor(a) \in Seq(S)
    BY CallsOfAxis, ShortLists
<1>2. h \in [Axes -> Seq(S)]
    BY <1>1
<1>3. ResumeAxes = FlattenSeq(h)
    BY DEF ResumeAxes, OnEachAxis
<1> QED BY <1>2, <1>3, EachAxisType

\* A call of one step for each axis.
LEMMA OneStepIn ==
    ASSUME scenario \in Scenarios, NEW f, NEW S, \A a \in Axes : [f |-> f, a |-> a, v |-> TRUE] \in S
    PROVE  FlattenSeq([a \in Axes |-> Do(f, a, TRUE)]) \in Seq(S)
<1>1. \A a \in Axes : Do(f, a, TRUE) \in Seq(S)
    BY DoIn
<1>2. [a \in Axes |-> Do(f, a, TRUE)] \in [Axes -> Seq(S)]
    BY <1>1
<1> QED BY <1>2, EachAxisType

LEMMA LoopIs ==
    /\ Loop = FlattenSeq([a \in Axes |-> Do("prepare", a, TRUE)]) \o Do("gate", 0, TRUE)
    /\ ClearAll = FlattenSeq([a \in Axes |-> Do("clearAxis", a, TRUE)]) \o Do("forget", 0, TRUE)
BY DEF Loop, ClearAll, OnEachAxis

LEMMA LoopIn ==
    ASSUME scenario \in Scenarios, NEW S, [f |-> "gate", a |-> 0, v |-> TRUE] \in S,
           \A a \in Axes : [f |-> "prepare", a |-> a, v |-> TRUE] \in S
    PROVE  Loop \in Seq(S)
<1>1. FlattenSeq([a \in Axes |-> Do("prepare", a, TRUE)]) \in Seq(S)
    BY OneStepIn
<1>2. Do("gate", 0, TRUE) \in Seq(S)
    BY DoIn
<1> QED BY <1>1, <1>2, Joined, LoopIs

LEMMA ClearIn ==
    ASSUME scenario \in Scenarios, NEW S, ForgetAll \in S, \A a \in Axes : ClearAxisOf(a) \in S
    PROVE  ClearAll \in Seq(S)
<1>1. FlattenSeq([a \in Axes |-> Do("clearAxis", a, TRUE)]) \in Seq(S)
    BY OneStepIn DEF ClearAxisOf
<1>2. Do("forget", 0, TRUE) \in Seq(S)
    BY DEF Do, ForgetAll
<1> QED BY <1>1, <1>2, Joined, LoopIs

\* The steps of these sets.
LEMMA StepsOfSets ==
    /\ \A a \in Nat : /\ Zero(a) \in Still /\ DriveOff(a) \in StopSteps /\ DriveOn(a) \in ReleaseSteps
                      /\ ClearAxisOf(a) \in ClearSteps /\ InBoundsOf(a) \in ClearSteps /\ DriveOn(a) \in ClearSteps
                      /\ DriveOff(a) \in ColdSteps /\ RangeOf(a) \in ColdSteps
                      /\ [f |-> "prepare", a |-> a, v |-> TRUE] \in ColdSteps
                      /\ [f |-> "update", a |-> a, v |-> TRUE] \in LoopSteps
    /\ FlagOn \in StopSteps /\ FlagOff \in ReleaseSteps /\ ForgetAll \in ClearSteps /\ OutsideError \in ColdSteps
    /\ [f |-> "gate", a |-> 0, v |-> TRUE] \in ColdSteps
    /\ Still \subseteq StopSteps /\ Still \subseteq ReleaseSteps /\ Still \subseteq ClearSteps
    /\ Still \subseteq UsbSteps /\ Still \subseteq ColdSteps
    /\ StopSteps \subseteq BootSteps /\ ColdSteps \subseteq LoopSteps
    /\ StopSteps \subseteq CommandSteps /\ ReleaseSteps \subseteq CommandSteps /\ ClearSteps \subseteq CommandSteps
<1>1. \A f, a, v, fs, vs : a \in Nat /\ f \in fs /\ v \in vs => [f |-> f, a |-> a, v |-> v] \in Of(fs, vs)
    BY DEF Of
<1>2. \A a \in Nat : /\ Zero(a) \in Of({"turn", "set"}, {FALSE})
                     /\ DriveOff(a) \in Of({"drive"}, {FALSE}) /\ DriveOff(a) \in Of({"drive", "addError"}, {FALSE})
                     /\ DriveOn(a) \in Of({"drive"}, {TRUE})
                     /\ {DriveOn(a), ClearAxisOf(a), InBoundsOf(a)} \subseteq Of({"drive", "clearAxis", "inBounds", "forget"}, {TRUE})
                     /\ RangeOf(a) \in Of({"prepare", "range", "gate"}, {TRUE})
                     /\ [f |-> "prepare", a |-> a, v |-> TRUE] \in Of({"prepare", "range", "gate"}, {TRUE})
                     /\ [f |-> "update", a |-> a, v |-> TRUE] \in Of({"update"}, {TRUE})
    BY DEF Of, Zero, DriveOff, DriveOn, ClearAxisOf, InBoundsOf, RangeOf
<1>3. /\ FlagOn \in Of({"flag"}, {TRUE}) /\ FlagOff \in Of({"flag"}, {FALSE})
      /\ ForgetAll \in Of({"drive", "clearAxis", "inBounds", "forget"}, {TRUE})
      /\ OutsideError \in Of({"drive", "addError"}, {FALSE})
      /\ [f |-> "gate", a |-> 0, v |-> TRUE] \in Of({"prepare", "range", "gate"}, {TRUE})
    BY DEF Of, FlagOn, FlagOff, ForgetAll, OutsideError
<1> HIDE DEF Of
<1> QED BY <1>2, <1>3 DEF Still, StopSteps, ReleaseSteps, ClearSteps, CommandSteps, UsbSteps, BootSteps,
                          ColdSteps, LoopSteps

LEMMA SetsAreSteps ==
    /\ StopSteps \subseteq AnyStep /\ ReleaseSteps \subseteq AnyStep /\ UsbSteps \subseteq AnyStep
    /\ CommandSteps \subseteq AnyStep /\ ClearSteps \subseteq AnyStep /\ BootSteps \subseteq AnyStep
    /\ ColdSteps \subseteq AnyStep /\ LoopSteps \subseteq AnyStep
BY DEF Still, StopSteps, ReleaseSteps, ClearSteps, CommandSteps, UsbSteps, BootSteps, ColdSteps, LoopSteps,
       Of, AnyStep, StepNames

LEMMA Follow ==
    ASSUME NEW a \in Nat
    PROVE  /\ {Zero(a), DriveOff(a), DriveOn(a), FlagOn, FlagOff, RangeOf(a), InBoundsOf(a), ClearAxisOf(a),
               ForgetAll, OutsideError} \subseteq AnyStep
           /\ Opens(Zero(a)) /\ Opens(DriveOn(a)) /\ Opens(FlagOn) /\ Opens(FlagOff) /\ Opens(ClearAxisOf(a))
           /\ Opens(OutsideError) /\ Opens(ForgetAll)
           /\ May(Zero(a), Zero(a)) /\ May(Zero(a), DriveOff(a)) /\ May(DriveOff(a), FlagOn)
           /\ May(Zero(a), DriveOn(a)) /\ May(DriveOn(a), Zero(a)) /\ May(Zero(a), FlagOff)
           /\ May(DriveOff(a), RangeOf(a)) /\ May(Zero(a), InBoundsOf(a))
           /\ "forget" \notin {Zero(a).f, DriveOff(a).f, DriveOn(a).f, FlagOn.f, FlagOff.f, RangeOf(a).f,
                               InBoundsOf(a).f, ClearAxisOf(a).f, OutsideError.f}
           /\ ~(Zero(a).f = "drive" /\ ~Zero(a).v)
<1>1. {Zero(a), DriveOff(a), DriveOn(a), FlagOn, FlagOff, RangeOf(a), InBoundsOf(a), ClearAxisOf(a),
       ForgetAll, OutsideError} \subseteq AnyStep
    BY DEF Zero, DriveOff, DriveOn, FlagOn, FlagOff, RangeOf, InBoundsOf, ClearAxisOf, ForgetAll, OutsideError,
           AnyStep, Of, StepNames
<1>2. /\ Opens(Zero(a)) /\ Opens(DriveOn(a)) /\ Opens(FlagOn) /\ Opens(FlagOff) /\ Opens(ClearAxisOf(a))
      /\ Opens(OutsideError) /\ Opens(ForgetAll)
    BY DEF Zero, DriveOn, FlagOn, FlagOff, ClearAxisOf, OutsideError, ForgetAll, Opens, AfterStop
<1>3. /\ May(Zero(a), Zero(a)) /\ May(Zero(a), DriveOff(a)) /\ May(DriveOff(a), FlagOn)
      /\ May(Zero(a), DriveOn(a)) /\ May(DriveOn(a), Zero(a)) /\ May(Zero(a), FlagOff)
      /\ May(DriveOff(a), RangeOf(a)) /\ May(Zero(a), InBoundsOf(a))
    BY DEF Zero, DriveOff, DriveOn, FlagOn, FlagOff, RangeOf, InBoundsOf, May
<1>4. /\ "forget" \notin {Zero(a).f, DriveOff(a).f, DriveOn(a).f, FlagOn.f, FlagOff.f, RangeOf(a).f,
                          InBoundsOf(a).f, ClearAxisOf(a).f, OutsideError.f}
      /\ ~(Zero(a).f = "drive" /\ ~Zero(a).v)
    BY DEF Zero, DriveOff, DriveOn, FlagOn, FlagOff, RangeOf, InBoundsOf, ClearAxisOf, OutsideError
<1> QED BY <1>1, <1>2, <1>3, <1>4


\* A stop and a reset, from the list of each axis on.
LEMMA StopFacts ==
    ASSUME scenario \in Scenarios
    PROVE  /\ EmergencyStop(FALSE) \in Seq(StopSteps) /\ EmergencyStop(FALSE) \in Calls
           /\ EmergencyStop(FALSE) \in Guarded /\ EmergencyStop(FALSE) # <<>>
           /\ Has(EmergencyStop(FALSE), FlagOn) /\ \A a \in Axes : Has(EmergencyStop(FALSE), DriveOff(a))
<1> DEFINE h == [a \in Axes |-> AxisEmergencyStop(a, FALSE)]
           G == Calls \intersect Guarded
<1>0. \A a \in Axes : a \in Nat
    BY StepIsAny
<1>1. ASSUME NEW a \in Axes
      PROVE  h[a] \in Seq(AnyStep) /\ h[a] \in G /\ Has(h[a], DriveOff(a)) /\ DriveOff(a) \in AnyStep
  <2>1. h[a] = <<Zero(a), Zero(a), DriveOff(a), FlagOn>>
    BY CallsOfAxis
  <2>2. /\ {Zero(a), DriveOff(a), FlagOn} \subseteq AnyStep /\ Opens(Zero(a))
        /\ May(Zero(a), Zero(a)) /\ May(Zero(a), DriveOff(a)) /\ May(DriveOff(a), FlagOn)
        /\ "forget" \notin {Zero(a).f, Zero(a).f, DriveOff(a).f, FlagOn.f}
        /\ ~(Zero(a).f = "drive" /\ ~Zero(a).v)
    BY <1>0, Follow
  <2>3. <<Zero(a), Zero(a), DriveOff(a), FlagOn>> \in Calls
    BY <2>2, ShortCalls
  <2>4. <<Zero(a), Zero(a), DriveOff(a), FlagOn>> \in Guarded
    BY <1>0, <2>2, GuardedLists
  <2>5. Has(<<Zero(a), Zero(a), DriveOff(a), FlagOn>>, DriveOff(a))
        /\ <<Zero(a), Zero(a), DriveOff(a), FlagOn>> \in Seq(AnyStep)
    BY <2>2, ShortLists
  <2> QED BY <2>1, <2>2, <2>3, <2>4, <2>5
<1>2. h \in [Axes -> Seq(AnyStep)]
    BY <1>1
<1>3. FlattenSeq(h) \in G
  <2>1. \A a \in Axes : h[a] \in G
    BY <1>1
  <2>2. \A s, t \in G : s \o t \in G
    BY CallsJoin, GuardJoin
  <2> HIDE DEF G, h
  <2> QED BY <1>2, <2>1, <2>2, EachAxisIn
<1>4. \A a \in Axes : Has(FlattenSeq(h), DriveOff(a))
  <2> HIDE DEF h
  <2> QED BY <1>1, <1>2, EachAxisHas
<1>5. EmergencyStop(FALSE) = <<FlagOn>> \o FlattenSeq(h)
    BY FlagSteps DEF EmergencyStop, OnEachAxis
<1>6. <<FlagOn>> \in Seq(AnyStep) /\ <<FlagOn>> \in Calls /\ <<FlagOn>> \in Guarded /\ Has(<<FlagOn>>, FlagOn)
  <2>1. FlagOn \in AnyStep /\ Opens(FlagOn) /\ FlagOn.f # "forget" /\ FlagOn.f # "drive"
    BY Follow DEF FlagOn
  <2>2. <<FlagOn>> \in Seq(AnyStep) /\ <<FlagOn>> \in Calls /\ Has(<<FlagOn>>, FlagOn)
    BY <2>1, ShortLists, ShortCalls
  <2>3. <<FlagOn>> \in Seq({FlagOn}) /\ {FlagOn} \subseteq AnyStep /\ \A s \in {FlagOn} : s.f = "drive" => s.v
    BY <2>1
  <2> QED BY <2>2, <2>3, GuardedLists
<1>7. FlattenSeq(h) \in Seq(AnyStep)
    BY <1>3 DEF Guarded
<1>8. EmergencyStop(FALSE) \in Seq(StopSteps)
  <2>1. FlagOn \in StopSteps /\ \A a \in Axes : Zero(a) \in StopSteps /\ DriveOff(a) \in StopSteps
    BY <1>0, StepsOfSets
  <2> QED BY <2>1, StopIn
<1>9. Has(EmergencyStop(FALSE), FlagOn) /\ \A a \in Axes : Has(EmergencyStop(FALSE), DriveOff(a))
    BY <1>4, <1>5, <1>6, <1>7, HasJoin
<1>10. EmergencyStop(FALSE) # <<>>
    BY <1>8, <1>9, HasIsIn
<1>11. EmergencyStop(FALSE) \in Calls /\ EmergencyStop(FALSE) \in Guarded
    BY <1>3, <1>5, <1>6, CallsJoin, GuardJoin
<1> QED BY <1>8, <1>9, <1>10, <1>11

LEMMA ResetFacts ==
    ASSUME scenario \in Scenarios
    PROVE  /\ EmergencyStop(TRUE) \in Seq(ReleaseSteps) /\ EmergencyStop(TRUE) \in Calls
           /\ EmergencyStop(TRUE) \in Guarded /\ EmergencyStop(TRUE) # <<>>
           /\ Head(EmergencyStop(TRUE)) = FlagOff /\ \A a \in Axes : Has(EmergencyStop(TRUE), DriveOn(a))
<1> DEFINE h == [a \in Axes |-> AxisEmergencyStop(a, TRUE)]
<1>0. \A a \in Axes : a \in Nat
    BY StepIsAny
<1>1. ASSUME NEW a \in Axes
      PROVE  h[a] \in Seq(AnyStep) /\ h[a] \in Calls /\ Has(h[a], DriveOn(a)) /\ DriveOn(a) \in AnyStep
  <2>1. h[a] = <<Zero(a), DriveOn(a), Zero(a), FlagOff>>
    BY CallsOfAxis
  <2>2. /\ {Zero(a), DriveOn(a), FlagOff} \subseteq AnyStep /\ Opens(Zero(a))
        /\ May(Zero(a), DriveOn(a)) /\ May(DriveOn(a), Zero(a)) /\ May(Zero(a), FlagOff)
        /\ "forget" \notin {Zero(a).f, DriveOn(a).f, Zero(a).f, FlagOff.f}
    BY <1>0, Follow
  <2>3. <<Zero(a), DriveOn(a), Zero(a), FlagOff>> \in Calls
    BY <2>2, ShortCalls
  <2>5. Has(<<Zero(a), DriveOn(a), Zero(a), FlagOff>>, DriveOn(a))
        /\ <<Zero(a), DriveOn(a), Zero(a), FlagOff>> \in Seq(AnyStep)
    BY <2>2, ShortLists
  <2> QED BY <2>1, <2>2, <2>3, <2>5
<1>2. h \in [Axes -> Seq(AnyStep)]
    BY <1>1
<1>3. FlattenSeq(h) \in Calls
  <2>1. \A a \in Axes : h[a] \in Calls
    BY <1>1
  <2> HIDE DEF h
  <2> QED BY <1>2, <2>1, CallsJoin, EachAxisIn
<1>4. \A a \in Axes : Has(FlattenSeq(h), DriveOn(a))
  <2> HIDE DEF h
  <2> QED BY <1>1, <1>2, EachAxisHas
<1>5. EmergencyStop(TRUE) = <<FlagOff>> \o FlattenSeq(h)
    BY FlagSteps DEF EmergencyStop, OnEachAxis
<1>6. FlagOff \in AnyStep /\ <<FlagOff>> \in Seq(AnyStep) /\ <<FlagOff>> \in Calls
  <2>1. FlagOff \in AnyStep /\ Opens(FlagOff) /\ FlagOff.f # "forget"
    BY Follow DEF FlagOff
  <2> QED BY <2>1, ShortLists, ShortCalls
<1>7. FlattenSeq(h) \in Seq(AnyStep)
    BY <1>3 DEF Calls, Chained
<1>8. EmergencyStop(TRUE) \in Seq(ReleaseSteps)
  <2>1. FlagOff \in ReleaseSteps /\ \A a \in Axes : Zero(a) \in ReleaseSteps /\ DriveOn(a) \in ReleaseSteps
    BY <1>0, StepsOfSets
  <2> QED BY <2>1, ResetIn
<1>9. \A a \in Axes : Has(EmergencyStop(TRUE), DriveOn(a))
    BY <1>4, <1>5, <1>6, <1>7, HasJoin
<1>10. EmergencyStop(TRUE) # <<>> /\ Head(EmergencyStop(TRUE)) = FlagOff
    BY <1>5, <1>6, <1>7, HeadOfJoin
<1>11. EmergencyStop(TRUE) \in Calls
    BY <1>3, <1>5, <1>6, CallsJoin
<1>12. EmergencyStop(TRUE) \in Guarded
  <2>1. ReleaseSteps \subseteq AnyStep /\ \A s \in ReleaseSteps : s.f = "drive" => s.v
    BY SetsAreSteps DEF ReleaseSteps, Still, Of
  <2> QED BY <1>8, <2>1, GuardedLists
<1> QED BY <1>8, <1>9, <1>10, <1>11, <1>12

LEMMA UsbFacts ==
    ASSUME scenario \in Scenarios
    PROVE  /\ SuspendAxes \in Seq(StopSteps) /\ SuspendAxes \in Seq(UsbSteps) /\ SuspendAxes \in Calls
           /\ \A a \in Axes : Has(SuspendAxes, DriveOff(a))
           /\ ResumeAxes \in Seq(ReleaseSteps) /\ ResumeAxes \in Seq(UsbSteps) /\ ResumeAxes \in Calls
           /\ \A a \in Axes : Has(ResumeAxes, DriveOn(a))
<1> DEFINE h == [a \in Axes |-> Turn(a, FALSE) \o StopMotor(a)]
           k == [a \in Axes |-> StartMotor(a)]
<1>0. \A a \in Axes : a \in Nat
    BY StepIsAny
<1>1. ASSUME NEW a \in Axes
      PROVE  /\ h[a] \in Seq(AnyStep) /\ h[a] \in Calls /\ Has(h[a], DriveOff(a)) /\ DriveOff(a) \in AnyStep
             /\ k[a] \in Seq(AnyStep) /\ k[a] \in Calls /\ Has(k[a], DriveOn(a)) /\ DriveOn(a) \in AnyStep
  <2>1. h[a] = <<Zero(a), Zero(a), DriveOff(a)>> /\ k[a] = <<DriveOn(a), Zero(a)>>
    BY CallsOfAxis
  <2>2. /\ {Zero(a), DriveOff(a), DriveOn(a)} \subseteq AnyStep /\ Opens(Zero(a)) /\ Opens(DriveOn(a))
        /\ May(Zero(a), Zero(a)) /\ May(Zero(a), DriveOff(a)) /\ May(DriveOn(a), Zero(a))
        /\ "forget" \notin {Zero(a).f, Zero(a).f, DriveOff(a).f, DriveOff(a).f}
        /\ "forget" \notin {DriveOn(a).f, Zero(a).f, Zero(a).f, Zero(a).f}
    BY <1>0, Follow
  <2>3. <<Zero(a), Zero(a), DriveOff(a)>> \in Calls
    BY <2>2, ShortCalls
  <2>4. <<DriveOn(a), Zero(a)>> \in Calls
    BY <2>2, ShortCalls
  <2>5. /\ Has(<<Zero(a), Zero(a), DriveOff(a)>>, DriveOff(a)) /\ <<Zero(a), Zero(a), DriveOff(a)>> \in Seq(AnyStep)
        /\ Has(<<DriveOn(a), Zero(a)>>, DriveOn(a)) /\ <<DriveOn(a), Zero(a)>> \in Seq(AnyStep)
    BY <2>2, ShortLists
  <2> QED BY <2>1, <2>2, <2>3, <2>4, <2>5
<1>2. h \in [Axes -> Seq(AnyStep)] /\ k \in [Axes -> Seq(AnyStep)]
    BY <1>1
<1>3. FlattenSeq(h) \in Calls /\ FlattenSeq(k) \in Calls
  <2>1. \A a \in Axes : h[a] \in Calls /\ k[a] \in Calls
    BY <1>1
  <2> HIDE DEF h, k
  <2> QED BY <1>2, <2>1, CallsJoin, EachAxisIn
<1>4. \A a \in Axes : Has(FlattenSeq(h), DriveOff(a)) /\ Has(FlattenSeq(k), DriveOn(a))
  <2> HIDE DEF h, k
  <2> QED BY <1>1, <1>2, EachAxisHas
<1>5. SuspendAxes = FlattenSeq(h) /\ ResumeAxes = FlattenSeq(k)
    BY DEF SuspendAxes, ResumeAxes, OnEachAxis
<1>6. /\ SuspendAxes \in Seq(StopSteps) /\ SuspendAxes \in Seq(UsbSteps)
      /\ ResumeAxes \in Seq(ReleaseSteps) /\ ResumeAxes \in Seq(UsbSteps)
  <2>1. \A a \in Axes : /\ Zero(a) \in StopSteps /\ Zero(a) \in UsbSteps /\ Zero(a) \in ReleaseSteps
                        /\ DriveOff(a) \in StopSteps /\ DriveOn(a) \in ReleaseSteps
    BY <1>0, StepsOfSets
  <2>2. \A a \in Axes : DriveOff(a) \in UsbSteps /\ DriveOn(a) \in UsbSteps
    BY <1>0 DEF DriveOff, DriveOn, UsbSteps, Of
  <2> QED BY <2>1, <2>2, SuspendIn, ResumeIn
<1> QED BY <1>3, <1>4, <1>5, <1>6

\* Calls of one step for each axis.
LEMMA OneStepFacts ==
    ASSUME scenario \in Scenarios, NEW f \in {"prepare", "update", "clearAxis"}
    PROVE  /\ FlattenSeq([a \in Axes |-> Do(f, a, TRUE)]) \in Calls
           /\ \A a \in Axes : Has(FlattenSeq([b \in Axes |-> Do(f, b, TRUE)]), [f |-> f, a |-> a, v |-> TRUE])
<1> DEFINE h == [a \in Axes |-> Do(f, a, TRUE)]
           s(a) == [f |-> f, a |-> a, v |-> TRUE]
<1>0. \A a \in Axes : a \in Nat
    BY StepIsAny
<1>1. ASSUME NEW a \in Axes PROVE h[a] \in Seq(AnyStep) /\ h[a] \in Calls /\ Has(h[a], s(a)) /\ s(a) \in AnyStep
  <2>1. s(a) \in AnyStep /\ Opens(s(a)) /\ s(a).f # "forget"
    BY <1>0 DEF AnyStep, Of, StepNames, Opens, AfterStop
  <2>2. h[a] = <<s(a)>>
    BY DEF Do
  <2> HIDE DEF s, h
  <2>3. <<s(a)>> \in Seq(AnyStep) /\ Has(<<s(a)>>, s(a))
    BY <2>1, ShortLists
  <2>4. <<s(a)>> \in Calls
    BY <2>1, ShortCalls
  <2> QED BY <2>1, <2>2, <2>3, <2>4
<1>2. h \in [Axes -> Seq(AnyStep)]
    BY <1>1
<1>3. FlattenSeq(h) \in Calls
  <2>1. \A a \in Axes : h[a] \in Calls
    BY <1>1
  <2> HIDE DEF h
  <2> QED BY <1>2, <2>1, CallsJoin, EachAxisIn
<1>4. \A a \in Axes : Has(FlattenSeq(h), s(a))
  <2> HIDE DEF h, s
  <2> QED BY <1>1, <1>2, EachAxisHas
<1> QED BY <1>3, <1>4

LEMMA LoopFacts ==
    ASSUME scenario \in Scenarios
    PROVE  /\ Loop \in Seq(ColdSteps) /\ Loop \in Calls
           /\ ClearAll \in Seq(ClearSteps) /\ ClearAll \in Chained /\ Begins(ClearAll)
           /\ \A a \in Axes : Has(ClearAll, ClearAxisOf(a))
<1> DEFINE P == FlattenSeq([a \in Axes |-> Do("prepare", a, TRUE)])
           C == FlattenSeq([a \in Axes |-> Do("clearAxis", a, TRUE)])
           gate == [f |-> "gate", a |-> 0, v |-> TRUE]
<1>0. \A a \in Axes : a \in Nat
    BY StepIsAny
<1>1. Loop \in Seq(ColdSteps) /\ ClearAll \in Seq(ClearSteps)
    BY <1>0, StepsOfSets, LoopIn, ClearIn
<1>2. P \in Calls /\ C \in Calls
    BY OneStepFacts
<1>3. Loop \in Calls
  <2>1. gate \in AnyStep /\ Opens(gate) /\ gate.f # "forget"
    BY DEF AnyStep, Of, StepNames, Opens, AfterStop
  <2>2. Do("gate", 0, TRUE) = <<gate>>
    BY DEF Do
  <2> HIDE DEF gate
  <2>3. <<gate>> \in Calls
    BY <2>1, ShortCalls
  <2> HIDE DEF P
  <2>4. Loop = P \o <<gate>>
    BY <2>2, LoopIs DEF P
  <2> QED BY <1>2, <2>3, <2>4, CallsJoin
<1>4. ClearAll = C \o <<ForgetAll>>
    BY LoopIs DEF Do, ForgetAll
<1>5. <<ForgetAll>> \in Chained /\ Begins(<<ForgetAll>>) /\ <<ForgetAll>> # <<>> /\ <<ForgetAll>>[1] = ForgetAll
  <2>1. ForgetAll \in AnyStep /\ Opens(ForgetAll)
    BY Follow
  <2>2. <<ForgetAll>> \in Seq(AnyStep) /\ Len(<<ForgetAll>>) = 1 /\ <<ForgetAll>>[1] = ForgetAll
    BY <2>1
  <2> QED BY <2>1, <2>2 DEF Chained, Begins
<1> HIDE DEF C
<1>6. /\ C \in Chained /\ C \in Seq(AnyStep) /\ <<ForgetAll>> \in Seq(AnyStep) /\ Begins(C)
      /\ \A i \in 1..Len(C) : C[i].f # "forget"
    BY <1>2, <1>5 DEF Calls, Chained
<1>7. ClearAll \in Chained
    BY <1>4, <1>5, <1>6, ChainJoin
<1>8. Begins(ClearAll)
  <2>1. CASE C = <<>>
    BY <1>4, <1>5, <1>6, <2>1, ConcatEmptySeq
  <2>2. CASE C # <<>>
    <3>1. ClearAll[1] = C[1]
        BY <1>4, <1>6, <2>2, ConcatProperties, LenProperties, EmptySeq
    <3> QED BY <1>6, <2>2, <3>1 DEF Begins
  <2> QED BY <2>1, <2>2
<1>9. ASSUME NEW a \in Axes PROVE Has(ClearAll, ClearAxisOf(a))
  <2>1. Has(C, ClearAxisOf(a))
    BY OneStepFacts DEF C, ClearAxisOf
  <2> QED BY <1>4, <1>6, <2>1, HasJoin
<1> QED BY <1>1, <1>3, <1>7, <1>8, <1>9
-----------------------------------------------------------------------------
(* Steps of the threads                                                    *)

\* Every list is a list of steps, in which stops follow zero torque.
ChainInv == todo \in [Thread -> Chained]

\* How a list changes.
Rest(t) == Tail(todo[t])
Others(t) == \A u \in Thread : u # t => todo'[u] = todo[u]

LEMMA TakeIs ==
    ASSUME ChainInv, NEW t \in Thread, NEW f, NEW steps, Take(t, f, steps)
    PROVE  /\ todo[t] \in Seq(AnyStep) /\ todo[t] \in Chained /\ todo[t] # <<>>
           /\ Head(todo[t]) \in AnyStep /\ Head(todo[t]).f = f
           /\ Rest(t) \in Seq(AnyStep) /\ Rest(t) \in Chained
           /\ todo'[t] = steps \o Rest(t) /\ Others(t) /\ Scheduled(t)
           /\ todo' = [todo EXCEPT ![t] = steps \o Rest(t)] /\ DOMAIN todo = Thread
<1>1. todo[t] \in Seq(AnyStep) /\ todo[t] \in Chained /\ DOMAIN todo = Thread
    BY DEF ChainInv, Chained
<1>2. todo[t] # <<>> /\ Head(todo[t]).f = f /\ Scheduled(t)
    BY DEF Take, At, Idle
<1>3. Head(todo[t]) \in AnyStep /\ Rest(t) \in Seq(AnyStep) /\ Rest(t) \in Chained
    BY <1>1, <1>2, ChainTail, HeadTailProperties DEF Rest
<1>4. /\ todo' = [todo EXCEPT ![t] = steps \o Rest(t)]
      /\ todo'[t] = steps \o Rest(t) /\ Others(t)
    BY <1>1 DEF Take, Rest, Others
<1> QED BY <1>1, <1>2, <1>3, <1>4

\* The value and the axis of the head are those of the step.
LEMMA HeadIs ==
    ASSUME NEW t, Head(todo[t]) \in AnyStep
    PROVE  /\ Axis(t) \in Nat /\ Value(t) \in BOOLEAN
           /\ Head(todo[t]) = [f |-> Head(todo[t]).f, a |-> Axis(t), v |-> Value(t)]
BY DEF AnyStep, Of, Axis, Value

LEMMA NoSteps ==
    ASSUME NEW S, NEW s \in Seq(S)
    PROVE  <<>> \o s = s
BY ConcatEmptySeq

LEMMA BeginIs ==
    ASSUME ChainInv, NEW t \in Thread, NEW steps, Begin(t, steps)
    PROVE  /\ todo[t] = <<>> /\ todo'[t] = steps /\ Others(t) /\ Scheduled(t)
           /\ todo' = [todo EXCEPT ![t] = steps] /\ DOMAIN todo = Thread
BY DEF ChainInv, Begin, Idle, Others

\* The first step of a list may be followed by what follows the taken one.
LEMMA ChainCons ==
    ASSUME NEW x \in AnyStep, NEW y \in Chained, y # <<>> => May(x, y[1])
    PROVE  <<x>> \o y \in Chained
<1>1. y \in Seq(AnyStep) /\ <<x>> \in Seq(AnyStep) /\ Len(<<x>>) = 1 /\ <<x>>[1] = x
    BY DEF Chained
<1>2. /\ <<x>> \o y \in Seq(AnyStep) /\ Len(<<x>> \o y) = 1 + Len(y) /\ Len(y) \in Nat
      /\ \A i \in 1..1 + Len(y) : (<<x>> \o y)[i] = IF i <= 1 THEN x ELSE y[i - 1]
    BY <1>1, ConcatProperties, LenProperties
<1>3. ASSUME NEW i \in 1..Len(<<x>> \o y) - 1 PROVE May((<<x>> \o y)[i], (<<x>> \o y)[i+1])
  <2>0. i \in 1..Len(y) /\ (<<x>> \o y)[i+1] = y[i]
    BY <1>2
  <2>1. CASE i = 1
    <3>1. y # <<>> /\ (<<x>> \o y)[i] = x
        BY <1>1, <1>2, <2>0, <2>1, EmptySeq
    <3> QED BY <2>0, <2>1, <3>1
  <2>2. CASE i # 1
    <3>1. i - 1 \in 1..Len(y) - 1 /\ (<<x>> \o y)[i] = y[i-1] /\ (i - 1) + 1 = i
        BY <1>2, <2>0, <2>2
    <3>2. May(y[i-1], y[(i-1)+1])
        BY <3>1 DEF Chained
    <3> QED BY <2>0, <3>1, <3>2
  <2> QED BY <2>1, <2>2
<1> QED BY <1>2, <1>3 DEF Chained

LEMMA RestBegins ==
    ASSUME ChainInv, NEW t \in Thread, NEW f, NEW steps, Take(t, f, steps),
           f \notin {"turn", "set", "drive"}
    PROVE  Begins(Rest(t))
<1>1. todo[t] \in Chained /\ todo[t] # <<>> /\ Head(todo[t]).f = f
    BY TakeIs
<1>2. Rest(t) # <<>> => May(Head(todo[t]), Rest(t)[1])
    BY <1>1, ChainTail DEF Rest
<1> QED BY <1>1, <1>2 DEF Begins, Opens, May, AfterStop

\* Calls that a step starts, before the rest of the list.
LEMMA TakeCalls ==
    ASSUME ChainInv, NEW t \in Thread, NEW f, NEW steps \in Calls, Take(t, f, steps),
           f \notin {"turn", "set", "drive"}
    PROVE  ChainInv'
<1>1. Begins(Rest(t)) /\ Rest(t) \in Chained
    BY RestBegins, TakeIs
<1>2. steps \o Rest(t) \in Chained
    BY <1>1, ChainJoin DEF Calls
<1>3. todo' = [todo EXCEPT ![t] = steps \o Rest(t)]
    BY TakeIs
<1> QED BY <1>2, <1>3 DEF ChainInv

LEMMA NoCalls == <<>> \in Calls /\ <<>> \in Chained
<1>1. <<>> \in Seq(AnyStep) /\ Len(<<>>) = 0
    BY EmptySeq
<1>2. <<>> \in Chained
    BY <1>1 DEF Chained
<1> QED BY <1>1, <1>2 DEF Calls, Begins

LEMMA TakeNothing ==
    ASSUME ChainInv, NEW t \in Thread, NEW f, Take(t, f, <<>>)
    PROVE  ChainInv' /\ todo'[t] = Rest(t)
<1>1. todo' = [todo EXCEPT ![t] = <<>> \o Rest(t)] /\ Rest(t) \in Chained /\ Rest(t) \in Seq(AnyStep)
      /\ todo'[t] = <<>> \o Rest(t)
    BY TakeIs
<1>2. <<>> \o Rest(t) = Rest(t)
    BY <1>1, NoSteps
<1> QED BY <1>1, <1>2 DEF ChainInv

LEMMA BeginCalls ==
    ASSUME ChainInv, NEW t \in Thread, NEW steps \in Chained, Begin(t, steps)
    PROVE  ChainInv'
BY BeginIs DEF ChainInv

\* A turn of an active motor becomes a write of the same torque.
LEMMA TurnIs ==
    ASSUME ChainInv, NEW t \in Thread, TurnMotor(t)
    PROVE  /\ Head(todo[t]) = [f |-> "turn", a |-> Axis(t), v |-> Value(t)]
           /\ \/ active[Axis(t)] /\ todo'[t] = <<[f |-> "set", a |-> Axis(t), v |-> Value(t)]>> \o Rest(t)
              \/ ~active[Axis(t)] /\ todo'[t] = Rest(t)
           /\ Take(t, "turn", IF active[Axis(t)] THEN Do("set", Axis(t), Value(t)) ELSE <<>>)
<1>1. Take(t, "turn", IF active[Axis(t)] THEN Do("set", Axis(t), Value(t)) ELSE <<>>)
    BY DEF TurnMotor
<1>2. /\ Head(todo[t]) \in AnyStep /\ Head(todo[t]).f = "turn" /\ Rest(t) \in Seq(AnyStep)
      /\ todo'[t] = (IF active[Axis(t)] THEN Do("set", Axis(t), Value(t)) ELSE <<>>) \o Rest(t)
    BY <1>1, TakeIs
<1>3. Head(todo[t]) = [f |-> "turn", a |-> Axis(t), v |-> Value(t)]
    BY <1>2, HeadIs
<1>4. CASE active[Axis(t)]
    BY <1>1, <1>2, <1>3, <1>4 DEF Do
<1>5. CASE ~active[Axis(t)]
  <2>1. todo'[t] = <<>> \o Rest(t)
    BY <1>2, <1>5
  <2>2. todo'[t] = Rest(t)
    BY <1>2, <2>1, NoSteps
  <2> QED BY <1>1, <1>3, <1>5, <2>2
<1> QED BY <1>4, <1>5

LEMMA TurnChained ==
    ASSUME ChainInv, NEW t \in Thread, TurnMotor(t)
    PROVE  ChainInv'
<1> DEFINE s == [f |-> "set", a |-> Axis(t), v |-> Value(t)]
<1>1. PICK steps : Take(t, "turn", steps)
    BY DEF TurnMotor
<1>2. /\ todo[t] \in Chained /\ todo[t] # <<>> /\ Head(todo[t]) \in AnyStep /\ Rest(t) \in Chained
      /\ todo' = [todo EXCEPT ![t] = steps \o Rest(t)] /\ todo'[t] = steps \o Rest(t)
    BY <1>1, TakeIs
<1>3. Rest(t) # <<>> => May(Head(todo[t]), Rest(t)[1])
    BY <1>2, ChainTail DEF Rest
<1>4. Head(todo[t]) = [f |-> "turn", a |-> Axis(t), v |-> Value(t)] /\ (todo'[t] = <<s>> \o Rest(t) \/ todo'[t] = Rest(t))
    BY TurnIs
<1>5. s \in AnyStep /\ (Rest(t) # <<>> => May(s, Rest(t)[1]))
  <2>1. Axis(t) \in Nat /\ Value(t) \in BOOLEAN
    BY <1>2, HeadIs
  <2> QED BY <1>3, <1>4, <2>1 DEF AnyStep, Of, StepNames, May
<1>6. <<s>> \o Rest(t) \in Chained
  <2> HIDE DEF s
  <2> QED BY <1>2, <1>5, ChainCons
<1>7. todo'[t] \in Chained
    BY <1>2, <1>4, <1>6
<1> QED BY <1>2, <1>7 DEF ChainInv

\* The update of one motor: at most one turn, then the rest.
LEMMA UpdateIs ==
    ASSUME ChainInv, UpdateDriveTorque
    PROVE  /\ Head(todo["ffb"]).f = "update"
           /\ \/ Take("ffb", "update", <<>>) /\ todo'["ffb"] = Rest("ffb")
              \/ \E v \in BOOLEAN :
                    /\ outOfBounds[Axis("ffb")] => ~v
                    /\ Take("ffb", "update", Turn(Axis("ffb"), v))
                    /\ todo'["ffb"] = <<[f |-> "turn", a |-> Axis("ffb"), v |-> v]>> \o Rest("ffb")
<1>1. At("ffb", "update") /\ "ffb" \in Thread
    BY DEF UpdateDriveTorque, Thread
<1>2. CASE Take("ffb", "update", <<>>)
    BY <1>1, <1>2, TakeNothing DEF At
<1>3. CASE \E v \in IF outOfBounds[Axis("ffb")] THEN {FALSE} ELSE BOOLEAN : Take("ffb", "update", Turn(Axis("ffb"), v))
  <2>1. PICK v \in BOOLEAN : (outOfBounds[Axis("ffb")] => ~v) /\ Take("ffb", "update", Turn(Axis("ffb"), v))
    BY <1>3
  <2>2. todo'["ffb"] = Turn(Axis("ffb"), v) \o Rest("ffb")
    BY <1>1, <2>1, TakeIs
  <2> QED BY <1>1, <2>1, <2>2 DEF At, Turn, Do
<1> QED BY <1>2, <1>3 DEF UpdateDriveTorque

LEMMA UpdateChained ==
    ASSUME ChainInv, UpdateDriveTorque
    PROVE  ChainInv'
<1>0. "ffb" \in Thread
    BY DEF Thread
<1>1. CASE Take("ffb", "update", <<>>)
    BY <1>0, <1>1, TakeNothing
<1>2. ASSUME NEW v \in BOOLEAN, Take("ffb", "update", Turn(Axis("ffb"), v)) PROVE ChainInv'
  <2> DEFINE s == [f |-> "turn", a |-> Axis("ffb"), v |-> v]
  <2>1. /\ todo' = [todo EXCEPT !["ffb"] = Turn(Axis("ffb"), v) \o Rest("ffb")] /\ Rest("ffb") \in Chained
        /\ Head(todo["ffb"]) \in AnyStep
    BY <1>0, <1>2, TakeIs
  <2>2. Begins(Rest("ffb"))
    BY <1>0, <1>2, RestBegins
  <2>3. s \in AnyStep /\ s.f = "turn"
    BY <2>1, HeadIs DEF AnyStep, Of, StepNames
  <2>4. Turn(Axis("ffb"), v) = <<s>>
    BY DEF Turn, Do
  <2> HIDE DEF s
  <2>5. Rest("ffb") # <<>> => May(s, Rest("ffb")[1])
    BY <2>2, <2>3 DEF Begins, Opens, AfterStop, May
  <2>6. <<s>> \o Rest("ffb") \in Chained
    BY <2>1, <2>3, <2>5, ChainCons
  <2> QED BY <2>1, <2>4, <2>6 DEF ChainInv
<1> QED BY <1>1, <1>2, UpdateIs

\* The single steps of calls.
LEMMA Singles ==
    ASSUME NEW a \in Nat
    PROVE  /\ Do("stamp", 0, TRUE) \in Calls /\ Do("unlatch", 0, TRUE) \in Calls
           /\ Do("boot", 0, TRUE) \in Calls
           /\ Do("addError", 0, FALSE) \in Calls /\ Do("addError", 0, TRUE) \in Calls
           /\ StopMotor(a) \o Do("range", a, TRUE) \in Calls
           /\ StartMotor(a) \o Do("inBounds", a, TRUE) \in Calls
<1>1. ASSUME NEW f \in {"stamp", "unlatch", "addError", "boot"}, NEW v \in BOOLEAN PROVE Do(f, 0, v) \in Calls
  <2> DEFINE s == [f |-> f, a |-> 0, v |-> v]
  <2>1. s \in AnyStep /\ Opens(s) /\ s.f # "forget"
    BY DEF AnyStep, Of, StepNames, Opens, AfterStop
  <2>2. Do(f, 0, v) = <<s>>
    BY DEF Do
  <2> HIDE DEF s
  <2> QED BY <2>1, <2>2, ShortCalls
<1>2. StopMotor(a) \o Do("range", a, TRUE) \in Calls
  <2>1. /\ {Zero(a), DriveOff(a), RangeOf(a)} \subseteq AnyStep /\ Opens(Zero(a))
        /\ May(Zero(a), DriveOff(a)) /\ May(DriveOff(a), RangeOf(a))
        /\ "forget" \notin {Zero(a).f, DriveOff(a).f, RangeOf(a).f, RangeOf(a).f}
    BY Follow
  <2>2. <<Zero(a), DriveOff(a), RangeOf(a)>> \in Calls
    BY <2>1, ShortCalls
  <2> QED BY <2>2, CallsOfAxis
<1>3. StartMotor(a) \o Do("inBounds", a, TRUE) \in Calls
  <2>1. /\ {Zero(a), DriveOn(a), InBoundsOf(a)} \subseteq AnyStep /\ Opens(DriveOn(a))
        /\ May(DriveOn(a), Zero(a)) /\ May(Zero(a), InBoundsOf(a))
        /\ "forget" \notin {DriveOn(a).f, Zero(a).f, InBoundsOf(a).f, InBoundsOf(a).f}
    BY Follow
  <2>2. <<DriveOn(a), Zero(a), InBoundsOf(a)>> \in Calls
    BY <2>1, ShortCalls
  <2> QED BY <2>2, CallsOfAxis
<1> QED BY <1>1, <1>2, <1>3

LEMMA GateCalls ==
    ASSUME scenario \in Scenarios
    PROVE  LET update(a) == Do("update", a, TRUE) IN OnEachAxis(update) = FlattenSeq([a \in Axes |-> Do("update", a, TRUE)])
BY DEF OnEachAxis

LEMMA ChainStep ==
    ASSUME scenario \in Scenarios, ChainInv, [Next]_vars
    PROVE  ChainInv'
<1>0. /\ "ffb" \in Thread /\ "cmd" \in Thread /\ "usb" \in Thread /\ "exti" \in Thread /\ "drv" \in Thread
    BY DEF Thread
<1>1. ASSUME NEW t \in Thread, Steps(t) PROVE ChainInv'
  <2>1. CASE SetFlag(t)
    BY <2>1, TakeNothing DEF SetFlag
  <2>2. CASE TurnMotor(t)
    BY <2>2, TurnChained
  <2>3. CASE SetTorque(t)
    BY <2>3, TakeNothing DEF SetTorque
  <2>4. CASE Drive(t)
    BY <2>4, TakeNothing DEF Drive
  <2>5. CASE AddError(t)
    <3>1. PICK steps \in {RaisedCritical, <<>>} : Take(t, "addError", steps)
        BY <2>5 DEF AddError
    <3>2. steps \in Calls
        BY ResetFacts, NoCalls DEF RaisedCritical
    <3> QED BY <3>1, <3>2, TakeCalls
  <2> QED BY <1>1, <2>1, <2>2, <2>3, <2>4, <2>5 DEF Steps
<1>2. CASE Boot
  <2>1. PICK steps \in {EmergencyStop(FALSE) \o Do("stamp", 0, TRUE), <<>>} : Take("ffb", "boot", steps)
    BY <1>2 DEF Boot
  <2>2. steps \in Calls
    BY StopFacts, Singles, CallsJoin, NoCalls
  <2> QED BY <1>0, <2>1, <2>2, TakeCalls
<1>3. CASE Stamp
    BY <1>0, <1>3, TakeNothing DEF Stamp
<1>4. CASE UpdateControl
    BY <1>0, <1>4, LoopFacts, BeginCalls DEF UpdateControl, Calls
<1>5. CASE Prepare
  <2>1. PICK steps \in {StopMotor(Axis("ffb")) \o Do("range", Axis("ffb"), TRUE), <<>>} : Take("ffb", "prepare", steps)
    BY <1>5 DEF Prepare, PrepareForUpdate
  <2>2. Axis("ffb") \in Nat
    BY <1>0, <2>1, TakeIs, HeadIs
  <2>3. steps \in Calls
    BY <2>2, Singles, NoCalls
  <2> QED BY <1>0, <2>1, <2>3, TakeCalls
<1>6. CASE LeaveRange
  <2>1. PICK steps \in {Do("addError", 0, FALSE), <<>>} : Take("ffb", "range", steps)
    BY <1>6 DEF LeaveRange
  <2>2. steps \in Calls
    BY Singles, NoCalls
  <2> QED BY <1>0, <2>1, <2>2, TakeCalls
<1>7. CASE Gate
  <2>1. PICK steps \in {FlattenSeq([a \in Axes |-> Do("update", a, TRUE)]), <<>>} : Take("ffb", "gate", steps)
    BY <1>7, GateCalls DEF Gate
  <2>2. steps \in Calls
    BY OneStepFacts, NoCalls
  <2> QED BY <1>0, <2>1, <2>2, TakeCalls
<1>8. CASE UpdateDriveTorque
    BY <1>8, UpdateChained
<1>9. CASE Exti
  <2>1. PICK steps \in {EmergencyStop(TRUE), EmergencyStop(FALSE), <<>>} : Begin("exti", steps)
    <3>1. CASE pressed
        BY <1>9, <3>1 DEF Exti
    <3>2. CASE ~pressed
        BY <1>9, <3>2 DEF Exti
    <3> QED BY <3>1, <3>2
  <2>2. steps \in Chained
    BY StopFacts, ResetFacts, NoCalls DEF Calls
  <2> QED BY <1>0, <2>1, <2>2, BeginCalls
<1>10. ASSUME NEW on \in BOOLEAN, EstopCommand(on) PROVE ChainInv'
  <2>1. PICK p \in {Do("unlatch", 0, TRUE), <<>>}, e \in {EmergencyStop(TRUE), EmergencyStop(FALSE)} : Begin("cmd", p \o e)
    <3>1. CASE on
        BY <1>10, <3>1 DEF EstopCommand
    <3>2. CASE ~on
        BY <1>10, <3>2 DEF EstopCommand
    <3> QED BY <3>1, <3>2
  <2>2. p \in Calls /\ e \in Calls
    BY StopFacts, ResetFacts, Singles, NoCalls
  <2>3. p \o e \in Chained
    BY <2>2, CallsJoin DEF Calls
  <2> QED BY <1>0, <2>1, <2>3, BeginCalls
<1>11. ASSUME NEW a \in Axes, SetDrvType(a) PROVE ChainInv'
    BY <1>0, <1>11, NoCalls, BeginCalls DEF SetDrvType
<1>12. CASE CriticalError
    BY <1>0, <1>12, Singles, BeginCalls DEF CriticalError, Calls
<1>13. CASE ClearErrors
    BY <1>0, <1>13, LoopFacts, BeginCalls DEF ClearErrors
<1>14. CASE ClearAxis
  <2>1. PICK steps \in {StartMotor(Axis("cmd")) \o Do("inBounds", Axis("cmd"), TRUE), <<>>} : Take("cmd", "clearAxis", steps)
    BY <1>14 DEF ClearAxis
  <2>2. Axis("cmd") \in Nat
    BY <1>0, <2>1, TakeIs, HeadIs
  <2>3. steps \in Calls
    BY <2>2, Singles, NoCalls
  <2> QED BY <1>0, <2>1, <2>3, TakeCalls
<1>15. CASE Unlatch \/ InBounds \/ Forget
  <2>1. PICK f : Take("cmd", f, <<>>)
    BY <1>15 DEF Unlatch, InBounds, Forget
  <2> QED BY <1>0, <2>1, TakeNothing
<1>16. ASSUME NEW to, UsbSuspend(to) PROVE ChainInv'
  <2>1. PICK steps \in {SuspendAxes, <<>>} : Begin("usb", steps)
    BY <1>16 DEF UsbSuspend
  <2>2. steps \in Chained
    BY UsbFacts, NoCalls DEF Calls
  <2> QED BY <1>0, <2>1, <2>2, BeginCalls
<1>17. CASE UsbResume
    BY <1>0, <1>17, UsbFacts, BeginCalls DEF UsbResume, Calls
<1>18. CASE UNCHANGED todo
    BY <1>18 DEF ChainInv
<1>19. (PushButton \/ SecondPasses \/ Connect \/ UNCHANGED vars \/ \E a \in Axes : TurnAxis(a)) => UNCHANGED todo
    BY DEF PushButton, SecondPasses, Connect, TurnAxis, vars
<1> QED BY <1>1, <1>2, <1>3, <1>4, <1>5, <1>6, <1>7, <1>8, <1>9, <1>10, <1>11, <1>12, <1>13, <1>14, <1>15,
           <1>16, <1>17, <1>18, <1>19 DEF Next, Act
-----------------------------------------------------------------------------
(* Types                                                                   *)

TypedLists == \A t \in Thread : todo[t] \in Seq(Step)
TypedRest ==
    /\ scenario \in Scenarios
    /\ {emergency, usbDisabled, recent, pressed, edge, latched} \subseteq BOOLEAN
    /\ {active, torque, outOfBounds, far} \subseteq [Axes -> BOOLEAN]
    /\ errors \subseteq Error
    /\ host \in Host

LEMMA TypeParts ==
    ChainInv => (TypeOK <=> TypedLists /\ TypedRest /\ restarted \subseteq Axes)
BY DEF ChainInv, TypeOK, TypedLists, TypedRest

LEMMA StepsTyped ==
    ASSUME scenario \in Scenarios
    PROVE  /\ \A a \in Axes : /\ Zero(a) \in Step /\ DriveOn(a) \in Step /\ DriveOff(a) \in Step
                              /\ InBoundsOf(a) \in Step /\ RangeOf(a) \in Step /\ ClearAxisOf(a) \in Step
           /\ FlagOn \in Step /\ FlagOff \in Step /\ ForgetAll \in Step
           /\ \A f \in StepNames, a \in Axes \union {0}, v \in BOOLEAN : [f |-> f, a |-> a, v |-> v] \in Step
BY DEF Zero, DriveOn, DriveOff, InBoundsOf, RangeOf, ClearAxisOf, FlagOn, FlagOff, ForgetAll, Step, StepNames

LEMMA TakeTyped ==
    ASSUME ChainInv, TypedLists, NEW t \in Thread, NEW f, NEW steps \in Seq(Step), Take(t, f, steps)
    PROVE  \A u \in Thread : todo'[u] \in Seq(Step)
<1>1. todo[t] \in Seq(Step) /\ todo[t] # <<>> /\ todo'[t] = steps \o Rest(t) /\ Others(t)
    BY TakeIs DEF TypedLists
<1>2. Rest(t) \in Seq(Step)
    BY <1>1, HeadTailProperties DEF Rest
<1>3. steps \o Rest(t) \in Seq(Step)
    BY <1>2, Joined
<1> QED BY <1>1, <1>3 DEF Others, TypedLists

LEMMA BeginTyped ==
    ASSUME ChainInv, TypedLists, NEW t \in Thread, NEW steps \in Seq(Step), Begin(t, steps)
    PROVE  \A u \in Thread : todo'[u] \in Seq(Step)
BY BeginIs DEF TypedLists, Others

LEMMA HeadTyped ==
    ASSUME ChainInv, TypedLists, NEW t \in Thread, todo[t] # <<>>
    PROVE  Head(todo[t]) \in Step /\ Axis(t) \in Axes \union {0} /\ Value(t) \in BOOLEAN
<1>1. Head(todo[t]) \in Step
    BY HeadTailProperties DEF TypedLists
<1> QED BY <1>1 DEF Step, Axis, Value

LEMMA CallsTyped ==
    ASSUME scenario \in Scenarios
    PROVE  /\ EmergencyStop(FALSE) \in Seq(Step) /\ EmergencyStop(TRUE) \in Seq(Step)
           /\ SuspendAxes \in Seq(Step) /\ ResumeAxes \in Seq(Step)
           /\ Loop \in Seq(Step) /\ ClearAll \in Seq(Step) /\ <<>> \in Seq(Step)
           /\ FlattenSeq([a \in Axes |-> Do("update", a, TRUE)]) \in Seq(Step)
           /\ \A f \in StepNames, a \in Axes \union {0}, v \in BOOLEAN : Do(f, a, v) \in Seq(Step)
<1>1. EmergencyStop(FALSE) \in Seq(Step) /\ EmergencyStop(TRUE) \in Seq(Step)
    BY StepsTyped, StopIn, ResetIn
<1>2. SuspendAxes \in Seq(Step) /\ ResumeAxes \in Seq(Step)
    BY StepsTyped, SuspendIn, ResumeIn
<1>3. Loop \in Seq(Step)
  <2>1. [f |-> "gate", a |-> 0, v |-> TRUE] \in Step /\ \A a \in Axes : [f |-> "prepare", a |-> a, v |-> TRUE] \in Step
    BY DEF Step, StepNames
  <2> QED BY <2>1, LoopIn
<1>4. ClearAll \in Seq(Step)
    BY StepsTyped, ClearIn
<1>5. FlattenSeq([a \in Axes |-> Do("update", a, TRUE)]) \in Seq(Step)
  <2>1. \A a \in Axes : [f |-> "update", a |-> a, v |-> TRUE] \in Step
    BY DEF Step, StepNames
  <2> QED BY <2>1, OneStepIn
<1>6. ASSUME NEW f \in StepNames, NEW a \in Axes \union {0}, NEW v \in BOOLEAN PROVE Do(f, a, v) \in Seq(Step)
    BY DEF Do, Step
<1> QED BY <1>1, <1>2, <1>3, <1>4, <1>5, <1>6, EmptySeq

LEMMA TypeStepLists ==
    ASSUME TypedLists, TypedRest, ChainInv, [Next]_vars
    PROVE  \A u \in Thread : todo'[u] \in Seq(Step)
<1>0. /\ "ffb" \in Thread /\ "cmd" \in Thread /\ "usb" \in Thread /\ "exti" \in Thread /\ "drv" \in Thread
      /\ scenario \in Scenarios
    BY DEF Thread, TypedRest
<1>1. ASSUME NEW t \in Thread, Steps(t) PROVE \A u \in Thread : todo'[u] \in Seq(Step)
  <2>1. CASE SetFlag(t) \/ SetTorque(t) \/ Drive(t)
    <3>1. PICK f : Take(t, f, <<>>)
        BY <2>1 DEF SetFlag, SetTorque, Drive
    <3> QED BY <1>0, <3>1, CallsTyped, TakeTyped
  <2>2. CASE TurnMotor(t)
    <3>1. PICK steps \in {Do("set", Axis(t), Value(t)), <<>>} : Take(t, "turn", steps)
        BY <2>2 DEF TurnMotor
    <3>2. Axis(t) \in Axes \union {0} /\ Value(t) \in BOOLEAN
        BY <3>1, TakeIs, HeadTyped
    <3>3. steps \in Seq(Step)
        BY <1>0, <3>2, CallsTyped DEF StepNames
    <3> QED BY <3>1, <3>3, TakeTyped
  <2>3. CASE AddError(t)
    <3>1. PICK steps \in {RaisedCritical, <<>>} : Take(t, "addError", steps)
        BY <2>3 DEF AddError
    <3>2. steps \in Seq(Step)
        BY <1>0, CallsTyped DEF RaisedCritical
    <3> QED BY <3>1, <3>2, TakeTyped
  <2> QED BY <1>1, <2>1, <2>2, <2>3 DEF Steps
<1>2. CASE Boot
  <2>1. PICK steps \in {EmergencyStop(FALSE) \o Do("stamp", 0, TRUE), <<>>} : Take("ffb", "boot", steps)
    BY <1>2 DEF Boot
  <2>2. Do("stamp", 0, TRUE) \in Seq(Step)
    BY <1>0, CallsTyped DEF StepNames
  <2>3. steps \in Seq(Step)
    BY <1>0, <2>2, CallsTyped, Joined
  <2> QED BY <1>0, <2>1, <2>3, TakeTyped
<1>3. CASE Stamp \/ Unlatch \/ InBounds \/ Forget
  <2>1. PICK t \in Thread : \E f : Take(t, f, <<>>)
    BY <1>0, <1>3 DEF Stamp, Unlatch, InBounds, Forget
  <2> QED BY <1>0, <2>1, CallsTyped, TakeTyped
<1>4. CASE UpdateControl
    BY <1>0, <1>4, CallsTyped, BeginTyped DEF UpdateControl
<1>5. CASE Prepare
  <2>1. PICK steps \in {StopMotor(Axis("ffb")) \o Do("range", Axis("ffb"), TRUE), <<>>} : Take("ffb", "prepare", steps)
    BY <1>5 DEF Prepare, PrepareForUpdate
  <2>2. Axis("ffb") \in Axes \union {0}
    BY <1>0, <2>1, TakeIs, HeadTyped
  <2>3. Do("range", Axis("ffb"), TRUE) \in Seq(Step) /\ Do("turn", Axis("ffb"), FALSE) \in Seq(Step)
        /\ Do("drive", Axis("ffb"), FALSE) \in Seq(Step)
    BY <1>0, <2>2, CallsTyped DEF StepNames
  <2>4. StopMotor(Axis("ffb")) \o Do("range", Axis("ffb"), TRUE) \in Seq(Step)
    BY <2>3, Joined DEF StopMotor, Turn
  <2> QED BY <1>0, <2>1, <2>4, CallsTyped, TakeTyped
<1>6. CASE LeaveRange
  <2>1. PICK steps \in {Do("addError", 0, FALSE), <<>>} : Take("ffb", "range", steps)
    BY <1>6 DEF LeaveRange
  <2>2. steps \in Seq(Step)
    BY <1>0, CallsTyped DEF StepNames
  <2> QED BY <1>0, <2>1, <2>2, TakeTyped
<1>7. CASE Gate
  <2>1. PICK steps \in {FlattenSeq([a \in Axes |-> Do("update", a, TRUE)]), <<>>} : Take("ffb", "gate", steps)
    BY <1>0, <1>7, GateCalls DEF Gate
  <2>2. steps \in Seq(Step)
    BY <1>0, CallsTyped
  <2> QED BY <1>0, <2>1, <2>2, TakeTyped
<1>8. CASE UpdateDriveTorque
  <2>1. PICK steps \in {Turn(Axis("ffb"), FALSE), Turn(Axis("ffb"), TRUE), <<>>} : Take("ffb", "update", steps)
    <3>1. CASE Take("ffb", "update", <<>>)
        BY <3>1
    <3>2. ASSUME NEW v \in BOOLEAN, Take("ffb", "update", Turn(Axis("ffb"), v))
          PROVE  Take("ffb", "update", Turn(Axis("ffb"), FALSE)) \/ Take("ffb", "update", Turn(Axis("ffb"), TRUE))
      <4>1. v = FALSE \/ v = TRUE
        OBVIOUS
      <4> QED BY <3>2, <4>1
    <3> QED BY <1>8, <3>1, <3>2, UpdateIs
  <2>2. Axis("ffb") \in Axes \union {0}
    BY <1>0, <2>1, TakeIs, HeadTyped
  <2>3. Turn(Axis("ffb"), FALSE) \in Seq(Step) /\ Turn(Axis("ffb"), TRUE) \in Seq(Step)
    BY <1>0, <2>2, CallsTyped DEF StepNames, Turn
  <2> QED BY <1>0, <2>1, <2>3, CallsTyped, TakeTyped
<1>9. CASE Exti
  <2>1. PICK steps \in {EmergencyStop(TRUE), EmergencyStop(FALSE), <<>>} : Begin("exti", steps)
    <3>1. CASE pressed
        BY <1>9, <3>1 DEF Exti
    <3>2. CASE ~pressed
        BY <1>9, <3>2 DEF Exti
    <3> QED BY <3>1, <3>2
  <2> QED BY <1>0, <2>1, CallsTyped, BeginTyped
<1>10. ASSUME NEW on \in BOOLEAN, EstopCommand(on) PROVE \A u \in Thread : todo'[u] \in Seq(Step)
  <2>1. PICK p \in {Do("unlatch", 0, TRUE), <<>>}, e \in {EmergencyStop(TRUE), EmergencyStop(FALSE)} : Begin("cmd", p \o e)
    <3>1. CASE on
        BY <1>10, <3>1 DEF EstopCommand
    <3>2. CASE ~on
        BY <1>10, <3>2 DEF EstopCommand
    <3> QED BY <3>1, <3>2
  <2>2. p \in Seq(Step) /\ e \in Seq(Step)
    BY <1>0, CallsTyped DEF StepNames
  <2>3. p \o e \in Seq(Step)
    BY <2>2, Joined
  <2> QED BY <1>0, <2>1, <2>3, BeginTyped
<1>11. ASSUME NEW a \in Axes, SetDrvType(a) PROVE \A u \in Thread : todo'[u] \in Seq(Step)
    BY <1>0, <1>11, CallsTyped, BeginTyped DEF SetDrvType
<1>12. CASE CriticalError
  <2>1. Do("addError", 0, TRUE) \in Seq(Step)
    BY <1>0, CallsTyped DEF StepNames
  <2> QED BY <1>0, <1>12, <2>1, BeginTyped DEF CriticalError
<1>13. CASE ClearErrors
    BY <1>0, <1>13, CallsTyped, BeginTyped DEF ClearErrors
<1>14. CASE ClearAxis
  <2>1. PICK steps \in {StartMotor(Axis("cmd")) \o Do("inBounds", Axis("cmd"), TRUE), <<>>} : Take("cmd", "clearAxis", steps)
    BY <1>14 DEF ClearAxis
  <2>2. Axis("cmd") \in Axes \union {0}
    BY <1>0, <2>1, TakeIs, HeadTyped
  <2>3. Do("inBounds", Axis("cmd"), TRUE) \in Seq(Step) /\ Do("turn", Axis("cmd"), FALSE) \in Seq(Step)
        /\ Do("drive", Axis("cmd"), TRUE) \in Seq(Step)
    BY <1>0, <2>2, CallsTyped DEF StepNames
  <2>4. StartMotor(Axis("cmd")) \o Do("inBounds", Axis("cmd"), TRUE) \in Seq(Step)
    BY <2>3, Joined DEF StartMotor, Turn
  <2> QED BY <1>0, <2>1, <2>4, CallsTyped, TakeTyped
<1>16. ASSUME NEW to, UsbSuspend(to) PROVE \A u \in Thread : todo'[u] \in Seq(Step)
  <2>1. PICK steps \in {SuspendAxes, <<>>} : Begin("usb", steps)
    BY <1>16 DEF UsbSuspend
  <2> QED BY <1>0, <2>1, CallsTyped, BeginTyped
<1>17. CASE UsbResume
    BY <1>0, <1>17, CallsTyped, BeginTyped DEF UsbResume
<1>18. CASE UNCHANGED todo
    BY <1>18 DEF TypedLists
<1>19. (PushButton \/ SecondPasses \/ Connect \/ UNCHANGED vars \/ \E a \in Axes : TurnAxis(a)) => UNCHANGED todo
    BY DEF PushButton, SecondPasses, Connect, TurnAxis, vars
<1> QED BY <1>1, <1>2, <1>3, <1>4, <1>5, <1>6, <1>7, <1>8, <1>9, <1>10, <1>11, <1>12, <1>13, <1>14,
           <1>16, <1>17, <1>18, <1>19 DEF Next, Act

LEMMA TypeStepRest ==
    ASSUME TypedLists, TypedRest, ChainInv, [Next]_vars
    PROVE  TypedRest'
<1>0. /\ scenario \in Scenarios /\ emergency \in BOOLEAN /\ usbDisabled \in BOOLEAN /\ recent \in BOOLEAN
      /\ pressed \in BOOLEAN /\ edge \in BOOLEAN /\ latched \in BOOLEAN
      /\ active \in [Axes -> BOOLEAN] /\ torque \in [Axes -> BOOLEAN] /\ outOfBounds \in [Axes -> BOOLEAN]
      /\ far \in [Axes -> BOOLEAN] /\ errors \subseteq Error /\ host \in Host
    BY DEF TypedRest
<1>1. scenario' = scenario /\ Axes' = Axes
    BY DEF Next, vars, Axes
<1>2. CASE UNCHANGED vars
    BY <1>0, <1>1, <1>2 DEF TypedRest, vars
<1>3. ASSUME NEW t \in Thread, Steps(t)
      PROVE  /\ UNCHANGED <<usbDisabled, recent, pressed, edge, far, host, latched, outOfBounds>>
             /\ emergency' \in BOOLEAN /\ active' \in [Axes -> BOOLEAN] /\ torque' \in [Axes -> BOOLEAN]
             /\ errors' \subseteq Error
  <2>1. PICK f, steps : Take(t, f, steps)
    BY <1>3 DEF Steps, SetFlag, TurnMotor, SetTorque, Drive, AddError
  <2>2. Value(t) \in BOOLEAN
    BY <2>1, TakeIs, HeadTyped
  <2>3. CASE SetFlag(t)
    BY <1>0, <2>2, <2>3 DEF SetFlag, motors, outside
  <2>4. CASE TurnMotor(t)
    BY <1>0, <2>4 DEF TurnMotor, control, motors, outside
  <2>5. CASE SetTorque(t)
    BY <1>0, <2>2, <2>5 DEF SetTorque, control, outside
  <2>6. CASE Drive(t)
    BY <1>0, <2>2, <2>6 DEF Drive, control, outside
  <2>7. CASE AddError(t)
    BY <1>0, <2>7 DEF AddError, control, motors, outside, Error
  <2> QED BY <1>3, <2>3, <2>4, <2>5, <2>6, <2>7 DEF Steps
<1>4. CASE Boot \/ Stamp \/ UpdateControl \/ LeaveRange \/ Gate \/ UpdateDriveTorque
    BY <1>0, <1>1, <1>4 DEF TypedRest, Boot, Stamp, UpdateControl, LeaveRange, Gate, UpdateDriveTorque, control, motors, outside
<1>5. CASE Prepare
    BY <1>0, <1>1, <1>5 DEF TypedRest, Prepare, PrepareForUpdate, control, outside
<1>6. CASE PushButton \/ Exti \/ SecondPasses \/ Unlatch \/ CriticalError \/ ClearErrors \/ ClearAxis
    BY <1>0, <1>1, <1>6 DEF TypedRest, PushButton, Exti, SecondPasses, Unlatch, CriticalError, ClearErrors, ClearAxis,
                      control, motors, outside
<1>7. CASE InBounds \/ Forget \/ Connect \/ UsbResume
    BY <1>0, <1>1, <1>7 DEF TypedRest, InBounds, Forget, Connect, UsbResume, control, motors, outside, Host
<1>8. ASSUME NEW on \in BOOLEAN, EstopCommand(on)
      PROVE  UNCHANGED <<control, motors, errors, recent, outside, latched>>
    BY <1>8 DEF EstopCommand
<1>9. ASSUME NEW a \in Axes, SetDrvType(a)
      PROVE  /\ UNCHANGED <<emergency, outOfBounds, errors, recent, outside, latched>>
             /\ active' \in [Axes -> BOOLEAN] /\ torque' \in [Axes -> BOOLEAN] /\ usbDisabled' \in BOOLEAN
    BY <1>0, <1>9 DEF SetDrvType
<1>10. ASSUME NEW a \in Axes, TurnAxis(a)
      PROVE  /\ UNCHANGED <<control, motors, errors, recent, pressed, edge, host, latched>>
             /\ far' \in [Axes -> BOOLEAN]
    BY <1>0, <1>10 DEF TurnAxis
<1>11. ASSUME NEW to \in {"absent", "suspended"}, UsbSuspend(to)
      PROVE  /\ UNCHANGED <<emergency, motors, errors, recent, pressed, edge, far, latched>>
             /\ usbDisabled' \in BOOLEAN /\ host' \in Host
    BY <1>0, <1>11 DEF UsbSuspend, Host
<1>12. ASSUME NEW on \in BOOLEAN, EstopCommand(on) PROVE TypedRest'
    BY <1>0, <1>1, <1>8, <1>12 DEF control, motors, outside, TypedRest
<1>13. ASSUME NEW a \in Axes, SetDrvType(a) PROVE TypedRest'
    BY <1>0, <1>1, <1>9, <1>13 DEF outside, TypedRest
<1>14. ASSUME NEW a \in Axes, TurnAxis(a) PROVE TypedRest'
    BY <1>0, <1>1, <1>10, <1>14 DEF control, motors, TypedRest
<1>15. ASSUME NEW to \in {"absent", "suspended"}, UsbSuspend(to) PROVE TypedRest'
    BY <1>0, <1>1, <1>11, <1>15 DEF motors, TypedRest
<1>16. ASSUME NEW t \in Thread, Steps(t) PROVE TypedRest'
    BY <1>0, <1>1, <1>3, <1>16 DEF TypedRest
<1> HIDE DEF TypedRest
<1> QED BY <1>0, <1>1, <1>2, <1>4, <1>5, <1>6, <1>7, <1>12, <1>13, <1>14, <1>15, <1>16 DEF Next, Act

LEMMA TypeInit == Init => TypedLists /\ TypedRest /\ ChainInv
<1> SUFFICES ASSUME Init PROVE TypedLists /\ TypedRest /\ ChainInv
    OBVIOUS
<1>1. scenario \in Scenarios
    BY DEF Init
<1>2. Do("boot", 0, TRUE) \in Seq(Step) /\ <<>> \in Seq(Step)
    BY <1>1, CallsTyped DEF StepNames
<1>3. Do("boot", 0, TRUE) \in Chained /\ <<>> \in Chained
  <2>1. 0 \in Nat
    OBVIOUS
  <2> QED BY <2>1, Singles, NoCalls DEF Calls
<1>4. TypedLists /\ ChainInv
    BY <1>2, <1>3 DEF Init, TypedLists, ChainInv
<1>5. TypedRest
    BY DEF Init, TypedRest, Host
<1> QED BY <1>4, <1>5

TypedInv == TypeOK /\ ChainInv

LEMMA TypedAlways == Spec => []TypedInv
<1>1. Init => TypedInv
    BY TypeInit, TypeParts DEF TypedInv, Init
<1>2. TypedInv /\ [Next]_vars => TypedInv'
  <2> SUFFICES ASSUME TypedInv, [Next]_vars PROVE TypedInv'
    OBVIOUS
  <2>1. TypedLists /\ TypedRest /\ ChainInv /\ scenario \in Scenarios
    BY TypeParts DEF TypedInv, TypedRest
  <2>2. ChainInv' /\ TypedRest'
    BY <2>1, ChainStep, TypeStepRest
  <2>3. \A u \in Thread : todo'[u] \in Seq(Step)
    BY <2>1, TypeStepLists
  <2>4. Step' = Step
    BY DEF Step, Next, vars, Axes
  <2>5. restarted' \subseteq Axes'
    <3>1. Axes' = Axes /\ restarted \subseteq Axes
        BY <2>1, TypeParts DEF TypedInv, Next, vars, Axes
    <3> QED BY <3>1 DEF Next, NoteRestarts, vars
  <2> QED BY <2>2, <2>3, <2>4, <2>5 DEF TypedInv, TypeOK, TypedRest, ChainInv
<1> QED BY <1>1, <1>2, PTL DEF Spec

\* Types: every variable keeps its type, and no call leaves a list of steps
\* that is not one.
THEOREM MotorTypes == Spec => []TypeOK
<1>1. TypedInv => TypeOK
    BY DEF TypedInv
<1> QED BY <1>1, TypedAlways, PTL
-----------------------------------------------------------------------------
(* Which thread makes which calls                                          *)

\* Without critical errors each thread has its own kind of calls.
ShapeInv ==
    /\ todo["exti"] \in Seq(StopSteps) \/ todo["exti"] \in Seq(ReleaseSteps)
    /\ todo["usb"] \in Seq(UsbSteps)
    /\ todo["cmd"] \in Seq(CommandSteps)
    /\ "estopCommand" \notin events => todo["cmd"] \in Seq(ClearSteps)
    /\ todo["ffb"] \in Seq(BootSteps) \/ todo["ffb"] \in Seq(LoopSteps)
    /\ todo["drv"] = <<>>

\* In S a turn may become the write it stands for, and no error is critical.
Closed(S) ==
    /\ \A a \in Nat, v \in BOOLEAN : [f |-> "turn", a |-> a, v |-> v] \in S => [f |-> "set", a |-> a, v |-> v] \in S
    /\ \A s \in S : s.f = "addError" => ~s.v

LEMMA ShapesClosed ==
    /\ Closed(StopSteps) /\ Closed(ReleaseSteps) /\ Closed(UsbSteps) /\ Closed(CommandSteps)
    /\ Closed(ClearSteps) /\ Closed(BootSteps) /\ Closed(LoopSteps) /\ Closed(ColdSteps)
<1>1. Closed(Still)
    BY DEF Closed, Still, Of
<1>2. Closed(StopSteps)
    BY DEF Closed, Still, StopSteps, Of
<1>3. Closed(ReleaseSteps)
    BY DEF Closed, Still, ReleaseSteps, Of
<1>4. Closed(UsbSteps)
    BY DEF Closed, Still, UsbSteps, Of
<1>5. Closed(ClearSteps)
    BY DEF Closed, Still, ClearSteps, Of
<1>6. Closed(CommandSteps)
    BY DEF Closed, Still, ClearSteps, CommandSteps, StopSteps, ReleaseSteps, Of
<1>7. Closed(BootSteps)
    BY DEF Closed, Still, StopSteps, BootSteps, Of
<1>8. Closed(ColdSteps)
    BY DEF Closed, Still, ColdSteps, Of
<1>9. Closed(LoopSteps)
    BY DEF Closed, Still, ColdSteps, LoopSteps, Of
<1> QED BY <1>2, <1>3, <1>4, <1>5, <1>6, <1>7, <1>8, <1>9

LEMMA TakeFrom ==
    ASSUME ChainInv, NEW t \in Thread, NEW f, NEW S, NEW steps \in Seq(S), Take(t, f, steps), todo[t] \in Seq(S)
    PROVE  todo'[t] \in Seq(S) /\ Head(todo[t]) \in S /\ Rest(t) \in Seq(S) /\ Others(t)
<1>1. todo[t] # <<>> /\ todo'[t] = steps \o Rest(t) /\ Others(t)
    BY TakeIs
<1>2. Head(todo[t]) \in S /\ Rest(t) \in Seq(S)
    BY <1>1, HeadTailProperties DEF Rest
<1> QED BY <1>1, <1>2, Joined

\* The steps of any thread stay in their set.
LEMMA StepsStay ==
    ASSUME ChainInv, NEW t \in Thread, Steps(t), NEW S, Closed(S), todo[t] \in Seq(S)
    PROVE  todo'[t] \in Seq(S) /\ Others(t)
<1>1. <<>> \in Seq(S)
    BY EmptySeq
<1>2. CASE SetFlag(t) \/ SetTorque(t) \/ Drive(t)
  <2>1. PICK f : Take(t, f, <<>>)
    BY <1>2 DEF SetFlag, SetTorque, Drive
  <2> QED BY <1>1, <2>1, TakeFrom
<1>3. CASE TurnMotor(t)
  <2>1. PICK steps \in {Do("set", Axis(t), Value(t)), <<>>} : Take(t, "turn", steps)
    BY <1>3 DEF TurnMotor
  <2>2. todo[t] # <<>> /\ Head(todo[t]) \in AnyStep /\ Head(todo[t]).f = "turn"
    BY <2>1, TakeIs
  <2>3. /\ [f |-> "turn", a |-> Axis(t), v |-> Value(t)] \in S /\ Axis(t) \in Nat /\ Value(t) \in BOOLEAN
    BY <2>2, HeadIs, HeadTailProperties
  <2>4. [f |-> "set", a |-> Axis(t), v |-> Value(t)] \in S
    BY <2>3 DEF Closed
  <2>5. steps \in Seq(S)
    BY <1>1, <2>4, DoIn
  <2> QED BY <2>1, <2>5, TakeFrom
<1>4. CASE AddError(t)
  <2>1. todo[t] # <<>> /\ Head(todo[t]).f = "addError"
    BY <1>4 DEF AddError, Take, At, Idle
  <2>2. ~Value(t)
    BY <2>1, HeadTailProperties DEF Closed, Value
  <2>3. Take(t, "addError", <<>>)
    BY <1>4, <2>2 DEF AddError
  <2> QED BY <1>1, <2>3, TakeFrom
<1> QED BY <1>2, <1>3, <1>4 DEF Steps

\* What only some lists have.
LEMMA OnlyIn ==
    /\ \A s \in LoopSteps : s.f \notin {"boot", "stamp", "flag"}
    /\ \A s \in BootSteps : s.f \notin {"prepare", "range", "gate", "update", "addError"}
    /\ \A s \in ColdSteps : s.f # "update" /\ (s.f = "set" => ~s.v) /\ (s.f = "turn" => ~s.v)
    /\ \A s \in StopSteps : (s.f = "flag" => s.v) /\ (s.f \in {"drive", "turn", "set"} => ~s.v) /\ s.f # "addError"
    /\ \A s \in ReleaseSteps : (s.f \in {"flag", "turn", "set"} => ~s.v) /\ (s.f = "drive" => s.v) /\ s.f # "addError"
    /\ \A s \in BootSteps : (s.f = "flag" => s.v) /\ (s.f \in {"drive", "turn", "set"} => ~s.v)
    /\ \A s \in LoopSteps : s.f = "drive" => ~s.v
    /\ \A s \in UsbSteps : s.f \in {"turn", "set", "drive"} /\ (s.f \in {"turn", "set"} => ~s.v)
    /\ \A s \in CommandSteps : s.f \in {"turn", "set"} => ~s.v
    /\ \A s \in ClearSteps : s.f \notin {"flag", "unlatch", "addError"} /\ (s.f \in {"turn", "set"} => ~s.v) /\ (s.f = "drive" => s.v)
<1>1. \A s \in LoopSteps : s.f \notin {"boot", "stamp", "flag"} /\ (s.f = "drive" => ~s.v)
    BY DEF LoopSteps, ColdSteps, Still, Of
<1>2. \A s \in BootSteps : /\ s.f \notin {"prepare", "range", "gate", "update", "addError"}
                           /\ (s.f = "flag" => s.v) /\ (s.f \in {"drive", "turn", "set"} => ~s.v)
    BY DEF BootSteps, StopSteps, Still, Of
<1>3. \A s \in ColdSteps : s.f # "update" /\ (s.f = "set" => ~s.v) /\ (s.f = "turn" => ~s.v)
    BY DEF ColdSteps, Still, Of
<1>4. \A s \in StopSteps : (s.f = "flag" => s.v) /\ (s.f \in {"drive", "turn", "set"} => ~s.v) /\ s.f # "addError"
    BY DEF StopSteps, Still, Of
<1>5. \A s \in ReleaseSteps : (s.f \in {"flag", "turn", "set"} => ~s.v) /\ (s.f = "drive" => s.v) /\ s.f # "addError"
    BY DEF ReleaseSteps, Still, Of
<1>6. \A s \in UsbSteps : s.f \in {"turn", "set", "drive"} /\ (s.f \in {"turn", "set"} => ~s.v)
    BY DEF UsbSteps, Still, Of
<1>7. \A s \in CommandSteps : s.f \in {"turn", "set"} => ~s.v
    BY DEF CommandSteps, ClearSteps, StopSteps, ReleaseSteps, Still, Of
<1>8. \A s \in ClearSteps : /\ s.f \notin {"flag", "unlatch", "addError"} /\ (s.f \in {"turn", "set"} => ~s.v)
                            /\ (s.f = "drive" => s.v)
    BY DEF ClearSteps, Still, Of
<1> QED BY <1>1, <1>2, <1>3, <1>4, <1>5, <1>6, <1>7, <1>8

\* The lists that the steps of one thread bring.
LEMMA CallsIn ==
    ASSUME scenario \in Scenarios, NEW a \in Nat, NEW v \in BOOLEAN
    PROVE  /\ EmergencyStop(FALSE) \o Do("stamp", 0, TRUE) \in Seq(BootSteps)
           /\ StopMotor(a) \o Do("range", a, TRUE) \in Seq(ColdSteps)
           /\ Do("addError", 0, FALSE) \in Seq(ColdSteps)
           /\ FlattenSeq([b \in Axes |-> Do("update", b, TRUE)]) \in Seq(LoopSteps)
           /\ Turn(a, v) \in Seq(LoopSteps)
           /\ StartMotor(a) \o Do("inBounds", a, TRUE) \in Seq(ClearSteps)
           /\ Do("unlatch", 0, TRUE) \in Seq(CommandSteps)
<1>1. EmergencyStop(FALSE) \o Do("stamp", 0, TRUE) \in Seq(BootSteps)
  <2>1. EmergencyStop(FALSE) \in Seq(BootSteps)
    BY StopFacts, StepsOfSets, SeqMonotonic
  <2>2. Do("stamp", 0, TRUE) \in Seq(BootSteps)
    BY DEF Do, BootSteps, Of
  <2> QED BY <2>1, <2>2, Joined
<1>2. StopMotor(a) \o Do("range", a, TRUE) \in Seq(ColdSteps)
  <2>1. <<Zero(a), DriveOff(a), RangeOf(a)>> \in Seq(ColdSteps)
    BY StepsOfSets, ShortLists
  <2> QED BY <2>1, CallsOfAxis
<1>3. Do("addError", 0, FALSE) \in Seq(ColdSteps)
    BY DEF Do, ColdSteps, Of
<1>4. FlattenSeq([b \in Axes |-> Do("update", b, TRUE)]) \in Seq(LoopSteps)
  <2>1. \A b \in Axes : [f |-> "update", a |-> b, v |-> TRUE] \in LoopSteps
    BY StepIsAny, StepsOfSets
  <2> QED BY <2>1, OneStepIn
<1>5. Turn(a, v) \in Seq(LoopSteps)
  <2>1. [f |-> "turn", a |-> a, v |-> v] \in LoopSteps
    BY DEF LoopSteps, ColdSteps, Still, Of
  <2> QED BY <2>1 DEF Turn, Do
<1>6. StartMotor(a) \o Do("inBounds", a, TRUE) \in Seq(ClearSteps)
  <2>1. <<DriveOn(a), Zero(a), InBoundsOf(a)>> \in Seq(ClearSteps)
    BY StepsOfSets, ShortLists
  <2> QED BY <2>1, CallsOfAxis
<1>7. Do("unlatch", 0, TRUE) \in Seq(CommandSteps)
    BY DEF Do, CommandSteps, Of
<1> QED BY <1>1, <1>2, <1>3, <1>4, <1>5, <1>6, <1>7

\* Whose turn it was.
LEMMA FfbTakes ==
    ASSUME TypedInv, NEW f, NEW steps, Take("ffb", f, steps)
    PROVE  /\ f \in {"prepare", "range", "gate", "update"} => todo["ffb"] \notin Seq(BootSteps)
           /\ f \in {"boot", "stamp", "flag"} => todo["ffb"] \notin Seq(LoopSteps)
<1>1. todo["ffb"] # <<>> /\ Head(todo["ffb"]).f = f
    BY TakeIs DEF TypedInv, Thread
<1> QED BY <1>1, HeadTailProperties, OnlyIn

LEMMA FfbShape ==
    ASSUME TypedInv, todo["ffb"] \in Seq(BootSteps) \/ todo["ffb"] \in Seq(LoopSteps),
           Boot \/ Stamp \/ UpdateControl \/ Prepare \/ LeaveRange \/ Gate \/ UpdateDriveTorque
    PROVE  /\ todo'["ffb"] \in Seq(BootSteps) \/ todo'["ffb"] \in Seq(LoopSteps)
           /\ Others("ffb")
<1>0. ChainInv /\ "ffb" \in Thread /\ scenario \in Scenarios
    BY DEF TypedInv, Thread, TypeOK
<1>1. CASE Boot \/ Stamp
  <2>1. PICK f \in {"boot", "stamp"}, steps \in {EmergencyStop(FALSE) \o Do("stamp", 0, TRUE), <<>>} : Take("ffb", f, steps)
    BY <1>1 DEF Boot, Stamp
  <2>2. todo["ffb"] \in Seq(BootSteps)
    BY <2>1, FfbTakes
  <2>3. steps \in Seq(BootSteps)
    BY <1>0, CallsIn, EmptySeq
  <2> QED BY <1>0, <2>1, <2>2, <2>3, TakeFrom
<1>2. CASE UpdateControl
    BY <1>0, <1>2, LoopFacts, StepsOfSets, SeqMonotonic, BeginIs DEF UpdateControl
<1>3. CASE Prepare \/ LeaveRange \/ Gate \/ UpdateDriveTorque
  <2>1. PICK f \in {"prepare", "range", "gate", "update"},
             steps \in {StopMotor(Axis("ffb")) \o Do("range", Axis("ffb"), TRUE), Do("addError", 0, FALSE), <<>>,
                        FlattenSeq([a \in Axes |-> Do("update", a, TRUE)]),
                        Turn(Axis("ffb"), FALSE), Turn(Axis("ffb"), TRUE)} : Take("ffb", f, steps)
    <3>1. CASE Prepare
        BY <3>1 DEF Prepare, PrepareForUpdate
    <3>2. CASE LeaveRange
        BY <3>2 DEF LeaveRange
    <3>3. CASE Gate
        BY <1>0, <3>3, GateCalls DEF Gate
    <3>4. CASE UpdateDriveTorque
        BY <1>0, <3>4, UpdateIs
    <3> QED BY <1>3, <3>1, <3>2, <3>3, <3>4
  <2>2. todo["ffb"] \in Seq(LoopSteps) /\ Axis("ffb") \in Nat
    BY <1>0, <2>1, FfbTakes, TakeIs, HeadIs
  <2>3. steps \in Seq(LoopSteps)
    BY <1>0, <2>2, CallsIn, EmptySeq, StepsOfSets, SeqMonotonic
  <2> QED BY <1>0, <2>1, <2>2, <2>3, TakeFrom
<1> QED BY <1>1, <1>2, <1>3

LEMMA CmdShape ==
    ASSUME TypedInv, todo["cmd"] \in Seq(CommandSteps), "estopCommand" \notin events => todo["cmd"] \in Seq(ClearSteps),
           \/ Unlatch \/ ClearErrors \/ ClearAxis \/ InBounds \/ Forget
           \/ \E on \in BOOLEAN : EstopCommand(on)
           \/ \E a \in Axes : SetDrvType(a)
    PROVE  /\ todo'["cmd"] \in Seq(CommandSteps) /\ ("estopCommand" \notin events => todo'["cmd"] \in Seq(ClearSteps))
           /\ Others("cmd")
<1>0. ChainInv /\ "cmd" \in Thread /\ scenario \in Scenarios
    BY DEF TypedInv, Thread, TypeOK
<1>1. CASE Unlatch \/ ClearAxis \/ InBounds \/ Forget
  <2>1. PICK steps \in {StartMotor(Axis("cmd")) \o Do("inBounds", Axis("cmd"), TRUE), <<>>} : \E f : Take("cmd", f, steps)
    BY <1>1 DEF Unlatch, ClearAxis, InBounds, Forget
  <2>2. Axis("cmd") \in Nat
    BY <1>0, <2>1, TakeIs, HeadIs
  <2>3. steps \in Seq(ClearSteps) /\ steps \in Seq(CommandSteps)
    BY <1>0, <2>2, CallsIn, EmptySeq, StepsOfSets, SeqMonotonic
  <2> QED BY <1>0, <2>1, <2>3, TakeFrom
<1>2. CASE ClearErrors
  <2>1. ClearAll \in Seq(ClearSteps) /\ ClearAll \in Seq(CommandSteps)
    BY <1>0, LoopFacts, StepsOfSets, SeqMonotonic
  <2> QED BY <1>0, <1>2, <2>1, BeginIs DEF ClearErrors
<1>3. ASSUME NEW on \in BOOLEAN, EstopCommand(on)
      PROVE  todo'["cmd"] \in Seq(CommandSteps) /\ "estopCommand" \in events /\ Others("cmd")
  <2>1. PICK p \in {Do("unlatch", 0, TRUE), <<>>}, e \in {EmergencyStop(TRUE), EmergencyStop(FALSE)} : Begin("cmd", p \o e)
    <3>1. CASE on
        BY <1>3, <3>1 DEF EstopCommand
    <3>2. CASE ~on
        BY <1>3, <3>2 DEF EstopCommand
    <3> QED BY <3>1, <3>2
  <2>2. p \in Seq(CommandSteps) /\ e \in Seq(CommandSteps)
    BY <1>0, CallsIn, StopFacts, ResetFacts, EmptySeq, StepsOfSets, SeqMonotonic
  <2>3. p \o e \in Seq(CommandSteps)
    BY <2>2, Joined
  <2> QED BY <1>0, <1>3, <2>1, <2>3, BeginIs DEF EstopCommand
<1>4. ASSUME NEW a \in Axes, SetDrvType(a)
      PROVE  todo'["cmd"] = <<>> /\ Others("cmd")
    BY <1>0, <1>4, BeginIs DEF SetDrvType
<1> QED BY <1>1, <1>2, <1>3, <1>4, EmptySeq

LEMMA UsbShape ==
    ASSUME TypedInv, UsbResume \/ \E to \in {"absent", "suspended"} : UsbSuspend(to)
    PROVE  todo'["usb"] \in Seq(UsbSteps) /\ Others("usb")
<1>0. ChainInv /\ "usb" \in Thread /\ scenario \in Scenarios
    BY DEF TypedInv, Thread, TypeOK
<1>1. PICK steps \in {SuspendAxes, ResumeAxes, <<>>} : Begin("usb", steps)
    BY DEF UsbResume, UsbSuspend
<1> QED BY <1>0, <1>1, UsbFacts, EmptySeq, BeginIs

LEMMA ExtiIs ==
    ASSUME TypedInv, Exti
    PROVE  /\ todo["exti"] = <<>> /\ Others("exti")
           /\ \/ ~pressed /\ emergency /\ todo'["exti"] = EmergencyStop(TRUE) /\ latched' = FALSE
              \/ pressed /\ ~emergency /\ todo'["exti"] = EmergencyStop(FALSE) /\ latched' = TRUE
              \/ todo'["exti"] = <<>> /\ latched' = latched
<1>0. ChainInv /\ "exti" \in Thread /\ pressed \in BOOLEAN /\ emergency \in BOOLEAN
    BY DEF TypedInv, Thread, TypeOK
<1>1. CASE ~recent /\ pressed # emergency /\ pressed
  <2>0. pressed = TRUE
    BY <1>0, <1>1
  <2>1. Begin("exti", EmergencyStop(FALSE)) /\ latched' = TRUE
    BY <1>1, <2>0 DEF Exti
  <2> QED BY <1>0, <1>1, <2>1, BeginIs
<1>2. CASE ~recent /\ pressed # emergency /\ ~pressed
  <2>0. pressed = FALSE
    BY <1>0, <1>2
  <2>1. Begin("exti", EmergencyStop(TRUE)) /\ latched' = FALSE
    BY <1>2, <2>0 DEF Exti
  <2> QED BY <1>0, <1>2, <2>1, BeginIs
<1>3. CASE ~(~recent /\ pressed # emergency)
  <2>1. Begin("exti", <<>>) /\ latched' = latched
    BY <1>3 DEF Exti
  <2> QED BY <1>0, <2>1, BeginIs
<1> QED BY <1>1, <1>2, <1>3

\* The actions that leave all lists alone.
LEMMA NoLists ==
    ASSUME PushButton \/ SecondPasses \/ Connect \/ UNCHANGED vars \/ \E a \in Axes : TurnAxis(a)
    PROVE  UNCHANGED todo
BY DEF PushButton, SecondPasses, Connect, TurnAxis, vars

LEMMA ShapeStep ==
    ASSUME TypedInv, "criticalError" \notin events, ShapeInv, [Next]_vars
    PROVE  ShapeInv'
<1>0. /\ ChainInv /\ Thread = {"exti", "usb", "cmd", "ffb", "drv"} /\ events' = events
      /\ scenario \in Scenarios
    BY DEF TypedInv, Thread, events, Next, vars, TypeOK
<1>1. ASSUME NEW t \in Thread, Steps(t) PROVE ShapeInv'
  <2>1. Others(t) /\ t # "drv"
    <3>1. PICK f, steps : Take(t, f, steps)
        BY <1>1 DEF Steps, SetFlag, TurnMotor, SetTorque, Drive, AddError
    <3> QED BY <1>0, <3>1, TakeIs DEF ShapeInv
  <2>2. ASSUME NEW S \in {StopSteps, ReleaseSteps, UsbSteps, CommandSteps, ClearSteps, BootSteps, LoopSteps}
        PROVE  todo[t] \in Seq(S) => todo'[t] \in Seq(S)
    BY <1>0, <1>1, ShapesClosed, StepsStay
  <2> QED BY <1>0, <2>1, <2>2 DEF ShapeInv, Others
<1>2. CASE Boot \/ Stamp \/ UpdateControl \/ Prepare \/ LeaveRange \/ Gate \/ UpdateDriveTorque
    BY <1>0, <1>2, FfbShape DEF ShapeInv, Others
<1>3. CASE \/ Unlatch \/ ClearErrors \/ ClearAxis \/ InBounds \/ Forget
           \/ \E on \in BOOLEAN : EstopCommand(on)
           \/ \E a \in Axes : SetDrvType(a)
    BY <1>0, <1>3, CmdShape DEF ShapeInv, Others
<1>4. CASE UsbResume \/ \E to \in {"absent", "suspended"} : UsbSuspend(to)
    BY <1>0, <1>4, UsbShape DEF ShapeInv, Others
<1>5. CASE Exti
  <2>1. todo'["exti"] \in Seq(StopSteps) \/ todo'["exti"] \in Seq(ReleaseSteps)
    BY <1>0, <1>5, ExtiIs, StopFacts, ResetFacts, EmptySeq
  <2> QED BY <1>0, <1>5, <2>1, ExtiIs DEF ShapeInv, Others
<1>6. CASE PushButton \/ SecondPasses \/ Connect \/ UNCHANGED vars \/ \E a \in Axes : TurnAxis(a)
    BY <1>0, <1>6, NoLists DEF ShapeInv
<1>7. ~CriticalError
    BY DEF CriticalError
<1> QED BY <1>1, <1>2, <1>3, <1>4, <1>5, <1>6, <1>7 DEF Next, Act

LEMMA ShapeInit == Init => ShapeInv
<1> SUFFICES ASSUME Init PROVE ShapeInv
    OBVIOUS
<1>1. todo["ffb"] = Do("boot", 0, TRUE) /\ \A t \in Thread \ {"ffb"} : todo[t] = <<>>
    BY DEF Init, Thread
<1>2. Do("boot", 0, TRUE) \in Seq(BootSteps)
    BY DEF Do, BootSteps, Of
<1> QED BY <1>1, <1>2, EmptySeq DEF ShapeInv, Thread
-----------------------------------------------------------------------------
(* What one step changes                                                   *)

\* A step stays in a list until it is taken.
LEMMA KeepHas ==
    ASSUME ChainInv, NEW t \in Thread, NEW f, NEW steps \in Seq(AnyStep), Take(t, f, steps),
           NEW s, Has(todo[t], s)
    PROVE  s = Head(todo[t]) \/ (Has(Rest(t), s) /\ Has(todo'[t], s))
<1>1. todo[t] \in Seq(AnyStep) /\ todo[t] # <<>> /\ Rest(t) \in Seq(AnyStep) /\ todo'[t] = steps \o Rest(t)
    BY TakeIs
<1>2. s = Head(todo[t]) \/ Has(Rest(t), s)
    BY <1>1, HasHead DEF Rest
<1> QED BY <1>1, <1>2, HasJoin

LEMMA HasNothing == \A s : ~Has(<<>>, s)
BY DEF Has

\* The elementary steps.
Elementary(t, f, steps) ==
    /\ Take(t, f, steps)
    /\ UNCHANGED <<usbDisabled, recent, pressed, edge, far, host, latched, outOfBounds, scenario>>
    /\ IF f = "flag" THEN emergency' = Value(t) ELSE emergency' = emergency
    /\ IF f = "set" THEN torque' = [torque EXCEPT ![Axis(t)] = Value(t)] ELSE torque' = torque
    /\ IF f = "drive" THEN active' = [active EXCEPT ![Axis(t)] = Value(t)] ELSE active' = active
    /\ IF f = "addError" THEN errors' = errors \union {IF Value(t) THEN "critical" ELSE "outOfBounds"}
       ELSE errors' = errors
    /\ f \notin {"turn", "addError"} => steps = <<>>
    /\ f = "addError" /\ ~Value(t) => steps = <<>>
    /\ f = "turn" => steps = IF active[Axis(t)] THEN Do("set", Axis(t), Value(t)) ELSE <<>>

LEMMA StepIs ==
    ASSUME TypedInv, NEW t \in Thread, Steps(t), Next
    PROVE  \E f \in {"flag", "turn", "set", "drive", "addError"}, steps \in Seq(AnyStep) : Elementary(t, f, steps)
<1>0. scenario' = scenario /\ <<>> \in Seq(AnyStep) /\ ChainInv /\ scenario \in Scenarios
    BY EmptySeq DEF Next, TypedInv, TypeOK
<1>1. CASE SetFlag(t)
  <2>1. Elementary(t, "flag", <<>>)
    BY <1>0, <1>1 DEF SetFlag, motors, outside, Elementary
  <2> QED BY <1>0, <2>1
<1>2. CASE TurnMotor(t)
  <2> DEFINE steps == IF active[Axis(t)] THEN Do("set", Axis(t), Value(t)) ELSE <<>>
  <2>1. Take(t, "turn", steps)
    BY <1>2 DEF TurnMotor
  <2>2. Axis(t) \in Nat /\ Value(t) \in BOOLEAN
    BY <1>0, <2>1, TakeIs, HeadIs
  <2>3. steps \in Seq(AnyStep)
    <3>1. [f |-> "set", a |-> Axis(t), v |-> Value(t)] \in AnyStep
        BY <2>2 DEF AnyStep, Of, StepNames
    <3> QED BY <1>0, <3>1, DoIn
  <2>4. Elementary(t, "turn", steps)
    BY <1>0, <1>2, <2>1 DEF TurnMotor, control, motors, outside, Elementary
  <2> QED BY <2>3, <2>4
<1>3. CASE SetTorque(t)
  <2>1. Elementary(t, "set", <<>>)
    BY <1>0, <1>3 DEF SetTorque, control, outside, Elementary
  <2> QED BY <1>0, <2>1
<1>4. CASE Drive(t)
  <2>1. Elementary(t, "drive", <<>>)
    BY <1>0, <1>4 DEF Drive, control, outside, Elementary
  <2> QED BY <1>0, <2>1
<1>5. CASE AddError(t)
  <2> DEFINE e == IF Value(t) THEN "critical" ELSE "outOfBounds"
             steps == IF e \notin errors /\ e = "critical" THEN RaisedCritical ELSE <<>>
  <2>1. Take(t, "addError", steps)
    BY <1>5 DEF AddError
  <2>2. steps \in Seq(AnyStep)
    BY <1>0, ResetFacts DEF RaisedCritical, Calls, Chained
  <2>3. Elementary(t, "addError", steps)
    BY <1>0, <1>5, <2>1 DEF AddError, control, motors, outside, Elementary
  <2> QED BY <2>2, <2>3
<1> QED BY <1>1, <1>2, <1>3, <1>4, <1>5 DEF Steps

\* The steps of the loop, with the lists they bring.
Looping(f, steps) ==
    /\ Take("ffb", f, steps)
    /\ UNCHANGED <<emergency, usbDisabled, active, torque, errors, pressed, edge, far, host, scenario>>
    /\ f # "boot" => latched' = latched
    /\ f \notin {"prepare", "range"} => outOfBounds' = outOfBounds
    /\ f = "boot" =>
        /\ latched' = pressed
        /\ steps = IF pressed THEN EmergencyStop(FALSE) \o Do("stamp", 0, TRUE) ELSE <<>>
    /\ f = "stamp" => steps = <<>>
    /\ f = "range" =>
        /\ outOfBounds' = [outOfBounds EXCEPT ![Axis("ffb")] = TRUE]
        /\ steps = IF outOfBounds[Axis("ffb")] THEN <<>> ELSE Do("addError", 0, FALSE)
    /\ f = "prepare" =>
        \/ /\ outOfBounds' = outOfBounds /\ far[Axis("ffb")]
           /\ steps = StopMotor(Axis("ffb")) \o Do("range", Axis("ffb"), TRUE)
        \/ outOfBounds' \in {[outOfBounds EXCEPT ![Axis("ffb")] = FALSE], outOfBounds} /\ steps = <<>>
    /\ f = "gate" => steps = IF emergency THEN <<>> ELSE FlattenSeq([a \in Axes |-> Do("update", a, TRUE)])
    /\ f = "update" => steps = <<>> \/ \E v \in BOOLEAN : (outOfBounds[Axis("ffb")] => ~v) /\ steps = Turn(Axis("ffb"), v)

LEMMA LoopStepIs ==
    ASSUME TypedInv, Boot \/ Stamp \/ Prepare \/ LeaveRange \/ Gate \/ UpdateDriveTorque, Next
    PROVE  \E f \in {"boot", "stamp", "prepare", "range", "gate", "update"}, steps \in Seq(AnyStep) : Looping(f, steps) /\ (f # "update" => steps \in Calls)
<1>0. /\ scenario' = scenario /\ <<>> \in Seq(AnyStep) /\ <<>> \in Calls /\ ChainInv /\ scenario \in Scenarios /\ "ffb" \in Thread
      /\ Calls \subseteq Seq(AnyStep)
    BY EmptySeq, NoCalls DEF Calls, Chained, Next, TypedInv, TypeOK, Thread
<1>1. CASE Boot
  <2>1. CASE pressed
    <3>1. Looping("boot", EmergencyStop(FALSE) \o Do("stamp", 0, TRUE))
        BY <1>0, <1>1, <2>1 DEF Boot, control, motors, outside, Looping
    <3>2. EmergencyStop(FALSE) \o Do("stamp", 0, TRUE) \in Calls
        BY <1>0, StopFacts, Singles, CallsJoin
    <3> QED BY <1>0, <3>1, <3>2
  <2>2. CASE ~pressed
    <3>1. Looping("boot", <<>>)
        BY <1>0, <1>1, <2>2 DEF Boot, control, motors, outside, Looping
    <3> QED BY <1>0, <3>1
  <2> QED BY <2>1, <2>2
<1>2. CASE Stamp
  <2>1. Looping("stamp", <<>>)
    BY <1>0, <1>2 DEF Stamp, control, motors, outside, Looping
  <2> QED BY <1>0, <2>1
<1>3. CASE Prepare
  <2> DEFINE steps == StopMotor(Axis("ffb")) \o Do("range", Axis("ffb"), TRUE)
  <2>1. CASE far[Axis("ffb")] /\ Take("ffb", "prepare", steps) /\ UNCHANGED outOfBounds
    <3>1. Looping("prepare", steps)
        BY <1>0, <1>3, <2>1 DEF Prepare, control, outside, Looping
    <3>2. Axis("ffb") \in Nat
        BY <1>0, <2>1, TakeIs, HeadIs
    <3> QED BY <1>0, <3>1, <3>2, Singles
  <2>2. CASE Take("ffb", "prepare", <<>>) /\ outOfBounds' \in {[outOfBounds EXCEPT ![Axis("ffb")] = FALSE], outOfBounds}
    <3>1. Looping("prepare", <<>>)
        BY <1>0, <1>3, <2>2 DEF Prepare, control, outside, Looping
    <3> QED BY <1>0, <3>1
  <2> QED BY <1>3, <2>1, <2>2 DEF Prepare, PrepareForUpdate
<1>4. CASE LeaveRange
  <2> DEFINE steps == IF outOfBounds[Axis("ffb")] THEN <<>> ELSE Do("addError", 0, FALSE)
  <2>1. Looping("range", steps)
    BY <1>0, <1>4 DEF LeaveRange, control, outside, Looping
  <2>2. steps \in Calls
    BY Singles, NoCalls
  <2> QED BY <1>0, <2>1, <2>2
<1>5. CASE Gate
  <2> DEFINE steps == IF emergency THEN <<>> ELSE FlattenSeq([a \in Axes |-> Do("update", a, TRUE)])
  <2>1. Take("ffb", "gate", steps)
    BY <1>0, <1>5, GateCalls DEF Gate
  <2>2. steps \in Calls
    BY <1>0, OneStepFacts, NoCalls
  <2>3. Looping("gate", steps)
    BY <1>0, <1>5, <2>1 DEF Gate, control, motors, outside, Looping
  <2> QED BY <1>0, <2>2, <2>3
<1>6. CASE UpdateDriveTorque
  <2>1. UNCHANGED <<control, motors, errors, recent, outside, latched>>
    BY <1>6 DEF UpdateDriveTorque
  <2>2. CASE Take("ffb", "update", <<>>)
    <3>1. Looping("update", <<>>)
        BY <1>0, <2>1, <2>2 DEF control, motors, outside, Looping
    <3> QED BY <1>0, <3>1
  <2>3. ASSUME NEW v \in BOOLEAN, outOfBounds[Axis("ffb")] => ~v, Take("ffb", "update", Turn(Axis("ffb"), v))
        PROVE  \E steps \in Seq(AnyStep) : Looping("update", steps)
    <3>1. Looping("update", Turn(Axis("ffb"), v))
        BY <1>0, <2>1, <2>3 DEF control, motors, outside, Looping
    <3>2. Axis("ffb") \in Nat
        BY <1>0, <2>3, TakeIs, HeadIs
    <3>3. Turn(Axis("ffb"), v) \in Seq(AnyStep)
        BY <3>2 DEF Turn, Do, AnyStep, Of, StepNames
    <3> QED BY <3>1, <3>3
  <2> QED BY <1>0, <1>6, <2>2, <2>3, UpdateIs
<1> QED BY <1>1, <1>2, <1>3, <1>4, <1>5, <1>6

\* What runs before thread t does.
LEMMA Waits ==
    ASSUME NEW t \in Thread, Scheduled(t)
    PROVE  /\ t # "exti" => todo["exti"] = <<>>
           /\ "criticalError" \notin events =>
                /\ t \in {"cmd", "ffb", "drv"} => todo["usb"] = <<>>
                /\ t \in {"ffb", "drv"} => todo["cmd"] = <<>>
           /\ "insideTurn" \notin events /\ t # "ffb" => ~InsideTurn
<1>1. DOMAIN Threads = 1..5
    BY DEF Threads
<1>2. Threads[2] = "usb" /\ Threads[3] = "cmd" /\ Threads[4] = "ffb" /\ Threads[5] = "drv"
    BY DEF Threads
<1>3. \A i, j \in 1..5 : i < j /\ Threads[j] = t => Idle(Threads[i]) \/ "criticalError" \in events
    BY <1>1 DEF Scheduled
<1>4. ASSUME "criticalError" \notin events, t \in {"cmd", "ffb", "drv"} PROVE todo["usb"] = <<>>
  <2>1. \E j \in {3, 4, 5} : Threads[j] = t
    BY <1>2, <1>4
  <2>2. Idle(Threads[2])
    BY <1>3, <1>4, <2>1
  <2> QED BY <1>2, <2>2 DEF Idle
<1>5. ASSUME "criticalError" \notin events, t \in {"ffb", "drv"} PROVE todo["cmd"] = <<>>
  <2>1. \E j \in {4, 5} : Threads[j] = t
    BY <1>2, <1>5
  <2>2. Idle(Threads[3])
    BY <1>3, <1>5, <2>1
  <2> QED BY <1>2, <2>2 DEF Idle
<1>6. t # "exti" => todo["exti"] = <<>>
    BY DEF Scheduled, Idle
<1>7. "insideTurn" \notin events /\ t # "ffb" => ~InsideTurn
    BY DEF Scheduled
<1> QED BY <1>4, <1>5, <1>6, <1>7
-----------------------------------------------------------------------------
(* The button's stop                                                       *)

\* A stop by the button holds, or a list still has its flag to set; the
\* interrupt's call that is running can only be a stop.
Free == "criticalError" \notin events /\ "estopCommand" \notin events

StopKept == emergency \/ Has(todo["exti"], FlagOn) \/ Has(todo["ffb"], FlagOn)
LatchInv == latched => todo["exti"] \in Seq(StopSteps) /\ StopKept

\* Only the interrupt and the start of the loop write the flag.
LEMMA WhoFlags ==
    ASSUME TypedInv, ShapeInv, Free, NEW t \in Thread, NEW steps, Take(t, "flag", steps)
    PROVE  \/ t = "exti" /\ (todo["exti"] \in Seq(StopSteps) => Value(t))
           \/ t = "ffb" /\ Value(t)
<1>1. todo[t] # <<>> /\ Head(todo[t]).f = "flag"
    BY TakeIs DEF TypedInv
<1>2. t # "usb" /\ t # "cmd" /\ t # "drv"
    BY <1>1, HeadTailProperties, OnlyIn DEF ShapeInv, Free
<1>3. t = "exti" => (todo["exti"] \in Seq(StopSteps) => Value(t))
    BY <1>1, HeadTailProperties, OnlyIn DEF Value
<1>4. t = "ffb" => Value(t)
  <2>1. t = "ffb" => todo["ffb"] \in Seq(BootSteps)
    BY <1>1, HeadTailProperties, OnlyIn DEF ShapeInv
  <2> QED BY <1>1, <2>1, HeadTailProperties, OnlyIn DEF Value
<1> QED BY <1>2, <1>3, <1>4 DEF Thread

\* A step other than a flag's leaves the pending flags pending.
LEMMA KeepFlag ==
    ASSUME TypedInv, NEW t \in Thread, NEW f, f # "flag", NEW steps \in Seq(AnyStep), Take(t, f, steps)
    PROVE  \A u \in Thread : Has(todo[u], FlagOn) => Has(todo'[u], FlagOn)
<1>1. Head(todo[t]).f = f /\ Others(t) /\ ChainInv
    BY TakeIs DEF TypedInv
<1>2. FlagOn # Head(todo[t])
    BY <1>1 DEF FlagOn
<1>3. Has(todo[t], FlagOn) => Has(todo'[t], FlagOn)
    BY <1>1, <1>2, KeepHas
<1> QED BY <1>1, <1>3 DEF Others

LEMMA LatchStep ==
    ASSUME TypedInv, Free, ShapeInv, LatchInv, [Next]_vars
    PROVE  LatchInv'
<1>0. /\ ChainInv /\ Thread = {"exti", "usb", "cmd", "ffb", "drv"} /\ scenario \in Scenarios
    BY DEF TypedInv, Thread, TypeOK
<1> SUFFICES ASSUME latched' PROVE todo'["exti"] \in Seq(StopSteps) /\ StopKept'
    BY DEF LatchInv
<1>1. ASSUME NEW t \in Thread, Steps(t), Next PROVE todo'["exti"] \in Seq(StopSteps) /\ StopKept'
  <2>1. PICK f \in {"flag", "turn", "set", "drive", "addError"}, steps \in Seq(AnyStep) : Elementary(t, f, steps)
    BY <1>1, StepIs
  <2>2. Take(t, f, steps) /\ latched' = latched /\ Others(t)
    BY <1>0, <2>1, TakeIs DEF Elementary
  <2>3. todo["exti"] \in Seq(StopSteps) /\ StopKept
    BY <2>2 DEF LatchInv
  <2>4. todo'["exti"] \in Seq(StopSteps)
    <3>1. CASE t = "exti"
        BY <1>0, <1>1, <2>3, <3>1, ShapesClosed, StepsStay
    <3>2. CASE t # "exti"
        BY <1>0, <2>2, <2>3, <3>2 DEF Others
    <3> QED BY <3>1, <3>2
  <2>5. StopKept'
    <3>1. CASE f = "flag"
      <4>1. Value(t)
        BY <2>2, <2>3, <3>1, WhoFlags
      <4>2. emergency' = Value(t)
        BY <2>1, <3>1 DEF Elementary
      <4> QED BY <4>1, <4>2 DEF StopKept
    <3>2. CASE f # "flag"
      <4>1. emergency' = emergency
        BY <2>1, <3>2 DEF Elementary
      <4> QED BY <1>0, <2>2, <2>3, <3>2, <4>1, KeepFlag DEF StopKept
    <3> QED BY <3>1, <3>2
  <2> QED BY <2>4, <2>5
<1>2. ASSUME Boot \/ Stamp \/ Prepare \/ LeaveRange \/ Gate \/ UpdateDriveTorque, Next
      PROVE  todo'["exti"] \in Seq(StopSteps) /\ StopKept'
  <2>1. PICK f \in {"boot", "stamp", "prepare", "range", "gate", "update"}, steps \in Seq(AnyStep) : Looping(f, steps)
    BY <1>2, LoopStepIs
  <2>2. /\ Take("ffb", f, steps) /\ emergency' = emergency /\ f # "flag"
        /\ todo'["ffb"] = steps \o Rest("ffb") /\ Rest("ffb") \in Seq(AnyStep) /\ Others("ffb") /\ Scheduled("ffb")
    BY <1>0, <2>1, TakeIs DEF Looping
  <2>3. todo'["exti"] \in Seq(StopSteps)
    BY <1>0, <2>2, Waits, EmptySeq DEF Others
  <2>4. StopKept'
    <3>1. CASE f = "boot"
      <4>1. steps = EmergencyStop(FALSE) \o Do("stamp", 0, TRUE)
        BY <2>1, <3>1 DEF Looping
      <4>2. /\ EmergencyStop(FALSE) \in Seq(AnyStep) /\ Do("stamp", 0, TRUE) \in Seq(AnyStep)
            /\ Has(EmergencyStop(FALSE), FlagOn)
        BY <1>0, StopFacts, Singles DEF Calls, Chained
      <4>3. Has(steps, FlagOn)
        BY <4>1, <4>2, HasJoin
      <4>4. Has(todo'["ffb"], FlagOn)
        BY <2>2, <4>3, HasJoin
      <4> QED BY <4>4 DEF StopKept
    <3>2. CASE f # "boot"
      <4>1. latched
        BY <2>1, <3>2 DEF Looping
      <4> QED BY <1>0, <2>2, <4>1, KeepFlag DEF LatchInv, StopKept
    <3> QED BY <3>1, <3>2
  <2> QED BY <2>3, <2>4
<1>3. ASSUME Unlatch \/ ClearAxis \/ InBounds \/ Forget
      PROVE  todo'["exti"] \in Seq(StopSteps) /\ StopKept'
  <2>1. PICK steps : \E f : Take("cmd", f, steps)
    BY <1>3 DEF Unlatch, ClearAxis, InBounds, Forget
  <2>2. todo'["exti"] = todo["exti"] /\ todo'["ffb"] = todo["ffb"]
    BY <1>0, <2>1, TakeIs DEF Others
  <2>3. latched /\ emergency' = emergency
    BY <1>3 DEF Unlatch, ClearAxis, InBounds, Forget, control
  <2> QED BY <2>2, <2>3 DEF LatchInv, StopKept
<1>4. ASSUME UpdateControl \/ ClearErrors \/ (\E a \in Axes : SetDrvType(a)) \/ (\E to \in {"absent", "suspended"} : UsbSuspend(to))
      PROVE  todo'["exti"] \in Seq(StopSteps) /\ StopKept'
  <2>1. PICK t \in {"ffb", "cmd", "usb"} : \E steps : Begin(t, steps)
    BY <1>4 DEF UpdateControl, ClearErrors, SetDrvType, UsbSuspend
  <2>2. latched /\ emergency' = emergency
    BY <1>4 DEF UpdateControl, ClearErrors, SetDrvType, UsbSuspend, control
  <2>3. Others(t) /\ todo[t] = <<>>
    BY <1>0, <2>1, BeginIs
  <2>4. todo'["exti"] = todo["exti"] /\ (Has(todo["ffb"], FlagOn) => todo'["ffb"] = todo["ffb"])
    BY <1>0, <2>1, <2>3, HasNothing DEF Others
  <2> QED BY <2>2, <2>4 DEF LatchInv, StopKept
<1>5. CASE UsbResume
  <2>1. Begin("usb", ResumeAxes) /\ emergency' = (emergency /\ pressed) /\ latched' = (latched /\ pressed)
    BY <1>5 DEF UsbResume
  <2>2. todo'["exti"] = todo["exti"] /\ todo'["ffb"] = todo["ffb"]
    BY <1>0, <2>1, BeginIs DEF Others
  <2>3. latched /\ emergency' = emergency
    BY <1>0, <2>1 DEF TypedInv, TypeOK
  <2> QED BY <2>2, <2>3 DEF LatchInv, StopKept
<1>6. CASE Exti
  <2>1. Others("exti") /\ todo["exti"] = <<>> /\ emergency' = emergency
    BY <1>6, ExtiIs DEF Exti, control
  <2>2. todo'["ffb"] = todo["ffb"]
    BY <1>0, <2>1 DEF Others
  <2>3. CASE todo'["exti"] = EmergencyStop(FALSE)
    BY <1>0, <2>3, StopFacts DEF StopKept
  <2>4. CASE todo'["exti"] = <<>> /\ latched
    BY <2>1, <2>2, <2>4 DEF LatchInv, StopKept
  <2> QED BY <1>6, <2>3, <2>4, ExtiIs
<1>7. CASE PushButton \/ SecondPasses \/ Connect \/ UNCHANGED vars \/ \E a \in Axes : TurnAxis(a)
  <2>1. UNCHANGED todo /\ latched /\ emergency' = emergency
    BY <1>7, NoLists DEF PushButton, SecondPasses, Connect, TurnAxis, vars, control
  <2> QED BY <2>1 DEF LatchInv, StopKept
<1>8. ~CriticalError /\ \A on \in BOOLEAN : ~EstopCommand(on)
    BY DEF CriticalError, EstopCommand, Free
<1> QED BY <1>1, <1>2, <1>3, <1>4, <1>5, <1>6, <1>7, <1>8 DEF Next, Act

\* With types: the invariant of all the following ones.
Shaped == TypedInv /\ ("criticalError" \notin events => ShapeInv)

LEMMA ShapedAlways == Spec => []Shaped
<1>1. Init => ("criticalError" \notin events => ShapeInv)
    BY ShapeInit
<1>2. TypedInv /\ ("criticalError" \notin events => ShapeInv) /\ [Next]_vars => ("criticalError" \notin events => ShapeInv)'
  <2>1. [Next]_vars => events' = events
    BY DEF Next, vars, events
  <2> QED BY <2>1, ShapeStep
<1> QED BY <1>1, <1>2, TypedAlways, PTL DEF Spec, Shaped

\* A stop by the button lasts until the button is released or the host comes
\* back to a released button: neither the loop's start, nor a command, nor the
\* USB callbacks can take it back, whatever the threads interleave.
THEOREM StopByButtonHolds == Spec => []ButtonStopHolds
<1>1. [Next]_vars => events' = events
    BY DEF Next, vars, events
<1>2. Init => (Free => LatchInv)
    BY HasNothing DEF Init, LatchInv
<1>3. Shaped /\ (Free => LatchInv) /\ [Next]_vars => (Free => LatchInv)'
    BY <1>1, LatchStep DEF Shaped, Free
<1>4. Shaped /\ (Free => LatchInv) => ButtonStopHolds
  <2> SUFFICES ASSUME Free => LatchInv, Only(KnownEvents \ {"estopCommand", "criticalError"}), Quiet, latched
               PROVE  emergency
    BY DEF ButtonStopHolds
  <2>1. Free
    BY DEF Only, Free
  <2>2. todo["exti"] = <<>> /\ todo["ffb"] = <<>>
    BY DEF Quiet, Idle, Thread
  <2> QED BY <2>1, <2>2, HasNothing DEF LatchInv, StopKept
<1> QED BY <1>2, <1>3, <1>4, ShapedAlways, PTL DEF Spec
-----------------------------------------------------------------------------
(* Out of its range an axis has no torque                                  *)

\* Without preemption inside turn, and without critical errors: torque is only
\* on a running motor, is zero before the motor is turned off or recorded as
\* out of bounds, and the loop does not drive a motor that is.
Serial == "criticalError" \notin events /\ "insideTurn" \notin events

HeadOf(t, fs, a) == todo[t] # <<>> /\ Head(todo[t]).f \in fs /\ Axis(t) = a
Stopping(t, a) == todo[t] # <<>> /\ AfterStop(Head(todo[t])) /\ Axis(t) = a

DriveInv ==
    \A a \in Axes :
        /\ torque[a] => active[a]
        /\ \A t \in Thread : Stopping(t, a) => ~torque[a]
        /\ HeadOf("ffb", {"set"}, a) => active[a]
        /\ outOfBounds[a] => ~torque[a] /\ (HeadOf("ffb", {"turn", "set"}, a) => ~Value("ffb"))

Opened(t) == todo'[t] # <<>> => Opens(Head(todo'[t]))

LEMMA BeginsIs ==
    ASSUME NEW l \in Seq(AnyStep), Begins(l)
    PROVE  l # <<>> => Opens(Head(l))
BY HeadTailProperties DEF Begins

LEMMA BeginsJoin ==
    ASSUME NEW x \in Seq(AnyStep), NEW y \in Seq(AnyStep), Begins(x), Begins(y)
    PROVE  Begins(x \o y)
<1>1. CASE x = <<>>
    BY <1>1, ConcatEmptySeq
<1>2. CASE x # <<>>
  <2>1. (x \o y)[1] = x[1]
    BY <1>2, ConcatProperties, LenProperties, EmptySeq
  <2> QED BY <1>2, <2>1 DEF Begins
<1> QED BY <1>1, <1>2

LEMMA TakeOpens ==
    ASSUME ChainInv, NEW t \in Thread, NEW f, NEW steps \in Calls, Take(t, f, steps),
           f \notin {"turn", "set", "drive"}
    PROVE  Opened(t)
<1>1. Begins(Rest(t)) /\ Rest(t) \in Seq(AnyStep) /\ todo'[t] = steps \o Rest(t)
    BY RestBegins, TakeIs
<1>2. steps \in Seq(AnyStep) /\ Begins(steps)
    BY DEF Calls, Chained
<1>3. Begins(todo'[t]) /\ todo'[t] \in Seq(AnyStep)
    BY <1>1, <1>2, BeginsJoin, ConcatProperties
<1> QED BY <1>3, BeginsIs DEF Opened

LEMMA BeginOpens ==
    ASSUME ChainInv, NEW t \in Thread, NEW steps \in Chained, Begins(steps), Begin(t, steps)
    PROVE  Opened(t)
<1>1. todo'[t] = steps /\ steps \in Seq(AnyStep)
    BY BeginIs DEF Chained
<1> QED BY <1>1, BeginsIs DEF Opened

\* After a step whose list goes on with any step but the end of a stop.
LEMMA DriveOpen ==
    ASSUME TypedInv, DriveInv, NEW t \in Thread, Opened(t), Others(t), Axes' = Axes,
           UNCHANGED <<active, torque>>,
           \A a \in Axes : outOfBounds'[a] => outOfBounds[a] \/ (t = "ffb" /\ ~torque[a])
    PROVE  DriveInv'
<1> SUFFICES ASSUME NEW a \in Axes
             PROVE  /\ torque'[a] => active'[a]
                    /\ \A u \in Thread : Stopping(u, a)' => ~torque'[a]
                    /\ HeadOf("ffb", {"set"}, a)' => active'[a]
                    /\ outOfBounds'[a] => ~torque'[a] /\ (HeadOf("ffb", {"turn", "set"}, a)' => ~Value("ffb")')
    BY DEF DriveInv
<1>0. /\ torque[a] => active[a]
      /\ \A u \in Thread : Stopping(u, a) => ~torque[a]
      /\ HeadOf("ffb", {"set"}, a) => active[a]
      /\ outOfBounds[a] => ~torque[a] /\ (HeadOf("ffb", {"turn", "set"}, a) => ~Value("ffb"))
    BY DEF DriveInv
<1>1. ASSUME NEW u \in Thread PROVE Stopping(u, a)' => ~torque'[a]
  <2>1. CASE u = t
    BY <2>1 DEF Opened, Opens, Stopping
  <2>2. CASE u # t
    <3>1. todo'[u] = todo[u]
        BY <2>2 DEF Others
    <3> QED BY <1>0, <3>1 DEF Stopping, Axis
  <2> QED BY <2>1, <2>2
<1>2. CASE t = "ffb"
  <2>1. ~HeadOf("ffb", {"set"}, a)'
    BY <1>2 DEF HeadOf, Opened, Opens
  <2>2. HeadOf("ffb", {"turn", "set"}, a)' => ~Value("ffb")'
    BY <1>2 DEF HeadOf, Opened, Opens, Value
  <2> QED BY <1>0, <1>1, <2>1, <2>2
<1>3. CASE t # "ffb"
  <2>1. todo'["ffb"] = todo["ffb"]
    BY <1>3 DEF Others, Thread
  <2> QED BY <1>0, <1>1, <1>3, <2>1 DEF HeadOf, Axis, Value
<1> QED BY <1>2, <1>3

\* The head of what follows an elementary step that brings no call.
LEMMA NextMay ==
    ASSUME ChainInv, NEW t \in Thread, NEW f, Take(t, f, <<>>)
    PROVE  /\ todo'[t] = Rest(t)
           /\ todo'[t] # <<>> => May(Head(todo[t]), Head(todo'[t])) /\ Head(todo'[t]).a = Axis(t)'
<1>1. todo[t] \in Chained /\ todo[t] # <<>> /\ Rest(t) \in Seq(AnyStep) /\ todo'[t] = Rest(t)
    BY TakeIs, TakeNothing
<1>2. Rest(t) # <<>> => May(Head(todo[t]), Rest(t)[1])
    BY <1>1, ChainTail DEF Rest
<1>3. Rest(t) # <<>> => Head(Rest(t)) = Rest(t)[1]
    BY <1>1, HeadTailProperties
<1> QED BY <1>1, <1>2, <1>3 DEF Axis

LEMMA WhoAdds ==
    ASSUME TypedInv, ShapeInv, NEW t \in Thread, NEW steps, Take(t, "addError", steps)
    PROVE  t = "ffb" /\ ~Value(t)
<1>1. todo[t] # <<>> /\ Head(todo[t]).f = "addError"
    BY TakeIs DEF TypedInv
<1>2. \A s \in CommandSteps : s.f # "addError"
    BY DEF CommandSteps, ClearSteps, StopSteps, ReleaseSteps, Still, Of
<1>3. t # "usb" /\ t # "cmd" /\ t # "drv" /\ t # "exti"
    BY <1>1, <1>2, HeadTailProperties, OnlyIn DEF ShapeInv
<1>4. t = "ffb"
    BY <1>3 DEF Thread
<1>5. todo["ffb"] \in Seq(LoopSteps)
    BY <1>1, <1>4, HeadTailProperties, OnlyIn DEF ShapeInv
<1>6. \A s \in LoopSteps : s.f = "addError" => ~s.v
    BY ShapesClosed DEF Closed
<1> QED BY <1>1, <1>4, <1>5, <1>6, HeadTailProperties DEF Value

\* Only the loop drives a motor.
LEMMA WhoDrives ==
    ASSUME TypedInv, ShapeInv, NEW t \in Thread, todo[t] # <<>>, Head(todo[t]).f \in {"turn", "set"}, Value(t)
    PROVE  t = "ffb" /\ todo["ffb"] \in Seq(LoopSteps) /\ todo["ffb"] \notin Seq(ColdSteps)
<1>1. t # "usb" /\ t # "cmd" /\ t # "drv" /\ t # "exti"
    BY HeadTailProperties, OnlyIn DEF ShapeInv, Value
<1>2. t = "ffb"
    BY <1>1 DEF Thread
<1>3. todo["ffb"] \in Seq(LoopSteps) /\ todo["ffb"] \notin Seq(ColdSteps)
    BY <1>2, HeadTailProperties, OnlyIn DEF ShapeInv, Value
<1> QED BY <1>2, <1>3

LEMMA DriveElementary ==
    ASSUME TypedInv, Serial, ShapeInv, DriveInv, NEW t \in Thread, NEW f \in {"flag", "turn", "set", "drive", "addError"},
           NEW steps \in Seq(AnyStep), Elementary(t, f, steps)
    PROVE  DriveInv'
<1>0. /\ ChainInv /\ Thread = {"exti", "usb", "cmd", "ffb", "drv"} /\ scenario \in Scenarios
      /\ Axes' = Axes /\ Take(t, f, steps) /\ outOfBounds' = outOfBounds
      /\ active \in [Axes -> BOOLEAN] /\ torque \in [Axes -> BOOLEAN]
    BY DEF TypedInv, Thread, TypeOK, Elementary, Axes
<1>1. /\ todo[t] # <<>> /\ Head(todo[t]) \in AnyStep /\ Head(todo[t]).f = f /\ Others(t) /\ Scheduled(t)
      /\ Head(todo[t]).a = Axis(t) /\ Head(todo[t]).v = Value(t) /\ Axis(t) \in Nat /\ Value(t) \in BOOLEAN
    BY <1>0, TakeIs, HeadIs DEF Axis, Value
<1>2. CASE f = "flag" \/ f = "addError"
  <2>1. steps = <<>>
    <3>1. CASE f = "flag"
        BY <3>1 DEF Elementary
    <3>2. CASE f = "addError"
        BY <1>0, <3>2, WhoAdds DEF Elementary
    <3> QED BY <1>2, <3>1, <3>2
  <2>2. Opened(t)
    BY <1>0, <1>2, <2>1, NoCalls, TakeOpens
  <2>3. UNCHANGED <<active, torque>>
    BY <1>2 DEF Elementary
  <2> QED BY <1>0, <1>1, <2>2, <2>3, DriveOpen
<1> SUFFICES ASSUME f \in {"turn", "set", "drive"}, NEW a \in Axes
             PROVE  /\ torque'[a] => active'[a]
                    /\ \A u \in Thread : Stopping(u, a)' => ~torque'[a]
                    /\ HeadOf("ffb", {"set"}, a)' => active'[a]
                    /\ outOfBounds'[a] => ~torque'[a] /\ (HeadOf("ffb", {"turn", "set"}, a)' => ~Value("ffb")')
    BY <1>0, <1>2 DEF DriveInv
<1>3. /\ torque[a] => active[a]
      /\ \A u \in Thread : Stopping(u, a) => ~torque[a]
      /\ HeadOf("ffb", {"set"}, a) => active[a]
      /\ outOfBounds[a] => ~torque[a] /\ (HeadOf("ffb", {"turn", "set"}, a) => ~Value("ffb"))
    BY DEF DriveInv
\* The lists of the other threads.
<1>4. ASSUME NEW u \in Thread, u # t
      PROVE  (Stopping(u, a)' <=> Stopping(u, a)) /\ (\A fs : HeadOf(u, fs, a)' <=> HeadOf(u, fs, a)) /\ Value(u)' = Value(u)
  <2>1. todo'[u] = todo[u]
    BY <1>1, <1>4 DEF Others
  <2> QED BY <2>1 DEF Stopping, HeadOf, Axis, Value
\* The list of this one goes on with what may follow.
<1>5. ASSUME steps = <<>>
      PROVE  /\ ~HeadOf(t, {"set"}, a)' /\ (HeadOf(t, {"turn", "set"}, a)' => ~Value(t)')
             /\ Stopping(t, a)' => ~Value(t) /\ Axis(t) = a
  <2>1. /\ todo'[t] = Rest(t)
        /\ todo'[t] # <<>> => May(Head(todo[t]), Head(todo'[t])) /\ Head(todo'[t]).a = Axis(t)'
    BY <1>0, <1>5, NextMay
  <2> QED BY <1>1, <2>1 DEF May, AfterStop, Stopping, HeadOf, Value, Axis
<1>6. CASE f = "turn"
  <2>1. active' = active /\ torque' = torque
    BY <1>6 DEF Elementary
  <2>2. CASE active[Axis(t)]
    <3>1. steps = <<[f |-> "set", a |-> Axis(t), v |-> Value(t)]>>
        BY <1>6, <2>2 DEF Elementary, Do
    <3>2. todo'[t] = <<[f |-> "set", a |-> Axis(t), v |-> Value(t)]>> \o Rest(t) /\ Rest(t) \in Seq(AnyStep)
        BY <1>0, <3>1, TakeIs
    <3>3. [f |-> "set", a |-> Axis(t), v |-> Value(t)] \in AnyStep
        BY <1>1 DEF AnyStep, Of, StepNames
    <3>4. Head(todo'[t]) = [f |-> "set", a |-> Axis(t), v |-> Value(t)]
        BY <3>2, <3>3, HeadOfJoin
    <3>5. ~Stopping(t, a)' /\ Axis(t)' = Axis(t) /\ Value(t)' = Value(t)
        BY <3>4 DEF Stopping, AfterStop, Axis, Value
    <3>6. \A fs : HeadOf(t, fs, a)' => HeadOf(t, {"turn"}, a)
        BY <1>1, <1>6, <3>5 DEF HeadOf
    <3>7. CASE t = "ffb"
        <4>1. HeadOf("ffb", {"set"}, a)' => active[a]
            BY <2>2, <3>5, <3>7 DEF HeadOf
        <4>2. HeadOf("ffb", {"turn"}, a) => HeadOf("ffb", {"turn", "set"}, a)
            BY DEF HeadOf
        <4> QED BY <1>0, <1>3, <1>4, <2>1, <3>5, <3>6, <3>7, <4>1, <4>2
    <3>8. CASE t # "ffb"
        BY <1>0, <1>3, <1>4, <2>1, <3>5, <3>8
    <3> QED BY <3>7, <3>8
  <2>3. CASE ~active[Axis(t)]
    <3>1. steps = <<>>
        BY <1>6, <2>3 DEF Elementary
    <3>2. Stopping(t, a)' => ~torque[a]
        BY <1>3, <1>5, <2>3, <3>1
    <3> QED BY <1>0, <1>3, <1>4, <1>5, <2>1, <3>1, <3>2
  <2> QED BY <2>2, <2>3
<1>7. CASE f = "set"
  <2>1. active' = active /\ torque' = [torque EXCEPT ![Axis(t)] = Value(t)] /\ steps = <<>>
    BY <1>7 DEF Elementary
  <2>2. torque'[a] = IF a = Axis(t) THEN Value(t) ELSE torque[a]
    BY <1>0, <2>1
  <2>3. CASE a = Axis(t) /\ Value(t)
    <3>1. t = "ffb"
        BY <1>1, <1>7, <2>3, WhoDrives
    <3>2. HeadOf("ffb", {"set"}, a) /\ HeadOf("ffb", {"turn", "set"}, a)
        BY <1>1, <1>7, <2>3, <3>1 DEF HeadOf
    <3>3. \A u \in Thread : u # t => todo[u] = <<>>
        BY <1>0, <1>1, <3>1, Waits DEF Serial, ShapeInv
    <3>4. \A u \in Thread : ~Stopping(u, a)'
        BY <1>4, <1>5, <2>1, <2>3, <3>3 DEF Stopping
    <3> QED BY <1>0, <1>3, <1>5, <2>1, <2>3, <3>1, <3>2, <3>4
  <2>4. CASE ~(a = Axis(t) /\ Value(t))
    <3>1. torque'[a] => torque[a] /\ a # Axis(t)
        BY <2>2, <2>4
    <3> QED BY <1>0, <1>3, <1>4, <1>5, <2>1, <3>1
  <2> QED BY <2>3, <2>4
<1>8. CASE f = "drive"
  <2>1. active' = [active EXCEPT ![Axis(t)] = Value(t)] /\ torque' = torque /\ steps = <<>>
    BY <1>8 DEF Elementary
  <2>2. active'[a] = IF a = Axis(t) THEN Value(t) ELSE active[a]
    BY <1>0, <2>1
  <2>3. a = Axis(t) /\ ~Value(t) => ~torque[a]
    <3>1. a = Axis(t) /\ ~Value(t) => Stopping(t, a)
        BY <1>1, <1>8 DEF Stopping, AfterStop
    <3> QED BY <1>3, <3>1
  <2>4. ~HeadOf("ffb", {"set"}, a)'
    <3>1. CASE t = "ffb"
        BY <1>5, <2>1, <3>1 DEF HeadOf, Axis
    <3>2. CASE t # "ffb"
        <4>1. ~InsideTurn
            BY <1>1, <3>2, Waits DEF Serial
        <4>2. todo'["ffb"] = todo["ffb"]
            BY <1>0, <1>1, <3>2 DEF Others
        <4> QED BY <4>1, <4>2 DEF HeadOf, InsideTurn, Idle
    <3> QED BY <3>1, <3>2
  <2> QED BY <1>0, <1>3, <1>4, <1>5, <2>1, <2>2, <2>3, <2>4
<1> QED BY <1>6, <1>7, <1>8

LEMMA DriveLoop ==
    ASSUME TypedInv, Serial, DriveInv, Boot \/ Stamp \/ Prepare \/ LeaveRange \/ Gate \/ UpdateDriveTorque, Next
    PROVE  DriveInv'
<1>0. /\ ChainInv /\ "ffb" \in Thread /\ Axes' = Axes /\ outOfBounds \in [Axes -> BOOLEAN] /\ scenario \in Scenarios
    BY DEF TypedInv, Thread, TypeOK, Next, Axes
<1>1. PICK f \in {"boot", "stamp", "prepare", "range", "gate", "update"}, steps \in Seq(AnyStep) :
            Looping(f, steps) /\ (f # "update" => steps \in Calls)
    BY LoopStepIs
<1>2. Take("ffb", f, steps) /\ UNCHANGED <<active, torque>>
    BY <1>1 DEF Looping
<1>3. /\ todo["ffb"] # <<>> /\ Head(todo["ffb"]) \in AnyStep /\ Head(todo["ffb"]).f = f /\ Others("ffb")
      /\ Rest("ffb") \in Seq(AnyStep) /\ Axis("ffb") \in Nat
    BY <1>0, <1>2, TakeIs, HeadIs
<1>4. ASSUME NEW a \in Axes, outOfBounds'[a] PROVE outOfBounds[a] \/ ~torque[a]
  <2>1. CASE f \notin {"prepare", "range"}
    BY <1>1, <1>4, <2>1 DEF Looping
  <2>2. CASE f = "prepare"
    <3>1. outOfBounds' \in {[outOfBounds EXCEPT ![Axis("ffb")] = FALSE], outOfBounds}
        BY <1>1, <2>2 DEF Looping
    <3> QED BY <1>0, <1>4, <3>1
  <2>3. CASE f = "range"
    <3>1. outOfBounds' = [outOfBounds EXCEPT ![Axis("ffb")] = TRUE]
        BY <1>1, <2>3 DEF Looping
    <3>2. CASE a = Axis("ffb")
        <4>1. Stopping("ffb", a)
            BY <1>3, <2>3, <3>2 DEF Stopping, AfterStop
        <4> QED BY <1>0, <4>1 DEF DriveInv
    <3>3. CASE a # Axis("ffb")
        BY <1>0, <1>4, <3>1, <3>3
    <3> QED BY <3>2, <3>3
  <2> QED BY <2>1, <2>2, <2>3
<1>5. CASE steps \in Calls
  <2>1. Opened("ffb")
    BY <1>0, <1>2, <1>5, TakeOpens
  <2> QED BY <1>0, <1>2, <1>3, <1>4, <2>1, DriveOpen
<1>6. CASE f = "update"
  <2>0. outOfBounds' = outOfBounds
    BY <1>1, <1>6 DEF Looping
  <2>1. CASE steps = <<>>
    <3>1. Opened("ffb")
        BY <1>0, <1>2, <1>6, <2>1, NoCalls, TakeOpens
    <3> QED BY <1>0, <1>2, <1>3, <1>4, <3>1, DriveOpen
  <2>2. ASSUME NEW v \in BOOLEAN, outOfBounds[Axis("ffb")] => ~v, steps = Turn(Axis("ffb"), v)
        PROVE  DriveInv'
    <3> DEFINE s == [f |-> "turn", a |-> Axis("ffb"), v |-> v]
    <3>1. steps = <<s>> /\ s \in AnyStep
        BY <1>3, <2>2 DEF Turn, Do, AnyStep, Of, StepNames
    <3>2. s.f = "turn" /\ s.a = Axis("ffb") /\ s.v = v
        OBVIOUS
    <3> HIDE DEF s
    <3>3. todo'["ffb"] = <<s>> \o Rest("ffb")
        BY <1>0, <1>2, <3>1, TakeIs
    <3>4. Head(todo'["ffb"]) = s
        BY <1>3, <3>1, <3>3, HeadOfJoin
    <3>5. Axis("ffb")' = Axis("ffb") /\ Value("ffb")' = v
        BY <3>2, <3>4 DEF Axis, Value
    <3>6. ASSUME NEW a \in Axes
          PROVE  /\ torque'[a] => active'[a]
                 /\ \A u \in Thread : Stopping(u, a)' => ~torque'[a]
                 /\ HeadOf("ffb", {"set"}, a)' => active'[a]
                 /\ outOfBounds'[a] => ~torque'[a] /\ (HeadOf("ffb", {"turn", "set"}, a)' => ~Value("ffb")')
        <4>1. /\ torque[a] => active[a]
              /\ \A u \in Thread : Stopping(u, a) => ~torque[a]
              /\ outOfBounds[a] => ~torque[a]
            BY DEF DriveInv
        <4>2. ASSUME NEW u \in Thread PROVE Stopping(u, a)' => ~torque'[a]
            <5>1. CASE u = "ffb"
                BY <3>2, <3>4, <5>1 DEF Stopping, AfterStop
            <5>2. CASE u # "ffb"
                <6>1. todo'[u] = todo[u]
                    BY <1>3, <5>2 DEF Others
                <6> QED BY <1>2, <4>1, <6>1 DEF Stopping, Axis
            <5> QED BY <5>1, <5>2
        <4>3. ~HeadOf("ffb", {"set"}, a)'
            BY <3>2, <3>4 DEF HeadOf
        <4>4. outOfBounds[a] /\ HeadOf("ffb", {"turn", "set"}, a)' => ~Value("ffb")'
            BY <2>2, <3>5 DEF HeadOf
        <4> QED BY <1>2, <2>0, <4>1, <4>2, <4>3, <4>4
    <3> QED BY <1>0, <3>6 DEF DriveInv
  <2> QED BY <1>1, <1>6, <2>1, <2>2 DEF Looping
<1> QED BY <1>1, <1>5, <1>6

LEMMA DriveStep ==
    ASSUME TypedInv, Serial, ShapeInv, DriveInv, [Next]_vars
    PROVE  DriveInv'
<1>0. /\ ChainInv /\ Thread = {"exti", "usb", "cmd", "ffb", "drv"} /\ scenario \in Scenarios
      /\ active \in [Axes -> BOOLEAN] /\ torque \in [Axes -> BOOLEAN] /\ outOfBounds \in [Axes -> BOOLEAN]
    BY DEF TypedInv, Thread, TypeOK
<1>00. Axes' = Axes
    BY DEF Next, vars, Axes
<1>1. ASSUME NEW t \in Thread, Steps(t), Next PROVE DriveInv'
  <2>1. PICK f \in {"flag", "turn", "set", "drive", "addError"}, steps \in Seq(AnyStep) : Elementary(t, f, steps)
    BY <1>1, StepIs
  <2> QED BY <2>1, DriveElementary
<1>2. CASE (Boot \/ Stamp \/ Prepare \/ LeaveRange \/ Gate \/ UpdateDriveTorque) /\ Next
    BY <1>2, DriveLoop
\* Calls that begin.
<1>3. ASSUME UpdateControl \/ Exti \/ ClearErrors \/ UsbResume \/ (\E on \in BOOLEAN : EstopCommand(on))
             \/ (\E to \in {"absent", "suspended"} : UsbSuspend(to))
      PROVE  DriveInv'
  <2>1. PICK t \in Thread, steps \in Chained : Begins(steps) /\ Begin(t, steps)
    <3>0. \A x \in Calls : x \in Chained /\ Begins(x)
        BY DEF Calls
    <3>1. CASE UpdateControl
        BY <1>0, <3>0, <3>1, LoopFacts DEF UpdateControl
    <3>2. CASE Exti
        <4>1. PICK x \in {EmergencyStop(TRUE), EmergencyStop(FALSE), <<>>} : Begin("exti", x)
            <5>1. CASE pressed
                BY <3>2, <5>1 DEF Exti
            <5>2. CASE ~pressed
                BY <3>2, <5>2 DEF Exti
            <5> QED BY <5>1, <5>2
        <4> QED BY <1>0, <3>0, <4>1, StopFacts, ResetFacts, NoCalls
    <3>3. CASE ClearErrors
        BY <1>0, <3>3, LoopFacts DEF ClearErrors
    <3>4. CASE UsbResume
        BY <1>0, <3>0, <3>4, UsbFacts DEF UsbResume
    <3>5. ASSUME NEW on \in BOOLEAN, EstopCommand(on) PROVE \E x \in Calls : Begin("cmd", x)
        <4>1. PICK p \in {Do("unlatch", 0, TRUE), <<>>}, e \in {EmergencyStop(TRUE), EmergencyStop(FALSE)} : Begin("cmd", p \o e)
            <5>1. CASE on
                BY <3>5, <5>1 DEF EstopCommand
            <5>2. CASE ~on
                BY <3>5, <5>2 DEF EstopCommand
            <5> QED BY <5>1, <5>2
        <4>2. p \o e \in Calls
            BY <1>0, StopFacts, ResetFacts, Singles, NoCalls, CallsJoin
        <4> QED BY <4>1, <4>2
    <3>6. ASSUME NEW to, UsbSuspend(to) PROVE \E x \in Calls : Begin("usb", x)
        BY <1>0, <3>6, UsbFacts, NoCalls DEF UsbSuspend
    <3> QED BY <1>0, <1>3, <3>0, <3>1, <3>2, <3>3, <3>4, <3>5, <3>6
  <2>2. Opened(t) /\ Others(t)
    BY <1>0, <2>1, BeginOpens, BeginIs
  <2>3. UNCHANGED <<active, torque, outOfBounds>>
    BY <1>3 DEF UpdateControl, Exti, ClearErrors, UsbResume, EstopCommand, UsbSuspend, motors
  <2> QED BY <1>00, <2>2, <2>3, DriveOpen
\* Steps of the commands.
<1>4. ASSUME Unlatch \/ ClearAxis \/ InBounds \/ Forget
      PROVE  DriveInv'
  <2>1. PICK f \in {"unlatch", "clearAxis", "inBounds", "forget"}, steps \in Calls : Take("cmd", f, steps)
    <3>1. CASE ClearAxis
        <4>1. PICK steps \in {StartMotor(Axis("cmd")) \o Do("inBounds", Axis("cmd"), TRUE), <<>>} : Take("cmd", "clearAxis", steps)
            BY <3>1 DEF ClearAxis
        <4>2. Axis("cmd") \in Nat
            BY <1>0, <4>1, TakeIs, HeadIs
        <4> QED BY <4>1, <4>2, Singles, NoCalls
    <3>2. CASE Unlatch \/ InBounds \/ Forget
        BY <3>2, NoCalls DEF Unlatch, InBounds, Forget
    <3> QED BY <1>4, <3>1, <3>2
  <2>2. Opened("cmd") /\ Others("cmd")
    BY <1>0, <2>1, TakeOpens, TakeIs
  <2>3. UNCHANGED <<active, torque>> /\ outOfBounds' \in {outOfBounds, [outOfBounds EXCEPT ![Axis("cmd")] = FALSE]}
    BY <1>4 DEF Unlatch, ClearAxis, InBounds, Forget, motors
  <2>4. \A a \in Axes : outOfBounds'[a] => outOfBounds[a]
    BY <1>0, <2>3
  <2> QED BY <1>0, <1>00, <2>2, <2>3, <2>4, DriveOpen
<1>5. ASSUME NEW b \in Axes, SetDrvType(b)
      PROVE  DriveInv'
  <2>1. /\ active' = [active EXCEPT ![b] = host # "absent"] /\ torque' = [torque EXCEPT ![b] = FALSE]
        /\ outOfBounds' = outOfBounds /\ Begin("cmd", <<>>)
    BY <1>5 DEF SetDrvType
  <2>2. todo["cmd"] = <<>> /\ todo'["cmd"] = <<>> /\ Others("cmd") /\ Scheduled("cmd")
    BY <1>0, <2>1, BeginIs
  <2>3. ~InsideTurn
    BY <1>0, <2>2, Waits DEF Serial
  <2>4. \A u \in Thread : todo'[u] = todo[u]
    BY <2>2 DEF Others
  <2>5. ASSUME NEW a \in Axes
        PROVE  /\ torque'[a] => active'[a]
               /\ \A u \in Thread : Stopping(u, a)' => ~torque'[a]
               /\ HeadOf("ffb", {"set"}, a)' => active'[a]
               /\ outOfBounds'[a] => ~torque'[a] /\ (HeadOf("ffb", {"turn", "set"}, a)' => ~Value("ffb")')
    <3>1. torque'[a] => torque[a] /\ a # b
        BY <1>0, <2>1
    <3>2. a # b => active'[a] = active[a]
        BY <1>0, <2>1
    <3>3. \A u \in Thread : Stopping(u, a)' <=> Stopping(u, a)
        BY <2>4 DEF Stopping, Axis
    <3>4. ~HeadOf("ffb", {"set"}, a)'
        BY <1>0, <2>3, <2>4 DEF HeadOf, InsideTurn, Idle
    <3>5. HeadOf("ffb", {"turn", "set"}, a)' => HeadOf("ffb", {"turn", "set"}, a) /\ Value("ffb")' = Value("ffb")
        BY <1>0, <2>4 DEF HeadOf, Axis, Value
    <3>6. /\ torque[a] => active[a]
          /\ \A u \in Thread : Stopping(u, a) => ~torque[a]
          /\ outOfBounds[a] => ~torque[a] /\ (HeadOf("ffb", {"turn", "set"}, a) => ~Value("ffb"))
        BY DEF DriveInv
    <3> QED BY <2>1, <3>1, <3>2, <3>3, <3>4, <3>5, <3>6
  <2> QED BY <1>00, <2>5 DEF DriveInv
<1>6. CASE PushButton \/ SecondPasses \/ Connect \/ UNCHANGED vars \/ \E a \in Axes : TurnAxis(a)
  <2>1. UNCHANGED <<todo, active, torque, outOfBounds>>
    BY <1>6, NoLists DEF PushButton, SecondPasses, Connect, TurnAxis, vars, motors
  <2> QED BY <1>00, <2>1 DEF DriveInv, Stopping, HeadOf, Axis, Value
<1>7. ~CriticalError
    BY DEF CriticalError, Serial
<1> QED BY <1>1, <1>2, <1>3, <1>4, <1>5, <1>6, <1>7 DEF Next, Act

LEMMA DriveInit == Init => DriveInv
<1> SUFFICES ASSUME Init PROVE DriveInv
    OBVIOUS
<1>1. /\ scenario \in Scenarios /\ \A a \in Axes : ~torque[a] /\ ~outOfBounds[a]
      /\ todo["ffb"] = Do("boot", 0, TRUE)
    BY DEF Init, Thread
<1>2. Head(todo["ffb"]).f = "boot"
    BY <1>1 DEF Do
<1> QED BY <1>1, <1>2 DEF DriveInv, HeadOf


\* An axis that was shut down because it is far outside its range produces no
\* torque, whatever starts motors in between: the loop's range check, the clear
\* of the error, the stop, the USB callbacks and new drivers keep the order of
\* zero torque, motor off and the mark of the axis.
THEOREM OutsideNoTorque == Spec => [](Serial => OutOfBoundsMeansNoTorque)
<1>1. [Next]_vars => events' = events
    BY DEF Next, vars, events
<1>2. Init => (Serial => DriveInv)
    BY DriveInit
<1>3. Shaped /\ (Serial => DriveInv) /\ [Next]_vars => (Serial => DriveInv)'
    BY <1>1, DriveStep DEF Shaped, Serial
<1>4. (Serial => DriveInv) => (Serial => OutOfBoundsMeansNoTorque)
    BY DEF DriveInv, OutOfBoundsMeansNoTorque, Driven
<1> QED BY <1>2, <1>3, <1>4, ShapedAlways, PTL DEF Spec
-----------------------------------------------------------------------------
(* An emergency                                                            *)

\* Calls preempt by priority, and only the interrupt and the start of the loop
\* raise an emergency.
Local == Only(KnownEvents \ {"estopCommand", "criticalError", "insideTurn"})

\* The loop may still drive a motor.
Hot == todo["ffb"] \notin Seq(ColdSteps) /\ todo["ffb"] \notin Seq(BootSteps)

\* The interrupt's call has still to turn off each motor that is on, or it ends
\* the emergency first; when it is done, the motors are off and a loop that read
\* the flag before it was raised finds them so, unless a call starts them again.
StopRuns ==
    /\ todo["exti"] \in Seq(StopSteps)
    /\ \A a \in Axes : Has(todo["exti"], DriveOff(a)) \/ (~active[a] /\ ~torque[a])
ResetRuns == todo["exti"] \in Seq(ReleaseSteps) /\ (emergency => Head(todo["exti"]).f = "flag")

EmergencyInv ==
    /\ (\E a \in Axes : torque[a]) => todo["ffb"] \in Seq(LoopSteps)
    /\ todo["exti"] = <<>> /\ emergency =>
            \A a \in Axes \ restarted : ~torque[a] /\ (Hot => ~active[a])
    /\ todo["exti"] # <<>> => StopRuns \/ ResetRuns

LEMMA LocalIs ==
    ASSUME Local
    PROVE  Serial /\ Free
BY DEF Local, Only, Serial, Free, KnownEvents

\* A motor that is not restarted in an emergency that lasts is not turned on.
Noted == emergency /\ emergency' => \A a \in Axes \ restarted' : a \notin restarted /\ (active'[a] => active[a])

LEMMA NotedStep ==
    ASSUME [Next]_vars
    PROVE  Noted
<1>1. CASE Next
    BY <1>1 DEF Next, NoteRestarts, Noted
<1>2. CASE UNCHANGED vars
    BY <1>2 DEF vars, Noted
<1> QED BY <1>1, <1>2

\* A step of another thread that drives no motor and raises no emergency.
LEMMA CalmStep ==
    ASSUME EmergencyInv, Noted, Axes' = Axes, todo["exti"] = <<>>, todo'["exti"] = <<>>,
           todo'["ffb"] = todo["ffb"], emergency' => emergency, \A a \in Axes : torque'[a] => torque[a]
    PROVE  EmergencyInv'
<1>1. Hot' = Hot
    BY DEF Hot
<1>2. (\E a \in Axes : torque'[a]) => todo'["ffb"] \in Seq(LoopSteps)
    BY DEF EmergencyInv
<1>3. ASSUME emergency', NEW a \in Axes \ restarted' PROVE ~torque'[a] /\ (Hot' => ~active'[a])
    BY <1>1, <1>3 DEF EmergencyInv, Noted
<1> QED BY <1>2, <1>3 DEF EmergencyInv

\* A list that is not hot stays so, and one of the loop stays one, but for the
\* gate without an emergency.
LEMMA HotLoop ==
    ASSUME TypedInv, ShapeInv, NEW f \in {"boot", "stamp", "prepare", "range", "gate", "update"},
           NEW steps \in Seq(AnyStep), Looping(f, steps)
    PROVE  /\ todo["ffb"] \in Seq(LoopSteps) => todo'["ffb"] \in Seq(LoopSteps)
           /\ Hot' => Hot \/ ~emergency
           /\ Others("ffb") /\ todo["exti"] = <<>>
<1>0. /\ ChainInv /\ "ffb" \in Thread /\ scenario \in Scenarios /\ Take("ffb", f, steps) /\ <<>> \in Seq(ColdSteps)
      /\ Axes' = Axes
    BY EmptySeq DEF TypedInv, Thread, TypeOK, Looping, Axes
<1>1. /\ todo["ffb"] # <<>> /\ Head(todo["ffb"]).f = f /\ Others("ffb") /\ todo["exti"] = <<>>
      /\ Axis("ffb") \in Nat
    BY <1>0, TakeIs, HeadIs, Waits
<1>2. CASE f \in {"boot", "stamp"}
  <2>1. todo["ffb"] \in Seq(BootSteps) /\ todo["ffb"] \notin Seq(LoopSteps)
    BY <1>0, <1>2, FfbTakes DEF ShapeInv
  <2>2. CASE f = "boot" /\ pressed
    <3>1. steps \in Seq(BootSteps)
        BY <1>0, <2>2, CallsIn DEF Looping
    <3>2. todo'["ffb"] \in Seq(BootSteps)
        BY <1>0, <2>1, <3>1, TakeFrom
    <3> QED BY <1>1, <2>1, <3>2 DEF Hot
  <2>3. CASE ~(f = "boot" /\ pressed)
    <3>1. steps = <<>>
        BY <1>2, <2>3 DEF Looping
    <3>2. todo'["ffb"] \in Seq(BootSteps)
        BY <1>0, <2>1, <3>1, TakeFrom, EmptySeq
    <3> QED BY <1>1, <2>1, <3>2 DEF Hot
  <2> QED BY <2>2, <2>3
<1>3. CASE f \in {"prepare", "range"} \/ (f = "gate" /\ emergency)
  <2>1. steps \in Seq(ColdSteps)
    <3>1. CASE f = "prepare"
        BY <1>0, <1>1, <3>1, CallsIn DEF Looping
    <3>2. CASE f = "range"
        BY <1>0, <1>1, <3>2, CallsIn DEF Looping
    <3>3. CASE f = "gate" /\ emergency
        BY <1>0, <3>3 DEF Looping
    <3> QED BY <1>3, <3>1, <3>2, <3>3
  <2>2. steps \in Seq(LoopSteps)
    BY <2>1, StepsOfSets, SeqMonotonic
  <2>3. todo["ffb"] \in Seq(ColdSteps) => todo'["ffb"] \in Seq(ColdSteps)
    BY <1>0, <2>1, TakeFrom
  <2>4. todo["ffb"] \in Seq(LoopSteps) => todo'["ffb"] \in Seq(LoopSteps)
    BY <1>0, <2>2, TakeFrom
  <2>5. todo["ffb"] \notin Seq(BootSteps)
    BY <1>0, <1>3, FfbTakes
  <2> QED BY <1>1, <2>3, <2>4, <2>5 DEF Hot
<1>4. CASE f = "update" \/ (f = "gate" /\ ~emergency)
  <2>1. steps \in Seq(LoopSteps)
    <3>0. <<>> \in Seq(LoopSteps)
        BY EmptySeq
    <3>1. CASE f = "update"
        BY <1>0, <1>1, <3>0, <3>1, CallsIn DEF Looping
    <3>2. CASE f = "gate"
        <4>1. steps = <<>> \/ steps = FlattenSeq([a \in Axes |-> Do("update", a, TRUE)])
            BY <3>2 DEF Looping
        <4> QED BY <1>0, <1>1, <3>0, <4>1, CallsIn
    <3> QED BY <1>4, <3>1, <3>2
  <2>2. todo["ffb"] \in Seq(LoopSteps) => todo'["ffb"] \in Seq(LoopSteps)
    BY <1>0, <2>1, TakeFrom
  <2>3. f = "update" => Hot
    BY <1>0, <1>1, FfbTakes, HeadTailProperties, OnlyIn DEF Hot
  <2> QED BY <1>1, <1>4, <2>2, <2>3
<1> QED BY <1>2, <1>3, <1>4

\* The interrupt's own steps; nothing else runs then.
LEMMA EmergencyExti ==
    ASSUME TypedInv, Serial, ShapeInv, DriveInv, EmergencyInv,
           NEW f \in {"flag", "turn", "set", "drive", "addError"}, NEW steps \in Seq(AnyStep), Elementary("exti", f, steps),
           Steps("exti"), Noted
    PROVE  EmergencyInv'
<1>0. /\ ChainInv /\ "exti" \in Thread /\ "ffb" \in Thread /\ Axes' = Axes /\ Take("exti", f, steps)
      /\ active \in [Axes -> BOOLEAN] /\ torque \in [Axes -> BOOLEAN] /\ emergency \in BOOLEAN
      /\ \A a \in Axes : a \in Nat
    BY StepIsAny DEF TypedInv, Thread, TypeOK, Elementary, Axes
<1>1. /\ todo["exti"] # <<>> /\ Head(todo["exti"]).f = f /\ Others("exti") /\ Head(todo["exti"]) \in AnyStep
      /\ Head(todo["exti"]).a = Axis("exti") /\ Head(todo["exti"]).v = Value("exti") /\ Value("exti") \in BOOLEAN
      /\ Head(todo["exti"]) = [f |-> f, a |-> Axis("exti"), v |-> Value("exti")]
    BY <1>0, TakeIs, HeadIs DEF Axis, Value
<1>2. todo'["ffb"] = todo["ffb"]
    BY <1>0, <1>1 DEF Others
<1>3. StopRuns \/ ResetRuns
    BY <1>1 DEF EmergencyInv
<1>4. f \in {"turn", "set", "flag"} \/ f = "drive"
    BY <1>0, WhoAdds
<1>5. ASSUME NEW a \in Axes PROVE torque'[a] => torque[a]
  <2>1. f = "set" => ~Value("exti")
    BY <1>0, <1>1, WhoDrives
  <2>2. CASE f = "set"
    <3>1. torque' = [torque EXCEPT ![Axis("exti")] = Value("exti")]
        BY <2>2 DEF Elementary
    <3> QED BY <1>0, <2>1, <2>2, <3>1
  <2>3. CASE f # "set"
    BY <2>3 DEF Elementary
  <2> QED BY <2>2, <2>3
<1>6. CASE StopRuns
  <2>1. todo'["exti"] \in Seq(StopSteps)
    BY <1>0, <1>6, ShapesClosed, StepsStay DEF StopRuns
  <2>2. ASSUME NEW a \in Axes PROVE Has(todo'["exti"], DriveOff(a)) \/ (~active'[a] /\ ~torque'[a])
    <3>1. f \in {"drive"} => ~Value("exti")
        BY <1>1, <1>6, HeadTailProperties, OnlyIn DEF StopRuns
    <3>2. active'[a] => active[a]
        <4>1. CASE f = "drive"
            <5>1. active' = [active EXCEPT ![Axis("exti")] = Value("exti")]
                BY <4>1 DEF Elementary
            <5> QED BY <1>0, <3>1, <4>1, <5>1
        <4>2. CASE f # "drive"
            BY <4>2 DEF Elementary
        <4> QED BY <4>1, <4>2
    <3>3. CASE Head(todo["exti"]) = DriveOff(a)
        <4>1. f = "drive" /\ Axis("exti") = a /\ ~Value("exti")
            BY <1>1, <3>3 DEF DriveOff
        <4>2. active' = [active EXCEPT ![a] = FALSE]
            BY <1>1, <4>1 DEF Elementary
        <4>3. Stopping("exti", a)
            BY <1>1, <4>1 DEF Stopping, AfterStop
        <4>4. ~torque[a]
            BY <1>0, <4>3 DEF DriveInv
        <4> QED BY <1>0, <1>5, <4>2, <4>4
    <3>4. CASE Head(todo["exti"]) # DriveOff(a)
        <4>1. CASE Has(todo["exti"], DriveOff(a))
            BY <1>0, <3>4, <4>1, KeepHas
        <4>2. CASE ~active[a] /\ ~torque[a]
            BY <1>5, <3>2, <4>2
        <4> QED BY <1>6, <4>1, <4>2 DEF StopRuns
    <3> QED BY <3>3, <3>4
  <2>3. StopRuns'
    BY <1>0, <2>1, <2>2 DEF StopRuns
  <2>4. todo'["exti"] = <<>> => \A a \in Axes : ~torque'[a] /\ ~active'[a]
    BY <2>2, HasNothing
  <2> QED BY <1>0, <1>2, <1>5, <2>3, <2>4 DEF EmergencyInv
<1>7. CASE ResetRuns
  <2>1. todo'["exti"] \in Seq(ReleaseSteps)
    BY <1>0, <1>7, ShapesClosed, StepsStay DEF ResetRuns
  <2>2. ~emergency'
    <3>1. CASE f = "flag"
        <4>1. ~Value("exti")
            BY <1>1, <1>7, <3>1, HeadTailProperties, OnlyIn DEF ResetRuns
        <4> QED BY <3>1, <4>1 DEF Elementary
    <3>2. CASE f # "flag"
        BY <1>1, <1>7, <3>2 DEF Elementary, ResetRuns
    <3> QED BY <3>1, <3>2
  <2> QED BY <1>0, <1>2, <1>5, <2>1, <2>2 DEF EmergencyInv, ResetRuns
<1> QED BY <1>3, <1>6, <1>7

\* The loop's own steps, while the interrupt is idle.
LEMMA EmergencyLoop ==
    ASSUME TypedInv, Serial, ShapeInv, DriveInv, EmergencyInv,
           NEW f \in {"flag", "turn", "set", "drive", "addError"}, NEW steps \in Seq(AnyStep), Elementary("ffb", f, steps),
           Steps("ffb"), Noted
    PROVE  EmergencyInv'
<1>0. /\ ChainInv /\ "exti" \in Thread /\ "ffb" \in Thread /\ Axes' = Axes /\ Take("ffb", f, steps)
      /\ active \in [Axes -> BOOLEAN] /\ torque \in [Axes -> BOOLEAN] /\ emergency \in BOOLEAN
    BY DEF TypedInv, Thread, TypeOK, Elementary, Axes
<1>1. /\ todo["ffb"] # <<>> /\ Head(todo["ffb"]).f = f /\ Others("ffb") /\ todo["exti"] = <<>>
      /\ Head(todo["ffb"]).a = Axis("ffb") /\ Head(todo["ffb"]).v = Value("ffb") /\ Value("ffb") \in BOOLEAN
    BY <1>0, TakeIs, HeadIs, Waits DEF Axis, Value
<1>2. todo'["exti"] = <<>>
    BY <1>0, <1>1 DEF Others
<1>3. \A S \in {ColdSteps, BootSteps, LoopSteps} : todo["ffb"] \in Seq(S) => todo'["ffb"] \in Seq(S)
    BY <1>0, ShapesClosed, StepsStay
<1>4. Hot' => Hot
    BY <1>3 DEF Hot
<1>5. ASSUME NEW a \in Axes PROVE active'[a] => active[a]
  <2>1. CASE f = "drive"
    <3>1. ~Value("ffb")
        BY <1>1, <2>1, HeadTailProperties, OnlyIn DEF ShapeInv
    <3>2. active' = [active EXCEPT ![Axis("ffb")] = Value("ffb")]
        BY <2>1 DEF Elementary
    <3> QED BY <1>0, <3>1, <3>2
  <2>2. CASE f # "drive"
    BY <2>2 DEF Elementary
  <2> QED BY <2>1, <2>2
<1>6. ASSUME NEW a \in Axes, torque'[a] PROVE torque[a] \/ (f = "set" /\ Hot /\ active[a] /\ todo["ffb"] \in Seq(LoopSteps))
  <2>1. CASE f = "set"
    <3>1. torque' = [torque EXCEPT ![Axis("ffb")] = Value("ffb")]
        BY <2>1 DEF Elementary
    <3>2. CASE a = Axis("ffb") /\ Value("ffb")
        <4>1. HeadOf("ffb", {"set"}, a)
            BY <1>1, <2>1, <3>2 DEF HeadOf
        <4>2. active[a]
            BY <4>1 DEF DriveInv
        <4>3. todo["ffb"] \in Seq(LoopSteps) /\ todo["ffb"] \notin Seq(ColdSteps)
            BY <1>0, <1>1, <2>1, <3>2, WhoDrives
        <4>4. todo["ffb"] \notin Seq(BootSteps)
            BY <1>1, <2>1, <3>2, HeadTailProperties, OnlyIn
        <4> QED BY <2>1, <4>2, <4>3, <4>4 DEF Hot
    <3>3. CASE ~(a = Axis("ffb") /\ Value("ffb"))
        BY <1>0, <1>6, <3>1, <3>3
    <3> QED BY <3>2, <3>3
  <2>2. CASE f # "set"
    BY <1>6, <2>2 DEF Elementary
  <2> QED BY <2>1, <2>2
<1>7. (\E a \in Axes : torque'[a]) => todo'["ffb"] \in Seq(LoopSteps)
  <2>1. (\E a \in Axes : torque'[a]) => todo["ffb"] \in Seq(LoopSteps)
    BY <1>6 DEF EmergencyInv
  <2> QED BY <1>3, <2>1
<1>8. ASSUME emergency', NEW a \in Axes \ restarted' PROVE ~torque'[a] /\ (Hot' => ~active'[a])
  <2>1. CASE f = "flag"
    <3>1. todo["ffb"] \in Seq(BootSteps) /\ todo["ffb"] \notin Seq(LoopSteps)
        BY <1>1, <2>1, HeadTailProperties, OnlyIn DEF ShapeInv
    <3>2. ~torque[a] /\ ~Hot
        BY <3>1 DEF EmergencyInv, Hot
    <3> QED BY <1>4, <1>6, <2>1, <3>2
  <2>2. CASE f # "flag"
    <3>1. emergency
        BY <1>8, <2>2 DEF Elementary
    <3>2. ~torque[a] /\ (Hot => ~active[a])
        BY <1>1, <1>8, <3>1 DEF EmergencyInv, Noted
    <3> QED BY <1>4, <1>5, <1>6, <3>2
  <2> QED BY <2>1, <2>2
<1> QED BY <1>0, <1>2, <1>7, <1>8 DEF EmergencyInv

LEMMA EmergencyStep ==
    ASSUME TypedInv, Local, ShapeInv, DriveInv, EmergencyInv, [Next]_vars
    PROVE  EmergencyInv'
<1>0. /\ ChainInv /\ Thread = {"exti", "usb", "cmd", "ffb", "drv"} /\ scenario \in Scenarios /\ Serial /\ Free
      /\ active \in [Axes -> BOOLEAN] /\ torque \in [Axes -> BOOLEAN]
      /\ "estopCommand" \notin events /\ "criticalError" \notin events /\ Noted
    BY LocalIs, NotedStep DEF TypedInv, Thread, TypeOK, Free
<1>00. Axes' = Axes
    BY DEF Next, vars, Axes
<1>1. ASSUME NEW t \in Thread, Steps(t), Next PROVE EmergencyInv'
  <2>1. PICK f \in {"flag", "turn", "set", "drive", "addError"}, steps \in Seq(AnyStep) : Elementary(t, f, steps)
    BY <1>1, StepIs
  <2>2. /\ todo[t] # <<>> /\ Head(todo[t]).f = f /\ Head(todo[t]).v = Value(t) /\ Others(t) /\ Scheduled(t)
        /\ Take(t, f, steps)
    BY <1>0, <2>1, TakeIs DEF Elementary, Value
  <2>3. t # "drv"
    BY <2>2 DEF ShapeInv
  <2>4. CASE t \in {"usb", "cmd"}
    <3>1. todo["exti"] = <<>> /\ todo'["exti"] = <<>> /\ todo'["ffb"] = todo["ffb"]
        BY <1>0, <2>2, <2>4, Waits DEF Others
    <3>2. f # "flag"
        BY <1>0, <2>2, <2>4, WhoFlags
    <3>3. emergency' = emergency
        BY <2>1, <3>2 DEF Elementary
    <3>4. f = "set" => ~Value(t)
        BY <2>2, <2>4, WhoDrives
    <3>5. ASSUME NEW a \in Axes PROVE torque'[a] => torque[a]
      <4>1. CASE f = "set"
        <5>1. torque' = [torque EXCEPT ![Axis(t)] = Value(t)]
            BY <2>1, <4>1 DEF Elementary
        <5> QED BY <1>0, <3>4, <4>1, <5>1
      <4>2. CASE f # "set"
        BY <2>1, <4>2 DEF Elementary
      <4> QED BY <4>1, <4>2
    <3> QED BY <1>0, <1>00, <3>1, <3>3, <3>5, CalmStep
  <2> QED BY <1>0, <1>1, <2>1, <2>3, <2>4, EmergencyExti, EmergencyLoop
<1>2. ASSUME Boot \/ Stamp \/ Prepare \/ LeaveRange \/ Gate \/ UpdateDriveTorque, Next PROVE EmergencyInv'
  <2>1. PICK f \in {"boot", "stamp", "prepare", "range", "gate", "update"}, steps \in Seq(AnyStep) : Looping(f, steps)
    BY <1>2, LoopStepIs
  <2>2. UNCHANGED <<active, torque, emergency>>
    BY <2>1 DEF Looping
  <2>3. /\ todo["ffb"] \in Seq(LoopSteps) => todo'["ffb"] \in Seq(LoopSteps)
        /\ Hot' => Hot \/ ~emergency
        /\ Others("ffb") /\ todo["exti"] = <<>>
    BY <2>1, HotLoop
  <2>4. todo'["exti"] = <<>>
    BY <1>0, <2>3 DEF Others
  <2> QED BY <1>0, <1>00, <2>2, <2>3, <2>4 DEF EmergencyInv, Noted
<1>3. CASE UpdateControl
  <2>1. UNCHANGED <<active, torque, emergency>> /\ Begin("ffb", Loop)
    BY <1>3 DEF UpdateControl, control, motors
  <2>2. todo'["ffb"] = Loop /\ Others("ffb") /\ todo["exti"] = <<>>
    BY <1>0, <2>1, BeginIs, Waits
  <2>3. todo'["ffb"] \in Seq(ColdSteps) /\ todo'["ffb"] \in Seq(LoopSteps)
    BY <1>0, <2>2, LoopFacts, StepsOfSets, SeqMonotonic
  <2>4. ~Hot'
    BY <2>3 DEF Hot
  <2>5. todo'["exti"] = <<>>
    BY <1>0, <2>2 DEF Others
  <2> QED BY <1>0, <1>00, <2>1, <2>2, <2>3, <2>4, <2>5 DEF EmergencyInv, Noted
<1>4. CASE Exti
  <2>1. UNCHANGED <<active, torque, emergency>>
    BY <1>4 DEF Exti, control, motors
  <2>2. todo["exti"] = <<>> /\ todo'["ffb"] = todo["ffb"]
    BY <1>0, <1>4, ExtiIs DEF Others
  <2>3. CASE todo'["exti"] = EmergencyStop(FALSE)
    <3>1. StopRuns' /\ todo'["exti"] # <<>>
        BY <1>0, <1>00, <2>3, StopFacts DEF StopRuns
    <3> QED BY <1>00, <2>1, <2>2, <3>1 DEF EmergencyInv
  <2>4. CASE todo'["exti"] = EmergencyStop(TRUE)
    <3>1. ResetRuns' /\ todo'["exti"] # <<>>
      <4>1. FlagOff.f = "flag"
        BY DEF FlagOff
      <4>2. todo'["exti"] \in Seq(ReleaseSteps) /\ todo'["exti"] # <<>> /\ Head(todo'["exti"]) = FlagOff
        BY <1>0, <2>4, ResetFacts
      <4> QED BY <4>1, <4>2 DEF ResetRuns
    <3> QED BY <1>00, <2>1, <2>2, <3>1 DEF EmergencyInv
  <2>5. CASE todo'["exti"] = <<>>
    BY <1>0, <1>00, <2>1, <2>2, <2>5, CalmStep
  <2> QED BY <1>4, <2>3, <2>4, <2>5, ExtiIs
<1>5. ASSUME NEW b \in Axes, SetDrvType(b) PROVE EmergencyInv'
  <2>1. torque' = [torque EXCEPT ![b] = FALSE] /\ emergency' = emergency /\ Begin("cmd", <<>>)
    BY <1>5 DEF SetDrvType
  <2>2. todo'["exti"] = todo["exti"] /\ todo'["ffb"] = todo["ffb"] /\ todo["exti"] = <<>>
    BY <1>0, <2>1, BeginIs, Waits DEF Others
  <2>3. \A a \in Axes : torque'[a] => torque[a]
    BY <1>0, <2>1
  <2> QED BY <1>0, <1>00, <2>1, <2>2, <2>3, CalmStep
<1>6. CASE PushButton \/ SecondPasses \/ Connect \/ UNCHANGED vars \/ \E a \in Axes : TurnAxis(a)
  <2>1. UNCHANGED <<todo, active, torque, emergency>>
    BY <1>6, NoLists DEF PushButton, SecondPasses, Connect, TurnAxis, vars, motors, control
  <2> QED BY <1>0, <1>00, <2>1 DEF EmergencyInv, StopRuns, ResetRuns, Hot, Noted
<1>7. CASE Unlatch \/ ClearAxis \/ InBounds \/ Forget
  <2>1. PICK f, steps : Take("cmd", f, steps)
    BY <1>7 DEF Unlatch, ClearAxis, InBounds, Forget
  <2>2. emergency' = emergency /\ torque' = torque
    BY <1>7 DEF Unlatch, ClearAxis, InBounds, Forget, control, motors
  <2>3. todo["exti"] = <<>> /\ todo'["exti"] = <<>> /\ todo'["ffb"] = todo["ffb"]
    BY <1>0, <2>1, TakeIs, Waits DEF Others
  <2> QED BY <1>0, <1>00, <2>2, <2>3, CalmStep
<1>8. CASE ClearErrors \/ UsbResume \/ \E to \in {"absent", "suspended"} : UsbSuspend(to)
  <2>1. PICK t \in {"cmd", "usb"} : \E steps : Begin(t, steps)
    BY <1>8 DEF ClearErrors, UsbResume, UsbSuspend
  <2>2. torque' = torque
    BY <1>8 DEF ClearErrors, UsbResume, UsbSuspend, control, motors
  <2>4. emergency' => emergency
    <3>1. ClearErrors \/ (\E to \in {"absent", "suspended"} : UsbSuspend(to)) => emergency' = emergency
        BY DEF ClearErrors, UsbSuspend, control
    <3>2. UsbResume => emergency' = (emergency /\ pressed)
        BY DEF UsbResume
    <3> QED BY <1>8, <3>1, <3>2
  <2>3. todo["exti"] = <<>> /\ todo'["exti"] = <<>> /\ todo'["ffb"] = todo["ffb"]
    BY <1>0, <2>1, BeginIs, Waits DEF Others
  <2> QED BY <1>0, <1>00, <2>2, <2>3, <2>4, CalmStep
<1>9. ~CriticalError /\ \A on : ~EstopCommand(on)
    BY <1>0 DEF CriticalError, EstopCommand
<1> QED BY <1>1, <1>2, <1>3, <1>4, <1>5, <1>6, <1>7, <1>8, <1>9 DEF Next, Act

\* In an emergency no motor has torque that no call has started again, wherever
\* the force feedback loop, a USB callback or a command was when the flag was
\* raised: what the loop still writes after it read the flag goes to motors that
\* the stop has turned off.  It says nothing of main.estop, critical errors and
\* an interrupt within MotorPWM::turn.
THEOREM EmergencyNoTorque == Spec => []EmergencyMeansNoTorque
<1>1. [Next]_vars => events' = events
    BY DEF Next, vars, events
<1>2. Init => (Local => Serial /\ DriveInv /\ EmergencyInv)
  <2> SUFFICES ASSUME Init, Local PROVE Serial /\ DriveInv /\ EmergencyInv
    OBVIOUS
  <2>1. \A a \in Axes : ~torque[a]
    BY DEF Init
  <2> QED BY <2>1, DriveInit, LocalIs DEF Init, EmergencyInv, Thread
<1>3. Shaped /\ (Local => Serial /\ DriveInv /\ EmergencyInv) /\ [Next]_vars
        => (Local => Serial /\ DriveInv /\ EmergencyInv)'
  <2> SUFFICES ASSUME Shaped, Local, Serial, DriveInv, EmergencyInv, [Next]_vars
               PROVE  Serial' /\ DriveInv' /\ EmergencyInv'
    BY <1>1 DEF Local, Only
  <2>1. TypedInv /\ ShapeInv
    BY DEF Shaped, Serial
  <2> QED BY <1>1, <2>1, DriveStep, EmergencyStep DEF Serial
<1>4. (Local => EmergencyInv) => EmergencyMeansNoTorque
    BY DEF Local, EmergencyInv, EmergencyMeansNoTorque, Driven, Quiet, Idle, Thread
<1> QED BY <1>2, <1>3, <1>4, ShapedAlways, PTL DEF Spec
-----------------------------------------------------------------------------
(* Without a host                                                          *)

\* With these events no command runs and nobody touches the button.
Plugged == Only({"usb", "bounds"})
Untouched == todo["exti"] = <<>> /\ todo["cmd"] = <<>> /\ ~edge /\ ~pressed

\* Once the host has gone, the callback that runs can only be the suspension,
\* and it has still to turn off each motor that is on.
HostInv ==
    usbDisabled \/ host \in {"absent", "suspended"} =>
        /\ todo["usb"] \in Seq(StopSteps)
        /\ \A a \in Axes : Has(todo["usb"], DriveOff(a)) \/ ~active[a]

LEMMA PluggedIs ==
    ASSUME Plugged
    PROVE  Serial /\ Free /\ {"button", "drvtype", "clearErrors"} \intersect events = {}
BY DEF Plugged, Only, Serial, Free

LEMMA UntouchedStep ==
    ASSUME TypedInv, Plugged, Untouched, [Next]_vars
    PROVE  Untouched'
<1>0. /\ ChainInv /\ Thread = {"exti", "usb", "cmd", "ffb", "drv"}
      /\ "button" \notin events /\ "drvtype" \notin events /\ "estopCommand" \notin events /\ "clearErrors" \notin events
    BY PluggedIs DEF TypedInv, Thread, Free
<1>1. ASSUME NEW t \in Thread, \E f, steps : Take(t, f, steps), UNCHANGED <<edge, pressed>> PROVE Untouched'
  <2>1. Others(t) /\ todo[t] # <<>>
    BY <1>0, <1>1, TakeIs
  <2> QED BY <1>0, <1>1, <2>1 DEF Untouched, Others
<1>2. ASSUME NEW t \in Thread, Steps(t) PROVE Untouched'
    BY <1>1, <1>2 DEF Steps, SetFlag, TurnMotor, SetTorque, Drive, AddError, outside
<1>3. CASE Boot \/ Stamp \/ Prepare \/ LeaveRange \/ Gate \/ UpdateDriveTorque
    BY <1>0, <1>1, <1>3 DEF Boot, Stamp, Prepare, PrepareForUpdate, LeaveRange, Gate, UpdateDriveTorque, outside
<1>4. CASE Unlatch \/ ClearAxis \/ InBounds \/ Forget
    BY <1>0, <1>1, <1>4 DEF Unlatch, ClearAxis, InBounds, Forget, outside
<1>5. CASE UpdateControl \/ CriticalError \/ UsbResume \/ \E to \in {"absent", "suspended"} : UsbSuspend(to)
  <2>1. PICK t \in {"ffb", "drv", "usb"} : \E steps : Begin(t, steps)
    BY <1>5 DEF UpdateControl, CriticalError, UsbResume, UsbSuspend
  <2>2. UNCHANGED <<edge, pressed>>
    BY <1>5 DEF UpdateControl, CriticalError, UsbResume, UsbSuspend, outside
  <2> QED BY <1>0, <2>1, <2>2, BeginIs DEF Untouched, Others
<1>7. CASE SecondPasses \/ Connect \/ UNCHANGED vars \/ \E a \in Axes : TurnAxis(a)
    BY <1>0, <1>7, NoLists DEF SecondPasses, Connect, TurnAxis, vars, Untouched, outside
<1>8. ~ClearErrors /\ ~Exti /\ ~PushButton /\ (\A on : ~EstopCommand(on)) /\ \A a : ~SetDrvType(a)
    BY <1>0 DEF ClearErrors, Exti, PushButton, EstopCommand, SetDrvType, Untouched
<1> QED BY <1>2, <1>3, <1>4, <1>5, <1>7, <1>8 DEF Next, Act

LEMMA HostStep ==
    ASSUME TypedInv, Plugged, ShapeInv, Untouched, HostInv, [Next]_vars
    PROVE  HostInv'
<1>0. /\ ChainInv /\ Thread = {"exti", "usb", "cmd", "ffb", "drv"} /\ scenario \in Scenarios /\ Axes' = Axes
      /\ active \in [Axes -> BOOLEAN]
    BY DEF TypedInv, Thread, TypeOK, Next, vars, Axes
<1>1. "button" \notin events /\ "drvtype" \notin events /\ "estopCommand" \notin events /\ "clearErrors" \notin events
      /\ "criticalError" \notin events
    BY PluggedIs DEF Free
<1>2. ASSUME todo'["usb"] = todo["usb"], usbDisabled' \/ host' \in {"absent", "suspended"} => usbDisabled \/ host \in {"absent", "suspended"},
             \A a \in Axes : active'[a] => active[a]
      PROVE  HostInv'
    BY <1>0, <1>2 DEF HostInv
<1>3. ASSUME NEW t \in Thread, Steps(t), Next PROVE HostInv'
  <2>1. PICK f \in {"flag", "turn", "set", "drive", "addError"}, steps \in Seq(AnyStep) : Elementary(t, f, steps)
    BY <1>3, StepIs
  <2>2. /\ Take(t, f, steps) /\ UNCHANGED <<usbDisabled, host>>
        /\ active' = IF f = "drive" THEN [active EXCEPT ![Axis(t)] = Value(t)] ELSE active
    BY <2>1 DEF Elementary
  <2>3. /\ todo[t] # <<>> /\ Head(todo[t]).f = f /\ Others(t) /\ Head(todo[t]).v = Value(t) /\ Head(todo[t]).a = Axis(t)
        /\ (t = "usb" \/ t = "ffb")
    BY <1>0, <2>2, TakeIs DEF Untouched, ShapeInv, Axis, Value
  <2>4. CASE t = "ffb"
    <3>1. f = "drive" => ~Value(t)
        BY <2>3, <2>4, HeadTailProperties, OnlyIn DEF ShapeInv
    <3>2. \A a \in Axes : active'[a] => active[a]
        BY <1>0, <2>2, <3>1
    <3> QED BY <1>0, <1>2, <2>2, <2>3, <2>4, <3>2 DEF Others
  <2>5. CASE t = "usb"
    <3> SUFFICES ASSUME usbDisabled \/ host \in {"absent", "suspended"}
                 PROVE  /\ todo'["usb"] \in Seq(StopSteps)
                        /\ \A a \in Axes : Has(todo'["usb"], DriveOff(a)) \/ ~active'[a]
        BY <1>0, <2>2 DEF HostInv
    <3>1. todo["usb"] \in Seq(StopSteps) /\ todo'["usb"] \in Seq(StopSteps)
        BY <1>0, <1>3, <2>5, ShapesClosed, StepsStay DEF HostInv
    <3>2. f = "drive" => ~Value(t)
        BY <2>3, <2>5, <3>1, HeadTailProperties, OnlyIn
    <3>3. ASSUME NEW a \in Axes PROVE Has(todo'["usb"], DriveOff(a)) \/ ~active'[a]
        <4>1. active'[a] => active[a]
            BY <1>0, <2>2, <3>2
        <4>2. CASE Head(todo["usb"]) = DriveOff(a)
            <5>1. f = "drive" /\ Axis(t) = a
                BY <2>3, <2>5, <4>2 DEF DriveOff
            <5> QED BY <1>0, <2>2, <3>2, <5>1
        <4>3. CASE Head(todo["usb"]) # DriveOff(a)
            BY <1>0, <2>2, <2>5, <4>1, <4>3, KeepHas DEF HostInv
        <4> QED BY <4>2, <4>3
    <3> QED BY <3>1, <3>3
  <2> QED BY <2>3, <2>4, <2>5
<1>4. ASSUME Boot \/ Stamp \/ Prepare \/ LeaveRange \/ Gate \/ UpdateDriveTorque, Next PROVE HostInv'
  <2>1. PICK f \in {"boot", "stamp", "prepare", "range", "gate", "update"}, steps \in Seq(AnyStep) : Looping(f, steps)
    BY <1>4, LoopStepIs
  <2>2. Take("ffb", f, steps) /\ UNCHANGED <<active, usbDisabled, host>>
    BY <2>1 DEF Looping
  <2>3. todo'["usb"] = todo["usb"]
    BY <1>0, <2>2, TakeIs DEF Others
  <2> QED BY <1>2, <2>2, <2>3
<1>5. CASE UpdateControl
  <2>1. Begin("ffb", Loop) /\ UNCHANGED <<active, usbDisabled, host>>
    BY <1>5 DEF UpdateControl, control, motors, outside
  <2>2. todo'["usb"] = todo["usb"]
    BY <1>0, <2>1, BeginIs DEF Others
  <2> QED BY <1>2, <2>1, <2>2
<1>6. ASSUME NEW to, UsbSuspend(to) PROVE HostInv'
  <2>1. Begin("usb", IF usbDisabled THEN <<>> ELSE SuspendAxes) /\ active' = active
    BY <1>6 DEF UsbSuspend, motors
  <2>2. todo["usb"] = <<>> /\ todo'["usb"] = IF usbDisabled THEN <<>> ELSE SuspendAxes
    BY <1>0, <2>1, BeginIs
  <2>3. CASE usbDisabled
    <3>1. \A a \in Axes : ~active[a]
        BY <2>2, <2>3, HasNothing DEF HostInv
    <3> QED BY <1>0, <2>1, <2>2, <2>3, <3>1, EmptySeq DEF HostInv
  <2>4. CASE ~usbDisabled
    BY <1>0, <2>2, <2>4, UsbFacts DEF HostInv
  <2> QED BY <2>3, <2>4
<1>7. CASE UsbResume
    BY <1>7 DEF UsbResume, HostInv
<1>8. CASE Connect
  <2>1. UNCHANGED <<todo, active, usbDisabled>> /\ host = "absent"
    BY <1>8 DEF Connect, control, motors
  <2> QED BY <1>2, <2>1
<1>9. CASE SecondPasses \/ UNCHANGED vars \/ \E a \in Axes : TurnAxis(a)
    BY <1>2, <1>9 DEF SecondPasses, TurnAxis, vars, control, motors, outside
<1>10. ~(Unlatch \/ ClearAxis \/ InBounds \/ Forget)
    BY <1>0 DEF Unlatch, ClearAxis, InBounds, Forget, Take, At, Idle, Untouched
<1>11. ~CriticalError /\ ~ClearErrors /\ ~Exti /\ ~PushButton /\ (\A on : ~EstopCommand(on)) /\ \A a : ~SetDrvType(a)
    BY <1>1 DEF CriticalError, ClearErrors, Exti, PushButton, EstopCommand, SetDrvType, Untouched
<1> QED BY <1>3, <1>4, <1>5, <1>6, <1>7, <1>8, <1>9, <1>10, <1>11 DEF Next, Act

\* Without a host, or while it is suspended, no motor has torque: the callback
\* turns all motors off while the loop is anywhere in its update.
THEOREM HostlessNoTorque == Spec => []NoHostNoTorque
<1>1. [Next]_vars => events' = events
    BY DEF Next, vars, events
<1>2. Init => (Plugged => Serial /\ DriveInv /\ Untouched /\ HostInv)
  <2> SUFFICES ASSUME Init, Plugged PROVE Serial /\ DriveInv /\ Untouched /\ HostInv
    OBVIOUS
  <2>1. \A a \in Axes : ~active[a]
    BY DEF Init
  <2>2. todo["exti"] = <<>> /\ todo["cmd"] = <<>> /\ todo["usb"] = <<>>
    BY DEF Init, Thread
  <2>3. ~edge /\ ~pressed
    BY PluggedIs DEF Init
  <2> QED BY <2>1, <2>2, <2>3, DriveInit, PluggedIs, EmptySeq DEF Untouched, HostInv
<1>3. Shaped /\ (Plugged => Serial /\ DriveInv /\ Untouched /\ HostInv) /\ [Next]_vars
        => (Plugged => Serial /\ DriveInv /\ Untouched /\ HostInv)'
  <2> SUFFICES ASSUME Shaped, Plugged, Serial, DriveInv, Untouched, HostInv, [Next]_vars
               PROVE  Serial' /\ DriveInv' /\ Untouched' /\ HostInv'
    BY <1>1 DEF Plugged, Only
  <2>1. TypedInv /\ ShapeInv
    BY DEF Shaped, Serial
  <2> QED BY <1>1, <2>1, DriveStep, UntouchedStep, HostStep DEF Serial
<1>4. (Plugged => DriveInv /\ HostInv) => NoHostNoTorque
  <2> SUFFICES ASSUME DriveInv, HostInv, Quiet, host \in {"absent", "suspended"}, NEW a \in Axes PROVE ~Driven(a)
    BY DEF Plugged, NoHostNoTorque
  <2>1. todo["usb"] = <<>>
    BY DEF Quiet, Idle, Thread
  <2> QED BY <2>1, HasNothing DEF DriveInv, HostInv, Driven
<1> QED BY <1>2, <1>3, <1>4, ShapedAlways, PTL DEF Spec
-----------------------------------------------------------------------------
(* Every motor comes back                                                  *)

\* A motor is on, or there is a reason: no host, an emergency, a call that will
\* still start it or raise the emergency, or the range check; the last leaves
\* an error, which the command that clears it uses to start the motor again.
Clearing == \E s \in AnyStep : s.f = "forget" /\ Has(todo["cmd"], s)
Fine(a) ==
    \/ active[a] \/ host # "mounted" \/ emergency
    \/ Has(todo["exti"], DriveOn(a)) \/ Has(todo["usb"], DriveOn(a)) \/ Has(todo["cmd"], DriveOn(a))
    \/ Has(todo["exti"], FlagOn) \/ Has(todo["ffb"], FlagOn)
    \/ Has(todo["ffb"], OutsideError)
    \/ ~outOfBounds[a] /\ Has(todo["ffb"], RangeOf(a))
Kept(a) == "outOfBounds" \in errors /\ (Clearing => Has(todo["cmd"], ClearAxisOf(a)))
Stored(a) ==
    /\ "outOfBounds" \in errors
    /\ Clearing => Has(todo["cmd"], ClearAxisOf(a)) \/ Has(todo["cmd"], InBoundsOf(a))
Reason(a) == Fine(a) \/ Kept(a)
Mark(a) == outOfBounds[a] => Has(todo["ffb"], OutsideError) \/ Stored(a)

ListsInv ==
    /\ todo["exti"] \in Guarded /\ todo["ffb"] \in Guarded
    /\ host = "mounted" => todo["usb"] \in Seq(ReleaseSteps)
    /\ todo["exti"] \notin Seq(StopSteps) /\ emergency =>
            Head(todo["exti"]).f = "flag" /\ \A a \in Axes : Has(todo["exti"], DriveOn(a))

BackInv == ListsInv /\ \A a \in Axes : Reason(a) /\ Mark(a)

Keeps(S) == \A u \in Thread, s \in S : Has(todo[u], s) => Has(todo'[u], s)
StartMarks(a) == {DriveOn(a), FlagOn, RangeOf(a)}
ErrorMarks(a) == {OutsideError, ClearAxisOf(a)}
OutMarks(a) == {OutsideError, ClearAxisOf(a), InBoundsOf(a)}

LEMMA FineKept ==
    ASSUME NEW a \in Axes, Fine(a), Keeps(StartMarks(a)), Keeps({OutsideError}),
           active[a] => active'[a], outOfBounds'[a] => outOfBounds[a], host' = host, emergency => emergency'
    PROVE  Fine(a)'
<1>1. \A u \in {"exti", "usb", "cmd", "ffb"} :
        /\ Has(todo[u], DriveOn(a)) => Has(todo'[u], DriveOn(a))
        /\ Has(todo[u], FlagOn) => Has(todo'[u], FlagOn)
        /\ Has(todo[u], RangeOf(a)) => Has(todo'[u], RangeOf(a))
    BY DEF Keeps, StartMarks, Thread
<1>2. Has(todo["ffb"], OutsideError) => Has(todo'["ffb"], OutsideError)
    BY DEF Keeps, Thread
<1> QED BY <1>1, <1>2 DEF Fine

LEMMA ReasonKept ==
    ASSUME NEW a \in Axes, Reason(a), Keeps(StartMarks(a)), Keeps(ErrorMarks(a)), Clearing' => Clearing,
           active[a] => active'[a], outOfBounds'[a] => outOfBounds[a], host' = host, emergency => emergency',
           "outOfBounds" \in errors => "outOfBounds" \in errors'
    PROVE  Reason(a)'
<1>1. Keeps({OutsideError}) /\ (Has(todo["cmd"], ClearAxisOf(a)) => Has(todo'["cmd"], ClearAxisOf(a)))
    BY DEF Keeps, ErrorMarks, Thread
<1>2. Kept(a) => Kept(a)'
    BY <1>1 DEF Kept
<1>3. Fine(a) => Fine(a)'
    BY <1>1, FineKept
<1> QED BY <1>2, <1>3 DEF Reason

LEMMA MarkKept ==
    ASSUME NEW a \in Axes, Mark(a), Keeps(OutMarks(a)), Clearing' => Clearing,
           outOfBounds'[a] => outOfBounds[a], "outOfBounds" \in errors => "outOfBounds" \in errors'
    PROVE  Mark(a)'
<1>2. \A u \in {"cmd", "ffb"} :
        /\ Has(todo[u], OutsideError) => Has(todo'[u], OutsideError)
        /\ Has(todo[u], ClearAxisOf(a)) => Has(todo'[u], ClearAxisOf(a))
        /\ Has(todo[u], InBoundsOf(a)) => Has(todo'[u], InBoundsOf(a))
    BY DEF Keeps, OutMarks, Thread
<1>3. Stored(a) => Stored(a)'
    BY <1>2 DEF Stored
<1> QED BY <1>2, <1>3 DEF Mark

\* No step other than the one taken is lost.
LEMMA TakeKeeps ==
    ASSUME ChainInv, NEW t \in Thread, NEW f, NEW steps \in Seq(AnyStep), Take(t, f, steps),
           NEW S, Head(todo[t]) \notin S
    PROVE  Keeps(S)
<1>1. Others(t)
    BY TakeIs
<1>2. \A s \in S : Has(todo[t], s) => Has(todo'[t], s)
    BY KeepHas
<1> QED BY <1>1, <1>2 DEF Keeps, Others

LEMMA TakeMarks ==
    ASSUME ChainInv, NEW t \in Thread, NEW f, NEW steps \in Seq(AnyStep), Take(t, f, steps), NEW a
    PROVE  /\ f \notin {"drive", "flag", "range"} => Keeps(StartMarks(a))
           /\ f \notin {"addError", "clearAxis"} => Keeps(ErrorMarks(a))
           /\ f \notin {"addError", "clearAxis", "inBounds"} => Keeps(OutMarks(a))
           /\ Axis(t) # a /\ f # "flag" => Keeps(StartMarks(a))
           /\ Axis(t) # a /\ f # "addError" => Keeps(OutMarks(a)) /\ Keeps(ErrorMarks(a))
<1>1. Head(todo[t]).f = f /\ Head(todo[t]).a = Axis(t)
    BY TakeIs DEF Axis
<1>2. \A s \in StartMarks(a) : s.f \in {"drive", "flag", "range"} /\ (s.f # "flag" => s.a = a)
    BY DEF StartMarks, DriveOn, FlagOn, RangeOf
<1>3. \A s \in OutMarks(a) : s.f \in {"addError", "clearAxis", "inBounds"} /\ (s.f # "addError" => s.a = a)
    BY DEF OutMarks, OutsideError, ClearAxisOf, InBoundsOf
<1>30. \A s \in ErrorMarks(a) : s \in OutMarks(a) /\ s.f \in {"addError", "clearAxis"}
    BY DEF ErrorMarks, OutMarks, OutsideError, ClearAxisOf
<1>4. /\ f \notin {"addError", "clearAxis"} => Head(todo[t]) \notin ErrorMarks(a)
      /\ Axis(t) # a /\ f # "addError" => Head(todo[t]) \notin ErrorMarks(a)
      /\ f \notin {"drive", "flag", "range"} => Head(todo[t]) \notin StartMarks(a)
      /\ f \notin {"addError", "clearAxis", "inBounds"} => Head(todo[t]) \notin OutMarks(a)
      /\ Axis(t) # a /\ f # "flag" => Head(todo[t]) \notin StartMarks(a)
      /\ Axis(t) # a /\ f # "addError" => Head(todo[t]) \notin OutMarks(a)
    BY <1>1, <1>2, <1>3, <1>30
<1> QED BY <1>4, TakeKeeps

\* No step brings the end of a clear.
LEMMA NotClearing ==
    ASSUME ChainInv, NEW t \in Thread, NEW f, NEW steps \in Seq(AnyStep), Take(t, f, steps),
           \A s \in AnyStep : Has(steps, s) => s.f # "forget"
    PROVE  Clearing' => Clearing
<1>1. /\ Others(t) /\ todo'[t] = steps \o Rest(t) /\ todo[t] \in Seq(AnyStep) /\ todo[t] # <<>>
      /\ Rest(t) \in Seq(AnyStep) /\ "cmd" \in Thread
    BY TakeIs DEF Thread
<1>2. CASE t # "cmd"
    BY <1>1, <1>2 DEF Others, Clearing
<1>3. CASE t = "cmd"
  <2> SUFFICES ASSUME NEW s \in AnyStep, s.f = "forget", Has(todo'["cmd"], s) PROVE Has(todo["cmd"], s)
    BY DEF Clearing
  <2>1. Has(steps \o Rest(t), s)
    BY <1>1, <1>3
  <2>2. Has(steps, s) \/ Has(Rest(t), s)
    BY <1>1, <2>1, HasParts
  <2>3. Has(Rest(t), s)
    BY <1>3, <2>2
  <2> QED BY <1>1, <1>3, <2>3, HasTail DEF Rest
<1> QED BY <1>2, <1>3

\* A call that begins takes nothing away.
LEMMA BeginKeeps ==
    ASSUME ChainInv, NEW t \in Thread, NEW steps, Begin(t, steps), NEW S
    PROVE  Keeps(S) /\ (t # "cmd" => (Clearing' => Clearing))
<1>1. todo[t] = <<>> /\ Others(t) /\ "cmd" \in Thread
    BY BeginIs DEF Thread
<1> QED BY <1>1, HasNothing DEF Keeps, Others, Clearing

\* An elementary step brings none but the step of a turn.
LEMMA ElementarySteps ==
    ASSUME TypedInv, ShapeInv, NEW t \in Thread, NEW f \in {"flag", "turn", "set", "drive", "addError"},
           NEW steps \in Seq(AnyStep), Elementary(t, f, steps)
    PROVE  steps \in Guarded /\ (Clearing' => Clearing) /\ (f # "turn" => steps = <<>>)
<1>0. ChainInv /\ Take(t, f, steps)
    BY DEF TypedInv, Elementary
<1>1. todo[t] # <<>> /\ Axis(t) \in Nat /\ Value(t) \in BOOLEAN
    BY <1>0, TakeIs, HeadIs
<1> DEFINE s == [f |-> "set", a |-> Axis(t), v |-> Value(t)]
<1>2. s \in AnyStep /\ s.f = "set"
    BY <1>1 DEF AnyStep, Of, StepNames
<1>3. steps = <<>> \/ steps = <<s>>
  <2>1. f = "addError" => ~Value(t)
    BY <1>0, WhoAdds
  <2> QED BY <2>1 DEF Elementary, Do
<1>4. f # "turn" => steps = <<>>
    BY <1>0, WhoAdds DEF Elementary
<1> HIDE DEF s
<1>5. steps \in Seq({s})
  <2>1. s \in {s}
    OBVIOUS
  <2>2. <<s>> \in Seq({s}) /\ <<>> \in Seq({s})
    BY <2>1, ShortLists, EmptySeq
  <2> QED BY <1>3, <2>2
<1>6. steps \in Guarded
    BY <1>2, <1>5, GuardedLists
<1>7. \A x \in AnyStep : Has(steps, x) => x.f # "forget"
    BY <1>2, <1>5, HasIsIn
<1> QED BY <1>0, <1>4, <1>6, <1>7, NotClearing

LEMMA LoopingGuarded ==
    ASSUME TypedInv, NEW f \in {"boot", "stamp", "prepare", "range", "gate", "update"},
           NEW steps \in Seq(AnyStep), Looping(f, steps)
    PROVE  steps \in Guarded
<1> DEFINE S == {s \in AnyStep : s.f # "drive"}
<1>0. /\ ChainInv /\ Take("ffb", f, steps) /\ "ffb" \in Thread /\ scenario \in Scenarios
    BY DEF TypedInv, Looping, Thread, TypeOK
<1>1. Axis("ffb") \in Nat
    BY <1>0, TakeIs, HeadIs
<1>2. Seq(S) \subseteq Guarded /\ <<>> \in Seq(S)
    BY GuardedLists, EmptySeq
<1>3. /\ [f |-> "stamp", a |-> 0, v |-> TRUE] \in S /\ [f |-> "addError", a |-> 0, v |-> FALSE] \in S
      /\ \A v \in BOOLEAN : [f |-> "turn", a |-> Axis("ffb"), v |-> v] \in S
    BY <1>1 DEF AnyStep, Of, StepNames
<1>4. \A a \in Axes : [f |-> "update", a |-> a, v |-> TRUE] \in S
    BY <1>0, StepIsAny DEF AnyStep, Of, StepNames
<1> HIDE DEF S
<1>5. CASE f = "boot"
  <2>1. Do("stamp", 0, TRUE) \in Guarded
    BY <1>2, <1>3, DoIn
  <2> QED BY <1>0, <1>2, <1>5, <2>1, StopFacts, GuardJoin DEF Looping
<1>6. CASE f = "prepare"
  <2>1. Zero(Axis("ffb")) \in AnyStep /\ Zero(Axis("ffb")).f = "turn"
    BY <1>1, Follow DEF Zero
  <2>2. <<Zero(Axis("ffb")), DriveOff(Axis("ffb")), RangeOf(Axis("ffb"))>> \in Guarded
    BY <1>1, <2>1, GuardedLists
  <2>3. StopMotor(Axis("ffb")) \o Do("range", Axis("ffb"), TRUE) \in Guarded
    BY <2>2, CallsOfAxis
  <2> QED BY <1>2, <1>6, <2>3 DEF Looping
<1>7. CASE f = "range"
  <2>1. Do("addError", 0, FALSE) \in Guarded
    BY <1>2, <1>3, DoIn
  <2> QED BY <1>2, <1>7, <2>1 DEF Looping
<1>8. CASE f = "gate"
  <2>1. FlattenSeq([a \in Axes |-> Do("update", a, TRUE)]) \in Seq(S)
    BY <1>0, <1>4, OneStepIn
  <2> QED BY <1>2, <1>8, <2>1 DEF Looping
<1>9. CASE f = "update"
  <2>1. \A v \in BOOLEAN : Turn(Axis("ffb"), v) \in Seq(S)
    BY <1>3, DoIn DEF Turn
  <2> QED BY <1>2, <1>9, <2>1 DEF Looping
<1>10. CASE f = "stamp"
    BY <1>2, <1>10 DEF Looping
<1> QED BY <1>5, <1>6, <1>7, <1>8, <1>9, <1>10

LEMMA GuardTake ==
    ASSUME ChainInv, NEW t \in Thread, NEW f, NEW steps \in Guarded, Take(t, f, steps), todo[t] \in Guarded
    PROVE  todo'[t] \in Guarded
<1>1. todo[t] # <<>> /\ todo'[t] = steps \o Rest(t)
    BY TakeIs
<1>2. Rest(t) \in Guarded
    BY <1>1, GuardTail DEF Rest
<1> QED BY <1>1, <1>2, GuardJoin

\* While the interrupt is idle, these are all that can change.
LEMMA ListsWhenIdle ==
    ASSUME ListsInv, TypedInv, todo'["exti"] = <<>>, todo'["ffb"] \in Guarded,
           host' = "mounted" => todo'["usb"] \in Seq(ReleaseSteps)
    PROVE  ListsInv'
<1>1. <<>> \in Guarded /\ <<>> \in Seq(StopSteps)
  <2>1. <<>> \in Seq({})
    BY EmptySeq
  <2> QED BY <2>1, GuardedLists, EmptySeq
<1> QED BY <1>1 DEF ListsInv

LEMMA ListsElementary ==
    ASSUME TypedInv, Free, ShapeInv, ListsInv, NEW t \in Thread, Steps(t),
           NEW f \in {"flag", "turn", "set", "drive", "addError"}, NEW steps \in Seq(AnyStep), Elementary(t, f, steps)
    PROVE  ListsInv'
<1>0. /\ ChainInv /\ Take(t, f, steps) /\ "exti" \in Thread /\ "ffb" \in Thread /\ "usb" \in Thread /\ host' = host
    BY DEF TypedInv, Thread, Elementary
<1>1. /\ Others(t) /\ todo[t] # <<>> /\ Head(todo[t]).f = f /\ Head(todo[t]).v = Value(t) /\ Value(t) \in BOOLEAN
      /\ (t # "exti" => todo["exti"] = <<>>)
    BY <1>0, TakeIs, HeadIs, Waits DEF Value
<1>2. todo'["ffb"] \in Guarded /\ todo'["exti"] \in Guarded
  <2>1. steps \in Guarded
    BY ElementarySteps
  <2>2. todo["ffb"] \in Guarded /\ todo["exti"] \in Guarded
    BY DEF ListsInv
  <2> QED BY <1>0, <1>1, <2>1, <2>2, GuardTake DEF Others
<1>3. host = "mounted" => todo'["usb"] \in Seq(ReleaseSteps)
  <2>1. host = "mounted" => todo["usb"] \in Seq(ReleaseSteps)
    BY DEF ListsInv
  <2> QED BY <1>0, <1>1, <2>1, ShapesClosed, StepsStay DEF Others
<1>4. CASE t # "exti"
  <2>1. todo'["exti"] = <<>>
    BY <1>0, <1>1, <1>4 DEF Others
  <2> QED BY <1>0, <1>2, <1>3, <2>1, ListsWhenIdle
<1>5. CASE t = "exti"
  <2>1. ASSUME todo'["exti"] \notin Seq(StopSteps) PROVE ~emergency'
    <3>1. todo["exti"] \notin Seq(StopSteps)
        BY <1>0, <1>5, <2>1, ShapesClosed, StepsStay
    <3>2. todo["exti"] \in Seq(ReleaseSteps)
        BY <3>1 DEF ShapeInv
    <3>3. CASE f = "flag"
        <4>1. ~Value(t)
            BY <1>1, <1>5, <3>2, <3>3, HeadTailProperties, OnlyIn
        <4> QED BY <3>3, <4>1 DEF Elementary
    <3>4. CASE f # "flag"
        BY <1>1, <1>5, <3>1, <3>4 DEF ListsInv, Elementary
    <3> QED BY <3>3, <3>4
  <2> QED BY <1>0, <1>2, <1>3, <2>1 DEF ListsInv
<1> QED BY <1>4, <1>5

LEMMA ListsStep ==
    ASSUME TypedInv, Free, ShapeInv, ListsInv, [Next]_vars
    PROVE  ListsInv'
<1>0. /\ ChainInv /\ Thread = {"exti", "usb", "cmd", "ffb", "drv"} /\ scenario \in Scenarios
      /\ "criticalError" \notin events /\ "estopCommand" \notin events
    BY DEF TypedInv, Thread, TypeOK, Free
<1>00. Axes' = Axes
    BY DEF Next, vars, Axes
<1>01. /\ todo["exti"] \in Guarded /\ todo["ffb"] \in Guarded
       /\ host = "mounted" => todo["usb"] \in Seq(ReleaseSteps)
    BY DEF ListsInv
<1>1. ASSUME NEW t \in Thread, Steps(t), Next PROVE ListsInv'
  <2>1. PICK f \in {"flag", "turn", "set", "drive", "addError"}, steps \in Seq(AnyStep) : Elementary(t, f, steps)
    BY <1>1, StepIs
  <2> QED BY <1>1, <2>1, ListsElementary
<1>2. ASSUME Boot \/ Stamp \/ Prepare \/ LeaveRange \/ Gate \/ UpdateDriveTorque, Next PROVE ListsInv'
  <2>1. PICK f \in {"boot", "stamp", "prepare", "range", "gate", "update"}, steps \in Seq(AnyStep) : Looping(f, steps)
    BY <1>2, LoopStepIs
  <2>2. Take("ffb", f, steps) /\ host' = host
    BY <2>1 DEF Looping
  <2>3. Others("ffb") /\ todo["exti"] = <<>>
    BY <1>0, <2>2, TakeIs, Waits
  <2>4. todo'["ffb"] \in Guarded
    BY <1>0, <1>01, <2>1, <2>2, LoopingGuarded, GuardTake
  <2>5. todo'["exti"] = <<>> /\ todo'["usb"] = todo["usb"]
    BY <1>0, <2>3 DEF Others
  <2> QED BY <1>01, <2>2, <2>4, <2>5, ListsWhenIdle
<1>3. CASE UpdateControl
  <2>1. Begin("ffb", Loop) /\ host' = host
    BY <1>3 DEF UpdateControl, outside
  <2>2. todo'["ffb"] = Loop /\ todo["exti"] = <<>> /\ Others("ffb")
    BY <1>0, <2>1, BeginIs, Waits
  <2>3. Loop \in Guarded
    <3> DEFINE S == {s \in AnyStep : s.f # "drive"}
    <3>1. [f |-> "gate", a |-> 0, v |-> TRUE] \in S /\ \A a \in Axes : [f |-> "prepare", a |-> a, v |-> TRUE] \in S
        BY <1>0, StepIsAny DEF AnyStep, Of, StepNames
    <3>2. Loop \in Seq(S)
        BY <1>0, <3>1, LoopIn
    <3> QED BY <3>2, GuardedLists
  <2>4. todo'["exti"] = <<>> /\ todo'["usb"] = todo["usb"]
    BY <1>0, <2>2 DEF Others
  <2> QED BY <1>01, <2>1, <2>2, <2>3, <2>4, ListsWhenIdle
<1>4. CASE Exti
  <2>1. UNCHANGED <<emergency, host>> /\ todo["exti"] = <<>> /\ todo'["ffb"] = todo["ffb"] /\ todo'["usb"] = todo["usb"]
    BY <1>0, <1>4, ExtiIs DEF Exti, control, Others
  <2>2. CASE todo'["exti"] = EmergencyStop(TRUE)
    <3>1. /\ todo'["exti"] \in Guarded /\ Head(todo'["exti"]) = FlagOff /\ \A a \in Axes : Has(todo'["exti"], DriveOn(a))
        BY <1>0, <2>2, ResetFacts
    <3>2. FlagOff.f = "flag"
        BY DEF FlagOff
    <3> QED BY <1>00, <1>01, <2>1, <3>1, <3>2 DEF ListsInv
  <2>3. CASE todo'["exti"] = EmergencyStop(FALSE)
    <3>1. todo'["exti"] \in Guarded /\ todo'["exti"] \in Seq(StopSteps)
        BY <1>0, <2>3, StopFacts
    <3> QED BY <1>01, <2>1, <3>1 DEF ListsInv
  <2>4. CASE todo'["exti"] = <<>>
    BY <1>01, <2>1, <2>4, ListsWhenIdle
  <2> QED BY <1>4, <2>2, <2>3, <2>4, ExtiIs
<1>5. ASSUME NEW f, NEW steps, Take("cmd", f, steps), host' = host PROVE ListsInv'
  <2>1. Others("cmd") /\ todo["exti"] = <<>>
    BY <1>0, <1>5, TakeIs, Waits
  <2>2. todo'["exti"] = <<>> /\ todo'["usb"] = todo["usb"] /\ todo'["ffb"] = todo["ffb"]
    BY <1>0, <2>1 DEF Others
  <2> QED BY <1>01, <1>5, <2>2, ListsWhenIdle
<1>6. CASE Unlatch \/ ClearAxis \/ InBounds \/ Forget
    BY <1>5, <1>6 DEF Unlatch, ClearAxis, InBounds, Forget, outside
<1>7. ASSUME ClearErrors \/ \E a \in Axes : SetDrvType(a) PROVE ListsInv'
  <2>1. PICK steps : Begin("cmd", steps)
    BY <1>7 DEF ClearErrors, SetDrvType
  <2>2. host' = host
    BY <1>7 DEF ClearErrors, SetDrvType, outside
  <2>3. Others("cmd") /\ todo["exti"] = <<>>
    BY <1>0, <2>1, BeginIs, Waits
  <2>4. todo'["exti"] = <<>> /\ todo'["usb"] = todo["usb"] /\ todo'["ffb"] = todo["ffb"]
    BY <1>0, <2>3 DEF Others
  <2> QED BY <1>01, <2>2, <2>4, ListsWhenIdle
<1>8. ASSUME UsbResume \/ \E to \in {"absent", "suspended"} : UsbSuspend(to) PROVE ListsInv'
  <2>1. PICK steps : Begin("usb", steps)
    BY <1>8 DEF UsbResume, UsbSuspend
  <2>2. Others("usb") /\ todo["exti"] = <<>> /\ todo'["usb"] = steps
    BY <1>0, <2>1, BeginIs, Waits
  <2>3. todo'["exti"] = <<>> /\ todo'["ffb"] = todo["ffb"]
    BY <1>0, <2>2 DEF Others
  <2>4. host' = "mounted" => todo'["usb"] \in Seq(ReleaseSteps)
    <3> SUFFICES ASSUME host' = "mounted" PROVE todo'["usb"] \in Seq(ReleaseSteps)
        OBVIOUS
    <3>1. UsbResume
        BY <1>8 DEF UsbSuspend
    <3>2. todo'["usb"] = ResumeAxes
        BY <1>0, <3>1, BeginIs DEF UsbResume
    <3> QED BY <1>0, <3>2, UsbFacts
  <2> QED BY <1>01, <2>3, <2>4, ListsWhenIdle
<1>9. CASE PushButton \/ SecondPasses \/ Connect \/ UNCHANGED vars \/ \E a \in Axes : TurnAxis(a)
  <2>1. UNCHANGED <<todo, emergency>> /\ (host' = "mounted" => host = "mounted")
    BY <1>9, NoLists DEF PushButton, SecondPasses, Connect, TurnAxis, vars, control, outside
  <2> QED BY <1>00, <2>1 DEF ListsInv
<1>10. ~CriticalError /\ \A on : ~EstopCommand(on)
    BY <1>0 DEF CriticalError, EstopCommand
<1> QED BY <1>1, <1>2, <1>3, <1>4, <1>6, <1>7, <1>8, <1>9, <1>10 DEF Next, Act

\* What an elementary step takes away is there again in another form.
LEMMA ReasonElementary ==
    ASSUME TypedInv, Free, ShapeInv, BackInv, NEW t \in Thread,
           NEW f \in {"flag", "turn", "set", "drive", "addError"}, NEW steps \in Seq(AnyStep), Elementary(t, f, steps),
           NEW a \in Axes
    PROVE  Reason(a)' /\ Mark(a)'
<1>0. /\ ChainInv /\ Take(t, f, steps) /\ Thread = {"exti", "usb", "cmd", "ffb", "drv"}
      /\ host' = host /\ outOfBounds' = outOfBounds
      /\ active \in [Axes -> BOOLEAN] /\ Reason(a) /\ Mark(a) /\ "estopCommand" \notin events
      /\ "criticalError" \notin events
    BY DEF TypedInv, Thread, Elementary, TypeOK, BackInv, Free
<1>1. /\ Others(t) /\ todo[t] # <<>> /\ Head(todo[t]).f = f /\ Head(todo[t]).v = Value(t) /\ Value(t) \in BOOLEAN
      /\ Head(todo[t]).a = Axis(t) /\ todo'[t] = steps \o Rest(t) /\ todo[t] \in Seq(AnyStep) /\ Scheduled(t)
      /\ Rest(t) \in Seq(AnyStep)
  <2>1. /\ Others(t) /\ todo[t] # <<>> /\ todo'[t] = steps \o Rest(t) /\ todo[t] \in Seq(AnyStep)
        /\ Rest(t) \in Seq(AnyStep) /\ Scheduled(t)
    BY <1>0, TakeIs
  <2>2. Head(todo[t]).f = f /\ Value(t) \in BOOLEAN
    BY <1>0, TakeIs, HeadIs
  <2> QED BY <2>1, <2>2 DEF Value, Axis
<1>2. Clearing' => Clearing
    BY ElementarySteps
<1>3. "outOfBounds" \in errors => "outOfBounds" \in errors'
    BY DEF Elementary
<1>4. f # "addError" => Mark(a)'
  <2>1. f # "addError" => Keeps(OutMarks(a))
    BY <1>0, TakeMarks
  <2> QED BY <1>0, <1>2, <1>3, <2>1, MarkKept
<1>5. CASE f \in {"turn", "set"}
  <2>1. Keeps(StartMarks(a)) /\ Keeps(ErrorMarks(a))
    BY <1>0, <1>5, TakeMarks
  <2>2. active' = active /\ emergency' = emergency
    BY <1>5 DEF Elementary
  <2>3. Reason(a)'
    BY <1>0, <1>2, <1>3, <2>1, <2>2, ReasonKept
  <2> QED BY <1>4, <1>5, <2>3
<1>6. CASE f = "flag"
  <2>1. active' = active /\ emergency' = Value(t)
    BY <1>6 DEF Elementary
  <2>2. Keeps(ErrorMarks(a))
    BY <1>0, <1>6, TakeMarks
  <2>3. CASE Value(t)
    BY <1>4, <1>6, <2>1, <2>3 DEF Reason, Fine
  <2>4. CASE ~Value(t)
    <3>1. t = "exti" /\ todo["exti"] \notin Seq(StopSteps)
        BY <1>0, <1>6, <2>4, WhoFlags
    <3>2. CASE emergency
        <4>1. Has(todo["exti"], DriveOn(a))
            BY <3>1, <3>2 DEF BackInv, ListsInv
        <4>2. Head(todo["exti"]) # DriveOn(a)
            BY <1>1, <1>6, <3>1 DEF DriveOn
        <4>3. Has(todo'["exti"], DriveOn(a))
            BY <1>0, <3>1, <4>1, <4>2, KeepHas
        <4> QED BY <1>4, <1>6, <4>3 DEF Reason, Fine
    <3>3. CASE ~emergency
        <4>1. Head(todo[t]) \notin StartMarks(a)
            BY <1>1, <1>6, <2>4 DEF StartMarks, DriveOn, FlagOn, RangeOf
        <4>2. Keeps(StartMarks(a))
            BY <1>0, <4>1, TakeKeeps
        <4>3. Reason(a)'
            BY <1>0, <1>2, <1>3, <2>1, <2>2, <3>3, <4>2, ReasonKept
        <4> QED BY <1>4, <1>6, <4>3
    <3> QED BY <3>2, <3>3
  <2> QED BY <1>1, <2>3, <2>4
<1>7. CASE f = "addError"
  <2>1. t = "ffb" /\ ~Value(t)
    BY <1>0, <1>7, WhoAdds
  <2>2. "outOfBounds" \in errors'
    BY <1>7, <2>1 DEF Elementary
  <2>3. todo'["cmd"] = <<>>
    BY <1>0, <1>1, <2>1, Waits DEF Others
  <2>4. ~Clearing'
    BY <2>3, HasNothing DEF Clearing
  <2> QED BY <2>2, <2>4 DEF Reason, Mark, Kept, Stored
<1>8. CASE f = "drive"
  <2>0. /\ active' = [active EXCEPT ![Axis(t)] = Value(t)] /\ emergency' = emergency /\ Keeps(ErrorMarks(a))
        /\ Mark(a)' /\ todo'[t] = Rest(t)
    BY <1>0, <1>1, <1>4, <1>8, TakeMarks, TakeNothing DEF Elementary
  <2>1. CASE a # Axis(t)
    <3>1. Keeps(StartMarks(a))
        BY <1>0, <1>8, <2>1, TakeMarks
    <3>2. active'[a] = active[a]
        BY <1>0, <2>0, <2>1
    <3>3. Reason(a)'
        BY <1>0, <1>2, <1>3, <2>0, <3>1, <3>2, ReasonKept
    <3> QED BY <2>0, <3>3
  <2>2. CASE a = Axis(t) /\ Value(t)
    <3>1. active'[a]
        BY <1>0, <2>0, <2>2
    <3> QED BY <2>0, <3>1 DEF Reason, Fine
  <2>3. CASE a = Axis(t) /\ ~Value(t)
    <3>1. todo[t] \in Guarded => Rest(t) # <<>> /\ Head(Rest(t)) \in {FlagOn, RangeOf(a)} /\ Has(todo'[t], Head(Rest(t)))
        BY <1>1, <1>8, <2>0, <2>3, GuardTail, HasItsHead DEF Rest
    <3>2. CASE t = "exti"
        <4>1. todo["exti"] \notin Seq(ReleaseSteps)
            BY <1>1, <1>8, <2>3, <3>2, HeadTailProperties, OnlyIn
        <4>2. todo["exti"] \in Seq(StopSteps)
            BY <4>1 DEF ShapeInv
        <4>3. todo["exti"] \in Guarded
            BY DEF BackInv, ListsInv
        <4>4. Head(Rest(t)) \in StopSteps
            BY <1>1, <3>1, <3>2, <4>2, <4>3, HeadTailProperties DEF Rest
        <4>5. RangeOf(a) \notin StopSteps
            BY DEF RangeOf, StopSteps, Still, Of
        <4>6. Has(todo'["exti"], FlagOn)
            BY <3>1, <3>2, <4>3, <4>4, <4>5
        <4> QED BY <2>0, <4>6 DEF Reason, Fine
    <3>3. CASE t = "usb"
        <4>1. todo["usb"] \notin Seq(ReleaseSteps)
            BY <1>1, <1>8, <2>3, <3>3, HeadTailProperties, OnlyIn
        <4>2. host' # "mounted"
            BY <1>0, <4>1 DEF BackInv, ListsInv
        <4> QED BY <2>0, <4>2 DEF Reason, Fine
    <3>4. CASE t = "cmd"
        <4>1. todo["cmd"] \in Seq(ClearSteps)
            BY <1>0 DEF ShapeInv
        <4> QED BY <1>1, <1>8, <2>3, <3>4, <4>1, HeadTailProperties, OnlyIn
    <3>5. CASE t = "ffb"
        <4>1. todo["ffb"] \in Guarded
            BY DEF BackInv, ListsInv
        <4>2. Has(todo'["ffb"], FlagOn) \/ Has(todo'["ffb"], RangeOf(a))
            BY <3>1, <3>5, <4>1
        <4>3. CASE Has(todo'["ffb"], FlagOn)
            BY <2>0, <4>3 DEF Reason, Fine
        <4>4. CASE Has(todo'["ffb"], RangeOf(a)) /\ ~outOfBounds[a]
            BY <1>0, <2>0, <4>4 DEF Reason, Fine
        <4>5. CASE outOfBounds[a]
            <5>1. todo'["cmd"] = <<>>
                BY <1>0, <1>1, <3>5, Waits DEF Others
            <5>2. ~Clearing'
                BY <5>1, HasNothing DEF Clearing
            <5> QED BY <1>0, <2>0, <4>5, <5>2 DEF Mark, Stored, Reason, Fine, Kept
        <4> QED BY <4>2, <4>3, <4>4, <4>5
    <3>6. t # "drv"
        BY <1>1 DEF ShapeInv
    <3> QED BY <1>0, <3>2, <3>3, <3>4, <3>5, <3>6
  <2> QED BY <1>1, <2>1, <2>2, <2>3
<1> QED BY <1>5, <1>6, <1>7, <1>8

LEMMA ReasonLoop ==
    ASSUME TypedInv, Free, ShapeInv, BackInv, NEW f \in {"boot", "stamp", "prepare", "range", "gate", "update"},
           NEW steps \in Seq(AnyStep), Looping(f, steps), NEW a \in Axes
    PROVE  Reason(a)' /\ Mark(a)'
<1>0. /\ ChainInv /\ Take("ffb", f, steps) /\ Thread = {"exti", "usb", "cmd", "ffb", "drv"}
      /\ host' = host /\ active' = active /\ emergency' = emergency /\ errors' = errors
      /\ outOfBounds \in [Axes -> BOOLEAN] /\ Reason(a) /\ Mark(a) /\ "criticalError" \notin events
    BY DEF TypedInv, Thread, Looping, TypeOK, BackInv, Free
<1>1. Others("ffb") /\ todo["cmd"] = <<>> /\ todo'["ffb"] = steps \o Rest("ffb") /\ Rest("ffb") \in Seq(AnyStep)
    BY <1>0, TakeIs, Waits
<1>2. todo'["cmd"] = <<>> /\ ~Clearing'
    BY <1>0, <1>1, HasNothing DEF Others, Clearing
<1>3. Keeps(ErrorMarks(a)) /\ Keeps(OutMarks(a))
    BY <1>0, TakeMarks
<1>4. CASE f # "range"
  <2>1. Keeps(StartMarks(a))
    BY <1>0, <1>4, TakeMarks
  <2>2. outOfBounds'[a] => outOfBounds[a]
    <3>1. f = "prepare" => outOfBounds' \in {[outOfBounds EXCEPT ![Axis("ffb")] = FALSE], outOfBounds}
        BY DEF Looping
    <3>2. f # "prepare" => outOfBounds' = outOfBounds
        BY <1>4 DEF Looping
    <3> QED BY <1>0, <3>1, <3>2
  <2> QED BY <1>0, <1>2, <1>3, <2>1, <2>2, ReasonKept, MarkKept
<1>5. CASE f = "range"
  <2>0. /\ outOfBounds' = [outOfBounds EXCEPT ![Axis("ffb")] = TRUE]
        /\ steps = IF outOfBounds[Axis("ffb")] THEN <<>> ELSE Do("addError", 0, FALSE)
    BY <1>5 DEF Looping
  <2>1. CASE a # Axis("ffb")
    <3>1. Keeps(StartMarks(a))
        BY <1>0, <1>5, <2>1, TakeMarks
    <3>2. outOfBounds'[a] => outOfBounds[a]
        BY <1>0, <2>0, <2>1
    <3> QED BY <1>0, <1>2, <1>3, <3>1, <3>2, ReasonKept, MarkKept
  <2>2. CASE a = Axis("ffb")
    <3>1. outOfBounds'[a]
        BY <1>0, <2>0, <2>2
    <3>2. Mark(a)'
        <4>1. CASE outOfBounds[a]
            BY <1>0, <1>2, <1>3, <4>1, MarkKept
        <4>2. CASE ~outOfBounds[a]
            <5>1. steps = <<OutsideError>>
                BY <2>0, <2>2, <4>2 DEF Do, OutsideError
            <5>2. OutsideError \in AnyStep
                BY DEF OutsideError, AnyStep, Of, StepNames
            <5>3. Has(steps, OutsideError)
                BY <5>1, <5>2, ShortLists
            <5>4. Has(todo'["ffb"], OutsideError)
                BY <1>1, <5>3, HasJoin
            <5> QED BY <5>4 DEF Mark
        <4> QED BY <4>1, <4>2
    <3> QED BY <1>2, <3>1, <3>2 DEF Mark, Stored, Reason, Fine, Kept
  <2> QED BY <2>1, <2>2
<1> QED BY <1>4, <1>5

\* The steps of the command that clears the errors.
LEMMA ReasonClear ==
    ASSUME TypedInv, Free, ShapeInv, BackInv, ClearAxis \/ InBounds \/ Forget, NEW a \in Axes
    PROVE  Reason(a)' /\ Mark(a)'
<1>0. /\ ChainInv /\ Thread = {"exti", "usb", "cmd", "ffb", "drv"}
      /\ host' = host /\ active' = active /\ emergency' = emergency
      /\ outOfBounds \in [Axes -> BOOLEAN] /\ Reason(a) /\ Mark(a)
    BY DEF TypedInv, Thread, TypeOK, BackInv, ClearAxis, InBounds, Forget, control, motors, outside
<1>1. PICK f \in {"clearAxis", "inBounds", "forget"} : \E steps : Take("cmd", f, steps)
    BY DEF ClearAxis, InBounds, Forget
<1>2. Others("cmd") /\ todo[ "cmd"] # <<>> /\ todo["cmd"] \in Seq(AnyStep) /\ Axis("cmd") \in Nat
    BY <1>0, <1>1, TakeIs, HeadIs
<1>3. Has(todo["ffb"], OutsideError) => Has(todo'["ffb"], OutsideError)
    BY <1>0, <1>2 DEF Others
<1>4. CASE ClearAxis
  <2>1. PICK st \in Calls : Take("cmd", "clearAxis", st) /\ st = IF "outOfBounds" \in errors
                THEN StartMotor(Axis("cmd")) \o Do("inBounds", Axis("cmd"), TRUE) ELSE <<>>
    BY <1>2, <1>4, Singles, NoCalls DEF ClearAxis
  <2>2. errors' = errors /\ outOfBounds' = outOfBounds
    BY <1>4 DEF ClearAxis, motors
  <2>3. st \in Seq(AnyStep) /\ todo'["cmd"] = st \o Rest("cmd") /\ Rest("cmd") \in Seq(AnyStep)
    BY <1>0, <2>1, TakeIs DEF Calls, Chained
  <2>4. \A s \in AnyStep : Has(st, s) => s.f # "forget"
    BY <2>1 DEF Calls, Has
  <2>5. Clearing' => Clearing
    BY <1>0, <2>1, <2>3, <2>4, NotClearing
  <2>6. Keeps(StartMarks(a)) /\ Keeps({OutsideError})
    <3>1. OutsideError.f = "addError" /\ Head(todo["cmd"]).f = "clearAxis"
        BY <1>0, <2>1, TakeIs DEF OutsideError
    <3> QED BY <1>0, <2>1, <2>3, <3>1, TakeMarks, TakeKeeps
  <2>7. CASE a # Axis("cmd")
    <3>1. Keeps(ErrorMarks(a)) /\ Keeps(OutMarks(a))
        <4>1. \A g \in {"clearAxis"} : Take("cmd", g, st) =>
                (Axis("cmd") # a /\ g # "addError" => Keeps(OutMarks(a)) /\ Keeps(ErrorMarks(a)))
            BY <1>0, <2>3, TakeMarks
        <4> QED BY <2>1, <2>7, <4>1
    <3> QED BY <1>0, <2>2, <2>5, <2>6, <3>1, ReasonKept, MarkKept
  <2>8. CASE a = Axis("cmd") /\ "outOfBounds" \in errors
    <3>1. st = <<DriveOn(a), Zero(a), InBoundsOf(a)>>
        BY <2>1, <2>8, CallsOfAxis
    <3>2. Has(st, DriveOn(a)) /\ Has(st, InBoundsOf(a))
        BY <1>2, <2>8, <3>1, Follow, ShortLists
    <3>3. Has(todo'["cmd"], DriveOn(a)) /\ Has(todo'["cmd"], InBoundsOf(a))
        BY <2>3, <3>2, HasJoin
    <3> QED BY <2>2, <2>8, <3>3 DEF Reason, Fine, Mark, Stored
  <2>9. CASE "outOfBounds" \notin errors
    <3>1. Fine(a)
        BY <1>0, <2>9 DEF Reason, Kept
    <3>2. Fine(a)'
        BY <1>0, <2>2, <2>6, <3>1, FineKept
    <3>3. Mark(a)'
        BY <1>0, <1>3, <2>2, <2>9 DEF Mark, Stored
    <3> QED BY <3>2, <3>3 DEF Reason
  <2> QED BY <2>7, <2>8, <2>9
<1>5. CASE InBounds
  <2>1. /\ Take("cmd", "inBounds", <<>>) /\ errors' = errors
        /\ outOfBounds' = [outOfBounds EXCEPT ![Axis("cmd")] = FALSE]
    BY <1>5 DEF InBounds
  <2>2. Keeps(StartMarks(a)) /\ Keeps(ErrorMarks(a)) /\ (a # Axis("cmd") => Keeps(OutMarks(a)))
    <3>1. <<>> \in Seq(AnyStep) /\ "cmd" \in Thread
        BY <1>0, EmptySeq
    <3>2. \A g \in {"inBounds"} : Take("cmd", g, <<>>) =>
            /\ g \notin {"drive", "flag", "range"} => Keeps(StartMarks(a))
            /\ g \notin {"addError", "clearAxis"} => Keeps(ErrorMarks(a))
            /\ Axis("cmd") # a /\ g # "addError" => Keeps(OutMarks(a))
        BY <1>0, <3>1, TakeMarks
    <3> QED BY <2>1, <3>2
  <2>3. Clearing' => Clearing
    BY <1>0, <2>1, EmptySeq, HasNothing, NotClearing
  <2>4. (outOfBounds'[a] => outOfBounds[a]) /\ (a = Axis("cmd") => ~outOfBounds'[a])
    BY <1>0, <2>1
  <2>5. Reason(a)'
    BY <1>0, <2>1, <2>2, <2>3, <2>4, ReasonKept
  <2>6. CASE a # Axis("cmd")
    BY <1>0, <2>1, <2>2, <2>3, <2>4, <2>5, <2>6, MarkKept
  <2>7. CASE a = Axis("cmd")
    BY <2>4, <2>5, <2>7 DEF Mark
  <2> QED BY <2>6, <2>7
<1>6. CASE Forget
  <2>1. Take("cmd", "forget", <<>>) /\ outOfBounds' = outOfBounds
    BY <1>6 DEF Forget, motors
  <2>2. Head(todo["cmd"]).f = "forget" /\ Rest("cmd") = <<>>
    <3>1. Head(todo["cmd"]).f = "forget" /\ todo'["cmd"] = Rest("cmd")
        BY <1>0, <2>1, TakeIs, TakeNothing
    <3> QED BY <1>0, <2>1, <3>1, NextMay DEF May
  <2>3. Clearing
    <3>1. Has(todo["cmd"], Head(todo["cmd"])) /\ Head(todo["cmd"]) \in AnyStep
        BY <1>2, HasItsHead, HeadTailProperties
    <3> QED BY <2>2, <3>1 DEF Clearing
  <2>4. ~Has(todo["cmd"], ClearAxisOf(a)) /\ ~Has(todo["cmd"], InBoundsOf(a))
    <3>1. ClearAxisOf(a).f # "forget" /\ InBoundsOf(a).f # "forget"
        BY DEF ClearAxisOf, InBoundsOf
    <3> QED BY <1>2, <2>2, <3>1, HasHead, HasNothing DEF Rest
  <2>5. Fine(a) /\ (outOfBounds[a] => Has(todo["ffb"], OutsideError))
    BY <1>0, <2>3, <2>4 DEF Reason, Kept, Mark, Stored
  <2>6. Keeps(StartMarks(a)) /\ Keeps({OutsideError})
    <3>1. OutsideError.f = "addError"
        BY DEF OutsideError
    <3> QED BY <1>0, <2>1, <2>2, <3>1, EmptySeq, TakeMarks, TakeKeeps
  <2>7. Fine(a)'
    BY <1>0, <2>1, <2>5, <2>6, FineKept
  <2> QED BY <1>3, <2>1, <2>5, <2>7 DEF Reason, Mark
<1> QED BY <1>4, <1>5, <1>6

LEMMA ReasonStep ==
    ASSUME TypedInv, Free, ShapeInv, BackInv, [Next]_vars, NEW a \in Axes
    PROVE  Reason(a)' /\ Mark(a)'
<1>0. /\ ChainInv /\ Thread = {"exti", "usb", "cmd", "ffb", "drv"} /\ scenario \in Scenarios
      /\ "criticalError" \notin events /\ "estopCommand" \notin events
      /\ active \in [Axes -> BOOLEAN] /\ Reason(a) /\ Mark(a)
    BY DEF TypedInv, Thread, TypeOK, Free, BackInv
<1>1. ASSUME NEW t \in Thread, Steps(t), Next PROVE Reason(a)' /\ Mark(a)'
  <2>1. PICK f \in {"flag", "turn", "set", "drive", "addError"}, steps \in Seq(AnyStep) : Elementary(t, f, steps)
    BY <1>1, StepIs
  <2> QED BY <2>1, ReasonElementary
<1>2. ASSUME Boot \/ Stamp \/ Prepare \/ LeaveRange \/ Gate \/ UpdateDriveTorque, Next PROVE Reason(a)' /\ Mark(a)'
  <2>1. PICK f \in {"boot", "stamp", "prepare", "range", "gate", "update"}, steps \in Seq(AnyStep) : Looping(f, steps)
    BY <1>2, LoopStepIs
  <2> QED BY <2>1, ReasonLoop
<1>3. CASE ClearAxis \/ InBounds \/ Forget
    BY <1>3, ReasonClear
<1>4. CASE UpdateControl \/ Exti
  <2>1. PICK t \in {"ffb", "exti"} : \E steps : Begin(t, steps)
    BY <1>4 DEF UpdateControl, Exti
  <2>2. UNCHANGED <<active, outOfBounds, emergency, host, errors>>
    BY <1>4 DEF UpdateControl, Exti, control, motors, outside
  <2>3. Keeps(StartMarks(a)) /\ Keeps(ErrorMarks(a)) /\ Keeps(OutMarks(a)) /\ (Clearing' => Clearing)
    BY <1>0, <2>1, BeginKeeps
  <2> QED BY <1>0, <2>2, <2>3, ReasonKept, MarkKept
<1>5. ASSUME UsbResume \/ \E to \in {"absent", "suspended"} : UsbSuspend(to) PROVE Reason(a)' /\ Mark(a)'
  <2>1. PICK steps : Begin("usb", steps)
    BY <1>5 DEF UsbResume, UsbSuspend
  <2>2. UNCHANGED <<outOfBounds, errors>>
    BY <1>5 DEF UsbResume, UsbSuspend, motors
  <2>3. Keeps(OutMarks(a)) /\ (Clearing' => Clearing)
    BY <1>0, <2>1, BeginKeeps
  <2>4. Mark(a)'
    BY <1>0, <2>2, <2>3, MarkKept
  <2>5. CASE host' # "mounted"
    BY <2>4, <2>5 DEF Reason, Fine
  <2>6. CASE host' = "mounted"
    <3>1. Begin("usb", ResumeAxes)
        BY <1>5, <2>6 DEF UsbResume, UsbSuspend
    <3>2. Has(todo'["usb"], DriveOn(a))
        BY <1>0, <3>1, BeginIs, UsbFacts
    <3> QED BY <2>4, <3>2 DEF Reason, Fine
  <2> QED BY <2>5, <2>6
<1>6. ASSUME NEW b \in Axes, SetDrvType(b) PROVE Reason(a)' /\ Mark(a)'
  <2>1. /\ Begin("cmd", <<>>) /\ active' = [active EXCEPT ![b] = host # "absent"]
        /\ UNCHANGED <<outOfBounds, emergency, host, errors>>
    BY <1>6 DEF SetDrvType, outside
  <2>2. Keeps(StartMarks(a)) /\ Keeps(ErrorMarks(a)) /\ Keeps(OutMarks(a))
    BY <1>0, <2>1, BeginKeeps
  <2>3. ~Clearing'
    BY <1>0, <2>1, BeginIs, HasNothing DEF Clearing
  <2>4. Mark(a)'
    BY <1>0, <2>1, <2>2, <2>3, MarkKept
  <2>5. CASE host = "absent"
    BY <2>1, <2>4, <2>5 DEF Reason, Fine
  <2>6. CASE host # "absent"
    <3>1. active[a] => active'[a]
        BY <1>0, <2>1, <2>6
    <3> QED BY <1>0, <2>1, <2>2, <2>3, <2>4, <3>1, ReasonKept
  <2> QED BY <2>5, <2>6
<1>7. CASE ClearErrors
  <2>1. Begin("cmd", ClearAll) /\ UNCHANGED <<active, outOfBounds, emergency, host, errors>>
    BY <1>7 DEF ClearErrors, control, motors, outside
  <2>2. todo["cmd"] = <<>> /\ Has(todo'["cmd"], ClearAxisOf(a)) /\ Others("cmd")
    BY <1>0, <2>1, BeginIs, LoopFacts
  <2>3. Keeps(StartMarks(a)) /\ Keeps({OutsideError})
    BY <1>0, <2>1, BeginKeeps
  <2>4. Fine(a) => Fine(a)'
    BY <2>1, <2>3, FineKept
  <2>5. Kept(a) => Kept(a)'
    BY <2>1, <2>2 DEF Kept
  <2>6. Mark(a)'
    <3>1. Has(todo["ffb"], OutsideError) => Has(todo'["ffb"], OutsideError)
        BY <1>0, <2>2 DEF Others
    <3> QED BY <1>0, <2>1, <2>2, <3>1 DEF Mark, Stored
  <2> QED BY <1>0, <2>4, <2>5, <2>6 DEF Reason
<1>8. CASE Connect
  <2>1. UNCHANGED <<todo, outOfBounds, errors>> /\ host' = "connected"
    BY <1>8 DEF Connect, motors
  <2> QED BY <1>0, <2>1 DEF Mark, Stored, Clearing, Reason, Fine
<1>9. CASE PushButton \/ SecondPasses \/ UNCHANGED vars \/ \E b \in Axes : TurnAxis(b)
  <2>1. UNCHANGED <<todo, active, outOfBounds, emergency, host, errors>>
    BY <1>9 DEF PushButton, SecondPasses, TurnAxis, vars, control, motors, outside
  <2> QED BY <1>0, <2>1 DEF Mark, Stored, Clearing, Reason, Fine, Kept
<1>10. ~Unlatch
  <2> SUFFICES ASSUME Unlatch PROVE FALSE
    OBVIOUS
  <2>1. todo["cmd"] # <<>> /\ Head(todo["cmd"]).f = "unlatch"
    BY <1>0, TakeIs DEF Unlatch
  <2>2. todo["cmd"] \in Seq(ClearSteps)
    BY <1>0 DEF ShapeInv
  <2> QED BY <2>1, <2>2, HeadTailProperties, OnlyIn
<1>11. ~CriticalError /\ \A on : ~EstopCommand(on)
    BY <1>0 DEF CriticalError, EstopCommand
<1> QED BY <1>1, <1>2, <1>3, <1>4, <1>5, <1>6, <1>7, <1>8, <1>9, <1>10, <1>11 DEF Next, Act

\* Without main.estop and critical errors every motor comes back: with a host,
\* no emergency, no stored error and no call running, it is enabled.
THEOREM MotorsEnabled ==
    Spec => [](Only(KnownEvents \ {"estopCommand", "criticalError"}) => MotorsComeBack)
<1>1. [Next]_vars => events' = events /\ Axes' = Axes
    BY DEF Next, vars, events, Axes
<1>2. Init => BackInv
  <2> SUFFICES ASSUME Init PROVE BackInv
    OBVIOUS
  <2>1. todo["exti"] = <<>> /\ todo["ffb"] = Do("boot", 0, TRUE) /\ host = "absent"
    BY DEF Init, Thread
  <2>2. \A a \in Axes : ~outOfBounds[a]
    BY DEF Init
  <2>3. todo["ffb"] \in Guarded /\ todo["exti"] \in Guarded /\ todo["exti"] \in Seq(StopSteps)
    <3> DEFINE S == {s \in AnyStep : s.f # "drive"}
    <3>1. [f |-> "boot", a |-> 0, v |-> TRUE] \in S
        BY DEF AnyStep, Of, StepNames
    <3>2. Do("boot", 0, TRUE) \in Seq(S) /\ <<>> \in Seq(S) /\ <<>> \in Seq(StopSteps)
        BY <3>1, DoIn, EmptySeq
    <3> QED BY <2>1, <3>2, GuardedLists
  <2> QED BY <2>1, <2>2, <2>3 DEF BackInv, ListsInv, Reason, Fine, Mark
<1>3. Shaped /\ (Free => BackInv) /\ [Next]_vars => (Free => BackInv)'
  <2> SUFFICES ASSUME Shaped, Free, BackInv, [Next]_vars PROVE BackInv'
    BY <1>1 DEF Free
  <2>1. TypedInv /\ ShapeInv
    BY DEF Shaped, Free
  <2>2. ListsInv'
    BY <2>1, ListsStep DEF BackInv
  <2>3. \A a \in Axes : Reason(a)' /\ Mark(a)'
    BY <2>1, ReasonStep
  <2> QED BY <1>1, <2>2, <2>3 DEF BackInv
<1>4. (Free => BackInv) => (Only(KnownEvents \ {"estopCommand", "criticalError"}) => MotorsComeBack)
  <2> SUFFICES ASSUME BackInv, Quiet, host = "mounted", ~emergency, errors = {}, NEW a \in Axes PROVE active[a]
    BY DEF Free, Only, MotorsComeBack
  <2>1. \A t \in Thread : todo[t] = <<>>
    BY DEF Quiet, Idle
  <2>2. \A t \in {"exti", "usb", "cmd", "ffb"} : \A s : ~Has(todo[t], s)
    BY <2>1, HasNothing DEF Thread
  <2>3. Fine(a)
    BY DEF BackInv, Reason, Kept
  <2> QED BY <2>2, <2>3 DEF Fine
<1> QED BY <1>2, <1>3, <1>4, ShapedAlways, PTL DEF Spec

=============================================================================
