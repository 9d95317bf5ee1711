------------------------------ MODULE TmcProofs ------------------------------
(***************************************************************************)
(* What holds of the TMC4671 driver for any number of checks and retries,  *)
(* any events and any pace of the calls, proved with TLAPS.                *)
(***************************************************************************)
EXTENDS TmcDriver, SequenceTheorems, TLAPS

-----------------------------------------------------------------------------
(* Lists of steps                                                          *)

\* Steps with certain names.
With(fs) == [f : fs, v : BOOLEAN]

Lists == todo \in [Thread -> Seq(Step)]

LEMMA DoIn ==
    ASSUME NEW fs, NEW f \in fs
    PROVE  Do(f) \in Seq(With(fs)) /\ Do(f) # <<>>
BY DEF Do, With

LEMMA TurnToIn ==
    ASSUME NEW fs, "turn" \in fs, NEW v \in BOOLEAN
    PROVE  TurnTo(v) \in Seq(With(fs)) /\ TurnTo(v) # <<>>
BY DEF TurnTo, With

LEMMA Joined ==
    ASSUME NEW S, NEW s \in Seq(S), NEW u \in Seq(S)
    PROVE  s \o u \in Seq(S)
BY ConcatProperties

\* The calls consist of these steps.
LEMMA StartIn ==
    ASSUME NEW fs, {"want", "power"} \subseteq fs
    PROVE  StartMotor \in Seq(With(fs))
<1>1. Do("want") \in Seq(With(fs)) /\ Do("power") \in Seq(With(fs))
    BY DoIn
<1> QED BY <1>1, Joined DEF StartMotor

LEMMA StopIn ==
    ASSUME NEW fs, "unwant" \in fs
    PROVE  StopMotor \in Seq(With(fs))
BY DoIn DEF StopMotor

LEMMA PressIn ==
    ASSUME NEW fs, {"turn", "stop", "unwant"} \subseteq fs
    PROVE  TurnTo(FALSE) \o EmergencyStop(FALSE) \in Seq(With(fs))
<1>1. TurnTo(FALSE) \in Seq(With(fs)) /\ Do("stop") \in Seq(With(fs)) /\ StopMotor \in Seq(With(fs))
    BY DoIn, TurnToIn, StopIn
<1>2. EmergencyStop(FALSE) = Do("stop") \o StopMotor
    BY DEF EmergencyStop
<1>3. EmergencyStop(FALSE) \in Seq(With(fs))
    BY <1>1, <1>2, Joined
<1> QED BY <1>1, <1>3, Joined

LEMMA ResetIn ==
    ASSUME NEW fs, {"clear", "want", "power", "resume"} \subseteq fs
    PROVE  EmergencyStop(TRUE) \in Seq(With(fs))
<1>1. Do("clear") \in Seq(With(fs)) /\ StartMotor \in Seq(With(fs)) /\ Do("resume") \in Seq(With(fs))
    BY DoIn, StartIn
<1>2. Do("clear") \o StartMotor \in Seq(With(fs))
    BY <1>1, Joined
<1>3. (Do("clear") \o StartMotor) \o Do("resume") \in Seq(With(fs))
    BY <1>1, <1>2, Joined
<1> QED BY <1>3 DEF EmergencyStop

LEMMA EnableIn ==
    ASSUME NEW fs, {"pwm", "pin", "modeNext"} \subseteq fs
    PROVE  Do("pwm") \o Do("pin") \o Do("modeNext") \in Seq(With(fs))
<1>1. Do("pwm") \in Seq(With(fs)) /\ Do("pin") \in Seq(With(fs)) /\ Do("modeNext") \in Seq(With(fs))
    BY DoIn
<1>2. Do("pwm") \o Do("pin") \in Seq(With(fs))
    BY <1>1, Joined
<1> QED BY <1>1, <1>2, Joined

LEMMA SwitchOffIn ==
    ASSUME NEW fs, {"modeStop", "pwmOff", "shutdown"} \subseteq fs
    PROVE  Do("modeStop") \o Do("pwmOff") \o Do("shutdown") \in Seq(With(fs))
<1>1. Do("modeStop") \in Seq(With(fs)) /\ Do("pwmOff") \in Seq(With(fs)) /\ Do("shutdown") \in Seq(With(fs))
    BY DoIn
<1>2. Do("modeStop") \o Do("pwmOff") \in Seq(With(fs))
    BY <1>1, Joined
<1> QED BY <1>1, <1>2, Joined

\* Taking a step changes the list of its thread only.
LEMMA TakeList ==
    ASSUME Lists, NEW t \in Thread, NEW g, NEW steps \in Seq(Step), Take(t, g, steps)
    PROVE  /\ Lists'
           /\ todo[t] # <<>> /\ Head(todo[t]).f = g /\ Head(todo[t]) \in Step
           /\ Tail(todo[t]) \in Seq(Step)
           /\ todo'[t] = steps \o Tail(todo[t])
           /\ \A u \in Thread \ {t} : todo'[u] = todo[u]
<1>1. todo[t] \in Seq(Step) /\ todo[t] # <<>> /\ Head(todo[t]).f = g
    BY DEF Lists, Take, Idle
<1>2. Head(todo[t]) \in Step /\ Tail(todo[t]) \in Seq(Step)
    BY <1>1, HeadTailProperties
<1>3. steps \o Tail(todo[t]) \in Seq(Step)
    BY <1>2, Joined
<1>4. todo' = [todo EXCEPT ![t] = steps \o Tail(todo[t])]
    BY DEF Take
<1> QED BY <1>1, <1>2, <1>3, <1>4 DEF Lists

LEMMA TakeWithin ==
    ASSUME NEW t, NEW g, NEW steps, NEW S, steps \in Seq(S), todo[t] \in Seq(S),
           t \in DOMAIN todo, Take(t, g, steps)
    PROVE  todo'[t] \in Seq(S) /\ Tail(todo[t]) \in Seq(S) /\ Head(todo[t]) \in S
<1>1. todo[t] # <<>> /\ todo'[t] = steps \o Tail(todo[t])
    BY DEF Take, Idle
<1>2. Tail(todo[t]) \in Seq(S) /\ Head(todo[t]) \in S
    BY <1>1, HeadTailProperties
<1> QED BY <1>1, <1>2, Joined

LEMMA StepIsWith == Step = With(StepNames)
BY DEF Step, With

LEMMA NoSteps == <<>> \in Seq(Step)
OBVIOUS
-----------------------------------------------------------------------------
(* Types                                                                   *)

\* What a step puts before the rest of its list.
LEMMA StepLists ==
    ASSUME NEW t \in Thread, Lists, Steps(t)
    PROVE  \E g \in StepNames, steps \in Seq(Step) : Take(t, g, steps)
<1>1. /\ <<>> \in Seq(Step)
      /\ Do("pwm") \o Do("pin") \o Do("modeNext") \in Seq(Step)
      /\ Do("modeStop") \o Do("pwmOff") \o Do("shutdown") \in Seq(Step)
    BY NoSteps, EnableIn, SwitchOffIn, StepIsWith DEF StepNames
<1>2. CASE Turn(t)
  <2>1. Head(todo[t]) \in Step
    BY <1>2, HeadTailProperties DEF Turn, Idle, Lists
  <2>2. <<[f |-> "torque", v |-> Head(todo[t]).v]>> \in Seq(Step)
    BY <2>1 DEF Step, StepNames
  <2> QED BY <1>1, <1>2, <2>2 DEF Turn, StepNames
<1>3. CASE StartIfPowered(t)
    BY <1>1, <1>3 DEF StartIfPowered, StepNames
<1>4. CASE Unwant(t)
    BY <1>1, <1>4 DEF Unwant, StepNames
<1>5. CASE Write(t)
    BY <1>1, <1>5 DEF Write, StepNames
<1>6. CASE Want(t) \/ SetEnablePin(t) \/ Shutdown(t) \/ SetTorque(t) \/ Stop(t) \/ Clear(t) \/ ResumeThread(t)
    BY <1>1, <1>6 DEF Want, SetEnablePin, Shutdown, SetTorque, Stop, Clear, ResumeThread, StepNames
<1> QED BY <1>2, <1>3, <1>4, <1>5, <1>6 DEF Steps

LEMMA StepTypes ==
    ASSUME TypeOK, Lists, NEW t \in Thread, Steps(t)
    PROVE  TypeOK' /\ Lists'
<1>1. Lists'
    BY StepLists, TakeList
<1>2. DOMAIN todo' = Thread /\ \A u \in Thread : todo'[u] \in Seq(Step)
    BY <1>1 DEF Lists
<1>3. UNCHANGED <<initialized, powerInitialized, encoderAligned, powerCheckCounter, enc_retry,
                  power, loc, pace, allowStateChange>>
    BY DEF Steps, Want, StartIfPowered, SetEnablePin, Write, Unwant, Shutdown, Turn, SetTorque,
       Stop,
        Clear, ResumeThread, ready, counters, Request, machine
<1>4. {state', requestedState'} \subseteq States
    BY DEF TypeOK, Steps, Want, StartIfPowered, SetEnablePin, Write, Unwant, Shutdown, Turn,
       SetTorque,
        Stop, Clear, ResumeThread, Request, machine, States
<1>5. {emergency', motorEnabledRequested', enablePin', foc', suspended'} \subseteq BOOLEAN
    BY DEF TypeOK, Steps, Want, StartIfPowered, SetEnablePin, Write, Unwant, Shutdown, Turn,
       SetTorque,
        Stop, Clear, ResumeThread, flags, chip
<1>6. torque' \in BOOLEAN /\ mode' \in {"stop", "torque"}
  <2>1. CASE SetTorque(t)
    <3>1. Head(todo[t]) \in Step
        BY <2>1, NoSteps, TakeList DEF SetTorque
    <3> QED BY <2>1, <3>1 DEF SetTorque, TypeOK, Step
  <2>2. CASE ~SetTorque(t)
    BY <2>2 DEF TypeOK, Steps, Want, StartIfPowered, SetEnablePin, Write, Unwant, Shutdown, Turn,
        Stop, Clear, ResumeThread, chip
  <2> QED BY <2>1, <2>2
<1> QED BY <1>1, <1>2, <1>3, <1>4, <1>5, <1>6 DEF TypeOK

LEMMA CountUp ==
    ASSUME NEW last \in Nat, NEW n \in 0..last + 1
    PROVE  NextUpTo(n, last) \in 0..last + 1
BY DEF NextUpTo

\* The thread's loop gives itself these calls.
OwnCalls == {todo["tmc"]} \union {<<>>, StartMotor, StopMotor, EmergencyStop(TRUE) \o <<>>, <<>> \o <<>>,
                                  EmergencyStop(TRUE) \o StopMotor, <<>> \o StopMotor}

LEMMA ThreadLists ==
    ASSUME Lists, ThreadStep
    PROVE  /\ \E s \in OwnCalls : todo' = [todo EXCEPT !["tmc"] = s]
           /\ Idle("tmc") /\ ~suspended /\ Scheduled("tmc") /\ loc' \in Locs
<1> USE DEF OwnCalls, Lists, Thread, Loop, Locs
<1>1. CASE Top \/ Apply \/ Initialize \/ NoPower \/ CheckPower \/ EnableStage \/ EnablePwm
    BY <1>1 DEF Top, Apply, Initialize, NoPower, CheckPower, EnableStage, EnablePwm
<1>2. CASE SetEncoderType \/ AllowChange \/ BeginAlign \/ Align \/ Stuck \/ Block
    BY <1>2 DEF SetEncoderType, AllowChange, BeginAlign, Align, Stuck, Block
<1>3. CASE AlignFailed \/ CountFailure
    BY <1>3 DEF AlignFailed, CountFailure, Reported
<1>4. CASE EncoderFinished \/ OverTemp
    BY <1>4 DEF EncoderFinished, OverTemp
<1>5. CASE RequestNext \/ Supervised \/ Rest \/ Supervise \/ LowVoltage \/ Delay \/ Suspend
    BY <1>5 DEF RequestNext, Supervised, Rest, Supervise, LowVoltage, Delay, Suspend
<1> QED BY <1>1, <1>2, <1>3, <1>4, <1>5 DEF ThreadStep

LEMMA OwnCallsIn ==
    ASSUME NEW fs, {"clear", "want", "power", "resume", "unwant"} \subseteq fs
    PROVE  OwnCalls \ {todo["tmc"]} \subseteq Seq(With(fs))
<1>1. /\ <<>> \in Seq(With(fs)) /\ StartMotor \in Seq(With(fs)) /\ StopMotor \in Seq(With(fs))
      /\ EmergencyStop(TRUE) \in Seq(With(fs))
  <2>1. StartMotor \in Seq(With(fs))
    BY StartIn
  <2>2. StopMotor \in Seq(With(fs))
    BY StopIn
  <2>3. EmergencyStop(TRUE) \in Seq(With(fs))
    BY ResetIn
  <2>4. <<>> \in Seq(With(fs))
    BY EmptySeq
  <2> QED BY <2>1, <2>2, <2>3, <2>4
<1>2. /\ EmergencyStop(TRUE) \o <<>> \in Seq(With(fs)) /\ <<>> \o <<>> \in Seq(With(fs))
      /\ EmergencyStop(TRUE) \o StopMotor \in Seq(With(fs)) /\ <<>> \o StopMotor \in Seq(With(fs))
    BY <1>1, Joined
<1> QED BY <1>1, <1>2 DEF OwnCalls

LEMMA ThreadTypes ==
    ASSUME TypeOK, Lists, ThreadStep
    PROVE  TypeOK' /\ Lists'
<1>1. Lists' /\ loc' \in Locs
  <2>1. OwnCalls \subseteq Seq(Step)
    BY OwnCallsIn, StepIsWith DEF StepNames, Lists, Thread
  <2> QED BY <2>1, ThreadLists DEF Lists
<1>2. DOMAIN todo' = Thread /\ \A u \in Thread : todo'[u] \in Seq(Step)
    BY <1>1 DEF Lists
<1>3. UNCHANGED <<emergency, motorEnabledRequested, power, pace>>
    BY DEF ThreadStep, Top, Apply, Initialize, NoPower, CheckPower, EnableStage, EnablePwm,
       SetEncoderType,
        AllowChange, BeginAlign, Align, AlignFailed, Stuck, CountFailure, Block, EncoderFinished,
        RequestNext, Supervised, OverTemp, Rest, Supervise, LowVoltage, Delay, Suspend, flags, Outside
<1>4. {state', requestedState'} \subseteq States
    BY DEF TypeOK, ThreadStep, Top, Apply, Initialize, NoPower, CheckPower, EnableStage, EnablePwm,
        SetEncoderType, AllowChange, BeginAlign, Align, AlignFailed, Stuck, CountFailure, Block,
        EncoderFinished, RequestNext, Supervised, OverTemp, Rest, Supervise, LowVoltage, Delay, Suspend,
        Request, ForceState, machine, States
<1>5. {allowStateChange', initialized', powerInitialized', encoderAligned'} \subseteq BOOLEAN
    BY DEF TypeOK, ThreadStep, Top, Apply, Initialize, NoPower, CheckPower, EnableStage, EnablePwm,
        SetEncoderType, AllowChange, BeginAlign, Align, AlignFailed, Stuck, CountFailure, Block,
        EncoderFinished, RequestNext, Supervised, OverTemp, Rest, Supervise, LowVoltage, Delay, Suspend,
        Request, ForceState, machine, ready
<1>6. {enablePin', foc', torque', suspended'} \subseteq BOOLEAN /\ mode' \in {"stop", "torque"}
    BY DEF TypeOK, ThreadStep, Top, Apply, Initialize, NoPower, CheckPower, EnableStage, EnablePwm,
        SetEncoderType, AllowChange, BeginAlign, Align, AlignFailed, Stuck, CountFailure, Block,
        EncoderFinished, RequestNext, Supervised, OverTemp, Rest, Supervise, LowVoltage, Delay, Suspend,
        chip, Outside
<1>7. powerCheckCounter' \in {powerCheckCounter, 0, NextUpTo(powerCheckCounter, PowerChecks)}
    BY DEF ThreadStep, Top, Apply, Initialize, NoPower, CheckPower, EnableStage, EnablePwm,
        SetEncoderType, AllowChange, BeginAlign, Align, AlignFailed, Stuck, CountFailure, Block,
        EncoderFinished, RequestNext, Supervised, OverTemp, Rest, Supervise, LowVoltage, Delay, Suspend,
        counters
<1>8. enc_retry' \in {enc_retry, NextUpTo(enc_retry, EncRetryMax)}
    BY DEF ThreadStep, Top, Apply, Initialize, NoPower, CheckPower, EnableStage, EnablePwm,
        SetEncoderType, AllowChange, BeginAlign, Align, AlignFailed, Stuck, CountFailure, Block,
        EncoderFinished, RequestNext, Supervised, OverTemp, Rest, Supervise, LowVoltage, Delay, Suspend,
        counters
<1>9. powerCheckCounter' \in 0..PowerChecks + 1 /\ enc_retry' \in 0..EncRetryMax + 1
  <2>1. powerCheckCounter \in 0..PowerChecks + 1 /\ PowerChecks \in Nat
    BY DriverAssumption DEF TypeOK
  <2>2. enc_retry \in 0..EncRetryMax + 1 /\ EncRetryMax \in Nat
    BY DriverAssumption DEF TypeOK
  <2>3. NextUpTo(powerCheckCounter, PowerChecks) \in 0..PowerChecks + 1
    BY <2>1, CountUp
  <2>4. NextUpTo(enc_retry, EncRetryMax) \in 0..EncRetryMax + 1
    BY <2>2, CountUp
  <2>5. powerCheckCounter' \in 0..PowerChecks + 1
    BY <1>7, <2>1, <2>3
  <2>6. enc_retry' \in 0..EncRetryMax + 1
    BY <1>8, <2>2, <2>4
  <2> QED BY <2>5, <2>6
<1> QED BY <1>1, <1>2, <1>3, <1>4, <1>5, <1>6, <1>9 DEF TypeOK

\* The lists of the calls.
FromOutside == UsbResume \/ UsbSuspend \/ PressButton \/ ReleaseButton
               \/ \E v \in BOOLEAN : UpdateTorque(v)

LEMMA CallLists ==
    ASSUME Lists, FromOutside
    PROVE  \E t \in {"exti", "usb", "ffb"}, s \in Seq(Step) : Call(t, s)
<1>1. /\ StartMotor \in Seq(Step)
      /\ TurnTo(FALSE) \o EmergencyStop(FALSE) \in Seq(Step)
      /\ \A v \in BOOLEAN : TurnTo(v) \in Seq(Step)
      /\ StopMotor \in Seq(Step) /\ EmergencyStop(TRUE) \in Seq(Step)
    BY StartIn, PressIn, TurnToIn, StopIn, ResetIn, StepIsWith DEF StepNames
<1>2. TurnTo(FALSE) \o StopMotor \in Seq(Step) /\ TurnTo(FALSE) \o EmergencyStop(TRUE) \in Seq(Step)
    BY <1>1, Joined
<1> QED BY <1>1, <1>2 DEF FromOutside, UsbResume, UsbSuspend, PressButton, ReleaseButton,
           UpdateTorque

LEMMA TypeSteps == TypeOK /\ Lists /\ [Next]_vars => TypeOK' /\ Lists'
<1> SUFFICES ASSUME TypeOK, Lists, [Next]_vars PROVE TypeOK' /\ Lists'
    OBVIOUS
<1>1. CASE \E t \in Thread : Steps(t)
    BY <1>1, StepTypes
<1>2. CASE ThreadStep
    BY <1>2, ThreadTypes
<1>3. CASE FromOutside
  <2>1. PICK t \in {"exti", "usb", "ffb"}, s \in Seq(Step) : Call(t, s)
    BY <1>3, CallLists
  <2>2. Lists'
    BY <2>1 DEF Call, Lists, Thread
  <2>3. DOMAIN todo' = Thread /\ \A u \in Thread : todo'[u] \in Seq(Step)
    BY <2>2 DEF Lists
  <2> QED BY <2>1, <2>2, <2>3 DEF Call, TypeOK, machine, ready, flags, counters, chip
<1>4. CASE SwitchPower
    BY <1>4 DEF SwitchPower, TypeOK, Lists, machine, ready, flags, counters, chip
<1>5. CASE UNCHANGED vars
    BY <1>5 DEF vars, TypeOK, Lists
<1> QED BY <1>1, <1>2, <1>3, <1>4, <1>5 DEF Next, FromOutside

LEMMA InitTypes == Init => TypeOK /\ Lists
<1> SUFFICES ASSUME Init PROVE TypeOK /\ Lists
    OBVIOUS
<1>1. Lists /\ DOMAIN todo = Thread /\ \A t \in Thread : todo[t] \in Seq(Step)
    BY DEF Init, Lists
<1>2. 0 \in 0..PowerChecks + 1 /\ 0 \in 0..EncRetryMax + 1
    BY DriverAssumption
<1> QED BY <1>1, <1>2 DEF Init, TypeOK, States, Locs

\* The driver stays well typed for every number of checks and retries.
THEOREM DriverTypes == Spec => []TypeOK
<1>1. Spec => [](TypeOK /\ Lists)
    BY InitTypes, TypeSteps, PTL DEF Spec
<1> QED BY <1>1, PTL
-----------------------------------------------------------------------------
(* The emergency stop disables the power stage                             *)

\* The names of all steps but some.
Without(fs) == StepNames \ fs

Calm(s) == s \in Seq(With(Without({"pwm", "pin"})))
Enable == Do("pwm") \o Do("pin") \o Do("modeNext")

\* The stage is enabled by two steps that follow the test of the emergency.
EnableForm(s) ==
    \/ Calm(s)
    \/ s # <<>> /\ Head(s).f = "pin" /\ Calm(Tail(s))
    \/ /\ s # <<>> /\ Head(s).f = "pwm" /\ Tail(s) # <<>>
       /\ Head(Tail(s)).f = "pin" /\ Calm(Tail(Tail(s)))

\* A stop is raised or on its way.
Stopped == emergency \/ todo["exti"] \notin Seq(With(Without({"stop"})))

\* Once a stop is on its way, no thread is between its test and the pin.
DisabledInv ==
    /\ \A t \in Thread : EnableForm(todo[t])
    /\ todo["exti"] \in Seq(With(Without({"stop"}))) \union Seq(With(Without({"power"})))
    /\ \A t \in Thread \ {"exti"} : todo[t] \in Seq(With(Without({"stop"})))
    /\ todo["ffb"] \in Seq(With({"turn", "torque"}))
    /\ suspended => loc = "top"
    /\ emergency => ~enablePin
    /\ Stopped => loc # "calibrate" /\ \A t \in Thread : Calm(todo[t])

\* The tail of a list in which the stage is enabled.
LEMMA EnableTail ==
    ASSUME NEW s, EnableForm(s), s # <<>>
    PROVE  /\ Head(s).f # "pwm" => Calm(Tail(s))
           /\ Head(s).f = "pwm" => EnableForm(Tail(s))
BY HeadTailProperties DEF EnableForm, Calm, With, Without

LEMMA EnableStarts ==
    ASSUME NEW s, Calm(s)
    PROVE  EnableForm(Enable \o s)
<1> DEFINE N == With(StepNames)
           e == [f |-> "pwm", v |-> FALSE]
           g == [f |-> "pin", v |-> FALSE]
           h == [f |-> "modeNext", v |-> FALSE]
<1>1. s \in Seq(N)
  <2>1. With(Without({"pwm", "pin"})) \subseteq N
    BY DEF With, Without
  <2> QED BY <2>1, SeqMonotonic DEF Calm
<1>2. /\ Do("pwm") = <<e>> /\ Do("pin") = <<g>> /\ Do("modeNext") = <<h>>
      /\ e \in N /\ g \in N /\ h \in N /\ h \in With(Without({"pwm", "pin"}))
    BY DEF Do, With, StepNames, Without
<1>3. e.f = "pwm" /\ g.f = "pin"
    OBVIOUS
<1> HIDE DEF N, e, g, h
<1>4. Calm(<<h>> \o s)
  <2>1. <<h>> \in Seq(With(Without({"pwm", "pin"})))
    BY <1>2
  <2> QED BY <2>1, Joined DEF Calm
<1>5. <<e>> \in Seq(N) /\ <<g>> \in Seq(N) /\ <<h>> \in Seq(N)
    BY <1>2
<1>6. <<h>> \o s \in Seq(N) /\ <<g>> \o (<<h>> \o s) \in Seq(N) /\ <<e>> \o <<g>> \in Seq(N)
    BY <1>1, <1>5, Joined
<1>7. ((<<e>> \o <<g>>) \o <<h>>) \o s = <<e>> \o (<<g>> \o (<<h>> \o s))
  <2>1. ((<<e>> \o <<g>>) \o <<h>>) \o s = (<<e>> \o <<g>>) \o (<<h>> \o s)
    BY <1>1, <1>5, <1>6, ConcatAssociative
  <2>2. (<<e>> \o <<g>>) \o (<<h>> \o s) = <<e>> \o (<<g>> \o (<<h>> \o s))
    BY <1>5, <1>6, ConcatAssociative
  <2> QED BY <2>1, <2>2
<1>8. \A x \in N, r \in Seq(N) : <<x>> \o r # <<>> /\ Head(<<x>> \o r) = x /\ Tail(<<x>> \o r) = r
  <2> SUFFICES ASSUME NEW x \in N, NEW r \in Seq(N)
               PROVE  <<x>> \o r # <<>> /\ Head(<<x>> \o r) = x /\ Tail(<<x>> \o r) = r
    OBVIOUS
  <2> DEFINE c == <<x>> \o r
  <2>1. /\ <<x>> \in Seq(N) /\ Len(<<x>>) = 1 /\ <<x>>[1] = x
    OBVIOUS
  <2>2. /\ c \in Seq(N) /\ Len(c) = 1 + Len(r) /\ Len(r) \in Nat
        /\ \A i \in 1..1 + Len(r) : c[i] = IF i <= 1 THEN <<x>>[i] ELSE r[i - 1]
    BY <2>1, ConcatProperties, LenProperties
  <2> HIDE DEF c
  <2>3. c # <<>> /\ c[1] = x
    BY <2>1, <2>2
  <2>4. Tail(c) \in Seq(N) /\ Len(Tail(c)) = Len(r) /\ \A i \in 1..Len(r) : Tail(c)[i] = c[i + 1]
    BY <2>2, <2>3, HeadTailProperties
  <2>5. \A i \in 1..Len(r) : Tail(c)[i] = r[i]
    BY <2>2, <2>4
  <2>6. Tail(c) = r
    BY <2>4, <2>5, SeqEqual
  <2>7. Head(c) = x
    BY <2>3
  <2> QED BY <2>3, <2>6, <2>7 DEF c
<1>9. Enable \o s = <<e>> \o (<<g>> \o (<<h>> \o s))
    BY <1>2, <1>7 DEF Enable
<1> DEFINE w == <<h>> \o s
           u == <<g>> \o w
<1>10. w \in Seq(N) /\ u \in Seq(N) /\ Calm(w) /\ Enable \o s = <<e>> \o u
    BY <1>4, <1>6, <1>9
<1>11. u # <<>> /\ Head(u) = g /\ Tail(u) = w
    BY <1>2, <1>8, <1>10
<1> HIDE DEF w, u
<1>12. <<e>> \o u # <<>> /\ Head(<<e>> \o u) = e /\ Tail(<<e>> \o u) = u
    BY <1>2, <1>8, <1>10
<1> QED BY <1>3, <1>10, <1>11, <1>12 DEF EnableForm

\* A step puts before its list what neither stops nor enables, unless it has
\* seen power and no emergency.
LEMMA StepShape ==
    ASSUME NEW t \in Thread, Lists, Steps(t)
    PROVE  \E g \in StepNames, steps \in Seq(With(Without({"stop", "power"}))) :
                /\ Take(t, g, steps)
                /\ Calm(steps) \/ (g = "power" /\ steps = Enable /\ ~emergency)
                /\ g # "stop" => emergency' \in {emergency, FALSE}
                /\ enablePin' = enablePin \/ g = "pin" \/ (g = "stop" /\ enablePin' = FALSE)
                /\ g = "pwm" => steps = <<>>
                /\ g \in {"turn", "torque"} => steps \in Seq(With({"turn", "torque"}))
<1> DEFINE P == With(Without({"stop", "power"}))
<1>1. /\ <<>> \in Seq(P) /\ Calm(<<>>)
      /\ Enable \in Seq(P) /\ <<>> \in Seq(With({"turn", "torque"}))
      /\ Do("modeStop") \o Do("pwmOff") \o Do("shutdown") \in Seq(P)
      /\ Calm(Do("modeStop") \o Do("pwmOff") \o Do("shutdown"))
    BY EmptySeq, EnableIn, SwitchOffIn DEF StepNames, Without, Calm, Enable
<1>2. CASE Turn(t)
  <2>1. Head(todo[t]) \in Step
    BY <1>2, HeadTailProperties DEF Turn, Idle, Lists
  <2> DEFINE one == <<[f |-> "torque", v |-> Head(todo[t]).v]>>
  <2>2. one \in Seq(P) /\ Calm(one) /\ one \in Seq(With({"turn", "torque"}))
    BY <2>1 DEF Step, StepNames, With, Without, Calm
  <2>3. PICK steps \in {one, <<>>} : Take(t, "turn", steps)
    BY <1>2 DEF Turn
  <2>4. emergency' = emergency /\ enablePin' = enablePin
    BY <1>2 DEF Turn, flags
  <2>5. /\ steps \in Seq(P) /\ Calm(steps) /\ steps \in Seq(With({"turn", "torque"}))
        /\ "turn" \in StepNames
    BY <1>1, <2>2, <2>3, EmptySeq DEF StepNames
  <2> QED BY <2>3, <2>4, <2>5
<1>3. CASE StartIfPowered(t)
    BY <1>1, <1>3 DEF StartIfPowered, StepNames, Enable, flags
<1>4. CASE Unwant(t)
    BY <1>1, <1>4 DEF Unwant, StepNames
<1>5. CASE Write(t)
    BY <1>1, <1>5 DEF Write, StepNames, flags
<1>6. CASE Want(t) \/ SetEnablePin(t) \/ Shutdown(t)
    BY <1>1, <1>6 DEF Want, SetEnablePin, Shutdown, StepNames, flags
<1>7. CASE SetTorque(t) \/ Stop(t) \/ Clear(t) \/ ResumeThread(t)
    BY <1>1, <1>7 DEF SetTorque, Stop, Clear, ResumeThread, StepNames, flags
<1> QED BY <1>2, <1>3, <1>4, <1>5, <1>6, <1>7 DEF Steps

LEMMA StepDisabled ==
    ASSUME Lists, DisabledInv, NEW t \in Thread, Steps(t)
    PROVE  DisabledInv'
<1> DEFINE P == With(Without({"stop"}))
           R == With(Without({"power"}))
           Q == With(Without({"stop", "power"}))
<1>1. PICK g \in StepNames, steps \in Seq(Q) :
                /\ Take(t, g, steps)
                /\ Calm(steps) \/ (g = "power" /\ steps = Enable /\ ~emergency)
                /\ g # "stop" => emergency' \in {emergency, FALSE}
                /\ enablePin' = enablePin \/ g = "pin" \/ (g = "stop" /\ enablePin' = FALSE)
                /\ g = "pwm" => steps = <<>>
                /\ g \in {"turn", "torque"} => steps \in Seq(With({"turn", "torque"}))
    BY StepShape
<1>2. Q \subseteq Step /\ Q \subseteq P /\ Q \subseteq R
    BY StepIsWith DEF With, Without
<1>3. steps \in Seq(Step) /\ steps \in Seq(P) /\ steps \in Seq(R)
    BY <1>2, SeqMonotonic
<1>4. /\ Lists' /\ todo[t] # <<>> /\ Head(todo[t]).f = g /\ Tail(todo[t]) \in Seq(Step)
      /\ todo'[t] = steps \o Tail(todo[t])
      /\ \A u \in Thread \ {t} : todo'[u] = todo[u]
    BY <1>1, <1>3, TakeList
<1>5. loc' = loc /\ (suspended' => suspended)
  <2>1. CASE ResumeThread(t)
    BY <2>1 DEF ResumeThread
  <2>2. CASE ~ResumeThread(t)
    BY <2>2 DEF Steps, Want, StartIfPowered, SetEnablePin, Write, Unwant, Shutdown, Turn,
       SetTorque, Stop,
        Clear
  <2> QED BY <2>1, <2>2
<1>6. \A u \in Thread \ {"exti"} : todo'[u] \in Seq(P)
  <2>1. CASE t = "exti"
    BY <1>4, <2>1 DEF DisabledInv
  <2>2. CASE t # "exti"
    <3>1. Tail(todo[t]) \in Seq(P)
        BY <1>4, <2>2, HeadTailProperties DEF DisabledInv
    <3>2. todo'[t] \in Seq(P)
        BY <1>3, <1>4, <3>1, Joined
    <3> QED BY <1>4, <3>2 DEF DisabledInv
  <2> QED BY <2>1, <2>2
\* What the stop needs to know of its own list.
<1>7. /\ todo["exti"] \in Seq(P) => todo'["exti"] \in Seq(P)
      /\ todo'["exti"] \in Seq(P) \union Seq(With(Without({"power"})))
  <2>1. CASE t # "exti"
    BY <1>4, <2>1 DEF DisabledInv, Thread
  <2>2. CASE t = "exti" /\ todo[t] \in Seq(P)
    <3>1. Tail(todo[t]) \in Seq(P)
        BY <1>4, <2>2, HeadTailProperties
    <3> QED BY <1>3, <1>4, <2>2, <3>1, Joined
  <2>3. CASE t = "exti" /\ todo[t] \notin Seq(P)
    <3>1. todo[t] \in Seq(R)
        BY <2>3 DEF DisabledInv
    <3>2. Tail(todo[t]) \in Seq(R)
        BY <1>4, <3>1, HeadTailProperties
    <3> QED BY <1>3, <1>4, <2>3, <3>2, Joined
  <2> QED BY <2>1, <2>2, <2>3
\* The tail is calm, or its head is the pin.
<1>8. Stopped' => Stopped
  <2>1. CASE g = "stop"
    <3>1. todo[t] \notin Seq(P)
      <4>1. ASSUME todo[t] \in Seq(P) PROVE FALSE
        <5>1. Head(todo[t]) \in P
            BY <1>4, <4>1, HeadTailProperties
        <5> QED BY <1>4, <2>1, <5>1 DEF With, Without
      <4> QED BY <4>1
    <3>2. t = "exti"
        BY <3>1 DEF DisabledInv
    <3> QED BY <3>1, <3>2 DEF Stopped
  <2>2. CASE g # "stop"
    BY <1>1, <1>7, <2>2 DEF Stopped
  <2> QED BY <2>1, <2>2
<1>9. Stopped /\ g = "power" => emergency
  <2> SUFFICES ASSUME Stopped, g = "power", ~emergency PROVE FALSE
    OBVIOUS
  <2>1. todo["exti"] \notin Seq(P) /\ todo["exti"] \in Seq(R) /\ todo["exti"] # <<>>
    BY EmptySeq DEF Stopped, DisabledInv
  <2>2. t = "exti"
    BY <1>1, <2>1 DEF Take, Scheduled, Idle, Threads, Thread
  <2>3. Head(todo[t]) \in R
    BY <2>1, <2>2, HeadTailProperties
  <2> QED BY <1>4, <2>3 DEF With, Without
<1>10. Stopped => \A u \in Thread : Calm(todo'[u])
  <2> SUFFICES ASSUME Stopped PROVE \A u \in Thread : Calm(todo'[u])
    OBVIOUS
  <2>1. Calm(todo[t]) /\ Calm(steps)
    BY <1>1, <1>9 DEF DisabledInv
  <2>2. Calm(Tail(todo[t]))
    BY <1>4, <2>1, HeadTailProperties DEF Calm
  <2>3. Calm(todo'[t])
    BY <1>4, <2>1, <2>2, Joined DEF Calm
  <2> QED BY <1>4, <2>3 DEF DisabledInv
<1>11. \A u \in Thread : EnableForm(todo'[u])
  <2>1. EnableForm(todo[t])
    BY DEF DisabledInv
  <2>2. CASE g # "pwm" /\ Calm(steps)
    <3>1. Calm(Tail(todo[t]))
        BY <1>4, <2>1, <2>2, EnableTail
    <3>2. Calm(todo'[t])
        BY <1>4, <2>2, <3>1, Joined DEF Calm
    <3> QED BY <1>4, <3>2 DEF DisabledInv, EnableForm
  <2>3. CASE g = "pwm"
    <3>1. EnableForm(Tail(todo[t]))
        BY <1>4, <2>1, <2>3, EnableTail
    <3>2. steps = <<>>
        BY <1>1, <2>3
    <3>3. todo'[t] = Tail(todo[t])
        BY <1>4, <3>2, ConcatEmptySeq
    <3> QED BY <1>4, <3>1, <3>3 DEF DisabledInv
  <2>4. CASE g = "power" /\ steps = Enable
    <3>1. Calm(Tail(todo[t]))
        BY <1>4, <2>1, <2>4, EnableTail
    <3>2. EnableForm(todo'[t])
        BY <1>4, <2>4, <3>1, EnableStarts
    <3> QED BY <1>4, <3>2 DEF DisabledInv
  <2> QED BY <1>1, <2>2, <2>3, <2>4
<1>12. todo'["ffb"] \in Seq(With({"turn", "torque"}))
  <2>1. CASE t # "ffb"
    BY <1>4, <2>1 DEF DisabledInv, Thread
  <2>2. CASE t = "ffb"
    <3>1. Head(todo[t]) \in With({"turn", "torque"}) /\ Tail(todo[t]) \in Seq(With({"turn", "torque"}))
        BY <1>4, <2>2, HeadTailProperties DEF DisabledInv
    <3>2. steps \in Seq(With({"turn", "torque"}))
        BY <1>1, <1>4, <3>1 DEF With
    <3> QED BY <1>4, <2>2, <3>1, <3>2, Joined
  <2> QED BY <2>1, <2>2
<1>13. emergency' => ~enablePin'
  <2> SUFFICES ASSUME emergency', enablePin' PROVE FALSE
    OBVIOUS
  <2>1. CASE g = "stop"
    <3>1. Stop(t) /\ ~enablePin'
        BY <1>4, <2>1 DEF Steps, Take, Want, StartIfPowered, SetEnablePin, Write, Unwant, Shutdown,
            Turn, SetTorque, Stop, Clear, ResumeThread
    <3> QED BY <3>1
  <2>2. CASE g # "stop"
    <3>1. emergency
        BY <1>1, <2>2
    <3>2. Calm(todo[t]) /\ ~enablePin
        BY <3>1 DEF DisabledInv, Stopped
    <3>3. Head(todo[t]) \in With(Without({"pwm", "pin"}))
        BY <1>4, <3>2, HeadTailProperties DEF Calm
    <3>4. g # "pin"
        BY <1>4, <3>3 DEF With, Without
    <3> QED BY <1>1, <2>2, <3>2, <3>4
  <2> QED BY <2>1, <2>2
<1>15. Stopped' => loc' # "calibrate" /\ \A u \in Thread : Calm(todo'[u])
    BY <1>5, <1>8, <1>10 DEF DisabledInv
<1>16. suspended' => loc' = "top"
    BY <1>5 DEF DisabledInv
<1> QED BY <1>6, <1>7, <1>11, <1>12, <1>13, <1>15, <1>16 DEF DisabledInv, EnableForm, Calm

LEMMA ThreadDisabled ==
    ASSUME Lists, DisabledInv, ThreadStep
    PROVE  DisabledInv'
<1> DEFINE P == With(Without({"stop"}))
           C == With(Without({"pwm", "pin"}))
<1>1. PICK s \in OwnCalls : todo' = [todo EXCEPT !["tmc"] = s]
    BY ThreadLists
<1>2. Idle("tmc") /\ ~suspended /\ Scheduled("tmc")
    BY ThreadLists
<1>3. todo["exti"] = <<>>
    BY <1>2 DEF Scheduled, Threads, Idle
<1>4. s \in Seq(P) /\ s \in Seq(C)
  <2>1. <<>> \in Seq(P) /\ <<>> \in Seq(C)
    BY EmptySeq
  <2>2. CASE s = todo["tmc"]
    BY <1>2, <2>1, <2>2 DEF Idle
  <2>3. CASE s # todo["tmc"]
    <3>1. {"clear", "want", "power", "resume", "unwant"} \subseteq Without({"stop"})
        BY DEF Without, StepNames
    <3>2. {"clear", "want", "power", "resume", "unwant"} \subseteq Without({"pwm", "pin"})
        BY DEF Without, StepNames
    <3>3. OwnCalls \ {todo["tmc"]} \subseteq Seq(P)
        BY <3>1, OwnCallsIn
    <3>4. OwnCalls \ {todo["tmc"]} \subseteq Seq(C)
        BY <3>2, OwnCallsIn
    <3> QED BY <2>3, <3>3, <3>4
  <2> QED BY <2>2, <2>3
<1>5. todo'["tmc"] = s /\ \A u \in Thread \ {"tmc"} : todo'[u] = todo[u]
    BY <1>1 DEF Lists, Thread
<1>6. emergency' = emergency /\ (suspended' => loc' = "top")
  <2>1. CASE Suspend
    BY <2>1 DEF Suspend, Loop, flags
  <2>2. CASE ~Suspend
    <3>1. UNCHANGED suspended
        BY <2>2 DEF ThreadStep, Top, Apply, Initialize, NoPower, CheckPower, EnableStage, EnablePwm,
            SetEncoderType, AllowChange, BeginAlign, Align, AlignFailed, Stuck, CountFailure, Block,
            EncoderFinished, RequestNext, Supervised, OverTemp, Rest, Supervise, LowVoltage, Delay, Outside
    <3>2. UNCHANGED emergency
        BY <2>2 DEF ThreadStep, Top, Apply, Initialize, NoPower, CheckPower, EnableStage, EnablePwm,
            SetEncoderType, AllowChange, BeginAlign, Align, AlignFailed, Stuck, CountFailure, Block,
            EncoderFinished, RequestNext, Supervised, OverTemp, Rest, Supervise, LowVoltage, Delay, flags
    <3> QED BY <1>2, <3>1, <3>2
  <2> QED BY <2>1, <2>2
<1>7. emergency => loc # "calibrate"
    BY DEF DisabledInv, Stopped
<1>8. emergency => loc' # "calibrate" /\ enablePin' = enablePin
  <2>1. CASE CheckPower
    BY <2>1 DEF CheckPower
  <2>2. CASE EnableStage
    BY <1>7, <2>2 DEF EnableStage, Loop
  <2>3. CASE ~CheckPower /\ ~EnableStage
    BY <2>3 DEF ThreadStep, Top, Apply, Initialize, NoPower, EnablePwm,
        SetEncoderType, AllowChange, BeginAlign, Align, AlignFailed, Stuck, CountFailure, Block,
        EncoderFinished, RequestNext, Supervised, OverTemp, Rest, Supervise, LowVoltage, Delay, Suspend,
        Loop
  <2> QED BY <2>1, <2>2, <2>3
<1>9. Stopped' => emergency
  <2>1. todo'["exti"] \in Seq(P)
    BY <1>3, <1>5, EmptySeq DEF Thread
  <2> QED BY <1>6, <2>1 DEF Stopped
<1>10. \A u \in Thread : EnableForm(todo'[u])
    BY <1>4, <1>5 DEF DisabledInv, EnableForm, Calm
<1>11. Stopped' => loc' # "calibrate" /\ \A u \in Thread : Calm(todo'[u])
    BY <1>4, <1>5, <1>8, <1>9 DEF DisabledInv, Stopped, Calm
<1>12. /\ todo'["exti"] = todo["exti"] /\ todo'["ffb"] = todo["ffb"]
       /\ \A u \in Thread \ {"exti"} : todo'[u] \in Seq(P)
    BY <1>4, <1>5 DEF DisabledInv, Thread
<1>13. emergency' => ~enablePin'
    BY <1>6, <1>8 DEF DisabledInv
<1> QED BY <1>6, <1>10, <1>11, <1>12, <1>13 DEF DisabledInv, EnableForm, Calm

LEMMA CallDisabled ==
    ASSUME Lists, DisabledInv, FromOutside
    PROVE  DisabledInv'
<1> DEFINE P == With(Without({"stop"}))
           R == With(Without({"power"}))
           C == With(Without({"pwm", "pin"}))
<1>1. PICK t, s :
            /\ t \in {"exti", "usb", "ffb"} /\ Call(t, s) /\ s \in Seq(C)
            /\ t # "exti" => s \in Seq(P)
            /\ t = "ffb" => s \in Seq(With({"turn", "torque"}))
            /\ s \in Seq(P) \/ (s \in Seq(R) /\ (Undisturbed \/ ~Enabling))
  <2>0. /\ {"turn", "unwant", "clear", "want", "power", "resume"} \subseteq Without({"stop"})
        /\ {"turn", "stop", "unwant", "clear", "want", "power", "resume"} \subseteq Without({"pwm", "pin"})
        /\ {"turn", "stop", "unwant"} \subseteq Without({"power"})
    BY DEF Without, StepNames
  <2>1. CASE UsbResume
    <3>1. StartMotor \in Seq(C) /\ StartMotor \in Seq(P)
        BY <2>0, StartIn
    <3> QED BY <2>1, <3>1 DEF UsbResume
  <2>2. CASE UsbSuspend
    <3>1. TurnTo(FALSE) \o StopMotor \in Seq(C) /\ TurnTo(FALSE) \o StopMotor \in Seq(P)
        BY <2>0, StopIn, TurnToIn, Joined
    <3> QED BY <2>2, <3>1 DEF UsbSuspend
  <2>3. CASE PressButton
    <3> DEFINE press == TurnTo(FALSE) \o EmergencyStop(FALSE)
    <3>1. press \in Seq(C) /\ press \in Seq(R)
        BY <2>0, PressIn
    <3>2. Call("exti", press) /\ (Undisturbed \/ ~Enabling)
        BY <2>3 DEF PressButton
    <3> QED BY <3>1, <3>2
  <2>4. CASE ReleaseButton
    <3> DEFINE release == TurnTo(FALSE) \o EmergencyStop(TRUE)
    <3>1. release \in Seq(C) /\ release \in Seq(P)
        BY <2>0, ResetIn, TurnToIn, Joined
    <3>2. Call("exti", release)
        BY <2>4 DEF ReleaseButton
    <3> QED BY <3>1, <3>2
  <2>5. CASE \E v \in BOOLEAN : UpdateTorque(v)
    <3>1. PICK v \in BOOLEAN : Call("ffb", TurnTo(v))
        BY <2>5 DEF UpdateTorque
    <3>2. TurnTo(v) \in Seq(C) /\ TurnTo(v) \in Seq(P) /\ TurnTo(v) \in Seq(With({"turn", "torque"}))
        BY <2>0, TurnToIn
    <3> QED BY <3>1, <3>2
  <2> QED BY <2>1, <2>2, <2>3, <2>4, <2>5 DEF FromOutside
<1>2. /\ UNCHANGED <<emergency, enablePin, suspended, loc>>
      /\ todo'[t] = s /\ \A u \in Thread \ {t} : todo'[u] = todo[u]
    BY <1>1 DEF Call, Lists, flags, Thread
<1>3. todo[t] = <<>>
    BY <1>1 DEF Call, Idle
<1>4. \A u \in Thread : EnableForm(todo'[u])
    BY <1>1, <1>2 DEF DisabledInv, EnableForm, Calm
<1>5. /\ todo'["exti"] \in Seq(P) \union Seq(R)
      /\ \A u \in Thread \ {"exti"} : todo'[u] \in Seq(P)
  <2>1. CASE t = "exti"
    BY <1>1, <1>2, <2>1 DEF DisabledInv, Thread
  <2>2. CASE t # "exti"
    BY <1>1, <1>2, <2>2 DEF DisabledInv, Thread
  <2> QED BY <2>1, <2>2
<1>6. todo'["ffb"] \in Seq(With({"turn", "torque"}))
    BY <1>1, <1>2 DEF DisabledInv, Thread
<1>7. /\ suspended' => loc' = "top"
      /\ emergency' => ~enablePin'
    BY <1>2 DEF DisabledInv
<1>8. Stopped' => loc' # "calibrate" /\ \A u \in Thread : Calm(todo'[u])
  <2> SUFFICES ASSUME Stopped' PROVE loc # "calibrate" /\ \A u \in Thread : Calm(todo'[u])
    BY <1>2
  <2>1. CASE Stopped
    BY <1>1, <1>2, <2>1 DEF DisabledInv, Calm
  <2>2. CASE ~Stopped
    <3>1. t = "exti" /\ s \notin Seq(P)
        BY <1>2, <2>2 DEF Stopped, Thread
    <3>2. CASE Undisturbed
        <4>1. loc # "calibrate"
            BY <3>2 DEF Undisturbed, Settled, DisabledInv
        <4>2. \A u \in {"exti", "usb", "tmc"} : todo[u] = <<>>
            BY <3>2 DEF Undisturbed, Settled, Idle
        <4>3. Calm(<<>>) /\ Calm(todo["ffb"])
            <5>1. With({"turn", "torque"}) \subseteq C
                BY DEF With, Without, StepNames
            <5>2. todo["ffb"] \in Seq(C)
                BY <5>1, SeqMonotonic DEF DisabledInv
            <5> QED BY <5>2, EmptySeq DEF Calm
        <4> QED BY <1>1, <1>2, <4>1, <4>2, <4>3 DEF Thread, Calm
    <3>3. CASE ~Enabling
        <4>1. loc # "calibrate" /\ \A u \in Thread : todo[u] = <<>> \/ Head(todo[u]).f \notin {"pwm", "pin"}
            BY <3>3 DEF Enabling, Idle
        <4>2. \A u \in Thread : Calm(todo[u])
            BY <4>1, EmptySeq DEF DisabledInv, EnableForm, Calm
        <4> QED BY <1>1, <1>2, <4>1, <4>2 DEF Calm
    <3> QED BY <1>1, <3>1, <3>2, <3>3
  <2> QED BY <2>1, <2>2
<1> QED BY <1>4, <1>5, <1>6, <1>7, <1>8 DEF DisabledInv, EnableForm, Calm

LEMMA InitDisabled == Init => DisabledInv
<1> SUFFICES ASSUME Init PROVE DisabledInv
    OBVIOUS
<1>1. \A t \in Thread : todo[t] = <<>>
    BY DEF Init
<1>2. \A S : <<>> \in Seq(S)
    BY EmptySeq
<1> QED BY <1>1, <1>2 DEF Init, DisabledInv, EnableForm, Calm, Stopped, Thread

\* In an emergency the power stage is disabled.  With the pace "press" the
\* button is pressed at any time but between a thread's look at the emergency
\* and its write of the enable pin (the guard of PressButton); with the other
\* paces it is pressed when the thread rests.
THEOREM StageDisabled == Spec => []EmergencyMeansDisabled
<1>1. Lists /\ DisabledInv /\ [Next]_vars => DisabledInv'
  <2> SUFFICES ASSUME Lists, DisabledInv, [Next]_vars PROVE DisabledInv'
    OBVIOUS
  <2>1. CASE \E t \in Thread : Steps(t)
    BY <2>1, StepDisabled
  <2>2. CASE ThreadStep
    BY <2>2, ThreadDisabled
  <2>3. CASE FromOutside
    BY <2>3, CallDisabled
  <2>4. CASE SwitchPower \/ UNCHANGED vars
    <3>1. UNCHANGED <<todo, emergency, enablePin, suspended, loc>>
        BY <2>4 DEF SwitchPower, vars, flags
    <3> QED BY <3>1 DEF DisabledInv, EnableForm, Calm, Stopped
  <2> QED BY <2>1, <2>2, <2>3, <2>4 DEF Next, FromOutside
<1>2. DisabledInv => EmergencyMeansDisabled
    BY DEF DisabledInv, EmergencyMeansDisabled
<1>3. Init => TypeOK /\ Lists /\ DisabledInv
    BY InitTypes, InitDisabled
<1>4. TypeOK /\ Lists /\ DisabledInv /\ [Next]_vars => (TypeOK /\ Lists /\ DisabledInv)'
    BY <1>1, TypeSteps
<1> QED BY <1>2, <1>3, <1>4, PTL DEF Spec
-----------------------------------------------------------------------------
(* A motor nobody wants gives no torque, if the calls are settled          *)

(***************************************************************************)
(* The lists of steps a call can have left, by their first step and what   *)
(* follows it.                                                             *)
(***************************************************************************)
First(f, rests) == {s \in Seq(Step) : s # <<>> /\ Head(s) = [f |-> f, v |-> FALSE] /\ Tail(s) \in rests}

Nil == {<<>>}
TurnLists(rests) == rests \union First("turn", rests) \union First("torque", rests)
UnwantLists == First("unwant", Nil)
PressLists == First("stop", UnwantLists)
StopLists == TurnLists(UnwantLists) \union TurnLists(PressLists)
ShutLists == First("shutdown", Nil)
PwmOffLists == First("pwmOff", ShutLists)
OffLists == PwmOffLists \union First("modeStop", PwmOffLists)
ModeLists(rests) == First("modeNext", rests)
PinLists(rests) == First("pin", ModeLists(rests))
PwmLists(rests) == First("pwm", PinLists(rests))
PowerLists(rests) == First("power", rests)
StartLists(rests) ==
    PowerLists(rests) \union PwmLists(rests) \union PinLists(rests) \union ModeLists(rests)
WantLists(rests) == First("want", PowerLists(rests))
ResumeLists(rests) == First("resume", rests)
ClearLists(rests) == First("clear", WantLists(ResumeLists(rests)))

\* What stopMotor writes; startMotor; and startMotor within a reset.
CloseLists == OffLists \union ShutLists
OpenLists(rests) == WantLists(rests) \union StartLists(rests)
ReopenLists(rests) == OpenLists(ResumeLists(rests)) \union ResumeLists(rests)

\* What may follow a reset of the thread's own, and that of the others.
Ends == Nil \union UnwantLists
EndsOf(t) == IF t = "tmc" THEN Ends ELSE Nil

\* The part of a call that is left: stopMotor or emergencyStop(false) up to
\* the test of the state, and what it then writes; startMotor; the same within
\* emergencyStop(true), which resumes the thread at its end.
Part(s) ==
    IF s = <<>> THEN "idle"
    ELSE IF s \in StopLists THEN "stop"
    ELSE IF s \in OffLists THEN "off"
    ELSE IF s \in ShutLists THEN "shut"
    ELSE IF s \in WantLists(Nil) THEN "want"
    ELSE IF s \in StartLists(Nil) THEN "start"
    ELSE IF s \in TurnLists(ClearLists(Ends)) THEN "reset"
    ELSE IF s \in WantLists(ResumeLists(Ends)) THEN "rewant"
    ELSE IF s \in StartLists(ResumeLists(Ends)) THEN "restart"
    ELSE "resume"

\* The calls other than the loop's follow one another, so there is one caller
\* at most.
Caller == IF todo["exti"] # <<>> THEN "exti" ELSE IF todo["usb"] # <<>> THEN "usb"
          ELSE IF todo["tmc"] # <<>> THEN "tmc" ELSE "none"
Doing == IF Caller = "none" THEN "idle" ELSE Part(todo[Caller])

\* The threads whose calls start, stop or reset the motor.
Outer == {"exti", "usb", "tmc"}

\* What each of them may have left to do.  Only the button's interrupt raises
\* the emergency stop; the USB thread resets nothing.
ListsOf(t) ==
    IF t = "exti" THEN StopLists \union CloseLists \union TurnLists(ClearLists(Nil)) \union ReopenLists(Nil)
    ELSE IF t = "usb" THEN TurnLists(UnwantLists) \union CloseLists \union OpenLists(Nil)
    ELSE UnwantLists \union CloseLists \union OpenLists(Nil) \union ClearLists(Ends) \union ReopenLists(Ends)

\* The calls follow one another; the force feedback loop does one step at a
\* time beside them.
OneCall ==
    /\ \A t \in Outer : todo[t] = <<>> \/ todo[t] \in ListsOf(t)
    /\ \A t, u \in Outer : t # u => todo[t] = <<>> \/ todo[u] = <<>>
    /\ todo["ffb"] # <<>> => Head(todo["ffb"]).f \in {"turn", "torque"} /\ Tail(todo["ffb"]) = <<>>

\* The loop has tested that the motor is ready and has still to set the torque.
Driving == todo["ffb"] # <<>> /\ Head(todo["ffb"]).f = "torque"

(***************************************************************************)
(* The state the machine is in and the one requested.                      *)
(***************************************************************************)
Pair(s, rs) == state = s => requestedState \in rs

\* Which requests a state can meet, and where the machine then is.
Following ==
    /\ Pair("uninitialized", {"Shutdown"})
    /\ Pair("waitPower", {"Shutdown", "EncoderInit", "Running", "HardError"})
    /\ Pair("EncoderInit", {"EncoderInit", "EncoderFinished", "waitPower"})
    /\ Pair("EncoderFinished", {"EncoderFinished", "Running", "Shutdown"})
    /\ Pair("Running", {"Running", "OverTemp", "Shutdown"})
    /\ Pair("Shutdown", {"Shutdown", "Running"})
    /\ Pair("HardError", {"HardError", "EncoderInit", "waitPower"})
    /\ Pair("OverTemp", {"OverTemp", "HardError"})
    /\ ~allowStateChange => state \in {"uninitialized", "waitPower", "HardError"}
    /\ loc = "switch" /\ allowStateChange => state = requestedState
    /\ requestedState = "waitPower" => loc \in {"stuck", "failed", "block", "supervise"} /\ ~power
    /\ state = "EncoderFinished" /\ requestedState = "EncoderFinished" =>
            loc \in {"switch", "finish"} \/ (loc = "supervise" /\ Caller = "tmc")
    /\ state = "OverTemp" /\ requestedState = "OverTemp" => loc \in {"switch", "finish"}

\* Before the first power-up, and during it, nobody calls.
Powering ==
    /\ initialized = (state # "uninitialized")
    /\ ~initialized => ~powerInitialized
    /\ ~powerInitialized =>
            /\ Caller = "none" /\ ~allowStateChange /\ ~encoderAligned /\ ~emergency
            /\ ~motorEnabledRequested /\ ~torque /\ requestedState = "Shutdown"
            /\ state \in {"uninitialized", "waitPower"}
    /\ loc \in {"calibrate", "enable", "encoder"} =>
            /\ powerInitialized /\ ~encoderAligned /\ ~emergency /\ ~motorEnabledRequested /\ ~torque
            /\ requestedState = "Shutdown"
    /\ loc \in {"calibrate", "enable", "encoder", "allow"} =>
            state = "waitPower" /\ power /\ Caller = "none"
    /\ requestedState = "EncoderFinished" => encoderAligned

\* The other places of the loop.
Placed ==
    /\ loc = "align" => state = "EncoderInit" /\ requestedState = "EncoderInit"
    /\ loc \in {"stuck", "failed", "block"} =>
            /\ state \in {"EncoderInit", "HardError"}
            /\ requestedState \in {"EncoderInit", "waitPower"}
            /\ loc = "stuck" => state = "EncoderInit"
    /\ loc = "finish" =>
            /\ state = requestedState /\ state \in {"EncoderFinished", "OverTemp"}
            /\ state = "EncoderFinished" /\ Caller = "none" => motorEnabledRequested
            /\ Caller = "tmc" =>
                    /\ state = "EncoderFinished" => Doing \in {"want", "start"}
                    /\ state = "OverTemp" => Doing = "stop"
    /\ Caller = "tmc" /\ loc \notin {"stuck", "block", "finish"} =>
            /\ loc = "supervise" /\ state = "EncoderFinished" /\ requestedState = state
            /\ Doing \in {"stop", "off", "shut"}

\* Where the supply can have gone.
Supplied ==
    /\ state \in {"EncoderFinished", "OverTemp"} => power
    /\ state = "Shutdown" /\ requestedState = "Running" => power
    /\ state \in {"Running", "EncoderInit"} /\ state # requestedState =>
            power \/ loc \in {"supervise", "stuck", "failed", "block"}
    /\ loc = "lowVoltage" =>
            /\ Caller = "none" /\ state = requestedState /\ ~power
            /\ state \in {"HardError", "OverTemp"} => mode = "stop"

\* The calls from outside find the machine settled.
Called ==
    /\ Caller \in {"exti", "usb"} =>
            /\ power
            /\ \/ loc = "align" \/ suspended
               \/ /\ loc = "delay" /\ state \notin {"waitPower", "OverTemp"}
                  /\ \/ state \in {"HardError", requestedState}
                     \/ state = "Shutdown" /\ requestedState = "Running"
    /\ Doing = "shut" => ~foc
    /\ Doing \in {"off", "shut"} => state \in {"Running", "EncoderFinished"} /\ ~motorEnabledRequested
    /\ Doing \in {"start", "restart"} => motorEnabledRequested
    /\ Doing \in {"want", "start", "rewant", "restart", "resume"} => ~emergency

\* In an emergency the machine goes to Shutdown, or stays where it is, and
\* suspends itself.
Halted ==
    /\ emergency =>
            /\ power /\ ~motorEnabledRequested
            /\ state \notin {"waitPower", "OverTemp", "EncoderFinished"} /\ requestedState # "OverTemp"
            /\ requestedState = "Running" =>
                    state = "Running" /\ Caller = "exti" /\ Doing \in {"stop", "off", "shut"}
            /\ state \in {"EncoderInit", "HardError"} /\ ~suspended =>
                    loc \in {"align", "stuck", "failed", "block", "supervise", "delay", "suspend"}
    /\ loc = "suspend" => emergency
    /\ loc = "suspend" \/ suspended => state \in {"Shutdown", "HardError", "EncoderInit"}
    /\ suspended =>
            /\ loc = "top"
            /\ emergency \/ (Caller = "exti" /\ Doing \in {"rewant", "restart", "resume"})

(***************************************************************************)
(* The motor has torque, runs or is about to.  If nobody wants it then, a  *)
(* call has still to switch it off, the driver gave up, or the loss of the *)
(* supply has ended the torque mode.                                       *)
(***************************************************************************)
Hot == torque \/ state = "Running" \/ requestedState = "Running"

\* It is aligned, nowhere near the alignment, and goes on to Running only
\* while it is wanted.
WhileHot ==
    /\ Hot =>
        /\ encoderAligned
        /\ loc \notin {"calibrate", "enable", "encoder", "align", "stuck", "failed", "block"}
        /\ state # "EncoderInit"
        /\ state = "EncoderFinished" => requestedState = "Running"
        /\ state = "HardError" => requestedState = "HardError"
        /\ state = "waitPower" => requestedState # "EncoderInit"
    /\ requestedState = "Running" /\ state \in {"Shutdown", "EncoderFinished"} =>
            motorEnabledRequested /\ Doing \in {"idle", "start", "restart", "resume"}
    /\ Hot /\ motorEnabledRequested /\ requestedState = "Shutdown" => Doing \in {"want", "rewant"}
    /\ Driving => state = "Running"

\* An unwanted one with torque: what ends it.
SwitchedOff ==
    Hot /\ foc /\ ~motorEnabledRequested =>
        \/ Doing \in {"off", "shut"}
        \/ Doing = "stop" /\ state = "Running"
        \/ state \in {"OverTemp", "HardError"}
        \/ state = "waitPower" /\ mode = "stop" /\ requestedState = "HardError"

Core ==
    /\ Following /\ Powering /\ Placed /\ Supplied /\ Called /\ Halted
    /\ WhileHot /\ SwitchedOff
-----------------------------------------------------------------------------
(* What the lists say of the call                                          *)

LEMMA FirstHead ==
    \A f, rests, s : s \in First(f, rests) =>
        s \in Seq(Step) /\ s # <<>> /\ Head(s).f = f /\ Head(s).v = FALSE /\ Tail(s) \in rests
BY DEF First

\* A step put before a list.
LEMMA DoBefore ==
    ASSUME NEW f \in StepNames, NEW rests, NEW s \in Seq(Step), s \in rests
    PROVE  Do(f) \o s \in First(f, rests) /\ Do(f) \o s \in Seq(Step)
<1>1. Do(f) \in Seq(Step) /\ Do(f) \o s \in Seq(Step)
    BY Joined, DoIn, StepIsWith
<1>2. Do(f) \o s # <<>> /\ Head(Do(f) \o s) = [f |-> f, v |-> FALSE] /\ Tail(Do(f) \o s) = s
    BY DEF Do, Step
<1> QED BY <1>1, <1>2 DEF First

\* The classes by the first step and the last, which tell them apart.
LEMMA PartOf ==
    ASSUME NEW s, NEW rests, rests \subseteq Ends
    PROVE  /\ s \in StopLists => Part(s) = "stop"
           /\ s \in OffLists => Part(s) = "off"
           /\ s \in ShutLists => Part(s) = "shut"
           /\ s \in WantLists(Nil) => Part(s) = "want"
           /\ s \in StartLists(Nil) => Part(s) = "start"
           /\ s \in TurnLists(ClearLists(rests)) => Part(s) = "reset"
           /\ s \in WantLists(ResumeLists(rests)) => Part(s) = "rewant"
           /\ s \in StartLists(ResumeLists(rests)) => Part(s) = "restart"
           /\ s \in ResumeLists(rests) => Part(s) = "resume"
<1> DEFINE h == Head(s).f
<1>1. s \in OffLists => s # <<>> /\ h \in {"modeStop", "pwmOff"}
    BY DEF OffLists, PwmOffLists, First
<1>2. s \in ShutLists => s # <<>> /\ h = "shutdown"
    BY DEF ShutLists, First
<1>3. \A r : s \in WantLists(r) => s # <<>> /\ h = "want"
    BY DEF WantLists, First
<1>4. \A r : s \in StartLists(r) => s # <<>> /\ h \in {"power", "pwm", "pin", "modeNext"}
    BY DEF StartLists, PowerLists, PwmLists, PinLists, ModeLists, First
<1>5. \A r : s \in ResumeLists(r) => s # <<>> /\ h = "resume"
    BY DEF ResumeLists, First
<1>6. \A r, u : u \in ClearLists(r) => u # <<>> /\ Head(u).f = "clear"
    BY DEF ClearLists, First
<1>7. \A u : u \in UnwantLists \union PressLists => u # <<>> /\ Head(u).f \in {"unwant", "stop"}
    BY DEF UnwantLists, PressLists, First
<1>8. \A r : s \in TurnLists(ClearLists(r)) =>
            /\ s # <<>> /\ h \in {"turn", "torque", "clear"}
            /\ h # "clear" => Head(Tail(s)).f = "clear"
  <2> SUFFICES ASSUME NEW r, s \in TurnLists(ClearLists(r))
               PROVE  /\ s # <<>> /\ h \in {"turn", "torque", "clear"}
                      /\ h # "clear" => Head(Tail(s)).f = "clear"
    OBVIOUS
  <2>1. s \in ClearLists(r) \/ s \in First("turn", ClearLists(r)) \/ s \in First("torque", ClearLists(r))
    BY DEF TurnLists
  <2>2. s \in First("turn", ClearLists(r)) => s # <<>> /\ h = "turn" /\ Tail(s) \in ClearLists(r)
    BY DEF First
  <2>3. s \in First("torque", ClearLists(r)) => s # <<>> /\ h = "torque" /\ Tail(s) \in ClearLists(r)
    BY DEF First
  <2> QED BY <1>6, <2>1, <2>2, <2>3
<1>9. s \in StopLists =>
            /\ s # <<>> /\ h \in {"turn", "torque", "unwant", "stop"}
            /\ h \in {"turn", "torque"} => Head(Tail(s)).f \in {"unwant", "stop"}
  <2> SUFFICES ASSUME NEW r, r \in {UnwantLists, PressLists}, s \in TurnLists(r)
               PROVE  /\ s # <<>> /\ h \in {"turn", "torque", "unwant", "stop"}
                      /\ h \in {"turn", "torque"} => Head(Tail(s)).f \in {"unwant", "stop"}
    BY DEF StopLists
  <2>1. s \in r \/ s \in First("turn", r) \/ s \in First("torque", r)
    BY DEF TurnLists
  <2>2. s \in First("turn", r) => s # <<>> /\ h = "turn" /\ Tail(s) \in r
    BY DEF First
  <2>3. s \in First("torque", r) => s # <<>> /\ h = "torque" /\ Tail(s) \in r
    BY DEF First
  <2> QED BY <1>7, <2>1, <2>2, <2>3
<1>10. s \in WantLists(Nil) => s \notin WantLists(ResumeLists(Ends))
    BY DEF WantLists, PowerLists, ResumeLists, Nil, First
<1>11. s \in StartLists(ResumeLists(Ends)) => s \notin StartLists(Nil)
  <2>1. \A u : ~(u \in Nil /\ u \in ResumeLists(Ends))
    BY DEF Nil, ResumeLists, First
  <2>2. \A u : ~(u \in ModeLists(Nil) /\ u \in ModeLists(ResumeLists(Ends)))
    BY <2>1 DEF ModeLists, First
  <2>3. \A u : ~(u \in PinLists(Nil) /\ u \in PinLists(ResumeLists(Ends)))
    BY <2>2 DEF PinLists, First
  <2>4. \A u : ~(u \in PwmLists(Nil) /\ u \in PwmLists(ResumeLists(Ends)))
    BY <2>3 DEF PwmLists, First
  <2>5. \A u : ~(u \in PowerLists(Nil) /\ u \in PowerLists(ResumeLists(Ends)))
    BY <2>1 DEF PowerLists, First
  <2>6. \A r : /\ s \in PowerLists(r) => h = "power"
               /\ s \in PwmLists(r) => h = "pwm"
               /\ s \in PinLists(r) => h = "pin"
               /\ s \in ModeLists(r) => h = "modeNext"
    BY DEF PowerLists, PwmLists, PinLists, ModeLists, First
  <2> QED BY <2>2, <2>3, <2>4, <2>5, <2>6 DEF StartLists
<1>12. s \in WantLists(ResumeLists(rests)) => s \in WantLists(ResumeLists(Ends))
    BY DEF WantLists, PowerLists, ResumeLists, First
<1>13. s \in StartLists(ResumeLists(rests)) => s \in StartLists(ResumeLists(Ends))
    BY DEF StartLists, PowerLists, PwmLists, PinLists, ModeLists, ResumeLists, First
<1>14. s \in TurnLists(ClearLists(rests)) => s \in TurnLists(ClearLists(Ends))
    BY DEF TurnLists, ClearLists, WantLists, PowerLists, ResumeLists, First
<1> HIDE DEF h
<1>15. s \in StopLists => Part(s) = "stop"
    BY <1>9 DEF Part
<1>16. s \in OffLists => Part(s) = "off"
    BY <1>1, <1>9 DEF Part
<1>17. s \in ShutLists => Part(s) = "shut"
    BY <1>1, <1>2, <1>9 DEF Part
<1>18. s \in WantLists(Nil) => Part(s) = "want"
    BY <1>1, <1>2, <1>3, <1>9 DEF Part
<1>19. s \in StartLists(Nil) => Part(s) = "start"
    BY <1>1, <1>2, <1>3, <1>4, <1>9 DEF Part
<1>20. s \in TurnLists(ClearLists(rests)) => Part(s) = "reset"
    BY <1>1, <1>2, <1>3, <1>4, <1>8, <1>9, <1>14 DEF Part
<1>21. s \in WantLists(ResumeLists(rests)) => Part(s) = "rewant"
    BY <1>1, <1>2, <1>3, <1>4, <1>8, <1>9, <1>10, <1>12 DEF Part
<1>22. s \in StartLists(ResumeLists(rests)) => Part(s) = "restart"
    BY <1>1, <1>2, <1>3, <1>4, <1>8, <1>9, <1>11, <1>13 DEF Part
<1>23. s \in ResumeLists(rests) => Part(s) = "resume"
    BY <1>1, <1>2, <1>3, <1>4, <1>5, <1>8, <1>9 DEF Part
<1> QED BY <1>15, <1>16, <1>17, <1>18, <1>19, <1>20, <1>21, <1>22, <1>23

LEMMA EndsWithin == \A t : EndsOf(t) \subseteq Ends /\ Ends \subseteq Seq(Step)
BY EmptySeq DEF EndsOf, Ends, Nil, UnwantLists, First

\* The classes of a thread's lists.
LEMMA ClassesOf ==
    ASSUME NEW t \in Outer, NEW s \in ListsOf(t)
    PROVE  \/ s \in UnwantLists \/ (t # "tmc" /\ s \in TurnLists(UnwantLists))
           \/ t = "exti" /\ (s \in TurnLists(PressLists) \/ s \in TurnLists(ClearLists(Nil)))
           \/ t = "tmc" /\ s \in ClearLists(Ends)
           \/ s \in OffLists \/ s \in ShutLists
           \/ t # "exti" /\ (s \in WantLists(Nil) \/ s \in StartLists(Nil))
           \/ /\ t # "usb"
              /\ \/ s \in WantLists(ResumeLists(EndsOf(t)))
                 \/ s \in StartLists(ResumeLists(EndsOf(t))) \/ s \in ResumeLists(EndsOf(t))
BY DEF ListsOf, Outer, StopLists, CloseLists, OpenLists, ReopenLists, EndsOf, TurnLists

LEMMA ClassesIn ==
    ASSUME NEW t \in Outer, NEW s
    PROVE  /\ s \in UnwantLists \union CloseLists => s \in ListsOf(t)
           /\ t # "exti" /\ s \in OpenLists(Nil) => s \in ListsOf(t)
           /\ t # "usb" /\ s \in ReopenLists(EndsOf(t)) => s \in ListsOf(t)
           /\ t # "tmc" /\ s \in TurnLists(UnwantLists) => s \in ListsOf(t)
           /\ t = "exti" /\ s \in TurnLists(PressLists) => s \in ListsOf(t)
           /\ t = "exti" /\ s \in TurnLists(ClearLists(Nil)) => s \in ListsOf(t)
           /\ t = "tmc" /\ s \in ClearLists(Ends) => s \in ListsOf(t)
BY DEF ListsOf, Outer, StopLists, EndsOf, TurnLists

\* What a call's first step leaves of it.
LEMMA HeadWant ==
    ASSUME NEW t \in Outer, NEW s \in ListsOf(t), Head(s).f = "want"
    PROVE  \/ t # "exti" /\ s \in WantLists(Nil) /\ Tail(s) \in PowerLists(Nil)
           \/ /\ t # "usb" /\ s \in WantLists(ResumeLists(EndsOf(t)))
              /\ Tail(s) \in PowerLists(ResumeLists(EndsOf(t)))
BY ClassesOf, FirstHead DEF TurnLists, UnwantLists, PressLists, OffLists, PwmOffLists, ShutLists,
   WantLists, StartLists,
    PowerLists, PwmLists, PinLists, ModeLists, ResumeLists, ClearLists

LEMMA HeadPower ==
    ASSUME NEW t \in Outer, NEW s \in ListsOf(t), Head(s).f = "power"
    PROVE  \/ t # "exti" /\ s \in StartLists(Nil) /\ Tail(s) \in Nil
           \/ /\ t # "usb" /\ s \in StartLists(ResumeLists(EndsOf(t)))
              /\ Tail(s) \in ResumeLists(EndsOf(t))
BY ClassesOf, FirstHead DEF TurnLists, UnwantLists, PressLists, OffLists, PwmOffLists, ShutLists,
   WantLists, StartLists,
    PowerLists, PwmLists, PinLists, ModeLists, ResumeLists, ClearLists

LEMMA HeadPwm ==
    ASSUME NEW t \in Outer, NEW s \in ListsOf(t), Head(s).f = "pwm"
    PROVE  \/ t # "exti" /\ s \in StartLists(Nil) /\ Tail(s) \in PinLists(Nil)
           \/ /\ t # "usb" /\ s \in StartLists(ResumeLists(EndsOf(t)))
              /\ Tail(s) \in PinLists(ResumeLists(EndsOf(t)))
BY ClassesOf, FirstHead DEF TurnLists, UnwantLists, PressLists, OffLists, PwmOffLists, ShutLists,
   WantLists, StartLists,
    PowerLists, PwmLists, PinLists, ModeLists, ResumeLists, ClearLists

LEMMA HeadPin ==
    ASSUME NEW t \in Outer, NEW s \in ListsOf(t), Head(s).f = "pin"
    PROVE  \/ t # "exti" /\ s \in StartLists(Nil) /\ Tail(s) \in ModeLists(Nil)
           \/ /\ t # "usb" /\ s \in StartLists(ResumeLists(EndsOf(t)))
              /\ Tail(s) \in ModeLists(ResumeLists(EndsOf(t)))
BY ClassesOf, FirstHead DEF TurnLists, UnwantLists, PressLists, OffLists, PwmOffLists, ShutLists,
   WantLists, StartLists,
    PowerLists, PwmLists, PinLists, ModeLists, ResumeLists, ClearLists

LEMMA HeadMode ==
    ASSUME NEW t \in Outer, NEW s \in ListsOf(t), Head(s).f = "modeNext"
    PROVE  \/ t # "exti" /\ s \in StartLists(Nil) /\ Tail(s) \in Nil
           \/ /\ t # "usb" /\ s \in StartLists(ResumeLists(EndsOf(t)))
              /\ Tail(s) \in ResumeLists(EndsOf(t))
BY ClassesOf, FirstHead DEF TurnLists, UnwantLists, PressLists, OffLists, PwmOffLists, ShutLists,
   WantLists, StartLists,
    PowerLists, PwmLists, PinLists, ModeLists, ResumeLists, ClearLists

LEMMA HeadResume ==
    ASSUME NEW t \in Outer, NEW s \in ListsOf(t), Head(s).f = "resume"
    PROVE  t # "usb" /\ s \in ResumeLists(EndsOf(t)) /\ Tail(s) \in EndsOf(t)
BY ClassesOf, FirstHead DEF TurnLists, UnwantLists, PressLists, OffLists, PwmOffLists, ShutLists,
   WantLists, StartLists,
    PowerLists, PwmLists, PinLists, ModeLists, ResumeLists, ClearLists

LEMMA HeadClear ==
    ASSUME NEW t \in Outer, NEW s \in ListsOf(t), Head(s).f = "clear"
    PROVE  /\ t # "usb" /\ s \in TurnLists(ClearLists(EndsOf(t)))
           /\ Tail(s) \in WantLists(ResumeLists(EndsOf(t)))
BY ClassesOf, FirstHead DEF StopLists, EndsOf, TurnLists, UnwantLists, PressLists, OffLists,
   PwmOffLists, ShutLists, WantLists, StartLists,
    PowerLists, PwmLists, PinLists, ModeLists, ResumeLists, ClearLists

LEMMA HeadUnwant ==
    ASSUME NEW t \in Outer, NEW s \in ListsOf(t), Head(s).f = "unwant"
    PROVE  s \in StopLists /\ Tail(s) \in Nil
BY ClassesOf, FirstHead DEF StopLists, EndsOf, TurnLists, UnwantLists, PressLists, OffLists,
   PwmOffLists, ShutLists, WantLists, StartLists,
    PowerLists, PwmLists, PinLists, ModeLists, ResumeLists, ClearLists

LEMMA HeadStop ==
    ASSUME NEW t \in Outer, NEW s \in ListsOf(t), Head(s).f = "stop"
    PROVE  t = "exti" /\ s \in StopLists /\ Tail(s) \in UnwantLists
BY ClassesOf, FirstHead DEF StopLists, EndsOf, TurnLists, UnwantLists, PressLists, OffLists,
   PwmOffLists, ShutLists, WantLists, StartLists,
    PowerLists, PwmLists, PinLists, ModeLists, ResumeLists, ClearLists

LEMMA HeadModeStop ==
    ASSUME NEW t \in Outer, NEW s \in ListsOf(t), Head(s).f = "modeStop"
    PROVE  s \in OffLists /\ Tail(s) \in PwmOffLists
BY ClassesOf, FirstHead DEF TurnLists, UnwantLists, PressLists, OffLists, PwmOffLists, ShutLists,
   WantLists, StartLists,
    PowerLists, PwmLists, PinLists, ModeLists, ResumeLists, ClearLists

LEMMA HeadPwmOff ==
    ASSUME NEW t \in Outer, NEW s \in ListsOf(t), Head(s).f = "pwmOff"
    PROVE  s \in OffLists /\ Tail(s) \in ShutLists
BY ClassesOf, FirstHead DEF TurnLists, UnwantLists, PressLists, OffLists, PwmOffLists, ShutLists,
   WantLists, StartLists,
    PowerLists, PwmLists, PinLists, ModeLists, ResumeLists, ClearLists

LEMMA HeadShutdown ==
    ASSUME NEW t \in Outer, NEW s \in ListsOf(t), Head(s).f = "shutdown"
    PROVE  s \in ShutLists /\ Tail(s) \in Nil
BY ClassesOf, FirstHead DEF TurnLists, UnwantLists, PressLists, OffLists, PwmOffLists, ShutLists,
   WantLists, StartLists,
    PowerLists, PwmLists, PinLists, ModeLists, ResumeLists, ClearLists

LEMMA HeadTurn ==
    ASSUME NEW t \in Outer, NEW s \in ListsOf(t), Head(s).f \in {"turn", "torque"}
    PROVE  /\ Head(s).v = FALSE
           /\ \/ t # "tmc" /\ s \in StopLists /\ Tail(s) \in UnwantLists
              \/ t = "exti" /\ s \in StopLists /\ Tail(s) \in PressLists
              \/ t = "exti" /\ s \in TurnLists(ClearLists(Nil)) /\ Tail(s) \in ClearLists(Nil)
BY ClassesOf, FirstHead DEF StopLists, EndsOf, TurnLists, UnwantLists, PressLists, OffLists,
   PwmOffLists, ShutLists, WantLists, StartLists,
    PowerLists, PwmLists, PinLists, ModeLists, ResumeLists, ClearLists
-----------------------------------------------------------------------------
(* How a step changes the call                                             *)

\* The call goes from one part to another.
Change(part, next) == Doing = part /\ Doing' = next

LEMMA CallerOf ==
    ASSUME OneCall, NEW t \in Outer
    PROVE  /\ todo[t] # <<>> => Caller = t /\ Doing = Part(todo[t])
           /\ Caller = t => todo[t] # <<>>
           /\ Caller \in Outer \union {"none"}
           /\ Caller = "none" <=> \A u \in Outer : todo[u] = <<>>
           /\ Caller = "none" => Doing = "idle"
BY DEF OneCall, Caller, Doing, Outer

LEMMA IdlePart == Part(<<>>) = "idle"
BY DEF Part

\* The rest of a call is a call's, or nothing.
LEMMA Moved ==
    ASSUME Lists, OneCall, NEW t \in Outer, NEW g, NEW steps \in Seq(Step), Take(t, g, steps),
           todo'[t] = <<>> \/ todo'[t] \in ListsOf(t)
    PROVE  /\ OneCall' /\ Caller = t /\ Driving' = Driving
           /\ Change(Part(todo[t]), Part(todo'[t]))
           /\ Caller' = IF todo'[t] = <<>> THEN "none" ELSE t
<1>0. t \in Thread /\ t # "ffb"
    BY DEF Outer, Thread
<1>1. todo[t] # <<>> /\ \A u \in Thread \ {t} : todo'[u] = todo[u]
    BY <1>0, TakeList
<1>2. \A u \in Outer \ {t} : todo[u] = <<>> /\ todo'[u] = <<>>
    BY <1>1 DEF OneCall, Outer, Thread
<1>3. Caller = t /\ todo[t] \in ListsOf(t) /\ Doing = Part(todo[t])
    BY <1>1, CallerOf DEF OneCall
<1>4. todo'["ffb"] = todo["ffb"] /\ Driving' = Driving
    BY <1>0, <1>1 DEF Thread, Driving
<1>5. OneCall'
    BY <1>1, <1>2, <1>4 DEF OneCall, Outer
<1>6. Caller' = IF todo'[t] = <<>> THEN "none" ELSE t
    BY <1>1, <1>2 DEF Caller, Outer
<1>7. Doing' = Part(todo'[t])
  <2>1. CASE todo'[t] = <<>>
    BY <1>6, <2>1, IdlePart DEF Doing
  <2>2. CASE todo'[t] # <<>>
    BY <1>1, <1>6, <2>2 DEF Doing, Outer
  <2> QED BY <2>1, <2>2
<1> QED BY <1>1, <1>3, <1>4, <1>5, <1>6, <1>7 DEF Change

LEMMA Taken ==
    ASSUME Lists, OneCall, NEW t \in Outer, NEW g, Take(t, g, <<>>)
    PROVE  todo'[t] = Tail(todo[t])
<1>1. t \in Thread
    BY DEF Outer, Thread
<1>2. Tail(todo[t]) \in Seq(Step) /\ todo'[t] = <<>> \o Tail(todo[t])
    BY <1>1, NoSteps, TakeList
<1> QED BY <1>2

LEMMA TakesHead ==
    ASSUME OneCall, NEW t \in Outer, NEW g, NEW steps, Take(t, g, steps)
    PROVE  todo[t] \in ListsOf(t) /\ Head(todo[t]).f = g
BY DEF Take, Idle, OneCall

\* The parts startMotor has, alone and within a reset.
LEMMA StartParts ==
    ASSUME NEW t \in Outer, NEW s
    PROVE  /\ t # "exti" /\ s \in StartLists(Nil) => Part(s) = "start" /\ s # <<>> /\ s \in ListsOf(t)
           /\ t # "usb" /\ s \in StartLists(ResumeLists(EndsOf(t))) =>
                Part(s) = "restart" /\ s # <<>> /\ s \in ListsOf(t)
           /\ t # "usb" /\ s \in ResumeLists(EndsOf(t)) =>
                Part(s) = "resume" /\ s # <<>> /\ s \in ListsOf(t)
<1>1. EndsOf(t) \subseteq Ends /\ Nil \subseteq Ends
    BY EndsWithin DEF Ends
<1>2. /\ s \in StartLists(Nil) => Part(s) = "start"
      /\ s \in StartLists(ResumeLists(EndsOf(t))) => Part(s) = "restart"
      /\ s \in ResumeLists(EndsOf(t)) => Part(s) = "resume"
    BY <1>1, PartOf
<1>3. \A r : s \in StartLists(r) \/ s \in ResumeLists(r) => s # <<>>
    BY FirstHead DEF StartLists, PowerLists, PwmLists, PinLists, ModeLists, ResumeLists
<1> QED BY <1>2, <1>3, ClassesIn DEF OpenLists, ReopenLists

\* startMotor.
LEMMA WantMoves ==
    ASSUME Lists, OneCall, NEW t \in Outer, Take(t, "want", <<>>)
    PROVE  /\ OneCall' /\ Caller = t /\ Caller' = t /\ Driving' = Driving
           /\ (t # "exti" /\ Change("want", "start")) \/ (t # "usb" /\ Change("rewant", "restart"))
<1> DEFINE s == todo[t]  r == Tail(s)  E == EndsOf(t)
<1>1. s \in ListsOf(t) /\ Head(s).f = "want" /\ todo'[t] = r
    BY TakesHead, Taken
<1>2. E \subseteq Ends /\ Nil \subseteq Ends
    BY EndsWithin DEF Ends
<1>3. /\ s \in WantLists(Nil) => Part(s) = "want"
      /\ s \in WantLists(ResumeLists(E)) => Part(s) = "rewant"
    BY <1>2, PartOf
<1>4. \A q : r \in PowerLists(q) => r \in StartLists(q)
    BY DEF StartLists
<1>5. /\ \/ t # "exti" /\ Part(s) = "want" /\ Part(r) = "start"
         \/ t # "usb" /\ Part(s) = "rewant" /\ Part(r) = "restart"
      /\ r # <<>> /\ r \in ListsOf(t)
    BY <1>1, <1>3, <1>4, HeadWant, StartParts
<1> HIDE DEF r
<1> QED BY <1>1, <1>5, NoSteps, Moved DEF Change

LEMMA ThreeBefore ==
    ASSUME NEW N, NEW e \in N, NEW g \in N, NEW h \in N, NEW s \in Seq(N)
    PROVE  <<e>> \o <<g>> \o <<h>> \o s = <<e>> \o (<<g>> \o (<<h>> \o s))
<1>1. <<e>> \in Seq(N) /\ <<g>> \in Seq(N) /\ <<h>> \in Seq(N)
    OBVIOUS
<1>2. <<h>> \o s \in Seq(N) /\ <<e>> \o <<g>> \in Seq(N)
    BY <1>1, Joined
<1>3. ((<<e>> \o <<g>>) \o <<h>>) \o s = (<<e>> \o <<g>>) \o (<<h>> \o s)
    BY <1>1, <1>2, ConcatAssociative
<1>4. (<<e>> \o <<g>>) \o (<<h>> \o s) = <<e>> \o (<<g>> \o (<<h>> \o s))
    BY <1>1, <1>2, ConcatAssociative
<1> QED BY <1>3, <1>4

LEMMA PowerMoves ==
    ASSUME Lists, OneCall, NEW t \in Outer, NEW steps, Take(t, "power", steps),
           steps \in {<<>>, Do("pwm") \o Do("pin") \o Do("modeNext")}
    PROVE  /\ OneCall' /\ Caller = t /\ Driving' = Driving
           /\ steps # <<>> =>
                /\ Caller' = t
                /\ \/ t # "exti" /\ Change("start", "start")
                   \/ t # "usb" /\ Change("restart", "restart")
           /\ steps = <<>> =>
                \/ t # "exti" /\ Change("start", "idle") /\ Caller' = "none"
                \/ t # "usb" /\ Change("restart", "resume") /\ Caller' = t
<1> DEFINE s == todo[t]  r == Tail(s)  E == EndsOf(t)
<1>1. s \in ListsOf(t) /\ Head(s).f = "power" /\ s # <<>>
    BY TakesHead DEF Take, Idle
<1>2. \/ r \in Nil /\ t # "exti" /\ Part(s) = "start"
      \/ r \in ResumeLists(E) /\ t # "usb" /\ Part(s) = "restart"
    BY <1>1, HeadPower, StartParts
<1>3. CASE steps = <<>>
  <2>1. todo'[t] = r
    BY <1>3, Taken
  <2>2. r \in Nil => r = <<>> /\ Part(r) = "idle"
    BY IdlePart DEF Nil
  <2>3. t # "usb" /\ r \in ResumeLists(E) => Part(r) = "resume" /\ r # <<>> /\ r \in ListsOf(t)
    BY StartParts
  <2> HIDE DEF r
  <2>4. OneCall' /\ Caller = t /\ Driving' = Driving /\ Change(Part(s), Part(r))
        /\ Caller' = IF r = <<>> THEN "none" ELSE t
    BY <1>2, <1>3, <2>1, <2>2, <2>3, NoSteps, Moved
  <2> QED BY <1>2, <1>3, <2>2, <2>3, <2>4
<1>4. CASE steps = Do("pwm") \o Do("pin") \o Do("modeNext")
  <2>1. r \in Seq(Step) /\ steps \in Seq(Step) /\ todo'[t] = steps \o r /\ steps # <<>>
    <3>1. steps \in Seq(Step) /\ steps # <<>>
        BY <1>4, EnableIn, StepIsWith DEF StepNames, Do
    <3>2. t \in Thread
        BY DEF Outer, Thread
    <3> QED BY <3>1, <3>2, TakeList
  <2> DEFINE pin == Do("pin") \o (Do("modeNext") \o r)
             pwm == Do("pwm") \o pin
  <2>2. \A q : r \in q => Do("modeNext") \o r \in ModeLists(q) /\ Do("modeNext") \o r \in Seq(Step)
    BY <2>1, DoBefore DEF ModeLists, StepNames
  <2>3. \A q : r \in q => pin \in PinLists(q) /\ pin \in Seq(Step)
    BY <2>2, DoBefore DEF PinLists, StepNames
  <2>4. \A q : r \in q => pwm \in PwmLists(q)
    BY <2>3, DoBefore DEF PwmLists, StepNames
  <2>5. steps \o r = pwm
    <3>1. Do("pwm") \in Seq(Step) /\ Do("pin") \in Seq(Step) /\ Do("modeNext") \in Seq(Step)
        BY DoIn, StepIsWith DEF StepNames
    <3>2. Do("pwm") \o Do("pin") \o Do("modeNext") \o r = pwm
      <4> DEFINE e == [f |-> "pwm", v |-> FALSE]
                 g == [f |-> "pin", v |-> FALSE]
                 h == [f |-> "modeNext", v |-> FALSE]
      <4>1. e \in Step /\ g \in Step /\ h \in Step
        BY DEF Step, StepNames
      <4> HIDE DEF e, g, h
      <4>2. <<e>> \o <<g>> \o <<h>> \o r = <<e>> \o (<<g>> \o (<<h>> \o r))
        BY <2>1, <4>1, ThreeBefore
      <4> QED BY <4>2 DEF e, g, h, Do
    <3> QED BY <1>4, <3>2
  <2> HIDE DEF pwm, pin
  <2>6. /\ r \in Nil => pwm \in StartLists(Nil)
        /\ r \in ResumeLists(E) => pwm \in StartLists(ResumeLists(E))
    BY <2>4 DEF StartLists
  <2>7. /\ pwm # <<>> /\ pwm \in ListsOf(t)
        /\ \/ t # "exti" /\ Part(s) = "start" /\ Part(pwm) = "start"
           \/ t # "usb" /\ Part(s) = "restart" /\ Part(pwm) = "restart"
    BY <1>2, <2>6, StartParts
  <2>8. todo'[t] = pwm
    BY <2>1, <2>5
  <2>9. OneCall' /\ Caller = t /\ Driving' = Driving /\ Change(Part(s), Part(pwm)) /\ Caller' = t
    BY <2>1, <2>7, <2>8, Moved
  <2> QED BY <2>1, <2>7, <2>9
<1> QED BY <1>3, <1>4

\* The parts stopMotor and the emergency stop have.
LEMMA StopParts ==
    ASSUME NEW t \in Outer, NEW s
    PROVE  /\ s \in UnwantLists => Part(s) = "stop" /\ s # <<>> /\ s \in ListsOf(t)
           /\ s \in OffLists => Part(s) = "off" /\ s # <<>> /\ s \in ListsOf(t)
           /\ s \in ShutLists => Part(s) = "shut" /\ s # <<>> /\ s \in ListsOf(t)
<1>1. /\ s \in StopLists => Part(s) = "stop"
      /\ s \in OffLists => Part(s) = "off"
      /\ s \in ShutLists => Part(s) = "shut"
  <2>1. Nil \subseteq Ends
    BY DEF Ends
  <2> QED BY <2>1, PartOf
<1>2. s \in UnwantLists => s \in StopLists
    BY DEF StopLists, TurnLists
<1>3. s \in UnwantLists \union OffLists \union ShutLists => s # <<>>
    BY FirstHead DEF UnwantLists, OffLists, PwmOffLists, ShutLists
<1> QED BY <1>1, <1>2, <1>3, ClassesIn DEF CloseLists

LEMMA EnableMoves ==
    ASSUME Lists, OneCall, NEW t \in Outer, NEW g \in {"pwm", "pin"}, Take(t, g, <<>>)
    PROVE  /\ OneCall' /\ Caller = t /\ Caller' = t /\ Driving' = Driving
           /\ (t # "exti" /\ Change("start", "start")) \/ (t # "usb" /\ Change("restart", "restart"))
<1> DEFINE s == todo[t]  r == Tail(s)  E == EndsOf(t)
<1>1. s \in ListsOf(t) /\ Head(s).f = g /\ todo'[t] = r
    BY TakesHead, Taken
<1>2. \A q : r \in PinLists(q) \/ r \in ModeLists(q) => r \in StartLists(q)
    BY DEF StartLists
<1>3. \/ t # "exti" /\ s \in StartLists(Nil) /\ r \in StartLists(Nil)
      \/ t # "usb" /\ s \in StartLists(ResumeLists(E)) /\ r \in StartLists(ResumeLists(E))
    BY <1>1, <1>2, HeadPwm, HeadPin
<1>4. /\ \/ t # "exti" /\ Part(s) = "start" /\ Part(r) = "start"
         \/ t # "usb" /\ Part(s) = "restart" /\ Part(r) = "restart"
      /\ r # <<>> /\ r \in ListsOf(t)
    BY <1>3, StartParts
<1> HIDE DEF r
<1> QED BY <1>1, <1>4, NoSteps, Moved DEF Change

LEMMA ModeMoves ==
    ASSUME Lists, OneCall, NEW t \in Outer, Take(t, "modeNext", <<>>)
    PROVE  /\ OneCall' /\ Caller = t /\ Driving' = Driving
           /\ \/ t # "exti" /\ Change("start", "idle") /\ Caller' = "none"
              \/ t # "usb" /\ Change("restart", "resume") /\ Caller' = t
<1> DEFINE s == todo[t]  r == Tail(s)  E == EndsOf(t)
<1>1. s \in ListsOf(t) /\ Head(s).f = "modeNext" /\ todo'[t] = r
    BY TakesHead, Taken
<1>2. /\ r \in Nil => r = <<>> /\ Part(r) = "idle"
      /\ t # "usb" /\ r \in ResumeLists(E) => Part(r) = "resume" /\ r # <<>> /\ r \in ListsOf(t)
    BY IdlePart, StartParts DEF Nil
<1>3. \/ t # "exti" /\ Part(s) = "start" /\ Part(r) = "idle" /\ r = <<>>
      \/ t # "usb" /\ Part(s) = "restart" /\ Part(r) = "resume" /\ r # <<>> /\ r \in ListsOf(t)
    BY <1>1, <1>2, HeadMode, StartParts
<1> HIDE DEF r
<1> QED BY <1>1, <1>3, NoSteps, Moved DEF Change

LEMMA ResumeMoves ==
    ASSUME Lists, OneCall, NEW t \in Outer, Take(t, "resume", <<>>)
    PROVE  /\ OneCall' /\ Caller = t /\ t # "usb" /\ Driving' = Driving
           /\ \/ Change("resume", "idle") /\ Caller' = "none"
              \/ t = "tmc" /\ Change("resume", "stop") /\ Caller' = t
<1> DEFINE s == todo[t]  r == Tail(s)
<1>1. s \in ListsOf(t) /\ Head(s).f = "resume" /\ todo'[t] = r
    BY TakesHead, Taken
<1>2. t # "usb" /\ Part(s) = "resume" /\ (r = <<>> \/ (t = "tmc" /\ r \in UnwantLists))
  <2>1. t # "usb" /\ s \in ResumeLists(EndsOf(t)) /\ r \in EndsOf(t)
    BY <1>1, HeadResume
  <2>2. Part(s) = "resume"
    BY <2>1, StartParts
  <2>3. r = <<>> \/ (t = "tmc" /\ r \in UnwantLists)
    BY <2>1 DEF EndsOf, Ends, Nil
  <2> QED BY <2>1, <2>2, <2>3
<1>3. /\ r = <<>> => Part(r) = "idle"
      /\ r \in UnwantLists => Part(r) = "stop" /\ r # <<>> /\ r \in ListsOf(t)
    BY IdlePart, StopParts
<1> HIDE DEF r
<1> QED BY <1>1, <1>2, <1>3, NoSteps, Moved DEF Change

LEMMA ClearMoves ==
    ASSUME Lists, OneCall, NEW t \in Outer, Take(t, "clear", <<>>)
    PROVE  /\ OneCall' /\ Caller = t /\ t # "usb" /\ Caller' = t /\ Driving' = Driving
           /\ Change("reset", "rewant")
<1> DEFINE s == todo[t]  r == Tail(s)  E == EndsOf(t)
<1>1. s \in ListsOf(t) /\ Head(s).f = "clear" /\ todo'[t] = r
    BY TakesHead, Taken
<1>2. t # "usb" /\ s \in TurnLists(ClearLists(E)) /\ r \in WantLists(ResumeLists(E))
    BY <1>1, HeadClear
<1>3. Part(s) = "reset" /\ Part(r) = "rewant"
    BY <1>2, EndsWithin, PartOf
<1>4. r # <<>> /\ r \in ListsOf(t)
    BY <1>2, FirstHead, ClassesIn DEF WantLists, ReopenLists, OpenLists
<1> HIDE DEF r
<1> QED BY <1>1, <1>2, <1>3, <1>4, NoSteps, Moved DEF Change

\* turn and its write of the torque, before the call's own steps.
LEMMA TurnMoves ==
    ASSUME Lists, OneCall, NEW t \in Outer, NEW g \in {"turn", "torque"}, NEW steps, Take(t, g, steps),
           steps = <<>> \/ (g = "turn" /\ steps = <<[f |-> "torque", v |-> Head(todo[t]).v]>>)
    PROVE  /\ OneCall' /\ Caller = t /\ t # "tmc" /\ Caller' = t /\ Driving' = Driving
           /\ Change("stop", "stop") \/ (t = "exti" /\ Change("reset", "reset"))
           /\ Head(todo[t]).v = FALSE
<1> DEFINE s == todo[t]  r == Tail(s)
<1>1. s \in ListsOf(t) /\ Head(s).f = g /\ s # <<>>
    BY TakesHead DEF Take, Idle
<1>2. /\ Head(s).v = FALSE
      /\ \/ t # "tmc" /\ s \in StopLists /\ r \in UnwantLists
         \/ t = "exti" /\ s \in StopLists /\ r \in PressLists
         \/ t = "exti" /\ s \in TurnLists(ClearLists(Nil)) /\ r \in ClearLists(Nil)
    BY <1>1, HeadTurn
<1>3. steps = <<>> \/ steps = Do("torque")
    BY <1>2 DEF Do
<1>4. /\ r \in Seq(Step) /\ todo'[t] = steps \o r /\ steps \in Seq(Step)
    <2>1. Do("torque") \in Seq(Step) /\ t \in Thread
        BY DoIn, StepIsWith DEF StepNames, Outer, Thread
    <2> QED BY <1>3, <2>1, NoSteps, TakeList
<1>5. \A q : r \in q => todo'[t] \in q \/ todo'[t] \in First("torque", q)
  <2>1. steps = <<>> => todo'[t] = r
    BY <1>4
  <2>2. \A q : r \in q => Do("torque") \o r \in First("torque", q)
    BY <1>4, DoBefore DEF StepNames
  <2> QED BY <1>3, <1>4, <2>1, <2>2
<1>6. \A q : r \in q => todo'[t] \in TurnLists(q)
    BY <1>5 DEF TurnLists
<1>7. Nil \subseteq Ends
    BY DEF Ends
<1>8. \/ /\ Part(s) = "stop" /\ todo'[t] \in StopLists
         /\ \/ t # "tmc" /\ todo'[t] \in TurnLists(UnwantLists)
            \/ t = "exti" /\ todo'[t] \in TurnLists(PressLists)
      \/ t = "exti" /\ Part(s) = "reset" /\ todo'[t] \in TurnLists(ClearLists(Nil))
    BY <1>2, <1>6, <1>7, PartOf DEF StopLists
<1>9. /\ todo'[t] \in ListsOf(t) /\ t # "tmc"
      /\ \/ Part(s) = "stop" /\ Part(todo'[t]) = "stop"
         \/ t = "exti" /\ Part(s) = "reset" /\ Part(todo'[t]) = "reset"
    BY <1>7, <1>8, PartOf, ClassesIn
<1>10. todo'[t] # <<>>
  <2>1. Part(todo'[t]) # "idle"
    BY <1>9
  <2> QED BY <2>1, IdlePart
<1> QED BY <1>2, <1>4, <1>9, <1>10, Moved DEF Change

LEMMA PressMoves ==
    ASSUME Lists, OneCall, NEW t \in Outer, Take(t, "stop", <<>>)
    PROVE  /\ OneCall' /\ Caller = t /\ t = "exti" /\ Caller' = t /\ Driving' = Driving
           /\ Change("stop", "stop")
<1> DEFINE s == todo[t]  r == Tail(s)
<1>1. s \in ListsOf(t) /\ Head(s).f = "stop" /\ todo'[t] = r
    BY TakesHead, Taken
<1>2. t = "exti" /\ s \in StopLists /\ r \in UnwantLists
    BY <1>1, HeadStop
<1>3. Part(s) = "stop" /\ Part(r) = "stop" /\ r # <<>> /\ r \in ListsOf(t)
  <2>1. Nil \subseteq Ends
    BY DEF Ends
  <2> QED BY <1>2, <2>1, StopParts, PartOf
<1> HIDE DEF r
<1> QED BY <1>1, <1>2, <1>3, NoSteps, Moved DEF Change

LEMMA UnwantMoves ==
    ASSUME Lists, OneCall, NEW t \in Outer, NEW steps, Take(t, "unwant", steps),
           steps \in {<<>>, Do("modeStop") \o Do("pwmOff") \o Do("shutdown")}
    PROVE  /\ OneCall' /\ Caller = t /\ Driving' = Driving
           /\ steps = <<>> => Change("stop", "idle") /\ Caller' = "none"
           /\ steps # <<>> => Change("stop", "off") /\ Caller' = t
<1> DEFINE s == todo[t]  r == Tail(s)
<1>1. s \in ListsOf(t) /\ Head(s).f = "unwant" /\ s # <<>>
    BY TakesHead DEF Take, Idle
<1>2. r = <<>> /\ s \in StopLists
    BY <1>1, HeadUnwant DEF Nil
<1>3. Part(s) = "stop"
  <2>1. Nil \subseteq Ends
    BY DEF Ends
  <2> QED BY <1>2, <2>1, PartOf
<1>4. CASE steps = <<>>
  <2>1. todo'[t] = <<>>
    BY <1>2, <1>4, Taken
  <2> QED BY <1>3, <1>4, <2>1, NoSteps, IdlePart, Moved DEF Change
<1>5. CASE steps = Do("modeStop") \o Do("pwmOff") \o Do("shutdown")
  <2>1. steps \in Seq(Step) /\ steps # <<>> /\ todo'[t] = steps \o r
    <3>1. steps \in Seq(Step) /\ steps # <<>>
        BY <1>5, SwitchOffIn, StepIsWith DEF StepNames, Do
    <3>2. t \in Thread
        BY DEF Outer, Thread
    <3> QED BY <3>1, <3>2, TakeList
  <2>2. Do("shutdown") \o r \in ShutLists /\ Do("shutdown") \o r \in Seq(Step)
    BY <1>2, NoSteps, DoBefore DEF ShutLists, StepNames, Nil
  <2> DEFINE off == Do("pwmOff") \o (Do("shutdown") \o r)
             all == Do("modeStop") \o off
  <2>3. off \in PwmOffLists /\ off \in Seq(Step)
    BY <2>2, DoBefore DEF PwmOffLists, StepNames
  <2>4. all \in OffLists
    BY <2>3, DoBefore DEF OffLists, StepNames
  <2>5. steps \o r = all
    <3>1. Do("modeStop") \o Do("pwmOff") \o Do("shutdown") \o r = all
      <4> DEFINE e == [f |-> "modeStop", v |-> FALSE]
                 g == [f |-> "pwmOff", v |-> FALSE]
                 h == [f |-> "shutdown", v |-> FALSE]
      <4>1. e \in Step /\ g \in Step /\ h \in Step /\ r \in Seq(Step)
        BY <1>2, NoSteps DEF Step, StepNames
      <4> HIDE DEF e, g, h, r
      <4>2. <<e>> \o <<g>> \o <<h>> \o r = <<e>> \o (<<g>> \o (<<h>> \o r))
        BY <4>1, ThreeBefore
      <4> QED BY <4>2 DEF e, g, h, Do
    <3> QED BY <1>5, <3>1
  <2>6. todo'[t] \in OffLists
    BY <2>1, <2>4, <2>5
  <2>7. Part(todo'[t]) = "off" /\ todo'[t] # <<>> /\ todo'[t] \in ListsOf(t)
    BY <2>6, StopParts
  <2> QED BY <1>3, <2>1, <2>7, Moved DEF Change
<1> QED BY <1>4, <1>5

LEMMA CloseMoves ==
    ASSUME Lists, OneCall, NEW t \in Outer, NEW g, Take(t, g, <<>>)
    PROVE  /\ g \in {"modeStop", "pwmOff", "shutdown"} => OneCall' /\ Caller = t /\ Driving' = Driving
           /\ g = "modeStop" => Change("off", "off") /\ Caller' = t
           /\ g = "pwmOff" => Change("off", "shut") /\ Caller' = t
           /\ g = "shutdown" => Change("shut", "idle") /\ Caller' = "none"
<1> DEFINE s == todo[t]  r == Tail(s)
<1>1. s \in ListsOf(t) /\ Head(s).f = g /\ todo'[t] = r
    BY TakesHead, Taken
<1>2. /\ g = "modeStop" => s \in OffLists /\ r \in OffLists
      /\ g = "pwmOff" => s \in OffLists /\ r \in ShutLists
      /\ g = "shutdown" => s \in ShutLists /\ r = <<>>
    BY <1>1, HeadModeStop, HeadPwmOff, HeadShutdown DEF OffLists, Nil
<1>3. /\ s \in OffLists => Part(s) = "off"
      /\ s \in ShutLists => Part(s) = "shut"
      /\ r \in OffLists => Part(r) = "off" /\ r # <<>> /\ r \in ListsOf(t)
      /\ r \in ShutLists => Part(r) = "shut" /\ r # <<>> /\ r \in ListsOf(t)
      /\ r = <<>> => Part(r) = "idle"
    BY IdlePart, StopParts
<1> HIDE DEF r
<1> QED BY <1>1, <1>2, <1>3, NoSteps, Moved DEF Change

LEMMA EnableNotEmpty == Do("pwm") \o Do("pin") \o Do("modeNext") # <<>>
BY DEF Do

LEMMA CloseNotEmpty == Do("modeStop") \o Do("pwmOff") \o Do("shutdown") # <<>>
BY DEF Do
-----------------------------------------------------------------------------
(* The calls, as lists of these classes                                    *)

LEMMA Regrouped ==
    ASSUME NEW N, NEW a \in N, NEW b \in N, NEW c \in N, NEW d \in N, NEW s \in Seq(N)
    PROVE  (<<a>> \o (<<b>> \o <<c>>) \o <<d>>) \o s = <<a>> \o (<<b>> \o (<<c>> \o (<<d>> \o s)))
<1>1. <<a>> \in Seq(N) /\ <<b>> \in Seq(N) /\ <<c>> \in Seq(N) /\ <<d>> \in Seq(N)
    OBVIOUS
<1>2. <<b>> \o <<c>> \in Seq(N) /\ <<d>> \o s \in Seq(N)
    BY <1>1, Joined
<1>3. <<a>> \o (<<b>> \o <<c>>) \in Seq(N) /\ <<c>> \o (<<d>> \o s) \in Seq(N)
    BY <1>1, <1>2, Joined
<1>4. (<<a>> \o (<<b>> \o <<c>>) \o <<d>>) \o s = (<<a>> \o (<<b>> \o <<c>>)) \o (<<d>> \o s)
    BY <1>1, <1>2, <1>3, ConcatAssociative
<1>5. (<<a>> \o (<<b>> \o <<c>>)) \o (<<d>> \o s) = <<a>> \o ((<<b>> \o <<c>>) \o (<<d>> \o s))
    BY <1>1, <1>2, <1>3, ConcatAssociative
<1>6. (<<b>> \o <<c>>) \o (<<d>> \o s) = <<b>> \o (<<c>> \o (<<d>> \o s))
    BY <1>1, <1>2, ConcatAssociative
<1> QED BY <1>4, <1>5, <1>6

LEMMA ResetList ==
    ASSUME NEW s \in Seq(Step), NEW q, s \in q
    PROVE  EmergencyStop(TRUE) \o s \in ClearLists(q) /\ EmergencyStop(TRUE) \o s \in Seq(Step)
<1> DEFINE a == [f |-> "clear", v |-> FALSE]
           b == [f |-> "want", v |-> FALSE]
           c == [f |-> "power", v |-> FALSE]
           d == [f |-> "resume", v |-> FALSE]
<1>1. a \in Step /\ b \in Step /\ c \in Step /\ d \in Step
    BY DEF Step, StepNames
<1>2. Do("clear") = <<a>> /\ Do("want") = <<b>> /\ Do("power") = <<c>> /\ Do("resume") = <<d>>
    BY DEF Do
<1>3. EmergencyStop(TRUE) = <<a>> \o (<<b>> \o <<c>>) \o <<d>>
    BY <1>2 DEF EmergencyStop, StartMotor
<1> HIDE DEF a, b, c, d
<1>4. EmergencyStop(TRUE) \o s = Do("clear") \o (Do("want") \o (Do("power") \o (Do("resume") \o s)))
  <2>1. (<<a>> \o (<<b>> \o <<c>>) \o <<d>>) \o s = <<a>> \o (<<b>> \o (<<c>> \o (<<d>> \o s)))
    BY <1>1, Regrouped
  <2> QED BY <1>2, <1>3, <2>1
<1>5. Do("resume") \o s \in ResumeLists(q) /\ Do("resume") \o s \in Seq(Step)
    BY DoBefore DEF ResumeLists, StepNames
<1> DEFINE rq == ResumeLists(q)  r == Do("resume") \o s
<1> HIDE DEF r, rq
<1>6. Do("power") \o r \in PowerLists(rq) /\ Do("power") \o r \in Seq(Step)
    BY <1>5, DoBefore DEF PowerLists, StepNames, r, rq
<1>7. Do("want") \o (Do("power") \o r) \in WantLists(rq) /\ Do("want") \o (Do("power") \o r) \in Seq(Step)
    BY <1>6, DoBefore DEF WantLists, StepNames
<1>8. /\ Do("clear") \o (Do("want") \o (Do("power") \o r)) \in First("clear", WantLists(rq))
      /\ Do("clear") \o (Do("want") \o (Do("power") \o r)) \in Seq(Step)
    BY <1>7, DoBefore DEF StepNames
<1> QED BY <1>4, <1>8 DEF ClearLists, r, rq

LEMMA DoOnly ==
    ASSUME NEW f \in StepNames
    PROVE  Do(f) \in First(f, Nil) /\ Do(f) \in Seq(Step)
<1>1. Do(f) \in Seq(Step)
    BY DoIn, StepIsWith
<1>2. Do(f) # <<>> /\ Head(Do(f)) = [f |-> f, v |-> FALSE] /\ Tail(Do(f)) = <<>>
    BY DEF Do
<1> QED BY <1>1, <1>2 DEF First, Nil

LEMMA CallsListed ==
    /\ StopMotor \in UnwantLists /\ StopMotor \in Seq(Step) /\ StopMotor \in Ends
    /\ StartMotor \in WantLists(Nil)
    /\ TurnTo(FALSE) \o StopMotor \in TurnLists(UnwantLists)
    /\ TurnTo(FALSE) \o EmergencyStop(FALSE) \in TurnLists(PressLists)
    /\ TurnTo(FALSE) \o EmergencyStop(TRUE) \in TurnLists(ClearLists(Nil))
    /\ EmergencyStop(TRUE) \o <<>> \in ClearLists(Ends)
    /\ EmergencyStop(TRUE) \o StopMotor \in ClearLists(Ends)
<1>1. StopMotor \in UnwantLists /\ StopMotor \in Seq(Step) /\ StopMotor \in Ends
    BY DoOnly DEF StopMotor, UnwantLists, StepNames, Ends
<1>2. StartMotor \in WantLists(Nil)
  <2>1. Do("power") \in PowerLists(Nil) /\ Do("power") \in Seq(Step)
    BY DoOnly DEF PowerLists, StepNames
  <2> QED BY <2>1, DoBefore DEF StartMotor, WantLists, StepNames
<1>3. TurnTo(FALSE) = Do("turn")
    BY DEF TurnTo, Do
<1>4. \A q, s : s \in q /\ s \in Seq(Step) => Do("turn") \o s \in TurnLists(q)
    BY DoBefore DEF TurnLists, StepNames
<1>5. EmergencyStop(FALSE) \in PressLists /\ EmergencyStop(FALSE) \in Seq(Step)
    BY <1>1, DoBefore DEF EmergencyStop, PressLists, StepNames
<1>6. EmergencyStop(TRUE) \in ClearLists(Nil) /\ EmergencyStop(TRUE) \in Seq(Step)
  <2>1. EmergencyStop(TRUE) \in Seq(Step)
    BY ResetIn, StepIsWith DEF StepNames
  <2>2. EmergencyStop(TRUE) \o <<>> = EmergencyStop(TRUE)
    BY <2>1
  <2>3. EmergencyStop(TRUE) \o <<>> \in ClearLists(Nil)
    BY NoSteps, ResetList DEF Nil
  <2> QED BY <2>1, <2>2, <2>3
<1>7. <<>> \in Ends
    BY DEF Ends, Nil
<1>8. EmergencyStop(TRUE) \o <<>> \in ClearLists(Ends) /\ EmergencyStop(TRUE) \o StopMotor \in ClearLists(Ends)
    BY <1>1, <1>7, NoSteps, ResetList
<1> QED BY <1>1, <1>2, <1>3, <1>4, <1>5, <1>6, <1>8

\* A thread that had no call begins one.
LEMMA Begun ==
    ASSUME Lists, OneCall, NEW t \in Outer, NEW s, s = <<>> \/ s \in ListsOf(t),
           todo' = [todo EXCEPT ![t] = s], \A u \in Outer : todo[u] = <<>>
    PROVE  /\ OneCall' /\ Caller = "none" /\ Doing = "idle" /\ Doing' = Part(s)
           /\ Caller' = IF s = <<>> THEN "none" ELSE t
           /\ todo'["ffb"] = todo["ffb"]
<1>1. todo'[t] = s /\ \A u \in Thread \ {t} : todo'[u] = todo[u]
    BY DEF Lists, Outer, Thread
<1>2. \A u \in Outer \ {t} : todo'[u] = <<>>
    BY <1>1 DEF Outer, Thread
<1>3. todo'["ffb"] = todo["ffb"]
    BY <1>1 DEF Outer, Thread
<1>4. OneCall'
    BY <1>1, <1>2, <1>3 DEF OneCall, Outer
<1>5. Caller = "none" /\ Doing = "idle"
    BY DEF Caller, Doing, Outer
<1>6. Caller' = IF s = <<>> THEN "none" ELSE t
    BY <1>1, <1>2 DEF Caller, Outer
<1>7. Doing' = Part(s)
  <2>1. CASE s = <<>>
    BY <1>6, <2>1, IdlePart DEF Doing
  <2>2. CASE s # <<>>
    BY <1>1, <1>6, <2>2 DEF Doing, Outer
  <2> QED BY <2>1, <2>2
<1> QED BY <1>3, <1>4, <1>5, <1>6, <1>7
-----------------------------------------------------------------------------
(* Every step keeps it                                                     *)

\* A step of a call.
LEMMA CallStepKeeps ==
    ASSUME TypeOK, Lists, OneCall, Core, NEW t \in Outer, Steps(t)
    PROVE  OneCall' /\ Core'
<1> USE DEF Core, Following, Pair, Powering, Placed, Supplied, Called, Halted, Hot, WhileHot, SwitchedOff,
        Outer, TypeOK, States, Locs, machine, ready, flags, counters, chip
<1>1. CASE Want(t)
  <2>1. Take(t, "want", <<>>)
    BY <1>1 DEF Want
  <2>2. /\ OneCall' /\ Caller = t /\ Caller' = t /\ Driving' = Driving
        /\ (t # "exti" /\ Change("want", "start")) \/ (t # "usb" /\ Change("rewant", "restart"))
    BY <2>1, WantMoves
  <2> QED BY <1>1, <2>2 DEF Change, Want, Request
<1>2. CASE StartIfPowered(t)
  <2>1. PICK steps :
            /\ Take(t, "power", steps)
            /\ IF power /\ ~emergency THEN steps = Do("pwm") \o Do("pin") \o Do("modeNext")
               ELSE steps = <<>>
    BY <1>2 DEF StartIfPowered
  <2>2. /\ OneCall' /\ Caller = t /\ Driving' = Driving
        /\ steps # <<>> =>
             /\ Caller' = t
             /\ (t # "exti" /\ Change("start", "start")) \/ (t # "usb" /\ Change("restart", "restart"))
        /\ steps = <<>> =>
             \/ t # "exti" /\ Change("start", "idle") /\ Caller' = "none"
             \/ t # "usb" /\ Change("restart", "resume") /\ Caller' = t
    BY <2>1, PowerMoves
  <2>3. power /\ ~emergency <=> steps # <<>>
    BY <2>1, EnableNotEmpty
  <2> QED BY <1>2, <2>2, <2>3 DEF Change, StartIfPowered, Request
<1>3. CASE SetEnablePin(t)
  <2>1. Take(t, "pin", <<>>)
    BY <1>3 DEF SetEnablePin
  <2>2. /\ OneCall' /\ Caller = t /\ Caller' = t /\ Driving' = Driving
        /\ (t # "exti" /\ Change("start", "start")) \/ (t # "usb" /\ Change("restart", "restart"))
    BY <2>1, EnableMoves
  <2> QED BY <1>3, <2>2 DEF Change, SetEnablePin
<1>4. CASE Write(t)
  <2>1. CASE Take(t, "pwm", <<>>)
    <3>1. /\ OneCall' /\ Caller = t /\ Caller' = t /\ Driving' = Driving
          /\ (t # "exti" /\ Change("start", "start")) \/ (t # "usb" /\ Change("restart", "restart"))
        BY <2>1, EnableMoves
    <3>2. foc' = TRUE /\ UNCHANGED <<mode, torque>>
        BY <1>4, <2>1 DEF Write, Take
    <3> QED BY <1>4, <3>1, <3>2 DEF Change, Write
  <2>2. CASE Take(t, "modeNext", <<>>)
    <3>1. /\ OneCall' /\ Caller = t /\ Driving' = Driving
          /\ \/ t # "exti" /\ Change("start", "idle") /\ Caller' = "none"
             \/ t # "usb" /\ Change("restart", "resume") /\ Caller' = t
        BY <2>2, ModeMoves
    <3>2. mode' = "torque" /\ UNCHANGED <<foc, torque>>
        BY <1>4, <2>2 DEF Write, Take
    <3> QED BY <1>4, <3>1, <3>2 DEF Change, Write
  <2>3. CASE Take(t, "modeStop", <<>>)
    <3>1. /\ OneCall' /\ Caller = t /\ Caller' = t /\ Driving' = Driving
          /\ Change("off", "off")
        BY <2>3, CloseMoves
    <3>2. mode' = "stop" /\ UNCHANGED <<foc, torque>>
        BY <1>4, <2>3 DEF Write, Take
    <3> QED BY <1>4, <3>1, <3>2 DEF Change, Write
  <2>4. CASE Take(t, "pwmOff", <<>>)
    <3>1. /\ OneCall' /\ Caller = t /\ Caller' = t /\ Driving' = Driving
          /\ Change("off", "shut")
        BY <2>4, CloseMoves
    <3>2. foc' = FALSE /\ UNCHANGED <<mode, torque>>
        BY <1>4, <2>4 DEF Write, Take
    <3> QED BY <1>4, <3>1, <3>2 DEF Change, Write
  <2> QED BY <1>4, <2>1, <2>2, <2>3, <2>4 DEF Write
<1>5. CASE Unwant(t)
  <2>1. PICK steps :
            /\ Take(t, "unwant", steps)
            /\ IF state \in {"Running", "EncoderFinished"}
               THEN steps = Do("modeStop") \o Do("pwmOff") \o Do("shutdown") ELSE steps = <<>>
    BY <1>5 DEF Unwant
  <2>2. /\ OneCall' /\ Caller = t /\ Driving' = Driving
        /\ steps = <<>> => Change("stop", "idle") /\ Caller' = "none"
        /\ steps # <<>> => Change("stop", "off") /\ Caller' = t
    BY <2>1, UnwantMoves
  <2>3. state \in {"Running", "EncoderFinished"} <=> steps # <<>>
    BY <2>1, CloseNotEmpty
  <2> QED BY <1>5, <2>2, <2>3 DEF Change, Unwant
<1>6. CASE Shutdown(t)
  <2>1. Take(t, "shutdown", <<>>)
    BY <1>6 DEF Shutdown
  <2>2. /\ OneCall' /\ Caller = t /\ Driving' = Driving
        /\ Change("shut", "idle") /\ Caller' = "none"
    BY <2>1, CloseMoves
  <2> QED BY <1>6, <2>2 DEF Change, Shutdown, Request
<1>7. CASE Turn(t)
  <2>1. PICK steps :
            /\ Take(t, "turn", steps)
            /\ steps = <<>> \/ steps = <<[f |-> "torque", v |-> Head(todo[t]).v]>>
    BY <1>7 DEF Turn
  <2>2. /\ OneCall' /\ Caller = t /\ t # "tmc" /\ Caller' = t /\ Driving' = Driving
        /\ Change("stop", "stop") \/ (t = "exti" /\ Change("reset", "reset"))
    BY <2>1, TurnMoves
  <2> QED BY <1>7, <2>2 DEF Change, Turn
<1>8. CASE SetTorque(t)
  <2>1. Take(t, "torque", <<>>)
    BY <1>8 DEF SetTorque
  <2>2. /\ OneCall' /\ Caller = t /\ t # "tmc" /\ Caller' = t /\ Driving' = Driving
        /\ Change("stop", "stop") \/ (t = "exti" /\ Change("reset", "reset"))
        /\ Head(todo[t]).v = FALSE
    BY <2>1, TurnMoves
  <2> QED BY <1>8, <2>2 DEF Change, SetTorque
<1>9. CASE Stop(t)
  <2>1. Take(t, "stop", <<>>)
    BY <1>9 DEF Stop
  <2>2. /\ OneCall' /\ Caller = t /\ t = "exti" /\ Caller' = t /\ Driving' = Driving
        /\ Change("stop", "stop")
    BY <2>1, PressMoves
  <2> QED BY <1>9, <2>2 DEF Change, Stop
<1>10. CASE Clear(t)
  <2>1. Take(t, "clear", <<>>)
    BY <1>10 DEF Clear
  <2>2. /\ OneCall' /\ Caller = t /\ t # "usb" /\ Caller' = t /\ Driving' = Driving
        /\ Change("reset", "rewant")
    BY <2>1, ClearMoves
  <2> QED BY <1>10, <2>2 DEF Change, Clear
<1>11. CASE ResumeThread(t)
  <2>1. Take(t, "resume", <<>>)
    BY <1>11 DEF ResumeThread
  <2>2. /\ OneCall' /\ Caller = t /\ t # "usb" /\ Driving' = Driving
        /\ \/ Change("resume", "idle") /\ Caller' = "none"
           \/ t = "tmc" /\ Change("resume", "stop") /\ Caller' = t
    BY <2>1, ResumeMoves
  <2> QED BY <1>11, <2>2 DEF Change, ResumeThread, motorReady
<1> QED BY <1>1, <1>2, <1>3, <1>4, <1>5, <1>6, <1>7, <1>8, <1>9, <1>10, <1>11 DEF Steps

\* A step of the force feedback loop.
LEMMA LoopStepKeeps ==
    ASSUME TypeOK, Lists, OneCall, Core, Steps("ffb")
    PROVE  OneCall' /\ Core'
<1>1. /\ todo["ffb"] # <<>> /\ Head(todo["ffb"]).f \in {"turn", "torque"}
      /\ Tail(todo["ffb"]) = <<>> /\ (Turn("ffb") \/ SetTorque("ffb"))
  <2>1. PICK g \in StepNames, steps \in Seq(Step) : Take("ffb", g, steps)
    BY StepLists DEF Thread
  <2>2. todo["ffb"] # <<>> /\ Head(todo["ffb"]).f \in {"turn", "torque"} /\ Tail(todo["ffb"]) = <<>>
    BY <2>1 DEF OneCall, Take, Idle
  <2>3. Turn("ffb") \/ SetTorque("ffb")
    BY <2>2 DEF Steps, Want, StartIfPowered, SetEnablePin, Write, Unwant, Shutdown, Stop, Clear,
        ResumeThread, Take
  <2> QED BY <2>2, <2>3
<1>2. ASSUME NEW g, NEW steps \in Seq(Step), Take("ffb", g, steps),
             steps = <<>> \/ (Head(steps).f = "torque" /\ Tail(steps) = <<>>)
      PROVE  /\ OneCall' /\ Caller' = Caller /\ Doing' = Doing /\ Caller \notin {"exti", "usb"}
             /\ Driving' <=> steps # <<>>
  <2>1. /\ Tail(todo["ffb"]) \in Seq(Step) /\ todo'["ffb"] = steps \o Tail(todo["ffb"])
        /\ \A t \in Outer : todo'[t] = todo[t]
    BY <1>2, TakeList DEF Thread, Outer
  <2>2. todo'["ffb"] = steps
    BY <1>1, <2>1, ConcatEmptySeq
  <2>3. todo["exti"] = <<>> /\ todo["usb"] = <<>>
    BY <1>2 DEF Take, Scheduled, Threads, Idle
  <2>4. OneCall'
    BY <1>2, <2>1, <2>2 DEF OneCall
  <2>5. Caller' = Caller /\ Caller \notin {"exti", "usb"}
    BY <2>1, <2>3 DEF Caller, Outer
  <2>6. Doing' = Doing
    BY <2>1, <2>3, <2>5 DEF Doing, Caller, Outer
  <2>7. Driving' <=> steps # <<>>
    BY <1>2, <2>2 DEF Driving
  <2> QED BY <2>4, <2>5, <2>6, <2>7
<1>3. CASE Turn("ffb")
  <2> DEFINE torqueNext == <<[f |-> "torque", v |-> Head(todo["ffb"]).v]>>
  <2>1. Head(todo["ffb"]) \in Step
    BY <1>1, HeadTailProperties DEF Lists, Thread
  <2>2. torqueNext \in Seq(Step) /\ Head(torqueNext).f = "torque" /\ Tail(torqueNext) = <<>>
    BY <2>1 DEF Step, StepNames
  <2>3. PICK steps :
            /\ Take("ffb", "turn", steps)
            /\ steps = IF motorReady /\ motorEnabledRequested THEN torqueNext ELSE <<>>
    BY <1>3 DEF Turn
  <2>4. steps \in Seq(Step) /\ (steps = <<>> \/ (Head(steps).f = "torque" /\ Tail(steps) = <<>>))
    BY <2>2, <2>3, NoSteps
  <2>5. OneCall' /\ Caller' = Caller /\ Doing' = Doing /\ (Driving' => steps # <<>>)
    BY <1>2, <2>3, <2>4
  <2>6. Driving' => motorReady
    BY <2>3, <2>5
  <2> QED BY <1>3, <2>5, <2>6 DEF Core, Following, Pair, Powering, Placed, Supplied, Called,
             Halted, Hot,
        WhileHot, SwitchedOff, TypeOK, States, Locs, Turn, motorReady, machine, ready, flags, counters, chip
<1>4. CASE SetTorque("ffb")
  <2>1. Take("ffb", "torque", <<>>)
    BY <1>4 DEF SetTorque
  <2>2. OneCall' /\ Caller' = Caller /\ Doing' = Doing /\ Caller \notin {"exti", "usb"} /\ ~Driving'
    BY <1>2, <2>1, NoSteps
  <2>3. Driving
    BY <1>1, <2>1 DEF Driving, Take
  <2> QED BY <1>4, <2>2, <2>3 DEF Core, Following, Pair, Powering, Placed, Supplied, Called,
             Halted, Hot,
        WhileHot, SwitchedOff, TypeOK, States, Locs, SetTorque, machine, ready, flags, counters, chip
<1> QED BY <1>1, <1>3, <1>4

\* A step of the driver's own loop, which may give its thread a call.
LEMMA ThreadStepKeeps ==
    ASSUME TypeOK, Lists, OneCall, Core, ThreadStep
    PROVE  OneCall' /\ Core'
<1>1. /\ Idle("tmc") /\ Scheduled("tmc") /\ todo["ffb"] = <<>>
      /\ \A t \in Outer : todo[t] = <<>>
    BY ThreadLists DEF Scheduled, Threads, Idle, Outer
<1>2. ASSUME NEW s, s = <<>> \/ s \in ListsOf("tmc"), todo' = [todo EXCEPT !["tmc"] = s]
      PROVE  /\ OneCall' /\ Caller = "none" /\ Doing = "idle" /\ Doing' = Part(s)
             /\ Caller' = IF s = <<>> THEN "none" ELSE "tmc"
             /\ ~Driving /\ ~Driving'
    BY <1>1, <1>2, Begun DEF Outer, Driving
<1>3. /\ StopMotor \in ListsOf("tmc") /\ Part(StopMotor) = "stop" /\ StopMotor # <<>>
      /\ StartMotor \in ListsOf("tmc") /\ Part(StartMotor) = "want" /\ StartMotor # <<>>
      /\ \A s \in {<<>>, StopMotor} : /\ EmergencyStop(TRUE) \o s \in ListsOf("tmc")
                                      /\ Part(EmergencyStop(TRUE) \o s) = "reset"
                                      /\ EmergencyStop(TRUE) \o s # <<>>
  <2>1. StopMotor \in ListsOf("tmc") /\ Part(StopMotor) = "stop" /\ StopMotor # <<>>
    BY CallsListed, StopParts DEF Outer
  <2>2. StartMotor \in ListsOf("tmc") /\ Part(StartMotor) = "want" /\ StartMotor # <<>>
    BY CallsListed, ClassesIn, PartOf, FirstHead DEF Outer, OpenLists, WantLists, Ends
  <2>3. ASSUME NEW s \in ClearLists(Ends) PROVE s \in ListsOf("tmc") /\ Part(s) = "reset" /\ s # <<>>
    <3>1. s \in TurnLists(ClearLists(Ends))
        BY DEF TurnLists
    <3> QED BY <3>1, ClassesIn, PartOf, FirstHead DEF Outer, ClearLists
  <2> QED BY <2>1, <2>2, <2>3, CallsListed
<1>4. CASE UNCHANGED todo
  <2>1. todo' = [todo EXCEPT !["tmc"] = <<>>]
    BY <1>1, <1>4 DEF Idle, Lists, Thread
  <2>2. /\ OneCall' /\ Caller = "none" /\ Doing = "idle" /\ Doing' = "idle" /\ Caller' = "none"
        /\ ~Driving /\ ~Driving'
    BY <1>2, <2>1, IdlePart
  <2> USE DEF Core, Following, Pair, Powering, Placed, Supplied, Called, Halted, Hot, WhileHot, SwitchedOff,
        TypeOK, States, Locs, Loop, Outside, machine, ready, flags, counters, chip
  <2>3. CASE Top
    <3>1. state' = state
        BY <2>3 DEF Top
    <3> QED BY <2>3, <2>2, <3>1 DEF Top
  <2>4. CASE Apply
    BY <2>4, <2>2 DEF Apply
  <2>5. CASE Initialize
    BY <2>5, <2>2 DEF Initialize
  <2>6. CASE NoPower
    BY <2>6, <2>2 DEF NoPower
  <2>7. CASE CheckPower
    BY <2>7, <2>2 DEF CheckPower
  <2>8. CASE EnableStage
    BY <2>8, <2>2 DEF EnableStage
  <2>9. CASE EnablePwm
    BY <2>9, <2>2 DEF EnablePwm
  <2>10. CASE SetEncoderType
    BY <2>10, <2>2 DEF SetEncoderType, Request
  <2>11. CASE AllowChange
    BY <2>11, <2>2 DEF AllowChange
  <2>12. CASE BeginAlign
    BY <2>12, <2>2 DEF BeginAlign
  <2>13. CASE Align
    BY <2>13, <2>2 DEF Align, Request
  <2>14. CASE AlignFailed
    BY <2>14, <2>2 DEF AlignFailed
  <2>15. CASE Stuck
    BY <2>15, <2>2 DEF Stuck, ForceState
  <2>16. CASE CountFailure
    BY <2>16, <2>2 DEF CountFailure
  <2>17. CASE Block
    BY <2>17, <2>2 DEF Block
  <2>18. CASE RequestNext
    BY <2>18, <2>2 DEF RequestNext, Request
  <2>19. CASE Supervised
    BY <2>19, <2>2 DEF Supervised, Request
  <2>20. CASE Rest
    BY <2>20, <2>2 DEF Rest
  <2>21. CASE Supervise
    BY <2>21, <2>2 DEF Supervise
  <2>22. CASE LowVoltage
    BY <2>22, <2>2 DEF LowVoltage
  <2>23. CASE Delay
    BY <2>23, <2>2 DEF Delay, motorReady
  <2>24. CASE Suspend
    BY <2>24, <2>2 DEF Suspend
  <2>25. ~EncoderFinished /\ ~OverTemp
    <3>1. todo["tmc"] = <<>> /\ "tmc" \in DOMAIN todo
        BY <1>1 DEF Idle, Lists, Thread
    <3> QED BY <1>3, <1>4, <3>1 DEF EncoderFinished, OverTemp
  <2> QED BY <2>3, <2>4, <2>5, <2>6, <2>7, <2>8, <2>9, <2>10, <2>11, <2>12, <2>13, <2>14, <2>15,
             <2>16, <2>17, <2>18, <2>19, <2>20, <2>21, <2>22, <2>23, <2>24, <2>25 DEF ThreadStep
<1>5. CASE todo' # todo
  <2>1. AlignFailed \/ CountFailure \/ EncoderFinished \/ OverTemp
    BY <1>5 DEF ThreadStep, Top, Apply, Initialize, NoPower, CheckPower, EnableStage, EnablePwm,
        SetEncoderType, AllowChange, BeginAlign, Align, Stuck, Block, RequestNext, Supervised, Rest,
        Supervise, LowVoltage, Delay, Suspend
  <2>2. CASE AlignFailed
    <3>1. todo' = [todo EXCEPT !["tmc"] = EmergencyStop(TRUE) \o <<>>] /\ loc' = "stuck"
      <4>1. [todo EXCEPT !["tmc"] = <<>> \o <<>>] = todo
        BY <1>1 DEF Idle, Lists, Thread
      <4> QED BY <1>5, <2>2, <4>1 DEF AlignFailed, Reported, Loop
    <3>2. /\ OneCall' /\ Caller = "none" /\ Doing = "idle" /\ Doing' = "reset" /\ Caller' = "tmc"
          /\ ~Driving /\ ~Driving'
        BY <1>2, <1>3, <3>1
    <3> QED BY <2>2, <3>1, <3>2 DEF Core, Following, Pair, Powering, Placed, Supplied, Called,
               Halted, Hot,
        WhileHot, SwitchedOff, TypeOK, States, Locs, Loop, Outside, machine, ready, flags, counters, chip,
        AlignFailed
  <2>3. CASE CountFailure
    <3>1. \/ todo' = [todo EXCEPT !["tmc"] = EmergencyStop(TRUE) \o StopMotor]
          \/ todo' = [todo EXCEPT !["tmc"] = <<>> \o StopMotor]
        BY <1>5, <2>3 DEF CountFailure, Reported
    <3>2. <<>> \o StopMotor = StopMotor
        BY CallsListed
    <3>3. /\ OneCall' /\ Caller = "none" /\ Doing = "idle" /\ Doing' \in {"reset", "stop"} /\ Caller' = "tmc"
          /\ ~Driving /\ ~Driving'
        BY <1>2, <1>3, <3>1, <3>2
    <3>4. ~(enc_retry < EncRetryMax)
        BY <1>5, <2>3 DEF CountFailure
    <3> QED BY <2>3, <3>3, <3>4 DEF Core, Following, Pair, Powering, Placed, Supplied, Called,
               Halted, Hot,
        WhileHot, SwitchedOff, TypeOK, States, Locs, Loop, Outside, machine, ready, flags, counters, chip,
        CountFailure
  <2>4. CASE EncoderFinished
    <3>1. todo' = [todo EXCEPT !["tmc"] = IF motorEnabledRequested THEN StartMotor ELSE StopMotor]
        BY <2>4 DEF EncoderFinished
    <3>2. /\ OneCall' /\ Caller = "none" /\ Doing = "idle" /\ Caller' = "tmc"
          /\ Doing' = IF motorEnabledRequested THEN "want" ELSE "stop"
          /\ ~Driving /\ ~Driving'
        BY <1>2, <1>3, <3>1
    <3> QED BY <2>4, <3>2 DEF Core, Following, Pair, Powering, Placed, Supplied, Called, Halted,
               Hot,
        WhileHot, SwitchedOff, TypeOK, States, Locs, Loop, Outside, machine, ready, flags, counters, chip,
        EncoderFinished
  <2>5. CASE OverTemp
    <3>1. todo' = [todo EXCEPT !["tmc"] = StopMotor]
        BY <2>5 DEF OverTemp
    <3>2. /\ OneCall' /\ Caller = "none" /\ Doing = "idle" /\ Caller' = "tmc" /\ Doing' = "stop"
          /\ ~Driving /\ ~Driving'
        BY <1>2, <1>3, <3>1
    <3> QED BY <2>5, <3>2 DEF Core, Following, Pair, Powering, Placed, Supplied, Called, Halted,
               Hot,
        WhileHot, SwitchedOff, TypeOK, States, Locs, Loop, Outside, machine, ready, flags, counters, chip,
        OverTemp
  <2> QED BY <2>1, <2>2, <2>3, <2>4, <2>5
<1> QED BY <1>4, <1>5

\* A call from outside, while the calls are settled.
LEMMA BeginKeeps ==
    ASSUME TypeOK, Lists, OneCall, Core, pace = "settled", FromOutside
    PROVE  OneCall' /\ Core'
<1> USE DEF Core, Following, Pair, Powering, Placed, Supplied, Called, Halted, Hot, WhileHot, SwitchedOff,
        TypeOK, States, Locs, machine, ready, flags, counters, chip
<1>1. ASSUME NEW t \in {"exti", "usb"}, NEW s \in ListsOf(t), Call(t, s), Settled
      PROVE  OneCall' /\ Caller = "none" /\ Doing = "idle" /\ Doing' = Part(s) /\ Driving' = Driving
             /\ (s # <<>> => Caller' = t)
  <2>1. \A u \in Outer : todo[u] = <<>>
    BY <1>1 DEF Settled, Idle, Outer
  <2>2. t \in Outer /\ todo' = [todo EXCEPT ![t] = s]
    BY <1>1 DEF Outer, Call
  <2>3. /\ OneCall' /\ Caller = "none" /\ Doing = "idle" /\ Doing' = Part(s)
        /\ Caller' = IF s = <<>> THEN "none" ELSE t
        /\ todo'["ffb"] = todo["ffb"]
    BY <2>1, <2>2, Begun
  <2> QED BY <2>3 DEF Driving
<1>2. CASE UsbResume
  <2>1. Undisturbed /\ Call("usb", StartMotor)
    BY <1>2 DEF UsbResume
  <2>2. StartMotor \in ListsOf("usb") /\ Part(StartMotor) = "want" /\ StartMotor # <<>>
    BY CallsListed, ClassesIn, PartOf, FirstHead DEF Outer, OpenLists, WantLists, Ends
  <2>3. OneCall' /\ Caller = "none" /\ Doing = "idle" /\ Doing' = "want" /\ Caller' = "usb" /\ Driving' = Driving
    BY <1>1, <2>1, <2>2 DEF Undisturbed
  <2> QED BY <2>1, <2>3 DEF Undisturbed, Settled, Call
<1>3. CASE UsbSuspend
  <2> DEFINE s == TurnTo(FALSE) \o StopMotor
  <2>1. Undisturbed /\ Call("usb", s)
    BY <1>3 DEF UsbSuspend
  <2>2. s \in ListsOf("usb") /\ Part(s) = "stop" /\ s # <<>>
    <3>1. s \in TurnLists(UnwantLists) /\ s \in StopLists
        BY CallsListed DEF StopLists
    <3> QED BY <3>1, IdlePart, ClassesIn, PartOf DEF Outer, Ends
  <2> HIDE DEF s
  <2>3. OneCall' /\ Caller = "none" /\ Doing = "idle" /\ Doing' = "stop" /\ Caller' = "usb" /\ Driving' = Driving
    BY <1>1, <2>1, <2>2 DEF Undisturbed
  <2> QED BY <2>1, <2>3 DEF Undisturbed, Settled, Call
<1>4. CASE PressButton
  <2> DEFINE s == TurnTo(FALSE) \o EmergencyStop(FALSE)
  <2>1. Undisturbed /\ Call("exti", s)
    BY <1>4 DEF PressButton
  <2>2. s \in ListsOf("exti") /\ Part(s) = "stop" /\ s # <<>>
    <3>1. s \in TurnLists(PressLists) /\ s \in StopLists
        BY CallsListed DEF StopLists
    <3> QED BY <3>1, IdlePart, ClassesIn, PartOf DEF Outer, Ends
  <2> HIDE DEF s
  <2>3. OneCall' /\ Caller = "none" /\ Doing = "idle" /\ Doing' = "stop" /\ Caller' = "exti" /\ Driving' = Driving
    BY <1>1, <2>1, <2>2 DEF Undisturbed
  <2> QED BY <2>1, <2>3 DEF Undisturbed, Settled, Call
<1>5. CASE ReleaseButton
  <2> DEFINE s == TurnTo(FALSE) \o EmergencyStop(TRUE)
  <2>1. Settled /\ emergency /\ Call("exti", s)
    BY <1>5 DEF ReleaseButton
  <2>2. s \in ListsOf("exti") /\ Part(s) = "reset" /\ s # <<>>
    <3>1. s \in TurnLists(ClearLists(Nil))
        BY CallsListed
    <3> QED BY <3>1, IdlePart, ClassesIn, PartOf DEF Outer, Ends
  <2> HIDE DEF s
  <2>3. OneCall' /\ Caller = "none" /\ Doing = "idle" /\ Doing' = "reset" /\ Caller' = "exti" /\ Driving' = Driving
    BY <1>1, <2>1, <2>2
  <2> QED BY <2>1, <2>3 DEF Settled, Call
<1>6. CASE \E v \in BOOLEAN : UpdateTorque(v)
  <2>1. PICK v \in BOOLEAN : Call("ffb", TurnTo(v))
    BY <1>6 DEF UpdateTorque
  <2>2. /\ todo["ffb"] = <<>> /\ todo'["ffb"] = TurnTo(v) /\ \A t \in Outer : todo'[t] = todo[t]
    BY <2>1 DEF Call, Idle, Lists, Thread, Outer
  <2>3. TurnTo(v) # <<>> /\ Head(TurnTo(v)).f = "turn" /\ Tail(TurnTo(v)) = <<>>
    BY DEF TurnTo
  <2>4. OneCall' /\ ~Driving /\ ~Driving'
    BY <2>2, <2>3 DEF OneCall, Driving
  <2>5. Caller' = Caller
    BY <2>2 DEF Caller, Outer
  <2>6. Doing' = Doing
    BY <2>2, <2>5, CallerOf DEF Doing, Outer
  <2> QED BY <2>1, <2>4, <2>5, <2>6 DEF Call
<1> QED BY <1>2, <1>3, <1>4, <1>5, <1>6 DEF FromOutside

LEMMA SupplyKeeps ==
    ASSUME TypeOK, Lists, OneCall, Core, SwitchPower
    PROVE  OneCall' /\ Core'
<1>1. OneCall' /\ Caller' = Caller /\ Doing' = Doing /\ Driving' = Driving
    BY DEF SwitchPower, OneCall, Caller, Doing, Driving
<1>2. Caller = "none" /\ Doing = "idle"
  <2>1. \A t \in Outer : todo[t] = <<>>
    BY DEF SwitchPower, Undisturbed, Settled, Idle, Outer
  <2> QED BY <2>1, CallerOf DEF Outer
<1> QED BY <1>1, <1>2 DEF Core, Following, Pair, Powering, Placed, Supplied, Called, Halted, Hot,
           WhileHot,
        SwitchedOff, TypeOK, States, Locs, machine, ready, flags, counters, chip, SwitchPower, Undisturbed,
        Settled

\* Only if the calls are settled; with another pace they are not told apart.
StopInv == pace = "settled" => OneCall /\ Core

LEMMA StopSteps == TypeOK /\ Lists /\ StopInv /\ [Next]_vars => StopInv'
<1> SUFFICES ASSUME TypeOK, Lists, StopInv, [Next]_vars, pace' = "settled" PROVE OneCall' /\ Core'
    BY DEF StopInv
<1>1. pace = "settled"
  <2>1. CASE \E t \in Thread : Steps(t)
    BY <2>1 DEF Steps, Want, StartIfPowered, SetEnablePin, Write, Unwant, Shutdown, Turn, SetTorque,
        Stop, Clear, ResumeThread
  <2>2. CASE ThreadStep
    BY <2>2 DEF ThreadStep, Top, Apply, Initialize, NoPower, CheckPower, EnableStage, EnablePwm,
        SetEncoderType, AllowChange, BeginAlign, Align, AlignFailed, Stuck, CountFailure, Block,
        EncoderFinished, RequestNext, Supervised, OverTemp, Rest, Supervise, LowVoltage, Delay, Suspend,
        Outside
  <2>3. CASE FromOutside
    BY <2>3 DEF FromOutside, UsbResume, UsbSuspend, PressButton, ReleaseButton, UpdateTorque, Call
  <2>4. CASE SwitchPower \/ UNCHANGED vars
    BY <2>4 DEF SwitchPower, vars
  <2> QED BY <2>1, <2>2, <2>3, <2>4 DEF Next, FromOutside
<1>2. OneCall /\ Core
    BY <1>1 DEF StopInv
<1>3. CASE \E t \in Thread : Steps(t)
  <2>1. PICK t \in Thread : Steps(t)
    BY <1>3
  <2>2. CASE t \in Outer
    BY <1>2, <2>1, <2>2, CallStepKeeps
  <2>3. CASE t \notin Outer
    <3>1. Steps("ffb")
        BY <2>1, <2>3 DEF Thread, Outer
    <3> QED BY <1>2, <3>1, LoopStepKeeps
  <2> QED BY <2>2, <2>3
<1>4. CASE ThreadStep
    BY <1>2, <1>4, ThreadStepKeeps
<1>5. CASE FromOutside
    BY <1>1, <1>2, <1>5, BeginKeeps
<1>6. CASE SwitchPower
    BY <1>2, <1>6, SupplyKeeps
<1>7. CASE UNCHANGED vars
  <2>1. OneCall' /\ Caller' = Caller /\ Doing' = Doing /\ Driving' = Driving
    BY <1>2, <1>7 DEF vars, OneCall, Caller, Doing, Driving
  <2> QED BY <1>2, <1>7, <2>1 DEF vars, Core, Following, Pair, Powering, Placed, Supplied, Called,
             Halted,
        Hot, WhileHot, SwitchedOff
<1> QED BY <1>3, <1>4, <1>5, <1>6, <1>7 DEF Next, FromOutside

LEMMA InitStop == Init => StopInv
<1> SUFFICES ASSUME Init PROVE OneCall /\ Core
    BY DEF StopInv
<1>1. \A t \in Thread : todo[t] = <<>>
    BY DEF Init
<1>2. OneCall /\ Caller = "none" /\ Doing = "idle" /\ ~Driving
    BY <1>1 DEF OneCall, Caller, Doing, Driving, Thread, Outer
<1> QED BY <1>2 DEF Init, Core, Following, Pair, Powering, Placed, Supplied, Called, Halted, Hot,
           WhileHot,
        SwitchedOff

\* A motor nobody wants to run gives no torque, unless the driver gave up or
\* the motor is too hot, if every call comes when the driver has followed the
\* last one: stopMotor writes to the chip in two of the states only, and
\* every other way to a state with torque is cut by the requests it leaves.
THEOREM UnwantedNoTorque == Spec => []StoppedMeansNoTorque
<1>1. StopInv => StoppedMeansNoTorque
  <2> SUFFICES ASSUME OneCall, Core, Quiet, ~motorEnabledRequested, state \notin {"OverTemp", "HardError"},
                      power, enablePin, foc, mode = "torque", torque
               PROVE  FALSE
    BY DEF StopInv, StoppedMeansNoTorque, Driven
  <2>1. Doing = "idle"
    BY CallerOf DEF Quiet, Idle, Outer, Thread
  <2> QED BY <2>1 DEF Core, SwitchedOff, Hot
<1>2. Init => TypeOK /\ Lists /\ StopInv
    BY InitTypes, InitStop
<1>3. TypeOK /\ Lists /\ StopInv /\ [Next]_vars => (TypeOK /\ Lists /\ StopInv)'
    BY TypeSteps, StopSteps
<1> QED BY <1>1, <1>2, <1>3, PTL DEF Spec
=============================================================================
