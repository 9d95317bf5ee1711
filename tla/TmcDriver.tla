------------------------------ MODULE TmcDriver ------------------------------
(***************************************************************************)
(* The TMC4671 motor driver (TMC4671.cpp): a state machine in a thread of  *)
(* its own waits for the motor supply, calibrates, aligns the encoder and  *)
(* supervises the motor, while the USB thread starts and stops it, the     *)
(* button's interrupt raises and resets the emergency stop and the force   *)
(* feedback loop sets its torque.                                          *)
(*                                                                         *)
(* Every thread runs the rest of its call as a list of steps, each up to   *)
(* its next transfer to the chip; the driver's thread goes on with its     *)
(* loop when it has no call to finish.  Motor and encoder types are fixed, *)
(* the chip answers and the interrupt finds its port free.                 *)
(***************************************************************************)
EXTENDS Naturals, Sequences, FiniteSets

CONSTANTS
    PowerChecks,    \* checks in a row before the supply counts as stable (5)
    EncRetryMax,    \* alignments that may fail (enc_retry_max)
    Events,         \* what may happen in a run
    Paces           \* how the calls may follow each other

KnownEvents == {
    "power",            \* the motor supply comes and goes
    "usb",              \* the host connects and disconnects
    "button",           \* the emergency stop and its reset
    "turn",             \* the force feedback loop sets a torque
    "encoderFault",     \* an alignment fails
    "overTemp"}         \* the motor is too hot

KnownPaces == {
    "settled",          \* each after the state machine followed the last one
    "press",            \* but the button is pressed at any time it is handled well
    "unpowered"}        \* but the host also connects without motor supply

ASSUME DriverAssumption ==
    /\ PowerChecks \in Nat /\ EncRetryMax \in Nat
    /\ Events \subseteq KnownEvents /\ Paces \subseteq KnownPaces

\* In the order of their priorities.
Threads == <<"exti", "usb", "ffb", "tmc">>
Thread == {"exti", "usb", "ffb", "tmc"}

VARIABLES
    state, requestedState, allowStateChange,
    initialized, powerInitialized, encoderAligned,
    emergency, motorEnabledRequested,
    powerCheckCounter, enc_retry,
    enablePin,      \* the power stage is enabled
    foc,            \* the chip drives it
    mode,           \* its motion mode: "stop" or "torque"
    torque,         \* the torque it was last told is not zero
    power,          \* the motor supply is in its range
    suspended,      \* the thread suspended itself
    loc,            \* where its loop is
    pace,           \* how the calls follow each other in this behaviour
    todo            \* the steps each thread has still to do of its call

machine == <<state, requestedState, allowStateChange>>
ready == <<initialized, powerInitialized, encoderAligned>>
flags == <<emergency, motorEnabledRequested>>
counters == <<powerCheckCounter, enc_retry>>
chip == <<foc, mode, torque>>
vars == <<state, requestedState, allowStateChange, initialized, powerInitialized,
          encoderAligned, emergency, motorEnabledRequested, powerCheckCounter, enc_retry,
          enablePin, foc, mode, torque, power, suspended, loc, pace, todo>>

States == {"uninitialized", "waitPower", "Shutdown", "Running", "EncoderInit",
           "EncoderFinished", "HardError", "OverTemp"}
Locs == {"top", "apply", "switch", "calibrate", "enable", "encoder", "allow",
         "align", "stuck", "failed", "finish", "block", "supervise",
         "lowVoltage", "delay", "suspend"}
StepNames == {"want", "power", "pwm", "pin", "modeNext", "unwant", "modeStop", "pwmOff",
              "shutdown", "stop", "clear", "resume", "turn", "torque"}
Step == [f : StepNames, v : BOOLEAN]

TypeOK ==
    /\ {state, requestedState} \subseteq States
    /\ {allowStateChange, initialized, powerInitialized, encoderAligned, emergency,
        motorEnabledRequested, enablePin, foc, torque, power, suspended} \subseteq BOOLEAN
    /\ mode \in {"stop", "torque"}
    /\ powerCheckCounter \in 0..PowerChecks + 1 /\ enc_retry \in 0..EncRetryMax + 1
    /\ loc \in Locs /\ pace \in Paces
    /\ DOMAIN todo = Thread /\ \A t \in Thread : todo[t] \in Seq(Step)
-----------------------------------------------------------------------------
(* The calls, as lists of steps                                            *)

Do(f) == <<[f |-> f, v |-> FALSE]>>
TurnTo(v) == <<[f |-> "turn", v |-> v]>>
StartMotor == Do("want") \o Do("power")
StopMotor == Do("unwant")
EmergencyStop(reset) ==
    IF reset THEN Do("clear") \o StartMotor \o Do("resume") ELSE Do("stop") \o StopMotor

motorReady == state = "Running" /\ powerInitialized /\ encoderAligned

\* changeState without force: the thread follows when it may.
Request(s) == requestedState' = s /\ UNCHANGED <<state, allowStateChange>>
\* changeState with force.
ForceState(s) == state' = s /\ UNCHANGED <<requestedState, allowStateChange>>

Init ==
    /\ state = "uninitialized" /\ requestedState = "Shutdown" /\ allowStateChange = FALSE
    /\ initialized = FALSE /\ powerInitialized = FALSE /\ encoderAligned = FALSE
    /\ emergency = FALSE /\ motorEnabledRequested = FALSE
    /\ powerCheckCounter = 0 /\ enc_retry = 0
    /\ enablePin = FALSE /\ foc = FALSE /\ mode = "stop" /\ torque = FALSE
    /\ power \in (IF "power" \in Events THEN BOOLEAN ELSE {TRUE})
    /\ suspended = FALSE /\ loc = "top" /\ pace \in Paces
    /\ todo = [t \in Thread |-> <<>>]

Idle(t) == todo[t] = <<>>

\* A thread runs while those of higher priority have no call: transfers poll
\* the port, so it is not blocked in a call.
Scheduled(t) ==
    \A i, j \in DOMAIN Threads : i < j /\ Threads[j] = t => Idle(Threads[i])

\* Thread t takes its next step, an f, which puts others before the rest.
Take(t, f, steps) ==
    /\ ~Idle(t) /\ Head(todo[t]).f = f /\ Scheduled(t)
    /\ todo' = [todo EXCEPT ![t] = steps \o Tail(@)]
-----------------------------------------------------------------------------
(* startMotor                                                              *)

\* A wrong variant of Want: the state machine is not told.
WantFlag(t) ==
    /\ Take(t, "want", <<>>)
    /\ motorEnabledRequested' = TRUE
    /\ UNCHANGED <<machine, ready, emergency, counters, enablePin, chip, power, suspended, loc, pace>>

Want(t) ==
    /\ Take(t, "want", <<>>)
    /\ motorEnabledRequested' = TRUE
    /\ IF state = "Shutdown" /\ initialized /\ encoderAligned
       THEN Request("Running") ELSE UNCHANGED machine
    /\ UNCHANGED <<ready, emergency, counters, enablePin, chip, power, suspended, loc, pace>>

\* A wrong variant of StartIfPowered: the emergency is not looked at.
StartIfSupplied(t) ==
    /\ IF power
       THEN Take(t, "power", Do("pwm") \o Do("pin") \o Do("modeNext")) /\ UNCHANGED machine
       ELSE Take(t, "power", <<>>) /\ Request("waitPower")
    /\ UNCHANGED <<ready, flags, counters, enablePin, chip, power, suspended, loc, pace>>

StartIfPowered(t) ==
    /\ IF power /\ ~emergency
       THEN Take(t, "power", Do("pwm") \o Do("pin") \o Do("modeNext")) /\ UNCHANGED machine
       ELSE Take(t, "power", <<>>) /\ Request("waitPower")
    /\ UNCHANGED <<ready, flags, counters, enablePin, chip, power, suspended, loc, pace>>

SetEnablePin(t) ==
    /\ Take(t, "pin", <<>>)
    /\ enablePin' = TRUE
    /\ UNCHANGED <<machine, ready, flags, counters, chip, power, suspended, loc, pace>>

\* setPwm and setMotionMode; an axis sets the next mode to torque.
Write(t) ==
    /\ \/ Take(t, "pwm", <<>>) /\ foc' = TRUE /\ UNCHANGED <<mode, torque>>
       \/ Take(t, "pwmOff", <<>>) /\ foc' = FALSE /\ UNCHANGED <<mode, torque>>
       \/ Take(t, "modeNext", <<>>) /\ mode' = "torque" /\ UNCHANGED <<foc, torque>>
       \/ Take(t, "modeStop", <<>>) /\ mode' = "stop" /\ UNCHANGED <<foc, torque>>
    /\ UNCHANGED <<machine, ready, flags, counters, enablePin, power, suspended, loc, pace>>
-----------------------------------------------------------------------------
(* stopMotor, turn and emergencyStop                                       *)

\* A wrong variant of Unwant: a motor that runs is left to turn's test.
UnwantLater(t) ==
    /\ Take(t, "unwant",
            IF state = "EncoderFinished"
            THEN Do("modeStop") \o Do("pwmOff") \o Do("shutdown") ELSE <<>>)
    /\ motorEnabledRequested' = FALSE
    /\ UNCHANGED <<machine, ready, emergency, counters, enablePin, chip, power, suspended, loc, pace>>

Unwant(t) ==
    /\ Take(t, "unwant",
            IF state \in {"Running", "EncoderFinished"}
            THEN Do("modeStop") \o Do("pwmOff") \o Do("shutdown") ELSE <<>>)
    /\ motorEnabledRequested' = FALSE
    /\ UNCHANGED <<machine, ready, emergency, counters, enablePin, chip, power, suspended, loc, pace>>

Shutdown(t) ==
    /\ Take(t, "shutdown", <<>>)
    /\ Request("Shutdown")
    /\ UNCHANGED <<ready, flags, counters, enablePin, chip, power, suspended, loc, pace>>

Turn(t) ==
    /\ ~Idle(t)
    /\ Take(t, "turn", IF motorReady /\ motorEnabledRequested
                       THEN <<[f |-> "torque", v |-> Head(todo[t]).v]>> ELSE <<>>)
    /\ UNCHANGED <<machine, ready, flags, counters, enablePin, chip, power, suspended, loc, pace>>

\* setFluxTorque
SetTorque(t) ==
    /\ Take(t, "torque", <<>>)
    /\ torque' = Head(todo[t]).v
    /\ mode' = IF emergency THEN mode ELSE "torque"
    /\ UNCHANGED <<machine, ready, flags, counters, enablePin, foc, power, suspended, loc, pace>>

\* emergencyStop(false), before its stopMotor.
Stop(t) ==
    /\ Take(t, "stop", <<>>)
    /\ emergency' = TRUE /\ motorEnabledRequested' = FALSE /\ enablePin' = FALSE
    /\ UNCHANGED <<machine, ready, counters, chip, power, suspended, loc, pace>>

\* emergencyStop(true), before its startMotor.
Clear(t) ==
    /\ Take(t, "clear", <<>>)
    /\ emergency' = FALSE /\ motorEnabledRequested' = TRUE
    /\ UNCHANGED <<machine, ready, counters, enablePin, chip, power, suspended, loc, pace>>

ResumeThread(t) ==
    /\ Take(t, "resume", <<>>)
    /\ suspended' = (suspended /\ motorReady)
    /\ UNCHANGED <<machine, ready, flags, counters, enablePin, chip, power, loc, pace>>

Steps(t) ==
    \/ Want(t) \/ StartIfPowered(t) \/ SetEnablePin(t) \/ Write(t) \/ Unwant(t)
    \/ Shutdown(t) \/ Turn(t) \/ SetTorque(t) \/ Stop(t) \/ Clear(t) \/ ResumeThread(t)
-----------------------------------------------------------------------------
(* The thread's loop                                                       *)

\* The loop goes from one place to the next.
Loop(from, to) ==
    /\ loc = from /\ loc' = to
    /\ Idle("tmc") /\ ~suspended /\ Scheduled("tmc")

Outside == UNCHANGED <<power, suspended, pace>>

Top ==
    /\ Loop("top", "apply")
    /\ state' = IF ~initialized /\ state # "HardError" THEN "uninitialized" ELSE state
    /\ UNCHANGED <<requestedState, allowStateChange, ready, flags, counters, enablePin, chip, todo>>
    /\ Outside

\* The thread follows requests only in a privileged state.
Apply ==
    /\ Loop("apply", "switch")
    /\ state' = IF allowStateChange THEN requestedState ELSE state
    /\ UNCHANGED <<requestedState, allowStateChange, ready, flags, counters, enablePin, chip, todo>>
    /\ Outside

\* Uninitialized: initialize() writes the chip's constants.
Initialize ==
    /\ state = "uninitialized" /\ Loop("switch", "supervise")
    /\ allowStateChange' = FALSE
    /\ initialized' = ~emergency
    /\ state' = IF emergency THEN state ELSE "waitPower"
    /\ foc' = (foc /\ (emergency \/ initialized))
    /\ UNCHANGED <<requestedState, powerInitialized, encoderAligned, flags, counters,
                   enablePin, mode, torque, todo>>
    /\ Outside

\* A wrong variant of NextUpTo: one further.
NextBeyond(n, last) == IF n > last + 1 THEN n ELSE n + 1

\* Counters count up to one more than their last value that matters.
NextUpTo(n, last) == IF n > last THEN n ELSE n + 1

NoPower ==
    /\ state = "waitPower" /\ (~power \/ emergency) /\ Loop("switch", "supervise")
    /\ allowStateChange' = FALSE
    /\ powerCheckCounter' = 0
    /\ UNCHANGED <<state, requestedState, ready, flags, enc_retry, enablePin, chip, todo>>
    /\ Outside

CheckPower ==
    /\ state = "waitPower" /\ power /\ ~emergency
    /\ powerCheckCounter' = NextUpTo(powerCheckCounter, PowerChecks)
    /\ IF powerCheckCounter >= PowerChecks /\ ~powerInitialized
       THEN /\ Loop("switch", "calibrate")
            /\ powerInitialized' = TRUE
       ELSE /\ Loop("switch", "allow")
            /\ UNCHANGED powerInitialized
    /\ allowStateChange' = FALSE
    /\ UNCHANGED <<state, requestedState, initialized, encoderAligned, flags, enc_retry,
                   enablePin, chip, todo>>
    /\ Outside

\* initializeWithPower, after the current sensors were calibrated.
EnableStage ==
    /\ Loop("calibrate", "enable")
    /\ enablePin' = TRUE
    /\ UNCHANGED <<machine, ready, flags, counters, chip, todo>>
    /\ Outside

EnablePwm ==
    /\ Loop("enable", "encoder")
    /\ foc' = TRUE
    /\ UNCHANGED <<machine, ready, flags, counters, enablePin, mode, torque, todo>>
    /\ Outside

\* setEncoderType for an encoder that has to be aligned.
SetEncoderType ==
    /\ Loop("encoder", "allow")
    /\ encoderAligned' = FALSE
    /\ Request("EncoderInit")
    /\ UNCHANGED <<initialized, powerInitialized, flags, counters, enablePin, chip, todo>>
    /\ Outside

AllowChange ==
    /\ Loop("allow", "supervise")
    /\ allowStateChange' = (allowStateChange \/ powerInitialized)
    /\ UNCHANGED <<state, requestedState, ready, flags, counters, enablePin, chip, todo>>
    /\ Outside

\* The critical error encoderAlignmentFailed is raised before the steps; the
\* first time it is new, later unless it was not cleared.
Reported(steps) ==
    \E new \in IF enc_retry = 0 THEN {TRUE} ELSE BOOLEAN :
        todo' = [todo EXCEPT !["tmc"] = (IF new THEN EmergencyStop(TRUE) ELSE <<>>) \o steps]

\* EncoderInit: encoderInit moves the motor and waits many times.
BeginAlign ==
    /\ state = "EncoderInit"
    /\ Loop("switch", IF powerInitialized /\ power THEN "align" ELSE "supervise")
    /\ UNCHANGED <<machine, ready, flags, counters, enablePin, chip, todo>>
    /\ Outside

Align ==
    /\ Loop("align", "supervise")
    /\ torque' = FALSE
    /\ encoderAligned' = TRUE
    /\ Request("EncoderFinished")
    /\ UNCHANGED <<initialized, powerInitialized, flags, counters, enablePin, foc, mode, todo>>
    /\ Outside

\* checkEncoder: an encoder that did not move at all is a critical error,
\* which FFBHIDMain answers with emergencyStop(true) if it is new; one that
\* moved wrongly is only counted.
AlignFailed ==
    /\ "encoderFault" \in Events
    /\ torque' = FALSE
    /\ \/ Loop("align", "failed") /\ UNCHANGED todo
       \/ Loop("align", "stuck") /\ Reported(<<>>)
    /\ UNCHANGED <<machine, ready, flags, counters, enablePin, foc, mode>>
    /\ Outside

Stuck ==
    /\ Loop("stuck", "failed")
    /\ ForceState("HardError")
    /\ UNCHANGED <<ready, flags, counters, enablePin, chip, todo>>
    /\ Outside

\* A failed alignment is tried again, but not for ever.
CountFailure ==
    /\ enc_retry' = NextUpTo(enc_retry, EncRetryMax)
    /\ IF enc_retry < EncRetryMax
       THEN /\ Loop("failed", "supervise")
            /\ UNCHANGED <<encoderAligned, todo>>
       ELSE /\ Loop("failed", "block")
            /\ encoderAligned' = FALSE
            /\ Reported(StopMotor)
    /\ UNCHANGED <<machine, initialized, powerInitialized, flags, powerCheckCounter,
                   enablePin, chip>>
    /\ Outside

Block ==
    /\ Loop("block", "supervise")
    /\ allowStateChange' = FALSE /\ state' = "HardError"
    /\ UNCHANGED <<requestedState, ready, flags, counters, enablePin, chip, todo>>
    /\ Outside

\* EncoderFinished: start the motor if it is wanted.
EncoderFinished ==
    /\ state = "EncoderFinished"
    /\ encoderAligned' = TRUE
    /\ IF motorEnabledRequested
       THEN /\ Loop("switch", "finish")
            /\ todo' = [todo EXCEPT !["tmc"] = StartMotor]
       ELSE /\ Loop("switch", "supervise")
            /\ todo' = [todo EXCEPT !["tmc"] = StopMotor]
    /\ UNCHANGED <<machine, initialized, powerInitialized, flags, counters, enablePin, chip>>
    /\ Outside

\* What follows the start of a finished and the stop of an overheated motor.
RequestNext ==
    /\ Loop("finish", "supervise")
    /\ Request(IF state = "EncoderFinished" THEN "Running" ELSE "HardError")
    /\ UNCHANGED <<ready, flags, counters, enablePin, chip, todo>>
    /\ Outside

\* Running: the temperature is checked every two seconds.
Supervised ==
    /\ state = "Running" /\ Loop("switch", "supervise")
    /\ \/ UNCHANGED machine
       \/ "overTemp" \in Events /\ Request("OverTemp")
    /\ UNCHANGED <<ready, flags, counters, enablePin, chip, todo>>
    /\ Outside

OverTemp ==
    /\ state = "OverTemp" /\ Loop("switch", "finish")
    /\ todo' = [todo EXCEPT !["tmc"] = StopMotor]
    /\ UNCHANGED <<machine, ready, flags, counters, enablePin, chip>>
    /\ Outside

Rest ==
    /\ state \in {"Shutdown", "HardError"} /\ Loop("switch", "supervise")
    /\ UNCHANGED <<machine, ready, flags, counters, enablePin, chip, todo>>
    /\ Outside

\* Low voltage: stop the motor and go on from here when the supply is back.
Supervise ==
    /\ IF ~power /\ state # "waitPower" /\ initialized /\ powerInitialized
       THEN /\ Loop("supervise", "lowVoltage")
            /\ requestedState' = state /\ mode' = "stop"
       ELSE /\ Loop("supervise", "delay")
            /\ UNCHANGED <<requestedState, mode>>
    /\ UNCHANGED <<state, allowStateChange, ready, flags, counters, enablePin, foc, torque, todo>>
    /\ Outside

LowVoltage ==
    /\ Loop("lowVoltage", "delay")
    /\ state' = "waitPower" /\ allowStateChange' = FALSE
    /\ UNCHANGED <<requestedState, ready, flags, counters, enablePin, chip, todo>>
    /\ Outside

\* "we can not safely run. wait until resumed by estop": the test, and then
\* the call of Suspend.
Delay ==
    /\ Loop("delay", IF emergency /\ ~motorReady THEN "suspend" ELSE "top")
    /\ UNCHANGED <<machine, ready, flags, counters, enablePin, chip, todo>>
    /\ Outside

Suspend ==
    /\ Loop("suspend", "top")
    /\ suspended' = TRUE
    /\ UNCHANGED <<machine, ready, flags, counters, enablePin, chip, power, pace, todo>>

ThreadStep ==
    \/ Top \/ Apply \/ Initialize \/ NoPower \/ CheckPower \/ EnableStage \/ EnablePwm
    \/ SetEncoderType \/ AllowChange \/ BeginAlign \/ Align \/ AlignFailed \/ Stuck
    \/ CountFailure \/ Block
    \/ EncoderFinished \/ RequestNext \/ Supervised \/ OverTemp \/ Rest \/ Supervise
    \/ LowVoltage \/ Delay \/ Suspend
-----------------------------------------------------------------------------
(* The calls and the supply                                                *)

\* The state machine has followed the last request and is in one of its
\* delays, where it spends nearly all of its time.  The force feedback loop
\* may be anywhere.
Settled ==
    /\ \A t \in {"exti", "usb", "tmc"} : Idle(t)
    /\ \/ suspended
       \/ loc = "align"
       \/ /\ loc = "delay"
          /\ \/ state = requestedState /\ (state = "waitPower" => ~power)
             \/ state = "waitPower" /\ ~power
             \/ state = "HardError"

\* A thread is on its way to set the enable pin: it has tested the emergency
\* flag, or (in initializeWithPower) does not test it.
Enabling ==
    \/ loc = "calibrate"
    \/ \E t \in Thread : ~Idle(t) /\ Head(todo[t]).f \in {"pwm", "pin"}

Undisturbed == Settled /\ power /\ ~emergency

Call(t, steps) ==
    /\ Idle(t) /\ Scheduled(t)
    /\ todo' = [todo EXCEPT ![t] = steps]
    /\ UNCHANGED <<machine, ready, flags, counters, enablePin, chip, power, suspended, loc, pace>>

\* The axis' usbResume, usbSuspend and emergencyStop.
UsbResume ==
    /\ "usb" \in Events
    /\ Undisturbed \/ (pace = "unpowered" /\ Settled /\ ~power)
    /\ Call("usb", StartMotor)

UsbSuspend == "usb" \in Events /\ Undisturbed /\ Call("usb", TurnTo(FALSE) \o StopMotor)

PressButton ==
    /\ "button" \in Events
    /\ Undisturbed \/ (pace = "press" /\ ~emergency /\ ~Enabling)
    /\ Call("exti", TurnTo(FALSE) \o EmergencyStop(FALSE))

ReleaseButton ==
    /\ "button" \in Events
    /\ Settled /\ emergency
    /\ Call("exti", TurnTo(FALSE) \o EmergencyStop(TRUE))

\* The force feedback loop, at any time.
UpdateTorque(v) == "turn" \in Events /\ Call("ffb", TurnTo(v))

SwitchPower ==
    /\ "power" \in Events
    /\ Undisturbed \/ (Settled /\ ~power)
    /\ power' = ~power
    /\ UNCHANGED <<machine, ready, flags, counters, enablePin, chip, suspended, loc, pace, todo>>

Next ==
    \/ \E t \in Thread : Steps(t)
    \/ ThreadStep
    \/ UsbResume \/ UsbSuspend \/ PressButton \/ ReleaseButton \/ SwitchPower
    \/ \E v \in BOOLEAN : UpdateTorque(v)

Spec == Init /\ [][Next]_vars

\* The threads of higher priority sleep between their calls, and then the
\* scheduler runs the driver's.
Fairness == SF_vars(ThreadStep) /\ \A t \in Thread : SF_vars(Steps(t))

FairSpec == Spec /\ Fairness
-----------------------------------------------------------------------------
(* Properties                                                              *)

Quiet == \A t \in Thread : Idle(t)

Driven == power /\ enablePin /\ foc /\ mode = "torque" /\ torque

\* In an emergency the power stage is disabled.
EmergencyMeansDisabled == Quiet /\ emergency => ~enablePin

\* A motor nobody wants to run produces no torque, if calls are settled:
\* stopMotor acts on the chip in two of the states only.
StoppedMeansNoTorque ==
    Quiet /\ pace = "settled" /\ ~motorEnabledRequested /\ state \notin {"OverTemp", "HardError"}
        => ~Driven

\* A driver that gave up produces no torque.
HardErrorMeansNoTorque == Quiet /\ state = "HardError" => ~Driven

\* A motor that is wanted, supplied and not stopped runs in the end, unless
\* the driver gave up.
RunsOnceWanted ==
    <>[](power /\ motorEnabledRequested /\ ~emergency /\ state # "HardError")
        => <>[]motorReady

\* So it is after any sequence of disturbances, each over before the next.
RunsAgain == pace = "settled" => RunsOnceWanted
=============================================================================
