----------------------------- MODULE MotorSafety -----------------------------
(***************************************************************************)
(* Who may drive the motors: the emergency stop, the USB connection, error *)
(* callbacks and driver changes against the force feedback loop            *)
(* (FFBHIDMain.cpp, AxesManager.cpp, Axis.cpp, MotorDriver.cpp and the     *)
(* driver MotorPWM.cpp, with the emergencyStop all drivers but one have).  *)
(*                                                                         *)
(* Each thread, and the interrupt of the button, runs the rest of its call *)
(* as a list of elementary steps, each of which reads or writes one shared *)
(* variable.  A call of a thread of higher priority preempts between any   *)
(* two of them and runs to its end first.  Torque is abstracted to zero or *)
(* not.  Critical errors come from the thread of a TMC4671 on one more     *)
(* axis; the calls that reach it wait for SPI transfers, so with such an   *)
(* axis all threads interleave.                                            *)
(***************************************************************************)
EXTENDS Naturals, Sequences, SequencesExt

CONSTANTS
    NAxes,      \* the most axes with such a driver
    Scenarios   \* axes, and events that may happen together: see Scenario

KnownEvents == {
    "button",           \* the emergency stop button is pressed and released
    "estopCommand",     \* the command main.estop
    "usb",              \* the host connects, suspends, resumes and unplugs
    "drvtype",          \* the command axis.drvtype makes a new driver
    "bounds",           \* an axis is turned far out of its range and back
    "clearErrors",      \* the command sys.errorsclr
    "criticalError",    \* the thread of a TMC4671 raises a critical error
    "insideTurn"}       \* preemption between the two accesses of MotorPWM::turn

Scenario == [axes : 1..NAxes, events : SUBSET KnownEvents]

ASSUME AxesAssumption == NAxes \in Nat \ {0} /\ Scenarios \subseteq Scenario

\* In the order of their priorities: the EXTI interrupt, the USB thread (40),
\* the command thread (32), FFBMAIN (30) and the TMC4671's thread (25).
Threads == <<"exti", "usb", "cmd", "ffb", "drv">>
Thread == {"exti", "usb", "cmd", "ffb", "drv"}

VARIABLES
    emergency,      \* control.emergency
    usbDisabled,    \* control.usb_disabled
    active,         \* MotorPWM::active
    torque,         \* the torque the driver was last told is not zero
    outOfBounds,    \* Axis::outOfBounds
    errors,         \* the stored errors that matter here
    recent,         \* HAL_GetTick() - lastEstop <= 1000
    pressed,        \* the button (low active)
    edge,           \* its interrupt is pending
    far,            \* the axis is turned more than its whole range away
    host,           \* the USB connection
    todo,           \* the steps each thread has still to do
    latched,        \* history: the stop was triggered by the button and nothing reset it
    restarted,      \* history: the axes whose motor was started in this emergency
    scenario        \* how many axes there are, and what may happen

Axes == 1..scenario.axes
events == scenario.events

control == <<emergency, usbDisabled>>
motors == <<active, torque, outOfBounds>>
outside == <<pressed, edge, far, host>>
vars == <<emergency, usbDisabled, active, torque, outOfBounds, errors, recent,
          pressed, edge, far, host, todo, latched, restarted, scenario>>

\* outOfBoundsError (a warning), a critical error like encoderAlignmentFailed.
Error == {"outOfBounds", "critical"}
Host == {"absent", "connected", "mounted", "suspended"}

StepNames == {"flag", "turn", "set", "drive", "prepare", "range", "gate", "update",
              "boot", "stamp", "addError", "forget", "inBounds", "clearAxis", "unlatch"}
Step == [f : StepNames, a : Axes \union {0}, v : BOOLEAN]

TypeOK ==
    /\ scenario \in Scenarios
    /\ {emergency, usbDisabled, recent, pressed, edge, latched} \subseteq BOOLEAN
    /\ {active, torque, outOfBounds, far} \subseteq [Axes -> BOOLEAN]
    /\ errors \subseteq Error
    /\ host \in Host /\ restarted \subseteq Axes
    /\ DOMAIN todo = Thread /\ \A t \in Thread : todo[t] \in Seq(Step)
-----------------------------------------------------------------------------
(* The calls, as lists of steps                                            *)

Do(f, a, v) == <<[f |-> f, a |-> a, v |-> v]>>
Flag(v) == Do("flag", 0, v)
Turn(a, v) == Do("turn", a, v)
OnEachAxis(call(_)) == FlattenSeq([a \in Axes |-> call(a)])

StartMotor(a) == Do("drive", a, TRUE) \o Turn(a, FALSE)

\* A wrong variant of StopMotor: zero torque, but the motor stays on.
StopMotorTurn(a) == Turn(a, FALSE)

StopMotor(a) == Turn(a, FALSE) \o Do("drive", a, FALSE)

\* MotorDriver::emergencyStop
MotorEmergencyStop(a, reset) == IF reset THEN StartMotor(a) ELSE StopMotor(a)

AxisEmergencyStop(a, reset) ==
    Turn(a, FALSE) \o MotorEmergencyStop(a, reset) \o Flag(~reset)

\* FFBHIDMain::emergencyStop
EmergencyStop(reset) ==
    LET stop(a) == AxisEmergencyStop(a, reset)
    IN  Flag(~reset) \o OnEachAxis(stop)

\* A wrong variant of SuspendAxes: zero torque, but the motors stay on.
SuspendAxesTurn == LET suspend(a) == Turn(a, FALSE) IN OnEachAxis(suspend)

\* FFBHIDMain::usbSuspend and usbResume, from their axes_manager calls on.
SuspendAxes == LET suspend(a) == Turn(a, FALSE) \o StopMotor(a) IN OnEachAxis(suspend)
ResumeAxes == OnEachAxis(StartMotor)

\* FFBHIDMain::updateControl
Loop == LET prepare(a) == Do("prepare", a, TRUE) IN OnEachAxis(prepare) \o Do("gate", 0, TRUE)

\* ErrorHandler::clearAll: the callbacks of the axes, then the list is emptied.
ClearAll == LET clear(a) == Do("clearAxis", a, TRUE) IN OnEachAxis(clear) \o Do("forget", 0, TRUE)

\* FFBHIDMain::errorCallback of a new critical error.
RaisedCritical == EmergencyStop(TRUE)
-----------------------------------------------------------------------------
Init ==
    /\ scenario \in Scenarios
    /\ emergency = FALSE /\ usbDisabled = FALSE
    /\ active = [a \in Axes |-> FALSE] 
    /\ torque = [a \in Axes |-> FALSE] /\ outOfBounds = [a \in Axes |-> FALSE]
    /\ errors = {} /\ recent = TRUE
    /\ pressed \in (IF "button" \in events THEN BOOLEAN ELSE {FALSE})
    /\ edge = FALSE /\ far = [a \in Axes |-> FALSE]
    /\ host = "absent" /\ latched = FALSE /\ restarted = {}
    /\ todo = [t \in Thread |-> IF t = "ffb" THEN Do("boot", 0, TRUE) ELSE <<>>]

Idle(t) == todo[t] = <<>>

\* MotorPWM::turn has read active and is about to write the timer.
InsideTurn == ~Idle("ffb") /\ Head(todo["ffb"]).f = "set"

\* The scheduler lets t take a step.
Scheduled(t) ==
    /\ t # "exti" => Idle("exti")
    /\ \A i, j \in DOMAIN Threads :
            i < j /\ Threads[j] = t => Idle(Threads[i]) \/ "criticalError" \in events
    /\ InsideTurn /\ t # "ffb" => "insideTurn" \in events

Begin(t, steps) ==
    /\ Idle(t) /\ Scheduled(t)
    /\ todo' = [todo EXCEPT ![t] = steps]

\* The next step of thread t is an f, and t may take it.
At(t, f) == ~Idle(t) /\ Head(todo[t]).f = f /\ Scheduled(t)

\* It takes the step, which puts others before the rest.
Take(t, f, steps) ==
    /\ At(t, f)
    /\ todo' = [todo EXCEPT ![t] = steps \o Tail(@)]

Axis(t) == Head(todo[t]).a
Value(t) == Head(todo[t]).v
-----------------------------------------------------------------------------
(* Elementary steps of any thread                                          *)

SetFlag(t) ==
    /\ Take(t, "flag", <<>>)
    /\ emergency' = Value(t)
    /\ UNCHANGED <<usbDisabled, motors, errors, recent, outside, latched>>

\* MotorPWM::turn does nothing unless the motor is active.
TurnMotor(t) ==
    /\ Take(t, "turn", IF active[Axis(t)] THEN Do("set", Axis(t), Value(t)) ELSE <<>>)
    /\ UNCHANGED <<control, motors, errors, recent, outside, latched>>

SetTorque(t) ==
    /\ Take(t, "set", <<>>)
    /\ torque' = [torque EXCEPT ![Axis(t)] = Value(t)]
    /\ UNCHANGED <<control, active, outOfBounds, errors, recent, outside, latched>>

\* startMotor and stopMotor set the flag.
Drive(t) ==
    /\ Take(t, "drive", <<>>)
    /\ active' = [active EXCEPT ![Axis(t)] = Value(t)]
    /\ UNCHANGED <<control, torque, outOfBounds, errors, recent, outside, latched>>
-----------------------------------------------------------------------------
(* The force feedback loop                                                 *)

\* FFBHIDMain::Run reads the button before it starts the loop.
Boot ==
    /\ Take("ffb", "boot", IF pressed THEN EmergencyStop(FALSE) \o Do("stamp", 0, TRUE) ELSE <<>>)
    /\ latched' = pressed
    /\ UNCHANGED <<control, motors, errors, recent, outside>>

Stamp ==
    /\ Take("ffb", "stamp", <<>>)
    /\ recent' = TRUE
    /\ UNCHANGED <<control, motors, errors, outside, latched>>

\* The timer notifies the thread.
UpdateControl ==
    /\ Begin("ffb", Loop)
    /\ UNCHANGED <<control, motors, errors, recent, outside, latched>>

\* Axis::prepareForUpdate: way off, shut down; inside the range again; or
\* between the two limits.
PrepareForUpdate ==
    LET a == Axis("ffb") IN
    \/ /\ far[a]
       /\ Take("ffb", "prepare", StopMotor(a) \o Do("range", a, TRUE))
       /\ UNCHANGED outOfBounds
    \/ /\ ~far[a]
       /\ Take("ffb", "prepare", <<>>)
       /\ outOfBounds' \in {[outOfBounds EXCEPT ![a] = FALSE], outOfBounds}

Prepare ==
    /\ At("ffb", "prepare") /\ PrepareForUpdate
    /\ UNCHANGED <<control, active, torque, errors, recent, outside, latched>>

LeaveRange ==
    /\ Take("ffb", "range",
            IF outOfBounds[Axis("ffb")] THEN <<>> ELSE Do("addError", 0, FALSE))
    /\ outOfBounds' = [outOfBounds EXCEPT ![Axis("ffb")] = TRUE]
    /\ UNCHANGED <<control, active, torque, errors, recent, outside, latched>>

\* No torque update in emergency.
Gate ==
    LET update(a) == Do("update", a, TRUE) IN
    /\ Take("ffb", "gate", IF emergency THEN <<>> ELSE OnEachAxis(update))
    /\ UNCHANGED <<control, motors, errors, recent, outside, latched>>

\* A wrong variant of UpdateDriveTorque: torque out of bounds as well.
UpdateDriveTorqueAnywhere ==
    /\ At("ffb", "update")
    /\ \/ Take("ffb", "update", <<>>)
       \/ \E v \in BOOLEAN : Take("ffb", "update", Turn(Axis("ffb"), v))
    /\ UNCHANGED <<control, motors, errors, recent, outside, latched>>

\* Axis::updateDriveTorque: any torque, none out of bounds; unchanged torque
\* is not sent again.
UpdateDriveTorque ==
    LET a == Axis("ffb") IN
    /\ At("ffb", "update")
    /\ \/ Take("ffb", "update", <<>>)
       \/ \E v \in IF outOfBounds[a] THEN {FALSE} ELSE BOOLEAN :
             Take("ffb", "update", Turn(a, v))
    /\ UNCHANGED <<control, motors, errors, recent, outside, latched>>
-----------------------------------------------------------------------------
(* The emergency stop button and the commands                              *)

PushButton ==
    /\ "button" \in events
    /\ pressed' = ~pressed /\ edge' = TRUE
    /\ UNCHANGED <<control, motors, errors, recent, far, host, todo, latched>>

\* A wrong variant of Exti: without the comparison with control.emergency.
ExtiToggle ==
    /\ edge /\ edge' = FALSE
    /\ Begin("exti", IF recent THEN <<>> ELSE EmergencyStop(emergency))
    /\ recent' = TRUE
    /\ latched' = IF recent THEN latched ELSE pressed
    /\ UNCHANGED <<control, motors, errors, pressed, far, host>>

\* FFBHIDMain::exti
Exti ==
    /\ edge /\ edge' = FALSE
    /\ IF ~recent /\ pressed # emergency
       THEN /\ Begin("exti", EmergencyStop(~pressed))
            /\ recent' = TRUE /\ latched' = pressed
       ELSE /\ Begin("exti", <<>>)
            /\ UNCHANGED <<recent, latched>>
    /\ UNCHANGED <<control, motors, errors, pressed, far, host>>

\* More than a second has passed since the last accepted edge.
SecondPasses ==
    /\ recent /\ recent' = FALSE
    /\ UNCHANGED <<control, motors, errors, outside, todo, latched>>

\* The command main.estop.
EstopCommand(on) ==
    /\ "estopCommand" \in events
    /\ Begin("cmd", (IF on THEN <<>> ELSE Do("unlatch", 0, TRUE)) \o EmergencyStop(~on))
    /\ UNCHANGED <<control, motors, errors, recent, outside, latched>>

Unlatch ==
    /\ Take("cmd", "unlatch", <<>>)
    /\ latched' = FALSE
    /\ UNCHANGED <<control, motors, errors, recent, outside>>

\* Axis::setDrvType, one critical section: the new driver starts if a host is
\* connected, and is suspended otherwise.
SetDrvType(a) ==
    /\ "drvtype" \in events
    /\ Begin("cmd", <<>>)
    /\ active' = [active EXCEPT ![a] = host # "absent"]
    /\ torque' = [torque EXCEPT ![a] = FALSE]
    /\ usbDisabled' = (usbDisabled /\ host # "absent")
    /\ UNCHANGED <<emergency, outOfBounds, errors, recent, outside, latched>>
-----------------------------------------------------------------------------
(* Errors                                                                  *)

\* Turning the wheel by hand.
TurnAxis(a) ==
    /\ "bounds" \in events
    /\ far' = [far EXCEPT ![a] = ~@]
    /\ UNCHANGED <<control, motors, errors, recent, pressed, edge, host, todo, latched>>

\* The thread of a TMC4671 finds, say, that the encoder does not move.
CriticalError ==
    /\ "criticalError" \in events
    /\ Begin("drv", Do("addError", 0, TRUE))
    /\ UNCHANGED <<control, motors, errors, recent, outside, latched>>

\* ErrorHandler::addError: an error that is stored already is not reported
\* again.  The value of the step tells a critical error from a warning.
AddError(t) ==
    LET e == IF Value(t) THEN "critical" ELSE "outOfBounds" IN
    /\ Take(t, "addError",
            IF e \notin errors /\ e = "critical" THEN RaisedCritical ELSE <<>>)
    /\ errors' = errors \union {e}
    /\ UNCHANGED <<control, motors, recent, outside, latched>>

\* The command sys.errorsclr.
ClearErrors ==
    /\ "clearErrors" \in events
    /\ Begin("cmd", ClearAll)
    /\ UNCHANGED <<control, motors, errors, recent, outside, latched>>

\* Axis::errorCallback with cleared set starts the motor again.
ClearAxis ==
    /\ Take("cmd", "clearAxis",
            IF "outOfBounds" \in errors
            THEN StartMotor(Axis("cmd")) \o Do("inBounds", Axis("cmd"), TRUE) ELSE <<>>)
    /\ UNCHANGED <<control, motors, errors, recent, outside, latched>>

InBounds ==
    /\ Take("cmd", "inBounds", <<>>)
    /\ outOfBounds' = [outOfBounds EXCEPT ![Axis("cmd")] = FALSE]
    /\ UNCHANGED <<control, active, torque, errors, recent, outside, latched>>

\* A wrong variant of Forget: an emptied entry stays in the list.
ForgetEntries ==
    /\ Take("cmd", "forget", <<>>)
    /\ errors' = {"none"}
    /\ UNCHANGED <<control, motors, recent, outside, latched>>

Forget ==
    /\ Take("cmd", "forget", <<>>)
    /\ errors' = {}
    /\ UNCHANGED <<control, motors, recent, outside, latched>>
-----------------------------------------------------------------------------
(* USB                                                                     *)

\* FFBHIDMain::usbSuspend, by tud_suspend_cb and tud_umount_cb.
UsbSuspend(to) ==
    /\ "usb" \in events
    /\ host \in {"connected", "mounted", "suspended"} /\ host' = to
    /\ to = "suspended" => host = "mounted"
    /\ Begin("usb", IF usbDisabled THEN <<>> ELSE SuspendAxes)
    /\ usbDisabled' = TRUE
    /\ UNCHANGED <<emergency, motors, errors, recent, pressed, edge, far, latched>>

\* tud_connected() becomes true before the host configures the device.
Connect ==
    /\ "usb" \in events
    /\ host = "absent" /\ host' = "connected"
    /\ UNCHANGED <<control, motors, errors, recent, pressed, edge, far, todo, latched>>

\* A wrong variant of UsbResume: only the flags are restored.
UsbResumeFlags ==
    /\ host \in {"connected", "suspended"} /\ host' = "mounted"
    /\ Begin("usb", <<>>)
    /\ emergency' = (emergency /\ pressed)
    /\ latched' = (latched /\ pressed)
    /\ usbDisabled' = FALSE
    /\ UNCHANGED <<motors, errors, recent, pressed, edge, far>>

\* FFBHIDMain::usbResume, by tud_mount_cb and tud_resume_cb.  Its test of the flag
\* and the button is one step with what it writes.
UsbResume ==
    /\ host \in {"connected", "suspended"} /\ host' = "mounted"
    /\ Begin("usb", ResumeAxes)
    /\ emergency' = (emergency /\ pressed)
    /\ latched' = (latched /\ pressed)
    /\ usbDisabled' = FALSE
    /\ UNCHANGED <<motors, errors, recent, pressed, edge, far>>
-----------------------------------------------------------------------------
Steps(t) == SetFlag(t) \/ TurnMotor(t) \/ SetTorque(t) \/ Drive(t) \/ AddError(t)

\* What the threads, the interrupt, the host and the user do.
Act ==
    \/ \E t \in Thread : Steps(t)
    \/ Boot \/ Stamp \/ UpdateControl \/ Prepare \/ LeaveRange \/ Gate \/ UpdateDriveTorque
    \/ PushButton \/ Exti \/ SecondPasses \/ Unlatch
    \/ \E on \in BOOLEAN : EstopCommand(on)
    \/ \E a \in Axes : SetDrvType(a) \/ TurnAxis(a)
    \/ CriticalError \/ ClearErrors \/ ClearAxis \/ InBounds \/ Forget
    \/ \E to \in {"absent", "suspended"} : UsbSuspend(to)
    \/ Connect \/ UsbResume

\* An emergency that has just begun has no motor restarted yet.
NoteRestarts ==
    restarted' = IF emergency /\ emergency'
                 THEN restarted \union {a \in Axes : ~active[a] /\ active'[a]} ELSE {}

Next == UNCHANGED scenario /\ Act /\ NoteRestarts

Spec == Init /\ [][Next]_vars
-----------------------------------------------------------------------------
(* Properties                                                              *)

\* No call is running and no interrupt is pending.
Quiet == ~edge /\ \A t \in Thread : Idle(t)

\* Nothing but these events may happen.
Only(those) == events \subseteq those

\* The motor of axis a produces torque.
Driven(a) == torque[a]

\* A stop reaches every motor, whatever it interrupts: in an emergency a motor has
\* torque only if a call has started it again in that emergency.  The force feedback
\* loop may be anywhere between reading the flag and writing to the driver, and USB
\* callbacks and commands anywhere within calls that start motors.  Axis::setDrvType
\* is such a call: it starts the new driver although the emergency lasts.
EmergencyMeansNoTorque ==
    Only(KnownEvents \ {"estopCommand", "criticalError", "insideTurn"}) =>
        (Quiet /\ emergency => \A a \in Axes \ restarted : ~Driven(a))

\* A stop triggered by the button lasts until the button is released or the
\* host reconnects with the button released; no other call that runs at the
\* same time takes it back.
ButtonStopHolds ==
    Only(KnownEvents \ {"estopCommand", "criticalError"}) => (Quiet /\ latched => emergency)

\* An axis that was shut down because it is way off its range produces no
\* torque, whatever starts motors in between.
OutOfBoundsMeansNoTorque == Quiet => \A a \in Axes : outOfBounds[a] => ~Driven(a)

\* Without a host, or while it is suspended, no motor produces torque.
NoHostNoTorque ==
    Only({"usb", "bounds"}) =>
        (Quiet /\ host \in {"absent", "suspended"} => \A a \in Axes : ~Driven(a))

\* With a host, without an emergency and without the error that shut it down,
\* every motor is enabled: no sequence of stops, resets, reconnections and
\* clears leaves one off for good.
MotorsComeBack ==
    Quiet /\ host = "mounted" /\ ~emergency /\ errors = {} => \A a \in Axes : active[a]

\* A critical error that is not cleared has shut down the motors.
CriticalMeansShutdown == Quiet /\ "critical" \in errors => \A a \in Axes : ~active[a]
=============================================================================
