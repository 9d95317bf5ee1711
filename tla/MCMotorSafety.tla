-------------------------- MODULE MCMotorSafety --------------------------
(* Small instances of MotorSafety for TLC. *)
EXTENDS MotorSafety

With(axes, what) == [axes |-> axes, events |-> what]

\* Two axes and the button; the button with all that starts motors; the host
\* alone; a TMC4671 on another axis, with which all calls interleave, and the
\* reset command.
MCScenarios ==
    {With(2, {"button", "bounds", "drvtype"}),
     With(1, {"button", "usb", "drvtype", "bounds", "clearErrors"}),
     With(1, {"usb", "bounds"}),
     With(1, {"estopCommand", "criticalError", "usb"})}

CriticalScenario == {With(1, {"criticalError", "usb"})}
=============================================================================
