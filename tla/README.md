# OpenFFBoard: TLA+ models and proofs

OpenFFBoard is the firmware of a force feedback controller board (STM32F4): it is a
USB HID game device with force feedback effects, it reads encoders, buttons and
analog axes, drives one or two motors through one of several motor drivers and
keeps its settings in the flash of the microcontroller. This directory holds TLA+
models of its parts, the TLC configurations that check them on small instances and
TLAPS proofs of what matters most. Paths below are relative to
`src/Firmware/FFBoard/`; `Src/eeprom.c:338` is a file and a line.

Contents:

| file | what it is |
|---|---|
| `PersistentStore.tla` | abstract specification of the configuration memory |
| `EepromEmulation.tla` | `Src/eeprom.c` with its caller `Src/flash_helpers.cpp` |
| `EepromProofs.tla` | proofs about `EepromEmulation`, and that it implements `PersistentStore` |
| `MotorSafety.tla` | who may drive the motors: `FFBHIDMain`, `AxesManager`, `Axis`, `MotorDriver`, `MotorPWM` |
| `MotorProofs.tla` | proofs about `MotorSafety` |
| `TmcDriver.tla`, `TmcProofs.tla` | the state machine of the TMC4671 driver, and proofs about it |
| `ReplyService.tla` | abstract specification of the command interface as a host sees it |
| `CommandSystem.tla` | commands from the bytes received to the replies sent: parser buffer, command thread, CDC, HID |
| `CommandProofs.tla` | proofs about `CommandSystem` |
| `EffectPool.tla`, `EffectProofs.tla` | the force feedback effects of a host, and proofs about them |
| `I2cPort.tla`, `I2cProofs.tla` | the I2C port with its button expanders and analog converter, and proofs about it |
| `SpiEncoder.tla`, `SpiProofs.tla` | three kinds of encoders on an SPI port, and proofs about them |
| `DataFacts.tla` | facts about naturals and sequences that the proofs share |
| `MC*.tla`, `*.cfg` | instances for TLC |
| `PROJECT.json` | components, runs, mutants, source lines of every definition, hazards, theorems |

To check one: `tlc -config EepromPowerLoss.cfg MCEepromEmulation`; to prove:
`tlapm EepromProofs.tla`. `PROJECT.json` names the configuration and the module of each run.

Conventions. Every module takes, besides its sizes, a set of *scenarios* (also called
hosts, events or faults): what the environment may do in one behaviour. A property that does
not hold of the code in every situation is checked for the scenarios in which it does,
and the sections below list those in which it does not. Names follow the source where it
has one. `Wrong variant` in a comment marks a definition nothing uses: a plausible mistake
in the code, by which the properties were tested.

## 1. The system and its parts

### 1.1 Threads and interrupts

FreeRTOS schedules the threads preemptively by priority; interrupts preempt all of
them. Shared state is rarely protected: most interactions are plain member variables
read and written by several threads, direct method calls into objects another thread
runs, and callbacks.

| context | priority | what runs in it |
|---|---|---|
| interrupts | - | EXTI (emergency stop button), timers, SPI, I2C, UART, CAN and ADC completions |
| `MTENC`, `BISSENC` | 42 | SPI encoder readers |
| USB | 40 | tinyusb: mount, suspend, resume, HID reports and CDC data of the host |
| CDC and UART command threads | 37, 36 | serialise replies, parse input |
| command thread | 32 | executes queued commands |
| TMC external encoder | 33 | feeds an external encoder position to the chip |
| `FFBMAIN` | 30 | the force feedback loop |
| motor driver threads (TMC4671, ODrive, VESC, RMD), ADS111X | 25 | driver state machines |
| PCF8574 buttons, error printer, HID commands | 20, 19, 18 | background |

### 1.2 Inventory

For each part: the state it keeps, its operations, who it talks to, what is hard
about it and what makes it correct.

**EEPROM emulation** (`Src/eeprom.c`, `Src/flash_helpers.cpp`). State: two flash
sectors ("pages"), each a header halfword (ERASED, RECEIVE_DATA, VALID_PAGE) and a log
of (data, address) pairs. Operations: `EE_Init`, `EE_ReadVariable`,
`EE_WriteVariable`, page transfer, `EE_Format`, wrapped by `Flash_Init`, `Flash_Read`,
`Flash_Write`, `Flash_Format`. Called at boot, by the command thread on save, and by
the TMC4671's thread after a calibration. Hard: power loss between any two flash
operations of a transfer or of a recovery; a page that runs full; failing program
operations; callers that are not serialised. Correct if acknowledged values stay
readable, each write is atomic, every start ends with one valid and one blank page, and
nothing but a format loses values.

**Persistent storage handlers, boot** (`Src/PersistentStorage.cpp`, `Src/cppmain.cpp`).
Handlers register themselves and have their saved settings restored at start. Correct
if every handler is restored once, after the memory is ready.

**FFB main class** (`UserExtensions/Src/FFBHIDMain.cpp` and `_commmands.cpp`). State:
`control` (`emergency`, `usb_disabled`, update flags), `lastEstop`. Operations:
`emergencyStop(reset)`, `usbSuspend`, `usbResume`, `exti` (button, with debounce),
`errorCallback`, the control loop `Run`/`updateControl`, commands. Hard: all of these
run in different threads or in an interrupt and reach the same axes and drivers, and
each takes many steps. Correct if no motor produces torque in an emergency or
without a host, and if motors come back when the cause is gone.

**Axes** (`Src/Axis.cpp`, `Src/AxesManager.cpp`). State: driver, encoder, `outOfBounds`,
torques, limits, fade-in. Operations: prepare, update of the drive torque, driver
change (`setDrvType`), stop, suspend, resume, error callback. Correct if an axis that
left its range gives no torque until it is back or its error is cleared, and its
force arithmetic saturates.

**Motor drivers** (`Src/MotorDriver.cpp`, `UserExtensions/Src/MotorPWM.cpp`, `TMC4671.cpp`,
`ODriveCAN.cpp`, `VescCAN.cpp`, `RmdMotorCAN.cpp`, `MotorSimplemotion.cpp`). `startMotor`,
`stopMotor`, `turn`, `emergencyStop`, `motorReady`. The PWM driver is a flag and a
timer. The TMC4671 has a thread with a state machine over the motor supply, sensor
calibration, encoder alignment and supervision, and receives the calls from all other
threads. The CAN drivers wait for heartbeats and have timeouts. Correct if a
stopped driver gives no torque, a wanted one runs in the end, and a fault
disables the power stage.

**Error handler** (`Src/ErrorHandler.cpp`). A list of 16 errors, callbacks to all
handlers on new and cleared errors, and a thread that prints them. Hard:
several threads add and clear without a lock; callbacks start and stop motors.
Correct if an active error is reported until it is cleared and each is printed.

**Ports** (`Src/SPI.cpp`, `Src/I2C.cpp`, `Src/UART.cpp`, `Src/CANPort2B.cpp`). Each has a
semaphore or a taken flag, a current device, and completion interrupts that find it.
Hard: the order of taking the semaphore and setting the device, completions after a
timeout, errors, one flag for two directions, mailboxes running full. Correct if a
completion reaches the device that started it, a device holds the port alone, and
the port is free again in the end.

**Encoders** (`UserExtensions/Src/MtEncoderSPI.cpp`, `EncoderBissC.cpp`, `EncoderSSI.cpp`,
`EncoderLocal.cpp`). A request semaphore from the control loop, a thread that reads,
rotation counting over wrapping angles. Correct if the position changes by the angle
turned and a missing answer does not stop the loop.

**Command system** (`Src/CmdParser.cpp`, `CommandInterface.cpp`, `CommandHandler.cpp`,
`FFBoardMainCommandThread.cpp`, `HidCommandInterface.cpp`, `SystemCommands.cpp`,
`CDCcomm.cpp`). Bytes from USB CDC, UART or HID go through a ring buffer and a parser into
a queue that the command thread empties; replies go back through buffers. Correct if
every command is executed once and its reply is sent once to the interface it came from.

**HID force feedback** (`Src/HidFFB.cpp`, `EffectsCalculator.cpp`). A pool of 40 effects
that the host allocates, sets, starts, stops and frees; the calculator sums them per
axis. Correct if a block index belongs to one effect and the pool size reported is
the one there is.

**Inputs** (`LocalButtons`, `SPIButtons`, `PCF8574`, `CanButtons`, `LocalAnalog`,
`CanAnalog`, `ADS111X`, `ShifterAnalog`). They copy inputs into the HID report; PCF8574
and ADS111X wait for the I2C port in threads of their own.

**Other main classes** (`CanBridge`, `CanInputMain`, `MidiMain`, `TMCDebugBridge`,
`SerialFFB`, ...) replace the FFB main class and forward messages.

**Numeric and visual parts** (`Filters.cpp`, force formulas, `voltagesense.cpp`, LED
effects, descriptors) and vendored code (HAL, FreeRTOS, tinyusb, CMSIS).

### 1.3 Interactions that matter

- The button's interrupt, USB callbacks, commands and error callbacks all end in
  `AxesManager`'s loops over the axes, which call `turn`, `startMotor`, `stopMotor` and
  `emergencyStop` of the driver, while `FFBMAIN` is anywhere between reading
  `control.emergency` and writing a torque.
- A driver's thread raises errors; `ErrorHandler` calls back into `FFBHIDMain` and `Axis`,
  which call into the drivers, in the thread that raised the error.
- `emergencyStop(true)` of the TMC4671 resumes a thread that suspended itself.
- The settings of every part go through `Flash_Read` and `Flash_Write` to one log.

## 2. Configuration memory: `PersistentStore`, `EepromEmulation`

### Model

`PersistentStore` is what the rest of the firmware relies on: a map from addresses to
values and at most one write in progress, which is committed or abandoned. Nothing but
`Format` drops a value.

`EepromEmulation` is `eeprom.c` step by step. A step is one flash operation (program a
halfword or erase a sector) with the reads and tests before it, so a power loss between
two steps leaves in `hdr` and `slot` just what the chip would hold.

| TLA+ | code |
|---|---|
| `hdr[p]`, `slot[p][i]` | header halfword and the i-th pair of page p |
| `pc`, `job`, `new`, `idx`, `at` | position and local variables of the running call |
| `acked`, `retries` | history: values acknowledged by `Flash_Write`; power losses since a start completed |
| `PowerOn`, `InitDispatch`, `Repair`, `Tidy` | `EE_Init` and its switch over both headers |
| `ReadPage`, `WritePage`, `Latest`, `Read` | `EE_FindValidPage`, `EE_ReadVariable` (search from the end) |
| `FlashWrite`, `WriteData`, `WriteAddress`, `WritePageFull` | `Flash_Write`, `EE_WriteVariable`, `EE_VerifyPageFullWriteVariable` |
| `BeginTransfer`, `FirstData`, `FirstAddress`, `EraseOld`, `MarkLast` | `EE_PageTransfer` |
| `CopySkip`, `CopyData`, `CopyAddress`, `CopyDone`, `CopyPageFull` | the copy loops of `EE_PageTransfer` and `EE_Init` |
| `FlashFormat`, `Wipe`, `Mark` | `Flash_Format`, `EE_Format` |
| `ProgramFailure`, `PowerLoss` | the chip and the supply |

Two oddities of the code are kept because they matter: `EE_VerifyPageFullyErased` compares
addresses of either page with the end of page 0 (`Src/eeprom.c:338`), so page 1 always
counts as erased; and a recovery marks the new page valid before it erases the old one
(lines 286 and 298) while a transfer does it in the other order.

### Situations the code does not survive

The constant `Faults` switches on four situations; with none of them the properties
hold, and each one alone breaks them:

- `lossInReturnTransfer`: power is lost while page 0 receives from page 1. The recovery
  does not erase page 1 and ends with two valid pages (run `eeprom_return_transfer_loss`).
- `lossInRecovery`: power is lost after a recovery marked the new page and before it
  erased the old one: the next start formats the memory (`Src/eeprom.c:286`, 298; TLC finds
  `AckedReadable` violated with this fault).
- `formatOnPage1`: `Flash_Format` while page 1 is active leaves page 1 valid and full, for
  the same reason as the first one. TLC finds `KnownGood` violated with this fault.
- `programFailure`: `HAL_FLASH_Program` fails (a TODO at `Src/flash_helpers.cpp:16` says that
  it happens). After a failure inside a transfer the receiving page stays in
  RECEIVE_DATA: later writes are acknowledged there and reads still use the valid page.
  TLC finds `AckedReadable` violated with this fault.

### Runs

| run | shows |
|---|---|
| `eeprom_power_loss` | 2 variables, 5 slots, 2 values of which one is 0xFFFF, up to 1 power loss before a start completes: `TypeOK`, `KnownGood`, `AckedReadable`, `RoomSuffices`, the liveness `ReadyAgain` and the refinement `ImplementsStore` |
| `eeprom_failures` | all four faults at once, 1 variable in the table and 1 outside it, 4 slots, up to 2 power losses in a row: `ReadsOwnValues` |
| `eeprom_return_transfer_loss` | violation of `KnownGood`, see above |

`ReadsOwnValues` is what is left when everything may fail: acknowledged values may be lost, but no
variable reads a value that was written to another one, whatever interrupts a pair between its
data and its address. In `MCEepromFailures` the callers give each variable values of its own, so
that a value shows where it belongs; the state graph is explored without the history `acked`
(`VIEW`), which no step depends on. Two losses in a row are the fewest that reach
`lossInRecovery`: one in the transfer, one at the end of its recovery.

Why the bounds of `eeprom_power_loss` are enough: five slots are the fewest that hold two variables, the
value being written, and one interrupted attempt at copying (`RoomAssumption` with
`MaxRetries` = 1), so pages run full after few writes and transfers happen in both
directions; two variables separate the written one from a copied one; the value 0xFFFF
is in `Data` because a slot whose data was programmed as 0xFFFF still looks free. Power
losses after a completed start are unbounded, only those in a row without a completed
start are bounded by `MaxRetries`.

Fairness: weak fairness of `Progress` says that the processor executes the running
call, of `PowerOn` that the board is switched on again. Nothing is assumed of callers
or failures.

### Proofs (`EepromProofs`)

For every page size, table, set of values and number of retries that satisfy the named
assumptions of `EepromEmulation`:

- `TypeCorrect`: `Spec => []TypeOK`, with any `Faults`. `TypeOK` alone is not inductive: a
  step that programs the chosen slot needs `at \in Slots`, one that copies needs
  `idx \in 1..NbOfVar`. `TypeInv` adds these (`ArgInv`). `NextType` has one step per action.
- `OnePageValid`: `Faults = {} => (Spec => []KnownGood)`.
- `TransferFits`: `Faults = {} => (Spec => []RoomSuffices)`.

- `AckedIsReadable`: `Faults = {} /\ Addrs \subseteq Table => (Spec => []AckedReadable)`. The second
  hypothesis is needed: a variable outside the table is lost by the next transfer.
- `PagesAreStore`: `Faults = {} => (Spec => ImplementsStore)`, the refinement of
  `PersistentStore`. A write takes effect in the one step that programs its address halfword,
  a transfer and a recovery take no effect at all, and only the erasure by a format drops values.

The second and third rest on `EepromInv == TypeInv /\ HeaderInv /\ BlankInv /\ RoomInv`:
`HeaderInv` says for each `pc` which of the five header combinations are possible;
`BlankInv` that an erased header stands for a blank page (without it a transfer could
append to old data); `RoomInv` counts the slots of the receiving page, one for the written
variable, the table once per interrupted attempt and the part copied by this one, and
with `RoomAssumption` gives a free slot whenever one is needed. The board has 4095
slots and 164 variables, which covers 23 interrupted starts in a row. `DataFacts` has the
facts about the order of naturals that make a least slot exist.

The last two add `DataInv`: pages fill from their start, so the last pair of an address is the latest
(`FilledInOrder`); the pair in work (`WorkInv`); every pair in the receiving page is a copy of the value
that counts, also one that an interrupted attempt left (`CopiesInv`), and the copy loop has
done the table up to `idx` (`ProgressInv`), so that nothing changes when the new page takes over;
where a running `Flash_Write` has its value (`RequestInv`); and what was acknowledged is what
`Logical` yields, the value a read would return after a recovery from here (`AckedInv`).

Assumptions: distinct table entries that callers may write (`TableAssumption`), 0xFFFF is
no address (`ValueAssumption`), `RoomAssumption`. Only model-checked: `ReadyAgain` (liveness, out
of the prover's reach).

## 3. Motors: `MotorSafety`

### Model

Each thread, and the interrupt of the button, has in `todo` the rest of its current call
as a list of elementary steps; each reads or writes one shared variable. Operators with
the names of the methods build these lists (`EmergencyStop`, `AxisEmergencyStop`,
`StartMotor`, ...), so that the order of writes within a call is the code's. `Scheduled`
is the priority scheduler: a thread takes a step only while those of higher priority
have nothing to do; a call preempts another one between any two of its steps.

| TLA+ | code |
|---|---|
| `emergency`, `usbDisabled` | `control.emergency`, `control.usb_disabled` |
| `active[a]`, `torque[a]` | `MotorPWM::active`; whether the duty it was last given is not zero |
| `outOfBounds[a]`, `errors` | `Axis::outOfBounds`, the error list as a set of the errors that matter |
| `recent` | `HAL_GetTick() - lastEstop` is within the debounce second |
| `pressed`, `edge`, `far`, `host` | the button, its pending interrupt, the wheel out of range, the USB connection |
| `Boot`, `UpdateControl`, `Prepare`, `LeaveRange`, `Gate`, `UpdateDriveTorque` | `FFBHIDMain::Run`, `updateControl`, `Axis::prepareForUpdate`, `updateDriveTorque` |
| `restarted`, `latched` | history: the motors a call has started in the present emergency; a stop by the button that nothing may take back |
| `Exti`, `EstopCommand`, `UsbSuspend`, `UsbResume`, `SetDrvType`, `ClearErrors`, `CriticalError` | the calls of the other threads |

The driver is `MotorPWM` with `MotorDriver::emergencyStop`, which all drivers except the
TMC4671 share. The event `criticalError` stands for the thread of a TMC4671 on another
axis; calls to such a driver wait for SPI transfers in the middle, so with this event the
threads interleave freely. The test of the flag and the button in `usbResume` is one step with
its write (`FFBHIDMain.cpp:321`, 322); the calls it makes are not. Preemption between the two accesses of `MotorPWM::turn` (test of
`active`, timer write) is an event of its own, `insideTurn`, because it breaks
the emergency stop by itself.

### Properties and runs

All properties speak of moments when no call runs and no interrupt is pending (`Quiet`):
what the interleaving of the calls leaves behind. A scenario says how many axes there are and
which events may happen; each property names the events it holds with (`Only`). The
run `motor_stop` checks all of them over four scenarios:

| scenario | about |
|---|---|
| two axes; button, bounds, drvtype | `EmergencyMeansNoTorque`: wherever the loop was preempted, between the axes too |
| one axis; button, usb, drvtype, bounds, clearErrors | `EmergencyMeansNoTorque` with a host, `ButtonStopHolds`, `OutOfBoundsMeansNoTorque`, `MotorsComeBack` |
| one axis; usb, bounds | `NoHostNoTorque` |
| one axis; estopCommand, criticalError, usb; free interleaving | `MotorsComeBack`, `OutOfBoundsMeansNoTorque` |

One axis is enough where axes do not meet; a stop that comes between the updates of two
axes needs two. There is no fairness and no liveness here.

`EmergencyMeansNoTorque` says what the stop does: it turns every motor off, whatever it
interrupts, and a motor has torque in an emergency only if a call has started it again in that
emergency (`restarted`). It holds with all events but `estopCommand`, `criticalError` and `insideTurn`.

It does not say that no motor has torque at all, which is false once a host is connected:
`Axis::setDrvType` looks only at the host before it starts the new driver (`Axis.cpp:426`), as do
`usbResume` and the error callback of an axis (`FFBHIDMain.cpp:327`, `Axis.cpp:357`). A loop that had
passed its test of the flag before the button was pressed then drives the motor, until its next pass.

`motor_critical_error`: `FFBHIDMain::errorCallback` calls `emergencyStop(true)` for a critical
error, and the argument means reset (`FFBHIDMain.cpp:363`), so the motors are started. In
the TMC4671 this has a second effect: pressing the button during an encoder
alignment keeps the motor from moving, `checkEncoder` raises the critical error
`encoderAlignmentFailed`, and its callback takes the emergency stop back.

Further places where a property fails with more events; they are not among the runs,
but adding the event to a scenario (and to the property's `Only`) shows them:

- `insideTurn` with the button (no run has it): the torque write of `MotorPWM::turn` comes after the stop's
  (`MotorPWM.cpp:60`); `EmergencyMeansNoTorque` fails.
- estopCommand with the button: a reset by command that the button interrupts
  goes on and ends with `control.emergency` false (`Axis.cpp:526`); `ButtonStopHolds` fails.
- button, clearErrors, estopCommand or criticalError with usb: releasing the button, clearing
  an error and the reset start motors also while the host is suspended or absent;
  `NoHostNoTorque` fails.
- drvtype with usb: `setDrvType` starts the new driver while the host is suspended, and the
  following unplug is ignored because `usb_disabled` is still set (`Axis.cpp:426`,
  `FFBHIDMain.cpp:308`); `NoHostNoTorque` fails.
- A button pressed within a second after the last accepted edge and then held is never
  looked at again (`FFBHIDMain.cpp:343`).

### Proofs (`MotorProofs`)

For any number of axes and every set of scenarios; the hypotheses on events are those of
the properties (`Only`) or the ones named here:

- `MotorTypes`: `Spec => []TypeOK`. A call is a list of steps of arbitrary length (one group per
  axis, built with the library's `FlattenSeq`). `ChainInv` says that whatever is left of it is
  such a list; the recursion inside `FlattenSeq` is met by a least-element argument.
- `StopByButtonHolds`: `Spec => []ButtonStopHolds`, with all events but the property's exceptions
  (`estopCommand`, `criticalError`). `LatchInv`: while the stop counts as latched, the interrupt has
  only steps of a stop left, and no other thread has one that lowers the flag without looking
  at the button. It needs `ShapeInv`: which thread can have which steps at all.
- `OutsideNoTorque`: `Spec => [](Serial => OutOfBoundsMeansNoTorque)`, where `Serial` excludes
  `criticalError` and `insideTurn`. `DriveInv`: torque is only on an active motor, is zero before a
  list reaches `active := false` or the record of the axis, and the loop does not carry a torque
  for an axis that is out of bounds. With `criticalError` (free interleaving) the property is
  only model-checked.
- `EmergencyNoTorque`: `Spec => []EmergencyMeansNoTorque`. `EmergencyInv`: as long as the interrupt's
  call runs, it still has the step that turns off each motor that is on and not `restarted`; when it
  is through, these are off and stay off under a loop that read the flag before (`Hot`).
- `HostlessNoTorque`: `Spec => []NoHostNoTorque`, by the same argument for the USB callback (`HostInv`).
- `MotorsEnabled`: `Spec => [](Only(...) => MotorsComeBack)` without `estopCommand` and `criticalError`.
  `BackInv` gives for every motor that is off a reason: no host, an emergency, a
  call that has still to start it, or an error (`Reason`), and for every axis that is
  marked the error by which it is found again (`Mark`). With `criticalError` the property is
  model-checked only.

## 4. TMC4671: `TmcDriver`

### Model

The same technique: `todo` holds the rest of each thread's call, now with one step per
register access, since each is a polled SPI transfer in which a thread of higher priority
can run. The driver's own thread has a place in its loop (`loc`) and runs calls of its own
methods like everyone else.

| TLA+ | code |
|---|---|
| `state`, `requestedState`, `allowStateChange` | the state machine; `Request` and `Force` are `changeState` without and with force |
| `initialized`, `powerInitialized`, `encoderAligned`, `powerCheckCounter`, `enc_retry`, `emergency`, `motorEnabledRequested` | members of that name |
| `enablePin`, `foc`, `mode`, `torque` | the enable pin and the chip: PWM mode, motion mode, last torque not zero |
| `power`, `suspended` | supply in range; the thread suspended itself |
| `Top` ... `Suspend` | the pass of `TMC4671::Run` through its switch |
| `Want`, `StartIfPowered`, ...; `Unwant`, ... | `startMotor`; `stopMotor` |
| `Stop`, `Clear`, `ResumeThread` | `emergencyStop` |
| `Turn`, `SetTorque` | `turn`, `setFluxTorque` |

`sensor calibration succeeds` and `the chip answers` are assumed; motor and encoder types are
fixed to ones that need alignment. The interrupt finds its SPI port free (in the code,
`takeSemaphore` inside an interrupt does not wait). The alignment (`TMC4671.cpp:1434`-1514) is a
single step, `Align`, though other threads run during its accesses and delays; no property was
found to depend on what they do there, and none is claimed of it.

### Pace of the calls

The state machine follows requests only once per pass. Calls that come faster than it
follows them defeat it in several ways (listed below), so a run says how fast they come:

- `settled`: USB changes, the button and the supply change only while the thread is in one
  of its delays and has followed the last request, or is suspended, or aligns the
  encoder; it spends nearly all its time there. The force feedback loop is anywhere.
- `press`: as settled, but the button may be pressed between any two steps, except
  while a thread is on its way to set the enable pin (`Enabling`).
- `unpowered`: as settled, and the host may connect while the supply is away.

### Properties and runs

`tmc_driver` (settled and press; all events; the supply counts as stable after 1 check
instead of 5, one retry of the alignment instead of 3) checks

- `EmergencyMeansDisabled`: once the calls have run, in an emergency the enable pin is off;
- `StoppedMeansNoTorque`: a motor nobody wants gives no torque, although the loop may write
  mode and torque after the stop did;
- `RunsAgain`: a motor that from some time on is wanted, supplied and not stopped
  runs in the end, after any sequence of disturbances.

The two counters only delay the model; with 1 each takes the path below and the one
above its limit. `tmc_overtemp` is a violation: giving up because of temperature leaves
the last torque on, since `stopMotor` touches the chip in two states only.

Fairness: strong fairness of the driver's steps and of each thread's. Threads of higher
priority disable the driver's steps while they run, but they sleep between their calls
(USB and commands wait for events, `FFBMAIN` for its timer), so the driver's thread
is scheduled again and again.

Outside the stated paces, found while choosing them: a start while the supply is away
overwrites the state to return to, and the driver waits for power for ever (lines 1683 and
1687: one variable holds both; with the pace `unpowered` `RunsAgain` fails); a press between the test in
`startMotor` (line 1676) or `initializeWithPower` and `enablePin.set()` leaves the power
stage enabled; a reset between the thread's test of `emergency` and its `Suspend` (lines
645, 646) finds nothing to resume; a stop and a start within one pass cancel each other's
request; `stopMotor` in EncoderFinished is undone by the thread's request for Running.

### Proofs (`TmcProofs`)

For any number of checks of the supply and of retries, all events and all paces:

- `DriverTypes`: `Spec => []TypeOK`, with the lists of steps (`Lists`).
- `StageDisabled`: `Spec => []EmergencyMeansDisabled`. `DisabledInv`: once a stop is raised or under
  way (`Stopped`), no thread is between its test of the emergency and the write of the enable pin,
  because a list has these steps at its head only (`EnableForm`), and nobody but the interrupt
  raises or clears a stop while it is active. For the pace `press` the theorem
  rests on the guard of `PressButton`; what it excludes is the gap of the code named above.
- `UnwantedNoTorque`: `Spec => []StoppedMeansNoTorque` (the property speaks of the pace `settled`).
  `StopInv` has two parts. `OneCall`: at most one thread besides the force feedback loop has a call,
  and its list is one of the forms the calls and their expansions take (`ListsOf`); `PartOf` reads
  off a list which part of a call is left (`Doing`), and one lemma per step (`WantMoves`,
  `UnwantMoves`, ...) says how it changes. `Core` then no longer looks at lists:
  `Following` says which requests a state can meet, `Powering`, `Placed`, `Supplied`, `Called` and
  `Halted` what is true at power-up, at the places of the loop, without supply, during a call and in
  an emergency; `WhileHot` that a motor that runs, is about to or has torque is aligned and goes on
  to Running only while it is wanted; `SwitchedOff` that an unwanted one still has its stop to come, is in
  OverTemp or HardError, or lost its torque mode with the supply. None of this is inductive without
  the rest: stopMotor does nothing to the chip in Shutdown or waitPower, so the proof has to show that
  no torque is left when those are reached. TLC checked the invariant on all states of
  the settled pace before the proof.

`RunsAgain` is liveness and only model-checked.

## 5. Commands: `CommandSystem`, `ReplyService`

### Model

`ReplyService` is what a terminal may rely on. The serial interface prints the results of all
commands, its own and those of HID reports. Each command that is accepted is answered once, by
its whole reply, or given up (no room, or too late); of one interface, answers come in the order of
the commands. Between interfaces there is no order. `waiting` is the set of accepted commands
that are neither answered nor given up, in `CommandSystem` `sent \ over`.

`CommandSystem` follows a command from the packet that brings it to the transfer that
carries the last part of its reply. The code passes it through six buffers and five threads:

| TLA+ | code |
|---|---|
| `CdcReceive`, `Room` | `CmdParser::add`, `CDC_CommandInterface::addBuf` (USB, 40) |
| `Wake`, `Peek`, `Discard` | `FFBoardMainCommandThread::Run`, `CmdParser::parse` (CMD_MAIN, 32): the buffer is read, parsed and discarded in three steps |
| `HidReceive`, `MoveQueue`, `ClearQueue`, `ResetReady` | `HID_CommandInterface::hidCmdCallback`, `getNewCommands` |
| `Execute` | `executeCommands` up to the handler |
| `CdcReady`, `BeginInsert`, `EndInsert`, `CdcTimeout` | `CDC_CommandInterface::readyToSend`, `sendReplies`, and the wait for it |
| `Format`, `Send`, `KeepRest`, `Finished` | `CDC_CommandInterface::Run` (CDCCMD, 37), `CDCcomm::cdcSend`, `cdcFinished` |
| `HidSendReplies`, `HidWake` ... `HidDone` | `HID_CommandInterface::sendReplies`, `Run` (HIDCMD, 18) |

A command is a number, a reply a sequence of *units*, each what one transfer carries; a
reply of one unit fits the transmit FIFO, a long one has one unit more than the FIFO. The
calls of the USB thread and of CDCCMD preempt CMD_MAIN and are steps; what CMD_MAIN does with
data they share is cut into steps where they may come between. Two threads that change one
`std::vector` without a lock (`results`): the elements taken away meanwhile come back, or
one that is not there any more is taken for a reply (`Junk`).

In the list of reports one element stands for all reports of a command (the code may queue two,
`HidCommandInterface.cpp:97` and 107). Results without a value, also those of the HID host's own
writes, are dropped when more than `maxQueuedRepliesBroadcast` are queued (line 74). Left out: a read from
another interface that gives no value (its acknowledgement is queued, line 88) and one of its own that
gives only text (not queued, line 103).

A comment in the code says "TODO Long replies fail HERE while copying reply strings"
(`CommandInterface.cpp:144`). What it speaks of, the copy of a reply into a temporary `std::string` and from
there to the end of another, needs heap; the model lets every copy succeed, and
`Answered` is to be read with that condition: it says nothing of replies the heap (64 KB) has no
room for. What it does say of long replies is what comes after the copy: the FIFO takes a part, the rest is
kept and sent from the callback, and nothing is lost on that way. A second way in which
this loop can fail is in the model: the vector it goes through is inserted into meanwhile (`Junk`), which
hosts that keep to `Careful` do not meet.

### Run

`command_system` checks `RepliesIntact`, `ExecutedOnce`, `HidRepliesOnce`, the refinement
`ImplementsService` and the liveness `Answered` and `HidExecuted`, for 3 commands of a
terminal and 2 of a HID host, five hosts (`CarefulHosts`) with up to 3 commands under way (2 if a
reply exceeds the FIFO), one with a small ring buffer and three that are slow, one of which fills the HID queue. A FIFO and
`maxSendBuffer` of 2 units run full with two replies, a ring buffer of 3 loses the third command; `MaxQueuedBroadcast` is 0, so that a
second report is dropped.

The bound on commands under way is the condition of `RepliesIntact` and `ImplementsService`, not a mere
bound of the model; the module names it `Careful`: three, or two if a reply exceeds the FIFO. It is
tight: with one more TLC finds a behaviour in which CDCCMD empties `resultsBuffer` while CMD_MAIN appends
to it (`CommandInterface.cpp:262`, 314; `EagerHosts`), or the rest of a long reply is kept over another.

Fairness: weak fairness of each thread and of the transfers; the host reads what is offered.
HID replies have no liveness property: `HidSend` loses a report whose endpoint FFBMAIN has used since the
test, and `HidDone` clears replies queued after the loop began.

Assumed: one command per packet; the FIFO (16 packets) is not drained in the instructions between
`Send` and `KeepRest`; a HID host waits for the execution of its last command; a terminal is
connected. Not modelled: the UART interface, replies to unknown commands by HID,
commands to all instances of a class, `broadcastCommandReplyAsync`, a USB reset within a
transfer, and the token scanner. (`CmdParser.cpp:206` goes round for ever for one form
of malformed parameter: `continue` without advancing.)

### Proofs (`CommandProofs`)

For any number of commands of both interfaces, any sizes of the buffers and any hosts, slow and
eager ones included:

- `CommandsExecutedOnce`: `Spec => []ExecutedOnce`. `OrderInv` follows the commands through the buffers:
  what is sent is sent in order (`SentInv`), ring buffer and queue hold sent commands in their order
  (`BufferInv`), the batch comes before what is still in the buffer, and while it is only peeked
  at, the buffer begins with it or was cleared (`BatchInv`), and what was executed comes before all
  others of its interface (`ExecutedInv`).
- `HidRepliesSentOnce`: `Spec => []HidRepliesOnce`. `ReplyInv`: the HID interface holds replies of
  different executed commands, not yet of the one in work, and none that was sent.
- `CommandTypes`: `Spec => []TypeOK`, with both invariants above: the buffers never exceed their
  capacity, and no thread uses an element that is not there.

For any number of commands, any sizes and any `Careful` host, slow ones included:

- `RepliesWhole`: `Spec /\ Careful(host) => []RepliesIntact`;
- `ServesTerminal`: `Spec /\ Careful(host) => ImplementsService`. `CdcReceive` and `HidReceive` are
  `Accept`, the transfer with the last unit of a reply is `Answer`, losses are `GiveUp`, and all else stutters.

Both follow from `OrderInv`, `ReplyInv` and `DeliveryInv`, whose parts are needed for each other:

- `ChannelInv` and `StreamInv` look at all units between CDCCMD and the terminal at once: `Stream` puts
  together what the terminal has read of a reply, the transfer, the FIFO, the kept rest and the string
  CDCCMD sends. It is a sequence of whole replies in order (`WholeReplies`, `InOrder`), of whose first
  the terminal has a part. `Send`, `KeepRest` and the retry move units within it and leave it as it is
  (`SendKeeps`, `KeepRestKeeps`, `FinishedTakes`); `Finished` takes the first reply off when it is complete
  (`FinishedStream`); `Format` adds the replies to the results, in order, and nothing else (`TextWhole`, by the
  least number of results for which it would fail).
- `OrderedInv`: replies of the stream come before the results, and both before the result in work.
- `PlaceInv` says where commands under way are: whatever is in a buffer is under way (`UnderWayInv`); what is
  under way is a reply, the result in work, or not executed, and then comes after all that is
  (`CompleteInv`); and there are not more than the host allows (`WindowInv`).
- `NotifyInv`: while CMD_MAIN inserts a result, CDCCMD does not empty a vector with others in it, and no string is
  sent into a full FIFO while results are collected. This is what can go wrong, and where `Careful` is needed:
  if CDCCMD waits with a string for a running transfer and CMD_MAIN inserts the next result, three different
  commands are under way, one in the transfer, one in the string and one in work (`Crowded`). There is no
  room for a fourth, so the vector is empty, the string one unit and the FIFO empty.

TLC checked all of `DeliveryInv` on small instances before the proof. Only model-checked: the liveness properties.

## 6. Effects: `EffectPool`

### Model

The pool of effects, the host that fills it by HID reports (`HidFFB.cpp`) or commands
(`SerialFFB.cpp`), and `EffectsCalculator::calculateEffects` in the control loop, which the
host's reports preempt between any two of its accesses.

| TLA+ | code |
|---|---|
| `NewEffect`, `BlockLoad`, `SetEffect`, `StartEffect`, `StopEffect`, `FreeEffect`, `Reset`, `SetFFB` | `HidFFB::new_effect`, `hidGet`, `set_effect`, `set_effect_operation`, `free_effect`, `reset_ffb`, `ffb_control` |
| `NewSerialEffect`, `SetDuration`, `StartSerialEffect` | `SerialFFB::newEffect` and its commands |
| `BeginPass`, `Look`, `Elapsed`, `Expired`, `Active`, `UseFilter`, `EndPass` | `calculateEffects`, one step per read of the effect that the host may change |
| `owned`, `asked` | the host's own view |
| `touched`, `changed`, `retyped` | history: what the host changed since the loop looked; the effects whose type changed since their filters were set |

A force is abstracted to the blocks that contribute to it. `SetEffect` is all of `HidFFB::set_effect`:
with another type (`retypes`) it sets the filters for the old type and zeroes the start time before it
overwrites the type (`HidFFB.cpp:288`-294). Hosts name only blocks they own; the code tests no more
than that the index is in the array.

### Runs

`effect_pool`, with two effects in the pool and five hosts: one that wants more effects than
there are; one that uses durations and start delays; one that plays two effects at
once; one that changes the type of its effect; a program that uses commands. Properties: `Agreement`
of host and device about the blocks; `PlaysWhole`, `FeltArePlaying`, `FilterPresent` about the loop; the
liveness `EveryEffectEnds` and `ForceReleased`. Two effects give a first, a last and a next one in the
loop; a third only adds passes. `until` bounds the clock after the last effect's end.

`PlaysWhole` says that what the loop ends is `Over`: its start delay (it starts in the future)
and its duration have passed. The loop's own test does not say so: `EffectsCalculator.cpp:135` also takes an
effect that starts in the future for expired, and only the test of the delay before it (131) keeps it.

Fairness: weak fairness of the loop (a timer notifies it) and of time.

What the exceptions in these properties are for; without each of them TLC finds the property violated:

- `touched` in `PlaysWhole`: the host starts an effect again between `Elapsed` and `Expired`; the loop ends the
  new run, which has not begun (`EffectsCalculator.cpp:135`).
- `retyped` in `FilterPresent`: a game that makes a playing sine a damper gets a damper without a filter,
  which the loop calls through a null pointer (`EffectsCalculator.cpp:386`), without any race.
- No filtered types by command (the last host, `HidOnly`): `newEffect` and `setEffectState` set no filters
  (`SerialFFB.cpp:80`), with the same end.

Beyond these, an effect freed between `Active` and `UseFilter` is used without its filter (`touched` in
`FilterPresent`). A change of the type while an effect with a duration plays ends it, since its start time is
zero then; that is what the code does, and no property says otherwise.

### Proofs (`EffectProofs`)

For every size of the pool, set of types and hosts: `TypeCorrect`; `HostAndDeviceAgree`
(`Agreement`); `EffectsPlayWhole` (the action property `PlaysWhole`); `OnlyPlayingFelt`
(`FeltArePlaying`); `FiltersAreMade` (`FilterPresent`, under `HidOnly`: the programs that use commands
create no effect of a filtered type; effects freed in the loop's hand or changed in type since they were
started are excepted by the property itself). `PlaysWhole` rests on `Known`, what the loop knows at
each place about the effect it looks at: past `Look`, that its start is not in the future. `Agreement` is inductive with `TypeOK`: the first free block is none
the host owns, because what it owns has a type. `FeltArePlaying` needs `Counted`, which speaks of
the effect in the loop's hand at each place: what the loop has tested still
holds there unless the host touched the effect. `FilterPresent` needs that every playing effect of a
filtered type has its filter. Liveness is left to TLC.

## 7. I2C: `I2cPort`

### Model

One port and both devices that use it by interrupts, `PCF8574` (a chain of chips with
buttons) and `ADS111X` (a converter with several axes). FFBMAIN (30) starts a round of
transfers; the threads of the devices (25 and 20), woken by the interrupt at the end of each,
start the next.

| TLA+ | code |
|---|---|
| `semaphore`, `currentDevice`, `transfer`, `hung` | `I2CPort::semaphore`, `currentDevice`, the state of the HAL |
| `ReadButtons`, `GetAxes`, `MainTake`, `MainStart` | `PCF8574Buttons::readButtons`, `ADS111X_AnalogSource::getAxes` with `I2CPort::receiveMasterIT` |
| `Complete`, `Error` | the interrupts, `I2CPort::I2cTxCplt`, `I2cRxCplt`, `I2cError` and the devices' callbacks |
| `AdsInit` ... `AdsStart`, `PcfWake` ... `PcfStart` | `Run` of both |
| `PcfTimeout`, `AdsTimeout` | 250 ms and 4 s without success |
| `SetBtnNum` | the command, with `resetPort` |

A value read is abstracted to the chip or channel it comes from, so a value at the wrong
place is visible.

### Runs

`i2c_port`, 3 chips, 3 axes: each device alone with up to 4 transfers that fail (refused, hung or
ended by an error) and 3 changes of the number of chips. It
checks `ButtonsInPlace`, `AxesInPlace`, `AnswerToAsker`, and the liveness
`LoopGoesOn` and `Refreshed`. Three chips have a first, a middle and a last one; four
failures break a round, its retry and the next.

Time is abstracted: the two limits pass only when nothing else can happen, or when the round
of the device is lost (its transfer refused, failed or reset, with nobody to start the next; `Lost`), because they are thousands of times longer than a round. Fairness: weak for threads, transfers, calls of the loop and
time, strong for a conversion that is polled again and again.

No property of this module is claimed of two devices on one port, nor of a preemption in the copy of the
buttons. What the code does not survive, each shown by changing the scenario:

- Both devices (`devices |-> Device`), one chip, no fault. `currentDevice` is set before the semaphore is taken
  (`I2C.cpp:176`, 207), and `readButtons` asks only for the state of the peripheral (`PCF8574.cpp:152`), so the
  control loop makes itself the current device between the semaphore and the start of the converter's
  transfer, whose completion then goes to the buttons: `AnswerToAsker` fails. After such an exchange a
  completion finds no device and keeps the semaphore (`I2C.cpp:237`), and the control loop waits for it for
  ever: `LoopGoesOn` fails.
- Both devices and a transfer of the converter that the HAL refuses: the semaphore stays taken
  and the control loop waits for it (`I2C.cpp:178`).
- A preemption in `PCF8574Buttons::Run` between the end of the round and the copy of the
  buttons (`PCF8574.cpp:96`): buttons of half a round are handed over, `ButtonsInPlace` fails.

Not modelled: blocking and DMA transfers, the EEPROM as a third device, speed presets,
`takePort` and `freePort`. (`I2CHandler::~I2CHandler` adds itself to the callbacks instead of
removing itself, `I2CHandler.cpp:15`.)

### Proofs (`I2cProofs`)

For any number of chips and axes. `NoneAssumption` only says that the value for `no transfer` and
`no device` is none of them.

- `PortTypes`: `Spec => []TypeOK`, for all scenarios, the ones that break the other properties
  included: no sample is written behind the last axis.
- `SamplesInPlace`: `Spec => [](Single(scenario) => AxesInPlace)`;
- `AnswersFindAsker`: `Spec => AnswerToAsker`, if all scenarios are `Single`;
- `WholeRounds`: `Spec => ButtonsInPlace`, if moreover none has the preemption `store` described above.

`Single` are the scenarios with one device on the port, with any number of failures, resets and
preemptions: there the hard part is that rounds are given up and begun anew while transfers of the old one
are about to start or end. The invariants (`AdsInv`, `PcfInv`, `PortInv`) say that a transfer in
progress is the one its device's state calls for, that a late or waiting thread has none that could
still complete, and who holds the semaphore. `LoopGoesOn` and `Refreshed` are liveness and left to TLC.

## 8. Encoders on SPI: `SpiEncoder`

### Model

Three kinds of encoders with the three schemes they use: MagnTek, with a thread (42) and the
port's semaphore; BISS-C, with a thread and the port to itself; SSI, in the interrupt. The
position is read by FFBMAIN (30), the commands (32) and the TMC4671's thread for an external
encoder (33); each read starts the next transfer, and the encoder counts turns from one
angle to the next.

| TLA+ | code |
|---|---|
| `Read` ... `StartDMA` | `getPosAbs` of the three |
| `EncTake`, `EncStart`, `EncUpdate` | `Run` of `MtEncoderSPI`, `EncoderBissC` |
| `Complete`, `Error` | `SPIPort::SpiRxCplt`, `SpiTxRxCplt`, `SpiError`, with the callbacks |
| `Turned`, `Accept` | counting turns and the first frame |
| `Received`, `Decoded`, `Evaluate` | damaged frames; the angle an SSI frame is taken for in its two modes |
| `Register` ... `RegisterEnd` | blocking register access of MagnTek |
| `Zero`, `ZeroBiss`, `ZeroTurns`, `ZeroOffset` | `setPos(0)`; of BISS-C in three steps |
| `shaft`, `frame`, `sampled`, `centre` | the world: the shaft, where it was in the frame in progress, in the last valid one, and where it was centred |

The shaft turns less than half a turn from one valid frame to the next, without which no
encoder of this kind can count.

An SSI frame is decoded as `spiRxCompleted` does it. Mode AMT23 counts from the middle of the turn
(`EncoderSSI.cpp:112`) and takes a frame unless both check bits are wrong (110), so a damaged one may show any angle
(`misread`). Raw mode has no check and ORs all eight bytes in at one constant shift of 8
(123-125): only that the result is a multiple of 256 is kept of it. `mode` has no initial value
(`EncoderSSI.h:73`); it is taken as set by command or from the settings.

### Runs

`spi_encoder`, 4 counts per turn, a shaft that turns once in each direction, two readers
(one for MagnTek), both modes of SSI, one invalid or misread frame, one SPI error: `TracksShaft`, `AloneOnBus` and the
liveness `PositionGoesOn`. Fairness: weak for the encoder's thread, transfers and commands; strong
for readers, which threads of higher priority disable again and again but not for good (they
wait for transfers and timers).

`TracksShaft` is stated of frames the program reads right (`Faithful`): not of raw SSI, whose position is not
that of the shaft (`EncoderSSI.cpp:124`), and of AMT23 if each damaged frame is found. `AloneOnBus` counts the start of an SSI frame only where there is one reader; with two the second
start is refused and ignored, and `PositionGoesOn` shows that this does no harm.

`encoder_frozen` is a violation: `MtEncoderSPI::getPosAbs` tests `updateInProgress` and sets it
in two steps (263, 266). When a second reader comes in between, two requests are made of
which the second is served without the flag, its completion does not notify the thread, and the
thread waits for ever while each reader gets the last position. Two readers are a control loop
and a command that asks for the position (`Axis.cpp:964`), or a TMC4671 with this encoder.
`MtEncoderSPI.h:59` describes the symptom.

What else does not hold: after an SPI error no encoder goes on (`SPI.cpp:282`; none handles
`spiRequestError`), so `PositionGoesOn` is stated without errors. `setPos` of BISS-C loses a
turn completed while it runs (`EncoderBissC.cpp:229`, command `zero`; `spi_encoder` keeps the shaft still there,
`zeroAtRest`), and that of SSI ignores the turns counted so far (`EncoderSSI.cpp:173`, command `zero`). Not
modelled: the read of angle and turns in two accesses by BISS-C and SSI
(`EncoderBissC.cpp:212`), the check sums of MagnTek and BISS-C (a frame is valid or not), mode changes, and the change of the chip select pin before
the semaphore is taken (`MtEncoderSPI.cpp:111`).

### Proofs (`SpiProofs`)

For every number of counts per turn (even, at least 4), range of the shaft and set of
scenarios:

- `TypeCorrect`: `Spec => []TypeOK`.
- `Alone`: `Spec => AloneOnBus`. `BusInv` adds to the types where a thread may be with each kind of
  encoder, and who holds the bus: with MagnTek whoever took the semaphore, with BISS-C the
  thread of the encoder from its start of a frame to the notification, with SSI its only reader
  (`OneAtATime`). It says nothing of SSI with two readers.
- `TurnsCounted`: `Spec => []TracksShaft`, of `Faithful` encoders, under `CentredAtRest` (BISS-C is set to zero only while the
  shaft rests, SSI not at all). `TurnsInv` adds that all that was seen of the shaft
  (the last sample, the frame on the bus, the frame not yet evaluated) is less than half a
  turn from the shaft and from one another (`Seen`), that the angle is that of the last sample
  (`Counted`) and what holds between the three steps of `setPos` (`Resting`). The arithmetic is in
  the lemma `TurnedCounts`: if s and t are less than half a turn apart, the step counted from
  their angles is s - t.

`PositionGoesOn` is liveness and left to TLC.

## 9. Seen while modelling, outside the models

- `CANPort2B`: `isWaitingFlag` is not reset after a successful wait and one `header` is shared by all
  senders (`CANPort2B.cpp:189`-217); `addCanFilter` returns the last bank when all are taken (295-322), its
  comment says -1 (259).
- `UART.cpp:154`: one `isTakenFlag` for both directions of the port.
- `I2C.h:37`, `MtEncoderSPI.cpp:113`: `min(index, size)` admits the index behind the end.
- `FFBHIDMain.cpp:79` restores two bits of the report rate, line 95 saves three.
- `ErrorHandler.cpp:131` sorts empty entries to the front, `getErrors` stops at the first empty one.
- `TMC4671.cpp:464`: `powerCheckCounter` is a static local that two drivers share; 1233: a
  forced HardError is overwritten while `allowStateChange` is still set.
- `flash_helpers.cpp:66`, 86: the mutex of `Flash_Write` is commented out; two threads write.
- `Axis.cpp:401`: `setDrvType` destroys a driver that FFBMAIN may be inside of.

## 10. What is not modelled

`PROJECT.json` lists every component with its status and what of it is missing. Left out
for good: force formulas, filters and fade-ins (floating point or numeric, no control), USB
descriptors, LED effects, chip register values, vendored code and generated
initialisation, which is by far the largest part of the sources (HAL, CMSIS, FreeRTOS,
tinyusb). In the modelled parts: two threads that write the flash at the same time, what an
interrupted sector erase leaves behind (a property of the chip), memory of driver objects that
`setDrvType` destroys while a thread is inside them, the TMC4671's calibrations, index search,
autotuning and hardware enable input; and what sections 5 to 8 name.

## 11. Proved, model-checked, planned

| module | proved for all values of the constants | model-checked only |
|---|---|---|
| `EepromEmulation` | `TypeOK`, `KnownGood`, `RoomSuffices`, `AckedReadable`, `ImplementsStore` | `ReadyAgain`, `ReadsOwnValues` |
| `MotorSafety` | `TypeOK`, `ButtonStopHolds`, `EmergencyMeansNoTorque`, `NoHostNoTorque`; `OutOfBoundsMeansNoTorque`, `MotorsComeBack` without `criticalError` | these two with `criticalError` |
| `TmcDriver` | `TypeOK`, `EmergencyMeansDisabled`, `StoppedMeansNoTorque` | `RunsAgain` |
| `CommandSystem` | `TypeOK`, `ExecutedOnce`, `HidRepliesOnce`; `RepliesIntact`, `ImplementsService` for `Careful` hosts | `Answered`, `HidExecuted` |
| `EffectPool` | `TypeOK`, `Agreement`, `PlaysWhole`, `FeltArePlaying`, `FilterPresent` | `EveryEffectEnds`, `ForceReleased` |
| `I2cPort` | `TypeOK`; `AxesInPlace`, `AnswerToAsker`, `ButtonsInPlace` for one device on the port | `LoopGoesOn`, `Refreshed` |
| `SpiEncoder` | `TypeOK`, `AloneOnBus`, `TracksShaft` for scenarios centred at rest | `PositionGoesOn` |

`ReadyAgain`, `RunsAgain`, `Answered`, `HidExecuted`, `EveryEffectEnds`, `ForceReleased`, `LoopGoesOn`, `Refreshed` and
`PositionGoesOn` are liveness under fairness, which the prover cannot do.

Every other property of the passing runs but `ReadsOwnValues` has a theorem, with the conditions the table names.

Next modules, in order of importance: `ErrorList` (16 entries, clearing, temporary errors, the
printer thread); the CAN port with its waiting senders and the drivers on it; the UART port with
the Simplemotion driver; `FlashWriters` (two threads in `Flash_Write`); the restore of settings at start.
