------------------------------- MODULE SpiEncoder -------------------------------
(***************************************************************************)
(* An absolute encoder on its SPI port (SPI.cpp): MagnTek with a thread    *)
(* and the port's semaphore (MtEncoderSPI.cpp), BISS-C with a thread and   *)
(* the port to itself (EncoderBissC.cpp), SSI read by its interrupt        *)
(* (EncoderSSI.cpp).                                                       *)
(*                                                                         *)
(* Threads read the position: the control loop (30), the commands (32) and *)
(* the update of a TMC4671 (33); each read starts the next transfer.  The  *)
(* thread of the encoder (42) preempts them all.  The encoder counts the   *)
(* turns of the shaft from the angles it gets.                             *)
(***************************************************************************)
EXTENDS Integers

CONSTANTS
    Cpr,            \* counts per turn
    MaxShaft,       \* how far the shaft turns (bound)
    None,           \* no sample, an invalid frame
    Scenarios       \* see Scenario

Reader == {"tmc", "cmd", "ffb"}

\* The kind of the encoder, the mode of SSI, who reads it, what else the command
\* thread does to it, whether a damaged SSI frame may keep one check bit right, and
\* how many frames are found invalid or end in an error of the SPI (bounds).
Scenario == [kind : {"mt", "biss", "ssi"}, mode : {"AMT23", "raw"}, readers : SUBSET Reader,
             commands : SUBSET {"zero", "zeroAtRest", "register"}, misread : BOOLEAN,
             bad : Nat, errors : Nat]

Shaft == -MaxShaft..MaxShaft
Half == Cpr \div 2

ASSUME SpiAssumption ==
    /\ Cpr \in Nat /\ Cpr >= 4 /\ Cpr % 2 = 0
    /\ MaxShaft \in Nat /\ MaxShaft >= Cpr - 1 /\ None \notin Shaft
    /\ Scenarios \subseteq Scenario

VARIABLES
    scenario, bad, errors,
    shaft,          \* where the shaft is, in counts
    \* SPIPort
    semaphore, currentDevice,
    bus,            \* "idle", or what is transferred: a "frame" or a "register"
    frame,          \* the position the encoder has latched for the frame in progress
    \* the encoder
    busy,           \* updateInProgress (mt), waitData (biss, ssi)
    requested, updated,     \* requestNewDataSem, waitForUpdateSem
    notified,
    rxbuf,          \* until it is evaluated
    enc,            \* its thread: "idle", "begin", "wait"
    angle,          \* curAngleInt, pos: of the last valid frame
    turns,          \* rotations, mtpos
    offset,
    \* the readers
    pc, diff,
    \* history: the shaft in the last valid frame, and where its centre is
    sampled, centre

bounds == <<scenario, bad, errors>>
port == <<semaphore, currentDevice, bus, frame>>
signals == <<requested, updated, notified, rxbuf, enc>>
position == <<angle, turns, sampled, centre>>
vars == <<bounds, shaft, port, busy, signals, position, offset, pc, diff>>

Kind == scenario.kind
Raw == Kind = "ssi" /\ scenario.mode = "raw"
Amt == Kind = "ssi" /\ scenario.mode = "AMT23"
Position == turns * Cpr + angle - offset

TypeOK ==
    /\ scenario \in Scenarios /\ bad \in 0..scenario.bad /\ errors \in 0..scenario.errors
    /\ shaft \in Shaft /\ frame \in Shaft /\ {rxbuf, sampled} \subseteq Shaft \union {None}
    /\ {semaphore, currentDevice, busy, requested, updated, notified} \subseteq BOOLEAN
    /\ bus \in {"idle", "frame", "register"} /\ enc \in {"idle", "begin", "wait"}
    /\ {angle, diff} \subseteq -Half..Cpr-1 /\ {turns, offset, centre} \subseteq Int
    /\ pc \in [Reader -> {"idle", "set", "give", "wait", "begin", "device", "start",
                          "take", "register", "turns", "offset"}]

Init ==
    /\ scenario \in Scenarios /\ bad = 0 /\ errors = 0
    /\ shaft \in 0..Cpr-1
    /\ semaphore = TRUE /\ currentDevice = FALSE /\ bus = "idle" /\ frame = 0
    /\ busy = FALSE /\ requested = FALSE /\ updated = FALSE /\ notified = FALSE /\ rxbuf = None
    /\ enc = "idle" /\ angle = 0 /\ turns = 0 /\ offset \in 0..Cpr-1
    /\ pc = [r \in Reader |-> "idle"] /\ diff = 0
    /\ sampled = None /\ centre = 0
-----------------------------------------------------------------------------
(* The shaft turns less than half a turn from one valid frame to the next. *)

Near(a, b) == a - b < Half /\ b - a < Half

AtRest == pc["cmd"] \in {"turns", "offset"} /\ "zeroAtRest" \in scenario.commands

Turn(s) ==
    /\ s \in Shaft /\ ~AtRest
    /\ sampled # None => Near(s, sampled)
    /\ bus = "frame" => Near(s, frame)
    /\ rxbuf # None => Near(s, rxbuf)
    /\ shaft' = s
    /\ UNCHANGED <<bounds, port, busy, signals, position, offset, pc, diff>>
-----------------------------------------------------------------------------
(* Counting turns                                                          *)

\* Wrong variant: a turn in one direction is not counted.
TurnedOneWay(a, last) == IF a - last > Half THEN -1 ELSE 0

\* More than half a turn between two angles is a step over zero.
Turned(a, last) ==
    IF a - last > Half THEN -1 ELSE IF last - a > Half THEN 1 ELSE 0

\* The first frame of BISS-C counts from the stored offset.
LastPos == IF Kind = "biss" /\ sampled = None THEN offset ELSE angle

\* The angle of a frame: that of an AMT23 counts from the middle of the turn.
Angle(s) == (s % Cpr) - (IF Amt THEN Half ELSE 0)

\* The angles that may be read from a frame.  Raw SSI puts every byte at the same
\* place, above the low eight bits: which angle that gives depends on the encoder's
\* coding.  A damaged frame that is not found invalid may show any angle.
Decoded(s, misread) ==
    CASE Raw -> {a \in 0..Cpr-1 : a % 256 = 0}
      [] misread -> -Half..Half-1
      [] OTHER -> {Angle(s)}

Accept(s, a) ==
    /\ angle' = a
    /\ turns' = turns + Turned(a, LastPos)
    /\ sampled' = s
    /\ centre' = IF sampled = None THEN s - (turns' * Cpr + angle' - offset) ELSE centre

\* The frame is counted, or it is an error.
Evaluate(s, misread) ==
    IF s = None THEN UNCHANGED position ELSE \E a \in Decoded(s, misread) : Accept(s, a)
-----------------------------------------------------------------------------
(* Interrupts of the port                                                  *)

\* The frame that has been received may be damaged.  Then it is invalid, but raw SSI
\* has no check, and AMT23 takes a frame if only one of its two check bits is right.
Received(s, misread) ==
    \/ s = frame /\ ~misread /\ UNCHANGED bad
    \/ /\ bad < scenario.bad /\ bad' = bad + 1 /\ ~Raw
       /\ IF misread THEN s = frame /\ Amt /\ scenario.misread ELSE s = None

\* The end of a transfer of the current device: endSpiTransfer.
Ended ==
    /\ bus = "frame" /\ bus' = "idle" /\ currentDevice' = FALSE
    /\ semaphore' = (semaphore \/ (currentDevice /\ Kind = "mt"))
    /\ frame' = 0

\* SPIPort::SpiRxCplt, SpiTxRxCplt and the callbacks of the encoders.
Complete ==
    /\ Ended
    /\ \E s \in {frame, None}, misread \in BOOLEAN :
        /\ Received(s, misread)
        /\ IF currentDevice /\ Kind = "ssi" THEN Evaluate(s, misread) /\ busy' = FALSE
                                           ELSE UNCHANGED <<position, busy>>
        /\ IF currentDevice /\ (Kind = "biss" \/ (Kind = "mt" /\ busy))
           THEN notified' = TRUE /\ rxbuf' = s
           ELSE UNCHANGED <<notified, rxbuf>>
    /\ UNCHANGED <<scenario, errors, shaft, requested, updated, enc, offset, pc, diff>>

\* SPIPort::SpiError: no encoder handles spiRequestError.
Error ==
    /\ errors < scenario.errors /\ errors' = errors + 1
    /\ Ended
    /\ UNCHANGED <<scenario, bad, shaft, busy, signals, position, offset, pc, diff>>
-----------------------------------------------------------------------------
(* The thread of the encoder: Run                                          *)

EncRuns ==
    \/ enc = "idle" /\ requested
    \/ enc = "begin" /\ (Kind = "mt" => semaphore)
    \/ enc = "wait" /\ notified

EncTake ==
    /\ enc = "idle" /\ requested /\ requested' = FALSE /\ enc' = "begin"
    /\ busy' = (busy \/ Kind = "biss")
    /\ UNCHANGED <<bounds, shaft, port, updated, notified, rxbuf, position, offset, pc, diff>>

\* HAL_SPI_..._DMA: refused during another transfer; the result is ignored.
StartFrame ==
    IF bus = "idle" THEN bus' = "frame" /\ frame' = shaft ELSE UNCHANGED <<bus, frame>>

\* Wrong variant: the semaphore is not waited for.
EncStartAnyTime ==
    /\ enc = "begin" /\ enc' = "wait"
    /\ semaphore' = FALSE /\ currentDevice' = TRUE /\ StartFrame
    /\ UNCHANGED <<bounds, shaft, busy, requested, updated, notified, rxbuf, position, offset, pc, diff>>

\* SPIPort::transmitReceive_DMA, receive_DMA; BISS-C takes no semaphore.
EncStart ==
    /\ enc = "begin" /\ enc' = "wait"
    /\ IF Kind = "mt" THEN semaphore /\ semaphore' = FALSE ELSE UNCHANGED semaphore
    /\ currentDevice' = TRUE /\ StartFrame
    /\ UNCHANGED <<bounds, shaft, busy, requested, updated, notified, rxbuf, position, offset, pc, diff>>

\* Wrong variant: after an invalid frame the update stays in progress.
BusyAfterInvalid == rxbuf = None

BusyAfter == FALSE

EncUpdate ==
    /\ enc = "wait" /\ notified /\ notified' = FALSE /\ enc' = "idle"
    /\ Evaluate(rxbuf, FALSE)
    /\ busy' = BusyAfter /\ updated' = TRUE /\ rxbuf' = None
    /\ UNCHANGED <<bounds, shaft, port, requested, offset, pc, diff>>
-----------------------------------------------------------------------------
(* The threads that read the position: getPosAbs                           *)

Priority == [ffb |-> 30, cmd |-> 32, tmc |-> 33]

Runs(r) == pc[r] # "idle" /\ (pc[r] = "wait" => updated) /\ (pc[r] = "take" => semaphore)

May(r) == ~EncRuns /\ \A q \in Reader : Priority[q] > Priority[r] => ~Runs(q)

At(r, from, to) == pc[r] = from /\ May(r) /\ pc' = [pc EXCEPT ![r] = to]

\* A new transfer unless one is in progress.
Read(r) ==
    /\ r \in scenario.readers /\ ~busy
    /\ At(r, "idle", CASE Kind = "mt" -> "set" [] Kind = "biss" -> "give" [] OTHER -> "begin")
    /\ UNCHANGED <<bounds, shaft, port, busy, signals, position, offset, diff>>

Set(r) ==
    /\ At(r, "set", "give") /\ busy' = TRUE
    /\ UNCHANGED <<bounds, shaft, port, signals, position, offset, diff>>

\* The reader waits for the update if the last one is too long ago.
Give(r) ==
    /\ \/ At(r, "give", "idle")
       \/ At(r, "give", "wait")
    /\ requested' = TRUE
    /\ UNCHANGED <<bounds, shaft, port, busy, updated, notified, rxbuf, enc, position, offset, diff>>

\* The wait ends with the update or after two milliseconds.
Wait(r) ==
    /\ At(r, "wait", "idle") /\ updated' = FALSE
    /\ UNCHANGED <<bounds, shaft, port, busy, requested, notified, rxbuf, enc, position, offset, diff>>

\* EncoderSSI::beginSpiTransfer, SPIPort::receive_DMA
Begin(r) ==
    /\ At(r, "begin", "device") /\ busy' = TRUE
    /\ UNCHANGED <<bounds, shaft, port, signals, position, offset, diff>>

SetDevice(r) ==
    /\ At(r, "device", "start") /\ currentDevice' = TRUE
    /\ UNCHANGED <<bounds, shaft, semaphore, bus, frame, busy, signals, position, offset, diff>>

StartDMA(r) ==
    /\ At(r, "start", "idle") /\ StartFrame
    /\ UNCHANGED <<bounds, shaft, semaphore, currentDevice, busy, signals, position, offset, diff>>

ReadStep(r) ==
    Read(r) \/ Set(r) \/ Give(r) \/ Wait(r) \/ Begin(r) \/ SetDevice(r) \/ StartDMA(r)
-----------------------------------------------------------------------------
(* Other commands                                                          *)

\* MtEncoderSPI::readSpi, writeSpi: SPIPort::transmitReceive, transmit
Register ==
    /\ "register" \in scenario.commands /\ Kind = "mt" /\ At("cmd", "idle", "take")
    /\ UNCHANGED <<bounds, shaft, port, busy, signals, position, offset, diff>>

RegisterTake ==
    /\ At("cmd", "take", "register")
    /\ semaphore /\ semaphore' = FALSE /\ bus' = "register"
    /\ UNCHANGED <<bounds, shaft, currentDevice, frame, busy, signals, position, offset, diff>>

RegisterEnd ==
    /\ At("cmd", "register", "idle")
    /\ semaphore' = TRUE /\ bus' = "idle"
    /\ UNCHANGED <<bounds, shaft, currentDevice, frame, busy, signals, position, offset, diff>>

\* setPos(0) of MagnTek and SSI
Zero ==
    /\ "zero" \in scenario.commands /\ Kind # "biss" /\ At("cmd", "idle", "idle")
    /\ offset' = IF Kind = "mt" THEN turns * Cpr + angle ELSE angle
    /\ centre' = IF sampled = None THEN centre ELSE sampled
    /\ UNCHANGED <<bounds, shaft, port, busy, signals, angle, turns, sampled, diff>>

\* EncoderBissC::setPos(0): the position is read, the turns and the offset are set.
ZeroBiss ==
    /\ Kind = "biss"
    /\ \/ "zero" \in scenario.commands
       \/ /\ "zeroAtRest" \in scenario.commands /\ sampled = shaft
          /\ (bus = "frame" => frame = shaft) /\ rxbuf \in {shaft, None}
    /\ At("cmd", "idle", "turns") /\ diff' = angle
    /\ UNCHANGED <<bounds, shaft, port, busy, signals, position, offset>>

ZeroTurns ==
    /\ At("cmd", "turns", "offset") /\ turns' = 0
    /\ UNCHANGED <<bounds, shaft, port, busy, signals, angle, sampled, centre, offset, diff>>

ZeroOffset ==
    /\ At("cmd", "offset", "idle") /\ offset' = diff /\ diff' = 0
    /\ centre' = IF sampled = None THEN centre ELSE sampled
    /\ UNCHANGED <<bounds, shaft, port, busy, signals, angle, turns, sampled>>
-----------------------------------------------------------------------------
EncStep == EncTake \/ EncStart \/ EncUpdate
CmdStep == Register \/ RegisterTake \/ RegisterEnd \/ Zero \/ ZeroBiss \/ ZeroTurns \/ ZeroOffset

Next ==
    \/ \E s \in {shaft - 1, shaft + 1} : Turn(s)
    \/ Complete \/ Error
    \/ EncStep
    \/ \E r \in Reader : ReadStep(r)
    \/ CmdStep

Spec == Init /\ [][Next]_vars

\* Transfers end, the threads run, and each reader reads again and again: those
\* of a higher priority leave it time.
FairSpec ==
    /\ Spec
    /\ WF_vars(Complete) /\ WF_vars(EncStep)
    /\ \A r \in Reader : SF_vars(ReadStep(r))
    /\ WF_vars(RegisterTake \/ RegisterEnd \/ ZeroTurns \/ ZeroOffset)
-----------------------------------------------------------------------------
(* Properties                                                              *)

\* The position is that of the shaft in the last valid frame, counted from the
\* centre: no turn is lost or counted twice, whatever frames are lost.
TracksAlways ==
    sampled # None /\ pc["cmd"] \notin {"turns", "offset"} => Position = sampled - centre

\* The same of encoders whose frames the program reads right: MagnTek, BISS-C, and
\* SSI in mode AMT23 as long as the check finds each damaged frame.
Faithful == ~Raw /\ (Amt => ~scenario.misread)
TracksShaft == Faithful => TracksAlways

OneReader == \A q, r \in scenario.readers : q = r

\* The thread of the encoder, a command and the one reader of an SSI encoder never
\* begin to use the bus while it is in use.
AloneOnBus ==
    [][EncStart \/ RegisterTake \/ (OneReader /\ \E r \in Reader : StartDMA(r))
        => bus = "idle"]_vars

\* When the shaft comes to rest the position follows, if the SPI has no error.
PositionGoesOn ==
    scenario.errors = 0 => []<>(sampled = shaft) \/ []<><<shaft' # shaft>>_shaft

\* While an update is in progress, and readers get the last position, it is about
\* to be requested, waited for by the thread that carries it out, or on the bus.
UpdateIsUnderWay ==
    busy => \/ \E r \in Reader : pc[r] \in {"give", "device", "start"}
            \/ requested /\ enc = "idle"
            \/ enc = "begin" \/ bus = "frame" \/ notified
=============================================================================
