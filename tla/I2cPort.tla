-------------------------------- MODULE I2cPort --------------------------------
(***************************************************************************)
(* The I2C port and its two devices: button expanders (PCF8574.cpp) and an *)
(* analog converter (ADS111X.cpp).                                         *)
(*                                                                         *)
(* The control loop (FFBMAIN, priority 30) asks both for their values and  *)
(* starts a round of transfers when the last one is over; the threads of   *)
(* the devices (ads111x 25, pcfbtn 20) carry it on, woken by the interrupt *)
(* at the end of each transfer.  A thread waits for the port's semaphore   *)
(* and the interrupt gives it back.  What is read is abstracted to where   *)
(* it comes from: the number of the chip or channel.                       *)
(***************************************************************************)
EXTENDS Integers, FiniteSets

CONSTANTS
    NChips,         \* the most chips with buttons
    NAxes,          \* the channels of the converter
    None,           \* no device, no transfer, no data
    Scenarios       \* see Scenario

Device == {"pcf", "ads"}

\* The devices on the port, the number of chips at first, how often a transfer
\* fails or a command resets the port (bounds), and at which places the loop may
\* preempt another thread.
Scenario == [devices : SUBSET Device, chips : 1..NChips, faults : Nat, resets : Nat,
             preempts : SUBSET {"store"}]

ASSUME I2cAssumption ==
    /\ NChips \in Nat \ {0} /\ NAxes \in Nat \ {0} /\ Scenarios \subseteq Scenario

Chip == 0..NChips-1
Axis == 0..NAxes-1

Read(c) == [dev |-> "pcf", op |-> "read", arg |-> c]
Ask(o, a) == [dev |-> "ads", op |-> o, arg |-> a]
Transfer == {Read(c) : c \in Chip} \union {Ask(o, a) : o \in {"convert", "poll", "sample"}, a \in Axis}

ASSUME NoneAssumption == None \notin Transfer /\ None \notin Device

VARIABLES
    scenario, faults, resets,
    semaphore,      \* is the semaphore of the port free?
    currentDevice,
    transfer,       \* the transfer in progress: hi2c.State is not READY
    hung,           \* it will not end by itself
    main,           \* FFBMAIN: "idle", or inside readByteIT
    \* PCF8574Buttons
    readingData, lastByte, numBytes,
    lastData,       \* the chip lastData comes from
    currentButtons, \* pairs of a position and the chip the byte there comes from
    lastButtons,
    pcfLate,        \* lastSuccess is longer ago than the timeout
    pcfNotified, pcf, chip,
    \* ADS111X_AnalogSource
    state, lastAxis,
    channel,        \* the channel the converter has converted
    sampleBuffer, rawbuf,
    adsLate, adsNotified, ads, ask

bounds == <<scenario, faults, resets>>
port == <<semaphore, currentDevice, transfer, hung>>
buttons == <<readingData, lastByte, lastData, currentButtons, lastButtons>>
pcfVars == <<buttons, numBytes, pcfLate, pcfNotified, pcf, chip>>
analog == <<state, lastAxis, sampleBuffer, rawbuf>>
adsVars == <<analog, channel, adsLate, adsNotified, ads, ask>>
vars == <<bounds, port, main, pcfVars, adsVars>>

TypeOK ==
    /\ scenario \in Scenarios /\ faults \in 0..scenario.faults /\ resets \in 0..scenario.resets
    /\ semaphore \in BOOLEAN /\ currentDevice \in Device \union {None}
    /\ transfer \in Transfer \union {None} /\ hung \in BOOLEAN
    /\ main \in {"idle", "take", "start"}
    /\ readingData \in BOOLEAN /\ lastByte \in Chip /\ numBytes \in 1..NChips
    /\ lastData \in Chip \union {None}
    /\ {currentButtons, lastButtons} \subseteq SUBSET (Chip \X (Chip \union {None}))
    /\ pcf \in {"wait", "take", "start", "store"} /\ chip \in Chip
    /\ state \in {"none", "idle", "beginSampling", "sampling", "getsample", "readingSample"}
    /\ lastAxis \in 0..NAxes /\ channel \in Axis \union {None}
    /\ sampleBuffer \in Axis \union {None} /\ rawbuf \in [Axis -> Axis \union {None}]
    /\ ads \in {"init", "wait", "delay", "take", "set", "start"} /\ ask \in Transfer
    /\ {pcfLate, pcfNotified, adsLate, adsNotified} \subseteq BOOLEAN

Init ==
    /\ scenario \in Scenarios /\ faults = 0 /\ resets = 0
    /\ semaphore = TRUE /\ currentDevice = None /\ transfer = None /\ hung = FALSE /\ main = "idle"
    /\ readingData = FALSE /\ lastByte = 0 /\ numBytes = scenario.chips /\ lastData = None
    /\ currentButtons = {} /\ lastButtons = {}
    /\ pcfLate = FALSE /\ pcfNotified = FALSE /\ pcf = "wait" /\ chip = 0
    /\ state = "none" /\ lastAxis = 0 /\ channel = None
    /\ sampleBuffer = None /\ rawbuf = [a \in Axis |-> None]
    /\ adsLate = FALSE /\ adsNotified = FALSE /\ ads = "init" /\ ask = Ask("convert", 0)

Has(d) == d \in scenario.devices
-----------------------------------------------------------------------------
(* The port                                                                *)

Take == semaphore /\ semaphore' = FALSE /\ UNCHANGED <<currentDevice, transfer, hung>>

\* I2CPort::resetPort: the transfer in progress is aborted.
Reset == semaphore' = TRUE /\ transfer' = None /\ hung' = FALSE

\* HAL_I2C_..._IT: a busy bus or peripheral refuses; the result is ignored.
Start(t) ==
    /\ \/ transfer' = (IF transfer = None THEN t ELSE transfer) /\ UNCHANGED <<hung, faults>>
       \/ /\ faults < scenario.faults /\ faults' = faults + 1
          /\ \/ transfer = None /\ transfer' = t /\ hung' = TRUE
             \/ UNCHANGED <<transfer, hung>>
    /\ UNCHANGED <<scenario, resets, semaphore, currentDevice>>
-----------------------------------------------------------------------------
(* Interrupts of the peripheral                                            *)

\* PCF8574Buttons::i2cRxCompleted
PcfReceived ==
    IF readingData
    THEN /\ currentButtons' = currentButtons \union {<<lastByte, lastData'>>}
         /\ pcfLate' = FALSE /\ pcfNotified' = TRUE
    ELSE UNCHANGED <<currentButtons, pcfLate, pcfNotified>>

\* ADS111X_AnalogSource::i2cRxCompleted; the converter may still be busy.
AdsReceived ==
    \/ state = "idle" /\ UNCHANGED <<state, lastAxis, rawbuf, adsNotified>>
    \/ /\ state = "sampling" /\ state' \in {"sampling", "getsample"}
       /\ adsNotified' = TRUE /\ UNCHANGED <<lastAxis, rawbuf>>
    \/ /\ state = "readingSample"
       /\ rawbuf' = [rawbuf EXCEPT ![lastAxis] = sampleBuffer']
       /\ lastAxis' = lastAxis + 1
       /\ state' = "beginSampling" /\ adsNotified' = TRUE
    \/ /\ state \notin {"idle", "sampling", "readingSample"}
       /\ adsNotified' = TRUE /\ UNCHANGED <<state, lastAxis, rawbuf>>

\* ADS111X_AnalogSource::i2cTxCompleted
AdsSent ==
    IF state = "idle" THEN UNCHANGED <<state, adsNotified>>
    ELSE /\ state' = IF state = "beginSampling" THEN "sampling" ELSE state
         /\ adsNotified' = TRUE

\* What the transfer itself does to the memory and the converter.
Moved(t) ==
    /\ lastData' = IF t.op = "read" THEN t.arg ELSE lastData
    /\ channel' = IF t.op = "convert" THEN t.arg ELSE channel
    /\ sampleBuffer' = IF t.op = "sample" THEN channel ELSE sampleBuffer

\* Wrong variant: the end of a transfer does not give it.
GivenNever == semaphore

\* endI2CTransfer of the current device gives the semaphore.
Given == semaphore \/ currentDevice # None

\* I2CPort::I2cTxCplt, I2cRxCplt: without a current device nothing happens.
Complete ==
    /\ transfer # None /\ ~hung
    /\ Moved(transfer)
    /\ transfer' = None /\ currentDevice' = None /\ UNCHANGED hung
    /\ semaphore' = Given
    /\ IF currentDevice = "pcf" /\ transfer.op # "convert" THEN PcfReceived
       ELSE UNCHANGED <<currentButtons, pcfLate, pcfNotified>>
    /\ \/ currentDevice = "ads" /\ transfer.op # "convert" /\ AdsReceived
       \/ currentDevice = "ads" /\ transfer.op = "convert" /\ AdsSent /\ UNCHANGED <<lastAxis, rawbuf>>
       \/ currentDevice # "ads" /\ UNCHANGED <<state, lastAxis, rawbuf, adsNotified>>
    /\ UNCHANGED <<bounds, main, readingData, lastByte, lastButtons, numBytes, pcf, chip,
                   adsLate, ads, ask>>

\* I2CPort::I2cError and the i2cError of the devices.
Error ==
    /\ transfer # None /\ ~hung /\ faults < scenario.faults /\ faults' = faults + 1
    /\ Reset
    /\ IF currentDevice = "pcf" THEN readingData' = FALSE /\ pcfLate' = FALSE
                                ELSE UNCHANGED <<readingData, pcfLate>>
    /\ state' = IF currentDevice = "ads" THEN "idle" ELSE state
    /\ UNCHANGED <<scenario, resets, currentDevice, main, lastByte, lastData, currentButtons,
                   lastButtons, numBytes, pcfNotified, pcf, chip, lastAxis, sampleBuffer,
                   rawbuf, channel, adsLate, adsNotified, ads, ask>>
-----------------------------------------------------------------------------
(* The control loop and the commands                                       *)

MainRuns == main = "start" \/ (main = "take" /\ semaphore)

\* The loop calls the devices wherever their threads are, in the middle of PcfStore
\* only if the scenario says so.
MainCalls ==
    /\ main = "idle"
    /\ pcf = "store" => "store" \in scenario.preempts

\* Wrong variant: a round that got lost is waited for.
TimedOutNever == FALSE

TimedOut == readingData /\ pcfLate

\* Wrong variant: the count of the round that was given up is kept.
NewRoundSameByte == readingData' = TRUE /\ currentButtons' = {} /\ UNCHANGED lastByte

NewRound == readingData' = TRUE /\ currentButtons' = {} /\ lastByte' = 0

\* Wrong variant: a read is begun in the middle of a round.
FreeMidRound == transfer = None

Free == ~readingData /\ transfer = None

\* PCF8574Buttons::readButtons
ReadButtons ==
    /\ MainCalls /\ Has("pcf")
    /\ TimedOut \/ Free
    /\ IF TimedOut THEN Reset /\ pcfLate' = FALSE
                   ELSE UNCHANGED <<semaphore, transfer, hung, pcfLate>>
    /\ NewRound /\ currentDevice' = "pcf" /\ main' = "take"
    /\ UNCHANGED <<bounds, lastData, lastButtons, numBytes, pcfNotified, pcf, chip, adsVars>>

\* I2CPort::receiveMasterIT
MainTake ==
    /\ main = "take" /\ Take /\ main' = "start"
    /\ UNCHANGED <<bounds, pcfVars, adsVars>>

MainStart ==
    /\ main = "start" /\ Start(Read(0)) /\ main' = "idle"
    /\ UNCHANGED <<pcfVars, adsVars>>

\* Wrong variant: a new round begins in the middle of one.
BeginsAnyTime == transfer = None

Begins == state = "idle" /\ transfer = None

\* ADS111X_AnalogSource::getAxes
GetAxes ==
    /\ MainCalls /\ Has("ads") /\ (Begins \/ adsLate)
    /\ lastAxis' = IF Begins THEN 0 ELSE lastAxis
    /\ state' = IF adsLate THEN "none" ELSE "beginSampling"
    /\ adsNotified' = TRUE
    /\ UNCHANGED <<bounds, port, main, pcfVars, sampleBuffer, rawbuf, channel, adsLate, ads, ask>>

\* PCF8574Buttons::setBtnNum by a command, whose thread preempts all others.
SetBtnNum(n) ==
    /\ Has("pcf") /\ resets < scenario.resets /\ resets' = resets + 1
    /\ numBytes' = n /\ Reset
    /\ UNCHANGED <<scenario, faults, currentDevice, main, buttons, pcfLate, pcfNotified, pcf, chip, adsVars>>
-----------------------------------------------------------------------------
(* The thread of the converter: ADS111X_AnalogSource::Run                  *)

AdsRuns ==
    /\ Has("ads")
    /\ \/ ads \in {"init", "set", "start"}
       \/ ads = "take" /\ semaphore
       \/ ads = "wait" /\ adsNotified

AdsInit ==
    /\ ads = "init" /\ Has("ads") /\ ~MainRuns
    /\ IF state = "none"
       THEN /\ Reset /\ state' = "idle" /\ lastAxis' = 0 /\ adsLate' = FALSE
       ELSE UNCHANGED <<semaphore, transfer, hung, state, lastAxis, adsLate>>
    /\ ads' = "wait"
    /\ UNCHANGED <<bounds, currentDevice, main, pcfVars, sampleBuffer, rawbuf, channel, adsNotified, ask>>

\* Wrong variant: one axis too many.
MoreAxesOffByOne == lastAxis <= NAxes

MoreAxes == lastAxis < NAxes

AdsWake ==
    /\ ads = "wait" /\ adsNotified /\ ~MainRuns
    /\ adsNotified' = FALSE
    /\ IF MoreAxes
       THEN /\ \/ state = "beginSampling" /\ ads' = "take" /\ ask' = Ask("convert", lastAxis) /\ UNCHANGED state
               \/ state = "sampling" /\ ads' = "delay" /\ ask' = Ask("poll", 0) /\ UNCHANGED state
               \/ state = "getsample" /\ ads' = "take" /\ ask' = Ask("sample", 0) /\ state' = "readingSample"
               \/ state \in {"none", "idle", "readingSample"} /\ ads' = "init" /\ UNCHANGED <<ask, state>>
            /\ UNCHANGED <<lastAxis, adsLate>>
       ELSE /\ lastAxis' = 0 /\ adsLate' = FALSE /\ state' = "idle" /\ ads' = "init"
            /\ UNCHANGED ask
    /\ UNCHANGED <<bounds, port, main, pcfVars, sampleBuffer, rawbuf, channel>>

AdsDelay ==
    /\ ads = "delay" /\ ads' = "take"
    /\ UNCHANGED <<bounds, port, main, pcfVars, analog, channel, adsLate, adsNotified, ask>>

\* Wrong variant: the semaphore is not taken.
AdsTakeNothing ==
    /\ ads = "take" /\ ~MainRuns /\ ads' = "set"
    /\ UNCHANGED <<bounds, port, main, pcfVars, analog, channel, adsLate, adsNotified, ask>>

\* ADS111X takes the semaphore before it calls the port.
AdsTake ==
    /\ ads = "take" /\ ~MainRuns /\ Take /\ ads' = "set"
    /\ UNCHANGED <<bounds, main, pcfVars, analog, channel, adsLate, adsNotified, ask>>

AdsSet ==
    /\ ads = "set" /\ ~MainRuns
    /\ currentDevice' = "ads" /\ ads' = "start"
    /\ UNCHANGED <<bounds, semaphore, transfer, hung, main, pcfVars, analog, channel, adsLate, adsNotified, ask>>

AdsStart ==
    /\ ads = "start" /\ ~MainRuns /\ Start(ask) /\ ads' = "init"
    /\ UNCHANGED <<main, pcfVars, analog, channel, adsLate, adsNotified, ask>>
-----------------------------------------------------------------------------
(* The thread of the buttons: PCF8574Buttons::Run                          *)

PcfRuns ==
    \/ pcf \in {"start", "store"}
    \/ pcf = "take" /\ semaphore
    \/ pcf = "wait" /\ pcfNotified

PcfMay == ~MainRuns /\ ~AdsRuns

\* The next chip, or the end of the round.
PcfWake ==
    /\ pcf = "wait" /\ pcfNotified /\ PcfMay
    /\ pcfNotified' = FALSE
    /\ IF lastByte + 1 < numBytes
       THEN /\ lastByte' = lastByte + 1 /\ chip' = lastByte + 1 /\ lastData' = None
            /\ currentDevice' = "pcf" /\ pcf' = "take"
            /\ UNCHANGED readingData
       ELSE /\ lastByte' = 0 /\ readingData' = FALSE /\ pcf' = "store"
            /\ UNCHANGED <<chip, lastData, currentDevice>>
    /\ UNCHANGED <<bounds, semaphore, transfer, hung, main, currentButtons, lastButtons, numBytes,
                   pcfLate, adsVars>>

PcfStore ==
    /\ pcf = "store" /\ PcfMay
    /\ lastButtons' = currentButtons /\ pcf' = "wait"
    /\ UNCHANGED <<bounds, port, main, readingData, lastByte, lastData, currentButtons, numBytes,
                   pcfLate, pcfNotified, chip, adsVars>>

PcfTake ==
    /\ pcf = "take" /\ PcfMay /\ Take /\ pcf' = "start"
    /\ UNCHANGED <<bounds, main, buttons, numBytes, pcfLate, pcfNotified, chip, adsVars>>

PcfStart ==
    /\ pcf = "start" /\ PcfMay /\ Start(Read(chip)) /\ pcf' = "wait"
    /\ UNCHANGED <<main, buttons, numBytes, pcfLate, pcfNotified, chip, adsVars>>
-----------------------------------------------------------------------------
(* Time: a quarter of a second or four seconds pass only when nothing else *)
(* happens, the calls of the loop that begin a round included, or when the *)
(* round of a device is lost and only the other device goes on.            *)

Quiet ==
    /\ ~MainRuns /\ ~AdsRuns /\ ~PcfRuns /\ ads # "delay"
    /\ transfer = None \/ hung
    /\ transfer = None /\ main = "idle" =>
            /\ Has("pcf") => readingData
            /\ Has("ads") => state # "idle"

Lost(d) == transfer # None => hung \/ transfer.dev # d

PcfTimeout ==
    /\ Has("pcf") /\ ~pcfLate /\ pcfLate' = TRUE
    /\ \/ Quiet
       \/ Lost("pcf") /\ main = "idle" /\ readingData /\ pcf = "wait" /\ ~pcfNotified
    /\ UNCHANGED <<bounds, port, main, buttons, numBytes, pcfNotified, pcf, chip, adsVars>>

AdsTimeout ==
    /\ Has("ads") /\ ~adsLate /\ adsLate' = TRUE
    /\ Quiet \/ (Lost("ads") /\ state # "idle" /\ ads = "wait" /\ ~adsNotified)
    /\ UNCHANGED <<bounds, port, main, pcfVars, analog, channel, adsNotified, ads, ask>>
-----------------------------------------------------------------------------
MainStep == ReadButtons \/ MainTake \/ MainStart \/ GetAxes
AdsStep == AdsInit \/ AdsWake \/ AdsDelay \/ AdsTake \/ AdsSet \/ AdsStart
PcfStep == PcfWake \/ PcfStore \/ PcfTake \/ PcfStart

Next ==
    \/ Complete \/ Error
    \/ MainStep \/ AdsStep \/ PcfStep
    \/ \E n \in 1..NChips : SetBtnNum(n)
    \/ PcfTimeout \/ AdsTimeout

Spec == Init /\ [][Next]_vars

\* Transfers end, threads run, the loop calls again and again, time passes, and
\* a conversion is over some time.
FairSpec ==
    /\ Spec
    /\ WF_vars(Complete) /\ SF_vars(Complete /\ state' = "getsample")
    /\ WF_vars(ReadButtons) /\ WF_vars(MainTake \/ MainStart) /\ WF_vars(GetAxes)
    /\ WF_vars(AdsStep) /\ WF_vars(PcfStep)
    /\ WF_vars(PcfTimeout) /\ WF_vars(AdsTimeout)
-----------------------------------------------------------------------------
(* Properties                                                              *)

\* A transfer that ends is signalled to the device that has started it.  True of a
\* device alone; of two only as long as neither sets currentDevice during a transfer.
AnswerToAsker == [][Complete => currentDevice = transfer.dev]_vars

\* The buttons handed over are a whole round: each byte comes from the chip of
\* its position, and none is missing.
ButtonsInPlace ==
    [][PcfStore => \E n \in 1..NChips : lastButtons' = {<<c, c>> : c \in 0..n-1}]_vars

\* The values of the axes are samples of their own channel.
AxesInPlace == \A a \in Axis : rawbuf[a] \in {a, None}

\* The loop never waits for the port for ever, if no second device uses it.
LoopGoesOn == []<>(main = "idle")

\* A device that has the port to itself is read again after any fault.
Refreshed ==
    /\ scenario.devices = {"pcf"} => []<>(pcf = "store")
    /\ scenario.devices = {"ads"} => []<>(lastAxis = NAxes)
=============================================================================
