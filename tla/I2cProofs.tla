----------------------------- MODULE I2cProofs -----------------------------
(***************************************************************************)
(* Proofs about I2cPort: types for every scenario; that answers, buttons   *)
(* and values find their place for a device that has the port to itself,   *)
(* whatever fails.                                                         *)
(***************************************************************************)
EXTENDS I2cPort, TLAPS

PortType ==
    /\ scenario \in Scenarios /\ faults \in 0..scenario.faults /\ resets \in 0..scenario.resets
    /\ semaphore \in BOOLEAN /\ currentDevice \in Device \union {None}
    /\ transfer \in Transfer \union {None} /\ hung \in BOOLEAN
    /\ main \in {"idle", "take", "start"}
PcfType ==
    /\ readingData \in BOOLEAN /\ lastByte \in Chip /\ numBytes \in 1..NChips
    /\ lastData \in Chip \union {None}
    /\ currentButtons \in SUBSET (Chip \X (Chip \union {None}))
    /\ lastButtons \in SUBSET (Chip \X (Chip \union {None}))
    /\ pcf \in {"wait", "take", "start", "store"} /\ chip \in Chip
    /\ pcfLate \in BOOLEAN /\ pcfNotified \in BOOLEAN
\* The sample that is being read has an axis it belongs to.
AdsType ==
    /\ state \in {"none", "idle", "beginSampling", "sampling", "getsample", "readingSample"}
    /\ lastAxis \in 0..NAxes /\ channel \in Axis \union {None}
    /\ sampleBuffer \in Axis \union {None} /\ rawbuf \in [Axis -> Axis \union {None}]
    /\ ads \in {"init", "wait", "delay", "take", "set", "start"} /\ ask \in Transfer
    /\ adsLate \in BOOLEAN /\ adsNotified \in BOOLEAN
    /\ state = "readingSample" => lastAxis < NAxes
TypeInv == PortType /\ PcfType /\ AdsType

\* What a transfer is.
LEMMA Transfers ==
    /\ None \notin Transfer
    /\ \A c \in Chip : Read(c) \in Transfer
    /\ \A o \in {"convert", "poll", "sample"} : \A a \in Axis : Ask(o, a) \in Transfer
    /\ \A t \in Transfer :
            /\ t.dev \in {"pcf", "ads"}
            /\ t.op = "read" => t.arg \in Chip
            /\ t.op = "convert" => t.arg \in Axis
<1>1. \A c \in Chip : Read(c) \in Transfer
    BY DEF Transfer
<1>2. \A o \in {"convert", "poll", "sample"} : \A a \in Axis : Ask(o, a) \in Transfer
    BY DEF Transfer
<1>3. ASSUME NEW t \in Transfer
      PROVE  /\ t.dev \in {"pcf", "ads"}
             /\ (t.op = "read" => t.arg \in Chip) /\ (t.op = "convert" => t.arg \in Axis)
  <2>1. CASE \E c \in Chip : t = Read(c)
      BY <2>1 DEF Read
  <2>2. CASE \E o \in {"convert", "poll", "sample"} : \E a \in Axis : t = Ask(o, a)
      BY <2>2 DEF Ask
  <2> QED BY <2>1, <2>2 DEF Transfer
<1> QED BY <1>1, <1>2, <1>3, NoneAssumption

LEMMA Sizes == NChips \in Nat \ {0} /\ NAxes \in Nat \ {0} /\ 0 \in Chip /\ 0 \in Axis
BY I2cAssumption DEF Chip, Axis

LEMMA Limits ==
    ASSUME scenario \in Scenarios
    PROVE  scenario.chips \in 1..NChips /\ scenario.faults \in Nat /\ scenario.resets \in Nat
BY I2cAssumption DEF Scenario

LEMMA InitType == Init => TypeInv
<1> SUFFICES ASSUME Init PROVE TypeInv
    OBVIOUS
<1>1. ask \in Transfer
    BY Sizes, Transfers DEF Init
<1>2. AdsType
  <2>1. rawbuf \in [Axis -> Axis \union {None}] /\ channel \in Axis \union {None} /\ sampleBuffer \in Axis \union {None}
    BY DEF Init
  <2>2. state = "none" /\ lastAxis \in 0..NAxes
    BY Sizes DEF Init
  <2>3. ads = "init" /\ adsLate \in BOOLEAN /\ adsNotified \in BOOLEAN
    BY DEF Init
  <2> QED BY <1>1, <2>1, <2>2, <2>3 DEF AdsType
<1>0. scenario \in Scenarios /\ scenario.chips \in 1..NChips /\ scenario.faults \in Nat /\ scenario.resets \in Nat
    BY Limits DEF Init
<1>3. PcfType
    BY <1>0, Sizes DEF Init, PcfType
<1>4. PortType
  <2>1. scenario \in Scenarios /\ faults \in 0..scenario.faults /\ resets \in 0..scenario.resets
    BY <1>0 DEF Init
  <2>2. semaphore \in BOOLEAN /\ hung \in BOOLEAN /\ main \in {"idle", "take", "start"}
    BY DEF Init
  <2>3. currentDevice \in Device \union {None} /\ transfer \in Transfer \union {None}
    BY DEF Init
  <2> QED BY <2>1, <2>2, <2>3 DEF PortType
<1> QED BY <1>2, <1>3, <1>4 DEF TypeInv

\* A transfer that ends leaves values of chips and channels.
LEMMA CompleteType == TypeInv /\ Complete => TypeInv'
<1> SUFFICES ASSUME TypeInv, Complete PROVE TypeInv'
    OBVIOUS
<1>1. transfer \in Transfer /\ (transfer.op = "read" => transfer.arg \in Chip)
                           /\ (transfer.op = "convert" => transfer.arg \in Axis)
    BY Transfers DEF Complete, TypeInv, PortType
<1>2. /\ lastData' \in Chip \union {None} /\ channel' \in Axis \union {None}
      /\ sampleBuffer' \in Axis \union {None}
    BY <1>1 DEF Complete, Moved, TypeInv, PcfType, AdsType
<1>3. PcfType'
  <2>1. <<lastByte, lastData'>> \in Chip \X (Chip \union {None})
      BY <1>2 DEF TypeInv, PcfType
  <2>2. CASE PcfReceived
      BY <1>2, <2>1, <2>2 DEF Complete, PcfReceived, TypeInv, PcfType
  <2>3. CASE UNCHANGED <<currentButtons, pcfLate, pcfNotified>>
      BY <1>2, <2>3 DEF Complete, TypeInv, PcfType
  <2> QED BY <2>2, <2>3 DEF Complete
<1>4. AdsType'
  <2>1. CASE AdsReceived
    <3>1. /\ state' \in {"none", "idle", "beginSampling", "sampling", "getsample", "readingSample"}
          /\ lastAxis' \in 0..NAxes /\ (state' = "readingSample" => lastAxis' < NAxes)
        BY <2>1, Sizes DEF AdsReceived, TypeInv, AdsType
    <3>2. rawbuf' \in [Axis -> Axis \union {None}]
        BY <1>2, <2>1 DEF AdsReceived, TypeInv, AdsType
    <3>3. adsNotified' \in BOOLEAN
        BY <2>1 DEF AdsReceived, TypeInv, AdsType
    <3> QED BY <1>2, <3>1, <3>2, <3>3 DEF Complete, TypeInv, AdsType
  <2>2. CASE AdsSent /\ UNCHANGED <<lastAxis, rawbuf>>
      BY <1>2, <2>2 DEF Complete, AdsSent, TypeInv, AdsType
  <2>3. CASE UNCHANGED <<state, lastAxis, rawbuf, adsNotified>>
      BY <1>2, <2>3 DEF Complete, TypeInv, AdsType
  <2> QED BY <2>1, <2>2, <2>3 DEF Complete
<1>5. PortType'
    BY DEF Complete, Given, bounds, TypeInv, PortType
<1> QED BY <1>3, <1>4, <1>5 DEF TypeInv

LEMMA StartType ==
    ASSUME TypeInv, NEW t \in Transfer, Start(t), main' \in {"idle", "take", "start"}
    PROVE  PortType'
<1>1. scenario' = scenario /\ resets' = resets /\ scenario.faults \in Nat
    BY Limits DEF Start, TypeInv, PortType
<1>2. faults' \in 0..scenario'.faults
    BY <1>1 DEF Start, TypeInv, PortType
<1>3. transfer' \in Transfer \union {None} /\ hung' \in BOOLEAN
    BY DEF Start, TypeInv, PortType
<1> QED BY <1>1, <1>2, <1>3 DEF Start, TypeInv, PortType

LEMMA MainType == TypeInv /\ MainStep => TypeInv'
<1> SUFFICES ASSUME TypeInv, MainStep PROVE TypeInv'
    OBVIOUS
<1>1. CASE ReadButtons
  <2>1. PortType'
      BY <1>1 DEF ReadButtons, Reset, Device, TypeInv, PortType, bounds
  <2>2. PcfType'
      BY <1>1, Sizes DEF ReadButtons, NewRound, TypeInv, PcfType
  <2>3. AdsType'
      BY <1>1 DEF ReadButtons, TypeInv, AdsType, adsVars, analog
  <2> QED BY <2>1, <2>2, <2>3 DEF TypeInv
<1>2. CASE MainTake
  <2>1. PortType'
      BY <1>2 DEF MainTake, Take, TypeInv, PortType, bounds
  <2> QED BY <1>2, <2>1 DEF MainTake, TypeInv, PcfType, AdsType, pcfVars, buttons, adsVars, analog
<1>3. CASE MainStart
  <2>1. PortType'
      BY <1>3, StartType, Sizes, Transfers DEF MainStart
  <2> QED BY <1>3, <2>1 DEF MainStart, TypeInv, PcfType, AdsType, pcfVars, buttons, adsVars, analog
<1>4. CASE GetAxes
  <2>1. PortType' /\ PcfType'
      BY <1>4 DEF GetAxes, TypeInv, PortType, PcfType, bounds, port, pcfVars, buttons
  <2> QED BY <1>4, <2>1, Sizes DEF GetAxes, TypeInv, AdsType
<1> QED BY <1>1, <1>2, <1>3, <1>4 DEF MainStep

LEMMA AdsStepType == TypeInv /\ AdsStep => TypeInv'
<1> SUFFICES ASSUME TypeInv, AdsStep PROVE TypeInv'
    OBVIOUS
<1>1. PcfType'
    BY DEF AdsStep, AdsInit, AdsWake, AdsDelay, AdsTake, AdsSet, AdsStart, TypeInv, PcfType,
       pcfVars, buttons
<1>2. CASE AdsInit
  <2>1. PortType'
      BY <1>2 DEF AdsInit, Reset, TypeInv, PortType, bounds
  <2>2. AdsType'
    <3>1. /\ state' \in {"none", "idle", "beginSampling", "sampling", "getsample", "readingSample"}
          /\ lastAxis' \in 0..NAxes /\ (state' = "readingSample" => lastAxis' < NAxes)
        BY <1>2, Sizes DEF AdsInit, TypeInv, AdsType
    <3> QED BY <1>2, <3>1 DEF AdsInit, TypeInv, AdsType
  <2> QED BY <1>1, <2>1, <2>2 DEF TypeInv
<1>3. CASE AdsWake
  <2>1. PortType'
      BY <1>3 DEF AdsWake, TypeInv, PortType, bounds, port
  <2>2. CASE MoreAxes
    <3>1. lastAxis \in Axis
        BY <2>2, Sizes DEF MoreAxes, Axis, TypeInv, AdsType
    <3>2. ask' \in Transfer
        BY <1>3, <2>2, <3>1, Sizes, Transfers DEF AdsWake, TypeInv, AdsType
    <3> QED BY <1>1, <1>3, <2>1, <2>2, <3>2, Sizes DEF AdsWake, MoreAxes, TypeInv, AdsType
  <2>3. CASE ~MoreAxes
    <3>1. lastAxis' = 0 /\ adsLate' = FALSE /\ state' = "idle" /\ ads' = "init" /\ ask' = ask
        BY <1>3, <2>3 DEF AdsWake
    <3>2. lastAxis' \in 0..NAxes
        BY <3>1, Sizes
    <3> QED BY <1>1, <1>3, <2>1, <3>1, <3>2 DEF AdsWake, TypeInv, AdsType
  <2> QED BY <2>2, <2>3
<1>4. CASE AdsDelay
  <2>1. PortType'
      BY <1>4 DEF AdsDelay, TypeInv, PortType, bounds, port
  <2>2. AdsType'
      BY <1>4 DEF AdsDelay, TypeInv, AdsType, analog
  <2> QED BY <1>1, <2>1, <2>2 DEF TypeInv
<1>5. CASE AdsTake
  <2>1. PortType'
      BY <1>5 DEF AdsTake, Take, TypeInv, PortType, bounds
  <2>2. AdsType'
      BY <1>5 DEF AdsTake, TypeInv, AdsType, analog
  <2> QED BY <1>1, <2>1, <2>2 DEF TypeInv
<1>6. CASE AdsSet
  <2>1. PortType'
      BY <1>6 DEF AdsSet, Device, TypeInv, PortType, bounds
  <2>2. AdsType'
      BY <1>6 DEF AdsSet, TypeInv, AdsType, analog
  <2> QED BY <1>1, <2>1, <2>2 DEF TypeInv
<1>7. CASE AdsStart
  <2>1. ask \in Transfer /\ main' = main
      BY <1>7 DEF AdsStart, TypeInv, AdsType
  <2>2. PortType'
      BY <1>7, <2>1, StartType DEF AdsStart, TypeInv, PortType
  <2> QED BY <1>1, <1>7, <2>2 DEF AdsStart, TypeInv, AdsType, analog
<1> QED BY <1>2, <1>3, <1>4, <1>5, <1>6, <1>7 DEF AdsStep

LEMMA PcfStepType == TypeInv /\ PcfStep => TypeInv'
<1> SUFFICES ASSUME TypeInv, PcfStep PROVE TypeInv'
    OBVIOUS
<1>1. AdsType'
    BY DEF PcfStep, PcfWake, PcfStore, PcfTake, PcfStart, TypeInv, AdsType, adsVars, analog
<1>2. CASE PcfWake
  <2>1. PortType'
      BY <1>2 DEF PcfWake, Device, TypeInv, PortType, bounds
  <2>2. PcfType'
    <3>1. lastByte' \in Chip /\ chip' \in Chip
        BY <1>2, Sizes DEF PcfWake, Chip, TypeInv, PcfType
    <3>2. lastData' \in Chip \union {None} /\ pcf' \in {"wait", "take", "start", "store"} /\ readingData' \in BOOLEAN
        BY <1>2 DEF PcfWake, TypeInv, PcfType
    <3> QED BY <1>2, <3>1, <3>2 DEF PcfWake, TypeInv, PcfType
  <2> QED BY <1>1, <2>1, <2>2 DEF TypeInv
<1>3. CASE PcfStore
  <2>1. PortType'
      BY <1>3 DEF PcfStore, TypeInv, PortType, bounds, port
  <2>2. PcfType'
      BY <1>3 DEF PcfStore, TypeInv, PcfType
  <2> QED BY <1>1, <2>1, <2>2 DEF TypeInv
<1>4. CASE PcfTake
  <2>1. PortType'
      BY <1>4 DEF PcfTake, Take, TypeInv, PortType, bounds
  <2>2. PcfType'
      BY <1>4 DEF PcfTake, TypeInv, PcfType, buttons
  <2> QED BY <1>1, <2>1, <2>2 DEF TypeInv
<1>5. CASE PcfStart
  <2>1. Read(chip) \in Transfer /\ main' = main
      BY <1>5, Transfers DEF PcfStart, TypeInv, PcfType
  <2>2. PortType'
      BY <1>5, <2>1, StartType DEF PcfStart, TypeInv, PortType
  <2> QED BY <1>1, <1>5, <2>2 DEF PcfStart, TypeInv, PcfType, buttons
<1> QED BY <1>2, <1>3, <1>4, <1>5 DEF PcfStep

LEMMA NextType == TypeInv /\ [Next]_vars => TypeInv'
<1> SUFFICES ASSUME TypeInv, [Next]_vars PROVE TypeInv'
    OBVIOUS
<1>1. CASE Error
  <2>1. PortType'
    <3>1. faults' \in 0..scenario'.faults
        BY <1>1, Limits DEF Error, TypeInv, PortType
    <3> QED BY <1>1, <3>1 DEF Error, Reset, TypeInv, PortType
  <2>2. PcfType'
      BY <1>1 DEF Error, TypeInv, PcfType
  <2>3. AdsType'
      BY <1>1 DEF Error, TypeInv, AdsType
  <2> QED BY <2>1, <2>2, <2>3 DEF TypeInv
<1>2. CASE PcfTimeout
  <2>1. PortType'
      BY <1>2 DEF PcfTimeout, TypeInv, PortType, bounds, port
  <2>2. PcfType'
      BY <1>2 DEF PcfTimeout, TypeInv, PcfType, buttons
  <2>3. AdsType'
      BY <1>2 DEF PcfTimeout, TypeInv, AdsType, adsVars, analog
  <2> QED BY <2>1, <2>2, <2>3 DEF TypeInv
<1>3. CASE AdsTimeout
  <2>1. PortType'
      BY <1>3 DEF AdsTimeout, TypeInv, PortType, bounds, port
  <2>2. PcfType'
      BY <1>3 DEF AdsTimeout, TypeInv, PcfType, pcfVars, buttons
  <2>3. AdsType'
      BY <1>3 DEF AdsTimeout, TypeInv, AdsType, analog
  <2> QED BY <2>1, <2>2, <2>3 DEF TypeInv
<1>4. CASE \E n \in 1..NChips : SetBtnNum(n)
  <2>1. PortType'
    <3>1. resets' \in 0..scenario'.resets
        BY <1>4, Limits DEF SetBtnNum, TypeInv, PortType
    <3> QED BY <1>4, <3>1 DEF SetBtnNum, Reset, TypeInv, PortType
  <2>2. PcfType'
      BY <1>4 DEF SetBtnNum, TypeInv, PcfType, buttons
  <2>3. AdsType'
      BY <1>4 DEF SetBtnNum, TypeInv, AdsType, adsVars, analog
  <2> QED BY <2>1, <2>2, <2>3 DEF TypeInv
<1>5. CASE UNCHANGED vars
    BY <1>5 DEF vars, TypeInv, PortType, PcfType, AdsType, bounds, port, pcfVars, buttons, adsVars,
       analog
<1> QED BY <1>1, <1>2, <1>3, <1>4, <1>5, CompleteType, MainType, AdsStepType, PcfStepType DEF Next

\* Types, for every number of chips and axes and every scenario, both devices
\* on the port with any faults included: in particular no sample is written
\* behind the last axis.
THEOREM PortTypes == Spec => []TypeOK
<1>1. TypeInv => TypeOK
    BY DEF TypeInv, PortType, PcfType, AdsType, TypeOK
<1> QED BY <1>1, InitType, NextType, PTL DEF Spec

\* The bytes of the first n chips, each at its place.
Bytes(n) == {<<c, c>> : c \in 0..n-1}

(***************************************************************************)
(* The converter.  A transfer it is about to start or has in progress is   *)
(* the one its state calls for (Fits), and nothing else wakes the thread   *)
(* until it ends; a late or idle converter has none that could still       *)
(* complete.  From the conversion to the sample, the channel converted is  *)
(* that of the axis.                                                       *)
(***************************************************************************)
Fits(t) ==
    \/ t = Ask("convert", lastAxis) /\ state = "beginSampling"
    \/ t = Ask("poll", 0) /\ state = "sampling"
    \/ t = Ask("sample", 0) /\ state = "readingSample"

Asked(d) == transfer # None /\ transfer.dev = d

AdsRests == ads \in {"init", "wait"} /\ ~Asked("ads")

AdsInv ==
    /\ ads \notin {"init", "wait"} =>
            ~adsNotified /\ ~adsLate /\ ~Asked("ads") /\ Fits(ask) /\ (ads = "delay" => state = "sampling")
    /\ ads \in {"set", "start"} => ~semaphore /\ transfer = None
    /\ ads = "start" => currentDevice = "ads"
    /\ Asked("ads") =>
            /\ ads \in {"init", "wait"} /\ currentDevice = "ads"
            /\ ~hung => Fits(transfer) /\ ~adsNotified /\ ~adsLate
    /\ state = "idle" => AdsRests /\ ~adsLate
    /\ adsNotified /\ state # "none" => AdsRests
    /\ adsLate => (hung \/ AdsRests) /\ ads \in {"init", "wait"} /\ (state = "none" \/ ~adsNotified)
    /\ lastAxis = NAxes => adsNotified /\ ~adsLate /\ state = "beginSampling"
    /\ state \in {"sampling", "getsample", "readingSample"} => channel = lastAxis

\* The converter has the port to itself: it finds the semaphore free.
AdsAlone ==
    /\ main = "idle" /\ pcf = "wait" /\ ~pcfNotified /\ currentDevice # "pcf" /\ AdsInv /\ AxesInPlace
    /\ transfer # None => transfer.dev = "ads"
    /\ hung => transfer # None
    /\ transfer = None /\ ads \in {"delay", "take"} => semaphore
    /\ state = "idle" \/ (adsNotified /\ state # "none") => semaphore

(***************************************************************************)
(* The buttons.  While a round goes on, in each of its places, the bytes   *)
(* collected are those of the first chips, as many as lastByte says, and a *)
(* transfer in progress is that of the next one.  A round that is late has *)
(* nothing in progress that could still add a byte to the next.            *)
(***************************************************************************)
\* A round has just begun, with nothing of the last one left.
RoundBegun ==
    /\ readingData /\ lastByte = 0 /\ currentButtons = {} /\ currentDevice = "pcf"
    /\ transfer = None /\ pcf \in {"wait", "store"} /\ ~pcfNotified /\ ~pcfLate

PcfInv ==
    /\ main # "idle" => RoundBegun
    /\ Asked("pcf") =>
            /\ main = "idle" /\ readingData /\ currentDevice = "pcf" /\ pcf \in {"wait", "store"} /\ ~pcfNotified
            /\ transfer = Read(lastByte) /\ currentButtons = Bytes(lastByte)
            /\ ~hung => ~pcfLate
    /\ pcfNotified =>
            /\ main = "idle" /\ readingData /\ pcf \in {"wait", "store"} /\ ~Asked("pcf") /\ ~pcfLate
            /\ currentButtons = Bytes(lastByte + 1)
    /\ pcf \in {"take", "start"} =>
            /\ main = "idle" /\ readingData /\ ~Asked("pcf") /\ currentDevice = "pcf" /\ ~pcfNotified /\ ~pcfLate
            /\ chip = lastByte /\ currentButtons = Bytes(lastByte)
    /\ pcf = "store" /\ "store" \notin scenario.preempts =>
            ~readingData /\ \E n \in 1..NChips : currentButtons = Bytes(n)
    /\ ~readingData => main = "idle" /\ ~Asked("pcf") /\ pcf \in {"wait", "store"} /\ ~pcfNotified /\ ~pcfLate
    /\ pcfLate => pcf = "wait"

\* The buttons have the port to themselves.
PcfAlone ==
    /\ ads = "init" /\ state = "none" /\ currentDevice # "ads" /\ PcfInv
    /\ transfer # None => transfer.dev = "pcf"
    /\ hung => transfer # None
    /\ main = "take" \/ pcf = "take" \/ pcfNotified \/ ~readingData => semaphore
    /\ rawbuf = [a \in Axis |-> None]

Alone(d) == scenario.devices = {d}
PortInv ==
    /\ TypeInv
    /\ Alone("ads") => AdsAlone
    /\ Alone("pcf") => PcfAlone

\* No device is the empty place of currentDevice.
LEMMA Devices == "pcf" # None /\ "ads" # None
BY NoneAssumption DEF Device

LEMMA AdsAloneInit == TypeInv /\ Init => AdsAlone
BY Sizes, Devices DEF Init, AdsAlone, AdsInv, AdsRests, Asked, AxesInPlace

\* One step for each action.
LEMMA AdsAloneNext ==
    ASSUME TypeInv, TypeInv', Alone("ads"), AdsAlone, [Next]_vars
    PROVE  AdsAlone'
<1>1. ~Has("pcf") /\ Has("ads") /\ ~MainRuns
    BY DEF Alone, Has, AdsAlone, MainRuns
<1>2. CASE Complete
    BY <1>1, <1>2, Devices, Transfers, Sizes DEF Complete, AdsReceived, AdsSent, Moved, Given,
       AdsAlone, AdsInv, AdsRests, Asked, AxesInPlace, Fits, Ask, TypeInv, PortType, AdsType,
       bounds
<1>3. CASE Error
    BY <1>1, <1>3, Devices DEF Error, Reset, AdsAlone, AdsInv, AdsRests, Asked, AxesInPlace, Fits,
       Ask, TypeInv, PortType, AdsType
<1>4. CASE MainStep
  <2>1. CASE GetAxes
    BY <1>1, <2>1, Devices, Sizes DEF GetAxes, Begins, AdsAlone, AdsInv, AdsRests, Asked,
       AxesInPlace, Fits, Ask, TypeInv, PortType, AdsType, bounds, port, pcfVars
  <2> QED BY <1>1, <1>4, <2>1 DEF MainStep, ReadButtons, MainTake, MainStart, AdsAlone
<1>5. CASE AdsStep
  <2>1. CASE AdsInit
    BY <1>1, <2>1, Devices, Sizes DEF AdsInit, Reset, AdsAlone, AdsInv, AdsRests, Asked,
       AxesInPlace, Fits, Ask, TypeInv, PortType, AdsType, bounds, pcfVars
  <2>2. CASE AdsWake
    BY <1>1, <2>2, Devices, Sizes DEF AdsWake, MoreAxes, AdsAlone, AdsInv, AdsRests, Asked,
       AxesInPlace, Fits, Ask, TypeInv, PortType, AdsType, bounds, port, pcfVars
  <2>3. CASE AdsDelay \/ AdsTake
    BY <1>1, <2>3, Devices DEF AdsDelay, AdsTake, Take, AdsAlone, AdsInv, AdsRests, Asked,
       AxesInPlace, Fits, Ask, TypeInv, PortType, AdsType, bounds, port, pcfVars, analog
  <2>4. CASE AdsSet
    BY <1>1, <2>4, Devices DEF AdsSet, AdsAlone, AdsInv, AdsRests, Asked, AxesInPlace, Fits, Ask,
       TypeInv, PortType, AdsType, bounds, pcfVars, analog
  <2>5. CASE AdsStart
    <3>1. ask \in Transfer /\ ask # None /\ ask.dev = "ads" /\ transfer = None /\ ~hung /\ Fits(ask)
        BY <2>5, Transfers DEF AdsStart, AdsAlone, AdsInv, Fits, Ask, TypeInv, AdsType
    <3>2. transfer' = ask \/ (transfer' = None /\ ~hung')
        BY <2>5, <3>1 DEF AdsStart, Start
    <3>3. /\ UNCHANGED <<semaphore, currentDevice, main, pcfVars, analog, channel, adsLate, adsNotified, ask>>
          /\ ads' = "init" /\ currentDevice = "ads" /\ ~adsNotified /\ ~adsLate
        BY <2>5 DEF AdsStart, Start, AdsAlone, AdsInv
    <3> QED BY <3>1, <3>2, <3>3 DEF AdsAlone, AdsInv, AdsRests, Asked, AxesInPlace, Fits, pcfVars,
               analog
  <2> QED BY <1>5, <2>1, <2>2, <2>3, <2>4, <2>5 DEF AdsStep
<1>6. CASE AdsTimeout
    BY <1>1, <1>6, Devices, Sizes DEF AdsTimeout, Quiet, AdsRuns, Lost, AdsAlone, AdsInv, AdsRests,
       Asked, AxesInPlace, Fits, Ask, TypeInv, PortType, AdsType, bounds, port, pcfVars, analog
<1>7. CASE UNCHANGED vars
    BY <1>7 DEF vars, AdsAlone, AdsInv, AdsRests, Asked, AxesInPlace, Fits, bounds, port, pcfVars,
       buttons, adsVars, analog
<1>8. ~PcfStep /\ ~PcfTimeout /\ \A n \in 1..NChips : ~SetBtnNum(n)
    BY <1>1 DEF PcfStep, PcfWake, PcfStore, PcfTake, PcfStart, PcfTimeout, SetBtnNum, AdsAlone
<1> QED BY <1>2, <1>3, <1>4, <1>5, <1>6, <1>7, <1>8 DEF Next

LEMMA MoreBytes ==
    /\ Bytes(0) = {}
    /\ \A n \in Nat : Bytes(n + 1) = Bytes(n) \union {<<n, n>>}
<1>1. Bytes(0) = {}
    BY DEF Bytes
<1>2. ASSUME NEW n \in Nat PROVE Bytes(n + 1) = Bytes(n) \union {<<n, n>>}
  <2>1. 0..n + 1 - 1 = (0..n-1) \union {n}
      OBVIOUS
  <2> QED BY <2>1 DEF Bytes
<1> QED BY <1>1, <1>2

LEMMA PcfAloneInit == TypeInv /\ Init => PcfAlone
BY Sizes, Devices DEF Init, PcfAlone, PcfInv, Asked

LEMMA PcfAloneNext ==
    ASSUME TypeInv, TypeInv', Alone("pcf"), PcfAlone, [Next]_vars
    PROVE  PcfAlone'
<1>1. Has("pcf") /\ ~Has("ads") /\ ~AdsRuns
    BY DEF Alone, Has, AdsRuns
<1>2. CASE Complete
  <2>1. transfer = Read(lastByte) /\ currentDevice = "pcf" /\ lastData' = lastByte /\ PcfReceived
      BY <1>2, Devices DEF Complete, Moved, PcfAlone, PcfInv, Asked, Read
  <2>2. lastByte \in Nat /\ currentButtons' = Bytes(lastByte + 1)
    <3>1. lastByte \in Nat
        BY Sizes DEF TypeInv, PcfType, Chip
    <3>2. currentButtons = Bytes(lastByte) /\ readingData
        BY <1>2, <2>1 DEF Complete, PcfAlone, PcfInv, Asked, Read
    <3>3. currentButtons' = currentButtons \union {<<lastByte, lastByte>>}
        BY <2>1, <3>2 DEF PcfReceived
    <3> QED BY <3>1, <3>2, <3>3, MoreBytes
  <2> QED BY <1>1, <1>2, <2>1, <2>2, Devices DEF Complete, PcfReceived, Given, PcfAlone, PcfInv,
             Asked, Read, TypeInv, PortType, PcfType, bounds
<1>3. CASE Error
    BY <1>1, <1>3, Devices DEF Error, Reset, PcfAlone, PcfInv, Asked, TypeInv, PortType, PcfType
<1>4. CASE MainStep
  <2>1. CASE ReadButtons
    BY <1>1, <2>1, Devices, Sizes DEF ReadButtons, MainCalls, TimedOut, Free, Reset, NewRound, PcfAlone,
       PcfInv, RoundBegun, Asked, TypeInv, PortType, PcfType, bounds, adsVars, analog
  <2>2. CASE MainTake
    BY <1>1, <2>2, Devices, Sizes DEF MainTake, Take, PcfAlone, PcfInv, RoundBegun, Asked, TypeInv,
       PortType, PcfType, bounds, pcfVars, buttons, adsVars, analog
  <2>3. CASE MainStart
    <3>1. Read(0) # None /\ Read(0).dev = "pcf"
        BY Transfers, Sizes DEF Read
    <3>2. transfer' = Read(0) \/ (transfer' = None /\ ~hung')
        BY <2>3 DEF MainStart, Start, PcfAlone, PcfInv, RoundBegun
    <3> QED BY <2>3, <3>1, <3>2, MoreBytes DEF MainStart, Start, PcfAlone, PcfInv, RoundBegun,
               Asked, pcfVars, buttons, adsVars, analog
  <2> QED BY <1>1, <1>4, <2>1, <2>2, <2>3 DEF MainStep, GetAxes
<1>5. CASE PcfStep
  <2>1. CASE PcfWake
    <3>1. /\ main = "idle" /\ readingData /\ pcf = "wait" /\ ~Asked("pcf") /\ ~pcfLate /\ semaphore /\ transfer = None
          /\ currentButtons = Bytes(lastByte + 1) /\ ~hung
        BY <2>1 DEF PcfWake, PcfAlone, PcfInv, Asked
    <3>2. UNCHANGED <<scenario, semaphore, transfer, hung, main, currentButtons, pcfLate, adsVars>> /\ ~pcfNotified'
        BY <2>1 DEF PcfWake, bounds
    <3>3. CASE lastByte + 1 < numBytes
        BY <2>1, <3>1, <3>2, <3>3, Devices DEF PcfWake, PcfAlone, PcfInv, Asked, adsVars, analog
    <3>4. CASE ~(lastByte + 1 < numBytes)
      <4>1. lastByte + 1 \in 1..NChips
          BY Sizes DEF TypeInv, PcfType, Chip
      <4>2. pcf' = "store" /\ ~readingData' /\ currentDevice' = currentDevice
          BY <2>1, <3>4 DEF PcfWake
      <4> QED BY <3>1, <3>2, <4>1, <4>2 DEF PcfAlone, PcfInv, Asked, adsVars, analog
    <3> QED BY <3>3, <3>4
  <2>2. CASE PcfStore
    BY <1>1, <2>2 DEF PcfStore, PcfAlone, PcfInv, RoundBegun, Asked, TypeInv, PortType, PcfType,
       bounds, port, adsVars, analog
  <2>3. CASE PcfTake
    BY <1>1, <2>3 DEF PcfTake, Take, PcfAlone, PcfInv, RoundBegun, Asked, TypeInv, PortType,
       PcfType, bounds, buttons, adsVars, analog
  <2>4. CASE PcfStart
    <3>1. Read(chip) # None /\ Read(chip).dev = "pcf"
        BY Transfers DEF Read, TypeInv, PcfType
    <3>2. transfer' = Read(chip) \/ (transfer' = None /\ ~hung')
        BY <2>4 DEF PcfStart, Start, PcfAlone, PcfInv, Asked
    <3> QED BY <2>4, <3>1, <3>2 DEF PcfStart, Start, PcfAlone, PcfInv, RoundBegun, Asked, buttons,
               adsVars, analog
  <2> QED BY <1>5, <2>1, <2>2, <2>3, <2>4 DEF PcfStep
<1>6. CASE PcfTimeout
    BY <1>1, <1>6, Devices DEF PcfTimeout, Quiet, MainRuns, PcfRuns, Lost, PcfAlone, PcfInv,
       RoundBegun, Asked, TypeInv, PortType, PcfType, bounds, port, buttons, adsVars, analog
<1>7. CASE \E n \in 1..NChips : SetBtnNum(n)
    BY <1>1, <1>7, Devices DEF SetBtnNum, Reset, PcfAlone, PcfInv, RoundBegun, Asked, TypeInv,
       PortType, PcfType, buttons, adsVars, analog
<1>8. CASE UNCHANGED vars
    BY <1>8 DEF vars, PcfAlone, PcfInv, RoundBegun, Asked, bounds, port, pcfVars, buttons, adsVars,
       analog
<1>9. ~AdsStep /\ ~AdsTimeout
    BY <1>1 DEF AdsStep, AdsInit, AdsWake, AdsDelay, AdsTake, AdsSet, AdsStart, AdsTimeout, PcfAlone
<1> QED BY <1>2, <1>3, <1>4, <1>5, <1>6, <1>7, <1>8, <1>9 DEF Next

LEMMA PortInvariant == Spec => []PortInv
<1>1. Init => PortInv
    BY InitType, AdsAloneInit, PcfAloneInit DEF PortInv
<1>2. PortInv /\ [Next]_vars => PortInv'
  <2> SUFFICES ASSUME PortInv, [Next]_vars PROVE PortInv'
      OBVIOUS
  <2>1. TypeInv /\ TypeInv'
      BY NextType DEF PortInv
  <2>2. scenario' = scenario
      BY DEF Next, Complete, Error, MainStep, ReadButtons, MainTake, MainStart, GetAxes, AdsStep,
         AdsInit, AdsWake,
             AdsDelay, AdsTake, AdsSet, AdsStart, PcfStep, PcfWake, PcfStore, PcfTake, PcfStart, SetBtnNum,
             PcfTimeout, AdsTimeout, Start, vars, bounds
  <2>3. /\ Alone("ads")' = Alone("ads") /\ Alone("pcf")' = Alone("pcf")
      BY <2>2 DEF Alone
  <2> QED BY <2>1, <2>3, AdsAloneNext, PcfAloneNext DEF PortInv
<1> QED BY <1>1, <1>2, PTL DEF Spec

\* One device has the port to itself.
Single(s) == s.devices \in {{"pcf"}, {"ads"}}

\* The value of an axis is a sample of its own channel, for any number of axes,
\* through refused, hung and failed transfers, timeouts and resets of the state
\* machine, if one device has the port to itself.
THEOREM SamplesInPlace == Spec => [](Single(scenario) => AxesInPlace)
<1>1. PortInv => (Single(scenario) => AxesInPlace)
    BY DEF PortInv, Single, Alone, AdsAlone, PcfAlone, AxesInPlace
<1> QED BY <1>1, PortInvariant, PTL

\* The completion of a transfer reaches the device that has started it, for any
\* number of chips and axes, through refused, hung and failed transfers, timeouts
\* and resets, for a device that has the port to itself: a round that is given up
\* and begun anew leaves no transfer behind whose end would empty currentDevice
\* under the next one.  With a second device it is false, see AnswerToAsker.
THEOREM AnswersFindAsker == (\A s \in Scenarios : Single(s)) => (Spec => AnswerToAsker)
<1> SUFFICES ASSUME \A s \in Scenarios : Single(s) PROVE Spec => AnswerToAsker
    OBVIOUS
<1>1. PortInv /\ Complete => currentDevice = transfer.dev
  <2> SUFFICES ASSUME PortInv, Complete PROVE currentDevice = transfer.dev
      OBVIOUS
  <2>1. Alone("ads") \/ Alone("pcf")
      BY DEF PortInv, TypeInv, PortType, Single, Alone
  <2>2. transfer # None /\ ~hung /\ transfer.dev \in {"pcf", "ads"}
      BY Transfers DEF Complete, PortInv, TypeInv, PortType
  <2>3. CASE Alone("ads")
      BY <2>2, <2>3 DEF PortInv, AdsAlone, AdsInv, Asked
  <2>4. CASE Alone("pcf")
      BY <2>2, <2>4 DEF PortInv, PcfAlone, PcfInv, Asked
  <2> QED BY <2>1, <2>3, <2>4
<1>2. PortInv => [Complete => currentDevice = transfer.dev]_vars
    BY <1>1
<1> QED BY <1>2, PortInvariant, PTL DEF AnswerToAsker

\* The buttons handed over are those of one whole round, each at the place of
\* its chip, for any number of chips and through any failures, timeouts and
\* changes of the number of buttons in the middle of a round, if the buttons
\* have the port to themselves and the loop does not preempt PcfStore.
THEOREM WholeRounds ==
    (\A s \in Scenarios : Single(s) /\ "store" \notin s.preempts) => (Spec => ButtonsInPlace)
<1> SUFFICES ASSUME \A s \in Scenarios : Single(s) /\ "store" \notin s.preempts PROVE Spec => ButtonsInPlace
    OBVIOUS
<1>1. ASSUME PortInv, PcfStore
      PROVE  \E n \in 1..NChips : lastButtons' = {<<c, c>> : c \in 0..n-1}
  <2>1. "store" \notin scenario.preempts /\ (Alone("ads") \/ Alone("pcf"))
      BY <1>1 DEF PortInv, TypeInv, PortType, Single, Alone
  <2>2. pcf = "store" /\ lastButtons' = currentButtons
      BY <1>1 DEF PcfStore
  <2>3. PcfInv
      BY <1>1, <2>1, <2>2 DEF PortInv, AdsAlone, PcfAlone
  <2> QED BY <2>1, <2>2, <2>3 DEF PcfInv, Bytes
<1>2. PortInv => [PcfStore => \E n \in 1..NChips : lastButtons' = {<<c, c>> : c \in 0..n-1}]_vars
    BY <1>1
<1> QED BY <1>2, PortInvariant, PTL DEF ButtonsInPlace
=============================================================================
