------------------------------- MODULE SpiProofs -------------------------------
(***************************************************************************)
(* What holds of an encoder on its SPI port for every resolution, every    *)
(* range of the shaft and every set of readers and commands, proved with   *)
(* TLAPS.                                                                  *)
(***************************************************************************)
EXTENDS SpiEncoder, TLAPS

\* The constants, with the half turn as a number.
LEMMA Numbers ==
    /\ Cpr \in Nat /\ Cpr > 0 /\ Half \in Nat /\ Half > 0 /\ Cpr = 2 * Half
    /\ Shaft \subseteq Int /\ 0..Cpr-1 \subseteq Shaft /\ 0 \in Shaft /\ None \notin Shaft
BY SpiAssumption DEF Half, Shaft

-----------------------------------------------------------------------------
(* Angles                                                                  *)

LEMMA AngleType ==
    ASSUME NEW s \in Int
    PROVE  s % Cpr \in 0..Cpr-1
BY Numbers

\* An angle and the whole turns below it.
LEMMA Division ==
    ASSUME NEW s \in Int
    PROVE  /\ s \div Cpr \in Int /\ s % Cpr \in 0..Cpr-1
           /\ s = Cpr * (s \div Cpr) + (s % Cpr)
BY Numbers

LEMMA AngleIsInt ==
    ASSUME NEW s \in Int
    PROVE  Angle(s) \in -Half..Cpr-1
BY AngleType, Numbers DEF Angle

LEMMA DecodedType ==
    ASSUME NEW s \in Int, NEW misread \in BOOLEAN
    PROVE  Decoded(s, misread) \subseteq -Half..Cpr-1
BY AngleIsInt, Numbers DEF Decoded

\* Two angles differ as the places of the shaft in its turn do.
LEMMA AngleShift ==
    ASSUME NEW s \in Int, NEW t \in Int
    PROVE  /\ Turned(Angle(s), Angle(t)) = Turned(s % Cpr, t % Cpr)
           /\ Angle(s) - Angle(t) = (s % Cpr) - (t % Cpr)
<1>1. s % Cpr \in Int /\ t % Cpr \in Int /\ Half \in Int
    BY AngleType, Numbers
<1> QED BY <1>1 DEF Turned, Angle

LEMMA TurnedType ==
    ASSUME NEW a, NEW b
    PROVE  Turned(a, b) \in {-1, 0, 1}
BY DEF Turned

LEMMA Times ==
    ASSUME NEW t \in Int, NEW d \in {-1, 0, 1}
    PROVE  t * Cpr \in Int /\ (t + d) * Cpr = t * Cpr + d * Cpr
           /\ d * Cpr = IF d = 0 THEN 0 ELSE IF d = 1 THEN Cpr ELSE -Cpr
BY Numbers

\* Counting steps over zero recovers the way of the shaft, if that is less than
\* half a turn.
LEMMA TurnedCounts ==
    ASSUME NEW s \in Int, NEW t \in Int, Near(s, t)
    PROVE  Turned(s % Cpr, t % Cpr) * Cpr + (s % Cpr) - (t % Cpr) = s - t
<1> DEFINE q == s \div Cpr
           p == t \div Cpr
           a == s % Cpr
           b == t % Cpr
<1>1. q \in Int /\ p \in Int /\ a \in 0..Cpr-1 /\ b \in 0..Cpr-1
    BY Division
<1>2. s = Cpr * q + a /\ t = Cpr * p + b
    BY Division
<1>3. s - t < Half /\ t - s < Half
    BY DEF Near
<1> HIDE DEF q, p, a, b
<1>4. Cpr * q - Cpr * p = Cpr * (q - p) /\ Cpr * (q - p) \in Int
    BY <1>1, Numbers
<1>5. s - t = Cpr * (q - p) + (a - b)
    BY <1>1, <1>2, <1>4, Numbers
<1>6. q - p \in {-1, 0, 1}
  <2>1. ASSUME q - p >= 2 PROVE FALSE
    <3>1. Cpr * (q - p) >= Cpr + Cpr
        BY <1>1, <2>1, Numbers
    <3> QED BY <1>1, <1>3, <1>4, <1>5, <3>1, Numbers
  <2>2. ASSUME q - p <= -2 PROVE FALSE
    <3>1. Cpr * (q - p) <= -(Cpr + Cpr)
        BY <1>1, <2>2, Numbers
    <3> QED BY <1>1, <1>3, <1>4, <1>5, <3>1, Numbers
  <2> QED BY <1>1, <2>1, <2>2
<1>7. Turned(a, b) * Cpr + a - b = s - t
  <2>1. CASE q - p = 0
    <3>1. s - t = a - b
        BY <1>1, <1>5, <2>1, Numbers
    <3>2. Turned(a, b) = 0
        BY <1>1, <1>3, <3>1, Numbers DEF Turned
    <3> QED BY <1>1, <3>1, <3>2, Numbers
  <2>2. CASE q - p = 1
    <3>1. s - t = Cpr + (a - b)
        BY <1>1, <1>5, <2>2, Numbers
    <3>2. Turned(a, b) = 1
        BY <1>1, <1>3, <3>1, Numbers DEF Turned
    <3> QED BY <1>1, <3>1, <3>2, Numbers
  <2>3. CASE q - p = -1
    <3>1. s - t = (a - b) - Cpr
        BY <1>1, <1>5, <2>3, Numbers
    <3>2. Turned(a, b) = -1
        BY <1>1, <1>3, <3>1, Numbers DEF Turned
    <3> QED BY <1>1, <3>1, <3>2, Numbers
  <2> QED BY <1>6, <2>1, <2>2, <2>3
<1> QED BY <1>7 DEF a, b

-----------------------------------------------------------------------------
(* Type correctness                                                        *)

Places == {"idle", "set", "give", "wait", "begin", "device", "start",
           "take", "register", "turns", "offset"}

LEMMA AtType ==
    ASSUME pc \in [Reader -> Places], NEW r \in Reader, NEW from, NEW to \in Places, At(r, from, to)
    PROVE  pc' \in [Reader -> Places]
BY DEF At

LEMMA AnglesAreInt ==
    ASSUME TypeOK
    PROVE  angle \in Int /\ diff \in Int /\ turns \in Int /\ offset \in Int /\ centre \in Int
<1>1. angle \in -Half..Cpr-1 /\ diff \in -Half..Cpr-1
    BY DEF TypeOK
<1>2. turns \in Int /\ offset \in Int /\ centre \in Int
    BY DEF TypeOK
<1> QED BY <1>1, <1>2, Numbers

LEMMA ScenarioType ==
    ASSUME scenario \in Scenarios
    PROVE  /\ Kind \in {"mt", "biss", "ssi"} /\ scenario.bad \in Nat /\ scenario.errors \in Nat
           /\ scenario \in Scenario
BY SpiAssumption DEF Scenario, Kind

LEMMA AcceptType ==
    ASSUME TypeOK, NEW s \in Shaft, NEW a \in -Half..Cpr-1, Accept(s, a), UNCHANGED offset
    PROVE  /\ angle' \in -Half..Cpr-1 /\ turns' \in Int /\ centre' \in Int
           /\ sampled' \in Shaft \union {None}
<1>1. s \in Int /\ a \in Int
    BY Numbers
<1>2. Turned(a, LastPos) \in Int
    BY TurnedType
<1>3. angle' \in -Half..Cpr-1 /\ angle' \in Int /\ turns' \in Int
    BY <1>1, <1>2 DEF Accept, TypeOK
<1>4. turns' * Cpr \in Int
    BY <1>3, Numbers
<1>5. s - (turns' * Cpr + angle' - offset) \in Int
    BY <1>1, <1>3, <1>4, Numbers DEF TypeOK
<1> QED BY <1>3, <1>5 DEF Accept, TypeOK

LEMMA EvaluateType ==
    ASSUME TypeOK, NEW s \in Shaft \union {None}, NEW misread \in BOOLEAN, Evaluate(s, misread),
           UNCHANGED offset
    PROVE  /\ angle' \in -Half..Cpr-1 /\ turns' \in Int /\ centre' \in Int
           /\ sampled' \in Shaft \union {None}
<1>1. CASE s = None
    BY <1>1 DEF Evaluate, position, TypeOK
<1>2. CASE s # None
  <2>1. PICK a \in Decoded(s, misread) : Accept(s, a)
      BY <1>2 DEF Evaluate
  <2>2. s \in Shaft /\ s \in Int
      BY <1>2, Numbers
  <2>3. a \in -Half..Cpr-1
      BY <2>1, <2>2, DecodedType
  <2> QED BY <2>1, <2>2, <2>3, AcceptType
<1> QED BY <1>1, <1>2

LEMMA InitType == Init => TypeOK
<1> SUFFICES ASSUME Init PROVE TypeOK
    OBVIOUS
<1>1. bad \in 0..scenario.bad /\ errors \in 0..scenario.errors
    BY ScenarioType DEF Init
<1>2. shaft \in Shaft /\ frame \in Shaft /\ offset \in Int
    BY Numbers DEF Init
<1>3. {angle, diff} \subseteq -Half..Cpr-1
    BY Numbers DEF Init
<1>4. pc \in [Reader -> Places]
    BY DEF Init, Places
<1>5. {rxbuf, sampled} \subseteq Shaft \union {None} /\ {turns, offset, centre} \subseteq Int
    BY <1>2 DEF Init
<1>6. {semaphore, currentDevice, busy, requested, updated, notified} \subseteq BOOLEAN
    BY DEF Init
<1>7. scenario \in Scenarios /\ bus \in {"idle", "frame", "register"} /\ enc \in {"idle", "begin", "wait"}
    BY DEF Init
<1> QED BY <1>1, <1>2, <1>3, <1>4, <1>5, <1>6, <1>7 DEF TypeOK, Places

LEMMA EndedType ==
    ASSUME TypeOK, Ended
    PROVE  bus' \in {"idle"} /\ currentDevice' \in BOOLEAN /\ semaphore' \in BOOLEAN /\ frame' \in Shaft
BY Numbers DEF Ended, TypeOK

LEMMA CompleteType == TypeOK /\ Complete => TypeOK'
<1> SUFFICES ASSUME TypeOK, Complete PROVE TypeOK'
    OBVIOUS
<1>1. PICK s \in {frame, None}, misread \in BOOLEAN :
        /\ Received(s, misread)
        /\ IF currentDevice /\ Kind = "ssi" THEN Evaluate(s, misread) /\ busy' = FALSE
                                           ELSE UNCHANGED <<position, busy>>
        /\ IF currentDevice /\ (Kind = "biss" \/ (Kind = "mt" /\ busy))
           THEN notified' = TRUE /\ rxbuf' = s
           ELSE UNCHANGED <<notified, rxbuf>>
    BY DEF Complete
<1>2. s \in Shaft \union {None}
    BY DEF TypeOK
<1>3. /\ angle' \in -Half..Cpr-1 /\ turns' \in Int /\ centre' \in Int
      /\ sampled' \in Shaft \union {None} /\ busy' \in BOOLEAN
  <2>1. CASE currentDevice /\ Kind = "ssi"
    <3>1. UNCHANGED offset
        BY DEF Complete
    <3> QED BY <1>1, <1>2, <2>1, <3>1, EvaluateType
  <2>2. CASE ~(currentDevice /\ Kind = "ssi")
    BY <1>1, <2>2 DEF position, TypeOK
  <2> QED BY <2>1, <2>2
<1>4. notified' \in BOOLEAN /\ rxbuf' \in Shaft \union {None}
    BY <1>1, <1>2 DEF TypeOK
<1>5. bad' \in 0..scenario.bad
    BY <1>1, ScenarioType DEF Received, TypeOK
<1> QED BY <1>3, <1>4, <1>5, EndedType DEF Complete, TypeOK

LEMMA ErrorType == TypeOK /\ Error => TypeOK'
<1> SUFFICES ASSUME TypeOK, Error PROVE TypeOK'
    OBVIOUS
<1>1. errors' \in 0..scenario.errors
    BY ScenarioType DEF Error, TypeOK
<1> QED BY <1>1, EndedType DEF Error, TypeOK, signals, position

LEMMA TurnType == \A s \in Int : TypeOK /\ Turn(s) => TypeOK'
BY DEF TypeOK, Turn, bounds, port, signals, position

LEMMA StartFrameType ==
    ASSUME TypeOK, StartFrame
    PROVE  bus' \in {"idle", "frame", "register"} /\ frame' \in Shaft
BY DEF StartFrame, TypeOK

LEMMA EncStepType == TypeOK /\ EncStep => TypeOK'
<1> SUFFICES ASSUME TypeOK, EncStep PROVE TypeOK'
    OBVIOUS
<1>1. CASE EncTake
    BY <1>1 DEF EncTake, TypeOK, bounds, port, position
<1>2. CASE EncStart
    BY <1>2, StartFrameType DEF EncStart, TypeOK, bounds, position
<1>3. CASE EncUpdate
  <2>1. /\ angle' \in -Half..Cpr-1 /\ turns' \in Int /\ centre' \in Int
        /\ sampled' \in Shaft \union {None}
      BY <1>3, EvaluateType DEF EncUpdate, TypeOK
  <2> QED BY <1>3, <2>1 DEF EncUpdate, BusyAfter, TypeOK, bounds, port
<1> QED BY <1>1, <1>2, <1>3 DEF EncStep

LEMMA ReadStepType == \A r \in Reader : TypeOK /\ ReadStep(r) => TypeOK'
<1> SUFFICES ASSUME NEW r \in Reader, TypeOK, ReadStep(r) PROVE TypeOK'
    OBVIOUS
<1>0. pc \in [Reader -> Places]
    BY DEF TypeOK, Places
<1>1. pc' \in [Reader -> Places]
    BY <1>0, AtType DEF ReadStep, Read, Set, Give, Wait, Begin, SetDevice, StartDMA, Places
<1>2. CASE Read(r) \/ Set(r) \/ Give(r) \/ Wait(r) \/ Begin(r) \/ SetDevice(r)
    BY <1>1, <1>2 DEF Read, Set, Give, Wait, Begin, SetDevice, TypeOK, Places, bounds, port, signals, position
<1>3. CASE StartDMA(r)
    BY <1>1, <1>3, StartFrameType DEF StartDMA, TypeOK, Places, bounds, signals, position
<1> QED BY <1>2, <1>3 DEF ReadStep

LEMMA CmdStepType == TypeOK /\ CmdStep => TypeOK'
<1> SUFFICES ASSUME TypeOK, CmdStep PROVE TypeOK'
    OBVIOUS
<1>0. pc \in [Reader -> Places] /\ "cmd" \in Reader
    BY DEF TypeOK, Places, Reader
<1>1. pc' \in [Reader -> Places]
    BY <1>0, AtType DEF CmdStep, Register, RegisterTake, RegisterEnd, Zero, ZeroBiss, ZeroTurns, ZeroOffset, Places
<1>2. CASE Register \/ RegisterTake \/ RegisterEnd
    BY <1>1, <1>2 DEF Register, RegisterTake, RegisterEnd, TypeOK, Places, bounds, port, signals, position
<1>3. CASE Zero
  <2>1. turns * Cpr \in Int /\ turns * Cpr + angle \in Int /\ angle \in Int
      BY Numbers DEF TypeOK
  <2>2. offset' \in Int /\ centre' \in Int
      BY <1>3, <2>1, Numbers DEF Zero, TypeOK
  <2> QED BY <1>1, <1>3, <2>2 DEF Zero, TypeOK, Places, bounds, port, signals
<1>4. CASE ZeroBiss \/ ZeroTurns
    BY <1>1, <1>4 DEF ZeroBiss, ZeroTurns, TypeOK, Places, bounds, port, signals, position
<1>5. CASE ZeroOffset
  <2>1. offset' \in Int /\ centre' \in Int /\ diff' \in -Half..Cpr-1
    <3>1. 0 \in -Half..Cpr-1
        BY Numbers
    <3>2. sampled \in Shaft \union {None}
        BY DEF TypeOK
    <3>3. sampled # None => sampled \in Int
        BY <3>2, Numbers
    <3>4. diff \in Int /\ centre \in Int /\ diff' \in -Half..Cpr-1
        BY <1>5, <3>1, Numbers DEF ZeroOffset, TypeOK
    <3> QED BY <1>5, <3>3, <3>4 DEF ZeroOffset
  <2> QED BY <1>1, <1>5, <2>1 DEF ZeroOffset, TypeOK, Places, bounds, port, signals
<1> QED BY <1>2, <1>3, <1>4, <1>5 DEF CmdStep

LEMMA TypeStays == TypeOK /\ [Next]_vars => TypeOK'
<1> SUFFICES ASSUME TypeOK, [Next]_vars PROVE TypeOK'
    OBVIOUS
<1>1. ASSUME NEW s \in {shaft - 1, shaft + 1}, Turn(s) PROVE TypeOK'
  <2>1. s \in Int
      BY Numbers DEF TypeOK
  <2> QED BY <1>1, <2>1, TurnType
<1>2. CASE UNCHANGED vars
    BY <1>2 DEF vars, TypeOK, bounds, port, signals, position
<1> QED BY <1>1, <1>2, CompleteType, ErrorType, EncStepType, ReadStepType, CmdStepType DEF Next

\* Every variable keeps its type.
THEOREM TypeCorrect == Spec => []TypeOK
BY InitType, TypeStays, PTL DEF Spec

-----------------------------------------------------------------------------
(* The bus                                                                 *)

\* Where a thread may be with the encoder there is.
PlacesOf(r) ==
    /\ Kind = "mt" => pc[r] \in {"idle", "set", "give", "wait", "take", "register"}
    /\ Kind = "biss" => pc[r] \in {"idle", "give", "wait", "turns", "offset"}
    /\ Kind = "ssi" => pc[r] \in {"idle", "begin", "device", "start"}

\* Who holds the bus: with MagnTek whoever took the semaphore, with BISS-C the
\* thread of the encoder from its start of a frame to the notification.
BusHeld ==
    /\ Kind = "mt" /\ bus # "idle" => ~semaphore
    /\ Kind # "mt" => bus # "register"
    /\ Kind # "ssi" => /\ bus = "frame" => enc = "wait" /\ ~notified
                       /\ notified => enc = "wait"
    /\ Kind = "ssi" => enc = "idle" /\ ~requested /\ ~notified
    /\ rxbuf # None => notified

\* Readers are those of the scenario; the only one of an SSI encoder begins a frame
\* when the last one has ended.
OneAtATime ==
    /\ \A r \in Reader : pc[r] \in {"begin", "device", "start"} => r \in scenario.readers
    /\ Kind = "ssi" /\ OneReader =>
        /\ bus = "frame" => busy
        /\ bus = "frame" => \A r \in Reader : pc[r] \notin {"begin", "device", "start"}
        /\ \A r \in Reader : pc[r] \in {"device", "start"} => busy

BusInv == TypeOK /\ (\A r \in Reader : PlacesOf(r)) /\ BusHeld /\ OneAtATime

\* What the encoder has seen of the shaft is less than half a turn away.
Seen ==
    /\ sampled # None => Near(shaft, sampled)
    /\ bus = "frame" => Near(shaft, frame)
    /\ rxbuf # None => Near(shaft, rxbuf)
    /\ sampled # None /\ bus = "frame" => Near(frame, sampled)
    /\ sampled # None /\ rxbuf # None => Near(rxbuf, sampled)

\* While BISS-C is set to zero the shaft rests, and every frame shows it there.
Resting ==
    pc["cmd"] \in {"turns", "offset"} =>
        /\ "zeroAtRest" \in scenario.commands
        /\ sampled = shaft /\ diff = angle
        /\ bus = "frame" => frame = shaft
        /\ rxbuf \in {shaft, None}
        /\ pc["cmd"] = "offset" => turns = 0

Counted == Faithful /\ sampled # None => angle = Angle(sampled)

LEMMA ScenarioStays == [Next]_vars => UNCHANGED scenario
BY DEF Next, vars, bounds, Turn, Complete, Error, EncStep, EncTake, EncStart, EncUpdate,
       ReadStep, Read, Set, Give, Wait, Begin, SetDevice, StartDMA,
       CmdStep, Register, RegisterTake, RegisterEnd, Zero, ZeroBiss, ZeroTurns, ZeroOffset

LEMMA PlaceStays ==
    ASSUME TypeOK, \A r \in Reader : PlacesOf(r), UNCHANGED scenario,
           NEW q \in Reader, NEW from, NEW to, At(q, from, to),
           /\ Kind = "mt" => to \in {"idle", "set", "give", "wait", "take", "register"}
           /\ Kind = "biss" => to \in {"idle", "give", "wait", "turns", "offset"}
           /\ Kind = "ssi" => to \in {"idle", "begin", "device", "start"}
    PROVE  \A r \in Reader : PlacesOf(r)'
<1>1. pc \in [Reader -> Places] /\ UNCHANGED Kind
    BY DEF TypeOK, Places, Kind
<1>2. \A r \in Reader : pc'[r] = pc[r] \/ (r = q /\ pc'[r] = to)
    BY <1>1 DEF At
<1> QED BY <1>1, <1>2 DEF PlacesOf

LEMMA PlacesStay ==
    ASSUME TypeOK, \A r \in Reader : PlacesOf(r), [Next]_vars
    PROVE  \A r \in Reader : PlacesOf(r)'
<1>0. UNCHANGED scenario /\ Kind \in {"mt", "biss", "ssi"}
    BY ScenarioStays, ScenarioType DEF TypeOK
<1>1. CASE UNCHANGED pc
    BY <1>0, <1>1 DEF PlacesOf, Kind
<1>2. ASSUME NEW r \in Reader, ReadStep(r) PROVE \A q \in Reader : PlacesOf(q)'
  <2>0. PlacesOf(r)
      OBVIOUS
  <2>1. CASE Read(r)
      BY <1>0, <2>1, PlaceStays DEF Read
  <2>2. CASE Set(r)
      BY <1>0, <2>0, <2>2, PlaceStays DEF Set, At, PlacesOf
  <2>3. CASE Give(r)
      BY <1>0, <2>0, <2>3, PlaceStays DEF Give, At, PlacesOf
  <2>4. CASE Wait(r)
      BY <1>0, <2>0, <2>4, PlaceStays DEF Wait, At, PlacesOf
  <2>5. CASE Begin(r)
      BY <1>0, <2>0, <2>5, PlaceStays DEF Begin, At, PlacesOf
  <2>6. CASE SetDevice(r)
      BY <1>0, <2>0, <2>6, PlaceStays DEF SetDevice, At, PlacesOf
  <2>7. CASE StartDMA(r)
      BY <1>0, <2>0, <2>7, PlaceStays DEF StartDMA, At, PlacesOf
  <2> QED BY <1>2, <2>1, <2>2, <2>3, <2>4, <2>5, <2>6, <2>7 DEF ReadStep
<1>3. CASE CmdStep
  <2>0. "cmd" \in Reader /\ PlacesOf("cmd")
      BY DEF Reader
  <2>1. CASE Register
      BY <1>0, <2>0, <2>1, PlaceStays DEF Register
  <2>2. CASE RegisterTake
      BY <1>0, <2>0, <2>2, PlaceStays DEF RegisterTake, At, PlacesOf
  <2>3. CASE RegisterEnd \/ Zero \/ ZeroOffset
      BY <1>0, <2>0, <2>3, PlaceStays DEF RegisterEnd, Zero, ZeroOffset
  <2>4. CASE ZeroBiss
      BY <1>0, <2>0, <2>4, PlaceStays DEF ZeroBiss
  <2>5. CASE ZeroTurns
      BY <1>0, <2>0, <2>5, PlaceStays DEF ZeroTurns, At, PlacesOf
  <2> QED BY <1>3, <2>1, <2>2, <2>3, <2>4, <2>5 DEF CmdStep
<1> QED BY <1>1, <1>2, <1>3 DEF Next, vars, Turn, Complete, Error, EncStep, EncTake, EncStart, EncUpdate

LEMMA BusHeldStays ==
    ASSUME BusInv, [Next]_vars
    PROVE  BusHeld'
<1>0. /\ UNCHANGED scenario /\ UNCHANGED Kind /\ Kind \in {"mt", "biss", "ssi"}
      /\ BusHeld /\ bus \in {"idle", "frame", "register"}
    BY ScenarioStays, ScenarioType DEF BusInv, TypeOK, Kind
<1>1. CASE UNCHANGED <<semaphore, bus, requested, notified, rxbuf, enc>>
    BY <1>0, <1>1 DEF BusHeld
<1>2. CASE Complete
    BY <1>0, <1>2 DEF BusHeld, Complete, Ended
<1>3. CASE Error
    BY <1>0, <1>3 DEF BusHeld, Error, Ended, signals
<1>4. CASE EncTake
    BY <1>0, <1>4 DEF BusHeld, EncTake, port
<1>5. CASE EncStart
    BY <1>0, <1>5 DEF BusHeld, EncStart, StartFrame
<1>6. CASE EncUpdate
    BY <1>0, <1>6 DEF BusHeld, EncUpdate, port
<1>7. ASSUME NEW r \in Reader, ReadStep(r) PROVE BusHeld'
  <2>0. PlacesOf(r)
      BY DEF BusInv
  <2>1. CASE Read(r) \/ Set(r) \/ Wait(r) \/ Begin(r) \/ SetDevice(r)
      BY <1>1, <2>1 DEF Read, Set, Wait, Begin, SetDevice, port, signals
  <2>2. CASE Give(r)
      BY <1>0, <2>0, <2>2 DEF BusHeld, Give, At, PlacesOf, port
  <2>3. CASE StartDMA(r)
      BY <1>0, <2>0, <2>3 DEF BusHeld, StartDMA, StartFrame, At, PlacesOf, signals
  <2> QED BY <1>7, <2>1, <2>2, <2>3 DEF ReadStep
<1>8. CASE CmdStep
  <2>0. PlacesOf("cmd")
      BY DEF BusInv, Reader
  <2>1. CASE Register \/ Zero \/ ZeroBiss \/ ZeroTurns \/ ZeroOffset
      BY <1>1, <2>1 DEF Register, Zero, ZeroBiss, ZeroTurns, ZeroOffset, port, signals
  <2>2. CASE RegisterTake
      BY <1>0, <2>0, <2>2 DEF BusHeld, RegisterTake, At, PlacesOf, signals
  <2>3. CASE RegisterEnd
      BY <1>0, <2>0, <2>3 DEF BusHeld, RegisterEnd, At, PlacesOf, signals
  <2> QED BY <1>8, <2>1, <2>2, <2>3 DEF CmdStep
<1>9. ASSUME NEW s, Turn(s) PROVE BusHeld'
    BY <1>1, <1>9 DEF Turn, port, signals
<1>10. CASE UNCHANGED vars
    BY <1>1, <1>10 DEF vars, port, signals
<1> QED BY <1>2, <1>3, <1>4, <1>5, <1>6, <1>7, <1>8, <1>9, <1>10 DEF Next, EncStep

LEMMA OneAtATimeStays ==
    ASSUME BusInv, [Next]_vars
    PROVE  OneAtATime'
<1>0. /\ UNCHANGED scenario /\ UNCHANGED Kind /\ UNCHANGED OneReader
      /\ OneAtATime /\ BusHeld /\ bus \in {"idle", "frame", "register"}
      /\ pc \in [Reader -> Places]
    BY ScenarioStays DEF BusInv, TypeOK, Kind, OneReader, Places
<1>1. CASE UNCHANGED <<bus, busy, pc>>
    BY <1>0, <1>1 DEF OneAtATime
<1>2. CASE Complete \/ Error
    BY <1>0, <1>2 DEF OneAtATime, Complete, Error, Ended
<1>3. CASE EncStep
  <2>1. Kind # "ssi" /\ UNCHANGED pc
      BY <1>0, <1>3 DEF BusHeld, EncStep, EncTake, EncStart, EncUpdate
  <2> QED BY <1>0, <2>1 DEF OneAtATime
<1>4. ASSUME NEW r \in Reader, ReadStep(r) PROVE OneAtATime'
  <2>1. CASE Read(r)
      BY <1>0, <2>1 DEF Read, At, OneAtATime, port
  <2>2. CASE Set(r) \/ Give(r) \/ Wait(r)
    <3>1. Kind # "ssi" /\ PlacesOf(r)
        BY <2>2 DEF BusInv, PlacesOf, Set, Give, Wait, At
    <3>2. \A q \in Reader : pc'[q] \in {"begin", "device", "start"} => pc'[q] = pc[q]
        BY <1>0, <2>2 DEF Set, Give, Wait, At
    <3> QED BY <1>0, <3>1, <3>2 DEF OneAtATime
  <2>3. CASE Begin(r) \/ SetDevice(r)
      BY <1>0, <2>3 DEF Begin, SetDevice, At, OneAtATime, port
  <2>4. CASE StartDMA(r)
    <3>1. /\ r \in scenario.readers /\ pc[r] = "start" /\ UNCHANGED busy
          /\ \A q \in Reader : pc'[q] = IF q = r THEN "idle" ELSE pc[q]
        BY <1>0, <2>4 DEF StartDMA, At, OneAtATime
    <3>2. ASSUME Kind = "ssi", OneReader, NEW q \in Reader,
                 pc'[q] \in {"begin", "device", "start"}
          PROVE  FALSE
      <4>1. pc[q] \in {"begin", "device", "start"} /\ q # r
          BY <3>1, <3>2
      <4>2. q \in scenario.readers
          BY <1>0, <4>1 DEF OneAtATime
      <4> QED BY <3>1, <3>2, <4>1, <4>2 DEF OneReader
    <3>3. \A q \in Reader : pc'[q] \in {"begin", "device", "start"} => q \in scenario'.readers
        BY <1>0, <3>1 DEF OneAtATime
    <3>4. Kind = "ssi" /\ OneReader => busy
        BY <1>0, <3>1 DEF OneAtATime
    <3> QED BY <1>0, <3>1, <3>2, <3>3, <3>4 DEF OneAtATime
  <2> QED BY <1>4, <2>1, <2>2, <2>3, <2>4 DEF ReadStep
<1>5. CASE CmdStep
  <2>1. \A q \in Reader : pc'[q] \in {"begin", "device", "start"} => pc'[q] = pc[q]
      BY <1>0, <1>5 DEF CmdStep, Register, RegisterTake, RegisterEnd, Zero, ZeroBiss, ZeroTurns,
                        ZeroOffset, At
  <2>2. UNCHANGED busy /\ (bus' = "frame" => bus = "frame")
      BY <1>0, <1>5 DEF CmdStep, Register, RegisterTake, RegisterEnd, Zero, ZeroBiss, ZeroTurns,
                        ZeroOffset, port
  <2> QED BY <1>0, <2>1, <2>2 DEF OneAtATime
<1>6. ASSUME NEW s, Turn(s) PROVE OneAtATime'
    BY <1>1, <1>6 DEF Turn, port
<1>7. CASE UNCHANGED vars
    BY <1>1, <1>7 DEF vars, port
<1> QED BY <1>2, <1>3, <1>4, <1>5, <1>6, <1>7 DEF Next

LEMMA BusInvStays == BusInv /\ [Next]_vars => BusInv'
BY TypeStays, PlacesStay, BusHeldStays, OneAtATimeStays DEF BusInv

LEMMA BusInvInit == Init => BusInv
<1> SUFFICES ASSUME Init PROVE BusInv
    OBVIOUS
<1>1. \A r \in Reader : PlacesOf(r)
    BY DEF Init, PlacesOf
<1>2. BusHeld
    BY DEF Init, BusHeld
<1>3. OneAtATime
    BY DEF Init, OneAtATime
<1> QED BY InitType, <1>1, <1>2, <1>3 DEF BusInv

\* No thread begins to use the bus while it is in use: neither the thread of the
\* encoder nor a command, and with SSI not its reader, if there is only one.
THEOREM Alone == Spec => AloneOnBus
<1> DEFINE Uses == EncStart \/ RegisterTake \/ (OneReader /\ \E r \in Reader : StartDMA(r))
<1>1. BusInv /\ [Next]_vars => [Uses => bus = "idle"]_vars
  <2> SUFFICES ASSUME BusInv, Uses PROVE bus = "idle"
      OBVIOUS
  <2>1. Kind \in {"mt", "biss", "ssi"} /\ PlacesOf("cmd") /\ BusHeld /\ bus \in {"idle", "frame", "register"}
      BY ScenarioType DEF BusInv, TypeOK, Reader
  <2>2. CASE EncStart
      BY <2>1, <2>2 DEF EncStart, BusHeld
  <2>3. CASE RegisterTake
      BY <2>1, <2>3 DEF RegisterTake, At, PlacesOf, BusHeld
  <2>4. CASE OneReader /\ \E r \in Reader : StartDMA(r)
    <3>1. PICK r \in Reader : StartDMA(r)
        BY <2>4
    <3>2. Kind = "ssi" /\ pc[r] = "start" /\ PlacesOf(r)
        BY <2>1, <3>1 DEF BusInv, PlacesOf, StartDMA, At
    <3> QED BY <2>1, <2>4, <3>2 DEF BusInv, OneAtATime, BusHeld
  <2> QED BY <2>2, <2>3, <2>4
<1>2. Spec => []BusInv
    BY BusInvInit, BusInvStays, PTL DEF Spec
<1> QED BY <1>1, <1>2, PTL DEF Spec, AloneOnBus

-----------------------------------------------------------------------------
(* The turns of the shaft                                                  *)

\* BISS-C is set to zero only while the shaft rests, SSI not at all.
CentredAtRest == \A s \in Scenarios : "zero" \in s.commands => s.kind = "mt"

LEMMA SeenStays ==
    ASSUME BusInv, Seen, [Next]_vars
    PROVE  Seen'
<1>0. /\ Kind \in {"mt", "biss", "ssi"} /\ BusHeld /\ frame \in Shaft /\ shaft \in Shaft
      /\ frame # None /\ Near(shaft, shaft)
    BY ScenarioType, Numbers DEF BusInv, TypeOK, Near
<1>1. CASE UNCHANGED <<shaft, sampled, rxbuf, frame>> /\ (bus' = "frame" => bus = "frame")
    BY <1>1 DEF Seen, Near
<1>2. CASE UNCHANGED <<shaft, sampled, rxbuf>> /\ StartFrame
    BY <1>0, <1>2 DEF Seen, StartFrame, Near
<1>3. CASE Complete
  <2>1. PICK s \in {frame, None}, misread \in BOOLEAN :
          /\ IF currentDevice /\ Kind = "ssi" THEN Evaluate(s, misread) ELSE UNCHANGED position
          /\ IF currentDevice /\ (Kind = "biss" \/ (Kind = "mt" /\ busy)) THEN rxbuf' = s ELSE UNCHANGED rxbuf
      BY <1>3 DEF Complete
  <2>2. bus = "frame" /\ bus' = "idle" /\ UNCHANGED shaft
      BY <1>3 DEF Complete, Ended
  <2>3. CASE currentDevice /\ Kind = "ssi"
      BY <1>0, <2>1, <2>2, <2>3 DEF Seen, Near, BusHeld, Evaluate, Accept, position
  <2>4. CASE ~(currentDevice /\ Kind = "ssi")
      BY <1>0, <2>1, <2>2, <2>4 DEF Seen, Near, position
  <2> QED BY <2>3, <2>4
<1>4. CASE EncUpdate
  <2>1. bus # "frame" /\ UNCHANGED <<shaft, bus, frame>> /\ rxbuf' = None /\ Evaluate(rxbuf, FALSE)
      BY <1>0, <1>4 DEF EncUpdate, BusHeld, port
  <2> QED BY <2>1 DEF Seen, Near, Evaluate, Accept, position
<1>5. ASSUME NEW s, Turn(s) PROVE Seen'
    BY <1>5 DEF Turn, Seen, Near, port, signals, position
<1>6. CASE Error \/ EncTake \/ CmdStep \/ UNCHANGED vars
  <2>1. CASE Error
      BY <1>1, <2>1 DEF Error, Ended, signals, position, Seen
  <2>2. CASE EncTake \/ UNCHANGED vars
      BY <1>1, <2>2 DEF EncTake, vars, port, signals, position
  <2>3. CASE Register \/ RegisterTake \/ RegisterEnd
      BY <1>1, <2>3 DEF Register, RegisterTake, RegisterEnd, port, signals, position
  <2>4. CASE Zero \/ ZeroBiss \/ ZeroTurns \/ ZeroOffset
    <3>1. UNCHANGED <<shaft, sampled, port, signals>>
      <4>1. CASE Zero
          BY <4>1 DEF Zero
      <4>2. CASE ZeroBiss
          BY <4>2 DEF ZeroBiss, position
      <4>3. CASE ZeroTurns \/ ZeroOffset
          BY <4>3 DEF ZeroTurns, ZeroOffset
      <4> QED BY <2>4, <4>1, <4>2, <4>3
    <3> QED BY <1>1, <3>1 DEF port, signals
  <2> QED BY <1>6, <2>1, <2>2, <2>3, <2>4 DEF CmdStep
<1>7. CASE EncStart
    BY <1>2, <1>7 DEF EncStart, position
<1>8. ASSUME NEW r \in Reader, ReadStep(r) PROVE Seen'
  <2>1. CASE StartDMA(r)
      BY <1>2, <2>1 DEF StartDMA, signals, position
  <2>2. CASE Read(r) \/ Set(r) \/ Give(r) \/ Wait(r) \/ Begin(r) \/ SetDevice(r)
      BY <1>1, <2>2 DEF Read, Set, Give, Wait, Begin, SetDevice, port, signals, position
  <2> QED BY <1>8, <2>1, <2>2 DEF ReadStep
<1> QED BY <1>3, <1>4, <1>5, <1>6, <1>7, <1>8 DEF Next, EncStep

\* What counting a frame does: the first sets the centre, the others add what the shaft has turned.
LEMMA AcceptCounts ==
    ASSUME TypeOK, Faithful, Counted, NEW s \in Shaft, sampled # None => Near(s, sampled),
           Accept(s, Angle(s)), UNCHANGED offset
    PROVE  /\ angle' = Angle(s) /\ sampled' = s
           /\ sampled = None => Position' = sampled' - centre'
           /\ sampled # None => Position' = Position + (s - sampled) /\ centre' = centre
           /\ s = sampled => turns' = turns
<1>1. s \in Int /\ Angle(s) \in Int /\ angle \in Int /\ turns \in Int /\ offset \in Int
  <2>1. s \in Int
      BY Numbers
  <2>2. Angle(s) \in -Half..Cpr-1
      BY <2>1, AngleIsInt
  <2> QED BY <2>1, <2>2, Numbers, AnglesAreInt
<1>2. angle' = Angle(s) /\ sampled' = s /\ turns' = turns + Turned(Angle(s), LastPos)
    BY DEF Accept
<1>3. /\ turns * Cpr \in Int
      /\ turns' * Cpr = turns * Cpr + Turned(Angle(s), LastPos) * Cpr
      /\ turns' * Cpr \in Int /\ Turned(Angle(s), LastPos) * Cpr \in Int
    BY <1>1, <1>2, TurnedType, Times, Numbers
<1>4. CASE sampled = None
  <2>1. centre' = s - (turns' * Cpr + angle' - offset)
      BY <1>4 DEF Accept
  <2>2. Position' = turns' * Cpr + angle' - offset
      BY DEF Position
  <2>3. s # None
      BY Numbers
  <2> QED BY <1>1, <1>2, <1>3, <1>4, <2>1, <2>2, <2>3, Numbers
<1>5. CASE sampled # None
  <2>1. sampled \in Shaft /\ sampled \in Int
      BY <1>5, Numbers DEF TypeOK
  <2>2. LastPos = Angle(sampled) /\ angle = Angle(sampled)
      BY <1>5 DEF LastPos, Counted
  <2>3. Turned(Angle(s), LastPos) * Cpr + Angle(s) - angle = s - sampled
      BY <1>1, <1>5, <2>1, <2>2, TurnedCounts, AngleShift
  <2>4. Position = turns * Cpr + angle - offset /\ Position' = turns' * Cpr + Angle(s) - offset
      BY <1>2 DEF Position
  <2>5. Position' = Position + (s - sampled)
    <3>1. ASSUME NEW p \in Int, NEW q \in Int, NEW w \in Int, q = p + w,
                 w + Angle(s) - angle = s - sampled
          PROVE  q + Angle(s) - offset = (p + angle - offset) + (s - sampled)
        BY <1>1, <2>1, <3>1
    <3>2. turns' * Cpr + Angle(s) - offset = (turns * Cpr + angle - offset) + (s - sampled)
        BY <1>3, <2>3, <3>1
    <3> QED BY <2>4, <3>2
  <2>6. s = sampled => turns' = turns
      BY <1>1, <1>2, <2>2, Numbers DEF Turned
  <2> QED BY <1>2, <1>5, <2>5, <2>6 DEF Accept
<1> QED BY <1>4, <1>5

\* The invariants about an encoder that is set to zero, and about its turns.
LEMMA EvaluateKeeps ==
    ASSUME BusInv, Seen, Resting, Counted, TracksShaft,
           NEW s \in Shaft \union {None}, NEW misread \in BOOLEAN, Evaluate(s, misread),
           misread => Amt /\ scenario.misread,
           s # None /\ sampled # None => Near(s, sampled),
           UNCHANGED <<scenario, shaft, offset, pc, diff>>,
           pc["cmd"] \in {"turns", "offset"} => s \in {shaft, None} /\ rxbuf' \in {shaft, None} /\ bus' # "frame"
    PROVE  Resting' /\ Counted' /\ TracksShaft'
<1>0. UNCHANGED Faithful /\ \A t : Angle(t)' = Angle(t)
    BY DEF Faithful, Raw, Amt, Kind, Angle
<1>1. CASE s = None
    BY <1>0, <1>1 DEF Evaluate, position, Resting, Counted, TracksShaft, TracksAlways, Position
<1>3. CASE ~Faithful
  <2>1. Kind = "ssi" /\ PlacesOf("cmd")
      BY <1>3 DEF Faithful, Raw, Amt, BusInv, Reader
  <2> QED BY <1>0, <1>3, <2>1 DEF PlacesOf, Resting, Counted, TracksShaft
<1>2. CASE s # None /\ Faithful
  <2>0. s \in Shaft /\ s \in Int /\ Accept(s, Angle(s)) /\ TypeOK
    <3>1. Decoded(s, misread) = {Angle(s)}
        BY <1>2 DEF Decoded, Faithful
    <3> QED BY <1>2, <3>1, Numbers DEF Evaluate, BusInv
  <2>1. /\ angle' = Angle(s) /\ sampled' = s
        /\ sampled = None => Position' = sampled' - centre'
        /\ sampled # None => Position' = Position + (s - sampled) /\ centre' = centre
        /\ s = sampled => turns' = turns
      BY <1>2, <2>0, AcceptCounts
  <2>2. Counted'
      BY <1>0, <2>1 DEF Counted
  <2>3. Resting'
    <3>1. SUFFICES ASSUME pc["cmd"] \in {"turns", "offset"} PROVE Resting'
        BY DEF Resting
    <3>2. sampled = shaft /\ diff = angle /\ shaft # None /\ s = shaft
        BY <1>2, <3>1, Numbers DEF Resting, BusInv, TypeOK
    <3>3. angle' = angle /\ turns' = turns
        BY <1>2, <2>1, <3>2 DEF Counted
    <3> QED BY <2>1, <3>1, <3>2, <3>3 DEF Resting
  <2>4. TracksShaft'
    <3>1. SUFFICES ASSUME pc["cmd"] \notin {"turns", "offset"}, sampled # None
                   PROVE  Position' = sampled' - centre'
        BY <2>1 DEF TracksShaft, TracksAlways
    <3>0. offset' = offset
        OBVIOUS
    <3>2. /\ turns * Cpr \in Int /\ turns' * Cpr \in Int
          /\ {angle, angle', offset, centre, sampled} \subseteq Int
      <4>1. angle' \in Int /\ turns' \in Int /\ turns \in Int
          BY <2>0, AngleIsInt, AcceptType, Numbers DEF TypeOK
      <4>2. {angle, offset, centre, sampled} \subseteq Int
        <5>1. sampled \in Int
            BY <2>0, <3>1, Numbers DEF TypeOK
        <5> QED BY <2>0, <5>1, AnglesAreInt
      <4> QED BY <4>1, <4>2, Numbers
    <3>3. Position \in Int /\ Position' \in Int
        BY <3>2 DEF Position, TypeOK
    <3>4. Position = sampled - centre
        BY <1>2, <3>1 DEF TracksShaft, TracksAlways
    <3>5. Position' = Position + (s - sampled) /\ centre' = centre /\ sampled' = s
        BY <2>1, <3>1
    <3>6. centre \in Int /\ sampled \in Int /\ s \in Int
        BY <2>0, <3>2
    <3>7. Position' = Position + (s - sampled)
        BY <3>5
    <3>8. Position' = (sampled - centre) + (s - sampled)
        BY <3>4, <3>7
    <3>9. Position' = s - centre
        BY <3>6, <3>8
    <3> QED BY <3>5, <3>9
  <2> QED BY <2>2, <2>3, <2>4
<1> QED BY <1>1, <1>2, <1>3

LEMMA CompleteKeeps ==
    ASSUME BusInv, Seen, Resting, Counted, TracksShaft, Complete
    PROVE  Resting' /\ Counted' /\ TracksShaft'
<1>0. Kind \in {"mt", "biss", "ssi"} /\ (\A r \in Reader : PlacesOf(r)) /\ frame \in Shaft
    BY ScenarioType DEF BusInv, TypeOK
<1>1. PICK s \in {frame, None}, misread \in BOOLEAN :
        /\ misread => Amt /\ scenario.misread
        /\ IF currentDevice /\ Kind = "ssi" THEN Evaluate(s, misread) ELSE UNCHANGED position
        /\ IF currentDevice /\ (Kind = "biss" \/ (Kind = "mt" /\ busy)) THEN rxbuf' = s ELSE UNCHANGED rxbuf
    BY DEF Complete, Received
<1>2. bus = "frame" /\ bus' = "idle" /\ UNCHANGED <<scenario, shaft, offset, pc, diff>>
    BY DEF Complete, Ended
<1>3. CASE currentDevice /\ Kind = "ssi"
  <2>1. pc["cmd"] \notin {"turns", "offset"}
      BY <1>0, <1>3 DEF PlacesOf, Reader
  <2>2. Evaluate(s, misread) /\ (s # None /\ sampled # None => Near(s, sampled)) /\ s \in Shaft \union {None}
      BY <1>0, <1>1, <1>2, <1>3 DEF Seen
  <2> QED BY <1>1, <1>2, <2>1, <2>2, EvaluateKeeps
<1>4. CASE ~(currentDevice /\ Kind = "ssi")
    BY <1>1, <1>2, <1>4 DEF Resting, Counted, TracksShaft, TracksAlways, Faithful, Raw, Amt, Kind, Angle, Position, position
<1> QED BY <1>3, <1>4

LEMMA EncUpdateKeeps ==
    ASSUME BusInv, Seen, Resting, Counted, TracksShaft, EncUpdate
    PROVE  Resting' /\ Counted' /\ TracksShaft'
<1>1. Kind \in {"mt", "biss", "ssi"} /\ BusHeld /\ rxbuf \in Shaft \union {None}
    BY ScenarioType DEF BusInv, TypeOK
<1>2. /\ Evaluate(rxbuf, FALSE) /\ rxbuf' = None /\ bus' # "frame"
      /\ UNCHANGED <<scenario, shaft, offset, pc, diff>>
    BY <1>1 DEF EncUpdate, BusHeld, bounds, port
<1>3. rxbuf # None /\ sampled # None => Near(rxbuf, sampled)
    BY DEF Seen
<1>4. pc["cmd"] \in {"turns", "offset"} => rxbuf \in {shaft, None}
    BY DEF Resting
<1> QED BY <1>1, <1>2, <1>3, <1>4, EvaluateKeeps

LEMMA TurnKeeps ==
    ASSUME Resting, Counted, TracksShaft, NEW s, Turn(s)
    PROVE  Resting' /\ Counted' /\ TracksShaft'
<1>1. pc["cmd"] \notin {"turns", "offset"}
    BY DEF Turn, AtRest, Resting
<1> QED BY <1>1 DEF Turn, Resting, Counted, TracksShaft, TracksAlways, Faithful, Raw, Amt, Kind, Angle,
                   Position, position, bounds

LEMMA StartKeeps ==
    ASSUME Resting, Counted, TracksShaft, StartFrame,
           UNCHANGED <<scenario, shaft, rxbuf, position, offset, diff>>,
           pc'["cmd"] = pc["cmd"] \/ {pc["cmd"], pc'["cmd"]} \intersect {"turns", "offset"} = {}
    PROVE  Resting' /\ Counted' /\ TracksShaft'
BY DEF StartFrame, Resting, Counted, TracksShaft, TracksAlways, Faithful, Raw, Amt, Kind, Angle, Position, position

\* Steps that leave alone all that the invariants are about.
LEMMA OthersKeep ==
    ASSUME Resting, Counted, TracksShaft, UNCHANGED <<scenario, shaft, frame, rxbuf, position, offset, diff>>,
           bus' = "frame" => bus = "frame",
           pc'["cmd"] = pc["cmd"] \/ {pc["cmd"], pc'["cmd"]} \intersect {"turns", "offset"} = {}
    PROVE  Resting' /\ Counted' /\ TracksShaft'
BY DEF Resting, Counted, TracksShaft, TracksAlways, Faithful, Raw, Amt, Kind, Angle, Position, position

LEMMA ReadStepKeeps ==
    ASSUME BusInv, Resting, Counted, TracksShaft, NEW r \in Reader, ReadStep(r)
    PROVE  Resting' /\ Counted' /\ TracksShaft'
<1>1. pc \in [Reader -> Places]
    BY DEF BusInv, TypeOK, Places
<1>2. CASE StartDMA(r)
  <2>1. pc'["cmd"] = pc["cmd"] \/ {pc["cmd"], pc'["cmd"]} \intersect {"turns", "offset"} = {}
      BY <1>1, <1>2 DEF StartDMA, At, Reader
  <2> QED BY <1>2, <2>1, StartKeeps DEF StartDMA, bounds, signals
<1>3. CASE Read(r) \/ Set(r) \/ Give(r) \/ Wait(r) \/ Begin(r) \/ SetDevice(r)
  <2>1. pc'["cmd"] = pc["cmd"] \/ {pc["cmd"], pc'["cmd"]} \intersect {"turns", "offset"} = {}
      BY <1>1, <1>3 DEF Read, Set, Give, Wait, Begin, SetDevice, At, Reader
  <2>2. UNCHANGED <<scenario, shaft, frame, bus, rxbuf, position, offset, diff>>
      BY <1>3 DEF Read, Set, Give, Wait, Begin, SetDevice, bounds, port, signals
  <2> QED BY <2>1, <2>2, OthersKeep
<1> QED BY <1>2, <1>3 DEF ReadStep

\* After setting the position to zero, the centre is where the shaft was last seen.
LEMMA CmdStepKeeps ==
    ASSUME CentredAtRest, BusInv, Resting, Counted, TracksShaft, CmdStep
    PROVE  Resting' /\ Counted' /\ TracksShaft'
<1>0. /\ turns \in Int /\ angle \in Int /\ offset \in Int
      /\ sampled # None => sampled \in Int
    BY AnglesAreInt, Numbers DEF BusInv, TypeOK
<1>1. /\ pc \in [Reader -> Places] /\ "cmd" \in Reader /\ PlacesOf("cmd") /\ scenario \in Scenarios
      /\ turns * Cpr \in Int /\ angle \in Int /\ turns \in Int /\ offset \in Int
      /\ sampled # None => sampled \in Int
  <2>1. "cmd" \in Reader
      BY DEF Reader
  <2>2. pc \in [Reader -> Places] /\ PlacesOf("cmd") /\ scenario \in Scenarios
      BY <2>1 DEF BusInv, TypeOK, Places
  <2> QED BY <1>0, <2>1, <2>2, Times, Numbers
<1>2. "zero" \in scenario.commands => Kind = "mt"
    BY <1>1 DEF CentredAtRest, Kind
<1>3. CASE Register \/ RegisterTake \/ RegisterEnd
  <2>1. pc'["cmd"] = pc["cmd"] \/ {pc["cmd"], pc'["cmd"]} \intersect {"turns", "offset"} = {}
      BY <1>1, <1>3 DEF Register, RegisterTake, RegisterEnd, At
  <2>2. UNCHANGED <<scenario, shaft, frame, rxbuf, position, offset, diff>> /\ (bus' = "frame" => bus = "frame")
      BY <1>3 DEF Register, RegisterTake, RegisterEnd, bounds, port, signals
  <2> QED BY <2>1, <2>2, OthersKeep
<1>4. CASE Zero
  <2>1. pc["cmd"] = "idle" /\ pc'["cmd"] = "idle"
      BY <1>1, <1>4 DEF Zero, At
  <2>2. /\ offset' = turns * Cpr + angle /\ UNCHANGED <<scenario, angle, turns, sampled>>
        /\ sampled # None => centre' = sampled
      BY <1>2, <1>4 DEF Zero, bounds
  <2>3. sampled # None => Position' = sampled' - centre'
      BY <1>1, <2>2 DEF Position
  <2> QED BY <2>1, <2>2, <2>3 DEF Resting, Counted, TracksShaft, TracksAlways, Faithful, Raw, Amt, Kind, Angle
<1>5. CASE ZeroBiss
  <2>1. pc'["cmd"] = "turns" /\ pc["cmd"] = "idle"
      BY <1>1, <1>5 DEF ZeroBiss, At
  <2>2. UNCHANGED <<scenario, shaft, frame, bus, rxbuf, position, offset>> /\ diff' = angle
      BY <1>5 DEF ZeroBiss, bounds, port, signals
  <2>3. /\ "zeroAtRest" \in scenario.commands /\ sampled = shaft
        /\ bus = "frame" => frame = shaft
        /\ rxbuf \in {shaft, None}
      BY <1>2, <1>5 DEF ZeroBiss
  <2> QED BY <2>1, <2>2, <2>3
          DEF Resting, Counted, TracksShaft, TracksAlways, Faithful, Raw, Amt, Kind, Angle, position
<1>6. CASE ZeroTurns
  <2>1. pc["cmd"] = "turns" /\ pc'["cmd"] = "offset"
      BY <1>1, <1>6 DEF ZeroTurns, At
  <2> QED BY <1>6, <2>1 DEF ZeroTurns, Resting, Counted, TracksShaft, TracksAlways, Faithful, Raw, Amt, Kind, Angle, bounds, port, signals
<1>7. CASE ZeroOffset
  <2>1. pc["cmd"] = "offset" /\ pc'["cmd"] = "idle"
      BY <1>1, <1>7 DEF ZeroOffset, At
  <2>2. turns = 0 /\ diff = angle
      BY <2>1 DEF Resting
  <2>3. /\ turns' = 0 /\ angle' = angle /\ offset' = angle /\ sampled' = sampled
        /\ sampled # None => centre' = sampled
        /\ UNCHANGED scenario
      BY <1>7, <2>2 DEF ZeroOffset, bounds
  <2>4. sampled # None => Position' = sampled' - centre'
      BY <1>1, <2>3, Numbers DEF Position
  <2> QED BY <2>1, <2>3, <2>4 DEF Resting, Counted, TracksShaft, TracksAlways, Faithful, Raw, Amt, Kind, Angle
<1> QED BY <1>3, <1>4, <1>5, <1>6, <1>7 DEF CmdStep

TurnsInv == BusInv /\ Seen /\ Resting /\ Counted /\ TracksShaft

LEMMA TurnsInvInit == Init => TurnsInv
<1> SUFFICES ASSUME Init PROVE TurnsInv
    OBVIOUS
<1>1. Seen /\ Counted /\ TracksShaft
    BY DEF Init, Seen, Counted, TracksShaft, TracksAlways, Faithful, Raw, Amt, Kind, Angle
<1>2. Resting
    BY DEF Init, Resting, Reader
<1> QED BY BusInvInit, <1>1, <1>2 DEF TurnsInv

LEMMA TurnsInvStays ==
    ASSUME CentredAtRest, TurnsInv, [Next]_vars
    PROVE  TurnsInv'
<1>1. BusInv /\ Seen /\ Resting /\ Counted /\ TracksShaft
    BY DEF TurnsInv
<1>2. BusInv' /\ Seen'
    BY <1>1, BusInvStays, SeenStays
<1>3. Resting' /\ Counted' /\ TracksShaft'
  <2>1. ASSUME NEW s, Turn(s) PROVE Resting' /\ Counted' /\ TracksShaft'
      BY <1>1, <2>1, TurnKeeps
  <2>2. CASE Error
      BY <1>1, <2>2, OthersKeep DEF Error, Ended, signals, Resting, Counted, TracksShaft, TracksAlways, Faithful, Raw, Amt, Kind, Angle, Position, position
  <2>3. CASE EncTake
      BY <1>1, <2>3, OthersKeep DEF EncTake, bounds, port
  <2>4. CASE EncStart
      BY <1>1, <2>4, StartKeeps DEF EncStart, bounds
  <2>5. CASE UNCHANGED vars
      BY <1>1, <2>5, OthersKeep DEF vars, bounds, port, signals
  <2> QED BY <1>1, <2>1, <2>2, <2>3, <2>4, <2>5, CompleteKeeps, EncUpdateKeeps, ReadStepKeeps, CmdStepKeeps
          DEF Next, EncStep
<1> QED BY <1>2, <1>3 DEF TurnsInv

\* An encoder whose frames are read right (see Faithful: SSI only as AMT23, and
\* without damage its check misses) counts every turn of the shaft once, whatever
\* frames are lost, if BISS-C is set to zero only at rest and SSI not at all.
THEOREM TurnsCounted ==
    ASSUME CentredAtRest
    PROVE  Spec => []TracksShaft
<1>1. TurnsInv /\ [Next]_vars => TurnsInv'
    BY TurnsInvStays
<1>2. TurnsInv => TracksShaft
    BY DEF TurnsInv
<1> QED BY TurnsInvInit, <1>1, <1>2, PTL DEF Spec
=============================================================================
