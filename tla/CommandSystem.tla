---------------------------- MODULE CommandSystem ----------------------------
(***************************************************************************)
(* From the bytes of a command to its reply (CmdParser.cpp,                *)
(* FFBoardMainCommandThread.cpp, CommandInterface.cpp, CDCcomm.cpp and     *)
(* HidCommandInterface.cpp).                                               *)
(*                                                                         *)
(* The USB thread puts commands into the ring buffer of the serial         *)
(* interface or the list of the HID interface and notifies the command     *)
(* thread, which executes them and offers every result to both interfaces. *)
(* The serial interface collects results for a thread of its own, which    *)
(* sends them through the transmit FIFO of tinyusb; what does not fit is    *)
(* sent from the callback of the next completed transfer.                  *)
(*                                                                         *)
(* Priorities: USB 40, CDCCMD 37, CMD_MAIN 32, FFBMAIN 30, HIDCMD 18.  The *)
(* callbacks of the USB thread are single steps, CDCCMD runs between two   *)
(* blocking points before CMD_MAIN does.  A unit is what one transfer      *)
(* carries; a reply is a sequence of units.                                *)
(***************************************************************************)
EXTENDS Naturals, FiniteSets, Sequences, SequencesExt

CONSTANTS
    CdcCommands,    \* number of commands a terminal sends
    HidCommands,    \* number of commands sent in HID reports
    SetCommands,    \* the commands that write a value
    FifoSize,       \* capacity of the transmit FIFO, and maxSendBuffer, in units
    MaxQueued,      \* maxQueuedReplies of the HID interface
    MaxQueuedBroadcast,
    Hosts           \* how hosts may behave: see Host

CdcCommand == 1..CdcCommands
HidCommand == CdcCommands+1 .. CdcCommands+HidCommands
Command == CdcCommand \union HidCommand

\* Bytes of a reply that is no longer there.
Junk == 0

\* commands: what it sends; window: so many may be under way; ring: the commands that fit into
\* the ring buffer, which keeps one place free; long: the commands with replies
\* that exceed the FIFO; slow: commands take long or the host does not read.
Host == [commands : SUBSET Command, window : Nat, ring : Nat \ {0}, long : SUBSET Command,
         slow : BOOLEAN]

ASSUME CommandAssumption ==
    /\ {CdcCommands, HidCommands, MaxQueued, MaxQueuedBroadcast} \subseteq Nat
    /\ FifoSize \in Nat \ {0}
    /\ SetCommands \subseteq Command
    /\ Hosts \subseteq Host

Itf == {"cdc", "hid"}

VARIABLES
    host,           \* the behaviour of the host
    sent,           \* the commands sent by it
    over,           \* those whose result is through for the terminal, or given up
    ring,           \* the ring buffer of the serial interface
    hidQueue,       \* HID_CommandInterface::commands
    parserReady,    \* the flags of both interfaces
    cmdNotified,    \* CMD_MAIN has a notification
    pc,             \* where CMD_MAIN is
    origin,         \* the interface whose commands it executes
    batch,          \* the commands still to execute
    executed,       \* history: all executed commands
    results,        \* CDC_CommandInterface::resultsBuffer
    snapshot,       \* results when insert() began
    bufferLength,   \* units in it
    nextFormat,     \* format results as read
    stale,          \* more than parserTimeout since lastSendTime
    cdcNotified,    \* CDCCMD has a notification
    cdcPc,          \* where CDCCMD is
    sendBuffer,     \* what it is sending
    sem,            \* CDCcomm::cdcSems
    rest, retry,    \* CDCcomm::remainingStrs and usb_busy_retry
    fifo, wire,     \* transmit FIFO and transfer of tinyusb
    received,       \* units the terminal has received of the reply it reads
    answered,       \* the whole replies it has received
    outBuffer,      \* HID_CommandInterface::outBuffer
    hidNotified,    \* HIDCMD has a notification
    hidPc,          \* where HIDCMD is
    next, last,     \* entry it sends next, entries when it began
    hidReceived     \* replies the host received in HID reports

environment == <<host, sent, over>>
input == <<ring, hidQueue, parserReady, cmdNotified>>
executor == <<pc, origin, batch, executed>>
replies == <<results, snapshot, bufferLength, nextFormat, stale>>
sender == <<cdcNotified, cdcPc, sendBuffer>>
transport == <<sem, rest, retry, fifo, wire, received, answered>>
hidOut == <<outBuffer, hidNotified, hidPc, next, last, hidReceived>>
vars == <<environment, input, executor, replies, sender, transport, hidOut>>

Places == {"wait", "cdc", "peeked", "hid", "moved", "cleared", "next", "toCdc", "insert", "toHid"}

TypeOK ==
    /\ host \in Hosts
    /\ {sent, over} \subseteq SUBSET Command
    /\ {ring, hidQueue, batch, executed, results, snapshot, hidReceived, outBuffer}
            \subseteq Seq(Command \union {Junk})
    /\ {sendBuffer, rest, fifo, wire, received, answered} \subseteq Seq(Command \union {Junk})
    /\ Len(ring) < host.ring /\ Len(fifo) <= FifoSize /\ Len(wire) <= 1
    /\ parserReady \in [Itf -> BOOLEAN]
    /\ {cmdNotified, nextFormat, stale, cdcNotified, sem, retry, hidNotified} \subseteq BOOLEAN
    /\ pc \in Places /\ origin \in Itf /\ cdcPc \in {"idle", "take", "rest"}
    /\ hidPc \in {"idle", "ready", "send"} /\ bufferLength \in Nat /\ {next, last} \subseteq Nat
-----------------------------------------------------------------------------
Init ==
    /\ host \in Hosts /\ sent = {} /\ over = {}
    /\ ring = <<>> /\ hidQueue = <<>> /\ parserReady = [i \in Itf |-> FALSE] /\ cmdNotified = FALSE
    /\ pc = "cdc" /\ origin = "cdc" /\ batch = <<>> /\ executed = <<>>
    /\ results = <<>> /\ snapshot = <<>> /\ bufferLength = 0 /\ nextFormat = FALSE /\ stale = TRUE
    /\ cdcNotified = FALSE /\ cdcPc = "idle" /\ sendBuffer = <<>>
    /\ sem = TRUE /\ rest = <<>> /\ retry = FALSE /\ fifo = <<>> /\ wire = <<>>
    /\ received = <<>> /\ answered = <<>>
    /\ outBuffer = <<>> /\ hidNotified = FALSE /\ hidPc = "idle" /\ next = 1 /\ last = 0
    /\ hidReceived = <<>>

Units(c) == [i \in 1..(IF c \in host.long THEN FifoSize + 1 ELSE 1) |-> c]
AllUnits(cs) == FlattenSeq([i \in DOMAIN cs |-> Units(cs[i])])

\* StringCommandInterface::formatReply: as read, it stops at the first result
\* that is not of a set command.
Formatted(cs, asRead) ==
    LET stop == {i \in DOMAIN cs : asRead /\ cs[i] \notin SetCommands}
    IN  IF stop = {} THEN cs
        ELSE SubSeq(cs, 1, (CHOOSE i \in stop : \A j \in stop : i <= j) - 1)
-----------------------------------------------------------------------------
(* The USB thread: input                                                   *)

\* The host sends its next command on an interface.
Sends(c) ==
    /\ c \in host.commands \ sent
    /\ \A d \in host.commands : d < c /\ (d \in CdcCommand <=> c \in CdcCommand) => d \in sent
    /\ Cardinality(sent \ over) < host.window
    /\ sent' = sent \union {c}

\* A wrong variant of Room: the place that stays free is used as well.
RoomForAll(queue) == host.ring - Len(queue) >= 1

\* freeSpace() > *Len
Room(queue) == host.ring - Len(queue) > 1

\* CmdParser::add and StringCommandInterface::addBuf for a packet with one
\* command: what did not come in time or does not fit clears the buffer.  A
\* command that CMD_MAIN has read and not yet discarded is not lost by that.
CdcReceive(c, late) ==
    LET old == IF late THEN <<>> ELSE ring
        fits == Room(old)
        new == IF fits THEN Append(old, c) ELSE <<>>
        read == IF pc = "peeked" THEN ToSet(batch) ELSE {}
    IN  /\ Sends(c)
        /\ late => host.slow
        /\ ring' = new
        /\ over' = over \union ((ToSet(ring) \union {c}) \ (ToSet(new) \union read))
        /\ parserReady' = [parserReady EXCEPT !["cdc"] = @ \/ fits]
        /\ cmdNotified' = (cmdNotified \/ fits)
        /\ UNCHANGED <<host, hidQueue, executor, replies, sender, transport, hidOut>>

\* HID_CommandInterface::hidCmdCallback.  The host sends the next command when
\* the one before has been executed.
HidReceive(c) ==
    /\ Sends(c)
    /\ sent \intersect HidCommand \subseteq ToSet(executed)
    /\ hidQueue' = Append(hidQueue, c)
    /\ parserReady' = [parserReady EXCEPT !["hid"] = TRUE]
    /\ cmdNotified' = TRUE
    /\ UNCHANGED <<host, over, ring, executor, replies, sender, transport, hidOut>>
-----------------------------------------------------------------------------
(* CMD_MAIN                                                                *)

\* CDCCMD can run, and CMD_MAIN therefore cannot.
CdcRuns ==
    \/ cdcPc = "idle" /\ cdcNotified
    \/ cdcPc = "take" /\ sem
    \/ cdcPc = "rest"

\* CMD_MAIN goes from one place to another.
Goes(from, to) == pc = from /\ ~CdcRuns /\ pc' = to

Wake ==
    /\ cmdNotified /\ Goes("wait", "cdc")
    /\ cmdNotified' = FALSE
    /\ UNCHANGED <<environment, ring, hidQueue, parserReady, origin, batch, executed,
                   replies, sender, transport, hidOut>>

\* The serial interface has nothing: look at the next interface.
SkipCdc ==
    /\ ~parserReady["cdc"] /\ Goes("cdc", "hid")
    /\ UNCHANGED <<environment, input, origin, batch, executed, replies, sender, transport, hidOut>>

\* StringCommandInterface::getNewCommands: parse reads the ring buffer ...
Peek ==
    /\ parserReady["cdc"] /\ Goes("cdc", "peeked")
    /\ parserReady' = [parserReady EXCEPT !["cdc"] = FALSE]
    /\ origin' = "cdc" /\ batch' = ring
    /\ UNCHANGED <<environment, ring, hidQueue, cmdNotified, executed, replies, sender, transport, hidOut>>

\* A wrong variant of Discard: parserReady is reset after the parsing.
DiscardThenReset ==
    /\ Goes("peeked", "next")
    /\ ring' = SubSeq(ring, Len(batch) + 1, Len(ring))
    /\ parserReady' = [parserReady EXCEPT !["cdc"] = FALSE]
    /\ UNCHANGED <<environment, hidQueue, cmdNotified, origin, batch, executed,
                   replies, sender, transport, hidOut>>

\* A wrong variant of Discard: one character too few.
DiscardShort ==
    /\ Goes("peeked", "next")
    /\ ring' = SubSeq(ring, Max({1, Len(batch)}), Len(ring))
    /\ UNCHANGED <<environment, hidQueue, parserReady, cmdNotified, origin, batch, executed,
                   replies, sender, transport, hidOut>>

\* ... and discards as much as it has read, or other commands, if the buffer was
\* cleared and filled again meanwhile.
Discard ==
    /\ Goes("peeked", "next")
    /\ ring' = SubSeq(ring, Len(batch) + 1, Len(ring))
    /\ over' = over \union (ToSet(ring) \ (ToSet(ring') \union ToSet(batch)))
    /\ UNCHANGED <<host, sent, hidQueue, parserReady, cmdNotified, origin, batch, executed,
                   replies, sender, transport, hidOut>>

SkipHid ==
    /\ ~parserReady["hid"] /\ Goes("hid", "wait")
    /\ UNCHANGED <<environment, input, origin, batch, executed, replies, sender, transport, hidOut>>

\* HID_CommandInterface::getNewCommands: the list is moved, ...
MoveQueue ==
    /\ parserReady["hid"] /\ Goes("hid", "moved")
    /\ origin' = "hid" /\ batch' = hidQueue /\ hidQueue' = <<>>
    /\ UNCHANGED <<environment, ring, parserReady, cmdNotified, executed, replies, sender,
                   transport, hidOut>>

\* ... cleared ...
ClearQueue ==
    /\ Goes("moved", "cleared")
    /\ hidQueue' = <<>>
    /\ UNCHANGED <<environment, ring, parserReady, cmdNotified, origin, batch, executed, replies,
                   sender, transport, hidOut>>

\* ... and the flag reset.
ResetReady ==
    /\ Goes("cleared", "next")
    /\ parserReady' = [parserReady EXCEPT !["hid"] = FALSE]
    /\ UNCHANGED <<environment, ring, hidQueue, cmdNotified, origin, batch, executed, replies,
                   sender, transport, hidOut>>

\* executeCommands: the handler of the next command runs.
Execute ==
    /\ batch # <<>> /\ Goes("next", "toCdc")
    /\ executed' = Append(executed, Head(batch))
    /\ UNCHANGED <<environment, input, origin, batch, replies, sender, transport, hidOut>>

\* A wrong variant of CdcReady: the rest of a long reply is not waited for.
CdcReadyAnyway == stale \/ bufferLength < FifoSize

\* CDC_CommandInterface::readyToSend
CdcReady == rest = <<>> /\ (stale \/ bufferLength < FifoSize)

\* CDC_CommandInterface::sendReplies, up to the insertion into resultsBuffer.
BeginInsert ==
    LET kept == IF stale THEN <<>> ELSE results IN
    /\ CdcReady /\ Goes("toCdc", "insert")
    /\ results' = kept /\ snapshot' = kept
    /\ over' = over \union (ToSet(results) \ (ToSet(kept) \union {Junk}))
    /\ bufferLength' = (IF stale THEN 0 ELSE bufferLength) + Len(Units(Head(batch)))
    /\ UNCHANGED <<host, sent, input, origin, batch, executed, nextFormat, stale, sender,
                   transport, hidOut>>

\* If CDCCMD has emptied the vector meanwhile, the old elements come back (they
\* were copied to a new array) or an element is taken for new that is not.
EndInsert ==
    LET c == Head(batch) IN
    /\ Goes("insert", "toHid")
    /\ results' \in IF results = snapshot THEN {Append(results, c)}
                    ELSE {Append(snapshot, c), <<Junk>>}
    /\ snapshot' = <<>>
    /\ nextFormat' = (origin # "cdc")
    /\ stale' = FALSE
    /\ cdcNotified' = (cdcNotified \/ bufferLength >= FifoSize)
    /\ UNCHANGED <<environment, input, origin, batch, executed, bufferLength,
                   cdcPc, sendBuffer, transport, hidOut>>

\* An interface that is not ready for too long does not get the result.
CdcTimeout ==
    /\ host.slow /\ ~CdcReady /\ Goes("toCdc", "toHid")
    /\ over' = over \union {Head(batch)}
    /\ UNCHANGED <<host, sent, input, origin, batch, executed, replies, sender, transport, hidOut>>

\* HID_CommandInterface::readyToSend
HidReady == Len(outBuffer) < MaxQueued

\* HID_CommandInterface::sendReplies: results with a value (of reads) are reported to
\* the interface that asked, those without one (of writes, also its own) only while
\* few reports are queued.  An element stands for all reports of a command.
HidReplies(c) ==
    LET reported == IF c \in SetCommands THEN Len(outBuffer) <= MaxQueuedBroadcast
                                         ELSE origin = "hid"
    IN  IF reported THEN Append(outBuffer, c) ELSE outBuffer

HidSendReplies ==
    /\ HidReady /\ Goes("toHid", "next")
    /\ outBuffer' = HidReplies(Head(batch))
    /\ hidNotified' = (hidNotified \/ outBuffer' # <<>>)
    /\ batch' = Tail(batch)
    /\ UNCHANGED <<environment, input, origin, executed, replies, sender, transport,
                   hidPc, next, last, hidReceived>>

HidTimeout ==
    /\ host.slow /\ ~HidReady /\ Goes("toHid", "next")
    /\ batch' = Tail(batch)
    /\ UNCHANGED <<environment, input, origin, executed, replies, sender, transport, hidOut>>

\* A wrong variant of BatchDone: the commands count as new until they are done.
BatchDoneReset ==
    /\ batch = <<>> /\ Goes("next", IF origin = "cdc" THEN "hid" ELSE "wait")
    /\ cdcNotified' = (cdcNotified \/ results # <<>>)
    /\ parserReady' = [parserReady EXCEPT ![origin] = FALSE]
    /\ UNCHANGED <<environment, ring, hidQueue, cmdNotified, origin, batch, executed, replies,
                   cdcPc, sendBuffer, transport, hidOut>>

\* batchDone of the serial interface; the HID interface has none.
BatchDone ==
    /\ batch = <<>> /\ Goes("next", IF origin = "cdc" THEN "hid" ELSE "wait")
    /\ cdcNotified' = (cdcNotified \/ results # <<>>)
    /\ UNCHANGED <<environment, input, origin, batch, executed, replies, cdcPc, sendBuffer,
                   transport, hidOut>>

\* More than parserTimeout since the last results.
TimePasses ==
    /\ ~stale /\ stale' = TRUE
    /\ results = <<>> \/ host.slow
    /\ UNCHANGED <<environment, input, executor, results, snapshot, bufferLength, nextFormat,
                   sender, transport, hidOut>>
-----------------------------------------------------------------------------
(* CDCCMD and the transport                                                *)

\* tinyusb takes what fits of q into the FIFO, of which it starts a transfer
\* if none is running; CDCcomm keeps the rest.
Fits(q) == SubSeq(q, 1, Min({Len(q), FifoSize - Len(fifo)}))
Left(q) == SubSeq(q, FifoSize - Len(fifo) + 1, Len(q))
Transmit(data, running) ==
    IF running = <<>> /\ data # <<>>
    THEN wire' = <<Head(data)>> /\ fifo' = Tail(data)
    ELSE wire' = running /\ fifo' = data

\* A wrong variant of Format: the results stay.
FormatKeeping ==
    LET text == AllUnits(Formatted(results, nextFormat)) IN
    /\ cdcPc = "idle" /\ cdcNotified
    /\ cdcNotified' = FALSE
    /\ sendBuffer' = text
    /\ over' = over \union ((ToSet(results) \intersect HidCommand) \ ToSet(text))
    /\ bufferLength' = 0
    /\ cdcPc' = IF text = <<>> THEN "idle" ELSE "take"
    /\ UNCHANGED <<host, sent, input, executor, results, snapshot, nextFormat, stale, transport, hidOut>>

\* CDC_CommandInterface::Run: all results become one string.
Format ==
    LET text == AllUnits(Formatted(results, nextFormat)) IN
    /\ cdcPc = "idle" /\ cdcNotified
    /\ cdcNotified' = FALSE
    /\ sendBuffer' = text
    /\ over' = over \union ((ToSet(results) \intersect HidCommand) \ ToSet(text))
    /\ results' = <<>> /\ bufferLength' = 0
    /\ cdcPc' = IF text = <<>> THEN "idle" ELSE "take"
    /\ UNCHANGED <<host, sent, input, executor, snapshot, nextFormat, stale, transport, hidOut>>

\* CDCcomm::cdcSend: wait for the semaphore and write ...
Send ==
    /\ cdcPc = "take" /\ sem
    /\ sem' = FALSE
    /\ Transmit(fifo \o Fits(sendBuffer), wire)
    /\ sendBuffer' = Left(sendBuffer)
    /\ cdcPc' = "rest"
    /\ UNCHANGED <<environment, input, executor, replies, cdcNotified, rest, retry, received,
                   answered, hidOut>>

\* ... then keep what did not fit.
KeepRest ==
    /\ cdcPc = "rest" /\ cdcPc' = "idle"
    /\ rest' = sendBuffer /\ retry' = (sendBuffer # <<>>)
    /\ sendBuffer' = <<>>
    /\ UNCHANGED <<environment, input, executor, replies, cdcNotified, sem, fifo, wire, received,
                   answered, hidOut>>

\* The terminal has read a transfer.
Read(unit) ==
    LET text == Append(received, unit) IN
    IF unit # Junk /\ text = Units(unit)
    THEN /\ received' = <<>> /\ answered' = Append(answered, unit)
         /\ over' = over \union {unit}
    ELSE /\ received' = text
         /\ UNCHANGED <<answered, over>>

\* CDCcomm::cdcFinished, in the USB thread.  The FIFO holds 16 packets: the few
\* instructions from Send to KeepRest are over before all are transferred.
Finished ==
    LET again == retry /\ rest # <<>> IN
    /\ wire # <<>>
    /\ cdcPc = "rest" /\ sendBuffer # <<>> => fifo # <<>>
    /\ Read(Head(wire))
    /\ sem' = ~again
    /\ Transmit(IF again THEN fifo \o Fits(rest) ELSE fifo, <<>>)
    /\ rest' = (IF again THEN Left(rest) ELSE rest)
    /\ retry' = (IF again THEN Left(rest) # <<>> ELSE retry)
    /\ UNCHANGED <<host, sent, input, executor, replies, sender, hidOut>>
-----------------------------------------------------------------------------
(* HIDCMD                                                                  *)

\* HID_CommandInterface::Run
HidWake ==
    /\ hidPc = "idle" /\ hidNotified
    /\ hidNotified' = FALSE
    /\ next' = 1 /\ last' = Len(outBuffer)
    /\ hidPc' = "ready"
    /\ UNCHANGED <<environment, input, executor, replies, sender, transport, outBuffer, hidReceived>>

\* The endpoint is free.
HidIsReady ==
    /\ hidPc = "ready" /\ next <= last
    /\ hidPc' = "send"
    /\ UNCHANGED <<environment, input, executor, replies, sender, transport, outBuffer,
                   hidNotified, next, last, hidReceived>>

\* The report is sent, unless FFBMAIN has used the endpoint meanwhile.  Entries
\* appended since the loop began may have moved the array.
HidSend ==
    /\ hidPc = "send"
    /\ \E c \in {outBuffer[next]} \union (IF Len(outBuffer) > last THEN {Junk} ELSE {}) :
            hidReceived' \in {hidReceived, Append(hidReceived, c)}
    /\ next' = next + 1
    /\ hidPc' = "ready"
    /\ UNCHANGED <<environment, input, executor, replies, sender, transport, outBuffer,
                   hidNotified, last>>

\* A wrong variant of HidDone: the sent replies stay.
HidDoneKeeping ==
    /\ hidPc = "ready" /\ next > last
    /\ hidPc' = "idle" /\ next' = 1 /\ last' = 0
    /\ UNCHANGED <<environment, input, executor, replies, sender, transport, outBuffer,
                   hidNotified, hidReceived>>

HidDone ==
    /\ hidPc = "ready" /\ next > last
    /\ outBuffer' = <<>> /\ hidPc' = "idle"
    /\ next' = 1 /\ last' = 0
    /\ UNCHANGED <<environment, input, executor, replies, sender, transport, hidNotified,
                   hidReceived>>
-----------------------------------------------------------------------------
CmdMain ==
    \/ Wake \/ SkipCdc \/ Peek \/ Discard \/ SkipHid \/ MoveQueue \/ ClearQueue \/ ResetReady
    \/ Execute \/ BeginInsert \/ EndInsert \/ CdcTimeout \/ HidSendReplies \/ HidTimeout
    \/ BatchDone

CdcCmd == Format \/ Send \/ KeepRest
HidCmd == HidWake \/ HidIsReady \/ HidSend \/ HidDone

Next ==
    \/ \E c \in CdcCommand, late \in BOOLEAN : CdcReceive(c, late)
    \/ \E c \in HidCommand : HidReceive(c)
    \/ CmdMain \/ CdcCmd \/ HidCmd
    \/ Finished \/ TimePasses

Spec == Init /\ [][Next]_vars

\* The scheduler lets every thread that can run do so, and the host reads what
\* the device offers.
FairSpec ==
    /\ Spec
    /\ WF_vars(CmdMain) /\ WF_vars(CdcCmd) /\ WF_vars(HidCmd) /\ WF_vars(Finished)
-----------------------------------------------------------------------------
(* Properties                                                              *)

\* What the terminal reads is a sequence of whole replies: no reply is mixed
\* with another one, cut off, or printed from a result that is gone.
RepliesIntact ==
    /\ \A i \in DOMAIN received : received[i] = received[1]
    /\ Junk \notin ToSet(received) \union ToSet(rest) \union ToSet(results)

\* So many commands may be under way at once: with one more, results may still
\* be in all the places between CMD_MAIN and the terminal at the time when the
\* next one is inserted or a rest is kept.
Careful(h) == h.window <= IF h.long = {} THEN 3 ELSE 2

\* The terminal is served as ReplyService promises.
Service ==
    INSTANCE ReplyService WITH
        Interfaces <- {CdcCommand, HidCommand},
        waiting <- sent \ over

ImplementsService == Service!Spec

\* Whatever the terminal has sent is answered at last, if the host reads, no command
\* takes long, and the heap has room for all copies of the replies.
Answered == []<>(host.slow \/ sent \intersect CdcCommand \subseteq ToSet(answered))

\* Commands of both interfaces are executed at most once, in their order.
ExecutedOnce ==
    \A i, j \in DOMAIN executed :
        i < j /\ (executed[i] \in CdcCommand <=> executed[j] \in CdcCommand)
            => executed[i] < executed[j]

\* A command sent in a HID report is executed, if the host waits for that
\* before it sends the next one.
HidExecuted == []<>(sent \intersect HidCommand \subseteq ToSet(executed))

\* A host that reads HID replies never sees one twice.
HidRepliesOnce ==
    \A i, j \in DOMAIN hidReceived :
        i < j /\ hidReceived[i] # Junk => hidReceived[i] # hidReceived[j]
=============================================================================
