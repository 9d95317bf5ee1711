-------------------------- MODULE EepromEmulation --------------------------
(***************************************************************************)
(* The configuration memory of the STM32F4 boards: eeprom.c keeps 16 bit   *)
(* variables in two flash sectors ("pages") by appending (data, address)   *)
(* pairs to the active page and moving the last value of every variable to *)
(* the other page when the active one is full.  flash_helpers.cpp calls it *)
(* and cppmain.cpp runs EE_Init at every start.                            *)
(*                                                                         *)
(* A step is one flash operation (program one halfword, erase one sector)  *)
(* with the reads the code does before it, so a power loss between any two *)
(* steps leaves the flash exactly as the code would.  An operation itself  *)
(* is atomic.  There is one caller at a time.                              *)
(***************************************************************************)
EXTENDS Integers, Sequences, FiniteSets

CONSTANTS
    NSlots,         \* (data, address) pairs that fit in a page after its header
    VirtAddVarTab,  \* the table of variables a page transfer copies
    Addrs,          \* the addresses callers write to
    Data,           \* the 16 bit values, the erased halfword among them
    Blank,          \* the erased halfword 0xFFFF
    None,           \* no value
    Faults,         \* what may happen beyond the failures the design survives
    MaxRetries      \* power losses in a row before a start completes

Table == {VirtAddVarTab[i] : i \in DOMAIN VirtAddVarTab}
NbOfVar == Len(VirtAddVarTab)

\* The faults a run can switch on, each a situation the code can meet.
KnownFaults == {
    "lossInReturnTransfer",     \* power lost while page 0 receives from page 1
    "lossInRecovery",           \* power lost between the last two steps of a recovery
    "formatOnPage1",            \* a format while page 1 is the active page
    "programFailure"}           \* HAL_FLASH_Program reports an error and writes nothing

ASSUME TableAssumption ==
    /\ VirtAddVarTab \in Seq(Addrs)
    /\ \A i, j \in DOMAIN VirtAddVarTab :
            VirtAddVarTab[i] = VirtAddVarTab[j] => i = j
ASSUME ValueAssumption ==
    /\ Blank \in Data /\ Blank \notin Addrs
    /\ None \notin Data /\ None \notin Addrs
    /\ None \notin [adr : Addrs, dat : Data]
ASSUME BoundAssumption ==
    /\ NSlots \in Nat /\ MaxRetries \in Nat
    /\ Faults \subseteq KnownFaults
\* Room for the written variable and one copy of the table per start (the
\* board has 4095 slots and 164 variables).
ASSUME RoomAssumption == NSlots >= 1 + NbOfVar * (MaxRetries + 1)

Pages == {0, 1}
Other(p) == 1 - p
Slots == 1..NSlots
ERASED == "ERASED"
RECEIVE_DATA == "RECEIVE_DATA"
VALID_PAGE == "VALID_PAGE"
PageStatus == {ERASED, RECEIVE_DATA, VALID_PAGE}
BlankSlot == [dat |-> Blank, adr |-> Blank]
BlankPage == [i \in Slots |-> BlankSlot]
SlotSet == [dat : Data, adr : Addrs \union {Blank}]

VARIABLES
    hdr,        \* the header halfword of each page
    slot,       \* the pairs of each page
    pc,         \* what the running call does next
    job,        \* the running call: "init", "write", "format" or "none"
    adr, dat,   \* the arguments of the running Flash_Write
    new,        \* the page the running call leaves valid
    idx,        \* VarIdx of the copy loops
    at,         \* the slot whose data was programmed and whose address is next
    acked,      \* history: the last value acknowledged for each address
    retries     \* power losses since a start last completed

flash == <<hdr, slot>>
call == <<pc, job, adr, dat, new, idx, at>>
vars == <<hdr, slot, pc, job, adr, dat, new, idx, at, acked, retries>>

PCs == {"off", "idle", "init", "repair", "wipe", "mark", "tidy", "data", "addr",
        "receive", "first", "firstAddr", "copy", "copyAddr", "erase", "markLast"}

TypeOK ==
    /\ hdr \in [Pages -> PageStatus]
    /\ slot \in [Pages -> [Slots -> SlotSet]]
    /\ pc \in PCs
    /\ job \in {"none", "init", "write", "format"}
    /\ adr \in Addrs \union {None}
    /\ dat \in Data \union {None}
    /\ new \in Pages
    /\ idx \in 0..NbOfVar + 1
    /\ at \in 0..NSlots
    /\ acked \in [Addrs -> Data \union {None}]
    /\ retries \in 0..MaxRetries
-----------------------------------------------------------------------------
(* Reading the pages                                                       *)

\* EE_FindValidPage: the pages an operation may read from or write to (at
\* most one); none stands for NO_VALID_PAGE.
ReadPage ==
    IF hdr[0] = VALID_PAGE THEN {0}
    ELSE IF hdr[1] = VALID_PAGE THEN {1} ELSE {}

\* A wrong variant of WritePage: writes go to the valid page during a transfer.
WritePageIgnoringReceive == ReadPage

WritePage ==
    IF hdr[1] = VALID_PAGE
    THEN IF hdr[0] = RECEIVE_DATA THEN {0} ELSE {1}
    ELSE IF hdr[0] = VALID_PAGE
         THEN IF hdr[1] = RECEIVE_DATA THEN {1} ELSE {0}
         ELSE {}

\* A wrong variant of Latest: the page is searched from its start.
LastFromStart(p, a) ==
    LET holding == {i \in Slots : slot[p][i].adr = a}
    IN  IF holding = {} THEN None
        ELSE slot[p][CHOOSE i \in holding : \A j \in holding : i <= j].dat

\* EE_ReadVariable: the pair with the highest slot number wins.
Latest(p, a) ==
    LET holding == {i \in Slots : slot[p][i].adr = a}
    IN  IF holding = {} THEN None
        ELSE slot[p][CHOOSE i \in holding : \A j \in holding : j <= i].dat

Read(a) ==
    IF \E p \in ReadPage : Latest(p, a) # None
    THEN Latest(CHOOSE p \in ReadPage : TRUE, a)
    ELSE None

\* A wrong variant of FreeSlots: a slot with data 0xFFFF counts as free.
FreeSlotsByData(p) == {i \in Slots : slot[p][i].dat = Blank}

\* The slots EE_VerifyPageFullWriteVariable can program: both halves blank.
\* It takes the first; with none left it reports PAGE_FULL.
FreeSlots(p) == {i \in Slots : slot[p][i] = BlankSlot}
First(S) == CHOOSE i \in S : \A j \in S : i <= j

\* EE_VerifyPageFullyErased compares addresses with PAGE0_END_ADDRESS for
\* either page: the loop never runs for page 1, which always counts as
\* erased.  On page 0 it looks at the header and the data halves only.
VerifyPageFullyErased(p) ==
    \/ p = 1
    \/ /\ hdr[p] = ERASED
       /\ \A i \in Slots : slot[p][i].dat = Blank

\* Programming flash only clears bits: 0xFFFF, 0xEEEE, 0x0000 in this order.
Program(old, h) == IF old = ERASED \/ h = VALID_PAGE THEN h ELSE old
-----------------------------------------------------------------------------
(* Ends of a call                                                          *)

\* Return to the caller: cppmain goes on whatever Flash_Init returned.
Return ==
    /\ pc' = "idle" /\ job' = "none"
    /\ adr' = None /\ dat' = None
    /\ new' = 0 /\ idx' = 0 /\ at' = 0
    /\ retries' = 0

\* A call that ends with HAL_OK; a write that does is acknowledged.
Succeed ==
    /\ Return
    /\ acked' = IF job = "write" THEN [acked EXCEPT ![adr] = dat] ELSE acked

\* PAGE_FULL, NO_VALID_PAGE or a HAL error ends the call at once.
Fail == Return /\ UNCHANGED acked

Goto(label) == pc' = label /\ UNCHANGED <<job, adr, dat, new, idx, at, acked, retries>>

Erase(p) ==
    /\ hdr' = [hdr EXCEPT ![p] = ERASED]
    /\ slot' = [slot EXCEPT ![p] = BlankPage]

\* The conditional erase of EE_Init and EE_Format.
EraseUnlessVerified(p) ==
    IF VerifyPageFullyErased(p) THEN UNCHANGED flash ELSE Erase(p)
-----------------------------------------------------------------------------
(* Power                                                                   *)

Init ==
    /\ hdr = [p \in Pages |-> ERASED]
    /\ slot = [p \in Pages |-> BlankPage]
    /\ pc = "off" /\ job = "none"
    /\ adr = None /\ dat = None
    /\ new = 0 /\ idx = 0 /\ at = 0
    /\ acked = [a \in Addrs |-> None]
    /\ retries = 0

\* cppmain calls Flash_Init, which calls EE_Init.
PowerOn ==
    /\ pc = "off"
    /\ pc' = "init" /\ job' = "init"
    /\ UNCHANGED <<hdr, slot, adr, dat, new, idx, at, acked, retries>>

\* Where the design does not survive a power loss, it is a named fault.
LossSurvivable ==
    /\ hdr[0] = RECEIVE_DATA /\ hdr[1] = VALID_PAGE => "lossInReturnTransfer" \in Faults
    /\ hdr[0] = VALID_PAGE /\ hdr[1] = VALID_PAGE => "lossInRecovery" \in Faults

\* Power loss or reset: the flash keeps what was written, the call is gone.
PowerLoss ==
    /\ pc # "off"
    /\ retries < MaxRetries
    /\ LossSurvivable
    /\ pc' = "off" /\ job' = "none"
    /\ adr' = None /\ dat' = None
    /\ new' = 0 /\ idx' = 0 /\ at' = 0
    /\ retries' = retries + 1
    /\ UNCHANGED <<hdr, slot, acked>>
-----------------------------------------------------------------------------
(* EE_Init                                                                 *)

\* The switch over both page headers.
InitPlan ==
    IF hdr[0] = ERASED /\ hdr[1] = VALID_PAGE THEN [pc |-> "tidy", new |-> 1]
    ELSE IF hdr[0] = VALID_PAGE /\ hdr[1] = ERASED THEN [pc |-> "tidy", new |-> 0]
    ELSE IF hdr[0] = ERASED /\ hdr[1] = RECEIVE_DATA THEN [pc |-> "repair", new |-> 1]
    ELSE IF hdr[0] = RECEIVE_DATA /\ hdr[1] = ERASED THEN [pc |-> "repair", new |-> 0]
    ELSE IF hdr[0] = RECEIVE_DATA /\ hdr[1] = VALID_PAGE THEN [pc |-> "copy", new |-> 0]
    ELSE IF hdr[0] = VALID_PAGE /\ hdr[1] = RECEIVE_DATA THEN [pc |-> "copy", new |-> 1]
    ELSE [pc |-> "wipe", new |-> 0]

InitDispatch ==
    /\ pc = "init"
    /\ pc' = InitPlan.pc /\ new' = InitPlan.new /\ idx' = 1
    /\ UNCHANGED <<hdr, slot, job, adr, dat, at, acked, retries>>

\* One page erased, the other receiving: finish the erase, then mark.
Repair ==
    /\ pc = "repair"
    /\ EraseUnlessVerified(Other(new))
    /\ Goto("markLast")

\* The end of EE_Init and EE_Format: erase the page that is not valid.
Tidy ==
    /\ pc = "tidy"
    /\ EraseUnlessVerified(Other(new))
    /\ Succeed
-----------------------------------------------------------------------------
(* EE_Format                                                               *)

\* Flash_Format, by the command "sys.format" or the version check at start.
FlashFormat ==
    /\ pc = "idle"
    /\ hdr[1] = VALID_PAGE => "formatOnPage1" \in Faults
    /\ pc' = "wipe" /\ job' = "format" /\ new' = 0
    /\ acked' = [a \in Addrs |-> None]
    /\ UNCHANGED <<hdr, slot, adr, dat, idx, at, retries>>

Wipe ==
    /\ pc = "wipe"
    /\ EraseUnlessVerified(0)
    /\ Goto("mark")

\* Page header programmed VALID_PAGE before the other page is erased.
Mark ==
    /\ pc = "mark"
    /\ hdr' = [hdr EXCEPT ![new] = Program(hdr[new], VALID_PAGE)]
    /\ UNCHANGED slot
    /\ Goto("tidy")
-----------------------------------------------------------------------------
(* Flash_Write, EE_WriteVariable and EE_PageTransfer                       *)

\* Flash_Write(a, d): a value that is already stored is not written again,
\* and without a valid page nothing is.
FlashWrite(a, d) ==
    /\ pc = "idle"
    /\ ReadPage # {}
    /\ Read(a) # d
    /\ pc' = "data" /\ job' = "write"
    /\ adr' = a /\ dat' = d
    /\ acked' = [acked EXCEPT ![a] = None]
    /\ UNCHANGED <<hdr, slot, new, idx, at, retries>>

\* EE_VerifyPageFullWriteVariable, first half: find the first free slot of
\* page p and program its data; next is the address halfword of that slot.
ProgramData(p, d, label) ==
    LET i == First(FreeSlots(p))
    IN  /\ slot' = [slot EXCEPT ![p][i].dat = d]
        /\ at' = i
        /\ pc' = label
        /\ UNCHANGED <<hdr, job, adr, dat, new, idx, acked, retries>>

\* Second half: the pair counts from here on.
ProgramAddress(p, a) ==
    /\ slot' = [slot EXCEPT ![p][at].adr = a]
    /\ UNCHANGED hdr

HasRoom(p) == FreeSlots(p) # {}

WriteData ==
    /\ pc = "data"
    /\ \E p \in WritePage : HasRoom(p) /\ ProgramData(p, dat, "addr")

WriteAddress ==
    /\ pc = "addr"
    /\ \E p \in WritePage : ProgramAddress(p, adr)
    /\ Succeed

\* EE_WriteVariable: the active page is full, start EE_PageTransfer.
WritePageFull ==
    /\ pc = "data"
    /\ \E p \in WritePage : ~HasRoom(p)
    /\ UNCHANGED flash
    /\ Goto("receive")

\* EE_PageTransfer: the other page becomes the receiving page.
BeginTransfer ==
    /\ pc = "receive"
    /\ \E p \in ReadPage :
        /\ new' = Other(p)
        /\ hdr' = [hdr EXCEPT ![Other(p)] = Program(hdr[Other(p)], RECEIVE_DATA)]
    /\ pc' = "first"
    /\ UNCHANGED <<slot, job, adr, dat, idx, at, acked, retries>>

\* The caller's variable goes to the receiving page before all others.
FirstData ==
    /\ pc = "first"
    /\ \E p \in WritePage : HasRoom(p) /\ ProgramData(p, dat, "firstAddr")

FirstAddress ==
    /\ pc = "firstAddr"
    /\ \E p \in WritePage : ProgramAddress(p, adr)
    /\ pc' = "copy" /\ idx' = 1
    /\ UNCHANGED <<job, adr, dat, new, at, acked, retries>>

-----------------------------------------------------------------------------
(* The copy loops of EE_PageTransfer and EE_Init                           *)

\* A wrong variant of Skipped: EE_Init copies every variable.
SkippedInTransferOnly == IF job = "write" THEN adr ELSE Blank

\* The variable a copy loop leaves out: the one being written, or in EE_Init
\* the one in the first slot of the receiving page (x, at offset 6).
Skipped == IF job = "write" THEN adr ELSE slot[new][1].adr

CopyAdr == VirtAddVarTab[idx]

\* The next table entry has a value to copy.
CopyPending ==
    /\ pc = "copy" /\ idx <= NbOfVar
    /\ CopyAdr # Skipped /\ Read(CopyAdr) # None

\* A wrong variant of CopySkip: the loop does not go on to the next variable.
CopySkipStuck ==
    /\ pc = "copy" /\ idx <= NbOfVar /\ ~CopyPending
    /\ UNCHANGED vars

CopySkip ==
    /\ pc = "copy" /\ idx <= NbOfVar /\ ~CopyPending
    /\ idx' = idx + 1
    /\ UNCHANGED <<hdr, slot, pc, job, adr, dat, new, at, acked, retries>>

CopyData ==
    /\ CopyPending
    /\ \E p \in WritePage : HasRoom(p) /\ ProgramData(p, Read(CopyAdr), "copyAddr")

\* A wrong variant of CopyAddress: every copy is filed under the address of
\* the interrupted Flash_Write, of which nothing is left after a restart.
CopyAddressOfRequest ==
    /\ pc = "copyAddr"
    /\ \E p \in WritePage : ProgramAddress(p, adr)
    /\ pc' = "copy" /\ idx' = idx + 1
    /\ UNCHANGED <<job, adr, dat, new, at, acked, retries>>

CopyAddress ==
    /\ pc = "copyAddr"
    /\ \E p \in WritePage : ProgramAddress(p, CopyAdr)
    /\ pc' = "copy" /\ idx' = idx + 1
    /\ UNCHANGED <<job, adr, dat, new, at, acked, retries>>

\* A transfer erases the old page and then marks the new one; a recovery
\* marks first.
CopyDone ==
    /\ pc = "copy" /\ idx > NbOfVar
    /\ UNCHANGED flash
    /\ Goto(IF job = "write" THEN "erase" ELSE "mark")

\* The receiving page itself is full.
CopyPageFull ==
    /\ pc = "first" \/ CopyPending
    /\ \A p \in WritePage : ~HasRoom(p)
    /\ UNCHANGED flash
    /\ Fail

\* A wrong variant of EraseOld: the old page is not erased.
EraseOldForgotten ==
    /\ pc = "erase"
    /\ UNCHANGED flash
    /\ Goto("markLast")

\* A wrong variant of EraseOld: the receiving page is erased.
EraseOldSwapped ==
    /\ pc = "erase"
    /\ Erase(new)
    /\ Goto("markLast")

EraseOld ==
    /\ pc = "erase"
    /\ Erase(Other(new))
    /\ Goto("markLast")

\* The last step of a transfer, and of a recovery that found its old page
\* already erased.
MarkLast ==
    /\ pc = "markLast"
    /\ hdr' = [hdr EXCEPT ![new] = Program(hdr[new], VALID_PAGE)]
    /\ UNCHANGED slot
    /\ Succeed

-----------------------------------------------------------------------------
\* HAL_FLASH_Program fails and leaves the halfword as it was: every caller
\* returns the error at once.
ProgramFailure ==
    /\ "programFailure" \in Faults
    /\ \/ pc \in {"addr", "receive", "first", "firstAddr", "copyAddr", "mark", "markLast"}
       \/ pc = "data" /\ \E p \in WritePage : HasRoom(p)
       \/ CopyPending
    /\ UNCHANGED flash
    /\ Fail

Progress ==
    \/ InitDispatch \/ Repair \/ Tidy \/ Wipe \/ Mark
    \/ WriteData \/ WriteAddress \/ WritePageFull
    \/ BeginTransfer \/ FirstData \/ FirstAddress
    \/ CopySkip \/ CopyData \/ CopyAddress \/ CopyDone \/ CopyPageFull
    \/ EraseOld \/ MarkLast

Environment ==
    \/ PowerOn \/ PowerLoss \/ FlashFormat \/ ProgramFailure
    \/ \E a \in Addrs, d \in Data : FlashWrite(a, d)

Next == Progress \/ Environment

Spec == Init /\ [][Next]_vars

\* The processor executes the call it runs, and the board is switched on.
Fairness == WF_vars(Progress) /\ WF_vars(PowerOn)

FairSpec == Spec /\ Fairness
-----------------------------------------------------------------------------
(* Properties                                                              *)

\* When no call runs, exactly one page is valid and the other is blank and
\* ready to receive: what EE_Init promises to restore after any power loss
\* and what every write, transfer and format must leave behind.
KnownGood ==
    pc = "idle" =>
        \E p \in Pages : /\ hdr[p] = VALID_PAGE
                         /\ hdr[Other(p)] = ERASED
                         /\ slot[Other(p)] = BlankPage

\* A value for which Flash_Write returned true is what Flash_Read returns
\* from then on, over page transfers, power losses and recoveries, until the
\* variable is written again or the memory is formatted.
AckedReadable ==
    pc = "idle" =>
        \A a \in Addrs : acked[a] # None => Read(a) = acked[a]

\* A transfer or a recovery never runs out of slots in the receiving page,
\* however often power loss makes it start over (PAGE_FULL there would leave
\* the memory half transferred).
RoomSuffices ==
    pc = "first" \/ CopyPending => \E p \in WritePage : HasRoom(p)

\* Every start and every call completes: with power losses in a row bounded,
\* the memory is ready for the next call again and again.
ReadyAgain == []<>(pc = "idle")

\* The value variable a has once the call or recovery in progress is over.
\* While a page receives, the variable in its first slot is the one being
\* written and is already new; the others are still those of the valid page.
Newer(p, a) == IF slot[p][1].adr = a THEN slot[p][1].dat ELSE Latest(Other(p), a)

Logical(a) ==
    IF hdr[0] = VALID_PAGE /\ hdr[1] = VALID_PAGE THEN Latest(new, a)
    ELSE IF \E p \in Pages : hdr[p] = RECEIVE_DATA /\ hdr[Other(p)] = VALID_PAGE
         THEN Newer(CHOOSE p \in Pages : hdr[p] = RECEIVE_DATA, a)
    ELSE IF \E p \in Pages : hdr[p] # ERASED
         THEN Latest(CHOOSE p \in Pages : hdr[p] # ERASED, a)
    ELSE None

Pending ==
    IF job = "write" /\ adr \in Table /\ Logical(adr) # dat
    THEN [adr |-> adr, dat |-> dat] ELSE None

Store == INSTANCE PersistentStore
            WITH Vars <- Table, Values <- Data,
                 store <- [a \in Table |-> Logical(a)], req <- Pending

\* The pages with their transfers and recoveries are a persistent store: each
\* write happens completely or not at all, and nothing but a format loses or
\* changes any other variable, at whatever step power is lost.
ImplementsStore == Store!Spec
-----------------------------------------------------------------------------
(* Inductive invariants                                                    *)

\* What TypeOK rests on, for any Faults: the steps that use the arguments of
\* the call, the chosen slot or the loop counter find them set.
ArgInv ==
    /\ pc \in {"data", "addr", "receive", "first", "firstAddr"} =>
            adr \in Addrs /\ dat \in Data
    /\ pc \in {"addr", "firstAddr", "copyAddr"} => at \in Slots
    /\ pc = "copy" => idx >= 1
    /\ pc = "copyAddr" => idx \in 1..NbOfVar

TypeInv == TypeOK /\ ArgInv

\* The invariant behind KnownGood and RoomSuffices, for Faults = {}.

\* The five states the two headers can be in.
Fresh == hdr[0] = ERASED /\ hdr[1] = ERASED
Settled(p) == hdr[p] = VALID_PAGE /\ hdr[Other(p)] = ERASED
Receiving(p) == hdr[p] = RECEIVE_DATA /\ hdr[Other(p)] = VALID_PAGE
Switching(p) == hdr[p] = RECEIVE_DATA /\ hdr[Other(p)] = ERASED
BothValid == hdr[0] = VALID_PAGE /\ hdr[1] = VALID_PAGE

SomeSettled == \E p \in Pages : Settled(p)

\* After a power loss: everything but a return transfer and two valid pages.
Recoverable == Fresh \/ SomeSettled \/ Receiving(1) \/ \E p \in Pages : Switching(p)

\* Where each call may be, for each state of the headers.
HeaderInv ==
    /\ pc = "off" => Recoverable
    /\ pc = "init" => Recoverable /\ job = "init"
    /\ pc = "idle" => SomeSettled
    /\ pc = "repair" => Switching(new) /\ job = "init"
    /\ pc = "wipe" => new = 0 /\ (Fresh \/ Settled(0)) /\ job \in {"init", "format"}
    /\ pc = "mark" => \/ new = 0 /\ Fresh /\ job \in {"init", "format"}
                      \/ new = 1 /\ Receiving(1) /\ job = "init"
    /\ pc = "tidy" => /\ job \in {"init", "format"}
                      /\ Settled(new) \/ (new = 1 /\ BothValid)
    /\ pc \in {"data", "addr", "receive"} => SomeSettled /\ job = "write"
    /\ pc \in {"first", "firstAddr", "erase"} => Receiving(new) /\ job = "write"
    /\ pc \in {"copy", "copyAddr"} => \/ Receiving(new) /\ job = "write"
                                      \/ new = 1 /\ Receiving(1) /\ job = "init"
    /\ pc = "markLast" => Switching(new)

\* An erased header stands for a blank page.
BlankInv == \A p \in Pages : hdr[p] = ERASED => slot[p] = BlankPage

UsedUpTo(p, n) == \A i \in Slots : i > n => slot[p][i] = BlankSlot

\* How much of the receiving page a transfer has used: the slot of the written
\* variable, the table once per interrupted attempt, and this attempt's part.
Attempts == NbOfVar * retries

RoomInv ==
    /\ pc \in {"off", "init"} /\ Receiving(1) => UsedUpTo(1, Attempts + 1)
    /\ pc = "first" => UsedUpTo(new, 0)
    /\ pc = "firstAddr" => UsedUpTo(new, 1) /\ at = 1
    /\ pc = "copy" => UsedUpTo(new, Attempts + idx)
    /\ pc = "copyAddr" => /\ UsedUpTo(new, Attempts + idx + 1)
                          /\ at <= Attempts + idx + 1
    /\ pc \in {"mark", "erase"} /\ Receiving(1) => UsedUpTo(1, Attempts + NbOfVar + 1)

\* KnownGood and RoomSuffices follow from this invariant, and only this one is
\* preserved by every step on its own.
EepromInv == TypeInv /\ HeaderInv /\ BlankInv /\ RoomInv
=============================================================================
