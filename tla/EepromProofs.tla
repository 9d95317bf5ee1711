---------------------------- MODULE EepromProofs ----------------------------
(***************************************************************************)
(* What holds of the EEPROM emulation for every page size, table, value    *)
(* set and number of power losses, proved with TLAPS.                      *)
(***************************************************************************)
EXTENDS EepromEmulation, DataFacts

USE DEF Pages, Slots, NbOfVar

-----------------------------------------------------------------------------
(* Facts about the scans over a page                                       *)

\* The scan for a free slot returns a free slot, and the lowest one.
LEMMA FirstOfSlots ==
    ASSUME NEW S \in SUBSET Slots, S # {}
    PROVE  First(S) \in S /\ \A j \in S : First(S) <= j
<1>1. S \subseteq Nat
    OBVIOUS
<1>2. \E x \in S : \A y \in S : x <= y
    BY <1>1, LeastExists
<1> QED BY <1>2 DEF First

\* Reading a variable returns a value or finds none.
LEMMA LastIsValue ==
    ASSUME TypeOK, NEW p \in Pages, NEW a
    PROVE  Latest(p, a) \in Data \union {None}
<1> DEFINE holding == {i \in Slots : slot[p][i].adr = a}
<1>1. CASE holding = {}
    BY <1>1 DEF Latest
<1>2. CASE holding # {}
  <2>1. NSlots \in Nat /\ holding \subseteq 0..NSlots
    BY BoundAssumption
  <2>2. \E x \in holding : \A y \in holding : y <= x
    BY <2>1, <1>2, GreatestExists
  <2> DEFINE last == CHOOSE i \in holding : \A j \in holding : j <= i
  <2>3. last \in Slots
    BY <2>2
  <2>4. slot[p][last].dat \in Data
    BY <2>3 DEF TypeOK, SlotSet
  <2>5. Latest(p, a) = slot[p][last].dat
    BY <1>2 DEF Latest
  <2> QED BY <2>4, <2>5
<1> QED BY <1>1, <1>2

LEMMA PagesOfOperations ==
    ReadPage \subseteq Pages /\ WritePage \subseteq Pages
BY DEF ReadPage, WritePage

LEMMA ReadIsValue ==
    ASSUME TypeOK, NEW a
    PROVE  Read(a) \in Data \union {None}
<1>1. CASE \E p \in ReadPage : Latest(p, a) # None
  <2>1. (CHOOSE p \in ReadPage : TRUE) \in Pages
    BY <1>1, PagesOfOperations
  <2> QED BY <1>1, <2>1, LastIsValue DEF Read
<1>2. CASE ~ \E p \in ReadPage : Latest(p, a) # None
    BY <1>2 DEF Read
<1> QED BY <1>1, <1>2

LEMMA TableIsAddresses ==
    /\ NbOfVar \in Nat
    /\ \A i \in 1..NbOfVar : VirtAddVarTab[i] \in Addrs
BY TableAssumption

LEMMA SlotParts ==
    ASSUME NEW s \in SlotSet
    PROVE  /\ \A d \in Data : [s EXCEPT !.dat = d] \in SlotSet
           /\ \A a \in Addrs : [s EXCEPT !.adr = a] \in SlotSet
BY DEF SlotSet

\* Programming the data half of the first free slot.
LEMMA ProgramDataType ==
    ASSUME TypeOK, NEW p \in Pages, NEW d \in Data, NEW l \in PCs,
           HasRoom(p), ProgramData(p, d, l)
    PROVE  TypeOK' /\ at' \in FreeSlots(p)
<1> DEFINE i == First(FreeSlots(p))
<1>1. i \in FreeSlots(p) /\ i \in Slots
    BY FirstOfSlots DEF HasRoom, FreeSlots
<1>2. slot' = [slot EXCEPT ![p][i].dat = d] /\ at' = i /\ pc' = l
    BY DEF ProgramData
<1>3. [slot[p][i] EXCEPT !.dat = d] \in SlotSet
    BY <1>1, SlotParts DEF TypeOK
<1>4. slot' \in [Pages -> [Slots -> SlotSet]]
    BY <1>1, <1>2, <1>3 DEF TypeOK
<1> QED BY <1>1, <1>2, <1>4, BoundAssumption DEF TypeOK, ProgramData

\* Programming the address half of the slot in work.
LEMMA ProgramAddressType ==
    ASSUME TypeOK, NEW p \in Pages, NEW a \in Addrs, at \in Slots,
           ProgramAddress(p, a)
    PROVE  /\ hdr' = hdr
           /\ slot' \in [Pages -> [Slots -> SlotSet]]
<1>1. [slot[p][at] EXCEPT !.adr = a] \in SlotSet
    BY SlotParts DEF TypeOK
<1> QED BY <1>1 DEF TypeOK, ProgramAddress

LEMMA EraseType ==
    ASSUME TypeOK, NEW p \in Pages, Erase(p) \/ EraseUnlessVerified(p)
    PROVE  hdr' \in [Pages -> PageStatus] /\ slot' \in [Pages -> [Slots -> SlotSet]]
<1>1. BlankPage \in [Slots -> SlotSet]
    BY ValueAssumption DEF BlankPage, BlankSlot, SlotSet
<1> QED BY <1>1 DEF TypeOK, Erase, EraseUnlessVerified, flash, PageStatus

LEMMA ReturnType ==
    ASSUME TypeOK, Return
    PROVE  /\ pc' \in PCs /\ job' \in {"none", "init", "write", "format"}
           /\ adr' \in Addrs \union {None} /\ dat' \in Data \union {None}
           /\ new' \in Pages /\ idx' \in 0..NbOfVar + 1 /\ at' \in 0..NSlots
           /\ retries' \in 0..MaxRetries
BY BoundAssumption, TableIsAddresses DEF Return, PCs

-----------------------------------------------------------------------------
(* Type correctness, whatever faults are switched on                       *)

LEMMA InitType == Init => TypeInv
BY BoundAssumption, ValueAssumption, TableIsAddresses
   DEF Init, TypeInv, TypeOK, ArgInv, PCs, PageStatus, SlotSet, BlankPage, BlankSlot

\* A call that is over leaves a well-typed idle state.
LEMMA EndType ==
    ASSUME TypeInv, Succeed \/ Fail,
           hdr' \in [Pages -> PageStatus], slot' \in [Pages -> [Slots -> SlotSet]]
    PROVE  TypeInv'
<1>1. Return
    BY DEF Succeed, Fail
<1>2. acked' \in [Addrs -> Data \union {None}]
    BY DEF Succeed, Fail, TypeInv, TypeOK
<1>3. TypeOK'
    BY <1>1, <1>2, ReturnType DEF TypeInv, TypeOK
<1>4. ArgInv'
    BY <1>1 DEF Return, ArgInv
<1> QED BY <1>3, <1>4 DEF TypeInv

LEMMA NextType == TypeInv /\ [Next]_vars => TypeInv'
<1> SUFFICES ASSUME TypeInv, [Next]_vars PROVE TypeInv'
    OBVIOUS
<1> USE BoundAssumption, TableIsAddresses
<1>1. CASE PowerOn
    BY <1>1 DEF PowerOn, TypeInv, TypeOK, ArgInv, PCs
<1>2. CASE PowerLoss
    BY <1>2 DEF PowerLoss, TypeInv, TypeOK, ArgInv, PCs
<1>3. CASE InitDispatch
    BY <1>3 DEF InitDispatch, InitPlan, TypeInv, TypeOK, ArgInv, PCs
<1>4. CASE Repair \/ Wipe \/ EraseOld
  <2>1. TypeOK /\ Other(new) \in Pages
    BY DEF TypeInv, TypeOK, Other
  <2>2. hdr' \in [Pages -> PageStatus] /\ slot' \in [Pages -> [Slots -> SlotSet]]
    BY <1>4, <2>1, EraseType DEF Repair, Wipe, EraseOld
  <2> QED BY <1>4, <2>2 DEF Repair, Wipe, EraseOld, Goto, TypeInv, TypeOK, ArgInv, PCs
<1>5. CASE Tidy
  <2>1. TypeOK /\ Other(new) \in Pages
    BY DEF TypeInv, TypeOK, Other
  <2>2. hdr' \in [Pages -> PageStatus] /\ slot' \in [Pages -> [Slots -> SlotSet]]
    BY <1>5, <2>1, EraseType DEF Tidy
  <2> QED BY <1>5, <2>2, EndType DEF Tidy
<1>6. CASE FlashFormat
    BY <1>6 DEF FlashFormat, TypeInv, TypeOK, ArgInv, PCs
<1>7. CASE Mark
    BY <1>7 DEF Mark, Goto, Program, PageStatus, TypeInv, TypeOK, ArgInv, PCs
<1>8. CASE \E a \in Addrs, d \in Data : FlashWrite(a, d)
    BY <1>8 DEF FlashWrite, TypeInv, TypeOK, ArgInv, PCs
<1>9. CASE WriteData \/ FirstData
  <2>1. PICK p \in WritePage, l \in {"addr", "firstAddr"} :
            HasRoom(p) /\ ProgramData(p, dat, l)
    BY <1>9 DEF WriteData, FirstData
  <2>2. p \in Pages /\ l \in PCs /\ dat \in Data /\ adr \in Addrs
    BY <1>9, <2>1, PagesOfOperations DEF PCs, WriteData, FirstData, TypeInv, ArgInv
  <2>3. TypeOK' /\ at' \in Slots
    BY <2>1, <2>2, ProgramDataType DEF TypeInv, FreeSlots
  <2> QED BY <2>1, <2>2, <2>3 DEF ProgramData, TypeInv, ArgInv
<1>10. CASE WriteAddress
  <2>1. PICK p \in WritePage : ProgramAddress(p, adr)
    BY <1>10 DEF WriteAddress
  <2>2. p \in Pages /\ adr \in Addrs /\ at \in Slots /\ TypeOK
    BY <1>10, PagesOfOperations DEF WriteAddress, TypeInv, ArgInv
  <2>3. hdr' \in [Pages -> PageStatus] /\ slot' \in [Pages -> [Slots -> SlotSet]]
    BY <2>1, <2>2, ProgramAddressType DEF TypeOK
  <2> QED BY <1>10, <2>3, EndType DEF WriteAddress
<1>11. CASE WritePageFull
    BY <1>11 DEF WritePageFull, flash, Goto, TypeInv, TypeOK, ArgInv, PCs
<1>12. CASE BeginTransfer
  <2>1. PICK p \in ReadPage :
            /\ new' = Other(p)
            /\ hdr' = [hdr EXCEPT ![Other(p)] = Program(hdr[Other(p)], RECEIVE_DATA)]
    BY <1>12 DEF BeginTransfer
  <2>2. Other(p) \in Pages
    BY PagesOfOperations DEF Other
  <2>3. hdr' \in [Pages -> PageStatus]
    BY <2>1, <2>2 DEF Program, PageStatus, TypeInv, TypeOK
  <2> QED BY <1>12, <2>1, <2>2, <2>3 DEF BeginTransfer, TypeInv, TypeOK, ArgInv, PCs
<1>13. CASE FirstAddress
  <2>1. PICK p \in WritePage : ProgramAddress(p, adr)
    BY <1>13 DEF FirstAddress
  <2>2. p \in Pages /\ adr \in Addrs /\ at \in Slots /\ TypeOK
    BY <1>13, PagesOfOperations DEF FirstAddress, TypeInv, ArgInv
  <2>3. hdr' = hdr /\ slot' \in [Pages -> [Slots -> SlotSet]]
    BY <2>1, <2>2, ProgramAddressType
  <2> QED BY <1>13, <2>3 DEF FirstAddress, TypeInv, TypeOK, ArgInv, PCs
<1>14. CASE CopySkip
    BY <1>14 DEF CopySkip, TypeInv, TypeOK, ArgInv, PCs
<1>15. CASE CopyData
  <2>1. PICK p \in WritePage : HasRoom(p) /\ ProgramData(p, Read(CopyAdr), "copyAddr")
    BY <1>15 DEF CopyData
  <2>2. p \in Pages /\ "copyAddr" \in PCs /\ idx \in 1..NbOfVar
    BY <1>15, PagesOfOperations DEF PCs, CopyData, CopyPending, TypeInv, TypeOK, ArgInv
  <2>3. Read(CopyAdr) \in Data
    BY <1>15, ReadIsValue DEF CopyData, CopyPending, TypeInv
  <2>4. TypeOK' /\ at' \in Slots
    BY <2>1, <2>2, <2>3, ProgramDataType DEF TypeInv, FreeSlots
  <2> QED BY <2>1, <2>2, <2>4 DEF ProgramData, TypeInv, ArgInv
<1>16. CASE CopyAddress
  <2>1. PICK p \in WritePage : ProgramAddress(p, CopyAdr)
    BY <1>16 DEF CopyAddress
  <2>2. /\ p \in Pages /\ CopyAdr \in Addrs /\ at \in Slots /\ TypeOK
        /\ idx \in 1..NbOfVar
    BY <1>16, PagesOfOperations DEF CopyAddress, CopyAdr, TypeInv, ArgInv
  <2>3. hdr' = hdr /\ slot' \in [Pages -> [Slots -> SlotSet]]
    BY <2>1, <2>2, ProgramAddressType
  <2> QED BY <1>16, <2>2, <2>3 DEF CopyAddress, TypeInv, TypeOK, ArgInv, PCs
<1>17. CASE CopyDone
    BY <1>17 DEF CopyDone, flash, Goto, TypeInv, TypeOK, ArgInv, PCs
<1>18. CASE CopyPageFull \/ ProgramFailure
  <2>1. Fail /\ hdr' = hdr /\ slot' = slot
    BY <1>18 DEF CopyPageFull, ProgramFailure, flash
  <2> QED BY <2>1, EndType DEF TypeInv, TypeOK
<1>19. CASE MarkLast
  <2>1. hdr' \in [Pages -> PageStatus] /\ slot' \in [Pages -> [Slots -> SlotSet]]
    BY <1>19 DEF MarkLast, Program, PageStatus, TypeInv, TypeOK
  <2> QED BY <1>19, <2>1, EndType DEF MarkLast
<1>20. CASE UNCHANGED vars
    BY <1>20 DEF vars, TypeInv, TypeOK, ArgInv
<1> QED BY <1>1, <1>2, <1>3, <1>4, <1>5, <1>6, <1>7, <1>8, <1>9, <1>10, <1>11,
           <1>12, <1>13, <1>14, <1>15, <1>16, <1>17, <1>18, <1>19, <1>20
        DEF Next, Progress, Environment

\* In every behaviour, with any faults, the pages hold pairs of the model, a
\* call uses only slots and table entries that exist, and what it returns is
\* a value or nothing.
THEOREM TypeCorrect == Spec => []TypeOK
<1>1. TypeInv => TypeOK
    BY DEF TypeInv
<1> QED BY <1>1, InitType, NextType, PTL DEF Spec
-----------------------------------------------------------------------------
(* The headers and the room in the receiving page, without faults          *)

\* The two pages, named.
LEMMA OtherPage ==
    /\ Other(0) = 1 /\ Other(1) = 0
    /\ \A p \in Pages : Other(p) \in Pages /\ Other(p) # p
BY DEF Other

\* With a fixed number of attempts, the counts used in RoomInv are numbers
\* and one more attempt still fits in the page.
LEMMA RoomForAttempt ==
    ASSUME TypeOK
    PROVE  /\ Attempts \in Nat
           /\ Attempts + NbOfVar + 1 <= NSlots
           /\ \A r \in Nat : r = retries + 1 => NbOfVar * r = Attempts + NbOfVar
<1>1. NbOfVar \in Nat /\ MaxRetries \in Nat /\ retries \in 0..MaxRetries
    BY TableIsAddresses, BoundAssumption DEF TypeOK
<1>2. /\ Attempts \in Nat
      /\ NbOfVar * (retries + 1) = Attempts + NbOfVar
      /\ Attempts + NbOfVar <= NbOfVar * (MaxRetries + 1)
    BY <1>1, ProductBound DEF Attempts
<1>3. NSlots \in Nat /\ NbOfVar * (MaxRetries + 1) \in Nat
    BY <1>1, BoundAssumption
<1> QED BY <1>1, <1>2, <1>3, RoomAssumption

\* Erasing keeps the header and the contents of a page together.
LEMMA EraseEffect ==
    ASSUME TypeOK, BlankInv, NEW p \in Pages, Erase(p)
    PROVE  /\ hdr'[p] = ERASED /\ slot'[p] = BlankPage
           /\ hdr'[Other(p)] = hdr[Other(p)] /\ slot'[Other(p)] = slot[Other(p)]
           /\ BlankInv'
BY OtherPage DEF TypeOK, BlankInv, Erase

\* The conditional erase: page 0 is erased unless its header already is; the
\* check never lets page 1 be erased, which matters only if it is not blank.
LEMMA ConditionalErase ==
    ASSUME TypeOK, BlankInv, NEW p \in Pages, EraseUnlessVerified(p),
           p = 1 => hdr[1] = ERASED
    PROVE  /\ hdr'[p] = ERASED
           /\ hdr'[Other(p)] = hdr[Other(p)] /\ slot'[Other(p)] = slot[Other(p)]
           /\ BlankInv'
<1>1. CASE VerifyPageFullyErased(p)
    BY <1>1 DEF EraseUnlessVerified, VerifyPageFullyErased, flash, BlankInv
<1>2. CASE ~VerifyPageFullyErased(p)
    BY <1>2, EraseEffect DEF EraseUnlessVerified
<1> QED BY <1>1, <1>2

\* Writing the data of a pair: the lowest free slot is at most n when the
\* slots from n on are free.
LEMMA ProgramDataRoom ==
    ASSUME TypeOK, NEW p \in Pages, NEW d, NEW l, NEW n \in Slots,
           UsedUpTo(p, n - 1), ProgramData(p, d, l)
    PROVE  /\ HasRoom(p)
           /\ at' \in 1..n
           /\ \A i \in Slots : i > n => slot'[p][i] = BlankSlot
<1>1. n \in FreeSlots(p)
    BY DEF UsedUpTo, FreeSlots
<1>2. First(FreeSlots(p)) \in FreeSlots(p) /\ First(FreeSlots(p)) <= n
    BY <1>1, FirstOfSlots DEF FreeSlots
<1>3. /\ at' = First(FreeSlots(p))
      /\ slot' = [slot EXCEPT ![p][First(FreeSlots(p))].dat = d]
    BY DEF ProgramData
<1>4. at' \in 1..n
    BY <1>2, <1>3 DEF FreeSlots
<1>5. \A i \in Slots : i > n => slot'[p][i] = slot[p][i]
    BY <1>3, <1>4 DEF TypeOK
<1>6. \A i \in Slots : i > n => slot'[p][i] = BlankSlot
    BY <1>5 DEF UsedUpTo
<1> QED BY <1>1, <1>4, <1>6 DEF HasRoom

\* Data goes only to a page in use, so that erased pages stay blank.
LEMMA WriteKeepsBlank ==
    ASSUME TypeOK, BlankInv, NEW p \in WritePage,
           \/ \E d, l : ProgramData(p, d, l)
           \/ \E a : ProgramAddress(p, a)
    PROVE  /\ hdr' = hdr /\ BlankInv'
           /\ slot'[Other(p)] = slot[Other(p)]
<1>1. p \in Pages /\ hdr[p] # ERASED
    BY PagesOfOperations DEF WritePage, ERASED, VALID_PAGE, RECEIVE_DATA, TypeOK
<1>2. hdr' = hdr /\ \A q \in Pages : q # p => slot'[q] = slot[q]
    BY <1>1 DEF ProgramData, ProgramAddress, TypeOK
<1> QED BY <1>1, <1>2, OtherPage DEF BlankInv

\* While page p receives, it is the page writes go to.
LEMMA ReceivingIsWritten ==
    ASSUME NEW p \in Pages, Receiving(p)
    PROVE  WritePage = {p}
BY DEF Receiving, Other, WritePage, RECEIVE_DATA, VALID_PAGE

LEMMA SettledIsActive ==
    ASSUME NEW p \in Pages, Settled(p)
    PROVE  WritePage = {p} /\ ReadPage = {p}
BY DEF Settled, Other, WritePage, ReadPage, RECEIVE_DATA, VALID_PAGE, ERASED

\* The end of a call needs no more than a settled pair of pages.
LEMMA EndRoom ==
    ASSUME Return PROVE RoomInv'
BY DEF Return, RoomInv

LEMMA InitEeprom == Init => EepromInv
<1> SUFFICES ASSUME Init PROVE HeaderInv /\ BlankInv /\ RoomInv
    BY InitType DEF EepromInv
<1>1. HeaderInv
    BY DEF Init, HeaderInv, Recoverable, Fresh
<1>2. BlankInv
    BY DEF Init, BlankInv
<1>3. RoomInv
    BY DEF Init, RoomInv, Receiving, ERASED, RECEIVE_DATA
<1> QED BY <1>1, <1>2, <1>3

LEMMA NextEeprom ==
    ASSUME Faults = {}, EepromInv, [Next]_vars
    PROVE  EepromInv'
<1> USE OtherPage DEF ERASED, RECEIVE_DATA, VALID_PAGE
<1>t. /\ TypeInv /\ TypeOK /\ ArgInv /\ HeaderInv /\ BlankInv /\ RoomInv
      /\ TypeInv' /\ TypeOK'
    BY NextType DEF EepromInv, TypeInv
<1>n. /\ Attempts \in Nat /\ NbOfVar \in Nat /\ NSlots \in Nat
      /\ Attempts + NbOfVar + 1 <= NSlots
    BY <1>t, RoomForAttempt, TableIsAddresses, BoundAssumption
<1> SUFFICES HeaderInv' /\ BlankInv' /\ RoomInv'
    BY <1>t DEF EepromInv
<1>1. CASE PowerOn
  <2>1. HeaderInv'
    BY <1>1, <1>t DEF PowerOn, HeaderInv, Recoverable, Fresh, SomeSettled, Settled,
            Receiving, Switching
  <2>2. BlankInv'
    BY <1>1, <1>t DEF PowerOn, BlankInv
  <2>3. RoomInv'
    BY <1>1, <1>t DEF PowerOn, RoomInv, Receiving, UsedUpTo, Attempts
  <2> QED BY <2>1, <2>2, <2>3
<1>2. CASE PowerLoss
  <2>1. ~Receiving(0) /\ ~BothValid
    BY <1>2 DEF PowerLoss, LossSurvivable, Receiving, BothValid
  <2>2. Recoverable
    BY <1>2, <1>t, <2>1 DEF PowerLoss, HeaderInv, Recoverable, SomeSettled, Settled,
            TypeOK, PCs
  <2>3. HeaderInv'
    BY <1>2, <2>2 DEF PowerLoss, HeaderInv, Recoverable, Fresh, SomeSettled, Settled,
            Receiving, Switching
  <2>4. BlankInv'
    BY <1>2, <1>t DEF PowerLoss, BlankInv
  <2>5. NbOfVar * retries' = Attempts + NbOfVar
    BY <1>2, <1>t, RoomForAttempt DEF PowerLoss, TypeOK
  <2>6. Receiving(1) => UsedUpTo(1, Attempts + NbOfVar + 1)
    <3>1. SUFFICES ASSUME Receiving(1)
                   PROVE  \E n \in Nat : n <= Attempts + NbOfVar + 1 /\ UsedUpTo(1, n)
        BY <1>n DEF UsedUpTo
    <3>2. pc \in {"off", "init", "first", "firstAddr", "copy", "copyAddr", "mark", "erase"}
        BY <3>1, <1>t DEF HeaderInv, Recoverable, SomeSettled, Fresh, Settled, Switching,
                Receiving, BothValid, TypeOK, PCs
    <3>3. pc \in {"first", "firstAddr", "copy", "copyAddr", "erase"} => new = 1
        BY <3>1, <1>t DEF HeaderInv, Receiving, TypeOK
    <3>4. CASE pc \in {"off", "init"}
        BY <3>1, <3>4, <1>t, <1>n DEF RoomInv
    <3>5. CASE pc = "first"
        BY <3>3, <3>5, <1>t, <1>n DEF RoomInv
    <3>6. CASE pc = "firstAddr"
        BY <3>3, <3>6, <1>t, <1>n DEF RoomInv
    <3>7. CASE pc = "copy"
      <4>1. Attempts + idx \in Nat /\ Attempts + idx <= Attempts + NbOfVar + 1
        BY <1>t, <1>n DEF TypeOK
      <4> QED BY <3>3, <3>7, <4>1, <1>t DEF RoomInv
    <3>8. CASE pc = "copyAddr"
      <4>1. Attempts + idx + 1 \in Nat /\ Attempts + idx + 1 <= Attempts + NbOfVar + 1
        BY <3>8, <1>t, <1>n DEF ArgInv
      <4> QED BY <3>3, <3>8, <4>1, <1>t DEF RoomInv
    <3>9. CASE pc \in {"mark", "erase"}
        BY <3>1, <3>9, <1>t, <1>n DEF RoomInv
    <3> QED BY <3>2, <3>4, <3>5, <3>6, <3>7, <3>8, <3>9
  <2>7. RoomInv'
    BY <1>2, <2>5, <2>6, <1>n DEF PowerLoss, RoomInv, Receiving, UsedUpTo, Attempts
  <2> QED BY <2>3, <2>4, <2>7
<1>3. CASE InitDispatch
  <2>1. HeaderInv'
    BY <1>3, <1>t DEF InitDispatch, InitPlan, HeaderInv, Recoverable, Fresh, SomeSettled,
            Settled, Receiving, Switching, BothValid
  <2>2. BlankInv'
    BY <1>3, <1>t DEF InitDispatch, BlankInv
  <2>3. RoomInv'
    BY <1>3, <1>t, <2>1 DEF InitDispatch, InitPlan, RoomInv, Receiving, UsedUpTo, Attempts,
            HeaderInv, Recoverable, Fresh, SomeSettled, Settled, Switching
  <2> QED BY <2>1, <2>2, <2>3
<1>4. CASE Repair
  <2>1. Switching(new) /\ Other(new) \in Pages /\ hdr[Other(new)] = ERASED
    BY <1>4, <1>t DEF Repair, HeaderInv, Switching, TypeOK
  <2>2. /\ hdr'[Other(new)] = ERASED
        /\ hdr'[Other(Other(new))] = hdr[Other(Other(new))]
        /\ BlankInv'
    BY <1>4, <1>t, <2>1, ConditionalErase DEF Repair
  <2>3. Switching(new)' /\ pc' = "markLast" /\ new' = new
    BY <1>4, <1>t, <2>1, <2>2 DEF Repair, Goto, Switching, Other, TypeOK
  <2>4. HeaderInv' /\ RoomInv'
    BY <2>3 DEF HeaderInv, RoomInv
  <2> QED BY <2>2, <2>4
<1>5. CASE Wipe
  <2>1. new = 0 /\ hdr[1] = ERASED /\ job \in {"init", "format"}
    BY <1>5, <1>t DEF Wipe, HeaderInv, Fresh, Settled
  <2>2. hdr'[0] = ERASED /\ hdr'[1] = hdr[1] /\ BlankInv'
    BY <1>5, <1>t, <2>1, ConditionalErase DEF Wipe
  <2>3. Fresh' /\ pc' = "mark" /\ new' = 0 /\ job' = job
    BY <1>5, <2>1, <2>2 DEF Wipe, Goto, Fresh
  <2>4. HeaderInv' /\ RoomInv'
    BY <2>1, <2>3 DEF HeaderInv, RoomInv, Fresh, Receiving
  <2> QED BY <2>2, <2>4
<1>6. CASE Mark
  <2>1. \/ new = 0 /\ Fresh
        \/ new = 1 /\ Receiving(1)
    BY <1>6, <1>t DEF Mark, HeaderInv
  <2>2. job \in {"init", "format"} /\ job' = job /\ pc' = "tidy" /\ new' = new
    BY <1>6, <1>t DEF Mark, Goto, HeaderInv
  <2>3. hdr' = [hdr EXCEPT ![new] = VALID_PAGE] /\ slot' = slot
    BY <1>6, <2>1, <1>t DEF Mark, Program
  <2>4. Settled(new)' \/ (new' = 1 /\ BothValid')
    BY <2>1, <2>2, <2>3, <1>t DEF Settled, BothValid, Fresh, Receiving, TypeOK
  <2>5. HeaderInv' /\ RoomInv'
    BY <2>2, <2>4 DEF HeaderInv, RoomInv
  <2>6. BlankInv'
    BY <2>1, <2>3, <1>t DEF BlankInv, TypeOK
  <2> QED BY <2>5, <2>6
<1>7. CASE Tidy
  <2>1. new \in Pages /\ (Settled(new) \/ (new = 1 /\ BothValid))
    BY <1>7, <1>t DEF Tidy, HeaderInv, TypeOK
  <2>2. Other(new) = 1 => hdr[1] = ERASED
    BY <2>1 DEF Settled, Other
  <2>3. /\ hdr'[Other(new)] = ERASED
        /\ hdr'[Other(Other(new))] = hdr[Other(Other(new))]
        /\ BlankInv'
    BY <1>7, <1>t, <2>1, <2>2, ConditionalErase DEF Tidy
  <2>4. hdr'[new] = VALID_PAGE
    BY <2>1, <2>3 DEF Settled, BothValid, Other
  <2>5. SomeSettled' /\ pc' = "idle"
    BY <1>7, <2>1, <2>3, <2>4 DEF SomeSettled, Settled, Tidy, Succeed, Return
  <2>6. HeaderInv' /\ RoomInv'
    BY <1>7, <2>5, EndRoom DEF HeaderInv, Tidy, Succeed
  <2> QED BY <2>3, <2>6
<1>8. CASE FlashFormat
  <2>1. Settled(0)
    BY <1>8, <1>t DEF FlashFormat, HeaderInv, SomeSettled, Settled
  <2>2. HeaderInv' /\ BlankInv' /\ RoomInv'
    BY <1>8, <1>t, <2>1 DEF FlashFormat, HeaderInv, Settled, BlankInv, RoomInv
  <2> QED BY <2>2
<1>9. CASE \E a \in Addrs, d \in Data : FlashWrite(a, d)
    BY <1>9, <1>t DEF FlashWrite, HeaderInv, SomeSettled, Settled, BlankInv, RoomInv
<1>10. CASE WriteData
  <2>1. PICK p \in WritePage : ProgramData(p, dat, "addr")
    BY <1>10 DEF WriteData
  <2>2. hdr' = hdr /\ BlankInv'
    BY <1>t, <2>1, WriteKeepsBlank
  <2>3. SomeSettled /\ pc' = "addr" /\ job' = "write"
    BY <1>10, <1>t, <2>1 DEF WriteData, ProgramData, HeaderInv
  <2>4. HeaderInv' /\ RoomInv'
    BY <2>2, <2>3 DEF HeaderInv, RoomInv, SomeSettled, Settled
  <2> QED BY <2>2, <2>4
<1>11. CASE WriteAddress
  <2>1. PICK p \in WritePage : ProgramAddress(p, adr)
    BY <1>11 DEF WriteAddress
  <2>2. hdr' = hdr /\ BlankInv'
    BY <1>t, <2>1, WriteKeepsBlank
  <2>3. SomeSettled' /\ pc' = "idle"
    BY <1>11, <1>t, <2>2 DEF WriteAddress, HeaderInv, SomeSettled, Settled, Succeed, Return
  <2>4. HeaderInv' /\ RoomInv'
    BY <1>11, <2>3, EndRoom DEF HeaderInv, WriteAddress, Succeed
  <2> QED BY <2>2, <2>4
<1>12. CASE WritePageFull
    BY <1>12, <1>t DEF WritePageFull, flash, Goto, HeaderInv, SomeSettled, Settled,
            BlankInv, RoomInv
<1>13. CASE BeginTransfer
  <2>1. PICK q \in Pages : Settled(q)
    BY <1>13, <1>t DEF BeginTransfer, HeaderInv, SomeSettled
  <2>2. /\ new' = Other(q) /\ slot' = slot
        /\ hdr' = [hdr EXCEPT ![Other(q)] = RECEIVE_DATA]
    BY <1>13, <2>1, SettledIsActive DEF BeginTransfer, Program, Settled
  <2>3. Receiving(new)' /\ slot[Other(q)] = BlankPage
    BY <2>1, <2>2, <1>t DEF Settled, Receiving, BlankInv, TypeOK, Other
  <2>4. pc' = "first" /\ job' = "write"
    BY <1>13, <1>t DEF BeginTransfer, HeaderInv
  <2>5. UsedUpTo(new, 0)'
    BY <2>2, <2>3 DEF UsedUpTo, BlankPage
  <2>6. BlankInv'
    BY <2>2, <1>t, <2>1 DEF BlankInv, TypeOK
  <2>7. HeaderInv' /\ RoomInv'
    BY <2>3, <2>4, <2>5 DEF HeaderInv, RoomInv
  <2> QED BY <2>6, <2>7
<1>14. CASE FirstData
  <2>1. new \in Pages /\ Receiving(new) /\ WritePage = {new} /\ job = "write"
    BY <1>14, <1>t, ReceivingIsWritten DEF FirstData, HeaderInv, TypeOK
  <2>2. ProgramData(new, dat, "firstAddr")
    BY <1>14, <2>1 DEF FirstData
  <2>3. hdr' = hdr /\ BlankInv' /\ pc' = "firstAddr" /\ new' = new /\ job' = job
    BY <1>t, <2>1, <2>2, WriteKeepsBlank DEF ProgramData
  <2>4. 1 \in Slots /\ UsedUpTo(new, 1 - 1)
    BY <1>14, <1>t, <1>n DEF FirstData, RoomInv
  <2>5. at' \in 1..1 /\ UsedUpTo(new, 1)'
    BY <1>t, <2>1, <2>2, <2>3, <2>4, ProgramDataRoom DEF UsedUpTo
  <2>6. HeaderInv' /\ RoomInv'
    BY <2>1, <2>3, <2>5 DEF HeaderInv, RoomInv, Receiving
  <2> QED BY <2>3, <2>6
<1>15. CASE FirstAddress
  <2>1. new \in Pages /\ Receiving(new) /\ WritePage = {new} /\ job = "write"
    BY <1>15, <1>t, ReceivingIsWritten DEF FirstAddress, HeaderInv, TypeOK
  <2>2. ProgramAddress(new, adr)
    BY <1>15, <2>1 DEF FirstAddress
  <2>3. hdr' = hdr /\ BlankInv'
    BY <1>t, <2>1, <2>2, WriteKeepsBlank
  <2>4. pc' = "copy" /\ idx' = 1 /\ new' = new /\ job' = job /\ retries' = retries
    BY <1>15 DEF FirstAddress
  <2>5. at = 1 /\ UsedUpTo(new, 1)
    BY <1>15, <1>t DEF FirstAddress, RoomInv
  <2>6. UsedUpTo(new, 1)'
    BY <2>1, <2>2, <2>4, <2>5, <1>t, <1>n DEF UsedUpTo, ProgramAddress, TypeOK
  <2>7. UsedUpTo(new, Attempts + idx)'
    BY <2>4, <2>6, <1>n DEF UsedUpTo, Attempts
  <2>8. HeaderInv' /\ RoomInv'
    BY <2>1, <2>3, <2>4, <2>7 DEF HeaderInv, RoomInv, Receiving
  <2> QED BY <2>3, <2>8
<1>16. CASE CopySkip
  <2>1. UNCHANGED <<hdr, slot, pc, job, new, retries>> /\ pc = "copy"
    BY <1>16 DEF CopySkip
  <2>2. UsedUpTo(new, Attempts + idx) /\ idx \in Nat /\ idx' = idx + 1
    BY <1>16, <1>t DEF CopySkip, RoomInv, TypeOK
  <2>3. UsedUpTo(new, Attempts + idx)'
    BY <2>1, <2>2, <1>n DEF UsedUpTo, Attempts
  <2>4. HeaderInv' /\ BlankInv' /\ RoomInv'
    BY <2>1, <2>3, <1>t DEF HeaderInv, BlankInv, RoomInv, Receiving
  <2> QED BY <2>4
<1>17. CASE CopyData
  <2>1. new \in Pages /\ Receiving(new) /\ WritePage = {new}
    BY <1>17, <1>t, ReceivingIsWritten DEF CopyData, CopyPending, HeaderInv, TypeOK
  <2>2. ProgramData(new, Read(CopyAdr), "copyAddr") /\ idx \in 1..NbOfVar
    BY <1>17, <2>1, <1>t DEF CopyData, CopyPending, ArgInv, TypeOK
  <2>3. /\ hdr' = hdr /\ BlankInv' /\ pc' = "copyAddr" /\ new' = new /\ job' = job
        /\ idx' = idx /\ retries' = retries
    BY <1>t, <2>1, <2>2, WriteKeepsBlank DEF ProgramData
  <2> DEFINE n == Attempts + idx + 1
  <2>4. n \in Slots /\ n - 1 = Attempts + idx
    BY <2>2, <1>n
  <2>5. UsedUpTo(new, n - 1)
    BY <1>17, <2>4, <1>t DEF CopyData, CopyPending, RoomInv
  <2>6. at' \in 1..n /\ \A i \in Slots : i > n => slot'[new][i] = BlankSlot
    <3> HIDE DEF n
    <3> QED BY <1>t, <2>1, <2>2, <2>4, <2>5, ProgramDataRoom
  <2>7. RoomInv'
    BY <2>3, <2>4, <2>6 DEF RoomInv, UsedUpTo, Attempts
  <2>8. HeaderInv'
    BY <1>17, <2>3, <1>t DEF CopyData, CopyPending, HeaderInv, Receiving
  <2> QED BY <2>3, <2>7, <2>8
<1>18. CASE CopyAddress
  <2>1. new \in Pages /\ Receiving(new) /\ WritePage = {new}
    BY <1>18, <1>t, ReceivingIsWritten DEF CopyAddress, HeaderInv, TypeOK
  <2>2. ProgramAddress(new, CopyAdr)
    BY <1>18, <2>1 DEF CopyAddress
  <2>3. hdr' = hdr /\ BlankInv'
    BY <1>t, <2>1, <2>2, WriteKeepsBlank
  <2>4. /\ pc' = "copy" /\ idx' = idx + 1 /\ new' = new /\ job' = job
        /\ retries' = retries
    BY <1>18 DEF CopyAddress
  <2>5. /\ idx \in 1..NbOfVar /\ at \in Slots /\ at <= Attempts + idx + 1
        /\ UsedUpTo(new, Attempts + idx + 1)
    BY <1>18, <1>t DEF CopyAddress, RoomInv, ArgInv
  <2>6. UsedUpTo(new, Attempts + idx)'
    <3>1. Attempts' = Attempts /\ Attempts' + idx' = Attempts + idx + 1
        BY <2>4, <2>5, <1>n DEF Attempts
    <3>2. \A i \in Slots : i > Attempts + idx + 1 => slot'[new][i] = slot[new][i]
        BY <2>1, <2>2, <2>5, <1>t, <1>n DEF ProgramAddress, TypeOK
    <3> QED BY <2>4, <2>5, <3>1, <3>2 DEF UsedUpTo
  <2>7. HeaderInv' /\ RoomInv'
    BY <1>18, <2>3, <2>4, <2>6, <1>t DEF CopyAddress, HeaderInv, RoomInv, Receiving
  <2> QED BY <2>3, <2>7
<1>19. CASE CopyDone
  <2>1. UNCHANGED <<hdr, slot, job, new, idx, retries>> /\ idx = NbOfVar + 1
    BY <1>19, <1>t, <1>n DEF CopyDone, flash, Goto, TypeOK
  <2>2. UsedUpTo(new, Attempts + NbOfVar + 1)
    BY <1>19, <2>1, <1>t, <1>n DEF CopyDone, RoomInv, UsedUpTo
  <2>3. \/ pc' = "erase" /\ job = "write" /\ Receiving(new)
        \/ pc' = "mark" /\ job = "init" /\ new = 1 /\ Receiving(1)
    BY <1>19, <1>t DEF CopyDone, Goto, HeaderInv
  <2>4. Receiving(1) => new = 1
    BY <2>3, <1>t DEF Receiving, Other, TypeOK
  <2>5. HeaderInv' /\ BlankInv' /\ RoomInv'
    BY <2>1, <2>2, <2>3, <2>4, <1>t
       DEF HeaderInv, BlankInv, RoomInv, Receiving, UsedUpTo, Attempts
  <2> QED BY <2>5
<1>20. CASE CopyPageFull
  <2>1. new \in Pages /\ Receiving(new) /\ WritePage = {new}
    BY <1>20, <1>t, ReceivingIsWritten DEF CopyPageFull, CopyPending, HeaderInv, TypeOK
  <2>2. \E n \in Slots : UsedUpTo(new, n - 1)
    <3>1. CASE pc = "first"
      <4>1. 1 \in Slots /\ UsedUpTo(new, 1 - 1)
        BY <3>1, <1>t, <1>n DEF RoomInv
      <4> QED BY <4>1
    <3>2. CASE CopyPending
      <4>1. idx \in 1..NbOfVar /\ UsedUpTo(new, Attempts + idx)
        BY <3>2, <1>t DEF CopyPending, RoomInv, ArgInv, TypeOK
      <4>2. Attempts + idx + 1 \in Slots /\ (Attempts + idx + 1) - 1 = Attempts + idx
        BY <4>1, <1>n
      <4> QED BY <4>1, <4>2
    <3> QED BY <1>20, <3>1, <3>2 DEF CopyPageFull
  <2>3. HasRoom(new)
    BY <2>2 DEF UsedUpTo, HasRoom, FreeSlots
  <2> QED BY <1>20, <2>1, <2>3 DEF CopyPageFull
<1>21. CASE EraseOld
  <2>1. new \in Pages /\ Receiving(new) /\ Other(new) \in Pages /\ Other(Other(new)) = new
    BY <1>21, <1>t DEF EraseOld, HeaderInv, TypeOK, Other
  <2>2. hdr'[Other(new)] = ERASED /\ hdr'[new] = hdr[new] /\ BlankInv'
    BY <1>21, <1>t, <2>1, EraseEffect DEF EraseOld
  <2>3. Switching(new)' /\ pc' = "markLast"
    BY <1>21, <2>1, <2>2 DEF EraseOld, Goto, Switching, Receiving
  <2>4. HeaderInv' /\ RoomInv'
    BY <2>3 DEF HeaderInv, RoomInv
  <2> QED BY <2>2, <2>4
<1>22. CASE MarkLast
  <2>1. new \in Pages /\ Switching(new)
    BY <1>22, <1>t DEF MarkLast, HeaderInv, TypeOK
  <2>2. hdr' = [hdr EXCEPT ![new] = VALID_PAGE] /\ slot' = slot /\ pc' = "idle"
    BY <1>22 DEF MarkLast, Program, Succeed, Return
  <2>3. SomeSettled'
    BY <2>1, <2>2, <1>t DEF SomeSettled, Settled, Switching, Other, TypeOK
  <2>4. BlankInv'
    BY <2>1, <2>2, <1>t DEF BlankInv, TypeOK
  <2>5. HeaderInv' /\ RoomInv'
    BY <1>22, <2>2, <2>3, EndRoom DEF HeaderInv, MarkLast, Succeed
  <2> QED BY <2>4, <2>5
<1>23. CASE ProgramFailure
    BY <1>23 DEF ProgramFailure
<1>24. CASE UNCHANGED vars
    BY <1>24, <1>t DEF vars, HeaderInv, Recoverable, Fresh, SomeSettled, Settled, Receiving,
            Switching, BothValid, BlankInv, RoomInv, UsedUpTo, Attempts
<1> QED BY <1>1, <1>2, <1>3, <1>4, <1>5, <1>6, <1>7, <1>8, <1>9, <1>10, <1>11, <1>12,
           <1>13, <1>14, <1>15, <1>16, <1>17, <1>18, <1>19, <1>20, <1>21, <1>22, <1>23,
           <1>24
        DEF Next, Progress, Environment

LEMMA EepromInvariant == Faults = {} => (Spec => []EepromInv)
<1> SUFFICES ASSUME Faults = {} PROVE Spec => []EepromInv
    OBVIOUS
<1>1. EepromInv /\ [Next]_vars => EepromInv'
    BY NextEeprom
<1> QED BY <1>1, InitEeprom, PTL DEF Spec

\* For every page size, table and bound on power losses in a row that leaves
\* room for one table copy per attempt: when no call runs, one page is valid
\* and the other blank, so EE_Init never has to format a memory in use.  The
\* hypothesis excludes the power losses, formats and flash errors for which
\* runs show the opposite.
THEOREM OnePageValid == Faults = {} => (Spec => []KnownGood)
<1>1. EepromInv => KnownGood
    BY OtherPage DEF EepromInv, HeaderInv, BlankInv, KnownGood, SomeSettled, Settled
<1> QED BY <1>1, EepromInvariant, PTL

\* The receiving page has a free slot whenever a transfer or a recovery needs one.
LEMMA RoomIsLeft == EepromInv => RoomSuffices
<1> SUFFICES ASSUME EepromInv, pc = "first" \/ CopyPending
             PROVE  \E p \in WritePage : HasRoom(p)
  BY DEF RoomSuffices
<1>t. TypeOK /\ ArgInv /\ HeaderInv /\ RoomInv
  BY DEF EepromInv, TypeInv
<1>n. /\ Attempts \in Nat /\ NbOfVar \in Nat /\ NSlots \in Nat
      /\ Attempts + NbOfVar + 1 <= NSlots
  BY <1>t, RoomForAttempt, TableIsAddresses, BoundAssumption
<1>1. new \in Pages /\ Receiving(new) /\ WritePage = {new}
  BY <1>t, ReceivingIsWritten DEF CopyPending, HeaderInv, TypeOK
<1>2. CASE pc = "first"
  <2>1. 1 \in Slots /\ UsedUpTo(new, 0)
      BY <1>2, <1>t, <1>n DEF RoomInv
  <2> QED BY <1>1, <2>1 DEF UsedUpTo, HasRoom, FreeSlots
<1>3. CASE CopyPending
  <2>1. idx \in 1..NbOfVar /\ UsedUpTo(new, Attempts + idx)
      BY <1>3, <1>t DEF CopyPending, RoomInv, TypeOK, ArgInv
  <2>2. Attempts + idx + 1 \in Slots
      BY <2>1, <1>n
  <2>3. Attempts + idx + 1 \in FreeSlots(new)
      BY <2>1, <2>2, <1>n DEF UsedUpTo, FreeSlots
  <2> QED BY <1>1, <2>3 DEF HasRoom
<1> QED BY <1>2, <1>3

\* Under the same hypothesis no transfer or recovery meets a full receiving
\* page, however the power losses fall.
THEOREM TransferFits == Faults = {} => (Spec => []RoomSuffices)
BY RoomIsLeft, EepromInvariant, PTL
-----------------------------------------------------------------------------
(* The values in the pages, without faults                                 *)

Holds(p, a) == \E i \in Slots : slot[p][i].adr = a

\* Pages fill from their start.
FilledInOrder ==
    \A p \in Pages : \A i, j \in Slots :
        i < j /\ slot[p][i] = BlankSlot => slot[p][j] = BlankSlot

\* The pair in work has its data, no address yet, and is the last of its page.
WorkInv ==
    pc \in {"addr", "firstAddr", "copyAddr"} =>
        \A p \in WritePage :
            /\ slot[p][at].adr = Blank
            /\ slot[p][at].dat = IF pc = "copyAddr" THEN Read(CopyAdr) ELSE dat
            /\ \A i \in Slots : i > at => slot[p][i] = BlankSlot
            /\ \A i \in Slots : i < at => slot[p][i] # BlankSlot
            /\ pc = "copyAddr" => CopyAdr # Skipped

\* A pair in the receiving page is a copy of the value that counts, also if an
\* earlier, interrupted attempt has made it.
CopiesInv ==
    \A p \in Pages : Receiving(p) =>
        \A i \in Slots : i # 1 /\ slot[p][i].adr \in Addrs =>
            slot[p][i].dat = Newer(p, slot[p][i].adr)

CopiedUpTo(n) ==
    \A j \in 1..NbOfVar :
        j <= n /\ Newer(new, VirtAddVarTab[j]) # None => Holds(new, VirtAddVarTab[j])

\* How far a copy loop has come.
ProgressInv ==
    /\ pc \in {"copy", "copyAddr"} => CopiedUpTo(idx - 1)
    /\ pc = "erase" \/ (pc = "mark" /\ Receiving(1)) => CopiedUpTo(NbOfVar)

\* Where the running Flash_Write has its value.
RequestInv ==
    job = "write" =>
        /\ pc \notin {"off", "idle"}
        /\ acked[adr] = None
        /\ pc \in {"copy", "copyAddr", "erase"} => slot[new][1] = [dat |-> dat, adr |-> adr]
        /\ pc = "markLast" => Latest(new, adr) = dat
        /\ pc \in {"data", "addr", "receive", "first", "firstAddr"} => Logical(adr) # dat

AckedInv ==
    /\ \A a \in Table : acked[a] # None => Logical(a) = acked[a]
    /\ pc = "wipe" => \A a \in Table : acked[a] = None

DataInv ==
    FilledInOrder /\ WorkInv /\ CopiesInv /\ ProgressInv /\ RequestInv /\ AckedInv

\* The pair that counts is the last one with the address.
LEMMA LastHolding ==
    ASSUME TypeOK, NEW p \in Pages, NEW a, Holds(p, a)
    PROVE  \E i \in Slots : /\ slot[p][i].adr = a /\ Latest(p, a) = slot[p][i].dat
                            /\ \A j \in Slots : slot[p][j].adr = a => j <= i
<1> DEFINE holding == {i \in Slots : slot[p][i].adr = a}
<1>1. NSlots \in Nat /\ holding \subseteq 0..NSlots /\ holding # {}
    BY BoundAssumption DEF Holds
<1>2. \E x \in holding : \A y \in holding : y <= x
    BY <1>1, GreatestExists
<1> DEFINE last == CHOOSE i \in holding : \A j \in holding : j <= i
<1>3. last \in holding /\ \A j \in holding : j <= last
    BY <1>2
<1>4. Latest(p, a) = slot[p][last].dat
    BY <1>1 DEF Latest
<1> QED BY <1>3, <1>4

LEMMA LastIsNone ==
    ASSUME TypeOK, NEW p \in Pages, NEW a
    PROVE  Latest(p, a) = None <=> ~Holds(p, a)
<1>1. CASE Holds(p, a)
  <2>1. PICK i \in Slots : Latest(p, a) = slot[p][i].dat
    BY <1>1, LastHolding
  <2>2. slot[p][i].dat \in Data
    BY DEF TypeOK, SlotSet
  <2> QED BY <1>1, <2>1, <2>2, ValueAssumption
<1>2. CASE ~Holds(p, a)
    BY <1>2 DEF Holds, Latest
<1> QED BY <1>1, <1>2

LEMMA LastIs ==
    ASSUME TypeOK, NEW p \in Pages, NEW a, NEW i \in Slots, slot[p][i].adr = a,
           \A j \in Slots : slot[p][j].adr = a => j <= i
    PROVE  Latest(p, a) = slot[p][i].dat
<1>1. PICK k \in Slots : /\ slot[p][k].adr = a /\ Latest(p, a) = slot[p][k].dat
                         /\ \A j \in Slots : slot[p][j].adr = a => j <= k
    BY LastHolding DEF Holds
<1>2. i <= k /\ k <= i /\ i \in Int /\ k \in Int
    BY <1>1
<1>3. i = k
    BY <1>2
<1> QED BY <1>1, <1>3

\* What other addresses or pages are used for does not matter.
LEMMA LastKept ==
    ASSUME TypeOK, TypeOK', NEW p \in Pages, NEW a,
           \A i \in Slots : slot[p][i].adr = a \/ slot'[p][i].adr = a => slot'[p][i] = slot[p][i]
    PROVE  Latest(p, a)' = Latest(p, a)
<1>1. {i \in Slots : slot[p][i].adr = a} = {i \in Slots : slot'[p][i].adr = a}
    OBVIOUS
<1>2. CASE ~Holds(p, a)
    BY <1>1, <1>2 DEF Latest, Holds
<1>3. CASE Holds(p, a)
  <2> DEFINE holding == {i \in Slots : slot[p][i].adr = a}
             last == CHOOSE i \in holding : \A j \in holding : j <= i
  <2>1. NSlots \in Nat /\ holding \subseteq 0..NSlots /\ holding # {}
    BY <1>3, BoundAssumption DEF Holds
  <2>2. \E x \in holding : \A y \in holding : y <= x
    BY <2>1, GreatestExists
  <2>3. last \in Slots /\ slot[p][last].adr = a
    BY <2>2
  <2>4. Latest(p, a) = slot[p][last].dat /\ Latest(p, a)' = slot'[p][last].dat
    BY <1>1, <2>1 DEF Latest
  <2> QED BY <2>3, <2>4
<1> QED BY <1>2, <1>3

\* Programming the data of a pair changes no value.
LEMMA ProgramDataEffect ==
    ASSUME TypeOK, FilledInOrder, NEW p \in Pages, NEW d \in Data, NEW l \in PCs,
           HasRoom(p), ProgramData(p, d, l)
    PROVE  /\ TypeOK' /\ hdr' = hdr /\ at' \in Slots /\ slot[p][at'] = BlankSlot
           /\ \A q \in Pages, i \in Slots :
                /\ slot'[q][i].adr = slot[q][i].adr
                /\ slot[q][i].adr # Blank => slot'[q][i] = slot[q][i]
           /\ slot'[p][at'].dat = d /\ slot'[p][at'].adr = Blank
           /\ \A i \in Slots : i > at' => slot'[p][i] = BlankSlot
           /\ \A i \in Slots : i < at' => slot'[p][i] # BlankSlot
           /\ FilledInOrder'
           /\ \A q \in Pages, a \in Addrs : Latest(q, a)' = Latest(q, a) /\ Newer(q, a)' = Newer(q, a)
<1>1. TypeOK' /\ at' \in FreeSlots(p)
    BY ProgramDataType
<1>2. /\ hdr' = hdr /\ at' = First(FreeSlots(p)) /\ at' \in Slots
      /\ slot' = [slot EXCEPT ![p][at'].dat = d]
      /\ slot[p][at'] = BlankSlot
    BY <1>1 DEF ProgramData, FreeSlots
<1>3. \A i \in FreeSlots(p) : at' <= i
    BY <1>1, <1>2, FirstOfSlots DEF FreeSlots
<1>4. slot \in [Pages -> [Slots -> SlotSet]]
    BY DEF TypeOK
<1>5. \A q \in Pages, i \in Slots : ~(q = p /\ i = at') => slot'[q][i] = slot[q][i]
    BY <1>2, <1>4
<1>6. slot'[p][at'] = [slot[p][at'] EXCEPT !.dat = d] /\ slot[p][at'] \in SlotSet
    BY <1>2, <1>4
<1>7. slot'[p][at'].dat = d /\ slot'[p][at'].adr = Blank
    BY <1>2, <1>6 DEF BlankSlot, SlotSet
<1>8. \A q \in Pages, i \in Slots :
                /\ slot'[q][i].adr = slot[q][i].adr
                /\ slot[q][i].adr # Blank => slot'[q][i] = slot[q][i]
    BY <1>2, <1>5, <1>7 DEF BlankSlot
<1>9. \A i \in Slots : i > at' => slot'[p][i] = BlankSlot
  <2> TAKE i \in Slots
  <2> HAVE i > at'
  <2>1. slot[p][i] = BlankSlot
    BY <1>2 DEF FilledInOrder
  <2> QED BY <2>1, <1>2, <1>5
<1>10. \A i \in Slots : i < at' => slot'[p][i] # BlankSlot
  <2> TAKE i \in Slots
  <2> HAVE i < at'
  <2>1. slot[p][i] # BlankSlot
    BY <1>2, <1>3 DEF FreeSlots
  <2> QED BY <2>1, <1>2, <1>5
<1>11. FilledInOrder'
  <2> SUFFICES ASSUME NEW q \in Pages, NEW i \in Slots, NEW j \in Slots,
                      i < j, slot'[q][i] = BlankSlot
               PROVE  slot'[q][j] = BlankSlot
    BY DEF FilledInOrder
  <2>1. CASE q = p
    BY <2>1, <1>2, <1>9, <1>10
  <2>2. CASE q # p
    BY <2>2, <1>5 DEF FilledInOrder
  <2> QED BY <2>1, <2>2
<1>12. ASSUME NEW q \in Pages, NEW a \in Addrs
       PROVE  Latest(q, a)' = Latest(q, a)
  <2>1. \A i \in Slots : slot[q][i].adr = a \/ slot'[q][i].adr = a => slot'[q][i] = slot[q][i]
    BY <1>8, ValueAssumption
  <2> QED BY <2>1, <1>1, LastKept
<1>13. ASSUME NEW q \in Pages, NEW a \in Addrs
       PROVE  Newer(q, a)' = Newer(q, a)
  <2>1. 1 \in Slots
    BY <1>2, BoundAssumption
  <2>2. /\ slot'[q][1].adr = a <=> slot[q][1].adr = a
        /\ slot[q][1].adr = a => slot'[q][1] = slot[q][1]
    BY <2>1, <1>8, ValueAssumption
  <2>3. Latest(Other(q), a)' = Latest(Other(q), a)
    BY <1>12, OtherPage
  <2> QED BY <2>2, <2>3 DEF Newer
<1> QED BY <1>1, <1>2, <1>7, <1>8, <1>9, <1>10, <1>11, <1>12, <1>13

\* Programming its address makes it the value of that variable in its page.
LEMMA ProgramAddressEffect ==
    ASSUME TypeOK, TypeOK', FilledInOrder, NEW p \in Pages, NEW b \in Addrs, at \in Slots,
           ProgramAddress(p, b), slot[p][at].adr = Blank,
           \A i \in Slots : i > at => slot[p][i] = BlankSlot,
           \A i \in Slots : i < at => slot[p][i] # BlankSlot
    PROVE  /\ hdr' = hdr
           /\ slot'[p][at] = [dat |-> slot[p][at].dat, adr |-> b]
           /\ \A i \in Slots : i # at => slot'[p][i] = slot[p][i]
           /\ slot'[Other(p)] = slot[Other(p)]
           /\ FilledInOrder'
           /\ Latest(p, b)' = slot[p][at].dat
           /\ \A a \in Addrs : a # b => Latest(p, a)' = Latest(p, a)
           /\ \A a \in Addrs : Latest(Other(p), a)' = Latest(Other(p), a)
<1>1. slot \in [Pages -> [Slots -> SlotSet]] /\ slot[p][at] \in SlotSet
    BY DEF TypeOK
<1>2. hdr' = hdr /\ slot' = [slot EXCEPT ![p][at].adr = b]
    BY DEF ProgramAddress
<1>3. slot'[p][at] = [dat |-> slot[p][at].dat, adr |-> b]
    BY <1>1, <1>2 DEF SlotSet
<1>4. /\ \A i \in Slots : i # at => slot'[p][i] = slot[p][i]
      /\ slot'[Other(p)] = slot[Other(p)]
    BY <1>1, <1>2, OtherPage
<1>5. slot'[p][at] # BlankSlot
    BY <1>3, ValueAssumption DEF BlankSlot
<1>6. FilledInOrder'
  <2> SUFFICES ASSUME NEW q \in Pages, NEW i \in Slots, NEW j \in Slots,
                      i < j, slot'[q][i] = BlankSlot
               PROVE  slot'[q][j] = BlankSlot
    BY DEF FilledInOrder
  <2>1. CASE q = p
    <3>1. i > at
        BY <2>1, <1>4, <1>5
    <3> QED BY <2>1, <3>1, <1>4
  <2>2. CASE q # p
    <3>1. q = Other(p)
        BY <2>2, OtherPage
    <3> QED BY <3>1, <1>4 DEF FilledInOrder
  <2> QED BY <2>1, <2>2
<1>7. Latest(p, b)' = slot[p][at].dat
  <2> DEFINE holding == {i \in Slots : slot'[p][i].adr = b}
             last == CHOOSE i \in holding : \A j \in holding : j <= i
  <2>1. at \in holding /\ \A j \in holding : j <= at
    <3>1. ASSUME NEW j \in Slots, j > at PROVE slot'[p][j].adr # b
        BY <3>1, <1>4, ValueAssumption DEF BlankSlot
    <3> QED BY <3>1, <1>3
  <2>2. last = at
    <3>1. last \in holding /\ \A j \in holding : j <= last
        BY <2>1
    <3>2. last \in Slots /\ last <= at /\ at <= last
        BY <2>1, <3>1
    <3> HIDE DEF last
    <3> QED BY <3>2
  <2>3. Latest(p, b)' = slot'[p][last].dat
    BY <2>1 DEF Latest
  <2> HIDE DEF holding, last
  <2> QED BY <2>2, <2>3, <1>3
<1>8. ASSUME NEW a \in Addrs, a # b PROVE Latest(p, a)' = Latest(p, a)
  <2>1. \A i \in Slots : slot[p][i].adr = a \/ slot'[p][i].adr = a => slot'[p][i] = slot[p][i]
    BY <1>3, <1>4, <1>8, ValueAssumption
  <2> QED BY <2>1, LastKept
<1>9. \A a \in Addrs : Latest(Other(p), a)' = Latest(Other(p), a)
    BY <1>4 DEF Latest
<1> QED BY <1>2, <1>3, <1>4, <1>6, <1>7, <1>8, <1>9


\* The value of a variable, for each state of the headers.
LogicalFacts ==
    \A a : /\ Fresh => Logical(a) = None
           /\ BothValid => Logical(a) = Latest(new, a)
           /\ \A p \in Pages : /\ Settled(p) \/ Switching(p) => Logical(a) = Latest(p, a)
                               /\ Receiving(p) => Logical(a) = Newer(p, a)

LEMMA LogicalIs == LogicalFacts
<1> USE OtherPage DEF ERASED, RECEIVE_DATA, VALID_PAGE
<1> SUFFICES ASSUME NEW a
             PROVE  /\ Fresh => Logical(a) = None
                    /\ BothValid => Logical(a) = Latest(new, a)
                    /\ \A p \in Pages : /\ Settled(p) \/ Switching(p) => Logical(a) = Latest(p, a)
                                        /\ Receiving(p) => Logical(a) = Newer(p, a)
    BY DEF LogicalFacts
<1>1. Fresh => Logical(a) = None
    BY DEF Fresh, Logical
<1>2. BothValid => Logical(a) = Latest(new, a)
    BY DEF BothValid, Logical
<1>3. ASSUME NEW p \in Pages, Settled(p) \/ Switching(p)
      PROVE  Logical(a) = Latest(p, a)
  <2>1. \A q \in Pages : hdr[q] # ERASED => q = p
    BY <1>3 DEF Settled, Switching
  <2>2. hdr[p] # ERASED /\ hdr[Other(p)] = ERASED
    BY <1>3 DEF Settled, Switching
  <2>3. (CHOOSE q \in Pages : hdr[q] # ERASED) = p
    BY <2>1, <2>2
  <2>4. ~(hdr[0] = VALID_PAGE /\ hdr[1] = VALID_PAGE)
        /\ ~ \E q \in Pages : hdr[q] = RECEIVE_DATA /\ hdr[Other(q)] = VALID_PAGE
    BY <1>3 DEF Settled, Switching
  <2> QED BY <2>2, <2>3, <2>4 DEF Logical
<1>4. ASSUME NEW p \in Pages, Receiving(p)
      PROVE  Logical(a) = Newer(p, a)
  <2>1. (CHOOSE q \in Pages : hdr[q] = RECEIVE_DATA) = p
    BY <1>4 DEF Receiving
  <2>2. ~(hdr[0] = VALID_PAGE /\ hdr[1] = VALID_PAGE)
        /\ \E q \in Pages : hdr[q] = RECEIVE_DATA /\ hdr[Other(q)] = VALID_PAGE
    BY <1>4 DEF Receiving
  <2> QED BY <2>1, <2>2 DEF Logical
<1> QED BY <1>1, <1>2, <1>3, <1>4

LEMMA LogicalBecomes == LogicalFacts'
BY LogicalIs, PTL


\* An erased page is blank already: erasing it changes nothing.
LEMMA EraseErased ==
    ASSUME TypeOK, BlankInv, NEW p \in Pages, hdr[p] = ERASED,
           Erase(p) \/ EraseUnlessVerified(p)
    PROVE  hdr' = hdr /\ slot' = slot
<1>1. slot[p] = BlankPage
    BY DEF BlankInv
<1>2. Erase(p) => hdr' = hdr /\ slot' = slot
    BY <1>1 DEF Erase, TypeOK
<1> QED BY <1>2 DEF EraseUnlessVerified, flash

\* A step that leaves the flash alone.
LEMMA FlashKept ==
    ASSUME hdr' = hdr, slot' = slot, BothValid => new' = new
    PROVE  /\ FilledInOrder => FilledInOrder'
           /\ CopiesInv => CopiesInv'
           /\ \A a : Logical(a)' = Logical(a)
           /\ \A p, a : /\ Latest(p, a)' = Latest(p, a) /\ Newer(p, a)' = Newer(p, a)
                        /\ Holds(p, a)' = Holds(p, a)
           /\ \A a : Read(a)' = Read(a)
           /\ WritePage' = WritePage
<1>1. FilledInOrder => FilledInOrder'
    BY DEF FilledInOrder
<1>2. \A p, a : /\ Latest(p, a)' = Latest(p, a) /\ Newer(p, a)' = Newer(p, a)
                /\ Holds(p, a)' = Holds(p, a)
    BY DEF Latest, Newer, Holds
<1>3. \A p : Receiving(p)' = Receiving(p)
    BY DEF Receiving
<1>4. CopiesInv => CopiesInv'
    BY <1>2, <1>3 DEF CopiesInv
<1>5. \A a : Logical(a)' = Logical(a)
    BY <1>2 DEF Logical, BothValid
<1>6. WritePage' = WritePage
    BY DEF WritePage
<1>7. \A a : Read(a)' = Read(a)
    BY <1>2 DEF Read, ReadPage
<1> QED BY <1>1, <1>2, <1>4, <1>5, <1>6, <1>7

LEMMA AddressFacts ==
    /\ 1 \in Slots
    /\ Table \subseteq Addrs
    /\ \A j \in 1..NbOfVar : VirtAddVarTab[j] \in Table
    /\ \A a \in Table : \E j \in 1..NbOfVar : a = VirtAddVarTab[j]
<1>1. NbOfVar \in Nat /\ DOMAIN VirtAddVarTab = 1..NbOfVar
    BY TableAssumption
<1>2. NbOfVar * (MaxRetries + 1) >= 0 /\ NSlots \in Nat
    BY <1>1, BoundAssumption
<1>3. NSlots >= 1
    BY <1>1, <1>2, RoomAssumption, BoundAssumption
<1> QED BY <1>1, <1>2, <1>3, TableAssumption, TableIsAddresses DEF Table

\* What is read while a page receives is the value in the other page.
LEMMA ReadIs ==
    ASSUME NEW p \in Pages, NEW a
    PROVE  /\ Receiving(p) => Read(a) = Latest(Other(p), a)
           /\ Settled(p) => Read(a) = Latest(p, a)
<1>1. Receiving(p) => ReadPage = {Other(p)}
    BY OtherPage DEF Receiving, ReadPage, RECEIVE_DATA, VALID_PAGE
<1>2. Settled(p) => ReadPage = {p}
    BY SettledIsActive
<1> QED BY <1>1, <1>2 DEF Read

\* A variable the receiving page holds has the value there that counts.
LEMMA ReceivedIs ==
    ASSUME TypeOK, CopiesInv, NEW p \in Pages, Receiving(p), NEW a \in Addrs, Holds(p, a)
    PROVE  Latest(p, a) = Newer(p, a)
<1>1. PICK i \in Slots : slot[p][i].adr = a /\ Latest(p, a) = slot[p][i].dat
    BY LastHolding
<1>2. CASE i = 1
    BY <1>1, <1>2 DEF Newer
<1>3. CASE i # 1
    BY <1>1, <1>3 DEF CopiesInv
<1> QED BY <1>2, <1>3

\* When the copy loop is over, the new page alone has all values of the table.
LEMMA CopiedIs ==
    ASSUME TypeOK, CopiesInv, Receiving(new), CopiedUpTo(NbOfVar), NEW a \in Table
    PROVE  Latest(new, a) = Newer(new, a)
<1>1. PICK j \in 1..NbOfVar : a = VirtAddVarTab[j]
    BY AddressFacts
<1>2. a \in Addrs /\ new \in Pages /\ NbOfVar \in Nat
    BY AddressFacts, TableIsAddresses DEF TypeOK
<1>3. CASE Holds(new, a)
    BY <1>2, <1>3, ReceivedIs
<1>4. CASE ~Holds(new, a)
  <2>1. Newer(new, a) = None
    BY <1>1, <1>2, <1>4 DEF CopiedUpTo
  <2> QED BY <2>1, <1>2, <1>4, LastIsNone
<1> QED BY <1>3, <1>4

LEMMA InitData == Init => DataInv
<1> SUFFICES ASSUME Init PROVE DataInv
    OBVIOUS
<1>1. FilledInOrder
    BY DEF Init, FilledInOrder, BlankPage
<1>2. CopiesInv
    BY DEF Init, CopiesInv, Receiving, ERASED, RECEIVE_DATA
<1>3. WorkInv /\ ProgressInv /\ RequestInv
    BY DEF Init, WorkInv, ProgressInv, RequestInv
<1>4. Fresh /\ (\A a \in Table : Logical(a) = None)
    BY LogicalIs DEF Init, Fresh, LogicalFacts
<1>5. AckedInv
    BY <1>4, TableAssumption DEF Init, AckedInv, Table
<1> QED BY <1>1, <1>2, <1>3, <1>5 DEF DataInv
-----------------------------------------------------------------------------
SafeState == Faults = {} /\ EepromInv /\ EepromInv' /\ DataInv

LogicalKept == \A a \in Table : Logical(a)' = Logical(a)

\* Power, the dispatch of EE_Init, and the requests of callers.
LEMMA OutsideData ==
    ASSUME SafeState,
           \/ PowerOn \/ PowerLoss \/ InitDispatch
           \/ FlashFormat \/ \E a \in Addrs, d \in Data : FlashWrite(a, d)
    PROVE  DataInv' /\ LogicalKept
<1> USE DEF ERASED, RECEIVE_DATA, VALID_PAGE
<1>t. /\ TypeOK /\ ArgInv /\ HeaderInv /\ Faults = {}
      /\ FilledInOrder /\ CopiesInv /\ AckedInv /\ RequestInv
    BY DEF SafeState, EepromInv, TypeInv, DataInv
<1>1. hdr' = hdr /\ slot' = slot
    BY DEF PowerOn, PowerLoss, InitDispatch, FlashFormat, FlashWrite
<1>2. ~BothValid
    BY <1>t, OtherPage DEF BothValid, PowerOn, PowerLoss, LossSurvivable, InitDispatch,
        FlashFormat, FlashWrite, HeaderInv, Recoverable, Fresh, Settled, SomeSettled, Receiving,
        Switching
<1>3. FilledInOrder' /\ CopiesInv' /\ \A a : Logical(a)' = Logical(a)
    BY <1>1, <1>2, <1>t, FlashKept
<1>4. WorkInv'
    BY DEF WorkInv, PowerOn, PowerLoss, InitDispatch, InitPlan, FlashFormat, FlashWrite
<1>5. ProgressInv'
  <2>1. pc' \in {"copy", "copyAddr"} => idx' = 1
    BY DEF PowerOn, PowerLoss, InitDispatch, InitPlan, FlashFormat, FlashWrite
  <2>2. pc' \notin {"erase", "mark"}
    BY DEF PowerOn, PowerLoss, InitDispatch, InitPlan, FlashFormat, FlashWrite
  <2>3. idx' = 1 => CopiedUpTo(idx - 1)'
    BY DEF CopiedUpTo
  <2> QED BY <2>1, <2>2, <2>3 DEF ProgressInv
<1>6. RequestInv'
  <2>1. CASE \E a \in Addrs, d \in Data : FlashWrite(a, d)
    <3>1. PICK a \in Addrs, d \in Data : FlashWrite(a, d)
        BY <2>1
    <3>2. pc' = "data" /\ adr' = a /\ dat' = d /\ acked'[a] = None /\ Read(a) # d
        BY <3>1, <1>t DEF FlashWrite, TypeOK
    <3>3. PICK p \in Pages : Settled(p)
        BY <3>1, <1>t DEF FlashWrite, HeaderInv, SomeSettled
    <3>4. Logical(a) # d
        BY <3>2, <3>3, ReadIs, LogicalIs DEF LogicalFacts
    <3> QED BY <3>2, <3>4, <1>3 DEF RequestInv
  <2>2. CASE PowerOn \/ PowerLoss \/ InitDispatch \/ FlashFormat
    <3>1. job' # "write"
        BY <2>2, <1>t DEF PowerOn, PowerLoss, InitDispatch, FlashFormat, HeaderInv
    <3> QED BY <3>1 DEF RequestInv
  <2> QED BY <2>1, <2>2
<1>7. AckedInv'
  <2>1. \A a \in Table : acked'[a] # None => acked'[a] = acked[a]
    BY <1>t, AddressFacts DEF PowerOn, PowerLoss, InitDispatch, FlashFormat, FlashWrite, TypeOK
  <2>2. ASSUME pc' = "wipe" PROVE \A a \in Table : acked'[a] = None
    <3>1. CASE InitDispatch
      <4>1. Fresh /\ acked' = acked
        BY <2>2, <3>1, <1>t, OtherPage DEF InitDispatch, InitPlan, HeaderInv, Recoverable, Fresh,
            SomeSettled, Settled, Receiving, Switching
      <4> QED BY <4>1, <1>t, LogicalIs DEF LogicalFacts, AckedInv
    <3>2. CASE FlashFormat
        BY <3>2, AddressFacts DEF FlashFormat
    <3> QED BY <2>2, <3>1, <3>2 DEF PowerOn, PowerLoss, FlashWrite
  <2> QED BY <2>1, <2>2, <1>3, <1>t DEF AckedInv
<1> QED BY <1>3, <1>4, <1>5, <1>6, <1>7 DEF DataInv, LogicalKept

\* The erasures and marks around a recovery, a format and a transfer.

LEMMA OrderKept ==
    ASSUME FilledInOrder, \A p \in Pages : slot'[p] = slot[p] \/ slot'[p] = BlankPage
    PROVE  FilledInOrder'
<1> SUFFICES ASSUME NEW p \in Pages, NEW i \in Slots, NEW j \in Slots,
                    i < j, slot'[p][i] = BlankSlot
             PROVE  slot'[p][j] = BlankSlot
    BY DEF FilledInOrder
<1>1. CASE slot'[p] = slot[p]
    BY <1>1 DEF FilledInOrder
<1>2. CASE slot'[p] = BlankPage
    BY <1>2 DEF BlankPage
<1> QED BY <1>1, <1>2

LEMMA RepairData ==
    ASSUME SafeState, Repair
    PROVE  DataInv' /\ LogicalKept
<1>t. /\ TypeOK /\ HeaderInv /\ BlankInv
      /\ FilledInOrder /\ CopiesInv /\ AckedInv
    BY DEF SafeState, EepromInv, TypeInv, DataInv
<1>1. Switching(new) /\ new \in Pages /\ job = "init"
    BY <1>t DEF Repair, HeaderInv, TypeOK
<1>2. hdr[Other(new)] = ERASED /\ Other(new) \in Pages
    BY <1>1, OtherPage DEF Switching
<1>3. hdr' = hdr /\ slot' = slot
    BY <1>t, <1>2, EraseErased DEF Repair
<1>4. FilledInOrder' /\ CopiesInv' /\ \A a : Logical(a)' = Logical(a)
    BY <1>3, <1>t, FlashKept DEF Repair, Goto
<1>5. WorkInv' /\ ProgressInv' /\ RequestInv' /\ AckedInv'
    BY <1>1, <1>4, <1>t DEF Repair, Goto, WorkInv, ProgressInv, RequestInv, AckedInv
<1> QED BY <1>4, <1>5 DEF DataInv, LogicalKept

\* After the erasure of page 0 no variable has a value.
LEMMA WipeData ==
    ASSUME SafeState, Wipe
    PROVE  DataInv' /\ \A a \in Table : Logical(a)' = None
<1> USE OtherPage DEF ERASED, RECEIVE_DATA, VALID_PAGE
<1>t. /\ TypeOK /\ TypeOK' /\ HeaderInv /\ BlankInv /\ HeaderInv' /\ BlankInv'
      /\ FilledInOrder /\ CopiesInv /\ AckedInv
    BY DEF SafeState, EepromInv, TypeInv, DataInv
<1>1. pc' = "mark" /\ new' = 0 /\ job \in {"init", "format"} /\ job' = job /\ acked' = acked
    BY <1>t DEF Wipe, Goto, HeaderInv
<1>2. Fresh'
    BY <1>1, <1>t DEF HeaderInv
<1>3. \A a \in Table : Logical(a)' = None
    BY <1>2, LogicalBecomes DEF LogicalFacts
<1>4. slot'[0] = BlankPage /\ slot'[1] = BlankPage
    BY <1>2, <1>t DEF Fresh, BlankInv
<1>5. FilledInOrder'
    BY <1>4 DEF FilledInOrder, BlankPage
<1>6. CopiesInv' /\ ~Receiving(1)'
    BY <1>2 DEF CopiesInv, Receiving, Fresh
<1>7. WorkInv' /\ ProgressInv' /\ RequestInv'
    BY <1>1, <1>6 DEF WorkInv, ProgressInv, RequestInv
<1>8. AckedInv'
    BY <1>1, <1>t DEF AckedInv, Wipe
<1> QED BY <1>3, <1>5, <1>6, <1>7, <1>8 DEF DataInv

LEMMA MarkData ==
    ASSUME SafeState, Mark
    PROVE  DataInv' /\ LogicalKept
<1> USE OtherPage DEF ERASED, RECEIVE_DATA, VALID_PAGE
<1>t. /\ TypeOK /\ TypeOK' /\ HeaderInv /\ BlankInv
      /\ FilledInOrder /\ CopiesInv /\ AckedInv /\ ProgressInv
    BY DEF SafeState, EepromInv, TypeInv, DataInv
<1>1. /\ pc' = "tidy" /\ new' = new /\ job \in {"init", "format"} /\ job' = job
      /\ acked' = acked /\ slot' = slot
    BY <1>t DEF Mark, Goto, HeaderInv
<1>2. LogicalKept
  <2>1. CASE new = 0 /\ Fresh
    <3>1. Settled(0)'
        BY <2>1, <1>t DEF Mark, Program, Fresh, Settled, TypeOK
    <3>2. slot[0] = BlankPage
        BY <2>1, <1>t DEF Fresh, BlankInv
    <3>3. \A a \in Table : Latest(0, a)' = None
        BY <1>1, <3>2, AddressFacts, ValueAssumption DEF Latest, BlankPage, BlankSlot
    <3>4. \A a \in Table : Logical(a)' = None /\ Logical(a) = None
        BY <2>1, <3>1, <3>3, LogicalIs, LogicalBecomes DEF LogicalFacts
    <3> QED BY <3>4 DEF LogicalKept
  <2>2. CASE new = 1 /\ Receiving(1)
    <3>1. BothValid'
        BY <2>2, <1>t DEF Mark, Program, Receiving, BothValid, TypeOK
    <3>2. CopiedUpTo(NbOfVar)
        BY <2>2, <1>t DEF Mark, ProgressInv
    <3>3. ASSUME NEW a \in Table PROVE Logical(a)' = Logical(a)
      <4>1. Logical(a)' = Latest(1, a)'
        BY <1>1, <2>2, <3>1, LogicalBecomes DEF LogicalFacts
      <4>2. Latest(1, a)' = Latest(1, a)
        BY <1>1 DEF Latest
      <4>3. Latest(1, a) = Newer(1, a)
        BY <2>2, <3>2, <1>t, CopiedIs
      <4>4. Logical(a) = Newer(1, a)
        BY <2>2, LogicalIs DEF LogicalFacts
      <4> QED BY <4>1, <4>2, <4>3, <4>4
    <3> QED BY <3>3 DEF LogicalKept
  <2> QED BY <2>1, <2>2, <1>t DEF Mark, HeaderInv
<1>3. FilledInOrder'
    BY <1>1, <1>t DEF FilledInOrder
<1>4. CopiesInv'
  <2>1. \A p \in Pages : ~Receiving(p)'
    BY <1>t DEF Mark, HeaderInv, Program, Receiving, Fresh, TypeOK
  <2> QED BY <2>1 DEF CopiesInv
<1>5. WorkInv' /\ ProgressInv' /\ RequestInv'
    BY <1>1 DEF WorkInv, ProgressInv, RequestInv
<1>6. AckedInv'
    BY <1>1, <1>2, <1>t DEF AckedInv, LogicalKept
<1> QED BY <1>2, <1>3, <1>4, <1>5, <1>6 DEF DataInv

LEMMA TidyData ==
    ASSUME SafeState, Tidy
    PROVE  DataInv' /\ LogicalKept
<1> USE OtherPage DEF ERASED, RECEIVE_DATA, VALID_PAGE
<1>t. /\ TypeOK /\ TypeOK' /\ HeaderInv /\ BlankInv /\ BlankInv'
      /\ FilledInOrder /\ CopiesInv /\ AckedInv
    BY DEF SafeState, EepromInv, TypeInv, DataInv
<1>1. /\ job \in {"init", "format"} /\ pc' = "idle" /\ job' = "none" /\ acked' = acked
      /\ new \in Pages
    BY <1>t DEF Tidy, Succeed, Return, HeaderInv, TypeOK
<1>2. /\ \A p \in Pages : slot'[p] = slot[p] \/ slot'[p] = BlankPage
      /\ \A p \in Pages : ~Receiving(p)'
      /\ LogicalKept
  <2>1. CASE Settled(new)
    <3>1. hdr' = hdr /\ slot' = slot
        BY <2>1, <1>1, <1>t, EraseErased DEF Tidy, Settled
    <3>2. Settled(new) => ~BothValid
        BY <1>1 DEF Settled, BothValid
    <3>3. LogicalKept
        BY <2>1, <3>1, <3>2, FlashKept DEF LogicalKept
    <3> QED BY <2>1, <3>1, <3>3, <1>1 DEF Settled, Receiving
  <2>2. CASE new = 1 /\ BothValid
    <3>1. Erase(0)
        BY <2>2 DEF Tidy, EraseUnlessVerified, VerifyPageFullyErased, BothValid
    <3>2. hdr'[0] = ERASED /\ slot'[0] = BlankPage /\ hdr'[1] = hdr[1] /\ slot'[1] = slot[1]
        BY <3>1, <1>t, EraseEffect
    <3>3. Settled(1)'
        BY <2>2, <3>2 DEF Settled, BothValid
    <3>4. ASSUME NEW a \in Table PROVE Logical(a)' = Logical(a)
      <4>1. Logical(a)' = Latest(1, a)'
        BY <3>3, LogicalBecomes DEF LogicalFacts
      <4>2. Latest(1, a)' = Latest(1, a)
        BY <3>2 DEF Latest
      <4>3. Logical(a) = Latest(1, a)
        BY <2>2, LogicalIs DEF LogicalFacts
      <4> QED BY <4>1, <4>2, <4>3
    <3> QED BY <3>2, <3>3, <3>4 DEF LogicalKept, Settled, Receiving
  <2> QED BY <2>1, <2>2, <1>t DEF Tidy, HeaderInv
<1>3. FilledInOrder'
    BY <1>2, <1>t, OrderKept
<1>4. CopiesInv'
    BY <1>2 DEF CopiesInv
<1>5. WorkInv' /\ ProgressInv' /\ RequestInv'
    BY <1>1 DEF WorkInv, ProgressInv, RequestInv
<1>6. AckedInv'
    BY <1>1, <1>2, <1>t DEF AckedInv, LogicalKept
<1> QED BY <1>2, <1>3, <1>4, <1>5, <1>6 DEF DataInv

LEMMA EraseOldData ==
    ASSUME SafeState, EraseOld
    PROVE  DataInv' /\ LogicalKept
<1> USE OtherPage DEF ERASED, RECEIVE_DATA, VALID_PAGE
<1>t. /\ TypeOK /\ TypeOK' /\ HeaderInv /\ BlankInv
      /\ FilledInOrder /\ CopiesInv /\ AckedInv /\ ProgressInv /\ RequestInv
    BY DEF SafeState, EepromInv, TypeInv, DataInv
<1>1. /\ pc' = "markLast" /\ job = "write" /\ job' = job /\ acked' = acked /\ new' = new
      /\ adr' = adr /\ dat' = dat /\ new \in Pages /\ Receiving(new)
    BY <1>t DEF EraseOld, Goto, HeaderInv, TypeOK
<1>2. /\ hdr'[Other(new)] = ERASED /\ slot'[Other(new)] = BlankPage
      /\ hdr'[new] = hdr[new] /\ slot'[new] = slot[new]
  <2>1. Other(new) \in Pages /\ Other(Other(new)) = new
    BY <1>1
  <2> QED BY <2>1, <1>t, EraseEffect DEF EraseOld
<1>3. Switching(new)'
    BY <1>1, <1>2 DEF Switching, Receiving
<1>4. CopiedUpTo(NbOfVar)
    BY <1>t DEF EraseOld, ProgressInv
<1>5. \A a : Latest(new, a)' = Latest(new, a)
    BY <1>1, <1>2 DEF Latest
<1>6. ASSUME NEW a \in Table PROVE Logical(a)' = Logical(a)
  <2>1. Logical(a)' = Latest(new, a)'
    BY <1>1, <1>3, LogicalBecomes DEF LogicalFacts
  <2>2. Latest(new, a) = Newer(new, a)
    BY <1>1, <1>4, <1>t, CopiedIs
  <2>3. Logical(a) = Newer(new, a)
    BY <1>1, LogicalIs DEF LogicalFacts
  <2> QED BY <1>5, <2>1, <2>2, <2>3
<1>7. Latest(new, adr) = dat
  <2>1. slot[new][1] = [dat |-> dat, adr |-> adr] /\ 1 \in Slots
    BY <1>1, <1>t, AddressFacts DEF EraseOld, RequestInv
  <2>2. /\ slot[new][1].adr = adr /\ slot[new][1].dat = dat
        /\ slot[new][1].adr \in Addrs \union {Blank}
    <3>1. slot[new][1] \in SlotSet
        BY <2>1, <1>1, <1>t DEF TypeOK
    <3> QED BY <2>1, <3>1 DEF SlotSet
  <2>3. adr \in Addrs
    BY <2>2, <1>t, ValueAssumption DEF TypeOK
  <2>4. Newer(new, adr) = dat /\ Holds(new, adr)
    BY <2>1, <2>2 DEF Newer, Holds
  <2> QED BY <2>3, <2>4, <1>1, <1>t, ReceivedIs
<1>8. FilledInOrder'
  <2>1. \A p \in Pages : slot'[p] = slot[p] \/ slot'[p] = BlankPage
    BY <1>1, <1>2
  <2> QED BY <2>1, <1>t, OrderKept
<1>9. CopiesInv'
  <2>1. \A p \in Pages : ~Receiving(p)'
    BY <1>1, <1>2, <1>3 DEF Receiving, Switching
  <2> QED BY <2>1 DEF CopiesInv
<1>10. WorkInv' /\ ProgressInv' /\ RequestInv'
    BY <1>1, <1>5, <1>7, <1>t DEF WorkInv, ProgressInv, RequestInv
<1>11. AckedInv'
    BY <1>1, <1>6, <1>t DEF AckedInv
<1> QED BY <1>6, <1>8, <1>9, <1>10, <1>11 DEF DataInv, LogicalKept

LEMMA MarkLastData ==
    ASSUME SafeState, MarkLast
    PROVE  DataInv' /\ LogicalKept
<1> USE OtherPage DEF ERASED, RECEIVE_DATA, VALID_PAGE
<1>t. /\ TypeOK /\ TypeOK' /\ HeaderInv /\ BlankInv
      /\ FilledInOrder /\ AckedInv /\ RequestInv
    BY DEF SafeState, EepromInv, TypeInv, DataInv
<1>1. /\ pc = "markLast" /\ pc' = "idle" /\ job' = "none" /\ new \in Pages /\ Switching(new)
      /\ slot' = slot /\ hdr' = [hdr EXCEPT ![new] = VALID_PAGE]
    BY <1>t DEF MarkLast, Program, Succeed, Return, HeaderInv, TypeOK
<1>2. Settled(new)
      \/ (hdr'[new] = VALID_PAGE /\ hdr'[Other(new)] = ERASED)
    BY <1>1, <1>t DEF Settled, Switching, TypeOK
<1>3. \E p \in Pages : p = new /\ Settled(p)' /\ \A a : Latest(p, a)' = Latest(p, a)
    BY <1>1, <1>2, <1>t DEF Settled, Switching, Latest, TypeOK
<1>4. \A a : Logical(a)' = Latest(new, a) /\ Logical(a) = Latest(new, a)
    BY <1>1, <1>3, LogicalIs, LogicalBecomes DEF LogicalFacts
<1>5. FilledInOrder'
    BY <1>1, <1>t DEF FilledInOrder
<1>6. CopiesInv'
  <2>1. \A p \in Pages : ~Receiving(p)'
    BY <1>1, <1>t DEF Receiving, Switching, TypeOK
  <2> QED BY <2>1 DEF CopiesInv
<1>7. WorkInv' /\ ProgressInv' /\ RequestInv'
    BY <1>1 DEF WorkInv, ProgressInv, RequestInv
<1>8. AckedInv'
  <2>1. CASE job = "write"
    <3>1. acked' = [acked EXCEPT ![adr] = dat] /\ Latest(new, adr) = dat
        BY <1>1, <2>1, <1>t DEF MarkLast, Succeed, RequestInv
    <3> QED BY <3>1, <1>1, <1>4, <1>t DEF AckedInv, TypeOK
  <2>2. CASE job # "write"
    BY <2>2, <1>1, <1>4, <1>t DEF AckedInv, MarkLast, Succeed
  <2> QED BY <2>1, <2>2
<1> QED BY <1>4, <1>5, <1>6, <1>7, <1>8 DEF DataInv, LogicalKept

\* The data of a pair: nothing has a new value yet.
LEMMA ProgramDataData ==
    ASSUME SafeState, NEW p \in Pages, NEW d \in Data, NEW l \in {"addr", "firstAddr", "copyAddr"},
           Settled(p) \/ Receiving(p), HasRoom(p), ProgramData(p, d, l)
    PROVE  /\ FilledInOrder' /\ CopiesInv' /\ LogicalKept /\ AckedInv'
           /\ hdr' = hdr /\ WritePage' = {p}
           /\ slot'[p][at'].dat = d /\ slot'[p][at'].adr = Blank
           /\ \A i \in Slots : i > at' => slot'[p][i] = BlankSlot
           /\ \A i \in Slots : i < at' => slot'[p][i] # BlankSlot
           /\ \A q \in Pages, i \in Slots :
                /\ slot'[q][i].adr = slot[q][i].adr
                /\ slot[q][i].adr # Blank => slot'[q][i] = slot[q][i]
           /\ \A a \in Addrs : /\ Logical(a)' = Logical(a)
                               /\ Read(a)' = Read(a) /\ Newer(p, a)' = Newer(p, a)
<1> USE OtherPage DEF ERASED, RECEIVE_DATA, VALID_PAGE
<1>t. /\ TypeOK /\ HeaderInv /\ BlankInv
      /\ FilledInOrder /\ CopiesInv /\ AckedInv
    BY DEF SafeState, EepromInv, TypeInv, DataInv
<1>0. l \in PCs
    BY DEF PCs
<1>1. /\ hdr' = hdr
      /\ \A q \in Pages, i \in Slots :
                /\ slot'[q][i].adr = slot[q][i].adr
                /\ slot[q][i].adr # Blank => slot'[q][i] = slot[q][i]
      /\ slot'[p][at'].dat = d /\ slot'[p][at'].adr = Blank
      /\ \A i \in Slots : i > at' => slot'[p][i] = BlankSlot
      /\ \A i \in Slots : i < at' => slot'[p][i] # BlankSlot
      /\ FilledInOrder'
      /\ \A q \in Pages, a \in Addrs : Latest(q, a)' = Latest(q, a) /\ Newer(q, a)' = Newer(q, a)
    BY <1>t, <1>0, ProgramDataEffect
<1>2. WritePage' = {p}
    BY <1>1, SettledIsActive, ReceivingIsWritten DEF WritePage
<1>3. \A q \in Pages : (Receiving(q)' <=> Receiving(q)) /\ (Settled(q)' <=> Settled(q))
    BY <1>1 DEF Receiving, Settled
<1>4. \A a \in Addrs : Logical(a)' = Logical(a)
    BY <1>1, <1>3, LogicalIs, LogicalBecomes DEF LogicalFacts
<1>5. CopiesInv'
  <2> SUFFICES ASSUME NEW q \in Pages, Receiving(q)', NEW i \in Slots, i # 1,
                      slot'[q][i].adr \in Addrs
               PROVE  (slot[q][i].dat = Newer(q, slot[q][i].adr))'
    BY DEF CopiesInv
  <2>1. slot'[q][i].adr = slot[q][i].adr /\ slot'[q][i] = slot[q][i]
        /\ slot[q][i].adr \in Addrs
    BY <1>1, ValueAssumption
  <2>2. slot[q][i].dat = Newer(q, slot[q][i].adr)
    BY <2>1, <1>3, <1>t DEF CopiesInv
  <2>3. \A a \in Addrs : Newer(q, a)' = Newer(q, a)
    BY <1>1
  <2>4. Newer(q, slot[q][i].adr)' = Newer(q, slot[q][i].adr)
    BY <2>1, <2>3 DEF Newer
  <2> QED BY <2>1, <2>2, <2>4
<1>6. AckedInv'
    BY <1>4, <1>t, AddressFacts DEF AckedInv, ProgramData
<1>7. \A a \in Addrs : Read(a)' = Read(a)
    BY <1>1 DEF Read, ReadPage
<1>8. LogicalKept
    BY <1>4, AddressFacts DEF LogicalKept
<1> QED BY <1>1, <1>2, <1>4, <1>5, <1>6, <1>7, <1>8

LEMMA WriteDataData ==
    ASSUME SafeState, WriteData \/ FirstData
    PROVE  DataInv' /\ LogicalKept
<1>t. /\ TypeOK /\ ArgInv /\ HeaderInv /\ RequestInv
    BY DEF SafeState, EepromInv, TypeInv, DataInv
<1>0. adr \in Addrs /\ dat \in Data /\ job = "write"
    BY <1>t DEF WriteData, FirstData, ArgInv, HeaderInv
<1>1. PICK p \in WritePage, l \in {"addr", "firstAddr"} : HasRoom(p) /\ ProgramData(p, dat, l)
    BY DEF WriteData, FirstData
<1>2. p \in Pages /\ (Settled(p) \/ Receiving(p))
  <2>1. CASE WriteData
    <3>1. PICK q \in Pages : Settled(q)
        BY <2>1, <1>t DEF WriteData, HeaderInv, SomeSettled
    <3> QED BY <3>1, <1>1, SettledIsActive
  <2>2. CASE FirstData
    <3>1. new \in Pages /\ Receiving(new)
        BY <2>2, <1>t DEF FirstData, HeaderInv, TypeOK
    <3> QED BY <3>1, <1>1, ReceivingIsWritten
  <2> QED BY <2>1, <2>2
<1>3. /\ FilledInOrder' /\ CopiesInv' /\ LogicalKept /\ AckedInv'
      /\ WritePage' = {p}
      /\ slot'[p][at'].dat = dat /\ slot'[p][at'].adr = Blank
      /\ \A i \in Slots : i > at' => slot'[p][i] = BlankSlot
      /\ \A i \in Slots : i < at' => slot'[p][i] # BlankSlot
      /\ \A a \in Addrs : Logical(a)' = Logical(a)
    BY <1>0, <1>1, <1>2, ProgramDataData
<1>4. pc' \in {"addr", "firstAddr"} /\ dat' = dat /\ adr' = adr /\ acked' = acked /\ job' = job
    BY <1>1 DEF ProgramData
<1>5. WorkInv'
    BY <1>3, <1>4 DEF WorkInv
<1>6. ProgressInv' /\ RequestInv'
    BY <1>0, <1>3, <1>4, <1>t DEF ProgressInv, RequestInv, WriteData, FirstData
<1> QED BY <1>3, <1>5, <1>6 DEF DataInv

\* Whether a pair in a page has the address, while copies go on.
LEMMA CopyDataData ==
    ASSUME SafeState, CopyData
    PROVE  DataInv' /\ LogicalKept
<1>t. /\ TypeOK /\ ArgInv /\ HeaderInv /\ RequestInv /\ ProgressInv
    BY DEF SafeState, EepromInv, TypeInv, DataInv
<1>0. /\ new \in Pages /\ Receiving(new) /\ idx \in 1..NbOfVar /\ CopyAdr \in Addrs
      /\ Read(CopyAdr) \in Data /\ CopyAdr # Skipped
  <2>1. new \in Pages /\ Receiving(new) /\ idx \in 1..NbOfVar /\ CopyAdr \in Addrs
    BY <1>t, TableIsAddresses DEF CopyData, CopyPending, HeaderInv, TypeOK, ArgInv, CopyAdr
  <2> QED BY <2>1, <1>t, ReadIsValue DEF CopyData, CopyPending
<1>1. HasRoom(new) /\ ProgramData(new, Read(CopyAdr), "copyAddr")
    BY <1>0, ReceivingIsWritten DEF CopyData
<1>2. /\ FilledInOrder' /\ CopiesInv' /\ LogicalKept /\ AckedInv'
      /\ hdr' = hdr /\ WritePage' = {new}
      /\ slot'[new][at'].dat = Read(CopyAdr) /\ slot'[new][at'].adr = Blank
      /\ \A i \in Slots : i > at' => slot'[new][i] = BlankSlot
      /\ \A i \in Slots : i < at' => slot'[new][i] # BlankSlot
      /\ \A i \in Slots :
                /\ slot'[new][i].adr = slot[new][i].adr
                /\ slot[new][i].adr # Blank => slot'[new][i] = slot[new][i]
      /\ \A a \in Addrs : Read(a)' = Read(a) /\ Newer(new, a)' = Newer(new, a)
  <2>1. PICK p \in Pages, d \in Data : p = new /\ d = Read(CopyAdr)
    BY <1>0
  <2>2. HasRoom(p) /\ ProgramData(p, d, "copyAddr") /\ Receiving(p)
    BY <1>0, <1>1, <2>1
  <2>3. new' = p
    BY <2>1, <2>2 DEF ProgramData
  <2>4. /\ FilledInOrder' /\ CopiesInv' /\ LogicalKept /\ AckedInv'
        /\ hdr' = hdr /\ WritePage' = {p}
        /\ slot'[p][at'].dat = d /\ slot'[p][at'].adr = Blank
        /\ \A i \in Slots : i > at' => slot'[p][i] = BlankSlot
        /\ \A i \in Slots : i < at' => slot'[p][i] # BlankSlot
        /\ \A q \in Pages, i \in Slots :
                /\ slot'[q][i].adr = slot[q][i].adr
                /\ slot[q][i].adr # Blank => slot'[q][i] = slot[q][i]
        /\ \A a \in Addrs : Read(a)' = Read(a) /\ Newer(p, a)' = Newer(p, a)
    BY <2>2, ProgramDataData
  <2> QED BY <2>1, <2>3, <2>4
<1>3. /\ pc' = "copyAddr" /\ dat' = dat /\ adr' = adr /\ acked' = acked /\ job' = job
      /\ idx' = idx /\ new' = new
    BY <1>1 DEF ProgramData
<1>4. CopyAdr' = CopyAdr /\ Skipped' = Skipped
    BY <1>2, <1>3, AddressFacts DEF CopyAdr, Skipped
<1>5. Read(CopyAdr)' = Read(CopyAdr)
    BY <1>0, <1>2, <1>3 DEF CopyAdr
<1>6. WorkInv'
    BY <1>0, <1>2, <1>3, <1>4, <1>5 DEF WorkInv
<1>7. ProgressInv'
  <2>1. CopiedUpTo(idx - 1)
    BY <1>t DEF CopyData, CopyPending, ProgressInv
  <2>2. ASSUME NEW a, Holds(new, a) PROVE Holds(new, a)'
    <3>1. PICK i \in Slots : slot[new][i].adr = a
        BY <2>2 DEF Holds
    <3>2. slot'[new'][i].adr = a
        BY <3>1, <1>2, <1>3
    <3> QED BY <3>2 DEF Holds
  <2>3. CopiedUpTo(idx - 1)'
    BY <2>1, <2>2, <1>2, <1>3, TableIsAddresses DEF CopiedUpTo
  <2> QED BY <2>3, <1>3 DEF ProgressInv
<1>8. RequestInv'
  <2>1. ASSUME job = "write" PROVE slot'[new][1] = slot[new][1]
    <3>1. slot[new][1] = [dat |-> dat, adr |-> adr] /\ 1 \in Slots
        BY <2>1, <1>t, AddressFacts DEF RequestInv, CopyData, CopyPending
    <3>2. adr # Blank
        BY <1>t, ValueAssumption DEF TypeOK
    <3> QED BY <3>1, <3>2, <1>2
  <2> QED BY <2>1, <1>3, <1>t DEF RequestInv, CopyData, CopyPending
<1> QED BY <1>2, <1>6, <1>7, <1>8 DEF DataInv

\* The address of a pair: the write is carried out, by this one step.
LEMMA WriteAddressData ==
    ASSUME SafeState, WriteAddress
    PROVE  /\ DataInv'
           /\ \A a \in Table : Logical(a)' = IF a = adr THEN dat ELSE Logical(a)
<1>t. /\ TypeOK /\ TypeOK' /\ ArgInv /\ HeaderInv /\ RequestInv /\ AckedInv /\ WorkInv
      /\ FilledInOrder
    BY DEF SafeState, EepromInv, TypeInv, DataInv
<1>0. /\ adr \in Addrs /\ dat \in Data /\ job = "write" /\ at \in Slots /\ pc = "addr"
      /\ acked' = [acked EXCEPT ![adr] = dat] /\ pc' = "idle" /\ job' = "none"
    BY <1>t DEF WriteAddress, ArgInv, HeaderInv, Succeed, Return
<1>1. PICK p \in Pages : Settled(p)
    BY <1>t DEF WriteAddress, HeaderInv, SomeSettled
<1>2. WritePage = {p} /\ ProgramAddress(p, adr)
    BY <1>1, SettledIsActive DEF WriteAddress
<1>3. /\ slot[p][at].adr = Blank /\ slot[p][at].dat = dat
      /\ \A i \in Slots : i > at => slot[p][i] = BlankSlot
      /\ \A i \in Slots : i < at => slot[p][i] # BlankSlot
    BY <1>0, <1>2, <1>t DEF WorkInv
<1>4. PICK b \in Addrs : b = adr
    BY <1>0
<1>5. ProgramAddress(p, b)
    BY <1>2, <1>4
<1>6. /\ hdr' = hdr /\ FilledInOrder' /\ Latest(p, b)' = slot[p][at].dat
      /\ \A a \in Addrs : a # b => Latest(p, a)' = Latest(p, a)
    BY <1>0, <1>3, <1>5, <1>t, ProgramAddressEffect
<1>7. Settled(p)' /\ \A q \in Pages : ~Receiving(q)'
    BY <1>1, <1>6, OtherPage DEF Settled, Receiving, ERASED, RECEIVE_DATA, VALID_PAGE
<1>8. ASSUME NEW a \in Table PROVE Logical(a)' = IF a = adr THEN dat ELSE Logical(a)
  <2>1. Logical(a)' = Latest(p, a)' /\ Logical(a) = Latest(p, a)
    BY <1>1, <1>7, LogicalIs, LogicalBecomes DEF LogicalFacts
  <2> QED BY <2>1, <1>3, <1>4, <1>6, AddressFacts
<1>9. CopiesInv' /\ WorkInv' /\ ProgressInv' /\ RequestInv'
    BY <1>0, <1>7 DEF CopiesInv, WorkInv, ProgressInv, RequestInv
<1>10. AckedInv'
    BY <1>0, <1>8, <1>t, AddressFacts DEF AckedInv, TypeOK
<1> QED BY <1>6, <1>8, <1>9, <1>10 DEF DataInv

\* The same for the first pair of a receiving page.
LEMMA FirstAddressData ==
    ASSUME SafeState, FirstAddress
    PROVE  /\ DataInv'
           /\ \A a \in Table : Logical(a)' = IF a = adr THEN dat ELSE Logical(a)
<1>t. /\ TypeOK /\ TypeOK' /\ ArgInv /\ HeaderInv /\ RoomInv /\ RequestInv /\ AckedInv
      /\ WorkInv /\ FilledInOrder
    BY DEF SafeState, EepromInv, TypeInv, DataInv
<1>0. /\ adr \in Addrs /\ dat \in Data /\ job = "write" /\ at = 1 /\ at \in Slots
      /\ pc = "firstAddr" /\ acked' = acked /\ pc' = "copy" /\ job' = job /\ new' = new
      /\ adr' = adr /\ dat' = dat /\ idx' = 1 /\ acked[adr] = None
    BY <1>t DEF FirstAddress, ArgInv, HeaderInv, RoomInv, RequestInv
<1>1. PICK p \in Pages : p = new /\ Receiving(p)
    BY <1>t DEF FirstAddress, HeaderInv, TypeOK
<1>2. WritePage = {p} /\ ProgramAddress(p, adr)
    BY <1>1, ReceivingIsWritten DEF FirstAddress
<1>3. /\ slot[p][at].adr = Blank /\ slot[p][at].dat = dat
      /\ \A i \in Slots : i > at => slot[p][i] = BlankSlot
      /\ \A i \in Slots : i < at => slot[p][i] # BlankSlot
    BY <1>0, <1>2, <1>t DEF WorkInv
<1>4. PICK b \in Addrs : b = adr
    BY <1>0
<1>5. ProgramAddress(p, b)
    BY <1>2, <1>4
<1>6. /\ hdr' = hdr /\ FilledInOrder' /\ slot'[p][1] = [dat |-> dat, adr |-> b]
      /\ \A i \in Slots : i # 1 => slot'[p][i] = slot[p][i]
      /\ \A a \in Addrs : Latest(Other(p), a)' = Latest(Other(p), a)
    BY <1>0, <1>3, <1>5, <1>t, ProgramAddressEffect
<1>7. Receiving(p)' /\ \A q \in Pages : Receiving(q)' => q = p
    BY <1>1, <1>6, OtherPage DEF Receiving, RECEIVE_DATA, VALID_PAGE
<1>8. ASSUME NEW a \in Table PROVE Logical(a)' = IF a = adr THEN dat ELSE Logical(a)
  <2>1. Logical(a)' = Newer(p, a)' /\ Logical(a) = Newer(p, a) /\ a \in Addrs
    BY <1>1, <1>7, LogicalIs, LogicalBecomes, AddressFacts DEF LogicalFacts
  <2>2. Newer(p, a) = Latest(Other(p), a)
    BY <1>0, <1>3, <2>1, ValueAssumption DEF Newer
  <2>3. Newer(p, a)' = IF a = b THEN dat ELSE Latest(Other(p), a)
    BY <1>6, <2>1 DEF Newer
  <2> QED BY <2>1, <2>2, <2>3, <1>4
<1>9. CopiesInv'
  <2> SUFFICES ASSUME NEW q \in Pages, Receiving(q)', NEW i \in Slots, i # 1,
                      slot'[q][i].adr \in Addrs
               PROVE  FALSE
    BY DEF CopiesInv
  <2>1. q = p /\ i > at
    BY <1>0, <1>7
  <2> QED BY <2>1, <1>0, <1>3, <1>6, ValueAssumption DEF BlankSlot
<1>10. WorkInv' /\ ProgressInv' /\ RequestInv'
  <2>1. slot'[new'][1] = [dat |-> dat', adr |-> adr']
    BY <1>0, <1>1, <1>4, <1>6
  <2>2. CopiedUpTo(0)'
    BY DEF CopiedUpTo
  <2> QED BY <1>0, <2>1, <2>2 DEF WorkInv, ProgressInv, RequestInv
<1>11. AckedInv'
    BY <1>0, <1>8, <1>t DEF AckedInv
<1> QED BY <1>6, <1>8, <1>9, <1>10, <1>11 DEF DataInv

\* The address of a copied pair: the copy has the value that counted already.
LEMMA CopyAddressData ==
    ASSUME SafeState, CopyAddress
    PROVE  DataInv' /\ LogicalKept
<1>t. /\ TypeOK /\ TypeOK' /\ ArgInv /\ HeaderInv /\ RequestInv /\ AckedInv
      /\ WorkInv /\ FilledInOrder /\ CopiesInv /\ ProgressInv
    BY DEF SafeState, EepromInv, TypeInv, DataInv
<1>0. /\ at \in Slots /\ pc = "copyAddr" /\ acked' = acked /\ pc' = "copy" /\ job' = job
      /\ new' = new /\ adr' = adr /\ dat' = dat /\ idx' = idx + 1 /\ idx \in 1..NbOfVar
    BY <1>t DEF CopyAddress, ArgInv
<1>1. PICK p \in Pages : p = new /\ Receiving(p)
    BY <1>t DEF CopyAddress, HeaderInv, TypeOK
<1>2. PICK b \in Addrs : b = CopyAdr
    BY <1>0, TableIsAddresses DEF CopyAdr
<1>3. WritePage = {p} /\ ProgramAddress(p, b)
    BY <1>1, <1>2, ReceivingIsWritten DEF CopyAddress
<1>4. /\ slot[p][at].adr = Blank /\ slot[p][at].dat = Latest(Other(p), b)
      /\ \A i \in Slots : i > at => slot[p][i] = BlankSlot
      /\ \A i \in Slots : i < at => slot[p][i] # BlankSlot
      /\ b # Skipped
    BY <1>0, <1>1, <1>2, <1>3, <1>t, ReadIs DEF WorkInv
<1>5. job = "write" => slot[p][1] = [dat |-> dat, adr |-> adr] /\ adr # Blank
    BY <1>0, <1>1, <1>t, ValueAssumption DEF RequestInv, TypeOK
<1>6. slot[p][1].adr # b
    BY <1>1, <1>4, <1>5 DEF Skipped
<1>7. job = "write" => at # 1
    BY <1>4, <1>5
<1>8. /\ hdr' = hdr /\ FilledInOrder' /\ slot'[p][at] = [dat |-> slot[p][at].dat, adr |-> b]
      /\ \A i \in Slots : i # at => slot'[p][i] = slot[p][i]
      /\ \A a \in Addrs : Latest(Other(p), a)' = Latest(Other(p), a)
    BY <1>0, <1>3, <1>4, <1>t, ProgramAddressEffect
<1>9. Receiving(p)' /\ \A q \in Pages : Receiving(q)' => q = p
    BY <1>1, <1>8, OtherPage DEF Receiving, RECEIVE_DATA, VALID_PAGE
<1>10. Newer(p, b) = Latest(Other(p), b)
    BY <1>6 DEF Newer
<1>11. ASSUME NEW a \in Addrs PROVE Newer(p, a)' = Newer(p, a)
  <2>1. CASE at = 1
    <3>1. slot[p][1].adr # a
        BY <2>1, <1>4, ValueAssumption
    <3>2. slot'[p][1].adr = b /\ slot'[p][1].dat = Latest(Other(p), b)
        BY <2>1, <1>4, <1>8
    <3> QED BY <3>1, <3>2, <1>8 DEF Newer
  <2>2. CASE at # 1
    BY <2>2, <1>8, AddressFacts DEF Newer
  <2> QED BY <2>1, <2>2
<1>12. ASSUME NEW a \in Table PROVE Logical(a)' = Logical(a)
    BY <1>1, <1>9, <1>11, LogicalIs, LogicalBecomes, AddressFacts DEF LogicalFacts
<1>13. CopiesInv'
  <2> SUFFICES ASSUME NEW q \in Pages, Receiving(q)', NEW i \in Slots, i # 1,
                      slot'[q][i].adr \in Addrs
               PROVE  (slot[q][i].dat = Newer(q, slot[q][i].adr))'
    BY DEF CopiesInv
  <2>1. q = p
    BY <1>9
  <2>2. CASE i = at
    BY <2>1, <2>2, <1>4, <1>8, <1>10, <1>11
  <2>3. CASE i # at
    <3>1. slot'[q][i] = slot[q][i] /\ slot[q][i].adr \in Addrs
        BY <2>1, <2>3, <1>8
    <3>2. slot[q][i].dat = Newer(q, slot[q][i].adr)
        BY <3>1, <2>1, <1>1, <1>t DEF CopiesInv
    <3> QED BY <3>1, <3>2, <2>1, <1>11
  <2> QED BY <2>2, <2>3
<1>14. ProgressInv'
  <2>1. CopiedUpTo(idx - 1)
    BY <1>0, <1>t DEF ProgressInv
  <2>2. ASSUME NEW a \in Addrs, Holds(p, a) PROVE Holds(p, a)'
    <3>1. PICK i \in Slots : slot[p][i].adr = a
        BY <2>2 DEF Holds
    <3>2. slot'[p][i].adr = a
        BY <3>1, <1>4, <1>8, ValueAssumption
    <3> QED BY <3>2 DEF Holds
  <2>3. Holds(p, b)'
    BY <1>0, <1>8 DEF Holds
  <2>4. ASSUME NEW j \in 1..NbOfVar, j <= idx, Newer(p, VirtAddVarTab[j])' # None
        PROVE  Holds(p, VirtAddVarTab[j])'
    <3>1. VirtAddVarTab[j] \in Addrs
        BY TableIsAddresses
    <3>2. CASE j = idx
        BY <3>2, <2>3, <1>2 DEF CopyAdr
    <3>3. CASE j # idx
      <4>1. j <= idx - 1 /\ Newer(p, VirtAddVarTab[j]) # None
        BY <2>4, <3>1, <3>3, <1>0, <1>11, TableIsAddresses
      <4> QED BY <4>1, <2>1, <2>2, <3>1, <1>1 DEF CopiedUpTo
    <3> QED BY <3>2, <3>3
  <2>5. CopiedUpTo(idx - 1)'
    <3>1. new' = p /\ idx' - 1 = idx
        BY <1>0, <1>1, TableIsAddresses
    <3> QED BY <2>4, <3>1 DEF CopiedUpTo
  <2> QED BY <2>5, <1>0 DEF ProgressInv
<1>15. WorkInv' /\ RequestInv'
  <2>1. job = "write" => slot'[p][1] = slot[p][1]
    BY <1>7, <1>8, AddressFacts
  <2> QED BY <2>1, <1>0, <1>1, <1>t DEF WorkInv, RequestInv
<1>16. AckedInv'
    BY <1>0, <1>12, <1>t DEF AckedInv
<1> QED BY <1>8, <1>12, <1>13, <1>14, <1>15, <1>16 DEF DataInv, LogicalKept

\* Steps of the copy loop and of a write that only look at the flash.
LEMMA LookingData ==
    ASSUME SafeState, CopySkip \/ CopyDone \/ WritePageFull
    PROVE  DataInv' /\ LogicalKept
<1>t. /\ TypeOK /\ TypeOK' /\ ArgInv /\ HeaderInv /\ RequestInv /\ AckedInv
      /\ FilledInOrder /\ CopiesInv /\ ProgressInv
    BY DEF SafeState, EepromInv, TypeInv, DataInv
<1>0. /\ hdr' = hdr /\ slot' = slot /\ new' = new /\ job' = job /\ acked' = acked
      /\ adr' = adr /\ dat' = dat
    BY DEF CopySkip, CopyDone, WritePageFull, flash, Goto
<1>1. /\ FilledInOrder' /\ CopiesInv'
      /\ \A a : Logical(a)' = Logical(a)
      /\ \A p, a : /\ Latest(p, a)' = Latest(p, a) /\ Newer(p, a)' = Newer(p, a)
                   /\ Holds(p, a)' = Holds(p, a)
    BY <1>0, <1>t, FlashKept
<1>2. AckedInv' /\ WorkInv'
    BY <1>0, <1>1, <1>t DEF AckedInv, WorkInv, CopySkip, CopyDone, WritePageFull, Goto
<1>3. RequestInv'
    BY <1>0, <1>1, <1>t DEF RequestInv, CopySkip, CopyDone, WritePageFull, Goto
<1>4. ProgressInv'
  <2>1. CASE WritePageFull
    BY <2>1 DEF WritePageFull, Goto, ProgressInv
  <2>2. CASE CopyDone
    <3>1. idx - 1 = NbOfVar /\ pc = "copy" /\ pc' \in {"erase", "mark"}
        BY <2>2, <1>t, TableIsAddresses DEF CopyDone, Goto, TypeOK
    <3>2. CopiedUpTo(NbOfVar)
        BY <3>1, <1>t DEF ProgressInv
    <3>3. CopiedUpTo(NbOfVar)'
        BY <3>2, <1>0, <1>1 DEF CopiedUpTo
    <3> QED BY <3>1, <3>3 DEF ProgressInv
  <2>3. CASE CopySkip
    <3>1. /\ pc = "copy" /\ pc' = "copy" /\ idx \in 1..NbOfVar /\ idx' = idx + 1
          /\ CopyAdr = Skipped \/ Read(CopyAdr) = None
        BY <2>3, <1>t DEF CopySkip, CopyPending, ArgInv, TypeOK
    <3>2. PICK p \in Pages : p = new /\ Receiving(p)
        BY <3>1, <1>t DEF HeaderInv, TypeOK
    <3>3. slot[p][1].adr = CopyAdr => Holds(p, CopyAdr)
        BY AddressFacts DEF Holds
    <3>4. CopyAdr = Skipped => slot[p][1].adr = CopyAdr
        BY <3>1, <3>2, <1>t DEF Skipped, RequestInv
    <3>5. Read(CopyAdr) = None => Newer(p, CopyAdr) = None \/ slot[p][1].adr = CopyAdr
        BY <3>2, ReadIs DEF Newer
    <3>6. Newer(p, VirtAddVarTab[idx]) # None => Holds(p, VirtAddVarTab[idx])
        BY <3>1, <3>3, <3>4, <3>5 DEF CopyAdr
    <3>7. CopiedUpTo(idx - 1)
        BY <3>1, <1>t DEF ProgressInv
    <3>8. \A j \in 1..NbOfVar :
                j <= idx /\ Newer(p, VirtAddVarTab[j]) # None => Holds(p, VirtAddVarTab[j])
      <4> SUFFICES ASSUME NEW j \in 1..NbOfVar, j <= idx, Newer(p, VirtAddVarTab[j]) # None
                   PROVE  Holds(p, VirtAddVarTab[j])
        OBVIOUS
      <4>1. CASE j = idx
        BY <4>1, <3>6
      <4>2. CASE j # idx
        BY <4>2, <3>1, <3>2, <3>7, TableIsAddresses DEF CopiedUpTo
      <4> QED BY <4>1, <4>2
    <3>9. CopiedUpTo(idx - 1)'
      <4>1. new' = p /\ idx' - 1 = idx
        BY <3>1, <3>2, <1>0, TableIsAddresses
      <4> QED BY <4>1, <3>8, <1>1 DEF CopiedUpTo
    <3> QED BY <3>1, <3>9 DEF ProgressInv
  <2> QED BY <2>1, <2>2, <2>3
<1> QED BY <1>1, <1>2, <1>3, <1>4 DEF DataInv, LogicalKept

\* The start of a transfer: the receiving page is still blank.
LEMMA BeginTransferData ==
    ASSUME SafeState, BeginTransfer
    PROVE  DataInv' /\ LogicalKept
<1> USE OtherPage DEF ERASED, RECEIVE_DATA, VALID_PAGE
<1>t. /\ TypeOK /\ TypeOK' /\ HeaderInv /\ BlankInv /\ RequestInv /\ AckedInv
      /\ ArgInv /\ FilledInOrder
    BY DEF SafeState, EepromInv, TypeInv, DataInv
<1>0. /\ job = "write" /\ job' = job /\ slot' = slot /\ acked' = acked /\ pc' = "first"
      /\ pc = "receive" /\ adr' = adr /\ dat' = dat /\ adr \in Addrs
    BY <1>t DEF BeginTransfer, HeaderInv, ArgInv
<1>1. PICK p \in Pages : Settled(p)
    BY <1>t DEF BeginTransfer, HeaderInv, SomeSettled
<1>2. PICK q \in Pages : q = Other(p) /\ p = Other(q)
    BY <1>1
<1>3. hdr' = [hdr EXCEPT ![q] = RECEIVE_DATA] /\ slot[q] = BlankPage
    BY <1>1, <1>2, <1>t, SettledIsActive DEF BeginTransfer, Program, Settled, BlankInv
<1>4. Receiving(q)' /\ \A r \in Pages : Receiving(r)' => r = q
    BY <1>1, <1>2, <1>3, <1>t DEF Receiving, Settled, TypeOK
<1>5. ASSUME NEW a \in Addrs PROVE Logical(a)' = Logical(a)
  <2>1. Logical(a)' = Newer(q, a)' /\ Logical(a) = Latest(p, a)
    BY <1>1, <1>4, LogicalIs, LogicalBecomes DEF LogicalFacts
  <2>2. slot[q][1].adr # a
    BY <1>3, AddressFacts, ValueAssumption DEF BlankPage, BlankSlot
  <2>3. Latest(p, a)' = Latest(p, a)
    BY <1>0 DEF Latest
  <2>4. Newer(q, a)' = Latest(p, a)'
    BY <1>0, <1>2, <2>2 DEF Newer
  <2> QED BY <2>1, <2>3, <2>4
<1>6. FilledInOrder'
    BY <1>0, <1>t DEF FilledInOrder
<1>7. CopiesInv'
  <2> SUFFICES ASSUME NEW r \in Pages, Receiving(r)', NEW i \in Slots,
                      slot'[r][i].adr \in Addrs
               PROVE  FALSE
    BY DEF CopiesInv
  <2>1. slot'[r] = BlankPage
    BY <1>0, <1>3, <1>4
  <2>2. slot'[r][i].adr = Blank
    BY <2>1 DEF BlankPage, BlankSlot
  <2> QED BY <2>2, ValueAssumption
<1>8. WorkInv' /\ ProgressInv' /\ RequestInv'
    BY <1>0, <1>5, <1>t DEF WorkInv, ProgressInv, RequestInv
<1>9. AckedInv'
    BY <1>0, <1>5, <1>t, AddressFacts DEF AckedInv
<1> QED BY <1>5, <1>6, <1>7, <1>8, <1>9, AddressFacts DEF DataInv, LogicalKept

\* Without faults no call is given up.
LEMMA NoFailure ==
    ASSUME EepromInv, Faults = {}
    PROVE  ~CopyPageFull /\ ~ProgramFailure
BY RoomIsLeft DEF RoomSuffices, CopyPageFull, ProgramFailure

LEMMA NextData == SafeState /\ [Next]_vars => DataInv'
<1> SUFFICES ASSUME SafeState, [Next]_vars PROVE DataInv'
    OBVIOUS
<1>1. CASE \/ PowerOn \/ PowerLoss \/ InitDispatch
           \/ FlashFormat \/ \E a \in Addrs, d \in Data : FlashWrite(a, d)
    BY <1>1, OutsideData
<1>2. CASE Repair
    BY <1>2, RepairData
<1>3. CASE Wipe
    BY <1>3, WipeData
<1>4. CASE Mark
    BY <1>4, MarkData
<1>5. CASE Tidy
    BY <1>5, TidyData
<1>6. CASE WriteData \/ FirstData
    BY <1>6, WriteDataData
<1>7. CASE WriteAddress
    BY <1>7, WriteAddressData
<1>8. CASE FirstAddress
    BY <1>8, FirstAddressData
<1>9. CASE CopyData
    BY <1>9, CopyDataData
<1>10. CASE CopyAddress
    BY <1>10, CopyAddressData
<1>11. CASE CopySkip \/ CopyDone \/ WritePageFull
    BY <1>11, LookingData
<1>12. CASE BeginTransfer
    BY <1>12, BeginTransferData
<1>13. CASE EraseOld
    BY <1>13, EraseOldData
<1>14. CASE MarkLast
    BY <1>14, MarkLastData
<1>15. CASE CopyPageFull \/ ProgramFailure
    BY <1>15, NoFailure DEF SafeState
<1>16. CASE UNCHANGED vars
  <2>1. /\ hdr' = hdr /\ slot' = slot /\ new' = new /\ job' = job /\ acked' = acked
        /\ adr' = adr /\ dat' = dat /\ pc' = pc /\ idx' = idx /\ at' = at
    BY <1>16 DEF vars
  <2>2. DataInv
    BY DEF SafeState
  <2>3. /\ FilledInOrder => FilledInOrder'
        /\ CopiesInv => CopiesInv'
        /\ \A a : Logical(a)' = Logical(a) /\ Read(a)' = Read(a)
        /\ \A p, a : /\ Latest(p, a)' = Latest(p, a) /\ Newer(p, a)' = Newer(p, a)
                     /\ Holds(p, a)' = Holds(p, a)
        /\ WritePage' = WritePage
    BY <2>1, FlashKept
  <2>4. CopyAdr' = CopyAdr /\ Read(CopyAdr)' = Read(CopyAdr) /\ Skipped' = Skipped
    BY <2>1, <2>3 DEF CopyAdr, Skipped
  <2>5. WorkInv'
    BY <2>1, <2>2, <2>3, <2>4 DEF DataInv, WorkInv
  <2>6. ProgressInv'
    BY <2>1, <2>2, <2>3 DEF DataInv, ProgressInv, CopiedUpTo, Receiving
  <2>7. RequestInv' /\ AckedInv'
    BY <2>1, <2>2, <2>3 DEF DataInv, RequestInv, AckedInv
  <2> QED BY <2>2, <2>3, <2>5, <2>6, <2>7 DEF DataInv
<1> QED BY <1>1, <1>2, <1>3, <1>4, <1>5, <1>6, <1>7, <1>8, <1>9, <1>10, <1>11, <1>12,
           <1>13, <1>14, <1>15, <1>16
        DEF Next, Progress, Environment

LEMMA DataInvariant == Faults = {} => (Spec => []DataInv)
<1> SUFFICES ASSUME Faults = {} PROVE Spec => []DataInv
    OBVIOUS
<1>1. EepromInv /\ EepromInv' /\ DataInv /\ [Next]_vars => DataInv'
    BY NextData DEF SafeState
<1>2. Spec => []EepromInv
    BY EepromInvariant
<1> QED BY <1>1, <1>2, InitData, PTL DEF Spec

\* For every page size, table and bound on power losses: without the faults,
\* and if every address written to is one of the table, a value for which
\* Flash_Write returned true is what Flash_Read returns when no call runs,
\* over any number of transfers, power losses and recoveries.  (A variable
\* outside the table is lost by the next transfer.)
THEOREM AckedIsReadable == Faults = {} /\ Addrs \subseteq Table => (Spec => []AckedReadable)
<1> SUFFICES ASSUME Faults = {}, Addrs \subseteq Table PROVE Spec => []AckedReadable
    OBVIOUS
<1>1. EepromInv /\ DataInv => AckedReadable
  <2> SUFFICES ASSUME EepromInv, DataInv, pc = "idle", NEW a \in Addrs, acked[a] # None
               PROVE  Read(a) = acked[a]
    BY DEF AckedReadable
  <2>1. PICK p \in Pages : Settled(p)
    BY DEF EepromInv, HeaderInv, SomeSettled
  <2>2. Logical(a) = acked[a]
    BY DEF DataInv, AckedInv
  <2> QED BY <2>1, <2>2, ReadIs, LogicalIs DEF LogicalFacts
<1> QED BY <1>1, EepromInvariant, DataInvariant, PTL
-----------------------------------------------------------------------------
(* The refinement, step by step                                            *)

\* The store behind the pages, before and after a step.
StoreKept == [a \in Table |-> Logical(a)]' = [a \in Table |-> Logical(a)]

LEMMA KeptStore == LogicalKept => StoreKept
BY DEF LogicalKept, StoreKept

\* Steps that change neither the values nor the request.
LEMMA RequestKept ==
    ASSUME LogicalKept, job' = job, adr' = adr, dat' = dat
    PROVE  Pending' = Pending
BY DEF LogicalKept, Pending

\* The write takes effect: what Commit says.
LEMMA CommitStep ==
    ASSUME job = "write", adr \in Addrs, dat \in Data, Logical(adr) # dat,
           \A a \in Table : Logical(a)' = IF a = adr THEN dat ELSE Logical(a),
           job' = "none" \/ (adr' = adr /\ dat' = dat)
    PROVE  [Store!Next]_Store!storeVars
<1>1. CASE adr \in Table
  <2>1. Pending = [adr |-> adr, dat |-> dat]
    BY <1>1 DEF Pending
  <2>2. Pending # None
    <3>1. Pending \in [adr : Addrs, dat : Data]
        BY <2>1
    <3> QED BY <3>1, ValueAssumption
  <2>3. Pending' = None
    BY <1>1 DEF Pending
  <2>4. [a \in Table |-> Logical(a)]'
            = [[a \in Table |-> Logical(a)] EXCEPT ![Pending.adr] = Pending.dat]
    BY <1>1, <2>1
  <2> QED BY <2>2, <2>3, <2>4 DEF Store!Next, Store!Commit
<1>2. CASE adr \notin Table
  <2>1. StoreKept
    BY <1>2 DEF StoreKept
  <2>2. Pending' = Pending
    BY <1>2 DEF Pending
  <2> QED BY <2>1, <2>2 DEF StoreKept, Store!storeVars
<1> QED BY <1>1, <1>2

\* Every step of the emulation is a step of the store or none.
LEMMA StepRefines ==
    ASSUME SafeState, [Next]_vars
    PROVE  [Store!Next]_Store!storeVars
<1>t. /\ TypeOK /\ ArgInv /\ HeaderInv /\ RequestInv
    BY DEF SafeState, EepromInv, TypeInv, DataInv
<1>0. ASSUME LogicalKept, Pending' = Pending PROVE [Store!Next]_Store!storeVars
    BY <1>0, KeptStore DEF StoreKept, Store!storeVars
<1>1. CASE PowerOn \/ InitDispatch \/ FlashFormat
  <2>1. LogicalKept
    BY <1>1, OutsideData
  <2>2. job # "write" /\ job' # "write"
    BY <1>1, <1>t DEF PowerOn, InitDispatch, FlashFormat, HeaderInv, RequestInv
  <2> QED BY <2>1, <2>2, <1>0 DEF Pending
<1>2. CASE PowerLoss
  <2>1. LogicalKept /\ Pending' = None
    BY <1>2, OutsideData DEF PowerLoss, Pending
  <2>2. CASE Pending = None
    BY <2>1, <2>2, <1>0
  <2>3. CASE Pending # None
    BY <2>1, <2>3, KeptStore DEF StoreKept, Store!Next, Store!Abandon
  <2> QED BY <2>2, <2>3
<1>3. CASE \E a \in Addrs, d \in Data : FlashWrite(a, d)
  <2>1. PICK a \in Addrs, d \in Data : FlashWrite(a, d)
    BY <1>3
  <2>2. LogicalKept /\ StoreKept
    BY <1>3, OutsideData, KeptStore
  <2>3. Pending = None
    BY <2>1, <1>t DEF FlashWrite, RequestInv, Pending
  <2>4. PICK p \in Pages : Settled(p)
    BY <2>1, <1>t DEF FlashWrite, HeaderInv, SomeSettled
  <2>5. Logical(a) # d
    BY <2>1, <2>4, ReadIs, LogicalIs DEF FlashWrite, LogicalFacts
  <2>6. job' = "write" /\ adr' = a /\ dat' = d
    BY <2>1 DEF FlashWrite
  <2>7. CASE a \in Table
    <3>1. Pending' = [adr |-> a, dat |-> d]
        BY <2>2, <2>5, <2>6, <2>7 DEF Pending, LogicalKept
    <3>2. Store!Begin(a, d)
        BY <2>2, <2>3, <2>5, <2>7, <3>1 DEF Store!Begin, StoreKept
    <3> QED BY <2>7, <3>2 DEF Store!Next
  <2>8. CASE a \notin Table
    BY <2>2, <2>3, <2>6, <2>8, <1>0 DEF Pending
  <2> QED BY <2>7, <2>8
<1>4. CASE Repair \/ Mark \/ Tidy
  <2>1. LogicalKept
    BY <1>4, RepairData, MarkData, TidyData
  <2>2. job # "write" /\ job' # "write"
    BY <1>4, <1>t DEF Repair, Mark, Tidy, HeaderInv, Goto, Succeed, Return
  <2> QED BY <2>1, <2>2, <1>0 DEF Pending
<1>5. CASE Wipe
  <2>1. \A a \in Table : Logical(a)' = None
    BY <1>5, WipeData
  <2>2. Pending = None /\ Pending' = None
    BY <1>5, <1>t DEF Wipe, Goto, HeaderInv, Pending
  <2>3. [a \in Table |-> Logical(a)]' = Store!Empty
    BY <2>1 DEF Store!Empty
  <2> QED BY <2>2, <2>3 DEF Store!Next, Store!Format
<1>6. CASE \/ WriteData \/ FirstData \/ CopyData \/ CopyAddress
           \/ CopySkip \/ CopyDone \/ WritePageFull \/ BeginTransfer \/ EraseOld
  <2>1. LogicalKept
    BY <1>6, WriteDataData, CopyDataData, CopyAddressData, LookingData, BeginTransferData,
       EraseOldData
  <2>2. job' = job /\ adr' = adr /\ dat' = dat
    BY <1>6 DEF WriteData, FirstData, CopyData, CopyAddress, CopySkip, CopyDone, WritePageFull,
       BeginTransfer, EraseOld, ProgramData, Goto
  <2> QED BY <2>1, <2>2, <1>0, RequestKept
<1>7. CASE WriteAddress
  <2>1. /\ job = "write" /\ adr \in Addrs /\ dat \in Data /\ Logical(adr) # dat /\ job' = "none"
    BY <1>7, <1>t DEF WriteAddress, HeaderInv, ArgInv, RequestInv, Succeed, Return
  <2>2. \A a \in Table : Logical(a)' = IF a = adr THEN dat ELSE Logical(a)
    BY <1>7, WriteAddressData
  <2> QED BY <2>1, <2>2, CommitStep
<1>8. CASE FirstAddress
  <2>1. /\ job = "write" /\ adr \in Addrs /\ dat \in Data /\ Logical(adr) # dat
      /\ adr' = adr /\ dat' = dat
    BY <1>8, <1>t DEF FirstAddress, HeaderInv, ArgInv, RequestInv
  <2>2. \A a \in Table : Logical(a)' = IF a = adr THEN dat ELSE Logical(a)
    BY <1>8, FirstAddressData
  <2> QED BY <2>1, <2>2, CommitStep
<1>9. CASE MarkLast
  <2>1. LogicalKept
    BY <1>9, MarkLastData
  <2>2. new \in Pages /\ Switching(new)
    BY <1>9, <1>t DEF MarkLast, HeaderInv, TypeOK
  <2>3. job = "write" => Logical(adr) = dat
    BY <1>9, <2>2, <1>t, LogicalIs DEF MarkLast, RequestInv, LogicalFacts
  <2>4. Pending = None /\ Pending' = None
    BY <1>9, <2>3 DEF Pending, MarkLast, Succeed, Return
  <2> QED BY <2>1, <2>4, <1>0
<1>10. CASE CopyPageFull \/ ProgramFailure
    BY <1>10, NoFailure DEF SafeState
<1>11. CASE UNCHANGED vars
  <2>1. /\ hdr' = hdr /\ slot' = slot /\ new' = new /\ job' = job /\ adr' = adr /\ dat' = dat
    BY <1>11 DEF vars
  <2>2. LogicalKept
    BY <2>1, FlashKept DEF LogicalKept
  <2> QED BY <2>1, <2>2, <1>0, RequestKept
<1> QED BY <1>1, <1>2, <1>3, <1>4, <1>5, <1>6, <1>7, <1>8, <1>9, <1>10, <1>11
        DEF Next, Progress, Environment

\* For every page size, table, set of addresses and bound on power losses:
\* without the faults, the pages with their transfers and recoveries implement
\* the persistent store.  A write to a variable of the table takes effect
\* completely, in the one step that programs its address halfword, or not at
\* all, and no other step changes what any variable of the table holds, except
\* the erasure by a format.
THEOREM PagesAreStore == Faults = {} => (Spec => ImplementsStore)
<1> SUFFICES ASSUME Faults = {} PROVE Spec => ImplementsStore
    OBVIOUS
<1>1. Init => Store!Init
  <2> SUFFICES ASSUME Init PROVE Store!Init
    OBVIOUS
  <2>1. Fresh /\ Pending = None
    BY DEF Init, Fresh, Pending
  <2>2. \A a \in Table : Logical(a) = None
    BY <2>1, LogicalIs DEF LogicalFacts
  <2> QED BY <2>1, <2>2 DEF Store!Init, Store!Empty
<1>2. EepromInv /\ EepromInv' /\ DataInv /\ [Next]_vars => [Store!Next]_Store!storeVars
    BY StepRefines DEF SafeState
<1> QED BY <1>1, <1>2, EepromInvariant, DataInvariant, PTL DEF Spec, ImplementsStore, Store!Spec
=============================================================================
