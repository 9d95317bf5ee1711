--------------------------- MODULE CommandProofs ---------------------------
(***************************************************************************)
(* What holds of the command system for any number of commands, any buffer *)
(* size and any behaviour of the host, proved with TLAPS.                  *)
(***************************************************************************)
EXTENDS CommandSystem, DataFacts, FiniteSetTheorems

USE DEF Junk

-----------------------------------------------------------------------------
(* Commands in the order in which they were sent                           *)

\* CMD_MAIN has executed the first command of the batch and offers its result.
Doing == {"toCdc", "insert", "toHid"}

\* The commands of an interface.
Own(i) == IF i = "cdc" THEN CdcCommand ELSE HidCommand

Increasing(s) == \A i, j \in 1..Len(s) : i < j => s[i] < s[j]
Before(s, t) == \A i \in 1..Len(s), j \in 1..Len(t) : s[i] < t[j]
Within(s, S) == \A i \in 1..Len(s) : s[i] \in S

\* Every interface sends its commands in their order.
SentInv ==
    /\ sent \subseteq host.commands /\ host.commands \subseteq Command
    /\ \A i \in Itf : \A c \in sent \intersect Own(i), d \in host.commands \intersect Own(i) :
            d < c => d \in sent

\* The buffers hold commands that were sent, in their order.
BufferInv ==
    /\ ring \in Seq(CdcCommand) /\ Within(ring, sent) /\ Increasing(ring)
    /\ hidQueue \in Seq(HidCommand) /\ Within(hidQueue, sent) /\ Increasing(hidQueue)

\* So does the batch, and what is still in the buffer comes after it: while
\* the batch is only peeked at, the buffer begins with it, or was cleared.
BatchInv ==
    /\ origin \in Itf
    /\ batch \in Seq(Own(origin)) /\ Within(batch, sent) /\ Increasing(batch)
    /\ pc \in Doing => batch # <<>>
    /\ pc = "peeked" =>
            /\ origin = "cdc"
            /\ \A i \in 1..Len(ring), j \in 1..Len(batch) : i > Len(batch) => batch[j] < ring[i]
    /\ pc # "peeked" /\ origin = "cdc" => Before(batch, ring)
    /\ origin = "hid" => Before(batch, hidQueue)

\* Executed commands come before all others of their interface.
ExecutedInv ==
    /\ executed \in Seq(Command) /\ Within(executed, sent) /\ ExecutedOnce
    /\ \A i \in 1..Len(executed) :
        /\ executed[i] \in CdcCommand => \A j \in 1..Len(ring) : executed[i] < ring[j]
        /\ executed[i] \in HidCommand => \A j \in 1..Len(hidQueue) : executed[i] < hidQueue[j]
        /\ executed[i] \in Own(origin) =>
                \A j \in 1..Len(batch) : j # 1 \/ pc \notin Doing => executed[i] < batch[j]

OrderInv == SentInv /\ BufferInv /\ BatchInv /\ ExecutedInv

LEMMA CommandFacts ==
    /\ CdcCommand \subseteq Nat \ {0} /\ HidCommand \subseteq Nat \ {0}
    /\ Command = CdcCommand \union HidCommand /\ CdcCommand \intersect HidCommand = {}
BY CommandAssumption DEF Command, CdcCommand, HidCommand

\* What the host sends comes after everything it has sent on that interface.
LEMMA SendsLater ==
    ASSUME SentInv, NEW i \in Itf, NEW c \in Own(i), Sends(c), host' = host
    PROVE  /\ SentInv'
           /\ sent' = sent \union {c} /\ c \notin sent
           /\ \A d \in sent \intersect Own(i) : d < c
<1>1. /\ c \in host.commands /\ c \notin sent /\ sent' = sent \union {c}
      /\ \A d \in host.commands : d < c /\ (d \in CdcCommand <=> c \in CdcCommand) => d \in sent
    BY DEF Sends
<1>2. \A d \in host.commands \intersect Own(i) : d < c => d \in sent
    BY <1>1, CommandFacts DEF Own, Itf
<1>3. ASSUME NEW d \in sent \intersect Own(i) PROVE d < c
  <2>1. d \in Nat /\ c \in Nat /\ d # c
    BY <1>1, CommandFacts DEF Own
  <2>2. ~(c < d)
    BY <1>1 DEF SentInv
  <2> QED BY <2>1, <2>2
<1>4. SentInv'
  <2> SUFFICES ASSUME NEW k \in Itf, NEW e \in sent' \intersect Own(k),
                      NEW d \in host.commands \intersect Own(k), d < e
               PROVE  d \in sent'
    BY <1>1 DEF SentInv
  <2>1. CASE e \in sent
    BY <2>1, <1>1 DEF SentInv
  <2>2. CASE e = c
    <3>1. k = i
        BY <2>2, CommandFacts DEF Own, Itf
    <3> QED BY <3>1, <2>2, <1>1, <1>2
  <2> QED BY <2>1, <2>2, <1>1
<1> QED BY <1>1, <1>3, <1>4

\* Appending what comes later keeps the order.
LEMMA AppendLater ==
    ASSUME NEW S, S \subseteq Nat, NEW s \in Seq(S), NEW c \in S, Increasing(s),
           \A i \in 1..Len(s) : s[i] < c
    PROVE  Increasing(Append(s, c))
<1>1. /\ Len(Append(s, c)) = Len(s) + 1 /\ Len(s) \in Nat
      /\ \A i \in 1..Len(s) : Append(s, c)[i] = s[i]
      /\ Append(s, c)[Len(s) + 1] = c
    BY AppendProperties, LenProperties
<1> QED BY <1>1 DEF Increasing

LEMMA RestKept ==
    ASSUME NEW S, S \subseteq Nat, NEW s \in Seq(S), NEW k \in Nat, Increasing(s)
    PROVE  LET r == SubSeq(s, k + 1, Len(s))
           IN  /\ r \in Seq(S) /\ Increasing(r)
               /\ \A i \in 1..Len(r) : i + k \in 1..Len(s) /\ r[i] = s[i + k]
<1> DEFINE r == SubSeq(s, k + 1, Len(s))
<1>1. Len(s) \in Nat /\ \A i \in 1..Len(s) : s[i] \in S
    BY LenProperties, ElementOfSeq
<1>2. /\ r \in Seq(S) /\ Len(r) = IF k + 1 <= Len(s) THEN Len(s) - (k + 1) + 1 ELSE 0
      /\ \A i \in 1..Len(s) - (k + 1) + 1 : r[i] = s[k + 1 + i - 1]
    BY <1>1, SubSeqProperties
<1>3. \A i \in 1..Len(r) : i + k \in 1..Len(s) /\ r[i] = s[i + k]
  <2> HIDE DEF r
  <2> TAKE i \in 1..Len(r)
  <2>1. k + 1 <= Len(s) /\ i \in 1..Len(s) - (k + 1) + 1 /\ k + 1 + i - 1 = i + k
    BY <1>1, <1>2
  <2> QED BY <1>1, <1>2, <2>1
<1>4. Increasing(r)
  <2> HIDE DEF r
  <2> SUFFICES ASSUME NEW i \in 1..Len(r), NEW j \in 1..Len(r), i < j PROVE r[i] < r[j]
    BY DEF Increasing
  <2>1. i + k < j + k /\ i + k \in 1..Len(s) /\ j + k \in 1..Len(s)
    BY <1>2, <1>3
  <2>2. s[i + k] < s[j + k]
    BY <2>1 DEF Increasing
  <2> QED BY <2>2, <1>3
<1> QED BY <1>2, <1>3, <1>4

LEMMA TailIsRest ==
    ASSUME NEW S, NEW s \in Seq(S), s # <<>>
    PROVE  Tail(s) = SubSeq(s, 1 + 1, Len(s)) /\ Head(s) = s[1] /\ 1 \in 1..Len(s)
<1>1. Len(s) \in Nat \ {0}
    BY EmptySeq
<1> QED BY <1>1, TailIsSubSeq
-----------------------------------------------------------------------------
(* The steps that touch the buffers and the batch                          *)

LEMMA CdcReceiveOrder ==
    ASSUME OrderInv, NEW c \in CdcCommand, NEW late \in BOOLEAN, CdcReceive(c, late)
    PROVE  OrderInv'
<1>s. SentInv /\ BufferInv /\ BatchInv /\ ExecutedInv
    BY DEF OrderInv
<1>f. CdcCommand \subseteq Nat /\ HidCommand \subseteq Nat /\ CdcCommand \intersect HidCommand = {}
    BY CommandFacts
<1>1. /\ Sends(c) /\ host' = host /\ hidQueue' = hidQueue /\ origin' = origin /\ batch' = batch
      /\ executed' = executed /\ pc' = pc
      /\ ring' \in {Append(ring, c), <<>>, Append(<<>>, c)}
    BY DEF CdcReceive, executor
<1>2. /\ SentInv' /\ sent' = sent \union {c} /\ c \in Nat
      /\ \A d \in sent \intersect CdcCommand : d < c
    BY <1>1, <1>s, <1>f, SendsLater DEF Own, Itf
<1>3. /\ Len(ring) \in Nat /\ \A i \in 1..Len(ring) : ring[i] \in CdcCommand /\ ring[i] < c
      /\ \A i \in 1..Len(ring) : ring[i] \in sent
    BY <1>2, <1>s, LenProperties, ElementOfSeq DEF BufferInv, Within
<1>4. /\ ring' \in Seq(CdcCommand) /\ Increasing(ring') /\ Len(ring') \in Nat
      /\ \A i \in 1..Len(ring') : (i \in 1..Len(ring) /\ ring'[i] = ring[i]) \/ ring'[i] = c
  <2>1. CASE ring' = Append(ring, c)
    <3>1. Increasing(ring')
        BY <2>1, <1>3, <1>s, <1>f, AppendLater DEF BufferInv
    <3>2. /\ ring' \in Seq(CdcCommand) /\ Len(ring') = Len(ring) + 1
          /\ \A i \in 1..Len(ring) : ring'[i] = ring[i]
          /\ ring'[Len(ring) + 1] = c
        BY <2>1, <1>s, AppendProperties DEF BufferInv
    <3> QED BY <3>1, <3>2, <1>3
  <2>2. CASE ring' = <<>>
    BY <2>2 DEF Increasing
  <2>3. CASE ring' = Append(<<>>, c)
    <3>1. <<>> \in Seq(CdcCommand) /\ Len(<<>>) = 0
        OBVIOUS
    <3>2. /\ ring' \in Seq(CdcCommand) /\ Len(ring') = 1 /\ ring'[1] = c
        BY <2>3, <3>1, AppendProperties
    <3> QED BY <3>2 DEF Increasing
  <2> QED BY <1>1, <2>1, <2>2, <2>3
<1>5. BufferInv'
    BY <1>1, <1>2, <1>3, <1>4, <1>s DEF BufferInv, Within
<1>6. \A j \in 1..Len(batch) : batch[j] \in sent /\ (origin = "cdc" => batch[j] < c)
    BY <1>2, <1>s, ElementOfSeq DEF BatchInv, Within, Own
<1>7. BatchInv'
  <2>1. Within(batch, sent') /\ Len(batch) \in Nat
    BY <1>2, <1>6, <1>s, LenProperties DEF Within, BatchInv
  <2>2. pc = "peeked" =>
            \A i \in 1..Len(ring'), j \in 1..Len(batch) : i > Len(batch) => batch[j] < ring'[i]
    BY <1>4, <1>6, <1>s DEF BatchInv
  <2>3. pc # "peeked" /\ origin = "cdc" => Before(batch, ring')
    BY <1>4, <1>6, <1>s DEF BatchInv, Before
  <2> QED BY <1>1, <2>1, <2>2, <2>3, <1>s DEF BatchInv
<1>8. ExecutedInv'
  <2>1. \A i \in 1..Len(executed) : executed[i] \in sent /\ (executed[i] \in CdcCommand => executed[i] < c)
    BY <1>2, <1>s DEF ExecutedInv, Within
  <2>2. \A i \in 1..Len(executed) : executed[i] \in CdcCommand =>
            \A j \in 1..Len(ring') : executed[i] < ring'[j]
    BY <1>4, <2>1, <1>s DEF ExecutedInv
  <2>3. Within(executed, sent')
    BY <1>2, <2>1 DEF Within
  <2>4. ExecutedOnce'
    BY <1>1, <1>s DEF ExecutedOnce, ExecutedInv
  <2> QED BY <1>1, <2>2, <2>3, <2>4, <1>s DEF ExecutedInv
<1> QED BY <1>2, <1>5, <1>7, <1>8 DEF OrderInv

LEMMA HidReceiveOrder ==
    ASSUME OrderInv, NEW c \in HidCommand, HidReceive(c)
    PROVE  OrderInv'
<1>s. SentInv /\ BufferInv /\ BatchInv /\ ExecutedInv
    BY DEF OrderInv
<1>f. CdcCommand \subseteq Nat /\ HidCommand \subseteq Nat /\ CdcCommand \intersect HidCommand = {}
    BY CommandFacts
<1>1. /\ Sends(c) /\ host' = host /\ ring' = ring /\ origin' = origin /\ batch' = batch
      /\ executed' = executed /\ pc' = pc /\ hidQueue' = Append(hidQueue, c)
    BY DEF HidReceive, executor
<1>2. /\ SentInv' /\ sent' = sent \union {c} /\ c \in Nat
      /\ \A d \in sent \intersect HidCommand : d < c
    BY <1>1, <1>s, <1>f, SendsLater DEF Own, Itf
<1>3. /\ Len(hidQueue) \in Nat
      /\ \A i \in 1..Len(hidQueue) : hidQueue[i] \in sent /\ hidQueue[i] < c
    BY <1>2, <1>s, LenProperties, ElementOfSeq DEF BufferInv, Within
<1>4. /\ hidQueue' \in Seq(HidCommand) /\ Increasing(hidQueue')
      /\ \A i \in 1..Len(hidQueue') :
            (i \in 1..Len(hidQueue) /\ hidQueue'[i] = hidQueue[i]) \/ hidQueue'[i] = c
  <2>1. Increasing(hidQueue')
    BY <1>1, <1>3, <1>s, <1>f, AppendLater DEF BufferInv
  <2>2. /\ hidQueue' \in Seq(HidCommand) /\ Len(hidQueue') = Len(hidQueue) + 1
        /\ \A i \in 1..Len(hidQueue) : hidQueue'[i] = hidQueue[i]
        /\ hidQueue'[Len(hidQueue) + 1] = c
    BY <1>1, <1>s, AppendProperties DEF BufferInv
  <2> QED BY <2>1, <2>2, <1>3
<1>5. BufferInv'
    BY <1>1, <1>2, <1>3, <1>4, <1>s DEF BufferInv, Within
<1>6. \A j \in 1..Len(batch) : batch[j] \in sent /\ (origin = "hid" => batch[j] < c)
    BY <1>2, <1>s, ElementOfSeq DEF BatchInv, Within, Own
<1>7. BatchInv'
  <2>1. Within(batch, sent')
    BY <1>2, <1>6 DEF Within
  <2>2. origin = "hid" => Before(batch, hidQueue')
    BY <1>4, <1>6, <1>s DEF BatchInv, Before
  <2> QED BY <1>1, <2>1, <2>2, <1>s DEF BatchInv
<1>8. ExecutedInv'
  <2>1. \A i \in 1..Len(executed) : executed[i] \in sent /\ (executed[i] \in HidCommand => executed[i] < c)
    BY <1>2, <1>s DEF ExecutedInv, Within
  <2>2. \A i \in 1..Len(executed) : executed[i] \in HidCommand =>
            \A j \in 1..Len(hidQueue') : executed[i] < hidQueue'[j]
    BY <1>4, <2>1, <1>s DEF ExecutedInv
  <2>3. Within(executed, sent')
    BY <1>2, <2>1 DEF Within
  <2>4. ExecutedOnce'
    BY <1>1, <1>s DEF ExecutedOnce, ExecutedInv
  <2> QED BY <1>1, <2>2, <2>3, <2>4, <1>s DEF ExecutedInv
<1> QED BY <1>2, <1>5, <1>7, <1>8 DEF OrderInv

LEMMA TakeOrder ==
    ASSUME OrderInv, Peek \/ MoveQueue
    PROVE  OrderInv'
<1>s. SentInv /\ BufferInv /\ BatchInv /\ ExecutedInv
    BY DEF OrderInv
<1>0. host' = host /\ sent' = sent /\ executed' = executed /\ ring' = ring /\ pc' \notin Doing
    BY DEF Peek, MoveQueue, Goes, environment, Doing
<1>1. SentInv' /\ ExecutedOnce'
    BY <1>0, <1>s DEF SentInv, ExecutedInv, ExecutedOnce
<1>2. CASE Peek
  <2>1. origin' = "cdc" /\ batch' = ring /\ hidQueue' = hidQueue /\ pc' = "peeked"
    BY <1>2 DEF Peek, Goes
  <2>2. BufferInv' /\ BatchInv'
    BY <1>0, <2>1, <1>s DEF BufferInv, BatchInv, Own, Itf, Within, Doing
  <2>3. ExecutedInv'
    BY <1>0, <1>1, <2>1, <1>s DEF ExecutedInv, Own, Within
  <2> QED BY <1>1, <2>2, <2>3 DEF OrderInv
<1>3. CASE MoveQueue
  <2>1. origin' = "hid" /\ batch' = hidQueue /\ hidQueue' = <<>> /\ pc' = "moved"
    BY <1>3 DEF MoveQueue, Goes
  <2>2. BufferInv'
    BY <1>0, <2>1, <1>s DEF BufferInv, Within, Increasing
  <2>3. BatchInv'
    BY <1>0, <2>1, <1>s DEF BufferInv, BatchInv, Own, Itf, Within, Before
  <2>4. ExecutedInv'
    BY <1>0, <1>1, <2>1, <1>s DEF ExecutedInv, Own, Within
  <2> QED BY <1>1, <2>2, <2>3, <2>4 DEF OrderInv
<1> QED BY <1>2, <1>3

\* What is discarded of the ring buffer is what was read, or comes before it.
LEMMA DiscardOrder ==
    ASSUME OrderInv, Discard \/ ClearQueue
    PROVE  OrderInv'
<1>s. SentInv /\ BufferInv /\ BatchInv /\ ExecutedInv
    BY DEF OrderInv
<1>f. CdcCommand \subseteq Nat
    BY CommandFacts
<1>0. /\ host' = host /\ sent' = sent /\ executed' = executed /\ pc' \notin Doing
      /\ origin' = origin /\ batch' = batch /\ pc \notin Doing /\ pc' # "peeked"
    BY DEF Discard, ClearQueue, Goes, environment, Doing
<1>1. SentInv' /\ ExecutedOnce'
    BY <1>0, <1>s DEF SentInv, ExecutedInv, ExecutedOnce
<1>2. CASE Discard
  <2>1. /\ ring' = SubSeq(ring, Len(batch) + 1, Len(ring)) /\ hidQueue' = hidQueue
        /\ pc = "peeked" /\ origin = "cdc"
    BY <1>2, <1>s DEF Discard, Goes, BatchInv
  <2>2. Len(batch) \in Nat /\ Len(ring) \in Nat
    BY <1>s, LenProperties DEF BatchInv, BufferInv
  <2>3. /\ ring' \in Seq(CdcCommand) /\ Increasing(ring')
        /\ \A i \in 1..Len(ring') :
                i + Len(batch) \in 1..Len(ring) /\ ring'[i] = ring[i + Len(batch)]
    BY <1>f, <1>s, <2>1, <2>2, RestKept DEF BufferInv
  <2>4. BufferInv'
    BY <1>0, <2>1, <2>3, <1>s DEF BufferInv, Within
  <2>5. Before(batch, ring')
    BY <2>1, <2>2, <2>3, <1>s DEF Before, BatchInv
  <2>6. BatchInv'
    BY <1>0, <2>1, <2>5, <1>s DEF BatchInv
  <2>7. ExecutedInv'
    BY <1>0, <1>1, <2>1, <2>3, <1>s DEF ExecutedInv
  <2> QED BY <1>1, <2>4, <2>6, <2>7 DEF OrderInv
<1>3. CASE ClearQueue
  <2>1. ring' = ring /\ hidQueue' = <<>> /\ pc # "peeked"
    BY <1>3 DEF ClearQueue, Goes
  <2>2. BufferInv'
    BY <1>0, <2>1, <1>s DEF BufferInv, Within, Increasing
  <2>3. BatchInv'
    BY <1>0, <2>1, <1>s DEF BatchInv, Before
  <2>4. ExecutedInv'
    BY <1>0, <1>1, <2>1, <1>s DEF ExecutedInv
  <2> QED BY <1>1, <2>2, <2>3, <2>4 DEF OrderInv
<1> QED BY <1>2, <1>3

LEMMA ExecuteOrder ==
    ASSUME OrderInv, Execute
    PROVE  OrderInv'
<1>s. SentInv /\ BufferInv /\ BatchInv /\ ExecutedInv
    BY DEF OrderInv
<1>f. /\ CdcCommand \subseteq Nat /\ HidCommand \subseteq Nat /\ CdcCommand \intersect HidCommand = {}
      /\ Command = CdcCommand \union HidCommand
    BY CommandFacts
<1>0. /\ host' = host /\ sent' = sent /\ ring' = ring /\ hidQueue' = hidQueue
      /\ origin' = origin /\ batch' = batch /\ batch # <<>> /\ pc = "next" /\ pc' = "toCdc"
      /\ executed' = Append(executed, Head(batch))
    BY DEF Execute, Goes, environment, input
<1>1. SentInv' /\ BufferInv'
    BY <1>0, <1>s DEF SentInv, BufferInv
<1>2. BatchInv'
    BY <1>0, <1>s DEF BatchInv
<1>3. PICK c \in Own(origin) : c = batch[1] /\ c = Head(batch) /\ 1 \in 1..Len(batch)
    BY <1>0, <1>s, TailIsRest, ElementOfSeq DEF BatchInv
<1>4. c \in Command /\ c \in sent /\ Len(executed) \in Nat /\ Len(batch) \in Nat
    BY <1>3, <1>f, <1>s, LenProperties DEF Own, BatchInv, ExecutedInv, Within
<1>5. /\ executed' \in Seq(Command) /\ Len(executed') = Len(executed) + 1
      /\ \A i \in 1..Len(executed) : executed'[i] = executed[i]
      /\ executed'[Len(executed) + 1] = c
    BY <1>0, <1>3, <1>4, <1>s, AppendProperties DEF ExecutedInv
<1>6. ExecutedOnce'
  <2>1. DOMAIN executed' = 1..Len(executed) + 1 /\ DOMAIN executed = 1..Len(executed)
    BY <1>5, <1>s, LenProperties DEF ExecutedInv
  <2>2. \A i \in 1..Len(executed) : executed[i] \in Own(origin) => executed[i] < c
    BY <1>0, <1>3, <1>s DEF ExecutedInv, Doing
  <2>3. \A i \in 1..Len(executed) : executed[i] \in Command
    BY <1>s, ElementOfSeq DEF ExecutedInv
  <2>4. \A i \in 1..Len(executed) :
            (executed[i] \in CdcCommand <=> c \in CdcCommand) => executed[i] < c
    BY <2>2, <2>3, <1>3, <1>f DEF Own
  <2> SUFFICES ASSUME NEW i \in 1..Len(executed) + 1, NEW j \in 1..Len(executed) + 1, i < j,
                      executed'[i] \in CdcCommand <=> executed'[j] \in CdcCommand
               PROVE  executed'[i] < executed'[j]
    BY <2>1, <1>f, <1>0 DEF ExecutedOnce, CdcCommand
  <2>5. CASE j \in 1..Len(executed)
    BY <2>1, <2>5, <1>4, <1>5, <1>s DEF ExecutedInv, ExecutedOnce
  <2>6. CASE j = Len(executed) + 1
    BY <2>4, <2>6, <1>4, <1>5
  <2> QED BY <2>5, <2>6
<1>7. \A i \in 1..Len(executed') : (i \in 1..Len(executed) /\ executed'[i] = executed[i]) \/ executed'[i] = c
    BY <1>4, <1>5
<1>8. ExecutedInv'
  <2>1. Within(executed', sent)
    BY <1>4, <1>7, <1>s DEF ExecutedInv, Within
  <2>2. \A i \in 1..Len(executed') :
            executed'[i] \in CdcCommand => \A j \in 1..Len(ring) : executed'[i] < ring[j]
    <3>1. c \in CdcCommand => \A j \in 1..Len(ring) : c < ring[j]
        BY <1>0, <1>3, <1>f, <1>s DEF BatchInv, Before, Own, Itf
    <3> QED BY <3>1, <1>7, <1>s DEF ExecutedInv
  <2>3. \A i \in 1..Len(executed') :
            executed'[i] \in HidCommand => \A j \in 1..Len(hidQueue) : executed'[i] < hidQueue[j]
    <3>1. c \in HidCommand => \A j \in 1..Len(hidQueue) : c < hidQueue[j]
        BY <1>0, <1>3, <1>f, <1>s DEF BatchInv, Before, Own, Itf
    <3> QED BY <3>1, <1>7, <1>s DEF ExecutedInv
  <2>4. \A i \in 1..Len(executed') : executed'[i] \in Own(origin) =>
                \A j \in 1..Len(batch) : j # 1 => executed'[i] < batch[j]
    <3>1. \A j \in 1..Len(batch) : j # 1 => c < batch[j]
        BY <1>3, <1>4, <1>s DEF BatchInv, Increasing
    <3>2. \A i \in 1..Len(executed) : executed[i] \in Own(origin) =>
                \A j \in 1..Len(batch) : j # 1 => executed[i] < batch[j]
        BY <1>s DEF ExecutedInv
    <3> QED BY <3>1, <3>2, <1>7
  <2> QED BY <1>0, <1>5, <1>6, <2>1, <2>2, <2>3, <2>4 DEF ExecutedInv, Doing
<1> QED BY <1>1, <1>2, <1>8 DEF OrderInv

LEMMA HandedOverOrder ==
    ASSUME OrderInv, HidSendReplies \/ HidTimeout
    PROVE  OrderInv'
<1>s. SentInv /\ BufferInv /\ BatchInv /\ ExecutedInv
    BY DEF OrderInv
<1>f. CdcCommand \subseteq Nat /\ HidCommand \subseteq Nat
    BY CommandFacts
<1>0. /\ host' = host /\ sent' = sent /\ ring' = ring /\ hidQueue' = hidQueue
      /\ origin' = origin /\ batch' = Tail(batch) /\ pc = "toHid" /\ pc' = "next"
      /\ executed' = executed
    BY DEF HidSendReplies, HidTimeout, Goes, environment, input
<1>1. SentInv' /\ BufferInv'
    BY <1>0, <1>s DEF SentInv, BufferInv
<1>2. batch # <<>> /\ batch' = SubSeq(batch, 1 + 1, Len(batch))
    BY <1>0, <1>s, TailIsRest DEF BatchInv, Doing
<1>3. Own(origin) \subseteq Nat
    BY <1>f DEF Own
<1>4. /\ batch' \in Seq(Own(origin)) /\ Increasing(batch')
      /\ \A i \in 1..Len(batch') : i + 1 \in 1..Len(batch) /\ batch'[i] = batch[i + 1]
    BY <1>2, <1>3, <1>s, RestKept DEF BatchInv
<1>5. BatchInv'
    BY <1>0, <1>4, <1>s DEF BatchInv, Within, Before, Doing
<1>6. ExecutedInv'
  <2>1. \A i \in 1..Len(executed) : executed[i] \in Own(origin) =>
                \A j \in 1..Len(batch') : executed[i] < batch'[j]
    <3> SUFFICES ASSUME NEW i \in 1..Len(executed), executed[i] \in Own(origin),
                        NEW j \in 1..Len(batch')
                 PROVE  executed[i] < batch'[j]
        OBVIOUS
    <3>1. j + 1 # 1 /\ j + 1 \in 1..Len(batch) /\ batch'[j] = batch[j + 1]
        BY <1>4
    <3> QED BY <3>1, <1>s DEF ExecutedInv
  <2> QED BY <1>0, <2>1, <1>s DEF ExecutedInv, ExecutedOnce
<1> QED BY <1>1, <1>5, <1>6 DEF OrderInv

\* Steps that leave the buffers, the batch and the history alone.
LEMMA OtherOrder ==
    ASSUME OrderInv, UNCHANGED <<host, sent, ring, hidQueue, origin, batch, executed>>,
           \/ pc' = pc
           \/ pc' \notin Doing /\ pc \notin Doing \union {"peeked"} /\ pc' # "peeked"
           \/ pc \in Doing /\ pc' \in Doing
    PROVE  OrderInv'
<1>s. SentInv /\ BufferInv /\ BatchInv /\ ExecutedInv
    BY DEF OrderInv
<1>1. SentInv' /\ BufferInv' /\ ExecutedOnce'
    BY <1>s DEF SentInv, BufferInv, ExecutedInv, ExecutedOnce
<1>2. BatchInv'
    BY <1>s DEF BatchInv, Doing
<1>3. ExecutedInv'
    BY <1>1, <1>s DEF ExecutedInv
<1> QED BY <1>1, <1>2, <1>3 DEF OrderInv

LEMMA InitOrder == Init => OrderInv
<1> SUFFICES ASSUME Init PROVE OrderInv
    OBVIOUS
<1>1. /\ host \in Hosts /\ sent = {} /\ ring = <<>> /\ hidQueue = <<>> /\ pc = "cdc"
      /\ origin = "cdc" /\ batch = <<>> /\ executed = <<>>
    BY DEF Init
<1>2. host.commands \subseteq Command
    BY <1>1, CommandAssumption DEF Host
<1> QED BY <1>1, <1>2 DEF OrderInv, SentInv, BufferInv, BatchInv, ExecutedInv, Within, Increasing,
        Before, ExecutedOnce, Doing, Itf

LEMMA NextOrder == OrderInv /\ [Next]_vars => OrderInv'
<1> SUFFICES ASSUME OrderInv, [Next]_vars PROVE OrderInv'
    OBVIOUS
<1>1. CASE \E c \in CdcCommand, late \in BOOLEAN : CdcReceive(c, late)
    BY <1>1, CdcReceiveOrder
<1>2. CASE \E c \in HidCommand : HidReceive(c)
    BY <1>2, HidReceiveOrder
<1>3. CASE Peek \/ MoveQueue
    BY <1>3, TakeOrder
<1>4. CASE Discard \/ ClearQueue
    BY <1>4, DiscardOrder
<1>5. CASE Execute
    BY <1>5, ExecuteOrder
<1>6. CASE HidSendReplies \/ HidTimeout
    BY <1>6, HandedOverOrder
<1>7. CASE Wake \/ SkipCdc \/ SkipHid \/ ResetReady \/ BatchDone
  <2>1. /\ UNCHANGED <<host, sent, ring, hidQueue, origin, batch, executed>>
        /\ pc' \notin Doing /\ pc \notin Doing \union {"peeked"} /\ pc' # "peeked"
    BY <1>7 DEF Wake, SkipCdc, SkipHid, ResetReady, BatchDone, Goes, environment, input, Doing
  <2> QED BY <2>1, OtherOrder
<1>8. CASE BeginInsert \/ EndInsert \/ CdcTimeout
  <2>1. /\ UNCHANGED <<host, sent, ring, hidQueue, origin, batch, executed>>
        /\ pc \in Doing /\ pc' \in Doing
    BY <1>8 DEF BeginInsert, EndInsert, CdcTimeout, Goes, environment, input, Doing
  <2> QED BY <2>1, OtherOrder
<1>9. CASE CdcCmd \/ HidCmd \/ Finished \/ TimePasses \/ UNCHANGED vars
  <2>1. UNCHANGED <<host, sent, ring, hidQueue, origin, batch, executed>> /\ pc' = pc
    BY <1>9 DEF CdcCmd, HidCmd, Format, Send, KeepRest, HidWake, HidIsReady, HidSend, HidDone,
        Finished, TimePasses, environment, input, executor, vars
  <2> QED BY <2>1, OtherOrder
<1> QED BY <1>1, <1>2, <1>3, <1>4, <1>5, <1>6, <1>7, <1>8, <1>9 DEF Next, CmdMain

LEMMA OrderInvariant == Spec => []OrderInv
<1> QED BY InitOrder, NextOrder, PTL DEF Spec

\* For any number of commands on both interfaces, any buffer and any host,
\* slow and eager ones included: no command is executed twice, and those of an
\* interface are executed in the order in which they were sent.  Commands are
\* lost when a full or late buffer is cleared, also between the reading and
\* the discarding of its contents; they are never repeated or swapped by that.
THEOREM CommandsExecutedOnce == Spec => []ExecutedOnce
<1>1. OrderInv => ExecutedOnce
    BY DEF OrderInv, ExecutedInv
<1> QED BY <1>1, OrderInvariant, PTL
-----------------------------------------------------------------------------
(* Replies in HID reports                                                  *)

\* What the HID interface holds are replies of different executed commands,
\* not yet of the one in work, and none that is sent is still to be sent.
ReplyInv ==
    /\ outBuffer \in Seq(Command) /\ hidReceived \in Seq(Command \union {Junk})
    /\ \A i, j \in 1..Len(outBuffer) : i # j => outBuffer[i] # outBuffer[j]
    /\ Within(outBuffer, ToSet(executed)) /\ Within(hidReceived, ToSet(executed) \union {Junk})
    /\ pc \in Doing => /\ batch[1] \in ToSet(executed)
                       /\ \A i \in 1..Len(outBuffer) : outBuffer[i] # batch[1]
                       /\ \A i \in 1..Len(hidReceived) : hidReceived[i] # batch[1]
    /\ HidRepliesOnce
    /\ next \in Nat \ {0} /\ last \in Nat
    /\ hidPc \in {"idle", "ready", "send"}
    /\ hidPc = "idle" => next = 1
    /\ hidPc # "idle" => last <= Len(outBuffer)
    /\ hidPc = "send" => next <= last
    /\ \A i \in 1..Len(hidReceived), j \in 1..Len(outBuffer) :
            j >= next => hidReceived[i] # outBuffer[j]

LEMMA ExecuteReply ==
    ASSUME OrderInv, ReplyInv, Execute
    PROVE  ReplyInv'
<1>s. BatchInv /\ ExecutedInv
    BY DEF OrderInv
<1>f. /\ CdcCommand \subseteq Nat \ {0} /\ HidCommand \subseteq Nat \ {0}
      /\ CdcCommand \intersect HidCommand = {} /\ Command = CdcCommand \union HidCommand
    BY CommandFacts
<1>0. /\ UNCHANGED <<outBuffer, hidReceived, hidPc, next, last, batch>>
      /\ batch # <<>> /\ pc = "next" /\ executed' = Append(executed, Head(batch))
    BY DEF Execute, Goes, hidOut
<1>1. PICK c \in Own(origin) : c = batch[1] /\ c = Head(batch) /\ 1 \in 1..Len(batch)
    BY <1>0, <1>s, TailIsRest, ElementOfSeq DEF BatchInv
<1>2. c \in Command /\ c # Junk /\ Len(executed) \in Nat /\ DOMAIN executed = 1..Len(executed)
    BY <1>1, <1>f, <1>s, LenProperties DEF Own, ExecutedInv
<1>3. /\ executed' \in Seq(Command) /\ Len(executed') = Len(executed) + 1
      /\ \A i \in 1..Len(executed) : executed'[i] = executed[i]
      /\ executed'[Len(executed) + 1] = c
    BY <1>0, <1>1, <1>2, <1>s, AppendProperties DEF ExecutedInv
<1>4. DOMAIN executed' = 1..Len(executed) + 1
    BY <1>3, LenProperties
<1>5. ToSet(executed) \subseteq ToSet(executed') /\ c \in ToSet(executed')
    BY <1>2, <1>3, <1>4 DEF ToSet
<1>6. c \notin ToSet(executed)
  <2> SUFFICES ASSUME NEW i \in 1..Len(executed), executed[i] = c PROVE FALSE
    BY <1>2 DEF ToSet
  <2>1. executed[i] < batch[1]
    BY <1>0, <1>1, <1>s DEF ExecutedInv, Doing
  <2>2. c \in Nat /\ c < c
    BY <2>1, <1>1, <1>2, <1>f
  <2> QED BY <2>2
<1>7. /\ \A i \in 1..Len(outBuffer) : outBuffer[i] # c
      /\ \A i \in 1..Len(hidReceived) : hidReceived[i] # c
    BY <1>2, <1>6 DEF ReplyInv, Within
<1>8. HidRepliesOnce'
    BY <1>0 DEF ReplyInv, HidRepliesOnce
<1> QED BY <1>0, <1>1, <1>5, <1>7, <1>8 DEF ReplyInv, Within

LEMMA HandedOverReply ==
    ASSUME OrderInv, ReplyInv, HidSendReplies \/ HidTimeout
    PROVE  ReplyInv'
<1>s. BatchInv /\ ExecutedInv
    BY DEF OrderInv
<1>f. Command = CdcCommand \union HidCommand
    BY CommandFacts
<1>0. /\ UNCHANGED <<hidReceived, hidPc, next, last, executed>>
      /\ pc = "toHid" /\ pc' = "next"
      /\ outBuffer' \in {outBuffer, Append(outBuffer, Head(batch))}
    BY DEF HidSendReplies, HidTimeout, HidReplies, Goes, hidOut, executor
<1>1. PICK c \in Command : c = batch[1] /\ c = Head(batch)
  <2>1. batch # <<>>
    BY <1>0, <1>s DEF BatchInv, Doing
  <2> QED BY <2>1, <1>f, <1>s, TailIsRest, ElementOfSeq DEF BatchInv, Own
<1>2. /\ c \in ToSet(executed)
      /\ \A i \in 1..Len(outBuffer) : outBuffer[i] # c
      /\ \A i \in 1..Len(hidReceived) : hidReceived[i] # c
    BY <1>0, <1>1 DEF ReplyInv, Doing
<1>3. HidRepliesOnce'
    BY <1>0 DEF ReplyInv, HidRepliesOnce
<1>4. CASE outBuffer' = outBuffer
    BY <1>0, <1>3, <1>4 DEF ReplyInv, Doing
<1>5. CASE outBuffer' = Append(outBuffer, c)
  <2>1. /\ outBuffer' \in Seq(Command) /\ Len(outBuffer') = Len(outBuffer) + 1
        /\ \A i \in 1..Len(outBuffer) : outBuffer'[i] = outBuffer[i]
        /\ outBuffer'[Len(outBuffer) + 1] = c
        /\ Len(outBuffer) \in Nat
    BY <1>5, AppendProperties, LenProperties DEF ReplyInv
  <2>2. \A i, j \in 1..Len(outBuffer') : i # j => outBuffer'[i] # outBuffer'[j]
    BY <2>1, <1>2 DEF ReplyInv
  <2>3. Within(outBuffer', ToSet(executed))
    BY <2>1, <1>2 DEF ReplyInv, Within
  <2>4. \A i \in 1..Len(hidReceived), j \in 1..Len(outBuffer') :
            j >= next => hidReceived[i] # outBuffer'[j]
    BY <2>1, <1>2 DEF ReplyInv
  <2> QED BY <1>0, <1>3, <2>1, <2>2, <2>3, <2>4 DEF ReplyInv, Doing
<1> QED BY <1>0, <1>1, <1>4, <1>5

LEMMA HidSendReply ==
    ASSUME OrderInv, ReplyInv, HidSend
    PROVE  ReplyInv'
<1>0. /\ UNCHANGED <<outBuffer, last, executed, batch, pc>>
      /\ hidPc = "send" /\ hidPc' = "ready" /\ next' = next + 1
    BY DEF HidSend, executor
<1>1. PICK c \in {outBuffer[next], Junk} : hidReceived' \in {hidReceived, Append(hidReceived, c)}
    BY DEF HidSend
<1>2. /\ next \in 1..Len(outBuffer) /\ Len(outBuffer) \in Nat /\ Len(hidReceived) \in Nat
      /\ DOMAIN hidReceived = 1..Len(hidReceived)
    BY <1>0, LenProperties DEF ReplyInv
<1>3. CASE hidReceived' = hidReceived
  <2>1. HidRepliesOnce'
    BY <1>3 DEF ReplyInv, HidRepliesOnce
  <2> QED BY <1>0, <1>2, <1>3, <2>1 DEF ReplyInv
<1>4. CASE hidReceived' = Append(hidReceived, c)
  <2>1. outBuffer[next] \in Command /\ outBuffer[next] \in ToSet(executed)
    BY <1>2, ElementOfSeq DEF ReplyInv, Within
  <2>2. outBuffer[next] # Junk
    BY <2>1, CommandFacts
  <2>3. /\ hidReceived' \in Seq(Command \union {Junk}) /\ Len(hidReceived') = Len(hidReceived) + 1
        /\ \A i \in 1..Len(hidReceived) : hidReceived'[i] = hidReceived[i]
        /\ hidReceived'[Len(hidReceived) + 1] = c
    BY <1>4, <2>1, AppendProperties DEF ReplyInv
  <2>4. DOMAIN hidReceived' = 1..Len(hidReceived) + 1
    BY <2>3, LenProperties
  <2>5. \A i \in 1..Len(hidReceived) : hidReceived[i] # outBuffer[next]
    BY <1>2 DEF ReplyInv
  <2>6. HidRepliesOnce'
    <3> SUFFICES ASSUME NEW i \in 1..Len(hidReceived) + 1, NEW j \in 1..Len(hidReceived) + 1,
                        i < j, hidReceived'[i] # Junk
                 PROVE  hidReceived'[i] # hidReceived'[j]
        BY <2>4 DEF HidRepliesOnce
    <3>1. CASE j \in 1..Len(hidReceived)
      <4>1. /\ i \in DOMAIN hidReceived /\ j \in DOMAIN hidReceived
            /\ hidReceived'[i] = hidReceived[i] /\ hidReceived'[j] = hidReceived[j]
        BY <3>1, <1>2, <2>3
      <4>2. HidRepliesOnce
        BY DEF ReplyInv
      <4> QED BY <4>1, <4>2 DEF HidRepliesOnce
    <3>2. CASE j = Len(hidReceived) + 1
      <4>1. i \in 1..Len(hidReceived) /\ hidReceived'[j] = c /\ hidReceived'[i] = hidReceived[i]
        BY <3>2, <1>2, <2>3
      <4> QED BY <4>1, <1>1, <2>5
    <3> QED BY <3>1, <3>2
  <2>7. Within(hidReceived', ToSet(executed) \union {Junk})
    BY <1>1, <1>2, <2>1, <2>3 DEF ReplyInv, Within
  <2>8. pc \in Doing => \A i \in 1..Len(hidReceived') : hidReceived'[i] # batch[1]
    <3> SUFFICES ASSUME pc \in Doing PROVE c # batch[1]
        BY <1>2, <2>3 DEF ReplyInv
    <3>1. batch[1] \in ToSet(executed) /\ outBuffer[next] # batch[1]
        BY <1>2 DEF ReplyInv
    <3>2. batch[1] \in Command
        BY <3>1, LenProperties, ElementOfSeq DEF OrderInv, ExecutedInv, ToSet
    <3>3. batch[1] # Junk
        BY <3>2, CommandFacts
    <3> QED BY <1>1, <3>1, <3>3
  <2>9. \A i \in 1..Len(hidReceived'), j \in 1..Len(outBuffer) :
            j >= next + 1 => hidReceived'[i] # outBuffer[j]
    <3>1. \A j \in 1..Len(outBuffer) : j >= next + 1 => outBuffer[j] # c
        BY <1>1, <1>2, <2>2, CommandFacts, ElementOfSeq DEF ReplyInv
    <3> QED BY <3>1, <1>2, <2>3 DEF ReplyInv
  <2> QED BY <1>0, <1>2, <2>3, <2>6, <2>7, <2>8, <2>9 DEF ReplyInv
<1> QED BY <1>1, <1>3, <1>4

LEMMA OtherReply ==
    ASSUME ReplyInv, UNCHANGED <<outBuffer, hidReceived, hidPc, next, last, executed>>,
           \/ pc' \notin Doing
           \/ (pc \in Doing <=> pc' \in Doing) /\ batch' = batch
    PROVE  ReplyInv'
<1>1. HidRepliesOnce'
    BY DEF ReplyInv, HidRepliesOnce
<1> QED BY <1>1 DEF ReplyInv

LEMMA NextReply == OrderInv /\ ReplyInv /\ [Next]_vars => ReplyInv'
<1> SUFFICES ASSUME OrderInv, ReplyInv, [Next]_vars PROVE ReplyInv'
    OBVIOUS
<1>1. CASE Execute
    BY <1>1, ExecuteReply
<1>2. CASE HidSendReplies \/ HidTimeout
    BY <1>2, HandedOverReply
<1>3. CASE HidSend
    BY <1>3, HidSendReply
<1>4. CASE HidWake \/ HidIsReady \/ HidDone
  <2>1. UNCHANGED <<hidReceived, executed, batch, pc>>
    BY <1>4 DEF HidWake, HidIsReady, HidDone, executor
  <2>2. HidRepliesOnce'
    BY <2>1 DEF ReplyInv, HidRepliesOnce
  <2>3. Len(outBuffer) \in Nat
    BY LenProperties DEF ReplyInv
  <2>4. CASE HidWake
    BY <2>1, <2>2, <2>3, <2>4 DEF HidWake, ReplyInv
  <2>5. CASE HidIsReady
    BY <2>1, <2>2, <2>3, <2>5 DEF HidIsReady, ReplyInv
  <2>6. CASE HidDone
    BY <2>1, <2>2, <2>3, <2>6 DEF HidDone, ReplyInv, Within
  <2> QED BY <1>4, <2>4, <2>5, <2>6
<1>5. CASE \/ \E c \in CdcCommand, late \in BOOLEAN : CdcReceive(c, late)
           \/ \E c \in HidCommand : HidReceive(c)
           \/ CdcCmd \/ Finished \/ TimePasses \/ UNCHANGED vars
  <2>1. UNCHANGED <<outBuffer, hidReceived, hidPc, next, last, executed, batch, pc>>
    BY <1>5 DEF CdcReceive, HidReceive, CdcCmd, Format, Send, KeepRest, Finished, TimePasses,
        vars, executor, hidOut
  <2> QED BY <2>1, OtherReply
<1>6. CASE \/ Wake \/ SkipCdc \/ Peek \/ Discard \/ SkipHid \/ MoveQueue \/ ClearQueue \/ ResetReady
           \/ BatchDone
  <2>1. UNCHANGED <<outBuffer, hidReceived, hidPc, next, last, executed>> /\ pc' \notin Doing
    BY <1>6 DEF Wake, SkipCdc, Peek, Discard, SkipHid, MoveQueue, ClearQueue, ResetReady,
        BatchDone, hidOut, Goes, Doing
  <2> QED BY <2>1, OtherReply
<1>7. CASE BeginInsert \/ EndInsert \/ CdcTimeout
  <2>1. /\ UNCHANGED <<outBuffer, hidReceived, hidPc, next, last, executed, batch>>
        /\ pc \in Doing /\ pc' \in Doing
    BY <1>7 DEF BeginInsert, EndInsert, CdcTimeout, hidOut, Goes, Doing
  <2> QED BY <2>1, OtherReply
<1> QED BY <1>1, <1>2, <1>3, <1>4, <1>5, <1>6, <1>7 DEF Next, CmdMain, HidCmd

LEMMA InitReply == Init => ReplyInv
<1> SUFFICES ASSUME Init PROVE ReplyInv
    OBVIOUS
<1>1. outBuffer = <<>> /\ hidReceived = <<>> /\ hidPc = "idle" /\ next = 1 /\ last = 0 /\ pc = "cdc"
    BY DEF Init
<1> QED BY <1>1 DEF ReplyInv, Within, HidRepliesOnce, Doing

\* For any number of commands, any limit of the HID queue and any host: no
\* reply is sent twice in HID reports, although replies are appended while
\* HIDCMD sends and the list is cleared only when it is through.  (They may be
\* lost by that, or read from an array that has moved.)
THEOREM HidRepliesSentOnce == Spec => []HidRepliesOnce
<1>1. ReplyInv => HidRepliesOnce
    BY DEF ReplyInv
<1> QED BY <1>1, InitReply, NextReply, OrderInvariant, PTL DEF Spec
-----------------------------------------------------------------------------
(* Type correctness                                                        *)

Unit == Command \union {Junk}

\* What the two invariants say of the types.
OrderTypes ==
    /\ sent \subseteq Command /\ {ring, hidQueue, batch, executed, hidReceived, outBuffer} \subseteq Seq(Unit)
    /\ ring \in Seq(Command) /\ batch \in Seq(Command)
    /\ origin \in Itf /\ hidPc \in {"idle", "ready", "send"} /\ {next, last} \subseteq Nat
    /\ pc \in Doing => Head(batch) \in Command

LEMMA OrderGivesTypes == OrderInv /\ ReplyInv => OrderTypes
<1> SUFFICES ASSUME OrderInv, ReplyInv PROVE OrderTypes
    OBVIOUS
<1>1. SentInv /\ BufferInv /\ BatchInv /\ ExecutedInv
    BY DEF OrderInv
<1>2. /\ Own(origin) \subseteq Command /\ CdcCommand \subseteq Command
      /\ HidCommand \subseteq Command /\ Command \subseteq Unit
    BY CommandFacts DEF Own, Unit
<1>3. ring \in Seq(Command) /\ hidQueue \in Seq(Command) /\ batch \in Seq(Command)
    BY <1>1, <1>2, SeqMonotonic DEF BufferInv, BatchInv
<1>4. {ring, hidQueue, batch, executed, hidReceived, outBuffer} \subseteq Seq(Unit)
    BY <1>1, <1>2, <1>3, SeqMonotonic DEF ExecutedInv, ReplyInv, Unit
<1>5. pc \in Doing => Head(batch) \in Command
    BY <1>1, <1>3, HeadTailProperties DEF BatchInv
<1> QED BY <1>1, <1>3, <1>4, <1>5 DEF OrderTypes, SentInv, BatchInv, ReplyInv

LEMMA OrderKeepsTypes == OrderInv' /\ ReplyInv' => OrderTypes'
BY OrderGivesTypes, PTL

LEMMA UnitsType ==
    ASSUME NEW c \in Unit
    PROVE  Units(c) \in Seq(Unit) /\ Len(Units(c)) \in Nat
<1> DEFINE n == IF c \in host.long THEN FifoSize + 1 ELSE 1
<1>1. n \in Nat /\ Units(c) = [i \in 1..n |-> c]
    BY CommandAssumption DEF Units
<1>2. Units(c) \in [1..n -> Unit]
    BY <1>1
<1>3. Units(c) \in Seq(Unit)
    BY <1>1, <1>2, SeqDef
<1> QED BY <1>3, LenProperties

\* What CDCCMD makes of the results is a sequence of units.
LEMMA TextType ==
    ASSUME NEW cs \in Seq(Unit), NEW asRead
    PROVE  AllUnits(Formatted(cs, asRead)) \in Seq(Unit)
<1>1. Len(cs) \in Nat /\ DOMAIN cs = 1..Len(cs) /\ \A i \in 1..Len(cs) : cs[i] \in Unit
    BY LenProperties, ElementOfSeq
<1>2. Formatted(cs, asRead) \in Seq(Unit)
  <2> DEFINE stop == {i \in DOMAIN cs : asRead /\ cs[i] \notin SetCommands}
             k == CHOOSE i \in stop : \A j \in stop : i <= j
  <2>1. CASE stop = {}
    BY <2>1 DEF Formatted
  <2>2. CASE stop # {}
    <3>1. stop \subseteq Nat /\ stop \subseteq 1..Len(cs)
        BY <1>1
    <3>2. \E i \in stop : \A j \in stop : i <= j
        BY <2>2, <3>1, LeastExists
    <3>3. k \in 1..Len(cs)
        BY <3>1, <3>2
    <3>4. Formatted(cs, asRead) = SubSeq(cs, 1, k - 1)
        BY <2>2 DEF Formatted
    <3> HIDE DEF k, stop
    <3>5. k - 1 \in Int /\ \A i \in 1..k - 1 : cs[i] \in Unit
        BY <1>1, <3>3
    <3> QED BY <3>4, <3>5, SubSeqProperties
  <2> QED BY <2>1, <2>2
<1> DEFINE fs == Formatted(cs, asRead)
           us == [i \in DOMAIN fs |-> Units(fs[i])]
<1>3. us \in Seq(Seq(Unit))
  <2>1. Len(fs) \in Nat /\ DOMAIN fs = 1..Len(fs) /\ \A i \in 1..Len(fs) : fs[i] \in Unit
    <3> HIDE DEF fs
    <3> QED BY <1>2, LenProperties, ElementOfSeq DEF fs
  <2>2. \A i \in 1..Len(fs) : Units(fs[i]) \in Seq(Unit)
    BY <2>1, UnitsType
  <2>3. us \in [1..Len(fs) -> Seq(Unit)]
    <3> HIDE DEF fs
    <3> QED BY <2>1, <2>2
  <2> HIDE DEF us, fs
  <2> QED BY <2>1, <2>3, SeqDef
<1>4. FlattenSeq(us) \in Seq(Unit)
  <2> HIDE DEF us
  <2> QED BY <1>3, FlattenType
<1> QED BY <1>4 DEF AllUnits

\* What fits is put into the FIFO, the rest is kept.
LEMMA FitsType ==
    ASSUME NEW q \in Seq(Unit), fifo \in Seq(Unit), Len(fifo) <= FifoSize
    PROVE  /\ fifo \o Fits(q) \in Seq(Unit) /\ Len(fifo \o Fits(q)) <= FifoSize
           /\ Left(q) \in Seq(Unit)
<1> DEFINE k == Min({Len(q), FifoSize - Len(fifo)})
<1>1. /\ Len(q) \in Nat /\ Len(fifo) \in Nat /\ FifoSize \in Nat
      /\ \A i \in 1..Len(q) : q[i] \in Unit
    BY LenProperties, ElementOfSeq, CommandAssumption
<1>2. k \in 0..Len(q) /\ k <= FifoSize - Len(fifo)
  <2>1. \E x \in {Len(q), FifoSize - Len(fifo)} : \A y \in {Len(q), FifoSize - Len(fifo)} : x <= y
    BY <1>1
  <2>2. /\ k \in {Len(q), FifoSize - Len(fifo)} /\ k <= Len(q)
        /\ k <= FifoSize - Len(fifo)
    BY <2>1 DEF Min
  <2> QED BY <1>1, <2>2
<1>3. Fits(q) = SubSeq(q, 1, k)
    BY DEF Fits
<1> HIDE DEF k
<1>4. Fits(q) \in Seq(Unit) /\ Len(Fits(q)) <= k
  <2>1. \A i \in 1..k : q[i] \in Unit
    BY <1>1, <1>2
  <2>2. SubSeq(q, 1, k) \in Seq(Unit) /\ Len(SubSeq(q, 1, k)) = IF 1 <= k THEN k - 1 + 1 ELSE 0
    BY <1>2, <2>1, SubSeqProperties
  <2> QED BY <1>2, <1>3, <2>2
<1>5. fifo \o Fits(q) \in Seq(Unit) /\ Len(fifo \o Fits(q)) = Len(fifo) + Len(Fits(q))
    BY <1>4, ConcatProperties
<1>6. Left(q) \in Seq(Unit)
  <2>1. \A i \in FifoSize - Len(fifo) + 1 .. Len(q) : q[i] \in Unit
    BY <1>1
  <2> QED BY <1>1, <2>1, SubSeqProperties DEF Left
<1>7. Len(Fits(q)) \in Nat
    BY <1>4, LenProperties
<1> QED BY <1>1, <1>2, <1>4, <1>5, <1>6, <1>7

LEMMA TransmitType ==
    ASSUME NEW data \in Seq(Unit), Len(data) <= FifoSize, NEW running \in Seq(Unit),
           Len(running) <= 1, Transmit(data, running)
    PROVE  /\ fifo' \in Seq(Unit) /\ Len(fifo') <= FifoSize
           /\ wire' \in Seq(Unit) /\ Len(wire') <= 1
<1>1. CASE running = <<>> /\ data # <<>>
  <2>1. wire' = <<Head(data)>> /\ fifo' = Tail(data)
    BY <1>1 DEF Transmit
  <2>2. /\ Head(data) \in Unit /\ Tail(data) \in Seq(Unit) /\ Len(Tail(data)) = Len(data) - 1
        /\ Len(data) \in Nat /\ FifoSize \in Nat
    BY <1>1, HeadTailProperties, LenProperties, CommandAssumption
  <2> QED BY <2>1, <2>2
<1>2. CASE ~(running = <<>> /\ data # <<>>)
    BY <1>2 DEF Transmit
<1> QED BY <1>1, <1>2

\* The rest of TypeOK: the collected results and the way to the terminal.
FlowTypes ==
    /\ over \subseteq Command
    /\ {results, snapshot, sendBuffer, rest, fifo, wire, received, answered} \subseteq Seq(Unit)
    /\ Len(ring) < host.ring /\ Len(fifo) <= FifoSize /\ Len(wire) <= 1
    /\ parserReady \in [Itf -> BOOLEAN]
    /\ {cmdNotified, nextFormat, stale, cdcNotified, sem, retry, hidNotified} \subseteq BOOLEAN
    /\ pc \in Places /\ cdcPc \in {"idle", "take", "rest"} /\ bufferLength \in Nat

LEMMA TypesTogether == host \in Hosts /\ OrderTypes /\ FlowTypes => TypeOK
BY DEF OrderTypes, FlowTypes, TypeOK, Unit

LEMMA SetOfSeq ==
    ASSUME NEW S, NEW s \in Seq(S)
    PROVE  ToSet(s) \subseteq S
BY LenProperties, ElementOfSeq DEF ToSet

\* The buffers of the commands.
LEMMA BufferTypes ==
    ASSUME host \in Hosts, OrderTypes, FlowTypes,
           \/ \E c \in CdcCommand, late \in BOOLEAN : CdcReceive(c, late)
           \/ \E c \in HidCommand : HidReceive(c)
           \/ Discard
    PROVE  FlowTypes'
<1>1. /\ ToSet(ring) \subseteq Command /\ CdcCommand \subseteq Command
      /\ host.ring \in Nat \ {0} /\ Len(ring) \in Nat /\ ring \in Seq(Command)
      /\ batch \in Seq(Command) /\ Len(batch) \in Nat
    BY SetOfSeq, LenProperties, CommandFacts, CommandAssumption DEF OrderTypes, Host
<1>2. CASE \E c \in CdcCommand, late \in BOOLEAN : CdcReceive(c, late)
  <2>1. PICK c \in CdcCommand, late \in BOOLEAN : CdcReceive(c, late)
    BY <1>2
  <2>2. /\ UNCHANGED <<host, executor, replies, sender, transport, hidOut>>
        /\ over' \subseteq over \union ToSet(ring) \union {c}
        /\ parserReady' \in {parserReady, [parserReady EXCEPT !["cdc"] = TRUE]}
        /\ cmdNotified' \in {cmdNotified, TRUE}
    BY <2>1 DEF CdcReceive, FlowTypes, Itf
  <2>3. Len(ring') < host.ring
    <3>1. <<>> \in Seq(Command) /\ Len(<<>>) = 0
        OBVIOUS
    <3>2. PICK old \in Seq(Command) : ring' = IF host.ring - Len(old) > 1 THEN Append(old, c) ELSE <<>>
        BY <1>1, <2>1, <3>1 DEF CdcReceive, Room
    <3>3. Len(old) \in Nat /\ Len(Append(old, c)) = Len(old) + 1
        BY <1>1, LenProperties, AppendProperties
    <3> QED BY <1>1, <3>1, <3>2, <3>3
  <2> QED BY <1>1, <2>2, <2>3 DEF FlowTypes, executor, replies, sender, transport, hidOut, Itf
<1>3. CASE \E c \in HidCommand : HidReceive(c)
    BY <1>3 DEF HidReceive, FlowTypes, executor, replies, sender, transport, hidOut, Itf
<1>4. CASE Discard
  <2>1. /\ UNCHANGED <<host, parserReady, cmdNotified, replies, sender, transport, hidOut>>
        /\ over' \subseteq over \union ToSet(ring) /\ pc' = "next"
        /\ ring' = SubSeq(ring, Len(batch) + 1, Len(ring))
    BY <1>4 DEF Discard, Goes
  <2>2. Len(ring') < host.ring
    <3>1. \A i \in Len(batch) + 1 .. Len(ring) : ring[i] \in Command
        BY <1>1, ElementOfSeq
    <3>2. Len(ring') = IF Len(batch) + 1 <= Len(ring) THEN Len(ring) - (Len(batch) + 1) + 1 ELSE 0
        BY <1>1, <2>1, <3>1, SubSeqProperties
    <3> QED BY <1>1, <3>2 DEF FlowTypes
  <2> QED BY <1>1, <2>1, <2>2 DEF FlowTypes, replies, sender, transport, hidOut, Places
<1> QED BY <1>2, <1>3, <1>4

\* The results offered to the interfaces.
LEMMA ResultTypes ==
    ASSUME OrderTypes, FlowTypes, BeginInsert \/ EndInsert \/ CdcTimeout \/ HidSendReplies \/ HidTimeout
    PROVE  FlowTypes'
<1> DEFINE c == Head(batch)
<1>1. c \in Command /\ c \in Unit
    BY DEF OrderTypes, BeginInsert, EndInsert, CdcTimeout, HidSendReplies, HidTimeout, Goes, Doing,
        Unit
<1> HIDE DEF c
<1>2. /\ ToSet(results) \subseteq Unit /\ results \in Seq(Unit) /\ snapshot \in Seq(Unit)
      /\ Append(results, c) \in Seq(Unit) /\ Append(snapshot, c) \in Seq(Unit)
      /\ <<Junk>> \in Seq(Unit) /\ <<>> \in Seq(Unit)
  <2>1. results \in Seq(Unit) /\ snapshot \in Seq(Unit)
    BY DEF FlowTypes
  <2>2. Junk \in Unit
    BY DEF Unit
  <2>3. <<Junk>> \in Seq(Unit)
    BY <2>2
  <2> QED BY <1>1, <2>1, <2>3, SetOfSeq, AppendProperties
<1>3. CASE BeginInsert
  <2>1. /\ UNCHANGED <<host, sent, input, origin, batch, executed, nextFormat, stale, sender,
                       transport, hidOut>>
        /\ results' \in {results, <<>>} /\ snapshot' = results' /\ pc' = "insert"
        /\ over' \subseteq over \union (ToSet(results) \ {Junk})
        /\ bufferLength' \in {0 + Len(Units(c)), bufferLength + Len(Units(c))}
    BY <1>3 DEF BeginInsert, Goes, c
  <2>2. Len(Units(c)) \in Nat
    BY <1>1, UnitsType
  <2>3. over' \subseteq Command /\ {results', snapshot'} \subseteq Seq(Unit) /\ pc' \in Places
    BY <1>2, <2>1 DEF FlowTypes, Places, Unit
  <2>4. bufferLength' \in Nat
    BY <2>1, <2>2 DEF FlowTypes
  <2> QED BY <2>1, <2>3, <2>4 DEF FlowTypes, input, sender, transport, hidOut
<1>4. CASE EndInsert
  <2>1. /\ UNCHANGED <<environment, input, origin, batch, executed, bufferLength,
                   cdcPc, sendBuffer, transport, hidOut>>
        /\ results' \in {Append(results, c), Append(snapshot, c), <<Junk>>} /\ snapshot' = <<>>
        /\ nextFormat' \in BOOLEAN /\ stale' = FALSE /\ pc' = "toHid"
        /\ cdcNotified' \in BOOLEAN
    BY <1>4 DEF EndInsert, Goes, c, FlowTypes
  <2> QED BY <1>2, <2>1 DEF FlowTypes, environment, input, transport, hidOut, Places
<1>5. CASE CdcTimeout
  <2>1. over' = over \union {c} /\ pc' = "toHid"
    BY <1>5 DEF CdcTimeout, Goes, c
  <2> QED BY <1>1, <1>5, <2>1 DEF CdcTimeout, FlowTypes, input, replies, sender, transport, hidOut, Places
<1>6. CASE HidSendReplies \/ HidTimeout
  <2>1. pc' = "next" /\ hidNotified' \in BOOLEAN
    BY <1>6 DEF HidSendReplies, HidTimeout, Goes, hidOut, FlowTypes
  <2> QED BY <1>6, <2>1 DEF HidSendReplies, HidTimeout, FlowTypes, environment, input, replies, sender,
        transport, hidOut, Places
<1> QED BY <1>3, <1>4, <1>5, <1>6

\* The way to the terminal: the sender and the transport.
LEMMA SenderTypes ==
    ASSUME OrderTypes, FlowTypes, Format \/ Send \/ KeepRest
    PROVE  FlowTypes'
<1>1. /\ {results, sendBuffer, fifo, wire, rest} \subseteq Seq(Unit) /\ <<>> \in Seq(Unit)
      /\ Len(fifo) <= FifoSize /\ Len(wire) <= 1
    BY DEF FlowTypes
<1>2. CASE Format
  <2> DEFINE text == AllUnits(Formatted(results, nextFormat))
  <2>1. text \in Seq(Unit)
    BY <1>1, TextType
  <2> HIDE DEF text
  <2>2. /\ UNCHANGED <<host, sent, input, executor, snapshot, nextFormat, stale, transport, hidOut>>
        /\ cdcNotified' = FALSE /\ sendBuffer' = text /\ results' = <<>> /\ bufferLength' = 0
        /\ over' = over \union ((ToSet(results) \intersect HidCommand) \ ToSet(text))
        /\ cdcPc' \in {"idle", "take"}
    BY <1>2 DEF Format, text
  <2>3. over' \subseteq Command
    BY <2>2, CommandFacts DEF FlowTypes
  <2> QED BY <1>1, <2>1, <2>2, <2>3 DEF FlowTypes, input, executor, transport, hidOut
<1>3. CASE Send
  <2>1. Transmit(fifo \o Fits(sendBuffer), wire)
    BY <1>3 DEF Send
  <2>2. /\ fifo \o Fits(sendBuffer) \in Seq(Unit) /\ Len(fifo \o Fits(sendBuffer)) <= FifoSize
        /\ Left(sendBuffer) \in Seq(Unit)
    BY <1>1, FitsType
  <2>3. /\ fifo' \in Seq(Unit) /\ Len(fifo') <= FifoSize
        /\ wire' \in Seq(Unit) /\ Len(wire') <= 1
    BY <1>1, <2>1, <2>2, TransmitType
  <2>4. /\ UNCHANGED <<environment, input, executor, replies, cdcNotified, rest, retry, received,
                       answered, hidOut>>
        /\ sem' = FALSE /\ sendBuffer' = Left(sendBuffer) /\ cdcPc' = "rest"
    BY <1>3 DEF Send
  <2> QED BY <2>2, <2>3, <2>4 DEF FlowTypes, environment, input, executor, replies, hidOut
<1>4. CASE KeepRest
    BY <1>1, <1>4 DEF KeepRest, FlowTypes, environment, input, executor, replies, hidOut
<1> QED BY <1>2, <1>3, <1>4

LEMMA FinishedTypes ==
    ASSUME OrderTypes, FlowTypes, Finished
    PROVE  FlowTypes'
<1> DEFINE again == retry /\ rest # <<>>
           unit == Head(wire)
           data == IF again THEN fifo \o Fits(rest) ELSE fifo
<1>1. /\ {rest, fifo, wire, received, answered} \subseteq Seq(Unit) /\ <<>> \in Seq(Unit)
      /\ Len(fifo) <= FifoSize
    BY DEF FlowTypes
<1>2. unit \in Unit
    BY <1>1, HeadTailProperties DEF Finished
<1>3. data \in Seq(Unit) /\ Len(data) <= FifoSize /\ Left(rest) \in Seq(Unit)
    BY <1>1, FitsType
<1>4. Transmit(data, <<>>) /\ Read(unit)
    BY DEF Finished
<1>5. /\ UNCHANGED <<host, sent, input, executor, replies, sender, hidOut>>
      /\ sem' = ~again /\ rest' \in {rest, Left(rest)}
      /\ retry' = (IF again THEN Left(rest) # <<>> ELSE retry)
    BY DEF Finished
<1>6. retry' \in BOOLEAN /\ sem' \in BOOLEAN
    BY <1>5 DEF FlowTypes
<1> HIDE DEF again, unit, data
<1>7. Len(<<>>) <= 1
    OBVIOUS
<1>8. fifo' \in Seq(Unit) /\ Len(fifo') <= FifoSize /\ wire' \in Seq(Unit) /\ Len(wire') <= 1
    BY <1>1, <1>3, <1>4, <1>7, TransmitType
<1>9. /\ received' \in Seq(Unit) /\ answered' \in Seq(Unit)
      /\ over' \subseteq Command
  <2>1. Append(received, unit) \in Seq(Unit) /\ Append(answered, unit) \in Seq(Unit)
    BY <1>1, <1>2, AppendProperties
  <2>2. \/ received' = <<>> /\ answered' = Append(answered, unit) /\ over' = over \union {unit}
                /\ unit # Junk
        \/ received' = Append(received, unit) /\ answered' = answered /\ over' = over
    BY <1>4 DEF Read
  <2> QED BY <1>1, <1>2, <2>1, <2>2 DEF FlowTypes, Unit
<1> QED BY <1>1, <1>3, <1>5, <1>6, <1>8, <1>9 DEF FlowTypes, input, executor, replies, sender, hidOut

\* The other steps move a thread or give notifications.
LEMMA MoveTypes ==
    ASSUME OrderTypes, FlowTypes,
           \/ Wake \/ SkipCdc \/ Peek \/ SkipHid \/ MoveQueue \/ ClearQueue \/ ResetReady
           \/ Execute \/ BatchDone \/ HidCmd \/ TimePasses \/ UNCHANGED vars
    PROVE  FlowTypes'
<1>1. CASE Wake \/ SkipCdc \/ SkipHid \/ MoveQueue \/ ClearQueue \/ Execute
  <2>1. pc' \in Places /\ cmdNotified' \in BOOLEAN
    BY <1>1 DEF Wake, SkipCdc, SkipHid, MoveQueue, ClearQueue, Execute, Goes, Places, FlowTypes, input
  <2>2. UNCHANGED <<environment, ring, parserReady, replies, sender, transport, hidOut>>
    BY <1>1 DEF Wake, SkipCdc, SkipHid, MoveQueue, ClearQueue, Execute, input
  <2> QED BY <2>1, <2>2 DEF FlowTypes, environment, replies, sender, transport, hidOut
<1>2. CASE Peek \/ ResetReady
  <2>1. pc' \in Places /\ parserReady' \in [Itf -> BOOLEAN]
    BY <1>2 DEF Peek, ResetReady, Goes, Places, FlowTypes
  <2>2. UNCHANGED <<environment, ring, cmdNotified, replies, sender, transport, hidOut>>
    BY <1>2 DEF Peek, ResetReady
  <2> QED BY <2>1, <2>2 DEF FlowTypes, environment, replies, sender, transport, hidOut
<1>3. CASE BatchDone
  <2>1. pc' \in Places /\ cdcNotified' \in BOOLEAN
    BY <1>3 DEF BatchDone, Goes, Places, FlowTypes
  <2>2. UNCHANGED <<environment, input, replies, cdcPc, sendBuffer, transport, hidOut>>
    BY <1>3 DEF BatchDone
  <2> QED BY <2>1, <2>2 DEF FlowTypes, environment, input, replies, transport, hidOut
<1>4. CASE HidCmd
  <2>1. UNCHANGED <<environment, input, executor, replies, sender, transport>>
    BY <1>4 DEF HidCmd, HidWake, HidIsReady, HidSend, HidDone
  <2>2. hidNotified' \in BOOLEAN
    BY <1>4 DEF HidCmd, HidWake, HidIsReady, HidSend, HidDone, FlowTypes
  <2> QED BY <2>1, <2>2 DEF FlowTypes, environment, input, executor, replies, sender, transport
<1>5. CASE TimePasses
    BY <1>5 DEF TimePasses, FlowTypes, environment, input, executor, sender, transport, hidOut
<1>6. CASE UNCHANGED vars
    BY <1>6 DEF vars, FlowTypes, environment, input, executor, replies, sender, transport, hidOut
<1> QED BY <1>1, <1>2, <1>3, <1>4, <1>5, <1>6

LEMMA InitFlow == Init => FlowTypes
<1> SUFFICES ASSUME Init PROVE FlowTypes
    OBVIOUS
<1>1. host.ring \in Nat \ {0} /\ FifoSize \in Nat
    BY CommandAssumption DEF Init, Host
<1>2. over = {} /\ <<>> \in Seq(Unit) /\ Len(<<>>) = 0
    BY DEF Init
<1>3. {results, snapshot, sendBuffer, rest, fifo, wire, received, answered} \subseteq Seq(Unit)
    BY <1>2 DEF Init
<1>4. Len(ring) < host.ring /\ Len(fifo) <= FifoSize /\ Len(wire) <= 1
    BY <1>1, <1>2 DEF Init
<1>5. /\ parserReady \in [Itf -> BOOLEAN] /\ cmdNotified = FALSE /\ nextFormat = FALSE /\ stale = TRUE
      /\ cdcNotified = FALSE /\ sem = TRUE /\ retry = FALSE /\ hidNotified = FALSE
      /\ pc = "cdc" /\ cdcPc = "idle" /\ bufferLength = 0
    BY DEF Init
<1> QED BY <1>2, <1>3, <1>4, <1>5 DEF FlowTypes, Places

LEMMA NextFlow == host \in Hosts /\ OrderTypes /\ FlowTypes /\ [Next]_vars => FlowTypes'
<1> SUFFICES ASSUME host \in Hosts, OrderTypes, FlowTypes, [Next]_vars PROVE FlowTypes'
    OBVIOUS
<1>1. CASE \/ \E c \in CdcCommand, late \in BOOLEAN : CdcReceive(c, late)
           \/ \E c \in HidCommand : HidReceive(c)
           \/ Discard
    BY <1>1, BufferTypes
<1>2. CASE BeginInsert \/ EndInsert \/ CdcTimeout \/ HidSendReplies \/ HidTimeout
    BY <1>2, ResultTypes
<1>3. CASE Format \/ Send \/ KeepRest
    BY <1>3, SenderTypes
<1>4. CASE Finished
    BY <1>4, FinishedTypes
<1>5. CASE \/ Wake \/ SkipCdc \/ Peek \/ SkipHid \/ MoveQueue \/ ClearQueue \/ ResetReady
           \/ Execute \/ BatchDone \/ HidCmd \/ TimePasses \/ UNCHANGED vars
    BY <1>5, MoveTypes
<1> QED BY <1>1, <1>2, <1>3, <1>4, <1>5 DEF Next, CmdMain, CdcCmd

LEMMA HostStays == [Next]_vars => host' = host
BY DEF Next, CmdMain, CdcCmd, HidCmd, vars, environment, CdcReceive, HidReceive, Wake, SkipCdc, Peek,
    Discard, SkipHid, MoveQueue, ClearQueue, ResetReady, Execute, BeginInsert, EndInsert, CdcTimeout,
    HidSendReplies, HidTimeout, BatchDone, Format, Send, KeepRest, HidWake, HidIsReady, HidSend,
    HidDone, Finished, TimePasses

\* Type correctness of the command system: in particular neither the ring
\* buffer nor the transmit FIFO is ever filled beyond its capacity, and HIDCMD
\* and CMD_MAIN never use an element that is not there.
THEOREM CommandTypes == Spec => []TypeOK
<1> DEFINE Inv == host \in Hosts /\ OrderInv /\ ReplyInv /\ FlowTypes
<1>1. Init => Inv
    BY InitOrder, InitReply, InitFlow DEF Init
<1>2. Inv /\ [Next]_vars => Inv'
  <2> SUFFICES ASSUME Inv, [Next]_vars PROVE Inv'
    OBVIOUS
  <2>1. OrderInv' /\ ReplyInv'
    BY NextOrder, NextReply
  <2>2. FlowTypes'
    BY OrderGivesTypes, NextFlow
  <2> QED BY <2>1, <2>2, HostStays
<1>3. Inv => TypeOK
    BY OrderGivesTypes, TypesTogether
<1> QED BY <1>1, <1>2, <1>3, PTL DEF Spec
-----------------------------------------------------------------------------
(* Sequences of whole replies                                              *)

\* The units of the reply to c, if the replies to the commands in long are.
Size(long, c) == IF c \in long THEN FifoSize + 1 ELSE 1

\* The units of a reply are together, and there are no others of that reply.
\* (q units come before it.)
WholeReplies(long, s) ==
    \A p \in 1..Len(s) : \E q \in 0..Len(s) :
        /\ q < p /\ p <= q + Size(long, s[p]) /\ q + Size(long, s[p]) <= Len(s)
        /\ \A r \in 1..Len(s) : s[r] = s[p] <=> q < r /\ r <= q + Size(long, s[p])

\* Commands of different interfaces have no order.
Earlier(c, d) == (c \in CdcCommand <=> d \in CdcCommand) => c < d

InOrder(s) == \A p, q \in 1..Len(s) : p < q => s[p] = s[q] \/ Earlier(s[p], s[q])

LEMMA SizePositive ==
    ASSUME NEW long, NEW c
    PROVE  Size(long, c) \in Nat \ {0}
BY CommandAssumption DEF Size

LEMMA EarlierApart ==
    ASSUME NEW c \in Command, NEW d \in Command, Earlier(c, d)
    PROVE  c # d
BY CommandFacts DEF Earlier

LEMMA SetOf ==
    ASSUME NEW S, NEW s \in Seq(S)
    PROVE  /\ \A i \in 1..Len(s) : s[i] \in ToSet(s) /\ s[i] \in S
           /\ \A x \in ToSet(s) : \E i \in 1..Len(s) : s[i] = x
           /\ ToSet(s) \subseteq S
BY LenProperties, ElementOfSeq DEF ToSet

LEMMA SetOfJoin ==
    ASSUME NEW S, NEW s \in Seq(S), NEW t \in Seq(S)
    PROVE  ToSet(s \o t) = ToSet(s) \union ToSet(t)
<1> DEFINE w == s \o t
<1>1. /\ w \in Seq(S) /\ Len(w) = Len(s) + Len(t) /\ Len(s) \in Nat /\ Len(t) \in Nat
      /\ \A i \in 1..Len(s) + Len(t) : w[i] = IF i <= Len(s) THEN s[i] ELSE t[i - Len(s)]
    BY ConcatProperties, LenProperties
<1> HIDE DEF w
<1>2. DOMAIN w = 1..Len(s) + Len(t) /\ DOMAIN s = 1..Len(s) /\ DOMAIN t = 1..Len(t)
    BY <1>1, LenProperties
<1>3. \A i \in 1..Len(s) : i \in 1..Len(s) + Len(t) /\ w[i] = s[i]
    BY <1>1
<1>4. \A i \in 1..Len(t) : Len(s) + i \in 1..Len(s) + Len(t) /\ w[Len(s) + i] = t[i]
  <2> TAKE i \in 1..Len(t)
  <2>1. Len(s) + i \in 1..Len(s) + Len(t) /\ ~(Len(s) + i <= Len(s)) /\ (Len(s) + i) - Len(s) = i
    BY <1>1
  <2> QED BY <2>1, <1>1
<1>5. \A i \in 1..Len(s) + Len(t) : w[i] \in ToSet(s) \union ToSet(t)
  <2> TAKE i \in 1..Len(s) + Len(t)
  <2>1. i \in 1..Len(s) \/ i - Len(s) \in 1..Len(t)
    BY <1>1
  <2>2. i \in 1..Len(s) => w[i] = s[i]
    BY <1>3
  <2>3. i \notin 1..Len(s) => w[i] = t[i - Len(s)]
    BY <1>1
  <2> QED BY <1>2, <2>1, <2>2, <2>3 DEF ToSet
<1>6. ToSet(w) = ToSet(s) \union ToSet(t)
  <2>1. ToSet(s) \subseteq ToSet(w)
    BY <1>2, <1>3 DEF ToSet
  <2>2. ToSet(t) \subseteq ToSet(w)
    BY <1>2, <1>4 DEF ToSet
  <2>3. ToSet(w) \subseteq ToSet(s) \union ToSet(t)
    <3>1. \A x \in ToSet(w) : \E i \in 1..Len(s) + Len(t) : x = w[i]
        BY <1>2 DEF ToSet
    <3> QED BY <3>1, <1>5
  <2> QED BY <2>1, <2>2, <2>3
<1> QED BY <1>6 DEF w

LEMMA Suffix ==
    ASSUME NEW S, NEW s \in Seq(S), NEW n \in 0..Len(s)
    PROVE  /\ SubSeq(s, n + 1, Len(s)) \in Seq(S)
           /\ Len(SubSeq(s, n + 1, Len(s))) = Len(s) - n
           /\ \A i \in 1..Len(s) - n : SubSeq(s, n + 1, Len(s))[i] = s[i + n]
<1> DEFINE t == SubSeq(s, n + 1, Len(s))
<1>1. Len(s) \in Nat /\ \A i \in 1..Len(s) : s[i] \in S
    BY LenProperties, ElementOfSeq
<1>2. /\ t \in Seq(S) /\ Len(t) = IF n + 1 <= Len(s) THEN Len(s) - (n + 1) + 1 ELSE 0
      /\ \A i \in 1..Len(s) - (n + 1) + 1 : t[i] = s[n + 1 + i - 1]
  <2>1. \A i \in n + 1 .. Len(s) : s[i] \in S
    BY <1>1
  <2> QED BY <2>1, <1>1, SubSeqProperties
<1> HIDE DEF t
<1>3. Len(s) - (n + 1) + 1 = Len(s) - n /\ \A i \in 1..Len(s) - n : n + 1 + i - 1 = i + n
    BY <1>1
<1>4. Len(t) = Len(s) - n /\ \A i \in 1..Len(s) - n : t[i] = s[i + n]
    BY <1>1, <1>2, <1>3
<1> QED BY <1>2, <1>4 DEF t

\* Replies to different commands, put together.
LEMMA WholeJoin ==
    ASSUME NEW long, NEW s \in Seq(Command), NEW t \in Seq(Command),
           WholeReplies(long, s), WholeReplies(long, t),
           \A i \in 1..Len(s), j \in 1..Len(t) : s[i] # t[j]
    PROVE  WholeReplies(long, s \o t)
<1> DEFINE w == s \o t
<1>1. /\ Len(w) = Len(s) + Len(t) /\ Len(s) \in Nat /\ Len(t) \in Nat
      /\ \A i \in 1..Len(s) + Len(t) : w[i] = IF i <= Len(s) THEN s[i] ELSE t[i - Len(s)]
    BY ConcatProperties, LenProperties
<1> HIDE DEF w
<1>2. SUFFICES ASSUME NEW p \in 1..Len(s) + Len(t)
               PROVE  \E q \in 0..Len(w) :
                        /\ q < p /\ p <= q + Size(long, w[p]) /\ q + Size(long, w[p]) <= Len(w)
                        /\ \A r \in 1..Len(w) : w[r] = w[p] <=> q < r /\ r <= q + Size(long, w[p])
    BY <1>1 DEF WholeReplies, w
<1>3. CASE p <= Len(s)
  <2>1. p \in 1..Len(s) /\ w[p] = s[p]
    BY <1>1, <1>3
  <2>2. PICK q \in 0..Len(s) :
            /\ q < p /\ p <= q + Size(long, s[p]) /\ q + Size(long, s[p]) <= Len(s)
            /\ \A r \in 1..Len(s) : s[r] = s[p] <=> q < r /\ r <= q + Size(long, s[p])
    BY <2>1 DEF WholeReplies
  <2>3. Size(long, s[p]) \in Nat
    BY SizePositive
  <2>4. ASSUME NEW r \in 1..Len(w)
        PROVE  w[r] = s[p] <=> q < r /\ r <= q + Size(long, s[p])
    <3>1. CASE r <= Len(s)
        BY <3>1, <2>2, <1>1
    <3>2. CASE ~(r <= Len(s))
      <4>1. r - Len(s) \in 1..Len(t) /\ w[r] = t[r - Len(s)]
        BY <3>2, <1>1
      <4>2. w[r] # s[p]
        BY <4>1, <2>1
      <4> QED BY <4>2, <3>2, <2>2, <2>3, <1>1
    <3> QED BY <3>1, <3>2
  <2>5. q \in Nat /\ q <= Len(s) /\ q + Size(long, s[p]) <= Len(s)
    BY <2>2, <1>1
  <2>6. q \in 0..Len(w) /\ q + Size(long, s[p]) <= Len(w)
    BY <2>5, <2>3, <1>1
  <2> QED BY <2>1, <2>2, <2>4, <2>6
<1>4. CASE ~(p <= Len(s))
  <2>1. p - Len(s) \in 1..Len(t) /\ w[p] = t[p - Len(s)]
    BY <1>1, <1>4
  <2> DEFINE k == p - Len(s)
  <2>2. PICK q \in 0..Len(t) :
            /\ q < k /\ k <= q + Size(long, t[k]) /\ q + Size(long, t[k]) <= Len(t)
            /\ \A r \in 1..Len(t) : t[r] = t[k] <=> q < r /\ r <= q + Size(long, t[k])
    BY <2>1 DEF WholeReplies
  <2>3. Size(long, t[k]) \in Nat
    BY SizePositive
  <2>4. ASSUME NEW r \in 1..Len(w)
        PROVE  w[r] = t[k] <=> Len(s) + q < r /\ r <= Len(s) + q + Size(long, t[k])
    <3>1. CASE r <= Len(s)
      <4>1. w[r] = s[r] /\ r \in 1..Len(s)
        BY <3>1, <1>1
      <4>2. w[r] # t[k]
        BY <4>1, <2>1
      <4> QED BY <4>2, <3>1, <2>2, <1>1
    <3>2. CASE ~(r <= Len(s))
      <4>1. r - Len(s) \in 1..Len(t) /\ w[r] = t[r - Len(s)]
        BY <3>2, <1>1
      <4>2. t[r - Len(s)] = t[k] <=> q < r - Len(s) /\ r - Len(s) <= q + Size(long, t[k])
        BY <4>1, <2>2
      <4> QED BY <4>1, <4>2, <2>2, <2>3, <1>1
    <3> QED BY <3>1, <3>2
  <2>5. /\ Len(s) + q \in 0..Len(w) /\ Len(s) + q < p
        /\ p <= Len(s) + q + Size(long, t[k]) /\ Len(s) + q + Size(long, t[k]) <= Len(w)
    <3>1. p = Len(s) + k /\ k \in Nat
        BY <1>1, <2>1
    <3> DEFINE z == Size(long, t[k])
    <3>2. q \in Nat /\ q < k /\ k <= q + z /\ q + z <= Len(t) /\ z \in Nat
        BY <2>2, <2>3, <1>1
    <3> HIDE DEF k, z
    <3>3. /\ Len(s) + q \in 0..Len(w) /\ Len(s) + q < p
          /\ p <= Len(s) + q + z /\ Len(s) + q + z <= Len(w)
        BY <3>1, <3>2, <1>1
    <3> QED BY <3>3 DEF k, z
  <2> QED BY <2>1, <2>4, <2>5
<1> QED BY <1>3, <1>4

\* The first reply, and what is left without it.
LEMMA WholeRest ==
    ASSUME NEW long, NEW s \in Seq(Command), s # <<>>, WholeReplies(long, s),
           NEW n, n = Size(long, s[1])
    PROVE  /\ n \in 1..Len(s) /\ \A i \in 1..Len(s) : s[i] = s[1] <=> i <= n
           /\ WholeReplies(long, SubSeq(s, n + 1, Len(s)))
<1>1. Len(s) \in Nat \ {0} /\ \A i \in 1..Len(s) : s[i] \in Command
    BY EmptySeq, ElementOfSeq
<1>2. n \in Nat \ {0}
    BY SizePositive
<1>3. n <= Len(s) /\ \A i \in 1..Len(s) : s[i] = s[1] <=> i <= n
  <2>1. 1 \in 1..Len(s)
    BY <1>1
  <2>2. PICK q \in 0..Len(s) :
            /\ q < 1 /\ q + n <= Len(s)
            /\ \A r \in 1..Len(s) : s[r] = s[1] <=> q < r /\ r <= q + n
    BY <2>1 DEF WholeReplies
  <2>3. q = 0
    BY <2>2, <1>1
  <2> QED BY <2>2, <2>3, <1>1, <1>2
<1> DEFINE t == SubSeq(s, n + 1, Len(s))
<1>4. /\ Len(t) = Len(s) - n /\ \A i \in 1..Len(s) - n : t[i] = s[i + n]
    BY <1>1, <1>2, <1>3, Suffix
<1> HIDE DEF t
<1>5. ASSUME NEW p \in 1..Len(t)
      PROVE  \E q \in 0..Len(t) :
                /\ q < p /\ p <= q + Size(long, t[p]) /\ q + Size(long, t[p]) <= Len(t)
                /\ \A r \in 1..Len(t) : t[r] = t[p] <=> q < r /\ r <= q + Size(long, t[p])
  <2>1. p + n \in 1..Len(s) /\ t[p] = s[p + n] /\ p \in Nat
    BY <1>1, <1>2, <1>3, <1>4
  <2>2. PICK q \in 0..Len(s) :
            /\ q < p + n /\ p + n <= q + Size(long, t[p]) /\ q + Size(long, t[p]) <= Len(s)
            /\ \A r \in 1..Len(s) : s[r] = t[p] <=> q < r /\ r <= q + Size(long, t[p])
    BY <2>1 DEF WholeReplies
  <2>3. Size(long, t[p]) \in Nat \ {0}
    BY SizePositive
  <2>4. q >= n
    <3> SUFFICES ASSUME q < n PROVE FALSE
        BY <1>2
    <3>1. q + 1 \in 1..Len(s) /\ q + 1 <= n
        BY <1>2, <1>3, <1>1
    <3>2. s[q + 1] = s[1] /\ s[q + 1] = t[p]
        BY <3>1, <1>3, <2>2, <2>3
    <3>3. p + n <= n
        BY <3>2, <2>1, <1>3
    <3> QED BY <3>3, <2>1, <1>2
  <2>5. \A r \in 1..Len(t) : t[r] = t[p] <=> q - n < r /\ r <= q - n + Size(long, t[p])
    <3> TAKE r \in 1..Len(t)
    <3>1. r + n \in 1..Len(s) /\ t[r] = s[r + n] /\ r \in Nat
        BY <1>1, <1>2, <1>3, <1>4
    <3>2. t[r] = t[p] <=> q < r + n /\ r + n <= q + Size(long, t[p])
        BY <3>1, <2>2
    <3> QED BY <3>1, <3>2, <2>2, <2>3, <1>2
  <2>6. q - n \in 0..Len(t) /\ q - n < p /\ p <= q - n + Size(long, t[p]) /\ q - n + Size(long, t[p]) <= Len(t)
    <3>1. q \in Nat /\ q < p + n /\ p + n <= q + Size(long, t[p]) /\ q + Size(long, t[p]) <= Len(s)
        BY <2>2
    <3>2. Len(t) = Len(s) - n /\ Len(s) \in Nat /\ n \in Nat
        BY <1>1, <1>2, <1>3, <1>4
    <3> QED BY <3>1, <3>2, <2>1, <2>3, <2>4
  <2> QED BY <2>5, <2>6
<1>6. WholeReplies(long, t)
    BY <1>5 DEF WholeReplies
<1> QED BY <1>1, <1>2, <1>3, <1>6 DEF t

LEMMA OrderJoin ==
    ASSUME NEW s \in Seq(Command), NEW t \in Seq(Command), InOrder(s), InOrder(t),
           \A i \in 1..Len(s), j \in 1..Len(t) : Earlier(s[i], t[j])
    PROVE  InOrder(s \o t)
<1> DEFINE w == s \o t
<1>1. /\ Len(w) = Len(s) + Len(t) /\ Len(s) \in Nat /\ Len(t) \in Nat
      /\ \A i \in 1..Len(s) + Len(t) : w[i] = IF i <= Len(s) THEN s[i] ELSE t[i - Len(s)]
    BY ConcatProperties, LenProperties
<1> HIDE DEF w
<1>2. SUFFICES ASSUME NEW p \in 1..Len(s) + Len(t), NEW q \in 1..Len(s) + Len(t), p < q
               PROVE  w[p] = w[q] \/ Earlier(w[p], w[q])
    BY <1>1 DEF InOrder, w
<1>3. CASE q <= Len(s)
  <2>1. p \in 1..Len(s) /\ q \in 1..Len(s) /\ w[p] = s[p] /\ w[q] = s[q]
    BY <1>1, <1>2, <1>3
  <2> QED BY <2>1, <1>2 DEF InOrder
<1>4. CASE ~(q <= Len(s)) /\ p <= Len(s)
  <2>1. p \in 1..Len(s) /\ q - Len(s) \in 1..Len(t) /\ w[p] = s[p] /\ w[q] = t[q - Len(s)]
    BY <1>1, <1>4
  <2> QED BY <2>1
<1>5. CASE ~(p <= Len(s))
  <2>1. /\ p - Len(s) \in 1..Len(t) /\ q - Len(s) \in 1..Len(t) /\ p - Len(s) < q - Len(s)
        /\ w[p] = t[p - Len(s)] /\ w[q] = t[q - Len(s)]
    BY <1>1, <1>2, <1>5
  <2> QED BY <2>1 DEF InOrder
<1> QED BY <1>3, <1>4, <1>5

LEMMA OrderRest ==
    ASSUME NEW s \in Seq(Command), InOrder(s), NEW n \in 0..Len(s)
    PROVE  InOrder(SubSeq(s, n + 1, Len(s)))
<1> DEFINE t == SubSeq(s, n + 1, Len(s))
<1>1. Len(s) \in Nat
    BY LenProperties
<1>4. Len(t) = Len(s) - n /\ \A i \in 1..Len(s) - n : t[i] = s[i + n]
    BY Suffix
<1> HIDE DEF t
<1>5. InOrder(t)
  <2> SUFFICES ASSUME NEW p \in 1..Len(t), NEW q \in 1..Len(t), p < q
               PROVE  t[p] = t[q] \/ Earlier(t[p], t[q])
    BY DEF InOrder
  <2>1. /\ p + n \in 1..Len(s) /\ q + n \in 1..Len(s) /\ p + n < q + n
        /\ t[p] = s[p + n] /\ t[q] = s[q + n]
    BY <1>1, <1>4
  <2> QED BY <2>1 DEF InOrder
<1> QED BY <1>5 DEF t
-----------------------------------------------------------------------------
(* What CDCCMD makes of the results                                        *)

LEMMA UnitsWhole ==
    ASSUME NEW c \in Command
    PROVE  /\ Units(c) \in Seq(Command) /\ Len(Units(c)) = Size(host.long, c)
           /\ \A i \in 1..Len(Units(c)) : Units(c)[i] = c
           /\ WholeReplies(host.long, Units(c)) /\ InOrder(Units(c))
<1> DEFINE n == Size(host.long, c)
           u == Units(c)
<1>1. n \in Nat \ {0}
    BY SizePositive
<1>2. u = [i \in 1..n |-> c]
    BY DEF Units, Size
<1> HIDE DEF n, u
<1>3. u \in [1..n -> Command] /\ DOMAIN u = 1..n
    BY <1>2
<1>4. u \in Seq(Command)
    BY <1>1, <1>3, SeqDef
<1>5. Len(u) = n
    BY <1>1, <1>3, <1>4, LenProperties
<1>6. \A i \in 1..n : u[i] = c
    BY <1>2
<1>7. WholeReplies(host.long, u)
  <2> SUFFICES ASSUME NEW p \in 1..Len(u)
               PROVE  \E q \in 0..Len(u) :
                    /\ q < p /\ p <= q + Size(host.long, u[p]) /\ q + Size(host.long, u[p]) <= Len(u)
                    /\ \A r \in 1..Len(u) : u[r] = u[p] <=> q < r /\ r <= q + Size(host.long, u[p])
    BY DEF WholeReplies
  <2>1. Size(host.long, u[p]) = n
    BY <1>5, <1>6 DEF n
  <2>2. 0 \in 0..n /\ 0 < p /\ p <= 0 + n /\ 0 + n <= n /\ \A r \in 1..n : 0 < r /\ r <= 0 + n
    BY <1>1, <1>5
  <2>3. \A r \in 1..Len(u) : u[r] = u[p] <=> 0 < r /\ r <= 0 + n
    BY <2>2, <1>5, <1>6
  <2> QED BY <2>1, <2>2, <2>3, <1>5
<1>8. InOrder(u)
    BY <1>5, <1>6 DEF InOrder
<1> QED BY <1>4, <1>5, <1>6, <1>7, <1>8 DEF n, u

\* Results of different commands, in their order.
Sorted(cs) == \A i, j \in 1..Len(cs) : i < j => Earlier(cs[i], cs[j])

\* t holds the replies to the first n of cs.
TextOf(t, cs, n) ==
    /\ t \in Seq(Command) /\ WholeReplies(host.long, t) /\ InOrder(t)
    /\ \A p \in 1..Len(t) : \E i \in 1..n : t[p] = cs[i]
    /\ \A i \in 1..n : \E p \in 1..Len(t) : t[p] = cs[i]

LEMMA TextStep ==
    ASSUME NEW cs \in Seq(Command), Sorted(cs), NEW n \in 1..Len(cs), NEW t,
           IF n = 1 THEN t = <<>> ELSE TextOf(t, cs, n - 1)
    PROVE  TextOf(t \o Units(cs[n]), cs, n)
<1> DEFINE c == cs[n]
           u == Units(c)
           w == t \o u
<1>1. Len(cs) \in Nat /\ c \in Command /\ \A i \in 1..Len(cs) : cs[i] \in Command
    BY LenProperties, ElementOfSeq
<1>2. /\ t \in Seq(Command) /\ WholeReplies(host.long, t) /\ InOrder(t)
      /\ \A p \in 1..Len(t) : \E i \in 1..n - 1 : t[p] = cs[i]
      /\ \A i \in 1..n - 1 : \E p \in 1..Len(t) : t[p] = cs[i]
  <2>1. CASE n = 1
    <3>1. t = <<>> /\ Len(t) = 0 /\ t \in Seq(Command)
        BY <2>1
    <3> QED BY <3>1, <2>1 DEF WholeReplies, InOrder
  <2>2. CASE n # 1
    BY <2>2 DEF TextOf
  <2> QED BY <2>1, <2>2
<1>3. /\ u \in Seq(Command) /\ WholeReplies(host.long, u) /\ InOrder(u)
      /\ \A i \in 1..Len(u) : u[i] = c
      /\ Len(u) \in Nat \ {0}
    BY <1>1, UnitsWhole, SizePositive
<1> HIDE DEF u, c
<1>4. \A p \in 1..Len(t), j \in 1..Len(u) : Earlier(t[p], u[j])
  <2> TAKE p \in 1..Len(t), j \in 1..Len(u)
  <2>1. PICK i \in 1..n - 1 : t[p] = cs[i]
    BY <1>2
  <2>2. i \in 1..Len(cs) /\ i < n
    BY <1>1
  <2>3. Earlier(cs[i], cs[n])
    BY <2>2 DEF Sorted
  <2> QED BY <2>1, <2>3, <1>3 DEF c
<1>5. \A p \in 1..Len(t), j \in 1..Len(u) : t[p] # u[j]
    BY <1>2, <1>3, <1>4, ElementOfSeq, EarlierApart
<1>6. w \in Seq(Command) /\ WholeReplies(host.long, w) /\ InOrder(w)
    BY <1>2, <1>3, <1>4, <1>5, WholeJoin, OrderJoin, ConcatProperties
<1>7. /\ Len(w) = Len(t) + Len(u) /\ Len(t) \in Nat
      /\ \A i \in 1..Len(t) + Len(u) : w[i] = IF i <= Len(t) THEN t[i] ELSE u[i - Len(t)]
    BY <1>2, <1>3, ConcatProperties, LenProperties
<1> HIDE DEF w
<1>8. \A p \in 1..Len(w) : \E i \in 1..n : w[p] = cs[i]
  <2> TAKE p \in 1..Len(w)
  <2>1. CASE p <= Len(t)
    <3>1. p \in 1..Len(t) /\ w[p] = t[p]
        BY <2>1, <1>7
    <3>2. PICK i \in 1..n - 1 : t[p] = cs[i]
        BY <3>1, <1>2
    <3> QED BY <3>1, <3>2, <1>1
  <2>2. CASE ~(p <= Len(t))
    <3>1. p - Len(t) \in 1..Len(u) /\ w[p] = u[p - Len(t)]
        BY <2>2, <1>3, <1>7
    <3>2. w[p] = cs[n]
        BY <3>1, <1>3 DEF c
    <3> QED BY <3>2, <1>1
  <2> QED BY <2>1, <2>2
<1>9. \A i \in 1..n : \E p \in 1..Len(w) : w[p] = cs[i]
  <2> TAKE i \in 1..n
  <2>1. CASE i = n
    <3>1. Len(t) + 1 \in 1..Len(w) /\ ~(Len(t) + 1 <= Len(t)) /\ (Len(t) + 1) - Len(t) = 1
        BY <1>3, <1>7
    <3>2. w[Len(t) + 1] = u[1]
        BY <3>1, <1>7
    <3>3. u[1] = cs[n]
        BY <1>3 DEF c
    <3> QED BY <3>1, <3>2, <3>3, <2>1
  <2>2. CASE i # n
    <3>1. i \in 1..n - 1
        BY <2>2, <1>1
    <3>2. PICK p \in 1..Len(t) : t[p] = cs[i]
        BY <3>1, <1>2
    <3>3. p \in 1..Len(w) /\ w[p] = t[p]
        BY <1>3, <1>7
    <3> QED BY <3>2, <3>3
  <2> QED BY <2>1, <2>2
<1>10. TextOf(w, cs, n)
    BY <1>6, <1>8, <1>9 DEF TextOf, w
<1> QED BY <1>10 DEF w, u, c

\* The string made of results is the sequence of their whole replies.
LEMMA TextWhole ==
    ASSUME NEW cs \in Seq(Command), Sorted(cs)
    PROVE  TextOf(AllUnits(cs), cs, Len(cs))
<1> DEFINE n == Len(cs)
           us == [i \in DOMAIN cs |-> Units(cs[i])]
<1>1. n \in Nat /\ DOMAIN cs = 1..n /\ \A i \in 1..n : cs[i] \in Command
    BY LenProperties, ElementOfSeq
<1>2. us \in Seq(Seq(Command)) /\ Len(us) = n /\ \A i \in 1..n : us[i] = Units(cs[i])
  <2>1. us \in [1..n -> Seq(Command)]
    BY <1>1, UnitsWhole
  <2>2. us \in Seq(Seq(Command))
    <3> HIDE DEF us
    <3> QED BY <2>1, <1>1, SeqDef
  <2>3. DOMAIN us = 1..n
    BY <1>1
  <2>4. \A i \in 1..n : us[i] = Units(cs[i])
    BY <1>1
  <2> HIDE DEF us, n
  <2>5. Len(us) = n
    BY <2>2, <2>3, <1>1, LenProperties
  <2> QED BY <2>2, <2>4, <2>5
<1>3. AllUnits(cs) = FlattenSeq(us)
    BY DEF AllUnits
<1> HIDE DEF us
<1>4. CASE n = 0
  <2>1. us = <<>> /\ Len(us) = 0
    BY <1>2, <1>4, EmptySeq
  <2>2. AllUnits(cs) = <<>>
    BY <1>3, <2>1 DEF FlattenSeq
  <2>3. <<>> \in Seq(Command) /\ Len(<<>>) = 0
    OBVIOUS
  <2> QED BY <2>2, <2>3, <1>4 DEF TextOf, WholeReplies, InOrder
<1>5. CASE n # 0
  <2>1. us # <<>>
    BY <1>2, <1>5, EmptySeq
  <2>2. PICK flat : /\ \A i \in 1..n : flat[i] = IF i = 1 THEN us[i] ELSE flat[i-1] \o us[i]
                    /\ FlattenSeq(us) = flat[n]
    BY <1>2, <2>1, FlattenSteps
  <2> DEFINE odd == {i \in 1..n : ~TextOf(flat[i], cs, i)}
  <2>3. odd = {}
    <3> SUFFICES ASSUME odd # {} PROVE FALSE
        OBVIOUS
    <3>1. PICK m \in odd : \A k \in odd : m <= k
      <4>1. odd \subseteq Nat
        BY <1>1
      <4> HIDE DEF odd
      <4> QED BY <4>1, LeastExists
    <3>2. m \in 1..n /\ us[m] = Units(cs[m]) /\ Units(cs[m]) \in Seq(Command)
        BY <1>1, <1>2, UnitsWhole
    <3>3. CASE m = 1
      <4>1. flat[m] = Units(cs[m])
        BY <2>2, <3>2, <3>3
      <4>2. <<>> \o Units(cs[m]) = Units(cs[m])
        BY <3>2, ConcatEmptySeq
      <4>3. TextOf(<<>> \o Units(cs[m]), cs, m)
        BY <3>2, <3>3, TextStep
      <4> QED BY <3>1, <4>1, <4>2, <4>3
    <3>4. CASE m # 1
      <4>1. m - 1 \in 1..n /\ m - 1 \notin odd
        BY <3>1, <3>2, <3>4, <1>1
      <4>2. TextOf(flat[m-1], cs, m - 1)
        BY <4>1
      <4>3. flat[m] = flat[m-1] \o Units(cs[m])
        BY <2>2, <3>2, <3>4
      <4>4. TextOf(flat[m-1] \o Units(cs[m]), cs, m)
        BY <3>2, <3>4, <4>2, TextStep
      <4> QED BY <3>1, <4>3, <4>4
    <3> QED BY <3>3, <3>4
  <2>4. n \in 1..n
    BY <1>1, <1>5
  <2>5. TextOf(flat[n], cs, n)
    BY <2>3, <2>4
  <2> QED BY <1>3, <2>2, <2>5
<1> QED BY <1>4, <1>5

\* What is formatted are the first results, all of them unless as read.
LEMMA FormattedFirst ==
    ASSUME NEW cs \in Seq(Command), NEW asRead, Sorted(cs)
    PROVE  LET fs == Formatted(cs, asRead)
           IN  /\ fs \in Seq(Command) /\ Sorted(fs) /\ ToSet(fs) \subseteq ToSet(cs)
               /\ ~asRead => fs = cs
<1> DEFINE fs == Formatted(cs, asRead)
           stop == {i \in DOMAIN cs : asRead /\ cs[i] \notin SetCommands}
           k == CHOOSE i \in stop : \A j \in stop : i <= j
<1>1. Len(cs) \in Nat /\ DOMAIN cs = 1..Len(cs) /\ \A i \in 1..Len(cs) : cs[i] \in Command
    BY LenProperties, ElementOfSeq
<1>2. CASE stop = {}
    BY <1>2 DEF Formatted
<1>3. CASE stop # {}
  <2>1. stop \subseteq Nat /\ stop \subseteq 1..Len(cs) /\ asRead
    BY <1>1, <1>3
  <2>2. \E i \in stop : \A j \in stop : i <= j
    BY <1>3, <2>1, LeastExists
  <2>3. k \in 1..Len(cs)
    BY <2>1, <2>2
  <2>4. fs = SubSeq(cs, 1, k - 1)
    BY <1>3 DEF Formatted
  <2> HIDE DEF k, stop, fs
  <2>5. k - 1 \in Int /\ \A i \in 1..k - 1 : cs[i] \in Command
    BY <1>1, <2>3
  <2>6. /\ fs \in Seq(Command) /\ Len(fs) = IF 1 <= k - 1 THEN k - 1 - 1 + 1 ELSE 0
        /\ \A i \in 1..k - 1 - 1 + 1 : fs[i] = cs[1 + i - 1]
    BY <2>4, <2>5, SubSeqProperties
  <2>7. Len(fs) = k - 1 /\ \A i \in 1..Len(fs) : i \in 1..Len(cs) /\ fs[i] = cs[i]
    BY <1>1, <2>3, <2>6
  <2>8. Sorted(fs)
    BY <2>7 DEF Sorted
  <2>9. ToSet(fs) \subseteq ToSet(cs)
    BY <1>1, <2>6, <2>7, LenProperties DEF ToSet
  <2> QED BY <2>1, <2>6, <2>8, <2>9 DEF fs
<1> QED BY <1>2, <1>3
-----------------------------------------------------------------------------
(* The way to the terminal                                                 *)

\* All units on their way to the terminal, and those of the reply it reads.
Stream == received \o (wire \o (fifo \o (rest \o sendBuffer)))

\* Whole units only, a rest only while CDCCMD is idle, and a transfer whenever
\* the semaphore is taken.
ChannelInv ==
    /\ received \in Seq(Command) /\ wire \in Seq(Command) /\ fifo \in Seq(Command)
    /\ rest \in Seq(Command) /\ sendBuffer \in Seq(Command)
    /\ results \in Seq(Command) /\ snapshot \in Seq(Command)
    /\ Len(fifo) <= FifoSize /\ Len(wire) <= 1
    /\ ~sem => wire # <<>>
    /\ cdcPc \in {"idle", "take", "rest"} /\ sem \in BOOLEAN
    /\ cdcPc # "idle" => rest = <<>>
    /\ cdcPc = "take" => sendBuffer # <<>>
    /\ cdcPc = "idle" => sendBuffer = <<>>

LEMMA Regroup ==
    ASSUME NEW s \in Seq(Command), NEW t \in Seq(Command), NEW u \in Seq(Command)
    PROVE  (s \o t) \o u = s \o (t \o u)
BY ConcatAssociative

LEMMA Joined ==
    ASSUME NEW s \in Seq(Command), NEW t \in Seq(Command)
    PROVE  s \o t \in Seq(Command)
BY ConcatProperties

LEMMA CutRejoins ==
    ASSUME NEW q \in Seq(Command), fifo \in Seq(Command), Len(fifo) <= FifoSize
    PROVE  /\ Fits(q) \in Seq(Command) /\ Left(q) \in Seq(Command) /\ Fits(q) \o Left(q) = q
           /\ Len(fifo \o Fits(q)) <= FifoSize
           /\ q # <<>> => fifo \o Fits(q) # <<>>
           /\ Len(q) <= FifoSize - Len(fifo) => Left(q) = <<>>
<1> DEFINE room == FifoSize - Len(fifo)
           k == Min({Len(q), room})
<1>1. /\ Len(q) \in Nat /\ Len(fifo) \in Nat /\ FifoSize \in Nat \ {0} /\ room \in Nat
      /\ \A i \in 1..Len(q) : q[i] \in Command
  <2>1. Len(q) \in Nat /\ Len(fifo) \in Nat /\ FifoSize \in Nat \ {0}
    BY LenProperties, CommandAssumption
  <2> QED BY <2>1, ElementOfSeq
<1>2. k = IF Len(q) <= room THEN Len(q) ELSE room
  <2>1. \E x \in {Len(q), room} : \A y \in {Len(q), room} : x <= y
    BY <1>1
  <2>2. k \in {Len(q), room} /\ k <= Len(q) /\ k <= room
    BY <2>1 DEF Min
  <2> HIDE DEF room, k
  <2> QED BY <1>1, <2>2
<1>3. Fits(q) = SubSeq(q, 1, k) /\ Left(q) = SubSeq(q, room + 1, Len(q))
    BY DEF Fits, Left
<1>a. Len(fifo) + room = FifoSize
    BY <1>1
<1>0. Len(q) <= FifoSize - Len(fifo) <=> Len(q) <= room
    OBVIOUS
<1> HIDE DEF k, room
<1>4. CASE Len(q) <= room
  <2>1. Fits(q) = q
    BY <1>2, <1>3, <1>4, SubSeqFull
  <2>2. Left(q) = <<>>
    BY <1>1, <1>3, <1>4, SubSeqEmpty
  <2>3. q \o <<>> = q /\ <<>> \in Seq(Command)
    BY ConcatEmptySeq
  <2>4. Len(fifo \o q) = Len(fifo) + Len(q) /\ (fifo \o q = <<>> => q = <<>>)
    BY ConcatProperties, ConcatEqualIffEmpty
  <2>5. Len(fifo \o q) <= FifoSize
    BY <2>4, <1>1, <1>4, <1>a
  <2> QED BY <2>1, <2>2, <2>3, <2>4, <2>5
<1>5. CASE ~(Len(q) <= room)
  <2>1. k = room /\ room \in 0..Len(q)
    BY <1>1, <1>2, <1>5
  <2>2. SubSeq(q, 1, room) \o SubSeq(q, room + 1, Len(q)) = SubSeq(q, 1, Len(q))
    <3>1. 1 \in 1..Len(q) + 1 /\ room \in 1 - 1 .. Len(q) /\ Len(q) \in room..Len(q)
        BY <1>1, <2>1
    <3> QED BY <3>1, ConcatAdjacentSubSeq
  <2>3. Fits(q) \in Seq(Command) /\ Len(Fits(q)) = room
    <3>1. \A i \in 1..room : q[i] \in Command
        BY <1>1, <2>1
    <3>2. Fits(q) \in Seq(Command) /\ Len(Fits(q)) = IF 1 <= room THEN room - 1 + 1 ELSE 0
        BY <1>1, <1>3, <2>1, <3>1, SubSeqProperties
    <3> QED BY <1>1, <3>2
  <2>4. Left(q) \in Seq(Command)
    BY <1>3, <2>1, Suffix
  <2>5. Fits(q) \o Left(q) = q
    BY <1>3, <2>1, <2>2, SubSeqFull
  <2>6. Len(fifo \o Fits(q)) = FifoSize
    BY <2>3, <1>a, ConcatProperties
  <2>7. fifo \o Fits(q) # <<>>
    BY <2>6, <1>1
  <2>8. Len(fifo \o Fits(q)) <= FifoSize
    BY <2>6, <1>1
  <2> QED BY <1>0, <1>5, <2>3, <2>4, <2>5, <2>7, <2>8
<1> QED BY <1>4, <1>5

LEMMA HeadJoinsTail ==
    ASSUME NEW S, NEW s \in Seq(S), s # <<>>
    PROVE  /\ Head(s) \in S /\ <<Head(s)>> \in Seq(S) /\ Tail(s) \in Seq(S) /\ Head(s) = s[1]
           /\ <<Head(s)>> \o Tail(s) = s
<1>1. Len(s) \in Nat \ {0}
    BY EmptySeq
<1>2. 1 \in 1..Len(s) /\ Len(s) \in 1..Len(s)
    BY <1>1
<1>3. SubSeq(s, 1, Len(s)) = <<s[1]>> \o SubSeq(s, 1 + 1, Len(s))
    BY <1>2, SubSeqRecursiveFirst
<1>4. Tail(s) = SubSeq(s, 1 + 1, Len(s)) /\ Head(s) = s[1] /\ s = SubSeq(s, 1, Len(s))
    BY TailIsRest, SubSeqFull
<1>5. Head(s) \in S /\ Tail(s) \in Seq(S)
    BY HeadTailProperties
<1> QED BY <1>3, <1>4, <1>5

LEMMA TransmitKeeps ==
    ASSUME NEW data \in Seq(Command), NEW running \in Seq(Command), Len(running) <= 1,
           Len(data) <= FifoSize, Transmit(data, running)
    PROVE  /\ wire' \in Seq(Command) /\ fifo' \in Seq(Command) /\ wire' \o fifo' = running \o data
           /\ Len(wire') <= 1 /\ Len(fifo') <= FifoSize
           /\ running # <<>> \/ data # <<>> => wire' # <<>>
           /\ data = <<>> => fifo' = <<>>
           /\ Len(data) <= 1 /\ running = <<>> => fifo' = <<>>
<1>0. FifoSize \in Nat /\ Len(data) \in Nat
    BY CommandAssumption, LenProperties
<1>1. CASE running = <<>> /\ data # <<>>
  <2>1. wire' = <<Head(data)>> /\ fifo' = Tail(data)
    BY <1>1 DEF Transmit
  <2>2. <<Head(data)>> \o Tail(data) = data /\ Head(data) \in Command /\ Tail(data) \in Seq(Command)
        /\ <<Head(data)>> \in Seq(Command)
    BY <1>1, HeadJoinsTail
  <2>3. <<>> \o data = data
    BY ConcatEmptySeq
  <2>4. Len(Tail(data)) = Len(data) - 1
    BY <1>1, HeadTailProperties
  <2>5. Len(data) <= 1 => Tail(data) = <<>>
    BY <1>0, <2>2, <2>4, EmptySeq
  <2>6. wire' # <<>> /\ Len(wire') = 1
    BY <2>1
  <2>7. Len(fifo') <= FifoSize
    BY <1>0, <2>1, <2>4
  <2> QED BY <1>1, <2>1, <2>2, <2>3, <2>5, <2>6, <2>7
<1>2. CASE ~(running = <<>> /\ data # <<>>)
  <2>1. wire' = running /\ fifo' = data
    BY <1>2 DEF Transmit
  <2>2. running = <<>> => data = <<>>
    BY <1>2
  <2> QED BY <2>1, <2>2
<1> QED BY <1>1, <1>2

\* Sending moves units, and changes neither which they are nor their order.
LEMMA SendKeeps ==
    ASSUME ChannelInv, Send
    PROVE  /\ Stream' = Stream /\ ChannelInv'
           /\ Len(sendBuffer) <= FifoSize - Len(fifo) => sendBuffer' = <<>>
<1>1. /\ UNCHANGED <<received, rest, results, snapshot>> /\ cdcPc = "take" /\ cdcPc' = "rest"
      /\ sem' = FALSE /\ sendBuffer' = Left(sendBuffer) /\ rest = <<>> /\ sendBuffer # <<>>
      /\ Transmit(fifo \o Fits(sendBuffer), wire)
    BY DEF Send, replies, ChannelInv
<1>2. wire \in Seq(Command) /\ fifo \in Seq(Command) /\ sendBuffer \in Seq(Command)
    BY DEF ChannelInv
<1> DEFINE f == Fits(sendBuffer)
           l == Left(sendBuffer)
           d == fifo \o f
<1>3. /\ f \in Seq(Command) /\ l \in Seq(Command) /\ f \o l = sendBuffer
      /\ Len(d) <= FifoSize /\ d # <<>>
      /\ Len(sendBuffer) <= FifoSize - Len(fifo) => l = <<>>
    BY <1>1, <1>2, CutRejoins DEF ChannelInv
<1> HIDE DEF f, l
<1>4. d \in Seq(Command)
    BY <1>2, <1>3, ConcatProperties
<1> HIDE DEF d
<1>5. /\ wire' \in Seq(Command) /\ fifo' \in Seq(Command) /\ wire' \o fifo' = wire \o d
      /\ Len(wire') <= 1 /\ Len(fifo') <= FifoSize /\ wire' # <<>>
    BY <1>1, <1>2, <1>3, <1>4, TransmitKeeps DEF ChannelInv, d, f
<1>6. wire' \o (fifo' \o l) = wire \o (fifo \o sendBuffer)
  <2>0. f \in Seq(Command) /\ l \in Seq(Command) /\ wire' \in Seq(Command) /\ fifo' \in Seq(Command)
    BY <1>3, <1>5
  <2>1. wire' \o (fifo' \o l) = (wire' \o fifo') \o l
    BY <2>0, Regroup
  <2>2. (wire \o d) \o l = wire \o (d \o l)
    <3>1. wire \in Seq(Command)
        BY <1>2
    <3>2. l \in Seq(Command)
        BY <2>0
    <3> QED BY <3>1, <3>2, <1>4, Regroup
  <2>3. (fifo \o f) \o l = fifo \o (f \o l)
    BY <1>2, <2>0, Regroup
  <2> QED BY <2>1, <2>2, <2>3, <1>3, <1>5 DEF d
<1>7. <<>> \o l = l /\ <<>> \o sendBuffer = sendBuffer
    BY <1>2, <1>3, ConcatEmptySeq
<1>8. Stream' = Stream
    BY <1>1, <1>6, <1>7 DEF Stream, l
<1>9. ChannelInv'
    BY <1>1, <1>2, <1>3, <1>5 DEF ChannelInv, l
<1> QED BY <1>1, <1>3, <1>8, <1>9 DEF l

LEMMA KeepRestKeeps ==
    ASSUME ChannelInv, KeepRest
    PROVE  Stream' = Stream /\ ChannelInv'
<1>1. /\ UNCHANGED <<received, wire, fifo, sem, results, snapshot>> /\ cdcPc = "rest" /\ cdcPc' = "idle"
      /\ rest' = sendBuffer /\ sendBuffer' = <<>> /\ rest = <<>>
    BY DEF KeepRest, replies, ChannelInv
<1>2. sendBuffer \in Seq(Command) /\ <<>> \in Seq(Command)
    BY DEF ChannelInv
<1>3. <<>> \o sendBuffer = sendBuffer /\ sendBuffer \o <<>> = sendBuffer
    BY <1>2, ConcatEmptySeq
<1>4. Stream' = Stream
    BY <1>1, <1>3 DEF Stream
<1>5. ChannelInv'
    BY <1>1, <1>2 DEF ChannelInv
<1> QED BY <1>4, <1>5

\* The terminal gets the next unit of the stream.
LEMMA FinishedTakes ==
    ASSUME ChannelInv, Finished, NEW u, u = Head(wire)
    PROVE  /\ u \in Command /\ ChannelInv'
           /\ Stream = Append(received, u) \o (wire' \o (fifo' \o (rest' \o sendBuffer)))
           /\ wire' \o (fifo' \o (rest' \o sendBuffer)) \in Seq(Command)
           /\ sendBuffer' = sendBuffer /\ results' = results /\ cdcPc' = cdcPc
           /\ fifo = <<>> /\ rest = <<>> => fifo' = <<>>
           /\ rest = <<>> => rest' = <<>>
           /\ rest = <<>> => wire' \o fifo' = fifo
<1> DEFINE again == retry /\ rest # <<>>
           data == IF again THEN fifo \o Fits(rest) ELSE fifo
           s == sendBuffer
<1>1. /\ UNCHANGED <<sendBuffer, results, snapshot, cdcPc>> /\ wire # <<>>
      /\ sem' = ~again /\ Transmit(data, <<>>) /\ rest' = (IF again THEN Left(rest) ELSE rest)
      /\ Read(u)
    BY DEF Finished, replies, sender
<1>0. /\ received \in Seq(Command) /\ wire \in Seq(Command) /\ fifo \in Seq(Command)
      /\ rest \in Seq(Command) /\ s \in Seq(Command)
    BY DEF ChannelInv
<1>2. Len(fifo) <= FifoSize /\ <<>> \in Seq(Command) /\ Len(<<>>) <= 1 /\ Len(wire) <= 1
    BY DEF ChannelInv
<1>3. /\ rest' \in Seq(Command) /\ data \in Seq(Command) /\ Len(data) <= FifoSize
      /\ data \o rest' = fifo \o rest /\ (again => data # <<>>)
      /\ rest = <<>> => rest' = <<>> /\ data = fifo
  <2>1. CASE again
    <3>1. /\ Fits(rest) \in Seq(Command) /\ Left(rest) \in Seq(Command) /\ Fits(rest) \o Left(rest) = rest
          /\ Len(fifo \o Fits(rest)) <= FifoSize /\ fifo \o Fits(rest) # <<>>
        BY <1>0, <1>2, <2>1, CutRejoins
    <3>m. Fits(rest) \in Seq(Command) /\ Left(rest) \in Seq(Command) /\ fifo \in Seq(Command)
        BY <1>0, <3>1
    <3>2. (fifo \o Fits(rest)) \o Left(rest) = fifo \o (Fits(rest) \o Left(rest))
        BY <3>m, Regroup
    <3>3. fifo \o Fits(rest) \in Seq(Command)
        BY <3>m, Joined
    <3> QED BY <1>1, <2>1, <3>1, <3>2, <3>3
  <2>2. CASE ~again
    BY <1>1, <1>0, <1>2, <2>2
  <2> QED BY <2>1, <2>2
<1> HIDE DEF again, data
<1>4. /\ wire' \in Seq(Command) /\ fifo' \in Seq(Command) /\ wire' \o fifo' = <<>> \o data
      /\ Len(wire') <= 1 /\ Len(fifo') <= FifoSize /\ (data # <<>> => wire' # <<>>)
      /\ data = <<>> => fifo' = <<>>
    BY <1>1, <1>0, <1>2, <1>3, TransmitKeeps
<1>5. <<u>> \in Seq(Command) /\ wire = <<u>> /\ u \in Command
  <2>1. u \in Command /\ <<u>> \in Seq(Command) /\ Tail(wire) \in Seq(Command)
        /\ <<u>> \o Tail(wire) = wire
    BY <1>1, <1>0, <1>2, HeadJoinsTail
  <2>2. Len(Tail(wire)) = Len(wire) - 1 /\ Len(wire) \in Nat /\ Len(Tail(wire)) \in Nat
    BY <1>1, <1>0, <1>2, HeadTailProperties, LenProperties
  <2>3. Tail(wire) = <<>>
    BY <1>0, <1>2, <2>1, <2>2, EmptySeq
  <2>4. <<u>> \o <<>> = <<u>>
    BY <2>1, ConcatEmptySeq
  <2> QED BY <2>1, <2>3, <2>4
<1>6. wire' \o (fifo' \o (rest' \o s)) = fifo \o (rest \o s)
  <2>0. /\ wire' \in Seq(Command) /\ fifo' \in Seq(Command) /\ rest' \in Seq(Command)
        /\ data \in Seq(Command)
    BY <1>3, <1>4
  <2>1. rest' \o s \in Seq(Command)
    BY <1>0, <2>0, Joined
  <2>2. wire' \o (fifo' \o (rest' \o s)) = (wire' \o fifo') \o (rest' \o s)
    BY <2>0, <2>1, Regroup
  <2>3. <<>> \o data = data
    BY <1>3, ConcatEmptySeq
  <2>4. data \o (rest' \o s) = (data \o rest') \o s
    <3>1. data \in Seq(Command) /\ rest' \in Seq(Command) /\ s \in Seq(Command)
        BY <1>0, <2>0
    <3> QED BY <3>1, Regroup
  <2>5. (fifo \o rest) \o s = fifo \o (rest \o s)
    BY <1>0, Regroup
  <2> QED BY <2>2, <2>3, <2>4, <2>5, <1>3, <1>4
<1>7. fifo \o (rest \o s) \in Seq(Command) /\ <<u>> \in Seq(Command)
  <2>1. rest \o s \in Seq(Command)
    BY <1>0, Joined
  <2> QED BY <1>0, <1>5, <2>1, Joined
<1>8. Stream = Append(received, u) \o (fifo \o (rest \o s))
  <2>1. Append(received, u) = received \o <<u>>
    BY <1>0, <1>2, <1>5, AppendIsConcat
  <2>2. received \o (<<u>> \o (fifo \o (rest \o s))) = (received \o <<u>>) \o (fifo \o (rest \o s))
    <3>1. received \in Seq(Command)
        BY <1>0
    <3> QED BY <3>1, <1>7, Regroup
  <2> QED BY <2>1, <2>2, <1>5 DEF Stream
<1>9. ChannelInv'
  <2>1. received' \in Seq(Command)
    <3>1. received' = <<>> \/ received' = Append(received, u)
        BY <1>1, Zenon DEF Read
    <3>2. received \in Seq(Command) /\ u \in Command
        BY <1>0, <1>5
    <3>3. Append(received, u) \in Seq(Command)
        BY <3>2, AppendProperties
    <3> QED BY <3>1, <3>3, <1>2
  <2>2. ~sem' => wire' # <<>>
    BY <1>1, <1>3, <1>4
  <2> QED BY <2>1, <2>2, <1>1, <1>0, <1>2, <1>3, <1>4 DEF ChannelInv
<1>10. <<>> \o data = data
    BY <1>3, ConcatEmptySeq
<1> QED BY <1>1, <1>3, <1>4, <1>5, <1>6, <1>7, <1>8, <1>9, <1>10

\* What the terminal still gets.
Replies == ToSet(Stream) \union ToSet(results)

\* It reads the first reply, of which it does not have all; what CDCCMD is
\* about to send is not under way already.
StreamInv ==
    /\ WholeReplies(host.long, Stream) /\ InOrder(Stream)
    /\ Stream # <<>> => Len(received) < Size(host.long, Stream[1])
    /\ cdcPc = "take" => /\ (ToSet(wire) \union ToSet(fifo)) \intersect ToSet(sendBuffer) = {}
                         /\ WholeReplies(host.long, sendBuffer)

LEMMA StreamSet ==
    ASSUME ChannelInv
    PROVE  /\ Stream \in Seq(Command)
           /\ ToSet(Stream) = ToSet(received) \union ToSet(wire) \union ToSet(fifo)
                                \union ToSet(rest) \union ToSet(sendBuffer)
<1>1. /\ received \in Seq(Command) /\ wire \in Seq(Command) /\ fifo \in Seq(Command)
      /\ rest \in Seq(Command) /\ sendBuffer \in Seq(Command)
    BY DEF ChannelInv
<1> DEFINE a == rest \o sendBuffer
           b == fifo \o a
           c == wire \o b
<1>2. a \in Seq(Command) /\ ToSet(a) = ToSet(rest) \union ToSet(sendBuffer)
    BY <1>1, Joined, SetOfJoin
<1> HIDE DEF a
<1>3. b \in Seq(Command) /\ ToSet(b) = ToSet(fifo) \union ToSet(a)
    BY <1>1, <1>2, Joined, SetOfJoin
<1> HIDE DEF b
<1>4. c \in Seq(Command) /\ ToSet(c) = ToSet(wire) \union ToSet(b)
    BY <1>1, <1>3, Joined, SetOfJoin
<1> HIDE DEF c
<1>5. received \o c \in Seq(Command) /\ ToSet(received \o c) = ToSet(received) \union ToSet(c)
    BY <1>1, <1>4, Joined, SetOfJoin
<1> QED BY <1>2, <1>3, <1>4, <1>5 DEF Stream, a, b, c

LEMMA DropFirst ==
    ASSUME NEW S, NEW s \in Seq(S), NEW t \in Seq(S)
    PROVE  SubSeq(s \o t, Len(s) + 1, Len(s \o t)) = t
<1> DEFINE w == s \o t
           r == SubSeq(w, Len(s) + 1, Len(w))
<1>1. /\ w \in Seq(S) /\ Len(w) = Len(s) + Len(t) /\ Len(s) \in Nat /\ Len(t) \in Nat
      /\ \A i \in 1..Len(s) + Len(t) : w[i] = IF i <= Len(s) THEN s[i] ELSE t[i - Len(s)]
    BY ConcatProperties, LenProperties
<1> HIDE DEF w
<1>2. Len(s) \in 0..Len(w)
    BY <1>1
<1>3. /\ r \in Seq(S) /\ Len(r) = Len(w) - Len(s)
      /\ \A i \in 1..Len(w) - Len(s) : r[i] = w[i + Len(s)]
    BY <1>1, <1>2, Suffix
<1> HIDE DEF r
<1>4. Len(w) - Len(s) = Len(t)
    BY <1>1
<1>5. ASSUME NEW i \in 1..Len(t) PROVE r[i] = t[i]
  <2>1. i + Len(s) \in 1..Len(s) + Len(t) /\ ~(i + Len(s) <= Len(s)) /\ (i + Len(s)) - Len(s) = i
    BY <1>1
  <2>2. w[i + Len(s)] = t[i]
    BY <1>1, <2>1
  <2>3. r[i] = w[i + Len(s)]
    BY <1>3, <1>4
  <2> QED BY <2>2, <2>3
<1>6. r = t
    BY <1>3, <1>4, <1>5, SeqEqual
<1> QED BY <1>6 DEF r, w

\* The terminal has read the first units of the stream.
LEMMA ReceivedFirst ==
    ASSUME ChannelInv, StreamInv
    PROVE  \A i \in 1..Len(received) : received[i] = Stream[1] /\ received[i] = received[1]
<1> DEFINE c == wire \o (fifo \o (rest \o sendBuffer))
<1>1. received \in Seq(Command) /\ c \in Seq(Command) /\ Stream = received \o c
  <2>1. wire \in Seq(Command) /\ fifo \in Seq(Command) /\ rest \in Seq(Command) /\ sendBuffer \in Seq(Command)
    BY DEF ChannelInv
  <2>2. rest \o sendBuffer \in Seq(Command)
    BY <2>1, Joined
  <2>3. fifo \o (rest \o sendBuffer) \in Seq(Command)
    BY <2>1, <2>2, Joined
  <2>4. c \in Seq(Command)
    BY <2>1, <2>3, Joined
  <2> QED BY <2>4 DEF Stream, ChannelInv
<1> HIDE DEF c
<1>2. SUFFICES ASSUME NEW i \in 1..Len(received)
               PROVE  received[i] = Stream[1] /\ received[i] = received[1]
    OBVIOUS
<1>3. /\ Stream \in Seq(Command) /\ Len(Stream) = Len(received) + Len(c) /\ Len(received) \in Nat
      /\ Len(c) \in Nat
      /\ \A j \in 1..Len(received) : Stream[j] = received[j]
  <2>1. /\ Stream \in Seq(Command) /\ Len(Stream) = Len(received) + Len(c) /\ Len(received) \in Nat
        /\ Len(c) \in Nat
        /\ \A j \in 1..Len(received) + Len(c) :
                Stream[j] = IF j <= Len(received) THEN received[j] ELSE c[j - Len(received)]
    BY <1>1, ConcatProperties, LenProperties
  <2> QED BY <2>1
<1>4. Stream # <<>>
    BY <1>2, <1>3, EmptySeq
<1> DEFINE n == Size(host.long, Stream[1])
<1>5. n \in 1..Len(Stream) /\ \A j \in 1..Len(Stream) : Stream[j] = Stream[1] <=> j <= n
    BY <1>3, <1>4, WholeRest DEF StreamInv
<1>6. Len(received) < n
    BY <1>4 DEF StreamInv
<1> HIDE DEF n
<1>7. /\ i \in 1..Len(Stream) /\ i <= n /\ 1 \in 1..Len(received)
    BY <1>2, <1>3, <1>5, <1>6
<1>8. Stream[i] = Stream[1]
    BY <1>5, <1>7
<1> QED BY <1>2, <1>3, <1>7, <1>8

\* A unit is read: the stream stays, or loses its first reply.
LEMMA FinishedStream ==
    ASSUME ChannelInv, StreamInv, Finished, NEW u, u = Head(wire)
    PROVE  /\ StreamInv' /\ u \in ToSet(Stream) /\ u \in Command
           /\ \/ /\ ToSet(Stream') = ToSet(Stream) \ {u} /\ over' = over \union {u}
                 /\ answered' = Append(answered, u)
                 /\ \A c \in ToSet(Stream) : c = u \/ Earlier(u, c)
              \/ ToSet(Stream') = ToSet(Stream) /\ over' = over /\ answered' = answered
<1> DEFINE R == wire' \o (fifo' \o (rest' \o sendBuffer))
           t == Append(received, u)
<1>1. /\ u \in Command /\ ChannelInv' /\ Stream = t \o R /\ R \in Seq(Command)
      /\ sendBuffer' = sendBuffer /\ cdcPc' = cdcPc /\ (rest = <<>> => wire' \o fifo' = fifo)
    BY FinishedTakes
<1>2. wire # <<>> /\ Read(u) /\ host' = host
    BY DEF Finished
<1>3. Stream' = received' \o R
    BY <1>1 DEF Stream
<1>4. /\ received \in Seq(Command) /\ t \in Seq(Command) /\ Len(t) = Len(received) + 1
      /\ Len(received) \in Nat /\ t[Len(received) + 1] = u
  <2>1. received \in Seq(Command)
    BY DEF ChannelInv
  <2> QED BY <1>1, <2>1, AppendProperties, LenProperties
<1> HIDE DEF R, t
<1>5. /\ Stream \in Seq(Command) /\ Len(Stream) = Len(t) + Len(R) /\ Len(R) \in Nat
      /\ \A j \in 1..Len(t) : Stream[j] = t[j]
  <2>1. /\ Stream \in Seq(Command) /\ Len(Stream) = Len(t) + Len(R) /\ Len(R) \in Nat /\ Len(t) \in Nat
        /\ \A j \in 1..Len(t) + Len(R) : Stream[j] = IF j <= Len(t) THEN t[j] ELSE R[j - Len(t)]
    BY <1>1, <1>4, ConcatProperties, LenProperties
  <2> QED BY <2>1
<1>6. Stream # <<>> /\ 1 \in 1..Len(Stream) /\ Len(received) + 1 \in 1..Len(Stream)
    BY <1>4, <1>5, EmptySeq
<1> DEFINE n == Size(host.long, Stream[1])
<1>7. /\ n \in 1..Len(Stream) /\ \A j \in 1..Len(Stream) : Stream[j] = Stream[1] <=> j <= n
      /\ WholeReplies(host.long, SubSeq(Stream, n + 1, Len(Stream)))
    BY <1>5, <1>6, WholeRest DEF StreamInv
<1>8. Len(received) < n
    BY <1>6 DEF StreamInv
<1>9. u = Stream[1] /\ u \in ToSet(Stream) /\ n = Size(host.long, u)
      /\ \A j \in 1..Len(t) : t[j] = u
  <2>1. \A j \in 1..Len(t) : j \in 1..Len(Stream) /\ j <= n /\ t[j] = Stream[1]
    <3> HIDE DEF n
    <3> QED BY <1>4, <1>5, <1>7, <1>8
  <2>2. t[Len(received) + 1] = Stream[1]
    BY <2>1, <1>4
  <2> QED BY <2>1, <2>2, <1>4, <1>5, <1>6, SetOf
<1>10. ToSet(Stream) = ToSet(t) \union ToSet(R)
    BY <1>1, <1>4, SetOfJoin
<1>11. cdcPc' = "take" => /\ (ToSet(wire') \union ToSet(fifo')) \intersect ToSet(sendBuffer') = {}
                          /\ WholeReplies(host'.long, sendBuffer')
  <2> SUFFICES ASSUME cdcPc = "take" PROVE ToSet(wire') \union ToSet(fifo') \subseteq ToSet(fifo)
    BY <1>1, <1>2 DEF StreamInv
  <2>1. rest = <<>>
    BY DEF ChannelInv
  <2>2. wire' \in Seq(Command) /\ fifo' \in Seq(Command)
    BY <1>1 DEF ChannelInv
  <2>3. ToSet(wire' \o fifo') = ToSet(wire') \union ToSet(fifo')
    BY <2>2, SetOfJoin
  <2> QED BY <2>1, <2>3, <1>1
<1>12. CASE t = Units(u)
  <2>1. received' = <<>> /\ over' = over \union {u} /\ answered' = Append(answered, u)
    <3>1. u # Junk
        BY <1>1, CommandFacts
    <3> QED BY <3>1, <1>2, <1>12 DEF Read, t
  <2>2. Stream' = R
    BY <2>1, <1>1, <1>3, ConcatEmptySeq
  <2>3. Len(t) = n
    BY <1>1, <1>9, <1>12, UnitsWhole
  <2>4. SubSeq(Stream, n + 1, Len(Stream)) = R
    BY <2>3, <1>1, <1>4, DropFirst
  <2>5. WholeReplies(host.long, Stream') /\ InOrder(Stream')
    <3>1. n \in 0..Len(Stream) /\ InOrder(Stream)
        BY <1>7 DEF StreamInv
    <3> HIDE DEF n
    <3>2. InOrder(SubSeq(Stream, n + 1, Len(Stream)))
        BY <3>1, <1>5, OrderRest
    <3> QED BY <3>2, <2>2, <2>4, <1>7
  <2>6. Len(received') = 0
    BY <2>1
  <2>7. Stream' # <<>> => Len(received') < Size(host'.long, Stream'[1])
    <3>1. Size(host'.long, Stream'[1]) \in Nat \ {0}
        BY SizePositive
    <3> QED BY <3>1, <2>6
  <2>8. /\ Len(R) = Len(Stream) - n
        /\ \A i \in 1..Len(Stream) - n : R[i] = Stream[i + n]
    <3>1. n \in 0..Len(Stream)
        BY <1>7
    <3> HIDE DEF n
    <3> QED BY <3>1, <2>4, <1>5, Suffix
  <2>9. u \notin ToSet(R)
    <3> SUFFICES ASSUME NEW i \in 1..Len(R), R[i] = u PROVE FALSE
        BY <1>1, SetOf
    <3> HIDE DEF n
    <3>1. i + n \in 1..Len(Stream) /\ Len(Stream) \in Nat /\ ~(i + n <= n)
        BY <2>8, <1>7, <1>5, LenProperties
    <3>2. Stream[i + n] = u
        BY <2>8
    <3> QED BY <3>1, <3>2, <1>7, <1>9
  <2>10. ToSet(t) = {u}
    <3>1. 1 \in 1..Len(t)
        BY <1>4
    <3>2. \A x \in ToSet(t) : x = u
        BY <1>4, <1>9, SetOf
    <3>3. u \in ToSet(t)
        BY <3>1, <1>4, <1>9, SetOf
    <3> QED BY <3>2, <3>3
  <2>11. ToSet(Stream') = ToSet(Stream) \ {u}
    BY <2>2, <2>9, <2>10, <1>10
  <2>12. \A c \in ToSet(Stream) : c = u \/ Earlier(u, c)
    <3> TAKE c \in ToSet(Stream)
    <3>1. PICK i \in 1..Len(Stream) : Stream[i] = c
        BY <1>5, SetOf
    <3>2. CASE i = 1
        BY <3>1, <3>2, <1>9
    <3>3. CASE i # 1
      <4>1. 1 < i
        BY <3>3, <1>6
      <4>2. Stream[1] = Stream[i] \/ Earlier(Stream[1], Stream[i])
        BY <4>1, <1>6 DEF StreamInv, InOrder
      <4> QED BY <4>2, <3>1, <1>9
    <3> QED BY <3>2, <3>3
  <2> QED BY <2>1, <2>5, <2>7, <2>11, <2>12, <1>1, <1>2, <1>9, <1>11 DEF StreamInv
<1>13. CASE t # Units(u)
  <2>1. received' = t /\ over' = over /\ answered' = answered
    BY <1>2, <1>13 DEF Read, t
  <2>2. Stream' = Stream
    BY <2>1, <1>1, <1>3
  <2>3. Len(t) # n
    <3> SUFFICES ASSUME Len(t) = n PROVE FALSE
        OBVIOUS
    <3>1. /\ Units(u) \in Seq(Command) /\ Len(Units(u)) = n
          /\ \A i \in 1..Len(Units(u)) : Units(u)[i] = u
        BY <1>1, <1>9, UnitsWhole
    <3>2. \A i \in 1..Len(t) : t[i] = Units(u)[i]
        BY <3>1, <1>9
    <3>3. t = Units(u)
        BY <3>1, <3>2, <1>4, SeqEqual
    <3> QED BY <3>3, <1>13
  <2>4. Len(received') < n
    <3> HIDE DEF n
    <3> QED BY <2>1, <2>3, <1>4, <1>7, <1>8
  <2>5. Len(received') < Size(host'.long, Stream'[1])
    BY <2>2, <2>4, <1>2
  <2> QED BY <2>1, <2>2, <2>5, <1>1, <1>2, <1>9, <1>11 DEF StreamInv
<1> QED BY <1>12, <1>13
-----------------------------------------------------------------------------
(* Commands under way                                                      *)

\* Sent, and neither answered nor given up.
UnderWay == sent \ over

\* CMD_MAIN has a result that is not yet among the replies.
Fresh == pc \in {"toCdc", "insert"}

\* Replies are in the order of their commands.
OrderedInv ==
    /\ Sorted(results)
    /\ \A c \in ToSet(Stream), d \in ToSet(results) : Earlier(c, d)
    /\ Fresh => \A c \in Replies : Earlier(c, batch[1])

\* Whatever is somewhere on the way is under way.
UnderWayInv ==
    /\ Replies \subseteq UnderWay \intersect ToSet(executed)
    /\ ToSet(ring) \union ToSet(hidQueue) \subseteq UnderWay
    /\ \A j \in 1..Len(batch) : batch[j] \in UnderWay \/ (pc = "toHid" /\ j = 1)

\* Whatever is under way is somewhere, and what is not executed comes after
\* what is.
CompleteInv ==
    /\ \A d \in UnderWay \intersect ToSet(executed) : d \in Replies \/ (Fresh /\ d = batch[1])
    /\ \A d \in UnderWay \ ToSet(executed), e \in ToSet(executed) : Earlier(e, d)
    /\ \A d \in CdcCommand \intersect (UnderWay \ ToSet(executed)) :
            d \in ToSet(ring) \/ (origin = "cdc" /\ d \in ToSet(batch))
    /\ \A d, e \in HidCommand \intersect (sent \ ToSet(executed)) : d = e
    /\ pc \in {"wait", "cdc", "hid"} => batch = <<>>

\* The host is careful.
WindowInv ==
    /\ host \in Hosts /\ Careful(host)
    /\ over \subseteq sent /\ ToSet(answered) \subseteq sent /\ answered \in Seq(Command)
    /\ IsFiniteSet(UnderWay) /\ Cardinality(UnderWay) <= host.window

\* The order of the commands, as sets.
LEMMA Placed ==
    ASSUME OrderInv, ReplyInv
    PROVE  /\ sent \subseteq Command /\ ToSet(executed) \subseteq sent
           /\ ToSet(ring) \subseteq sent \intersect CdcCommand
           /\ ToSet(hidQueue) \subseteq sent \intersect HidCommand
           /\ \A j \in 1..Len(batch) : batch[j] \in sent \intersect Own(origin)
           /\ \A e \in ToSet(executed), r \in ToSet(ring) \union ToSet(hidQueue) : Earlier(e, r)
           /\ \A e \in ToSet(executed), j \in 1..Len(batch) :
                    j # 1 \/ pc \notin Doing => Earlier(e, batch[j])
           /\ pc \in Doing => 1 \in 1..Len(batch) /\ batch[1] \in ToSet(executed)
           /\ \A i, j \in 1..Len(batch) : i < j => Earlier(batch[i], batch[j])
           /\ pc # "peeked" \/ origin = "hid" =>
                    \A j \in 1..Len(batch), r \in ToSet(ring) : Earlier(batch[j], r)
           /\ \A j \in 1..Len(batch), r \in ToSet(hidQueue) : Earlier(batch[j], r)
           /\ pc = "peeked" => origin = "cdc"
<1>s. SentInv /\ BufferInv /\ BatchInv /\ ExecutedInv
    BY DEF OrderInv
<1>f. /\ CdcCommand \intersect HidCommand = {} /\ Command = CdcCommand \union HidCommand
      /\ \A x \in Own(origin) : x \in CdcCommand <=> origin = "cdc"
    BY <1>s, CommandFacts DEF Own, BatchInv, Itf
<1>1. sent \subseteq Command
    BY <1>s DEF SentInv
<1>2. /\ \A x \in ToSet(executed) : \E i \in 1..Len(executed) : executed[i] = x
      /\ \A x \in ToSet(ring) : \E i \in 1..Len(ring) : ring[i] = x /\ x \in CdcCommand
      /\ \A x \in ToSet(hidQueue) : \E i \in 1..Len(hidQueue) : hidQueue[i] = x /\ x \in HidCommand
      /\ \A i \in 1..Len(batch) : batch[i] \in Own(origin)
  <2>1. executed \in Seq(Command) /\ ring \in Seq(CdcCommand) /\ hidQueue \in Seq(HidCommand)
        /\ batch \in Seq(Own(origin))
    BY <1>s DEF ExecutedInv, BufferInv, BatchInv
  <2>2. \A x \in ToSet(executed) : \E i \in 1..Len(executed) : executed[i] = x
    BY <2>1, SetOf
  <2>3. \A x \in ToSet(ring) : \E i \in 1..Len(ring) : ring[i] = x /\ x \in CdcCommand
    BY <2>1, SetOf
  <2>4. \A x \in ToSet(hidQueue) : \E i \in 1..Len(hidQueue) : hidQueue[i] = x /\ x \in HidCommand
    BY <2>1, SetOf
  <2>5. \A i \in 1..Len(batch) : batch[i] \in Own(origin)
    BY <2>1, SetOf
  <2> QED BY <2>2, <2>3, <2>4, <2>5
<1>3. ToSet(executed) \subseteq sent
    BY <1>2, <1>s DEF ExecutedInv, Within
<1>4. ToSet(ring) \subseteq sent \intersect CdcCommand /\ ToSet(hidQueue) \subseteq sent \intersect HidCommand
    BY <1>2, <1>s DEF BufferInv, Within
<1>5. \A j \in 1..Len(batch) : batch[j] \in sent \intersect Own(origin)
    BY <1>2, <1>s DEF BatchInv, Within
<1>6. ASSUME NEW e \in ToSet(executed), NEW r \in ToSet(ring) \union ToSet(hidQueue)
      PROVE  Earlier(e, r)
  <2>1. PICK i \in 1..Len(executed) : executed[i] = e
    BY <1>2
  <2>2. e \in Command
    BY <1>1, <1>3
  <2>3. CASE r \in ToSet(ring)
    <3>1. PICK j \in 1..Len(ring) : ring[j] = r /\ r \in CdcCommand
        BY <1>2, <2>3
    <3> QED BY <2>1, <3>1, <1>s DEF ExecutedInv, Earlier
  <2>4. CASE r \in ToSet(hidQueue)
    <3>1. PICK j \in 1..Len(hidQueue) : hidQueue[j] = r /\ r \in HidCommand
        BY <1>2, <2>4
    <3>2. e \in HidCommand => e < r
        BY <2>1, <3>1, <1>s DEF ExecutedInv
    <3> QED BY <3>1, <3>2, <2>2, <1>f DEF Earlier
  <2> QED BY <2>3, <2>4
<1>7. ASSUME NEW e \in ToSet(executed), NEW j \in 1..Len(batch), j # 1 \/ pc \notin Doing
      PROVE  Earlier(e, batch[j])
  <2>1. PICK i \in 1..Len(executed) : executed[i] = e
    BY <1>2
  <2>2. e \in Own(origin) => e < batch[j]
    BY <2>1, <1>7, <1>s DEF ExecutedInv
  <2>3. e \in Command /\ batch[j] \in Own(origin)
    BY <1>1, <1>3, <1>5
  <2>4. (e \in CdcCommand <=> batch[j] \in CdcCommand) => e \in Own(origin)
    BY <2>3, <1>f DEF Own
  <2> QED BY <2>2, <2>4 DEF Earlier
<1>8. pc \in Doing => 1 \in 1..Len(batch) /\ batch[1] \in ToSet(executed)
    BY <1>s, TailIsRest DEF BatchInv, ReplyInv
<1>9. \A i, j \in 1..Len(batch) : i < j => Earlier(batch[i], batch[j])
    BY <1>s DEF BatchInv, Increasing, Earlier
<1>10. pc = "peeked" => origin = "cdc"
    BY <1>s DEF BatchInv
<1>11. ASSUME NEW j \in 1..Len(batch), NEW r \in ToSet(ring), pc # "peeked" \/ origin = "hid"
       PROVE  Earlier(batch[j], r)
  <2>1. PICK i \in 1..Len(ring) : ring[i] = r /\ r \in CdcCommand
    BY <1>2
  <2>2. origin = "cdc" => batch[j] < r
    BY <2>1, <1>11, <1>s DEF BatchInv, Before
  <2>3. batch[j] \in Own(origin)
    BY <1>5
  <2> QED BY <2>1, <2>2, <2>3, <1>f DEF Earlier
<1>12. ASSUME NEW j \in 1..Len(batch), NEW r \in ToSet(hidQueue)
       PROVE  Earlier(batch[j], r)
  <2>1. PICK i \in 1..Len(hidQueue) : hidQueue[i] = r /\ r \in HidCommand
    BY <1>2
  <2>2. origin = "hid" => batch[j] < r
    BY <2>1, <1>s DEF BatchInv, Before
  <2>3. batch[j] \in Own(origin) /\ origin \in Itf
    BY <1>5, <1>s DEF BatchInv
  <2>4. r \notin CdcCommand
    BY <2>1, <1>f
  <2> QED BY <2>2, <2>3, <2>4, <1>f DEF Earlier, Itf
<1> QED BY <1>1, <1>3, <1>4, <1>5, <1>6, <1>7, <1>8, <1>9, <1>10, <1>11, <1>12

\* A reply to come is nowhere else.
LEMMA HeldApart ==
    ASSUME OrderInv, ReplyInv, OrderedInv, UnderWayInv, NEW x \in Replies
    PROVE  /\ x \notin ToSet(ring) /\ x \notin ToSet(hidQueue)
           /\ \A j \in 1..Len(batch) : batch[j] # x \/ (pc = "toHid" /\ j = 1)
<1>1. x \in ToSet(executed) /\ x \in Command
    BY Placed DEF UnderWayInv
<1>2. ASSUME NEW r \in ToSet(ring) \union ToSet(hidQueue) PROVE x # r
  <2>1. Earlier(x, r) /\ r \in Command
    BY <1>1, Placed
  <2> QED BY <2>1, <1>1, EarlierApart
<1>3. ASSUME NEW j \in 1..Len(batch), ~(pc = "toHid" /\ j = 1) PROVE batch[j] # x
  <2>1. batch[j] \in Command
    BY Placed
  <2>2. CASE j # 1 \/ pc \notin Doing
    <3>1. Earlier(x, batch[j])
        BY <1>1, <2>2, Placed
    <3> QED BY <3>1, <2>1, <1>1, EarlierApart
  <2>3. CASE j = 1 /\ pc \in Doing
    <3>1. Earlier(x, batch[j])
        BY <1>3, <2>3 DEF Doing, Fresh, OrderedInv
    <3> QED BY <3>1, <2>1, <1>1, EarlierApart
  <2> QED BY <2>2, <2>3
<1> QED BY <1>2, <1>3

\* With three commands under way, there are no others, and no long replies.
LEMMA Full ==
    ASSUME WindowInv, NEW a \in UnderWay, NEW b \in UnderWay, NEW c \in UnderWay,
           a # b, a # c, b # c
    PROVE  UnderWay = {a, b, c} /\ host.long = {}
<1>1. /\ IsFiniteSet({a}) /\ Cardinality({a}) = 1
      /\ IsFiniteSet({a} \union {b}) /\ Cardinality({a} \union {b}) = 2
      /\ IsFiniteSet(({a} \union {b}) \union {c}) /\ Cardinality(({a} \union {b}) \union {c}) = 3
  <2>1. IsFiniteSet({a}) /\ Cardinality({a}) = 1
    BY FS_Singleton
  <2>2. IsFiniteSet({a} \union {b}) /\ Cardinality({a} \union {b}) = 1 + 1
    BY <2>1, FS_AddElement
  <2>3. IsFiniteSet(({a} \union {b}) \union {c}) /\ Cardinality(({a} \union {b}) \union {c}) = 1 + 1 + 1
    BY <2>2, FS_AddElement
  <2> QED BY <2>1, <2>2, <2>3
<1>2. ({a} \union {b}) \union {c} = {a, b, c}
    OBVIOUS
<1>3. /\ 3 <= Cardinality(UnderWay)
      /\ Cardinality(UnderWay) = 3 => UnderWay = {a, b, c}
    BY <1>1, <1>2, FS_Subset DEF WindowInv
<1>4. host.window \in Nat /\ Cardinality(UnderWay) \in Nat
    BY CommandAssumption, FS_CardinalityType DEF WindowInv, Host
<1>5. Cardinality(UnderWay) <= host.window /\ host.window <= IF host.long = {} THEN 3 ELSE 2
    BY DEF WindowInv, Careful
<1>6. host.long = {} /\ Cardinality(UnderWay) = 3
    BY <1>3, <1>4, <1>5
<1> QED BY <1>3, <1>6

LEMMA FewerUnderWay ==
    ASSUME WindowInv, UnderWay' \subseteq UnderWay, host' = host, sent' = sent,
           over' \subseteq sent, answered' \in Seq(Command), ToSet(answered') \subseteq sent
    PROVE  WindowInv'
<1>1. /\ IsFiniteSet(UnderWay') /\ Cardinality(UnderWay') <= Cardinality(UnderWay)
      /\ Cardinality(UnderWay') \in Nat /\ Cardinality(UnderWay) \in Nat
    BY FS_Subset, FS_CardinalityType DEF WindowInv
<1>2. host.window \in Nat
    BY CommandAssumption DEF WindowInv, Host
<1>3. Cardinality(UnderWay') <= host.window
    BY <1>1, <1>2 DEF WindowInv
<1> QED BY <1>1, <1>3 DEF WindowInv

PlaceInv == UnderWayInv /\ CompleteInv /\ WindowInv

\* Replies reach the terminal, or are given up.
LEMMA Retire ==
    ASSUME OrderInv, ReplyInv, OrderedInv, PlaceInv,
           NEW G, G \subseteq Replies, over' = over \union G, Replies' = Replies \ G,
           UNCHANGED <<host, sent, ring, hidQueue, executed, batch, origin>>,
           pc' = pc \/ (pc = "toCdc" /\ pc' = "insert"),
           answered' \in Seq(Command), ToSet(answered') \subseteq ToSet(answered) \union Replies
    PROVE  PlaceInv'
<1>1. UnderWay' = UnderWay \ G /\ (Fresh' <=> Fresh) /\ (pc' = "toHid" <=> pc = "toHid")
    BY DEF UnderWay, Fresh
<1>2. UnderWayInv'
  <2>1. Replies' \subseteq UnderWay' \intersect ToSet(executed)
    BY <1>1 DEF PlaceInv, UnderWayInv
  <2>2. ToSet(ring) \union ToSet(hidQueue) \subseteq UnderWay'
    BY <1>1, HeldApart DEF PlaceInv, UnderWayInv
  <2>3. \A j \in 1..Len(batch) : batch[j] \in UnderWay' \/ (pc' = "toHid" /\ j = 1)
    BY <1>1, HeldApart DEF PlaceInv, UnderWayInv
  <2> QED BY <2>1, <2>2, <2>3 DEF UnderWayInv
<1>3. CompleteInv'
  <2>1. \A d \in UnderWay' \intersect ToSet(executed) : d \in Replies' \/ (Fresh' /\ d = batch[1])
    BY <1>1 DEF PlaceInv, CompleteInv
  <2>2. pc' \in {"wait", "cdc", "hid"} => batch = <<>>
    BY DEF PlaceInv, CompleteInv
  <2> QED BY <1>1, <2>1, <2>2 DEF PlaceInv, CompleteInv
<1>4. WindowInv'
  <2>1. Replies \subseteq sent
    BY DEF PlaceInv, UnderWayInv, UnderWay
  <2>2. over' \subseteq sent /\ ToSet(answered') \subseteq sent
    BY <2>1 DEF PlaceInv, WindowInv
  <2> QED BY <1>1, <2>2, FewerUnderWay DEF PlaceInv
<1> QED BY <1>2, <1>3, <1>4 DEF PlaceInv

\* The fresh result becomes a reply, or is given up.
LEMMA Settle ==
    ASSUME OrderInv, ReplyInv, OrderedInv, PlaceInv, Fresh, pc' = "toHid",
           \/ Replies' = Replies \union {batch[1]} /\ over' = over
           \/ Replies' = Replies /\ over' = over \union {batch[1]},
           UNCHANGED <<host, sent, ring, hidQueue, executed, batch, origin, answered>>
    PROVE  PlaceInv'
<1> DEFINE b == batch[1]
<1>1. /\ 1 \in 1..Len(batch) /\ b \in ToSet(executed) /\ b \in sent /\ b \in Command
      /\ b \in UnderWay
    BY Placed DEF Fresh, Doing, PlaceInv, UnderWayInv
<1>2. UnderWay' = UnderWay \/ (UnderWay' = UnderWay \ {b} /\ Replies' = Replies)
    BY DEF UnderWay
<1>3. b \notin Replies
    BY <1>1, HeldApart DEF Fresh, PlaceInv
<1>4. b \notin ToSet(ring) \union ToSet(hidQueue)
    BY <1>1, Placed, EarlierApart
<1>5. \A j \in 1..Len(batch) : j # 1 => batch[j] # b
    BY <1>1, Placed, EarlierApart
<1>6. UnderWayInv'
  <2>1. Replies' \subseteq UnderWay' \intersect ToSet(executed)
    BY <1>1, <1>3 DEF PlaceInv, UnderWayInv, UnderWay
  <2>2. ToSet(ring) \union ToSet(hidQueue) \subseteq UnderWay'
    BY <1>2, <1>4 DEF PlaceInv, UnderWayInv
  <2>3. \A j \in 1..Len(batch) : batch[j] \in UnderWay' \/ j = 1
    BY <1>2, <1>5 DEF PlaceInv, UnderWayInv
  <2> QED BY <2>1, <2>2, <2>3 DEF UnderWayInv
<1>7. CompleteInv'
  <2>1. \A d \in UnderWay' \intersect ToSet(executed) : d \in Replies'
    BY <1>2 DEF PlaceInv, CompleteInv, UnderWay
  <2>2. UnderWay' \subseteq UnderWay
    BY <1>2
  <2> QED BY <2>1, <2>2 DEF PlaceInv, CompleteInv
<1>8. WindowInv'
  <2>1. over' \subseteq sent
    BY <1>1 DEF PlaceInv, WindowInv
  <2> QED BY <1>2, <2>1, FewerUnderWay DEF PlaceInv, WindowInv
<1> QED BY <1>6, <1>7, <1>8 DEF PlaceInv
-----------------------------------------------------------------------------
(* The steps that put commands under way and execute them                  *)

LEMMA OneMore ==
    ASSUME WindowInv, NEW c \in Command, c \notin sent, sent' = sent \union {c}, host' = host,
           Cardinality(UnderWay) < host.window, UnderWay' \subseteq UnderWay \union {c},
           over' \subseteq sent', answered' = answered
    PROVE  WindowInv'
<1>1. /\ IsFiniteSet(UnderWay) /\ c \notin UnderWay
      /\ Cardinality(UnderWay) <= host.window
    BY DEF WindowInv, UnderWay
<1>2. /\ IsFiniteSet(UnderWay \union {c})
      /\ Cardinality(UnderWay \union {c}) = Cardinality(UnderWay) + 1
    BY <1>1, FS_AddElement
<1>3. IsFiniteSet(UnderWay') /\ Cardinality(UnderWay') <= Cardinality(UnderWay \union {c})
    BY <1>2, FS_Subset
<1>4. /\ Cardinality(UnderWay) \in Nat /\ Cardinality(UnderWay') \in Nat /\ host.window \in Nat
    BY <1>1, <1>3, FS_CardinalityType, CommandAssumption DEF WindowInv, Host
<1>5. Cardinality(UnderWay') <= host.window
    BY <1>2, <1>3, <1>4
<1> QED BY <1>3, <1>5 DEF WindowInv

LEMMA SameReplies ==
    ASSUME UNCHANGED <<results, sendBuffer, rest, fifo, wire, received>>
    PROVE  Stream' = Stream /\ Replies' = Replies
BY DEF Stream, Replies

LEMMA CdcReceivePlace ==
    ASSUME OrderInv, ReplyInv, OrderedInv, PlaceInv,
           NEW c \in CdcCommand, NEW late \in BOOLEAN, CdcReceive(c, late)
    PROVE  PlaceInv' /\ UnderWay' \subseteq UnderWay \union {c}
<1> DEFINE read == IF pc = "peeked" THEN ToSet(batch) ELSE {}
           lost == (ToSet(ring) \union {c}) \ (ToSet(ring') \union read)
<1>1. /\ Sends(c) /\ over' = over \union lost /\ (ring' = Append(ring, c) \/ ring' = <<c>> \/ ring' = <<>>)
      /\ UNCHANGED <<host, hidQueue, pc, origin, batch, executed, answered>>
      /\ UNCHANGED <<results, sendBuffer, rest, fifo, wire, received>>
  <2>1. Append(<<>>, c) = <<c>>
    OBVIOUS
  <2> QED BY <2>1 DEF CdcReceive, executor, replies, sender, transport
<1>2. Replies' = Replies
    BY <1>1, SameReplies
<1>3. /\ c \notin sent /\ sent' = sent \union {c} /\ \A d \in sent : Earlier(d, c)
      /\ Cardinality(UnderWay) < host.window
  <2>1. /\ sent' = sent \union {c} /\ c \notin sent
        /\ \A d \in sent \intersect CdcCommand : d < c
    <3>1. c \in Own("cdc") /\ "cdc" \in Itf /\ Own("cdc") = CdcCommand /\ SentInv
        BY DEF Own, Itf, OrderInv
    <3> QED BY <1>1, <3>1, SendsLater
  <2> QED BY <1>1, <2>1 DEF Sends, UnderWay, Earlier
<1>4. /\ ToSet(ring') \subseteq ToSet(ring) \union {c}
      /\ ring \in Seq(CdcCommand) /\ batch \in Seq(Own(origin))
  <2>1. ring \in Seq(CdcCommand) /\ batch \in Seq(Own(origin))
    BY DEF OrderInv, BufferInv, BatchInv
  <2>2. CASE ring' = Append(ring, c)
    <3>1. ring' = ring \o <<c>> /\ <<c>> \in Seq(CdcCommand)
        BY <2>1, <2>2, AppendIsConcat
    <3>2. ToSet(ring') = ToSet(ring) \union ToSet(<<c>>)
        BY <2>1, <3>1, SetOfJoin
    <3>3. ToSet(<<c>>) = {c}
        BY DEF ToSet
    <3> QED BY <2>1, <3>2, <3>3
  <2>3. CASE ring' = <<c>> \/ ring' = <<>>
    BY <2>1, <2>3 DEF ToSet
  <2> QED BY <1>1, <2>1, <2>2, <2>3
<1>5. /\ read \subseteq sent /\ (read # {} => read = ToSet(batch))
      /\ \A j \in 1..Len(batch) : batch[j] \in ToSet(batch)
      /\ \A x \in ToSet(batch) : \E j \in 1..Len(batch) : batch[j] = x
  <2>1. /\ \A j \in 1..Len(batch) : batch[j] \in ToSet(batch)
        /\ \A x \in ToSet(batch) : \E j \in 1..Len(batch) : batch[j] = x
    BY <1>4, SetOf
  <2> QED BY <2>1, Placed
<1>m. over \subseteq sent
    BY DEF PlaceInv, WindowInv
<1> HIDE DEF lost, read
<1>l. /\ lost \subseteq ToSet(ring) \union {c} /\ lost \intersect ToSet(ring') = {}
      /\ lost \intersect read = {}
      /\ ToSet(ring) \union {c} \subseteq lost \union ToSet(ring') \union read
    BY DEF lost
<1>u. UnderWay' = (UnderWay \union {c}) \ lost
    BY <1>1, <1>3, <1>m DEF UnderWay
<1>6. UnderWayInv'
  <2>1. Replies' \subseteq UnderWay' \intersect ToSet(executed')
    <3>1. \A x \in Replies : x \notin ToSet(ring) /\ x # c
        BY <1>3, HeldApart DEF PlaceInv, UnderWayInv, UnderWay
    <3> QED BY <3>1, <1>1, <1>2, <1>l, <1>u DEF PlaceInv, UnderWayInv
  <2>2. ToSet(ring') \union ToSet(hidQueue) \subseteq UnderWay'
    <3>1. \A x \in ToSet(hidQueue) : x \notin ToSet(ring) /\ x # c
        BY Placed, CommandFacts
    <3> QED BY <3>1, <1>4, <1>l, <1>u DEF PlaceInv, UnderWayInv
  <2>3. ASSUME NEW j \in 1..Len(batch), ~(pc = "toHid" /\ j = 1) PROVE batch[j] \in UnderWay'
    <3>1. batch[j] \in UnderWay /\ batch[j] \in sent /\ batch[j] \in Command
        BY <2>3, Placed DEF PlaceInv, UnderWayInv
    <3>2. batch[j] # c
        BY <3>1, <1>3
    <3>3. batch[j] \notin lost
      <4>1. CASE pc = "peeked"
        BY <4>1, <1>5, <1>l DEF read
      <4>2. CASE pc # "peeked"
        <5>1. \A r \in ToSet(ring) : Earlier(batch[j], r) /\ r \in Command
            BY <4>2, Placed
        <5> QED BY <5>1, <3>1, <3>2, <1>l, EarlierApart
      <4> QED BY <4>1, <4>2
    <3> QED BY <3>1, <3>3, <1>u
  <2> QED BY <2>1, <2>2, <2>3, <1>1 DEF UnderWayInv
<1>7. CompleteInv'
  <2>1. ToSet(executed) \subseteq sent
    BY Placed
  <2>2. \A d \in UnderWay' \intersect ToSet(executed) : d \in Replies \/ (Fresh /\ d = batch[1])
    BY <2>1, <1>3, <1>u DEF PlaceInv, CompleteInv
  <2>3. \A d \in UnderWay' \ ToSet(executed), e \in ToSet(executed) : Earlier(e, d)
    BY <2>1, <1>3, <1>u DEF PlaceInv, CompleteInv
  <2>4. \A d \in CdcCommand \intersect (UnderWay' \ ToSet(executed)) :
            d \in ToSet(ring') \/ (origin = "cdc" /\ d \in ToSet(batch))
    <3>1. read # {} => origin = "cdc" /\ read = ToSet(batch)
        BY <1>5, Placed DEF read
    <3>2. UnderWay' \subseteq UnderWay \union {c} /\ UnderWay' \intersect lost = {}
        BY <1>u
    <3>3. \A d \in CdcCommand \intersect (UnderWay \ ToSet(executed)) :
            d \in ToSet(ring) \/ (origin = "cdc" /\ d \in ToSet(batch))
        BY DEF PlaceInv, CompleteInv
    <3> QED BY <3>1, <3>2, <3>3, <1>l
  <2>5. \A d, e \in HidCommand \intersect (sent' \ ToSet(executed)) : d = e
    BY <1>3, CommandFacts DEF PlaceInv, CompleteInv
  <2>6. pc \in {"wait", "cdc", "hid"} => batch = <<>>
    BY DEF PlaceInv, CompleteInv
  <2> QED BY <2>2, <2>3, <2>4, <2>5, <2>6, <1>1, <1>2 DEF CompleteInv, Fresh
<1>8. WindowInv'
  <2>1. over' \subseteq sent'
    BY <1>1, <1>3, <1>l, <1>m, Placed
  <2>2. c \in Command
    BY CommandFacts
  <2> QED BY <2>1, <2>2, <1>1, <1>3, <1>u, OneMore DEF PlaceInv
<1> QED BY <1>6, <1>7, <1>8, <1>u DEF PlaceInv

LEMMA HidReceivePlace ==
    ASSUME OrderInv, ReplyInv, OrderedInv, PlaceInv, NEW c \in HidCommand, HidReceive(c)
    PROVE  PlaceInv' /\ UnderWay' = UnderWay \union {c}
<1>1. /\ Sends(c) /\ hidQueue' = Append(hidQueue, c)
      /\ UNCHANGED <<host, over, ring, pc, origin, batch, executed, answered>>
      /\ UNCHANGED <<results, sendBuffer, rest, fifo, wire, received>>
      /\ sent \intersect HidCommand \subseteq ToSet(executed)
    BY DEF HidReceive, executor, replies, sender, transport
<1>2. Replies' = Replies
    BY <1>1, SameReplies
<1>3. /\ c \notin sent /\ sent' = sent \union {c} /\ \A d \in sent : Earlier(d, c)
      /\ Cardinality(UnderWay) < host.window
  <2>1. /\ sent' = sent \union {c} /\ c \notin sent
        /\ \A d \in sent \intersect HidCommand : d < c
    <3>1. c \in Own("hid") /\ "hid" \in Itf /\ Own("hid") = HidCommand /\ SentInv
        BY DEF Own, Itf, OrderInv
    <3> QED BY <1>1, <3>1, SendsLater
  <2>2. sent \subseteq Command
    BY Placed
  <2> QED BY <1>1, <2>1, <2>2, CommandFacts DEF Sends, UnderWay, Earlier
<1>4. ToSet(hidQueue') = ToSet(hidQueue) \union {c}
  <2>1. hidQueue \in Seq(HidCommand)
    BY DEF OrderInv, BufferInv
  <2>2. hidQueue' = hidQueue \o <<c>> /\ <<c>> \in Seq(HidCommand)
    BY <1>1, <2>1, AppendIsConcat
  <2>3. ToSet(hidQueue') = ToSet(hidQueue) \union ToSet(<<c>>)
    BY <2>1, <2>2, SetOfJoin
  <2>4. ToSet(<<c>>) = {c}
    BY DEF ToSet
  <2> QED BY <2>3, <2>4
<1>m. over \subseteq sent
    BY DEF PlaceInv, WindowInv
<1>u. UnderWay' = UnderWay \union {c}
    BY <1>1, <1>3, <1>m DEF UnderWay
<1>6. UnderWayInv'
    BY <1>1, <1>2, <1>4, <1>u DEF PlaceInv, UnderWayInv
<1>7. CompleteInv'
  <2>1. ToSet(executed) \subseteq sent
    BY Placed
  <2>2. \A d \in UnderWay' \intersect ToSet(executed) : d \in Replies \/ (Fresh /\ d = batch[1])
    BY <2>1, <1>3, <1>u DEF PlaceInv, CompleteInv
  <2>3. \A d \in UnderWay' \ ToSet(executed), e \in ToSet(executed) : Earlier(e, d)
    BY <2>1, <1>3, <1>u DEF PlaceInv, CompleteInv
  <2>4. \A d \in CdcCommand \intersect (UnderWay' \ ToSet(executed)) :
            d \in ToSet(ring) \/ (origin = "cdc" /\ d \in ToSet(batch))
    BY <1>u, CommandFacts DEF PlaceInv, CompleteInv
  <2>5. \A d, e \in HidCommand \intersect (sent' \ ToSet(executed)) : d = e
    BY <1>1, <1>3
  <2>6. pc \in {"wait", "cdc", "hid"} => batch = <<>>
    BY DEF PlaceInv, CompleteInv
  <2> QED BY <2>2, <2>3, <2>4, <2>5, <2>6, <1>1, <1>2 DEF CompleteInv, Fresh
<1>8. WindowInv'
  <2>1. c \in Command
    BY CommandFacts
  <2> QED BY <2>1, <1>1, <1>3, <1>m, <1>u, OneMore DEF PlaceInv
<1> QED BY <1>6, <1>7, <1>8, <1>u DEF PlaceInv

\* CMD_MAIN takes commands from a buffer.
LEMMA TakePlace ==
    ASSUME OrderInv, ReplyInv, PlaceInv, Peek \/ MoveQueue
    PROVE  PlaceInv' /\ UnderWay' = UnderWay
<1>1. /\ UNCHANGED <<host, sent, over, ring, executed, answered>>
      /\ UNCHANGED <<results, sendBuffer, rest, fifo, wire, received>>
      /\ pc \in {"cdc", "hid"} /\ pc' \in {"peeked", "moved"}
    BY DEF Peek, MoveQueue, Goes, environment, replies, sender, transport
<1>2. Replies' = Replies /\ UnderWay' = UnderWay /\ ~Fresh /\ batch = <<>>
    BY <1>1, SameReplies DEF UnderWay, Fresh, PlaceInv, CompleteInv
<1>3. /\ (batch' = ring /\ hidQueue' = hidQueue) \/ (batch' = hidQueue /\ hidQueue' = <<>>)
      /\ ring \in Seq(CdcCommand) /\ hidQueue \in Seq(HidCommand)
    BY DEF Peek, MoveQueue, OrderInv, BufferInv
<1>4. \A j \in 1..Len(batch') : batch'[j] \in ToSet(ring) \union ToSet(hidQueue)
    BY <1>3, SetOf
<1>5. ToSet(hidQueue') \subseteq ToSet(hidQueue)
    BY <1>3 DEF ToSet
<1>6. UnderWayInv'
    BY <1>1, <1>2, <1>4, <1>5 DEF PlaceInv, UnderWayInv
<1>7. ToSet(batch) = {}
    BY <1>2 DEF ToSet
<1>8. CompleteInv'
    BY <1>1, <1>2, <1>7 DEF PlaceInv, CompleteInv
<1>9. WindowInv'
    BY <1>1, <1>2 DEF PlaceInv, WindowInv
<1> QED BY <1>2, <1>6, <1>8, <1>9 DEF PlaceInv

LEMMA DiscardPlace ==
    ASSUME OrderInv, ReplyInv, OrderedInv, PlaceInv, Discard
    PROVE  PlaceInv' /\ UnderWay' \subseteq UnderWay
<1> DEFINE lost == ToSet(ring) \ (ToSet(ring') \union ToSet(batch))
<1>1. /\ UNCHANGED <<host, sent, hidQueue, origin, batch, executed, answered>>
      /\ UNCHANGED <<results, sendBuffer, rest, fifo, wire, received>>
      /\ pc = "peeked" /\ pc' = "next" /\ over' = over \union lost
      /\ ring' = SubSeq(ring, Len(batch) + 1, Len(ring))
    BY DEF Discard, Goes, replies, sender, transport
<1>2. Replies' = Replies /\ UnderWay' = UnderWay \ lost /\ ~Fresh /\ ~Fresh' /\ origin = "cdc"
    BY <1>1, SameReplies, Placed DEF UnderWay, Fresh
<1>3. ToSet(ring') \subseteq ToSet(ring)
  <2>1. ring \in Seq(CdcCommand) /\ Len(batch) \in Nat /\ Increasing(ring)
    BY LenProperties DEF OrderInv, BufferInv, BatchInv
  <2>2. /\ ring' \in Seq(CdcCommand)
        /\ \A i \in 1..Len(ring') : i + Len(batch) \in 1..Len(ring) /\ ring'[i] = ring[i + Len(batch)]
    BY <1>1, <2>1, RestKept, CommandFacts
  <2>3. \A x \in ToSet(ring') : \E i \in 1..Len(ring') : ring'[i] = x
    BY <2>2, SetOf
  <2>4. \A i \in 1..Len(ring) : ring[i] \in ToSet(ring)
    BY <2>1, SetOf
  <2> QED BY <2>2, <2>3, <2>4
<1> HIDE DEF lost
<1>4. /\ lost \subseteq ToSet(ring) /\ lost \intersect ToSet(ring') = {} /\ lost \intersect ToSet(batch) = {}
      /\ ToSet(ring) \subseteq lost \union ToSet(ring') \union ToSet(batch)
    BY DEF lost
<1>5. \A j \in 1..Len(batch) : batch[j] \in ToSet(batch)
  <2>1. batch \in Seq(Own(origin))
    BY DEF OrderInv, BatchInv
  <2> QED BY <2>1, SetOf
<1>6. UnderWayInv'
  <2>1. \A x \in Replies : x \notin ToSet(ring)
    BY HeldApart DEF PlaceInv
  <2>2. \A x \in ToSet(hidQueue) : x \notin ToSet(ring)
    BY Placed, CommandFacts
  <2>3. Replies \subseteq UnderWay' \intersect ToSet(executed)
    BY <1>2, <1>4, <2>1 DEF PlaceInv, UnderWayInv
  <2>4. ToSet(ring') \union ToSet(hidQueue) \subseteq UnderWay'
    BY <1>2, <1>3, <1>4, <2>2 DEF PlaceInv, UnderWayInv
  <2>5. \A j \in 1..Len(batch) : batch[j] \in UnderWay'
    BY <1>1, <1>2, <1>4, <1>5 DEF PlaceInv, UnderWayInv
  <2> QED BY <1>1, <1>2, <2>3, <2>4, <2>5 DEF UnderWayInv
<1>7. CompleteInv'
    BY <1>1, <1>2, <1>4 DEF PlaceInv, CompleteInv
<1>8. WindowInv'
  <2>1. over' \subseteq sent
    BY <1>1, <1>4, Placed DEF PlaceInv, WindowInv
  <2> QED BY <1>1, <1>2, <2>1, FewerUnderWay DEF PlaceInv, WindowInv
<1> QED BY <1>2, <1>6, <1>7, <1>8 DEF PlaceInv

\* The next command is executed: of its interface, no other comes before it.
LEMMA ExecutePlace ==
    ASSUME OrderInv, ReplyInv, OrderedInv, PlaceInv, Execute
    PROVE  PlaceInv' /\ UnderWay' = UnderWay /\ OrderedInv'
<1> DEFINE b == batch[1]
<1>1. /\ UNCHANGED <<host, sent, over, ring, hidQueue, origin, batch, answered>>
      /\ UNCHANGED <<results, sendBuffer, rest, fifo, wire, received>>
      /\ batch # <<>> /\ pc = "next" /\ pc' = "toCdc" /\ executed' = Append(executed, b)
  <2>1. batch \in Seq(Own(origin)) /\ (batch # <<>> => Head(batch) = b)
    BY TailIsRest DEF OrderInv, BatchInv
  <2> QED BY <2>1 DEF Execute, Goes, environment, input, replies, sender, transport
<1>2. Stream' = Stream /\ Replies' = Replies /\ UnderWay' = UnderWay /\ ~Fresh /\ Fresh'
    BY <1>1, SameReplies DEF UnderWay, Fresh
<1>3. 1 \in 1..Len(batch) /\ b \in Own(origin) /\ b \in UnderWay /\ batch \in Seq(Own(origin))
      /\ \A x \in ToSet(batch) : \E j \in 1..Len(batch) : batch[j] = x
  <2>1. batch \in Seq(Own(origin))
    BY DEF OrderInv, BatchInv
  <2>2. 1 \in 1..Len(batch)
    BY <1>1, <2>1, TailIsRest
  <2>3. \A x \in ToSet(batch) : \E j \in 1..Len(batch) : batch[j] = x
    BY <2>1, SetOf
  <2> QED BY <1>1, <2>1, <2>2, <2>3, Placed DEF PlaceInv, UnderWayInv
<1>4. ToSet(executed') = ToSet(executed) \union {b}
  <2>1. executed \in Seq(Command) /\ b \in Command
    BY <1>3, CommandFacts DEF OrderInv, ExecutedInv, Own
  <2>2. executed' = executed \o <<b>> /\ <<b>> \in Seq(Command)
    BY <1>1, <2>1, AppendIsConcat
  <2>3. ToSet(executed') = ToSet(executed) \union ToSet(<<b>>)
    BY <2>1, <2>2, SetOfJoin
  <2>4. ToSet(<<b>>) = {b}
    BY DEF ToSet
  <2> QED BY <2>3, <2>4
<1>5. \A e \in ToSet(executed) : Earlier(e, b)
    BY <1>1, <1>3, Placed DEF Doing
<1>6. UnderWayInv'
    BY <1>1, <1>2, <1>4 DEF PlaceInv, UnderWayInv
<1>7. \A d \in UnderWay \ ToSet(executed) : d = b \/ Earlier(b, d)
  <2> SUFFICES ASSUME NEW d \in UnderWay \ ToSet(executed), d # b PROVE Earlier(b, d)
    OBVIOUS
  <2>1. /\ d \in Command /\ b \in sent /\ d \in sent /\ b \notin ToSet(executed) /\ b \in Command
    <3>1. b \in sent /\ d \in sent /\ sent \subseteq Command
        BY <1>3, Placed DEF UnderWay
    <3>2. b \notin ToSet(executed)
        BY <1>5, <3>1, EarlierApart
    <3> QED BY <3>1, <3>2
  <2>2. CASE d \in CdcCommand
    <3>1. CASE d \in ToSet(ring)
        BY <3>1, <1>1, <1>3, Placed
    <3>2. CASE d \notin ToSet(ring)
      <4>1. PICK j \in 1..Len(batch) : batch[j] = d
        BY <2>2, <3>2, <1>3 DEF PlaceInv, CompleteInv
      <4>2. 1 < j
        BY <4>1, <1>3
      <4> QED BY <4>1, <4>2, <1>3, Placed
    <3> QED BY <3>1, <3>2
  <2>3. CASE d \in HidCommand
    <3>1. b \notin HidCommand
        BY <2>1, <2>3 DEF PlaceInv, CompleteInv
    <3> QED BY <3>1, <2>1, <2>3, CommandFacts DEF Earlier
  <2> QED BY <2>1, <2>2, <2>3, CommandFacts
<1>8. CompleteInv'
  <2>1. \A d \in UnderWay' \intersect ToSet(executed') : d \in Replies' \/ (Fresh' /\ d = batch'[1])
    BY <1>1, <1>2, <1>4 DEF PlaceInv, CompleteInv
  <2>2. \A d \in UnderWay' \ ToSet(executed'), e \in ToSet(executed') : Earlier(e, d)
    BY <1>2, <1>4, <1>7 DEF PlaceInv, CompleteInv
  <2>3. pc' \notin {"wait", "cdc", "hid"}
    BY <1>1
  <2> QED BY <2>1, <2>2, <2>3, <1>1, <1>2, <1>4 DEF PlaceInv, CompleteInv
<1>9. WindowInv'
    BY <1>1, <1>2 DEF PlaceInv, WindowInv
<1>10. OrderedInv'
    BY <1>1, <1>2, <1>5 DEF OrderedInv, PlaceInv, UnderWayInv
<1> QED BY <1>2, <1>6, <1>8, <1>9, <1>10 DEF PlaceInv

LEMMA HandedOverPlace ==
    ASSUME OrderInv, ReplyInv, PlaceInv, HidSendReplies \/ HidTimeout
    PROVE  PlaceInv' /\ UnderWay' = UnderWay
<1>1. /\ UNCHANGED <<host, sent, over, ring, hidQueue, origin, executed, answered>>
      /\ UNCHANGED <<results, sendBuffer, rest, fifo, wire, received>>
      /\ pc = "toHid" /\ pc' = "next" /\ batch' = Tail(batch)
    BY DEF HidSendReplies, HidTimeout, Goes, environment, input, replies, sender, transport
<1>2. Replies' = Replies /\ UnderWay' = UnderWay /\ ~Fresh
    BY <1>1, SameReplies DEF UnderWay, Fresh
<1>3. /\ 1 \in 1..Len(batch) /\ batch[1] \in ToSet(executed)
      /\ \A j \in 1..Len(batch') : j + 1 \in 1..Len(batch) /\ batch'[j] = batch[j + 1]
      /\ \A x \in ToSet(batch) : x = batch[1] \/ x \in ToSet(batch')
  <2>1. 1 \in 1..Len(batch) /\ batch[1] \in ToSet(executed) /\ batch \in Seq(Own(origin))
    BY <1>1, Placed DEF Doing, OrderInv, BatchInv
  <2>2. batch # <<>> /\ Len(batch) \in Nat \ {0}
    BY <2>1, EmptySeq
  <2>3. /\ batch' \in Seq(Own(origin)) /\ Len(batch') = Len(batch) - 1
        /\ \A j \in 1..Len(batch') : batch'[j] = batch[j + 1]
    <3>1. /\ batch' = SubSeq(batch, 1 + 1, Len(batch)) /\ 1 \in 0..Len(batch)
        BY <1>1, <2>1, <2>2, TailIsRest
    <3> QED BY <3>1, <2>1, Suffix
  <2>4. \A x \in ToSet(batch) : x = batch[1] \/ x \in ToSet(batch')
    <3> TAKE x \in ToSet(batch)
    <3>1. PICK j \in 1..Len(batch) : batch[j] = x
        BY <2>1, SetOf
    <3>2. CASE j # 1
      <4>1. j - 1 \in 1..Len(batch') /\ (j - 1) + 1 = j
        BY <3>1, <3>2, <2>2, <2>3
      <4>2. batch'[j - 1] = x
        BY <4>1, <3>1, <2>3
      <4> QED BY <4>1, <4>2, <2>3, SetOf
    <3> QED BY <3>1, <3>2
  <2> QED BY <2>1, <2>2, <2>3, <2>4
<1>4. UnderWayInv'
  <2>1. ASSUME NEW j \in 1..Len(batch') PROVE batch'[j] \in UnderWay
    <3>1. j + 1 \in 1..Len(batch) /\ batch'[j] = batch[j + 1] /\ j + 1 # 1
        BY <1>3
    <3> QED BY <3>1 DEF PlaceInv, UnderWayInv
  <2> QED BY <2>1, <1>1, <1>2 DEF PlaceInv, UnderWayInv
<1>5. CompleteInv'
    BY <1>1, <1>2, <1>3 DEF PlaceInv, CompleteInv
<1>6. WindowInv'
    BY <1>1, <1>2 DEF PlaceInv, WindowInv
<1> QED BY <1>2, <1>4, <1>5, <1>6 DEF PlaceInv

\* The other steps of CMD_MAIN that are not about a result.
LEMMA MovePlace ==
    ASSUME OrderInv, PlaceInv,
           Wake \/ SkipCdc \/ SkipHid \/ ClearQueue \/ ResetReady \/ BatchDone
    PROVE  PlaceInv' /\ UnderWay' = UnderWay
<1>1. /\ UNCHANGED <<host, sent, over, ring, origin, batch, executed, answered>>
      /\ UNCHANGED <<results, sendBuffer, rest, fifo, wire, received>>
      /\ (hidQueue' = hidQueue \/ hidQueue' = <<>>)
      /\ pc \notin {"toCdc", "insert", "toHid"} /\ pc' \notin {"toCdc", "insert", "toHid"}
      /\ \/ pc' \notin {"wait", "cdc", "hid"} \/ batch = <<>> \/ pc \in {"wait", "cdc", "hid"}
    BY DEF Wake, SkipCdc, SkipHid, ClearQueue, ResetReady, BatchDone, Goes, environment, input,
        replies, sender, transport
<1>2. Replies' = Replies /\ UnderWay' = UnderWay /\ ~Fresh /\ ~Fresh'
    BY <1>1, SameReplies DEF UnderWay, Fresh
<1>3. ToSet(hidQueue') \subseteq ToSet(hidQueue)
    BY <1>1 DEF ToSet
<1>4. UnderWayInv'
    BY <1>1, <1>2, <1>3 DEF PlaceInv, UnderWayInv
<1>5. CompleteInv'
    BY <1>1, <1>2 DEF PlaceInv, CompleteInv
<1>6. WindowInv'
    BY <1>1, <1>2 DEF PlaceInv, WindowInv
<1> QED BY <1>2, <1>4, <1>5, <1>6 DEF PlaceInv
-----------------------------------------------------------------------------
(* Results become replies                                                  *)

\* While CMD_MAIN inserts a result, CDCCMD does not empty a vector with
\* others.  Results of another interface are sent before those of the terminal
\* are collected, and a rest or a full FIFO before there are any.
NotifyInv ==
    /\ pc = "insert" => results = snapshot /\ (cdcNotified => results = <<>>)
    /\ nextFormat => ToSet(results) \subseteq HidCommand
    /\ results # <<>> /\ ~cdcNotified =>
            /\ pc \in Doing \union {"next"}
            /\ \A c \in ToSet(results) : c \in CdcCommand <=> origin = "cdc"
    /\ (cdcPc = "rest" /\ sendBuffer # <<>>) \/ rest # <<>> => results = <<>> /\ pc # "insert"
    /\ cdcPc = "take" /\ (results # <<>> \/ pc = "insert") => Len(sendBuffer) = 1 /\ fifo = <<>>

DeliveryInv == ChannelInv /\ StreamInv /\ OrderedInv /\ PlaceInv /\ NotifyInv

LEMMA QuietNotify ==
    ASSUME NotifyInv, UNCHANGED <<results, snapshot, nextFormat, cdcPc, sendBuffer, rest, fifo>>,
           pc' = "insert" => pc = "insert" /\ cdcNotified' = cdcNotified,
           results # <<>> /\ ~cdcNotified' =>
                ~cdcNotified /\ pc' \in Doing \union {"next"} /\ origin' = origin
    PROVE  NotifyInv'
BY DEF NotifyInv

LEMMA QuietChannel ==
    ASSUME ChannelInv, StreamInv,
           UNCHANGED <<host, cdcPc, sem, sendBuffer, rest, fifo, wire, received>>,
           results' \in Seq(Command), snapshot' \in Seq(Command)
    PROVE  ChannelInv' /\ StreamInv' /\ Stream' = Stream
<1>1. Stream' = Stream
    BY DEF Stream
<1>2. ChannelInv'
    BY DEF ChannelInv
<1> QED BY <1>1, <1>2 DEF StreamInv

\* Steps that touch neither replies nor the result in work.
LEMMA QuietSteps ==
    ASSUME ChannelInv, StreamInv, OrderedInv,
           UNCHANGED <<host, cdcPc, sem, sendBuffer, rest, fifo, wire, received, results, snapshot>>,
           pc' \notin {"toCdc", "insert"} \/ (pc' = pc /\ batch' = batch)
    PROVE  ChannelInv' /\ StreamInv' /\ OrderedInv'
<1>1. ChannelInv' /\ StreamInv' /\ Stream' = Stream
    BY QuietChannel DEF ChannelInv
<1> QED BY <1>1 DEF OrderedInv, Fresh, Replies

LEMMA ResultsNone ==
    ASSUME ChannelInv
    PROVE  results = <<>> <=> ToSet(results) = {}
<1>1. results \in Seq(Command)
    BY DEF ChannelInv
<1>2. results = <<>> => ToSet(results) = {}
    BY DEF ToSet
<1>3. results # <<>> => 1 \in 1..Len(results)
    BY <1>1, TailIsRest
<1> QED BY <1>1, <1>2, <1>3, SetOf

\* Replies of one place are of other commands than those of the others.
LEMMA ResultsApart ==
    ASSUME ChannelInv, OrderedInv
    PROVE  ToSet(Stream) \intersect ToSet(results) = {}
<1>1. Stream \in Seq(Command) /\ results \in Seq(Command)
    BY StreamSet DEF ChannelInv
<1>2. ToSet(Stream) \subseteq Command /\ ToSet(results) \subseteq Command
    BY <1>1, SetOf
<1> QED BY <1>2, EarlierApart DEF OrderedInv

\* The case for which the host must be careful: CDCCMD waits to send a string
\* while a transfer runs, and the next result is inserted.
LEMMA Crowded ==
    ASSUME OrderInv, ReplyInv, DeliveryInv, BeginInsert, cdcPc = "take"
    PROVE  results = <<>> /\ Len(sendBuffer) = 1 /\ fifo = <<>>
<1>i. ChannelInv /\ StreamInv /\ OrderedInv /\ UnderWayInv /\ WindowInv
    BY DEF DeliveryInv, PlaceInv
<1> DEFINE x == wire[1]
           a == sendBuffer[1]
           b == batch[1]
<1>1. ~sem /\ pc = "toCdc" /\ rest = <<>>
    BY DEF BeginInsert, Goes, CdcRuns, CdcReady
<1>2. wire # <<>> /\ sendBuffer # <<>> /\ wire \in Seq(Command) /\ sendBuffer \in Seq(Command)
      /\ fifo \in Seq(Command) /\ received \in Seq(Command) /\ Len(wire) <= 1
    BY <1>1, <1>i DEF ChannelInv
<1>3. /\ 1 \in 1..Len(wire) /\ 1 \in 1..Len(sendBuffer) /\ Len(wire) = 1
      /\ x \in ToSet(wire) /\ a \in ToSet(sendBuffer)
  <2>1. 1 \in 1..Len(wire) /\ 1 \in 1..Len(sendBuffer) /\ Len(wire) \in Nat
    BY <1>2, TailIsRest, LenProperties
  <2>2. Len(wire) = 1
    <3>1. Len(wire) <= 1
        BY <1>2
    <3> HIDE DEF x, a, b
    <3> QED BY <2>1, <3>1
  <2>3. wire[1] \in ToSet(wire) /\ sendBuffer[1] \in ToSet(sendBuffer)
    BY <2>1, <1>2, SetOf
  <2> QED BY <2>1, <2>2, <2>3
<1>4. x \in Replies /\ a \in Replies /\ x \in ToSet(Stream) /\ a \in ToSet(Stream) /\ x # a
    BY <1>i, <1>3, StreamSet DEF Replies, StreamInv
<1>5. /\ b \in UnderWay /\ b \in Command /\ Replies \subseteq UnderWay /\ Replies \subseteq Command
      /\ \A c \in Replies : Earlier(c, b)
    BY <1>1, <1>i, Placed DEF UnderWayInv, OrderedInv, Fresh, Doing, UnderWay
<1>6. \A c \in Replies : c # b
    BY <1>5, EarlierApart
<1>7. UnderWay = {x, a, b} /\ host.long = {}
  <2> HIDE DEF x, a, b
  <2> QED BY <1>i, <1>4, <1>5, <1>6, Full
<1>8. results = <<>>
    BY <1>i, <1>4, <1>5, <1>6, <1>7, ResultsNone, ResultsApart DEF Replies
<1>9. \A c \in ToSet(sendBuffer) : c = a
    BY <1>i, <1>3, <1>5, <1>6, <1>7, StreamSet DEF StreamInv, Replies
<1>10. \A c \in ToSet(fifo) : c = x
    BY <1>i, <1>3, <1>5, <1>6, <1>7, StreamSet DEF StreamInv, Replies
<1> HIDE DEF x, a, b
<1>11. \A c : Size(host.long, c) = 1
    BY <1>7 DEF Size
<1>12. Len(sendBuffer) = 1
  <2> SUFFICES ASSUME Len(sendBuffer) # 1 PROVE FALSE
    OBVIOUS
  <2>1. Len(sendBuffer) \in Nat /\ 2 \in 1..Len(sendBuffer)
    BY <1>2, <1>3, LenProperties
  <2>2. WholeReplies(host.long, sendBuffer)
    BY <1>i DEF StreamInv
  <2>3. PICK q \in 0..Len(sendBuffer) :
            /\ q < 2 /\ 2 <= q + 1
            /\ \A r \in 1..Len(sendBuffer) : sendBuffer[r] = sendBuffer[2] <=> q < r /\ r <= q + 1
    BY <2>1, <2>2, <1>11 DEF WholeReplies
  <2>4. ~(q < 1)
    BY <2>1, <2>3
  <2>5. sendBuffer[1] # sendBuffer[2]
    BY <2>3, <2>4, <1>3
  <2>6. sendBuffer[1] \in ToSet(sendBuffer) /\ sendBuffer[2] \in ToSet(sendBuffer)
    BY <2>1, <1>2, <1>3, SetOf
  <2> QED BY <2>5, <2>6, <1>9
<1>13. fifo = <<>>
  <2> SUFFICES ASSUME fifo # <<>> PROVE FALSE
    OBVIOUS
  <2>1. 1 \in 1..Len(fifo) /\ Len(fifo) \in Nat
    BY <1>2, TailIsRest, LenProperties
  <2>2. fifo[1] = x
    BY <2>1, <1>2, <1>10, SetOf
  <2> DEFINE y == rest \o sendBuffer
             z == fifo \o y
             w == wire \o z
  <2>3. y \in Seq(Command)
    <3>1. rest \in Seq(Command)
        BY <1>i DEF ChannelInv
    <3> QED BY <3>1, <1>2, Joined
  <2> HIDE DEF y
  <2>4. z \in Seq(Command) /\ Len(z) = Len(fifo) + Len(y) /\ Len(y) \in Nat /\ z[1] = fifo[1]
    <3>1. /\ z \in Seq(Command) /\ Len(z) = Len(fifo) + Len(y) /\ Len(y) \in Nat
          /\ \A i \in 1..Len(fifo) + Len(y) : z[i] = IF i <= Len(fifo) THEN fifo[i] ELSE y[i - Len(fifo)]
        BY <1>2, <2>3, ConcatProperties, LenProperties
    <3> HIDE DEF z
    <3>2. 1 \in 1..Len(fifo) + Len(y) /\ 1 <= Len(fifo)
        BY <2>1, <3>1
    <3> QED BY <3>1, <3>2
  <2> HIDE DEF z
  <2>5. w \in Seq(Command) /\ Len(w) = 1 + Len(z) /\ Len(z) \in Nat /\ w[1] = wire[1] /\ w[2] = z[1]
        /\ 1 \in 1..Len(w) /\ 2 \in 1..Len(w)
    <3>1. /\ w \in Seq(Command) /\ Len(w) = 1 + Len(z) /\ Len(z) \in Nat
          /\ \A i \in 1..1 + Len(z) : w[i] = IF i <= 1 THEN wire[i] ELSE z[i - 1]
      <4>1. wire \in Seq(Command) /\ z \in Seq(Command)
        BY <1>2, <2>4
      <4>2. /\ w \in Seq(Command) /\ Len(w) = Len(wire) + Len(z) /\ Len(z) \in Nat
            /\ \A i \in 1..Len(wire) + Len(z) :
                    w[i] = IF i <= Len(wire) THEN wire[i] ELSE z[i - Len(wire)]
        BY <4>1, ConcatProperties, LenProperties
      <4> HIDE DEF w
      <4> QED BY <4>2, <1>3
    <3> HIDE DEF w
    <3>2. 1 \in 1..1 + Len(z) /\ 2 \in 1..1 + Len(z) /\ 1 <= 1 /\ ~(2 <= 1) /\ 2 - 1 = 1
        BY <2>1, <2>4, <3>1
    <3> QED BY <3>1, <3>2
  <2> HIDE DEF w
  <2>6. Stream = received \o w
    BY DEF Stream, w, z, y
  <2>7. received = <<>>
    <3>1. Stream # <<>>
        BY <2>5, <2>6, <1>2, ConcatEqualIffEmpty, EmptySeq
    <3>2. Len(received) < 1 /\ Len(received) \in Nat
        BY <3>1, <1>i, <1>2, <1>11, LenProperties DEF StreamInv
    <3> QED BY <3>2, <1>2, EmptySeq
  <2>8. Stream = w
    BY <2>5, <2>6, <2>7, ConcatEmptySeq
  <2>9. PICK q \in 0..Len(w) :
            /\ q < 2 /\ 2 <= q + 1
            /\ \A r \in 1..Len(w) : w[r] = w[2] <=> q < r /\ r <= q + 1
    <3>1. WholeReplies(host.long, w)
        BY <2>8, <1>i DEF StreamInv
    <3> QED BY <3>1, <2>5, <1>11 DEF WholeReplies
  <2>10. ~(q < 1)
    BY <2>5, <2>9
  <2> QED BY <2>2, <2>4, <2>5, <2>9, <2>10 DEF x
<1> QED BY <1>8, <1>12, <1>13

LEMMA BeginInsertDelivery ==
    ASSUME OrderInv, ReplyInv, DeliveryInv, BeginInsert
    PROVE  DeliveryInv' /\ UnderWay' \subseteq UnderWay
<1>i. ChannelInv /\ StreamInv /\ OrderedInv /\ PlaceInv /\ NotifyInv
    BY DEF DeliveryInv
<1>1. /\ UNCHANGED <<host, sent, ring, hidQueue, origin, batch, executed, nextFormat, answered>>
      /\ UNCHANGED <<cdcPc, cdcNotified, sem, sendBuffer, rest, fifo, wire, received>>
      /\ rest = <<>> /\ pc = "toCdc" /\ pc' = "insert" /\ ~CdcRuns
      /\ (results' = <<>> \/ results' = results) /\ snapshot' = results'
      /\ over' = over \union (ToSet(results) \ (ToSet(results') \union {Junk}))
    BY DEF BeginInsert, CdcReady, Goes, input, sender, transport
<1>2. results \in Seq(Command) /\ results' \in Seq(Command) /\ ToSet(results) \subseteq Command
      /\ Junk \notin ToSet(results) /\ ToSet(results') \subseteq ToSet(results)
  <2>1. results \in Seq(Command)
    BY <1>i DEF ChannelInv
  <2>2. ToSet(results) \subseteq Command
    BY <2>1, SetOf
  <2>3. ToSet(<<>>) = {} /\ <<>> \in Seq(Command)
    BY DEF ToSet
  <2> QED BY <1>1, <2>1, <2>2, <2>3, CommandFacts
<1>3. ChannelInv' /\ StreamInv' /\ Stream' = Stream
    BY <1>1, <1>2, <1>i, QuietChannel
<1>4. Replies' \subseteq Replies
    BY <1>2, <1>3 DEF Replies
<1>5. OrderedInv'
  <2>1. Sorted(results')
    BY <1>1, <1>i DEF Sorted, OrderedInv
  <2>2. \A c \in Replies' : Earlier(c, batch[1])
    BY <1>1, <1>4, <1>i DEF OrderedInv, Fresh
  <2> QED BY <2>1, <2>2, <1>1, <1>2, <1>3, <1>i DEF OrderedInv
<1> DEFINE G == ToSet(results) \ ToSet(results')
<1>6. G \subseteq Replies /\ over' = over \union G /\ Replies' = Replies \ G
    BY <1>1, <1>2, <1>3, <1>i, ResultsApart DEF Replies
<1>7. answered' \in Seq(Command) /\ UnderWay' \subseteq UnderWay
    BY <1>1, <1>i DEF PlaceInv, WindowInv, UnderWay
<1>8. PlaceInv'
  <2> HIDE DEF G
  <2> QED BY <1>1, <1>6, <1>7, <1>i, Retire
<1>9. NotifyInv'
  <2>1. cdcPc # "rest" /\ (cdcPc = "idle" => ~cdcNotified) /\ cdcPc \in {"idle", "take", "rest"}
    BY <1>1, <1>i DEF CdcRuns, ChannelInv
  <2>2. cdcPc = "take" => results = <<>> /\ results' = <<>> /\ Len(sendBuffer) = 1 /\ fifo = <<>>
    BY <1>1, Crowded
  <2>3. cdcNotified => results' = <<>>
    BY <2>1, <2>2
  <2>4. results' # <<>> /\ ~cdcNotified => \A c \in ToSet(results') : c \in CdcCommand <=> origin = "cdc"
    BY <1>1, <1>i DEF NotifyInv
  <2>5. nextFormat => ToSet(results') \subseteq HidCommand
    BY <1>2, <1>i DEF NotifyInv
  <2> QED BY <1>1, <2>1, <2>2, <2>3, <2>4, <2>5 DEF NotifyInv, Doing
<1> QED BY <1>3, <1>5, <1>7, <1>8, <1>9 DEF DeliveryInv

LEMMA EndInsertDelivery ==
    ASSUME OrderInv, ReplyInv, DeliveryInv, EndInsert
    PROVE  DeliveryInv' /\ UnderWay' = UnderWay
<1>i. ChannelInv /\ StreamInv /\ OrderedInv /\ PlaceInv /\ NotifyInv
    BY DEF DeliveryInv
<1> DEFINE b == batch[1]
<1>1. /\ UNCHANGED <<host, sent, over, ring, hidQueue, origin, batch, executed, answered>>
      /\ UNCHANGED <<cdcPc, sem, sendBuffer, rest, fifo, wire, received>>
      /\ pc = "insert" /\ pc' = "toHid" /\ snapshot' = <<>>
      /\ results' \in IF results = snapshot THEN {Append(results, Head(batch))}
                      ELSE {Append(snapshot, Head(batch)), <<Junk>>}
      /\ nextFormat' = (origin # "cdc") /\ (cdcNotified => cdcNotified')
    BY DEF EndInsert, Goes, environment, input, transport
<1>2. 1 \in 1..Len(batch) /\ b \in Own(origin) /\ b \in Command /\ Head(batch) = b
  <2>1. batch \in Seq(Own(origin)) /\ 1 \in 1..Len(batch) /\ batch # <<>>
    BY <1>1, Placed DEF OrderInv, BatchInv, Doing
  <2> QED BY <2>1, TailIsRest, Placed
<1>3. results \in Seq(Command) /\ results' = Append(results, b)
    BY <1>1, <1>2, <1>i DEF ChannelInv, NotifyInv
<1>4. /\ results' \in Seq(Command) /\ Len(results') = Len(results) + 1 /\ Len(results) \in Nat
      /\ \A i \in 1..Len(results) : results'[i] = results[i]
      /\ results'[Len(results) + 1] = b
    BY <1>2, <1>3, AppendProperties, LenProperties
<1>5. ToSet(results') = ToSet(results) \union {b}
  <2>1. results' = results \o <<b>> /\ <<b>> \in Seq(Command)
    BY <1>2, <1>3, AppendIsConcat
  <2>2. ToSet(results') = ToSet(results) \union ToSet(<<b>>)
    BY <2>1, <1>3, SetOfJoin
  <2>3. ToSet(<<b>>) = {b}
    BY DEF ToSet
  <2> QED BY <2>2, <2>3
<1>6. ChannelInv' /\ StreamInv' /\ Stream' = Stream
  <2>1. snapshot' \in Seq(Command)
    BY <1>1
  <2> QED BY <1>1, <1>4, <1>i, <2>1, QuietChannel
<1>7. OrderedInv'
  <2>1. \A c \in Replies : Earlier(c, b)
    BY <1>1, <1>i DEF OrderedInv, Fresh
  <2>2. Sorted(results')
    <3> SUFFICES ASSUME NEW i \in 1..Len(results'), NEW j \in 1..Len(results'), i < j
                 PROVE  Earlier(results'[i], results'[j])
        BY DEF Sorted
    <3>1. i \in 1..Len(results) /\ results'[i] = results[i] /\ results[i] \in Replies
      <4>1. i \in 1..Len(results)
        BY <1>4
      <4> QED BY <4>1, <1>3, <1>4, SetOf DEF Replies
    <3>2. CASE j \in 1..Len(results)
      <4>1. Earlier(results[i], results[j])
        BY <3>1, <3>2, <1>i DEF OrderedInv, Sorted
      <4> QED BY <4>1, <3>1, <3>2, <1>4
    <3>3. CASE j \notin 1..Len(results)
      <4>1. j = Len(results) + 1
        BY <3>3, <1>4
      <4> QED BY <4>1, <3>1, <2>1, <1>4
    <3> QED BY <3>2, <3>3
  <2>3. \A c \in ToSet(Stream'), d \in ToSet(results') : Earlier(c, d)
    BY <2>1, <1>5, <1>6, <1>i DEF OrderedInv, Replies
  <2> QED BY <2>2, <2>3, <1>1 DEF OrderedInv, Fresh
<1>8. PlaceInv' /\ UnderWay' = UnderWay
  <2>1. Replies' = Replies \union {b} /\ Fresh
    BY <1>1, <1>5, <1>6 DEF Replies, Fresh
  <2> QED BY <2>1, <1>1, <1>i, Settle DEF UnderWay
<1>9. NotifyInv'
  <2>1. origin = "cdc" \/ origin = "hid"
    BY DEF OrderInv, BatchInv, Itf
  <2>2. b \in CdcCommand <=> origin = "cdc"
    BY <2>1, <1>2, CommandFacts DEF Own
  <2>3. \A c \in ToSet(results') : c \in CdcCommand <=> origin = "cdc"
    <3>1. \A c \in ToSet(results) : c \in CdcCommand <=> origin = "cdc"
      <4>1. results = <<>> => ToSet(results) = {}
        BY DEF ToSet
      <4>2. results # <<>> => ~cdcNotified
        BY <1>1, <1>i DEF NotifyInv
      <4> QED BY <4>1, <4>2, <1>i DEF NotifyInv
    <3> QED BY <3>1, <2>2, <1>5
  <2>4. origin # "cdc" => ToSet(results') \subseteq HidCommand
    <3>1. ToSet(results') \subseteq Command
        BY <1>4, SetOf
    <3> QED BY <3>1, <2>3, CommandFacts
  <2>5. ~(cdcPc = "rest" /\ sendBuffer # <<>>) /\ rest = <<>>
    BY <1>1, <1>i DEF NotifyInv
  <2>6. cdcPc = "take" => Len(sendBuffer) = 1 /\ fifo = <<>>
    BY <1>1, <1>i DEF NotifyInv
  <2> QED BY <1>1, <2>3, <2>4, <2>5, <2>6 DEF NotifyInv, Doing
<1> QED BY <1>6, <1>7, <1>8, <1>9 DEF DeliveryInv

LEMMA CdcTimeoutDelivery ==
    ASSUME OrderInv, ReplyInv, DeliveryInv, CdcTimeout
    PROVE  DeliveryInv' /\ UnderWay' \subseteq UnderWay
<1>i. ChannelInv /\ StreamInv /\ OrderedInv /\ PlaceInv /\ NotifyInv
    BY DEF DeliveryInv
<1>1. /\ UNCHANGED <<host, sent, ring, hidQueue, origin, batch, executed, answered, nextFormat>>
      /\ UNCHANGED <<cdcPc, cdcNotified, sem, sendBuffer, rest, fifo, wire, received, results, snapshot>>
      /\ pc = "toCdc" /\ pc' = "toHid" /\ over' = over \union {Head(batch)}
    BY DEF CdcTimeout, Goes, input, replies, sender, transport
<1>2. Head(batch) = batch[1]
  <2>1. batch \in Seq(Own(origin)) /\ batch # <<>>
    BY <1>1 DEF OrderInv, BatchInv, Doing
  <2> QED BY <2>1, TailIsRest
<1>3. ChannelInv' /\ StreamInv' /\ OrderedInv'
    BY <1>1, <1>i, QuietSteps
<1>4. PlaceInv'
  <2>1. Replies' = Replies /\ Fresh
    BY <1>1, SameReplies DEF Fresh
  <2> QED BY <2>1, <1>1, <1>2, <1>i, Settle
<1>5. NotifyInv'
    BY <1>1, <1>i, QuietNotify DEF NotifyInv, Doing
<1>6. UnderWay' \subseteq UnderWay
    BY <1>1 DEF UnderWay
<1> QED BY <1>3, <1>4, <1>5, <1>6 DEF DeliveryInv
-----------------------------------------------------------------------------
(* Replies go to the terminal                                              *)

\* What CDCCMD formats is added to the stream; the other results are given up.
LEMMA FormatDelivery ==
    ASSUME OrderInv, ReplyInv, DeliveryInv, Format
    PROVE  DeliveryInv' /\ UnderWay' \subseteq UnderWay
<1>i. ChannelInv /\ StreamInv /\ OrderedInv /\ PlaceInv /\ NotifyInv
    BY DEF DeliveryInv
<1> DEFINE fs == Formatted(results, nextFormat)
           text == AllUnits(fs)
           G == (ToSet(results) \intersect HidCommand) \ ToSet(text)
<1>1. /\ UNCHANGED <<host, sent, ring, hidQueue, pc, origin, batch, executed, answered>>
      /\ UNCHANGED <<snapshot, nextFormat, sem, rest, fifo, wire, received>>
      /\ cdcPc = "idle" /\ cdcNotified /\ sendBuffer' = text /\ results' = <<>>
      /\ over' = over \union G
      /\ cdcPc' = IF text = <<>> THEN "idle" ELSE "take"
    BY DEF Format, input, executor, transport
<1>2. /\ results \in Seq(Command) /\ snapshot \in Seq(Command) /\ rest \in Seq(Command)
      /\ fifo \in Seq(Command) /\ wire \in Seq(Command) /\ received \in Seq(Command)
      /\ sendBuffer = <<>>
    BY <1>1, <1>i DEF ChannelInv
<1>3. /\ fs \in Seq(Command) /\ Sorted(fs) /\ ToSet(fs) \subseteq ToSet(results)
      /\ ~nextFormat => fs = results
    BY <1>2, <1>i, FormattedFirst DEF OrderedInv
<1> HIDE DEF fs
<1>4. TextOf(text, fs, Len(fs))
    BY <1>3, TextWhole
<1> HIDE DEF text
<1>5. /\ text \in Seq(Command) /\ WholeReplies(host.long, text) /\ InOrder(text)
      /\ ToSet(text) = ToSet(fs)
  <2>1. /\ text \in Seq(Command) /\ WholeReplies(host.long, text) /\ InOrder(text)
        /\ \A p \in 1..Len(text) : \E i \in 1..Len(fs) : text[p] = fs[i]
        /\ \A i \in 1..Len(fs) : \E p \in 1..Len(text) : text[p] = fs[i]
    BY <1>4 DEF TextOf
  <2>2. /\ \A x \in ToSet(text) : \E p \in 1..Len(text) : text[p] = x
        /\ \A p \in 1..Len(text) : text[p] \in ToSet(text)
    BY <2>1, SetOf
  <2>3. /\ \A x \in ToSet(fs) : \E p \in 1..Len(fs) : fs[p] = x
        /\ \A p \in 1..Len(fs) : fs[p] \in ToSet(fs)
    BY <1>3, SetOf
  <2>4. ASSUME NEW x \in ToSet(text) PROVE x \in ToSet(fs)
    <3>1. PICK p \in 1..Len(text) : text[p] = x
        BY <2>2
    <3>2. PICK i \in 1..Len(fs) : text[p] = fs[i]
        BY <2>1
    <3> QED BY <3>1, <3>2, <2>3
  <2>5. ASSUME NEW x \in ToSet(fs) PROVE x \in ToSet(text)
    <3>1. PICK p \in 1..Len(fs) : fs[p] = x
        BY <2>3
    <3>2. PICK i \in 1..Len(text) : fs[p] = text[i]
        BY <2>1
    <3> QED BY <3>1, <3>2, <2>2
  <2> QED BY <2>1, <2>4, <2>5
<1>6. ToSet(text) \subseteq ToSet(results) /\ ToSet(results) \ G = ToSet(text)
  <2>1. nextFormat => ToSet(results) \subseteq HidCommand
    BY <1>i DEF NotifyInv
  <2> QED BY <2>1, <1>3, <1>5
<1>7. results = <<>> => text = <<>>
  <2> SUFFICES ASSUME results = <<>>, text # <<>> PROVE FALSE
    OBVIOUS
  <2>1. 1 \in 1..Len(text)
    BY <1>5, TailIsRest
  <2>2. text[1] \in ToSet(text)
    BY <2>1, <1>5, SetOf
  <2>3. ToSet(results) = {}
    BY DEF ToSet
  <2> QED BY <2>2, <2>3, <1>6
<1>8. text # <<>> => rest = <<>> /\ pc # "insert"
    BY <1>1, <1>7, <1>i DEF NotifyInv
<1>9. ChannelInv'
  <2>1. <<>> \in Seq(Command)
    OBVIOUS
  <2>2. text \in Seq(Command)
    BY <1>5
  <2> QED BY <2>1, <2>2, <1>1, <1>2, <1>8, <1>i DEF ChannelInv
<1>10. Stream' = Stream \o text /\ Stream \in Seq(Command)
  <2> DEFINE a == rest \o sendBuffer
             b == fifo \o a
             c == wire \o b
  <2>0. text \in Seq(Command) /\ sendBuffer \in Seq(Command) /\ sendBuffer \o text = text
    BY <1>2, <1>5, ConcatEmptySeq
  <2>1. a \in Seq(Command) /\ a \o text = rest \o text
    <3>1. rest \in Seq(Command) /\ sendBuffer \in Seq(Command) /\ text \in Seq(Command)
        BY <1>2, <2>0
    <3>2. a \in Seq(Command)
        BY <3>1, Joined
    <3>3. a \o text = rest \o (sendBuffer \o text)
        BY <3>1, Regroup
    <3> QED BY <2>0, <3>2, <3>3
  <2> HIDE DEF a
  <2>2. b \in Seq(Command) /\ b \o text = fifo \o (a \o text)
    <3>1. fifo \in Seq(Command) /\ text \in Seq(Command)
        BY <1>2, <2>0
    <3> QED BY <2>1, <3>1, Joined, Regroup
  <2> HIDE DEF b
  <2>3. c \in Seq(Command) /\ c \o text = wire \o (b \o text)
    <3>1. wire \in Seq(Command) /\ text \in Seq(Command)
        BY <1>2, <2>0
    <3> QED BY <2>2, <3>1, Joined, Regroup
  <2> HIDE DEF c
  <2>4. received \o c \in Seq(Command) /\ (received \o c) \o text = received \o (c \o text)
    <3>1. received \in Seq(Command) /\ text \in Seq(Command)
        BY <1>2, <2>0
    <3> QED BY <2>3, <3>1, Joined, Regroup
  <2>5. Stream = received \o c
    BY DEF Stream, a, b, c
  <2>6. Stream' = received \o (wire \o (fifo \o (rest \o text)))
    BY <1>1 DEF Stream
  <2> QED BY <2>1, <2>2, <2>3, <2>4, <2>5, <2>6
<1>11. ToSet(Stream') = ToSet(Stream) \union ToSet(text)
    BY <1>5, <1>10, SetOfJoin
<1>12. /\ \A i \in 1..Len(Stream), j \in 1..Len(text) : Earlier(Stream[i], text[j]) /\ Stream[i] # text[j]
       /\ (ToSet(wire) \union ToSet(fifo)) \intersect ToSet(text) = {}
  <2>1. \A i \in 1..Len(Stream) : Stream[i] \in ToSet(Stream)
    BY <1>10, SetOf
  <2>2. \A j \in 1..Len(text) : text[j] \in ToSet(results)
    BY <1>5, <1>6, SetOf
  <2>3. \A c \in ToSet(Stream), d \in ToSet(results) : Earlier(c, d) /\ c # d
    BY <1>i, ResultsApart DEF OrderedInv
  <2>4. ToSet(wire) \subseteq ToSet(Stream) /\ ToSet(fifo) \subseteq ToSet(Stream)
    BY <1>i, StreamSet
  <2> QED BY <2>1, <2>2, <2>3, <2>4, <1>6
<1>13. StreamInv'
  <2>1. WholeReplies(host.long, Stream') /\ InOrder(Stream')
    <3>1. \A i \in 1..Len(Stream), j \in 1..Len(text) : Stream[i] # text[j]
        BY <1>12
    <3>2. WholeReplies(host.long, Stream \o text)
        BY <3>1, <1>5, <1>10, <1>i, WholeJoin DEF StreamInv
    <3>3. InOrder(Stream \o text)
        BY <1>5, <1>10, <1>12, <1>i, OrderJoin DEF StreamInv
    <3> QED BY <3>2, <3>3, <1>10
  <2>2. Stream' # <<>> => Len(received') < Size(host.long, Stream'[1])
    <3>1. CASE Stream = <<>>
      <4>1. received = <<>> /\ Len(received) = 0
        <5> DEFINE c == wire \o (fifo \o (rest \o sendBuffer))
        <5>1. c \in Seq(Command)
          <6>1. rest \o sendBuffer \in Seq(Command)
            <7>1. rest \in Seq(Command) /\ sendBuffer \in Seq(Command)
                BY <1>2
            <7> QED BY <7>1, Joined
          <6>2. fifo \o (rest \o sendBuffer) \in Seq(Command)
            BY <6>1, <1>2, Joined
          <6> QED BY <6>2, <1>2, Joined
        <5> HIDE DEF c
        <5>2. received \o c = <<>>
            BY <3>1 DEF Stream, c
        <5>3. received \in Seq(Command)
            BY <1>2
        <5>4. received = <<>>
            BY <5>1, <5>2, <5>3, ConcatEqualIffEmpty
        <5> QED BY <5>4
      <4>2. Size(host.long, Stream'[1]) \in Nat \ {0}
        BY SizePositive
      <4> QED BY <4>1, <4>2, <1>1
    <3>2. CASE Stream # <<>>
      <4>1. 1 \in 1..Len(Stream) /\ Len(Stream) \in Nat /\ Len(text) \in Nat
        BY <3>2, <1>5, <1>10, TailIsRest, LenProperties
      <4>2. Stream'[1] = Stream[1]
        <5>1. \A i \in 1..Len(Stream) + Len(text) :
                (Stream \o text)[i] = IF i <= Len(Stream) THEN Stream[i] ELSE text[i - Len(Stream)]
            BY <1>5, <1>10, ConcatProperties
        <5>2. 1 \in 1..Len(Stream) + Len(text) /\ 1 <= Len(Stream)
            BY <4>1
        <5> QED BY <5>1, <5>2, <1>10
      <4> QED BY <3>2, <4>2, <1>1, <1>i DEF StreamInv
    <3> QED BY <3>1, <3>2
  <2> QED BY <2>1, <2>2, <1>1, <1>5, <1>12 DEF StreamInv
<1>14. Replies' = Replies \ G /\ G \subseteq Replies
  <2>1. ToSet(results') = {}
    BY <1>1 DEF ToSet
  <2>2. ToSet(Stream) \intersect ToSet(results) = {}
    BY <1>i, ResultsApart
  <2> QED BY <2>1, <2>2, <1>6, <1>11 DEF Replies
<1>15. OrderedInv'
  <2>1. results' = <<>> /\ ToSet(results') = {} /\ Len(results') = 0
    BY <1>1 DEF ToSet
  <2>2. Sorted(results')
    BY <2>1 DEF Sorted
  <2> QED BY <2>1, <2>2, <1>1, <1>14, <1>i DEF OrderedInv, Fresh
<1>16. PlaceInv'
  <2>1. answered' \in Seq(Command) /\ ToSet(answered') \subseteq ToSet(answered) \union Replies
    BY <1>1, <1>i DEF PlaceInv, WindowInv
  <2> HIDE DEF G
  <2> QED BY <2>1, <1>1, <1>14, <1>i, Retire
<1>17. NotifyInv'
  <2>1. pc = "insert" => results' = snapshot
    BY <1>1, <1>i DEF NotifyInv
  <2>2. ToSet(results') = {}
    BY <1>1 DEF ToSet
  <2>3. rest # <<>> => pc # "insert"
    BY <1>i DEF NotifyInv
  <2> QED BY <2>1, <2>2, <2>3, <1>1, <1>8 DEF NotifyInv
<1>18. UnderWay' \subseteq UnderWay
    BY <1>1 DEF UnderWay
<1> QED BY <1>9, <1>13, <1>15, <1>16, <1>17, <1>18 DEF DeliveryInv

LEMMA SendDelivery ==
    ASSUME OrderInv, ReplyInv, DeliveryInv, Send \/ KeepRest
    PROVE  DeliveryInv' /\ UnderWay' = UnderWay
<1>i. ChannelInv /\ StreamInv /\ OrderedInv /\ PlaceInv /\ NotifyInv
    BY DEF DeliveryInv
<1>1. /\ UNCHANGED <<host, sent, over, ring, hidQueue, pc, origin, batch, executed, answered>>
      /\ UNCHANGED <<results, snapshot, nextFormat, cdcNotified, received>>
    BY DEF Send, KeepRest, environment, input, executor, replies
<1>2. Stream' = Stream /\ ChannelInv' /\ cdcPc' # "take"
    BY <1>i, SendKeeps, KeepRestKeeps DEF Send, KeepRest
<1>3. StreamInv'
    BY <1>1, <1>2, <1>i DEF StreamInv
<1>4. Replies' = Replies /\ UnderWay' = UnderWay
    BY <1>1, <1>2 DEF Replies, UnderWay
<1>5. OrderedInv'
    BY <1>1, <1>2, <1>4, <1>i DEF OrderedInv, Fresh
<1>6. PlaceInv'
  <2>1. /\ {} \subseteq Replies /\ over' = over \union {} /\ Replies' = Replies \ {}
        /\ answered' \in Seq(Command) /\ ToSet(answered') \subseteq ToSet(answered) \union Replies
    BY <1>1, <1>4, <1>i DEF PlaceInv, WindowInv
  <2> QED BY <2>1, <1>1, <1>i, Retire
<1>7. NotifyInv'
  <2>1. (cdcPc' = "rest" /\ sendBuffer' # <<>>) \/ rest' # <<>> => results = <<>> /\ pc # "insert"
    <3>1. CASE Send
      <4>1. cdcPc = "take" /\ rest' = rest /\ rest = <<>>
        BY <3>1, <1>i DEF Send, ChannelInv
      <4>2. results # <<>> \/ pc = "insert" => sendBuffer' = <<>>
        <5> SUFFICES ASSUME results # <<>> \/ pc = "insert" PROVE sendBuffer' = <<>>
            OBVIOUS
        <5>1. Len(sendBuffer) = 1 /\ fifo = <<>>
            BY <4>1, <1>i DEF NotifyInv
        <5>2. Len(fifo) = 0 /\ FifoSize \in Nat \ {0}
            BY <5>1, CommandAssumption
        <5>3. Len(sendBuffer) <= FifoSize - Len(fifo)
            BY <5>1, <5>2
        <5> QED BY <3>1, <5>3, <1>i, SendKeeps
      <4> QED BY <4>1, <4>2
    <3>2. CASE KeepRest
      <4>1. cdcPc = "rest" /\ cdcPc' = "idle" /\ rest' = sendBuffer
        BY <3>2 DEF KeepRest
      <4> QED BY <4>1, <1>i DEF NotifyInv
    <3> QED BY <3>1, <3>2
  <2> QED BY <2>1, <1>1, <1>2, <1>i DEF NotifyInv
<1> QED BY <1>2, <1>3, <1>4, <1>5, <1>6, <1>7 DEF DeliveryInv

\* The reply the terminal has got is the first of all that are under way.
LEMMA FinishedDelivery ==
    ASSUME OrderInv, ReplyInv, DeliveryInv, Finished, NEW u, u = Head(wire)
    PROVE  /\ DeliveryInv'
           /\ \/ UnderWay' = UnderWay /\ answered' = answered
              \/ /\ u \in UnderWay /\ u \in Command /\ UnderWay' = UnderWay \ {u}
                 /\ answered' = Append(answered, u)
                 /\ \A d \in UnderWay : d = u \/ Earlier(u, d)
<1>i. ChannelInv /\ StreamInv /\ OrderedInv /\ PlaceInv /\ NotifyInv
    BY DEF DeliveryInv
<1>1. /\ UNCHANGED <<host, sent, ring, hidQueue, pc, origin, batch, executed>>
      /\ UNCHANGED <<results, snapshot, nextFormat, cdcNotified>>
    BY DEF Finished, input, executor, replies, sender
<1>2. /\ ChannelInv' /\ sendBuffer' = sendBuffer /\ results' = results /\ cdcPc' = cdcPc
      /\ (fifo = <<>> /\ rest = <<>> => fifo' = <<>>) /\ (rest = <<>> => rest' = <<>>)
    BY <1>i, FinishedTakes
<1>3. /\ StreamInv' /\ u \in ToSet(Stream) /\ u \in Command
      /\ \/ /\ ToSet(Stream') = ToSet(Stream) \ {u} /\ over' = over \union {u}
            /\ answered' = Append(answered, u)
            /\ \A c \in ToSet(Stream) : c = u \/ Earlier(u, c)
         \/ ToSet(Stream') = ToSet(Stream) /\ over' = over /\ answered' = answered
    BY <1>i, FinishedStream
<1>4. u \in Replies /\ u \notin ToSet(results) /\ u \in UnderWay /\ u \in ToSet(executed)
    BY <1>3, <1>i, ResultsApart DEF Replies, PlaceInv, UnderWayInv
<1>5. ToSet(Stream') \subseteq ToSet(Stream) /\ Replies' \subseteq Replies
    BY <1>1, <1>3 DEF Replies
<1>6. OrderedInv'
    BY <1>1, <1>5, <1>i DEF OrderedInv, Fresh
<1>7. NotifyInv'
  <2>1. cdcPc = "take" => rest = <<>>
    BY <1>i DEF ChannelInv
  <2> QED BY <2>1, <1>1, <1>2, <1>i DEF NotifyInv
<1>8. CASE ToSet(Stream') = ToSet(Stream) /\ over' = over /\ answered' = answered
  <2>1. /\ {} \subseteq Replies /\ over' = over \union {} /\ Replies' = Replies \ {}
        /\ answered' \in Seq(Command) /\ ToSet(answered') \subseteq ToSet(answered) \union Replies
    BY <1>1, <1>8, <1>i DEF PlaceInv, WindowInv, Replies
  <2>2. PlaceInv'
    BY <2>1, <1>1, <1>i, Retire
  <2> QED BY <2>2, <1>1, <1>2, <1>3, <1>6, <1>7, <1>8 DEF DeliveryInv, UnderWay
<1>9. CASE /\ ToSet(Stream') = ToSet(Stream) \ {u} /\ over' = over \union {u}
           /\ answered' = Append(answered, u)
           /\ \A c \in ToSet(Stream) : c = u \/ Earlier(u, c)
  <2>1. answered \in Seq(Command)
    BY <1>i DEF PlaceInv, WindowInv
  <2>2. answered' = answered \o <<u>> /\ <<u>> \in Seq(Command)
    BY <2>1, <1>3, <1>9, AppendIsConcat
  <2>3. answered' \in Seq(Command) /\ ToSet(answered') = ToSet(answered) \union ToSet(<<u>>)
    <3> DEFINE t == <<u>>
    <3>1. t \in Seq(Command) /\ answered' = answered \o t
        BY <2>2
    <3> HIDE DEF t
    <3>2. answered \o t \in Seq(Command)
        BY <2>1, <3>1, Joined
    <3>3. ToSet(answered \o t) = ToSet(answered) \union ToSet(t)
        BY <2>1, <3>1, SetOfJoin
    <3>4. ToSet(answered') = ToSet(answered) \union ToSet(t)
        BY <3>1, <3>3
    <3> QED BY <3>1, <3>2, <3>4 DEF t
  <2>4. ToSet(<<u>>) = {u}
    BY DEF ToSet
  <2>5. /\ {u} \subseteq Replies /\ over' = over \union {u} /\ Replies' = Replies \ {u}
        /\ ToSet(answered') \subseteq ToSet(answered) \union Replies
    BY <2>3, <2>4, <1>1, <1>4, <1>9 DEF Replies
  <2>6. PlaceInv'
    BY <2>3, <2>5, <1>1, <1>i, Retire
  <2>7. ASSUME NEW d \in UnderWay PROVE d = u \/ Earlier(u, d)
    <3>1. CASE d \notin ToSet(executed)
        BY <3>1, <1>4, <1>i DEF PlaceInv, CompleteInv
    <3>2. CASE d \in ToSet(Stream)
        BY <3>2, <1>9
    <3>3. CASE d \in ToSet(results)
        BY <3>3, <1>3, <1>i DEF OrderedInv
    <3>4. CASE Fresh /\ d = batch[1]
        BY <3>4, <1>4, <1>i DEF OrderedInv
    <3> QED BY <3>1, <3>2, <3>3, <3>4, <1>i DEF PlaceInv, CompleteInv, Replies
  <2>8. UnderWay' = UnderWay \ {u}
    BY <1>1, <1>9 DEF UnderWay
  <2> QED BY <2>6, <2>7, <2>8, <1>2, <1>3, <1>4, <1>6, <1>7, <1>9 DEF DeliveryInv
<1> QED BY <1>3, <1>8, <1>9
-----------------------------------------------------------------------------
(* The other steps, and the theorems                                       *)

\* Commands arrive.
LEMMA ReceiveDelivery ==
    ASSUME OrderInv, ReplyInv, DeliveryInv,
           NEW c \in Command,
           \/ c \in CdcCommand /\ \E late \in BOOLEAN : CdcReceive(c, late)
           \/ c \in HidCommand /\ HidReceive(c)
    PROVE  DeliveryInv' /\ UnderWay' \subseteq UnderWay \union {c} /\ answered' = answered
<1>i. ChannelInv /\ StreamInv /\ OrderedInv /\ PlaceInv /\ NotifyInv
    BY DEF DeliveryInv
<1>1. /\ UNCHANGED <<host, cdcPc, sem, sendBuffer, rest, fifo, wire, received, results, snapshot>>
      /\ UNCHANGED <<nextFormat, cdcNotified, pc, batch, origin, answered>>
    BY DEF CdcReceive, HidReceive, executor, replies, sender, transport
<1>2. PlaceInv' /\ UnderWay' \subseteq UnderWay \union {c}
    BY <1>i, CdcReceivePlace, HidReceivePlace
<1>3. ChannelInv' /\ StreamInv' /\ OrderedInv'
    BY <1>1, <1>i, QuietSteps
<1>4. NotifyInv'
  <2>1. results # <<>> /\ ~cdcNotified => pc \in Doing \union {"next"}
    BY <1>i DEF NotifyInv
  <2> QED BY <2>1, <1>1, <1>i, QuietNotify
<1> QED BY <1>1, <1>2, <1>3, <1>4 DEF DeliveryInv

\* CMD_MAIN moves on.
LEMMA MoveDelivery ==
    ASSUME OrderInv, ReplyInv, DeliveryInv,
           \/ Peek \/ MoveQueue \/ Discard \/ Execute \/ HidSendReplies \/ HidTimeout
           \/ Wake \/ SkipCdc \/ SkipHid \/ ClearQueue \/ ResetReady \/ BatchDone
    PROVE  DeliveryInv' /\ UnderWay' \subseteq UnderWay /\ answered' = answered
<1>i. ChannelInv /\ StreamInv /\ OrderedInv /\ PlaceInv /\ NotifyInv
    BY DEF DeliveryInv
<1>1. /\ UNCHANGED <<host, cdcPc, sem, sendBuffer, rest, fifo, wire, received, results, snapshot>>
      /\ UNCHANGED <<nextFormat, answered>> /\ pc' # "insert" /\ (Execute \/ pc' # "toCdc")
    BY DEF Peek, MoveQueue, Discard, Execute, HidSendReplies, HidTimeout, Wake, SkipCdc, SkipHid,
        ClearQueue, ResetReady, BatchDone, Goes, environment, replies, sender, transport
<1>2. PlaceInv' /\ UnderWay' \subseteq UnderWay
    BY <1>i, TakePlace, DiscardPlace, ExecutePlace, HandedOverPlace, MovePlace
<1>3. ChannelInv' /\ StreamInv' /\ OrderedInv'
  <2>1. CASE Execute
    <3>1. results' \in Seq(Command) /\ snapshot' \in Seq(Command)
        BY <1>1, <1>i DEF ChannelInv
    <3> QED BY <2>1, <3>1, <1>1, <1>i, QuietChannel, ExecutePlace
  <2>2. CASE pc' # "toCdc"
    BY <2>2, <1>1, <1>i, QuietSteps
  <2> QED BY <1>1, <2>1, <2>2
<1>4. NotifyInv'
  <2>1. results # <<>> /\ ~cdcNotified => pc \in Doing \union {"next"}
    BY <1>i DEF NotifyInv
  <2>2. results # <<>> /\ ~cdcNotified' =>
            ~cdcNotified /\ pc' \in Doing \union {"next"} /\ origin' = origin
    <3>1. CASE Execute \/ HidSendReplies \/ HidTimeout
        BY <3>1 DEF Execute, HidSendReplies, HidTimeout, Goes, sender, Doing
    <3>2. CASE BatchDone
        BY <3>2 DEF BatchDone
    <3>3. CASE \/ Peek \/ MoveQueue \/ Discard \/ Wake \/ SkipCdc \/ SkipHid \/ ClearQueue
               \/ ResetReady
      <4>1. pc \notin Doing \union {"next"} /\ cdcNotified' = cdcNotified
        BY <3>3 DEF Peek, MoveQueue, Discard, Wake, SkipCdc, SkipHid, ClearQueue, ResetReady, Goes,
            sender, Doing
      <4> QED BY <4>1, <2>1
    <3> QED BY <3>1, <3>2, <3>3
  <2> QED BY <2>2, <1>1, <1>i, QuietNotify
<1> QED BY <1>1, <1>2, <1>3, <1>4 DEF DeliveryInv

\* HIDCMD, and time, leave all that alone.
LEMMA IdleDelivery ==
    ASSUME OrderInv, ReplyInv, DeliveryInv, HidCmd \/ TimePasses \/ UNCHANGED vars
    PROVE  DeliveryInv' /\ UnderWay' = UnderWay /\ answered' = answered
<1>i. ChannelInv /\ StreamInv /\ OrderedInv /\ PlaceInv /\ NotifyInv
    BY DEF DeliveryInv
<1>1. /\ UNCHANGED <<host, cdcPc, sem, sendBuffer, rest, fifo, wire, received, results, snapshot>>
      /\ UNCHANGED <<nextFormat, cdcNotified, answered>>
      /\ UNCHANGED <<sent, over, ring, hidQueue, executed, batch, origin, pc>>
    BY DEF HidCmd, HidWake, HidIsReady, HidSend, HidDone, TimePasses, vars, environment, input,
        executor, replies, sender, transport
<1>2. Replies' = Replies /\ UnderWay' = UnderWay
    BY <1>1, SameReplies DEF UnderWay
<1>3. PlaceInv'
  <2>1. /\ {} \subseteq Replies /\ over' = over \union {} /\ Replies' = Replies \ {}
        /\ answered' \in Seq(Command) /\ ToSet(answered') \subseteq ToSet(answered) \union Replies
    BY <1>1, <1>2, <1>i DEF PlaceInv, WindowInv
  <2> QED BY <2>1, <1>1, <1>i, Retire
<1>4. ChannelInv' /\ StreamInv' /\ OrderedInv'
    BY <1>1, <1>i, QuietSteps
<1>5. NotifyInv'
  <2>1. results # <<>> /\ ~cdcNotified => pc \in Doing \union {"next"}
    BY <1>i DEF NotifyInv
  <2> QED BY <2>1, <1>1, <1>i, QuietNotify
<1> QED BY <1>1, <1>2, <1>3, <1>4, <1>5 DEF DeliveryInv

LEMMA InitDelivery == Init /\ Careful(host) => DeliveryInv
<1> SUFFICES ASSUME Init, Careful(host) PROVE DeliveryInv
    OBVIOUS
<1>1. /\ host \in Hosts /\ sent = {} /\ over = {} /\ ring = <<>> /\ hidQueue = <<>>
      /\ pc = "cdc" /\ origin = "cdc" /\ batch = <<>> /\ executed = <<>>
      /\ results = <<>> /\ snapshot = <<>> /\ nextFormat = FALSE
      /\ cdcNotified = FALSE /\ cdcPc = "idle" /\ sendBuffer = <<>> /\ sem = TRUE /\ rest = <<>>
      /\ fifo = <<>> /\ wire = <<>> /\ received = <<>> /\ answered = <<>>
    BY DEF Init
<1>2. <<>> \in Seq(Command) /\ Len(<<>>) = 0 /\ ToSet(<<>>) = {} /\ <<>> \o <<>> = <<>>
    BY ConcatEmptySeq DEF ToSet
<1>3. Stream = <<>> /\ ToSet(Stream) = {} /\ Replies = {} /\ UnderWay = {} /\ ~Fresh
    BY <1>1, <1>2 DEF Stream, Replies, UnderWay, Fresh
<1>4. ChannelInv
    BY <1>1, <1>2, CommandAssumption DEF ChannelInv
<1>5. StreamInv
    BY <1>1, <1>2, <1>3 DEF StreamInv, WholeReplies, InOrder
<1>6. OrderedInv
    BY <1>1, <1>2, <1>3 DEF OrderedInv, Sorted
<1>7. WindowInv
  <2>1. IsFiniteSet(UnderWay) /\ Cardinality(UnderWay) = 0
    BY <1>3, FS_EmptySet
  <2>2. host.window \in Nat
    BY <1>1, CommandAssumption DEF Host
  <2> QED BY <2>1, <2>2, <1>1, <1>2 DEF WindowInv
<1>8. PlaceInv
    BY <1>1, <1>2, <1>3, <1>7 DEF PlaceInv, UnderWayInv, CompleteInv
<1>9. NotifyInv
    BY <1>1, <1>2 DEF NotifyInv
<1> QED BY <1>4, <1>5, <1>6, <1>8, <1>9 DEF DeliveryInv

LEMMA NextDelivery == OrderInv /\ ReplyInv /\ DeliveryInv /\ [Next]_vars => DeliveryInv'
<1> SUFFICES ASSUME OrderInv, ReplyInv, DeliveryInv, [Next]_vars PROVE DeliveryInv'
    OBVIOUS
<1>1. CASE \/ \E c \in CdcCommand, late \in BOOLEAN : CdcReceive(c, late)
           \/ \E c \in HidCommand : HidReceive(c)
  <2>1. CdcCommand \subseteq Command /\ HidCommand \subseteq Command
    BY CommandFacts
  <2> QED BY <1>1, <2>1, ReceiveDelivery
<1>2. CASE \/ Peek \/ MoveQueue \/ Discard \/ Execute \/ HidSendReplies \/ HidTimeout
           \/ Wake \/ SkipCdc \/ SkipHid \/ ClearQueue \/ ResetReady \/ BatchDone
    BY <1>2, MoveDelivery
<1>3. CASE BeginInsert \/ EndInsert \/ CdcTimeout
    BY <1>3, BeginInsertDelivery, EndInsertDelivery, CdcTimeoutDelivery
<1>4. CASE Format \/ Send \/ KeepRest
    BY <1>4, FormatDelivery, SendDelivery
<1>5. CASE Finished
    BY <1>5, FinishedDelivery
<1>6. CASE HidCmd \/ TimePasses \/ UNCHANGED vars
    BY <1>6, IdleDelivery
<1> QED BY <1>1, <1>2, <1>3, <1>4, <1>5, <1>6 DEF Next, CmdMain, CdcCmd

LEMMA DeliveryInvariant == Spec /\ Careful(host) => [](OrderInv /\ ReplyInv /\ DeliveryInv)
<1>1. Init /\ Careful(host) => OrderInv /\ ReplyInv /\ DeliveryInv
    BY InitOrder, InitReply, InitDelivery
<1>2. OrderInv /\ ReplyInv /\ DeliveryInv /\ [Next]_vars => (OrderInv /\ ReplyInv /\ DeliveryInv)'
    BY NextOrder, NextReply, NextDelivery
<1> QED BY <1>1, <1>2, PTL DEF Spec

\* For any number of commands on both interfaces, any size of the FIFO and the
\* buffers, also if commands take long, are given up, or the host stops
\* reading: as long as a host has no more commands under way than Careful
\* allows, what the terminal reads are whole replies.  CMD_MAIN never loses
\* the vector it inserts into to CDCCMD, nor CDCCMD the rest of a long reply
\* to the next one.
THEOREM RepliesWhole == Spec /\ Careful(host) => []RepliesIntact
<1>1. DeliveryInv => RepliesIntact
  <2> SUFFICES ASSUME DeliveryInv PROVE RepliesIntact
    OBVIOUS
  <2>1. ChannelInv /\ StreamInv
    BY DEF DeliveryInv
  <2>2. received \in Seq(Command) /\ rest \in Seq(Command) /\ results \in Seq(Command)
    BY <2>1 DEF ChannelInv
  <2>3. \A i \in DOMAIN received : received[i] = received[1]
    BY <2>1, <2>2, ReceivedFirst, LenProperties
  <2>4. ToSet(received) \union ToSet(rest) \union ToSet(results) \subseteq Command
    BY <2>2, SetOf
  <2>5. 0 \notin Command
    BY CommandFacts
  <2> QED BY <2>3, <2>4, <2>5 DEF RepliesIntact
<1> QED BY <1>1, DeliveryInvariant, PTL

\* Of the two interfaces, the peers of a command are those of its own.
LEMMA PeersOf ==
    ASSUME NEW c \in Command, NEW d \in Service!Peers(c)
    PROVE  d \in Command /\ (c \in CdcCommand <=> d \in CdcCommand)
BY CommandFacts DEF Service!Peers

\* Whatever is under way or answered on the interface of a new command was
\* sent before it.
LEMMA Accepts ==
    ASSUME OrderInv, ReplyInv, DeliveryInv, NEW c \in Command,
           \/ c \in CdcCommand /\ \E late \in BOOLEAN : CdcReceive(c, late)
           \/ c \in HidCommand /\ HidReceive(c)
    PROVE  Service!Accept(c)
<1>1. Sends(c) /\ host' = host /\ SentInv
    BY DEF CdcReceive, HidReceive, OrderInv
<1>2. /\ \A d \in sent \intersect CdcCommand : c \in CdcCommand => d < c
      /\ \A d \in sent \intersect HidCommand : c \in HidCommand => d < c
  <2>1. c \in CdcCommand => \A d \in sent \intersect CdcCommand : d < c
    BY <1>1, SendsLater DEF Itf, Own
  <2>2. c \in HidCommand => \A d \in sent \intersect HidCommand : d < c
    BY <1>1, SendsLater DEF Itf, Own
  <2> QED BY <2>1, <2>2
<1>3. ToSet(answered) \subseteq sent /\ answered \in Seq(Command)
    BY DEF DeliveryInv, PlaceInv, WindowInv
<1>4. ASSUME NEW d \in Service!Peers(c),
             d \in sent \ over \/ \E i \in DOMAIN answered : answered[i] = d
      PROVE  d < c
  <2>1. d \in sent
    BY <1>3, <1>4 DEF ToSet
  <2>2. d \in Command /\ (c \in CdcCommand <=> d \in CdcCommand)
    BY PeersOf
  <2> QED BY <2>1, <2>2, <1>2, CommandFacts
<1>5. UnderWay' \in SUBSET (UnderWay \union {c}) /\ answered' = answered
    BY ReceiveDelivery
<1> QED BY <1>4, <1>5 DEF Service!Accept, UnderWay

\* For any number of commands, any sizes and any careful host: the command
\* system implements ReplyService.  Executing, collecting, formatting, sending
\* and the rest of a long reply are invisible to the terminal; it gets each
\* result at most once, whole, and the results of an interface in the order of
\* its commands.
THEOREM ServesTerminal == Spec /\ Careful(host) => ImplementsService
<1>1. Init => Service!Init
    BY DEF Init, Service!Init
<1>2. OrderInv /\ ReplyInv /\ DeliveryInv /\ [Next]_vars
        => [Service!Next]_<<sent \ over, answered>>
  <2> SUFFICES ASSUME OrderInv, ReplyInv, DeliveryInv, [Next]_vars
               PROVE  Service!Next \/ UNCHANGED <<sent \ over, answered>>
    OBVIOUS
  <2>1. CASE \/ \E c \in CdcCommand, late \in BOOLEAN : CdcReceive(c, late)
             \/ \E c \in HidCommand : HidReceive(c)
    <3>1. CdcCommand \subseteq Command /\ HidCommand \subseteq Command
        BY CommandFacts
    <3> QED BY <2>1, <3>1, Accepts DEF Service!Next
  <2>2. CASE Finished
    <3> DEFINE u == Head(wire)
    <3>1. CASE UnderWay' = UnderWay /\ answered' = answered
        BY <3>1 DEF UnderWay
    <3>2. CASE /\ u \in UnderWay /\ u \in Command /\ UnderWay' = UnderWay \ {u}
               /\ answered' = Append(answered, u)
               /\ \A d \in UnderWay : d = u \/ Earlier(u, d)
      <4>1. ASSUME NEW d \in Service!Peers(u) \intersect UnderWay PROVE u <= d
        <5>1. d \in Command /\ (u \in CdcCommand <=> d \in CdcCommand)
            BY <3>2, PeersOf
        <5>2. u \in Nat /\ d \in Nat
            BY <3>2, <5>1, CommandFacts
        <5>3. d = u \/ u < d
            BY <3>2, <5>1 DEF Earlier
        <5> QED BY <5>2, <5>3
      <4>2. Service!Answer(u)
        BY <3>2, <4>1 DEF Service!Answer, UnderWay
      <4> QED BY <3>2, <4>2 DEF Service!Next
    <3> QED BY <2>2, <3>1, <3>2, FinishedDelivery
  <2>3. CASE \/ Peek \/ MoveQueue \/ Discard \/ Execute \/ HidSendReplies \/ HidTimeout
             \/ Wake \/ SkipCdc \/ SkipHid \/ ClearQueue \/ ResetReady \/ BatchDone
             \/ BeginInsert \/ EndInsert \/ CdcTimeout \/ Format \/ Send \/ KeepRest
             \/ HidCmd \/ TimePasses \/ UNCHANGED vars
    <3>1. UnderWay' \subseteq UnderWay
        BY <2>3, MoveDelivery, BeginInsertDelivery, EndInsertDelivery, CdcTimeoutDelivery,
            FormatDelivery, SendDelivery, IdleDelivery
    <3>2. answered' = answered
      <4>1. CASE \/ BeginInsert \/ EndInsert \/ CdcTimeout \/ Format \/ Send \/ KeepRest
        BY <4>1 DEF BeginInsert, EndInsert, CdcTimeout, Format, Send, KeepRest, transport
      <4> QED BY <2>3, <4>1, MoveDelivery, IdleDelivery
    <3>3. Service!GiveUp
        BY <3>1, <3>2 DEF Service!GiveUp, UnderWay
    <3> QED BY <3>3 DEF Service!Next
  <2> QED BY <2>1, <2>2, <2>3 DEF Next, CmdMain, CdcCmd
<1> QED BY <1>1, <1>2, DeliveryInvariant, PTL DEF Spec, ImplementsService, Service!Spec
=============================================================================
