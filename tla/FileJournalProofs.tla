------------------------- MODULE FileJournalProofs -------------------------
(***************************************************************************)
(* Theorems about FileJournal, for every payment, set of amounts and keys, *)
(* size of a record and size bound.                                        *)
(***************************************************************************)
EXTENDS FileJournal, FiniteSetTheorems, TLAPS

-----------------------------------------------------------------------------
(* What a history refunds: its units are counted, one event at a time.     *)

LEMMA AmountsAreNat == \A event \in RefundEvent : event.amount \in Nat
<1>1. \A event \in RefundEvent : event.amount \in Amounts
  BY DEF RefundEvent
<1> QED
  BY <1>1, FileJournalAssumption

LEMMA IntervalSize ==
    ASSUME NEW n \in Nat
    PROVE  IsFiniteSet(1..n) /\ Cardinality(1..n) = n
<1>1. 1 \in Int /\ n \in Int
  OBVIOUS
<1>2. IsFiniteSet(1..n) /\ Cardinality(1..n) = IF 1 > n THEN 0 ELSE n - 1 + 1
  BY <1>1, FS_Interval
<1> QED
  BY <1>2

LEMMA UnitsAreFinite ==
    ASSUME NEW events \in Seq(RefundEvent)
    PROVE  IsFiniteSet(Units(events))
<1> DEFINE ofEvent == [k \in DOMAIN events |-> {k} \X (1..events[k].amount)]
           parts == {{k} \X (1..events[k].amount) : k \in DOMAIN events}
<1>1. ofEvent \in Surjection(DOMAIN events, parts)
  BY DEF Surjection
<1>2. IsFiniteSet(DOMAIN events)
  BY FS_Interval
<1>3. IsFiniteSet(parts)
  BY <1>1, <1>2, FS_Surjection
<1>4. ASSUME NEW k \in DOMAIN events
      PROVE  IsFiniteSet({k} \X (1..events[k].amount))
  <2>1. events[k].amount \in Nat
    BY AmountsAreNat
  <2>2. IsFiniteSet({k}) /\ IsFiniteSet(1..events[k].amount)
    BY <2>1, IntervalSize, FS_Singleton
  <2> QED
    BY <2>2, FS_Product
<1> QED
  BY <1>3, <1>4, FS_UNION DEF Units

LEMMA RefundedOfNone == Refunded(<<>>) = 0
<1>1. Units(<<>>) = {}
  BY DEF Units
<1> QED
  BY <1>1, FS_EmptySet DEF Refunded

LEMMA RefundedOfAppend ==
    ASSUME NEW events \in Seq(RefundEvent), NEW event \in RefundEvent
    PROVE  /\ Refunded(events) \in Nat
           /\ Refunded(Append(events, event)) = Refunded(events) + event.amount
<1> DEFINE n == Len(events) + 1
           new == {n} \X (1..event.amount)
<1>1. n \in Nat /\ event.amount \in Nat
  BY AmountsAreNat
<1>2. IsFiniteSet(new) /\ Cardinality(new) = event.amount
  <2>1. IsFiniteSet(1..event.amount) /\ Cardinality(1..event.amount) = event.amount
    BY <1>1, IntervalSize
  <2>2. IsFiniteSet({n}) /\ Cardinality({n}) = 1
    BY FS_Singleton
  <2>3. IsFiniteSet(new) /\ Cardinality(new) = 1 * event.amount
    <3>1. /\ IsFiniteSet({n} \X (1..event.amount))
          /\ Cardinality({n} \X (1..event.amount)) =
                 Cardinality({n}) * Cardinality(1..event.amount)
      BY <2>1, <2>2, FS_Product, Zenon
    <3> QED
      BY <2>1, <2>2, <3>1, Zenon
  <2> QED
    BY <1>1, <2>3
<1>3. Units(Append(events, event)) = Units(events) \cup new
  <2>1. DOMAIN Append(events, event) = DOMAIN events \cup {n}
    OBVIOUS
  <2>2. /\ Append(events, event)[n] = event
        /\ \A k \in DOMAIN events : Append(events, event)[k] = events[k]
    OBVIOUS
  <2> QED
    BY <2>1, <2>2 DEF Units
<1>4. Units(events) \cap new = {}
  BY DEF Units
<1>5. IsFiniteSet(Units(events)) /\ Cardinality(Units(events)) \in Nat
  BY UnitsAreFinite, FS_CardinalityType
<1>6. Cardinality(Units(events) \cup new)
          = Cardinality(Units(events)) + Cardinality(new) - Cardinality({})
  BY <1>2, <1>4, <1>5, FS_Union
<1> HIDE DEF new, n
<1> QED
  BY <1>1, <1>2, <1>3, <1>5, <1>6, FS_EmptySet DEF Refunded

-----------------------------------------------------------------------------
(* The journal.                                                            *)

(* A record that is being appended is either torn and not yet known to any *)
(* reader, or the last line: garbage is never made, because an append only *)
(* starts at the end of a line and the file has one writer.                *)
Appended == tail = 0 /\ lines # <<>> /\ lines[Len(lines)].amount = command.amount

JournalInv ==
    /\ JournalTypeOK
    /\ lines \in Seq(RefundEvent)
    /\ \A k \in DOMAIN lines : lines[k].id = k
    /\ call = "append" /\ pending > 0 => tail + pending = RecordSize /\ Stored = {}
    /\ call = "append" /\ pending = 0 => Appended
    /\ call = "deliver" => Appended

LEMMA CommandTyped ==
    ASSUME JournalTypeOK, call # "none"
    PROVE  /\ command \in RefundCommand
           /\ command.amount \in Amounts
           /\ command.key \in Keys \cup {None}
BY DEF JournalTypeOK, RefundCommand

LEMMA SizeIsNat ==
    ASSUME JournalTypeOK
    PROVE  Size \in Nat
<1>1. Len(lines) \in Nat /\ RecordSize \in Nat /\ tail \in Nat
  BY FileJournalAssumption DEF JournalTypeOK
<1>2. \A m, n \in Nat : m * n \in Nat
  OBVIOUS
<1> QED
  BY <1>1, <1>2 DEF Size

(* A journal that can be read is neither torn nor too large.               *)
LEMMA ReadableIsWhole ==
    ASSUME JournalTypeOK, Readable
    PROVE  ~(tail > 0 \/ Size > MaxSize)
BY SizeIsNat, FileJournalAssumption DEF Readable

LEMMA JournalInvInit == JournalInit => JournalInv
<1> SUFFICES ASSUME JournalInit PROVE JournalInv
  OBVIOUS
<1>1. lines = <<>> /\ tail = 0 /\ call = "none" /\ pending = 0 /\ command = None
      /\ delivered = {} /\ observed = <<>>
  BY DEF JournalInit
<1>2. <<>> \in Seq(RefundEvent) /\ <<>> \in Seq(RefundEvent \cup {Garbage})
  OBVIOUS
<1> QED
  BY <1>1, <1>2, FileJournalAssumption DEF JournalInv, JournalTypeOK

(* The last write of a record makes it a line, the others a longer tail.   *)
LEMMA WritePreserves ==
    ASSUME JournalInv, NEW n \in 1..RecordSize, Write(n)
    PROVE  JournalInv'
<1> USE FileJournalAssumption
<1>1. /\ call = "append" /\ n \in 1..pending /\ pending' = pending - n
      /\ UNCHANGED <<call, command, delivered, observed>>
  BY DEF Write
<1>2. /\ pending \in 0..RecordSize /\ pending > 0 /\ tail \in Nat
      /\ tail + pending = RecordSize /\ Stored = {}
      /\ lines \in Seq(RefundEvent)
      /\ \A k \in DOMAIN lines : lines[k].id = k
  BY <1>1 DEF JournalInv, JournalTypeOK
<1>3. CASE n < pending
  <2>1. tail' = tail + n /\ lines' = lines
    BY <1>3 DEF Write
  <2>2. pending' > 0 /\ pending' \in 0..RecordSize /\ tail' + pending' = RecordSize
        /\ tail' \in Nat
    BY <1>1, <1>2, <1>3, <2>1
  <2>3. Stored' = {}
    BY <1>1, <1>2, <2>1 DEF Stored
  <2> QED
    BY <1>1, <1>2, <2>1, <2>2, <2>3 DEF JournalInv, JournalTypeOK
<1>4. CASE n = pending
  <2> DEFINE event == NewEvent(Len(lines) + 1)
  <2>1. tail' = 0 /\ lines' = Append(lines, event) /\ pending' = 0
    BY <1>1, <1>2, <1>4 DEF Write
  <2>2. event \in RefundEvent /\ event.id = Len(lines) + 1 /\ event.amount = command.amount
    BY <1>1, <1>2, CommandTyped DEF JournalInv, NewEvent, RefundEvent
  <2> HIDE DEF event
  <2>3. lines' \in Seq(RefundEvent) /\ lines' # <<>> /\ Len(lines') = Len(lines) + 1
    BY <1>2, <2>1, <2>2
  <2>4. lines'[Len(lines')] = event
    BY <1>2, <2>1, <2>2, <2>3
  <2>5. \A k \in DOMAIN lines' : lines'[k].id = k
    BY <1>2, <2>1, <2>2, <2>3
  <2>6. Seq(RefundEvent) \subseteq Seq(RefundEvent \cup {Garbage})
    OBVIOUS
  <2> QED
    BY <1>1, <2>1, <2>2, <2>3, <2>4, <2>5, <2>6
    DEF JournalInv, JournalTypeOK, Appended
<1> QED
  BY <1>1, <1>2, <1>3, <1>4

LEMMA DeliverPreserves ==
    ASSUME JournalInv, NEW receipt \in Answers, DeliverReceipt(receipt)
    PROVE  JournalInv'
<1>1. receipt \in RefundReceipt
  <2>1. CASE call = "deliver"
    <3>1. receipt = [id |-> Len(lines), amount |-> command.amount]
      BY <2>1 DEF Answers, Receipt, NewEvent
    <3>2. Len(lines) \in Nat \ {0} /\ command.amount \in Amounts
      BY <2>1, CommandTyped DEF JournalInv, Appended
    <3> QED
      BY <3>1, <3>2 DEF RefundReceipt
  <2>2. CASE call = "read"
    <3>1. PICK k \in DOMAIN lines : receipt = Receipt(lines[k])
      BY <2>2 DEF Answers, Stored
    <3>2. lines[k] \in RefundEvent
      BY DEF JournalInv
    <3> QED
      BY <3>1, <3>2 DEF Receipt, RefundEvent, RefundReceipt
  <2> QED
    BY <2>1, <2>2 DEF Answers
<1> QED
  BY <1>1 DEF DeliverReceipt, JournalInv, JournalTypeOK

LEMMA JournalInvNext == JournalInv /\ [JournalNext]_journalVars => JournalInv'
<1> SUFFICES ASSUME JournalInv, [JournalNext]_journalVars
             PROVE  JournalInv'
  OBVIOUS
<1> USE FileJournalAssumption
<1>1. ASSUME NEW c \in RefundCommand, Call(c)
      PROVE  JournalInv'
  BY <1>1 DEF Call, JournalInv, JournalTypeOK
<1>2. CASE StartAppend
  BY <1>2 DEF StartAppend, Readable, JournalInv, JournalTypeOK, Stored
<1>3. ASSUME NEW n \in 1..RecordSize, Write(n)
      PROVE  JournalInv'
  BY <1>3, WritePreserves
<1>4. CASE Sync
  BY <1>4 DEF Sync, JournalInv, JournalTypeOK, Appended
<1>5. ASSUME NEW receipt \in Answers, DeliverReceipt(receipt)
      PROVE  JournalInv'
  BY <1>5, DeliverPreserves
<1>6. CASE RefundRaises
  BY <1>6 DEF RefundRaises, JournalInv, JournalTypeOK
<1>7. CASE ObserveJournal
  BY <1>7 DEF ObserveJournal, JournalInv, JournalTypeOK
<1>8. CASE Corrupt
  BY <1>8 DEF Corrupt, JournalInv, JournalTypeOK
<1>9. CASE UNCHANGED journalVars
  BY <1>9 DEF journalVars, JournalInv, JournalTypeOK, Appended, Stored
<1> QED
  BY <1>1, <1>2, <1>3, <1>4, <1>5, <1>6, <1>7, <1>8, <1>9 DEF JournalNext

LEMMA JournalInvariant == JournalSpec => []JournalInv
BY JournalInvInit, JournalInvNext, PTL DEF JournalSpec

(* The provider makes only records of its own, numbered by their lines, in *)
(* whatever pieces the system writes them (_file_refund_comparison.py:     *)
(* 134-146).                                                               *)
THEOREM JournalTypeCorrect == JournalSpec => []JournalTypeOK
<1>1. JournalInv => JournalTypeOK
  BY DEF JournalInv
<1> QED
  BY <1>1, JournalInvariant, PTL

-----------------------------------------------------------------------------
(* After a torn append, and after the one that outgrew the size bound, the *)
(* strict reader (_file_refund_comparison.py:87-113) lets nothing happen   *)
(* to the journal any more, for every caller.                              *)
THEOREM UnreadableStaysFinal == JournalSpec => UnreadableIsFinal
<1> DEFINE A == call # "append" /\ (tail > 0 \/ Size > MaxSize) =>
                    /\ UNCHANGED <<lines, observed>>
                    /\ delivered' # delivered => call = "deliver" /\ tail = 0
<1>1. ASSUME JournalInv, [JournalNext]_journalVars
      PROVE  A
  <2>1. JournalTypeOK
    BY <1>1 DEF JournalInv
  <2>2. ASSUME NEW c \in RefundCommand, Call(c)
        PROVE  A
    BY <2>2 DEF Call
  <2>3. CASE StartAppend
    BY <2>3 DEF StartAppend
  <2>4. ASSUME NEW n \in 1..RecordSize, Write(n)
        PROVE  A
    BY <2>4 DEF Write
  <2>5. CASE Sync
    BY <2>5 DEF Sync
  <2>6. ASSUME NEW receipt \in Answers, DeliverReceipt(receipt)
        PROVE  A
    <3>1. UNCHANGED <<lines, observed>>
      BY <2>6 DEF DeliverReceipt
    <3>2. CASE call = "deliver"
      BY <1>1, <3>1, <3>2 DEF JournalInv, Appended
    <3>3. CASE call # "deliver"
      <4>1. Readable
        BY <2>6, <3>3 DEF Answers
      <4> QED
        BY <2>1, <4>1, ReadableIsWhole
    <3> QED
      BY <3>2, <3>3
  <2>7. CASE RefundRaises
    BY <2>7 DEF RefundRaises
  <2>8. CASE ObserveJournal
    <3>1. Readable
      BY <2>8 DEF ObserveJournal
    <3> QED
      BY <2>1, <3>1, ReadableIsWhole
  <2>9. CASE Corrupt
    BY <2>9 DEF Corrupt
  <2>10. CASE UNCHANGED journalVars
    BY <2>10 DEF journalVars
  <2> QED
    BY <1>1, <2>2, <2>3, <2>4, <2>5, <2>6, <2>7, <2>8, <2>9, <2>10 DEF JournalNext
<1>2. JournalInv /\ [JournalNext]_journalVars => [A]_journalVars
  BY <1>1
<1> QED
  BY <1>2, JournalInvariant, PTL DEF JournalSpec, UnreadableIsFinal

-----------------------------------------------------------------------------
(* What is checked before an append still holds when its last write makes  *)
(* it a line.                                                              *)
WholeInv ==
    /\ JournalInv
    /\ History(lines)
    /\ call = "append" /\ pending > 0 => Acceptable

LEMMA WholeInvInit == JournalInit => WholeInv
<1> SUFFICES ASSUME JournalInit PROVE WholeInv
  OBVIOUS
<1>1. lines = <<>> /\ call = "none"
  BY DEF JournalInit
<1>2. Refunded(<<>>) <= Payment
  BY RefundedOfNone, FileJournalAssumption
<1> QED
  BY <1>1, <1>2, JournalInvInit DEF WholeInv, History, KeysAreUnique

LEMMA AppendKeepsHistory ==
    ASSUME WholeInv, NEW n \in 1..RecordSize, Write(n), n = pending
    PROVE  History(lines')
<1> DEFINE event == NewEvent(Len(lines) + 1)
<1>1. /\ call = "append" /\ pending > 0 /\ Stored = {} /\ tail + n = RecordSize
      /\ Acceptable /\ lines \in Seq(RefundEvent) /\ History(lines)
      /\ command.amount > 0 /\ Refunded(lines) + command.amount <= Payment
  BY DEF Write, WholeInv, JournalInv, Acceptable
<1>2. lines' = Append(lines, event)
  BY <1>1 DEF Write
<1>3. /\ event \in RefundEvent /\ event.id = Len(lines) + 1
      /\ event.amount = command.amount /\ event.key = command.key
  BY <1>1, CommandTyped DEF WholeInv, JournalInv, NewEvent, RefundEvent
<1>4. event # Garbage
  BY <1>1, <1>3 DEF Garbage
<1> HIDE DEF event
<1>5. /\ DOMAIN lines' = DOMAIN lines \cup {Len(lines) + 1}
      /\ lines'[Len(lines) + 1] = event
      /\ \A k \in DOMAIN lines : lines'[k] = lines[k]
  BY <1>1, <1>2, <1>3
<1>6. \A k \in DOMAIN lines' : Decodes(lines'[k], k)
  BY <1>1, <1>3, <1>4, <1>5 DEF History, Decodes
<1>7. Refunded(lines') <= Payment
  BY <1>1, <1>2, <1>3, RefundedOfAppend
<1>8. KeysAreUnique(lines')
  BY <1>1, <1>3, <1>5 DEF History, KeysAreUnique, Stored
<1> QED
  BY <1>6, <1>7, <1>8 DEF History

LEMMA WholeInvNext == WholeInv /\ [JournalNext]_journalVars => WholeInv'
<1> SUFFICES ASSUME WholeInv, [JournalNext]_journalVars
             PROVE  WholeInv'
  OBVIOUS
<1>1. JournalInv'
  BY JournalInvNext DEF WholeInv
<1>2. ASSUME lines' = lines
      PROVE  History(lines')
  BY <1>2 DEF WholeInv
<1>3. ASSUME NEW n \in 1..RecordSize, Write(n)
      PROVE  WholeInv'
  <2>1. /\ call = "append" /\ n \in 1..pending /\ pending' = pending - n
        /\ command' = command /\ pending \in 0..RecordSize
    BY <1>3 DEF Write, WholeInv, JournalInv, JournalTypeOK
  <2>2. CASE n < pending
    <3>1. lines' = lines
      BY <1>3, <2>2 DEF Write
    <3> QED
      BY <1>1, <1>2, <2>1, <3>1, FileJournalAssumption DEF WholeInv, Acceptable
  <2>3. CASE n = pending
    <3>1. pending' = 0
      BY <2>1, <2>3, FileJournalAssumption
    <3> QED
      BY <1>1, <1>3, <2>3, <3>1, AppendKeepsHistory DEF WholeInv
  <2> QED
    BY <2>1, <2>2, <2>3, FileJournalAssumption
<1>4. CASE StartAppend
  BY <1>1, <1>2, <1>4 DEF StartAppend, WholeInv, Acceptable
<1>5. CASE \/ \E c \in RefundCommand : Call(c)
           \/ Sync \/ RefundRaises \/ ObserveJournal \/ Corrupt
           \/ \E receipt \in Answers : DeliverReceipt(receipt)
  <2>1. lines' = lines /\ (call' # "append" \/ pending' = 0)
    BY <1>5 DEF Call, Sync, RefundRaises, ObserveJournal, Corrupt, DeliverReceipt
  <2> QED
    BY <1>1, <1>2, <2>1 DEF WholeInv
<1>6. CASE UNCHANGED journalVars
  BY <1>1, <1>6 DEF journalVars, WholeInv, Acceptable
<1> QED
  BY <1>3, <1>4, <1>5, <1>6 DEF JournalNext

(* Whatever the provider's writes and their failures leave, for any caller *)
(* and in whatever pieces, its complete lines are those of a history the   *)
(* strict reader accepts: identities in order, positive amounts within the *)
(* payment and unique keys (_file_refund_comparison.py:98-113).            *)
THEOREM WholeJournalStaysReadable == JournalSpec => []WholeJournalIsReadable
<1>1. WholeInv => WholeJournalIsReadable
  BY DEF WholeInv, WholeJournalIsReadable
<1> QED
  BY <1>1, WholeInvInit, WholeInvNext, PTL DEF JournalSpec

-----------------------------------------------------------------------------
(* The write that completes a record commits it, under a key that no line  *)
(* bears.                                                                  *)
LEMMA LastWriteCommits ==
    ASSUME JournalInv, NEW n \in 1..RecordSize, Write(n), n = pending
    PROVE  Ledger!Commit(command.amount, command.key)
<1> USE FileJournalAssumption
<1>1. /\ call = "append" /\ pending > 0 /\ Stored = {} /\ tail + n = RecordSize
      /\ UNCHANGED delivered
  BY DEF Write, JournalInv, JournalTypeOK
<1>2. lines' = Append(lines, NewEvent(Len(lines) + 1))
  BY <1>1 DEF Write
<1>3. lines' = Append(lines, [id |-> Len(lines) + 1, amount |-> command.amount,
                              key |-> command.key])
  BY <1>2 DEF NewEvent
<1>4. command.key = None \/ \A refund \in Ledger!Committed : refund.key # command.key
  BY <1>1 DEF Stored, Ledger!Committed
<1> QED
  BY <1>1, <1>3, <1>4 DEF Ledger!Commit

(* A delivered receipt is that of a line.                                  *)
LEMMA ReceiptsAreCommitted ==
    ASSUME JournalInv, NEW receipt \in Answers, DeliverReceipt(receipt)
    PROVE  \E refund \in Ledger!Committed : Ledger!Deliver(refund)
<1>1. delivered' = delivered \cup {receipt} /\ UNCHANGED lines
  BY DEF DeliverReceipt
<1>2. PICK k \in DOMAIN lines : receipt = Ledger!Receipt(lines[k])
  <2>1. CASE call = "deliver"
    <3>1. receipt = [id |-> Len(lines), amount |-> command.amount]
      BY <2>1 DEF Answers, Receipt, NewEvent
    <3>2. Len(lines) \in DOMAIN lines
      BY <2>1 DEF JournalInv, Appended
    <3>3. lines[Len(lines)].id = Len(lines) /\ lines[Len(lines)].amount = command.amount
      BY <2>1, <3>2 DEF JournalInv, Appended
    <3> QED
      BY <3>1, <3>2, <3>3 DEF Ledger!Receipt
  <2>2. CASE call # "deliver"
    <3>1. PICK k \in Stored : receipt = Receipt(lines[k])
      BY <2>2 DEF Answers
    <3> QED
      BY <3>1 DEF Stored, Receipt, Ledger!Receipt
  <2> QED
    BY <2>1, <2>2
<1>3. lines[k] \in Ledger!Committed
  BY DEF Ledger!Committed
<1> QED
  BY <1>1, <1>2, <1>3 DEF Ledger!Deliver

(* The journal implements the ledger: it is append-only, commits a keyed   *)
(* refund at most once, and no receipt is handed out that names none.      *)
THEOREM JournalIsLedger == JournalSpec => KeepsLedger
<1>1. JournalInit => Ledger!Init
  BY DEF JournalInit, Ledger!Init
<1>2. ASSUME JournalInv, [JournalNext]_journalVars
      PROVE  [Ledger!Next]_(Ledger!vars)
  <2>1. ASSUME NEW n \in 1..RecordSize, Write(n), n = pending
        PROVE  Ledger!Next
    <3>1. command.amount \in Amounts /\ command.key \in Keys \cup {None}
      BY <1>2, <2>1, CommandTyped DEF JournalInv, Write
    <3>2. Ledger!Commit(command.amount, command.key)
      BY <1>2, <2>1, LastWriteCommits
    <3> QED
      BY <3>1, <3>2 DEF Ledger!Next
  <2>2. ASSUME NEW n \in 1..RecordSize, Write(n), n # pending
        PROVE  UNCHANGED Ledger!vars
    <3>1. n < pending
      BY <1>2, <2>2 DEF Write, JournalInv, JournalTypeOK
    <3> QED
      BY <2>2, <3>1 DEF Write, Ledger!vars
  <2>3. ASSUME NEW receipt \in Answers, DeliverReceipt(receipt)
        PROVE  Ledger!Next
    BY <1>2, <2>3, ReceiptsAreCommitted DEF Ledger!Next
  <2>4. ASSUME NEW c \in RefundCommand, Call(c)
        PROVE  UNCHANGED Ledger!vars
    BY <2>4 DEF Call, Ledger!vars
  <2>5. CASE StartAppend \/ Sync \/ RefundRaises \/ ObserveJournal \/ Corrupt
    BY <2>5 DEF StartAppend, Sync, RefundRaises, ObserveJournal, Corrupt, Ledger!vars
  <2>6. CASE UNCHANGED journalVars
    BY <2>6 DEF journalVars, Ledger!vars
  <2> QED
    BY <1>2, <2>1, <2>2, <2>3, <2>4, <2>5, <2>6 DEF JournalNext
<1> QED
  BY <1>1, <1>2, JournalInvariant, PTL DEF JournalSpec, KeepsLedger, Ledger!Spec
=============================================================================
