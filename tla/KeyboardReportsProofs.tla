------------------------ MODULE KeyboardReportsProofs ------------------------
(***************************************************************************)
(* The ring of keyboard reports, for every size of the ring and every set  *)
(* of keyboard states: its indices stay inside it, the newest state is     *)
(* last in line, an all-released report asked for is next, and the ring    *)
(* implements the stream of KeyStream.tla.                                 *)
(***************************************************************************)
EXTENDS KeyboardReports, SequenceTheorems, TLAPS

USE DEF queueVars, usbVars

-----------------------------------------------------------------------------
(* Arithmetic of the ring.                                                 *)

\* An offset within the ring wraps at most once.
LEMMA SlotWraps ==
    ASSUME TypeOK, NEW k \in 0..QueueSize
    PROVE  /\ Slot(k) \in 0..QueueSize-1
           /\ Slot(k) = IF report_queue_head + k < QueueSize
                        THEN report_queue_head + k
                        ELSE report_queue_head + k - QueueSize
<1>1. /\ QueueSize \in Nat \ {0} /\ report_queue_head \in 0..QueueSize-1
      /\ report_queue_head + k \in 0..2 * QueueSize - 1
  BY QueueAssumption DEF TypeOK
<1>2. \A x \in 0..QueueSize-1 : x % QueueSize = x
  BY <1>1
<1>3. \A x \in QueueSize..2 * QueueSize - 1 : x % QueueSize = x - QueueSize
  BY <1>1
<1>4. CASE report_queue_head + k < QueueSize
  BY <1>1, <1>2, <1>4 DEF Slot
<1>5. CASE ~(report_queue_head + k < QueueSize)
  BY <1>1, <1>3, <1>5 DEF Slot
<1> QED
  BY <1>4, <1>5

\* Different offsets below the size are different slots.
LEMMA SlotsDiffer ==
    ASSUME TypeOK, NEW j \in 0..QueueSize-1, NEW k \in 0..QueueSize-1, j # k
    PROVE  Slot(j) # Slot(k)
<1>1. report_queue_head \in 0..QueueSize-1 /\ QueueSize \in Nat
  BY QueueAssumption DEF TypeOK
<1> QED
  BY <1>1, SlotWraps

LEMMA CountIsNat ==
    ASSUME TypeOK
    PROVE  /\ QueueSize \in Nat \ {0} /\ report_queue_count \in Nat
           /\ report_queue_count <= QueueSize
           /\ report_queue_head \in 0..QueueSize-1
           /\ Slot(0) = report_queue_head
  BY QueueAssumption, SlotWraps DEF TypeOK

-----------------------------------------------------------------------------
(* The invariant.                                                          *)

\* It is inductive as it is: the newest state and the all-released one are
\* both found by the ring's indices.
Inv == TypeOK /\ NewestLast /\ ReleaseIsNext

LEMMA InitInv == Init => Inv
<1> SUFFICES ASSUME Init PROVE Inv
  OBVIOUS
<1>1. TypeOK
  <2>1. QueueSize \in Nat \ {0} /\ Released \in Report
    BY ReportAssumption, QueueAssumption
  <2>2. report_queue \in [0..QueueSize-1 -> Report]
    BY <2>1 DEF Init
  <2>3. /\ report_queue_head \in 0..QueueSize-1
        /\ report_queue_count \in 0..QueueSize
    BY <2>1 DEF Init
  <2>4. /\ usb_up \in BOOLEAN /\ release_due \in BOOLEAN
        /\ endpoint \in Report \cup {NoReport}
        /\ host \in Report /\ due \in Report
    BY <2>1 DEF Init
  <2> QED
    BY <2>2, <2>3, <2>4 DEF TypeOK
<1>2. NewestLast
  BY DEF Init, NewestLast
<1>3. ReleaseIsNext
  BY DEF Init, ReleaseIsNext
<1> QED
  BY <1>1, <1>2, <1>3 DEF Inv

\* keyboard_send_report, in a ring with room
LEMMA SendToRoom ==
    ASSUME TypeOK, NEW r \in Report, SendReport(r), ~Full
    PROVE  /\ report_queue_count < QueueSize
           /\ report_queue' = [report_queue EXCEPT ![Slot(report_queue_count)] = r]
           /\ report_queue_head' = report_queue_head
           /\ report_queue_count' = report_queue_count + 1
  BY CountIsNat DEF SendReport, Full

LEMMA SendInv ==
    ASSUME Inv, NEW r \in Report, SendReport(r)
    PROVE  Inv'
<1>a. TypeOK
  BY DEF Inv
<1>b. /\ QueueSize \in Nat \ {0} /\ report_queue_count \in 0..QueueSize
      /\ report_queue_head \in 0..QueueSize-1
      /\ report_queue \in [0..QueueSize-1 -> Report]
  BY <1>a, CountIsNat DEF TypeOK
<1>c. /\ due' = r /\ release_due' = (release_due /\ ~Full)
      /\ UNCHANGED usbVars
  BY DEF SendReport
<1>1. CASE Full
  <2>1. /\ report_queue' = [report_queue EXCEPT ![0] = r]
        /\ report_queue_head' = 0
        /\ report_queue_count' = 1
    BY <1>1 DEF SendReport
  <2>2. TypeOK'
    BY <1>a, <1>b, <1>c, <2>1, <1>1 DEF TypeOK
  <2>3. report_queue'[0] = r /\ (0 + 0) % QueueSize = 0
    BY <1>b, <2>1
  <2>4. NewestLast'
    BY <1>c, <2>1, <2>3 DEF NewestLast, Slot
  <2> QED
    BY <1>c, <1>1, <2>2, <2>4 DEF Inv, ReleaseIsNext
<1>2. CASE ~Full
  <2> DEFINE s == Slot(report_queue_count)
  <2>1. /\ report_queue_count < QueueSize
        /\ report_queue' = [report_queue EXCEPT ![s] = r]
        /\ report_queue_head' = report_queue_head
        /\ report_queue_count' = report_queue_count + 1
    BY <1>a, <1>2, SendToRoom
  <2>2. s \in 0..QueueSize-1
    BY <1>a, <1>b, SlotWraps
  <2>3. TypeOK'
    BY <1>a, <1>b, <1>c, <2>1, <2>2 DEF TypeOK
  <2>5. Slot(report_queue_count - 1)' = s
    BY <1>b, <2>1 DEF Slot
  <2>6. report_queue'[s] = r
    BY <1>b, <2>1, <2>2
  <2>7. NewestLast'
    BY <1>b, <1>c, <2>1, <2>5, <2>6 DEF NewestLast
  <2>8. ReleaseIsNext'
    <3>1. release_due' => /\ report_queue_count > 0
                          /\ report_queue[report_queue_head] = Released
      BY <1>c DEF Inv, ReleaseIsNext
    <3>2. report_queue_count > 0 => s # report_queue_head
      BY <1>a, <1>b, <2>1, SlotsDiffer, CountIsNat
    <3> QED
      BY <1>b, <2>1, <3>1, <3>2 DEF ReleaseIsNext
  <2> QED
    BY <2>3, <2>7, <2>8 DEF Inv
<1> QED
  BY <1>1, <1>2

\* keyboard_release_all
LEMMA ReleaseInv ==
    ASSUME Inv, ReleaseAll
    PROVE  Inv'
<1>1. /\ report_queue' = [report_queue EXCEPT ![0] = Released]
      /\ report_queue_head' = 0 /\ report_queue_count' = 1
      /\ due' = Released /\ UNCHANGED usbVars
  BY DEF ReleaseAll
<1>2. /\ QueueSize \in Nat \ {0} /\ Released \in Report
      /\ report_queue \in [0..QueueSize-1 -> Report]
  BY ReportAssumption, QueueAssumption DEF Inv, TypeOK
<1>3. report_queue'[0] = Released /\ (0 + 0) % QueueSize = 0
  BY <1>1, <1>2
<1>4. TypeOK'
  <2>1. /\ report_queue' \in [0..QueueSize-1 -> Report]
        /\ report_queue_head' \in 0..QueueSize-1
        /\ report_queue_count' \in 0..QueueSize
    BY <1>1, <1>2
  <2>2. release_due' \in BOOLEAN
    BY DEF ReleaseAll
  <2> QED
    BY <1>1, <1>2, <2>1, <2>2 DEF Inv, TypeOK
<1>5. NewestLast'
  BY <1>1, <1>3 DEF NewestLast, Slot
<1>6. ReleaseIsNext'
  BY <1>1, <1>3 DEF ReleaseIsNext
<1> QED
  BY <1>4, <1>5, <1>6 DEF Inv

\* hid_keyboard_task: what is behind the report that is sent keeps its place.
LEMMA TaskMovesHead ==
    ASSUME TypeOK, HidKeyboardTask
    PROVE  /\ report_queue_head' \in 0..QueueSize-1
           /\ report_queue_count' \in 0..QueueSize-1
           /\ report_queue_count' = report_queue_count - 1
           /\ \A k \in 1..report_queue_count' : Slot(k - 1)' = Slot(k)
<1>1. /\ QueueSize \in Nat \ {0} /\ report_queue_count \in 1..QueueSize
      /\ report_queue_head \in 0..QueueSize-1
      /\ report_queue_head' = Slot(1)
      /\ report_queue_count' = report_queue_count - 1
  BY CountIsNat DEF HidKeyboardTask
<1>2. Slot(1) \in 0..QueueSize-1
  BY <1>1, SlotWraps
<1>3. ASSUME NEW k \in 1..report_queue_count'
      PROVE  Slot(k - 1)' = Slot(k)
  <2>1. /\ k \in 1..QueueSize-1
        /\ Slot(1) = IF report_queue_head + 1 < QueueSize
                     THEN report_queue_head + 1 ELSE report_queue_head + 1 - QueueSize
    BY <1>1, SlotWraps
  <2>2. Slot(k - 1)' = (Slot(1) + (k - 1)) % QueueSize
    BY <1>1 DEF Slot
  <2>3. CASE report_queue_head + 1 < QueueSize
    <3>1. Slot(1) + (k - 1) = report_queue_head + k
      BY <1>1, <2>1, <2>3
    <3> QED
      BY <2>2, <3>1 DEF Slot
  <2>4. CASE ~(report_queue_head + 1 < QueueSize)
    <3>1. report_queue_head = QueueSize - 1
      BY <1>1, <2>4
    <3>2. Slot(1) + (k - 1) = k - 1 /\ report_queue_head + k = QueueSize + (k - 1)
      BY <1>1, <2>1, <3>1
    <3>3. (k - 1) % QueueSize = (QueueSize + (k - 1)) % QueueSize
      BY <1>1, <2>1
    <3> QED
      BY <2>2, <3>2, <3>3 DEF Slot
  <2> QED
    BY <2>3, <2>4
<1>4. /\ report_queue_head' \in 0..QueueSize-1
      /\ report_queue_count' \in 0..QueueSize-1
      /\ report_queue_count' = report_queue_count - 1
  BY <1>1, <1>2
<1> QED
  BY <1>3, <1>4

LEMMA TaskInv ==
    ASSUME Inv, HidKeyboardTask
    PROVE  Inv'
<1>a. TypeOK
  BY DEF Inv
<1>1. /\ report_queue_count > 0 /\ endpoint = NoReport
      /\ endpoint' = report_queue[report_queue_head]
      /\ release_due' = FALSE
      /\ UNCHANGED <<report_queue, usb_up, host, due>>
  BY DEF HidKeyboardTask
<1>2. /\ QueueSize \in Nat /\ report_queue_count \in 1..QueueSize
      /\ Slot(0) = report_queue_head /\ report_queue_head \in 0..QueueSize-1
  BY <1>a, <1>1, CountIsNat
<1>3. /\ report_queue_head' \in 0..QueueSize-1
      /\ report_queue_count' \in 0..QueueSize-1
      /\ report_queue_count' = report_queue_count - 1
      /\ \A k \in 1..report_queue_count' : Slot(k - 1)' = Slot(k)
  BY <1>a, TaskMovesHead
<1>4. endpoint' \in Report
  BY <1>a, <1>1, <1>2 DEF TypeOK
<1>5. TypeOK'
  <2>1. report_queue_count' \in 0..QueueSize
    BY <1>2, <1>3
  <2> QED
    BY <1>a, <1>1, <1>3, <1>4, <2>1 DEF TypeOK
<1>6. NewestLast'
  <2>1. due = report_queue[Slot(report_queue_count - 1)]
    BY <1>1 DEF Inv, NewestLast
  <2>2. CASE report_queue_count' = 0
    <3>1. report_queue_count - 1 = 0
      BY <1>2, <1>3, <2>2
    <3>2. due' = endpoint'
      BY <1>1, <1>2, <2>1, <3>1
    <3>3. endpoint' # NoReport
      BY <1>4, ReportAssumption
    <3> QED
      BY <2>2, <3>2, <3>3 DEF NewestLast
  <2>3. CASE report_queue_count' > 0
    <3>1. report_queue_count' \in 1..report_queue_count'
      BY <1>2, <1>3, <2>3
    <3>2. Slot(report_queue_count - 1)' = Slot(report_queue_count - 1)
      BY <1>3, <3>1 DEF Slot
    <3> QED
      BY <1>1, <2>1, <2>3, <3>2 DEF NewestLast
  <2> QED
    BY <1>2, <1>3, <2>2, <2>3
<1>7. ReleaseIsNext'
  BY <1>1 DEF ReleaseIsNext
<1> QED
  BY <1>5, <1>6, <1>7 DEF Inv

\* The bus and the host leave the ring alone.
LEMMA BusInv ==
    ASSUME Inv, HostPoll \/ Suspend \/ Resume \/ BusReset
    PROVE  Inv'
<1>a. UNCHANGED <<queueVars, release_due>>
  BY DEF HostPoll, Suspend, Resume, BusReset
<1>b. ReleaseIsNext'
  BY <1>a DEF Inv, ReleaseIsNext
<1>c. /\ Released \in Report /\ NoReport \notin Report
      /\ report_queue_count > 0 \/ report_queue_count = 0
  BY ReportAssumption, CountIsNat DEF Inv
<1>d. Slot(report_queue_count - 1)' = Slot(report_queue_count - 1)
  BY <1>a DEF Slot
<1>1. CASE HostPoll
  <2>1. /\ endpoint # NoReport /\ host' = endpoint /\ endpoint' = NoReport
        /\ UNCHANGED <<usb_up, due>>
    BY <1>1 DEF HostPoll
  <2>2. TypeOK'
    BY <1>a, <1>c, <2>1 DEF Inv, TypeOK
  <2>3. NewestLast'
    BY <1>a, <1>d, <2>1 DEF Inv, NewestLast
  <2> QED
    BY <1>b, <2>2, <2>3 DEF Inv
<1>2. CASE Suspend \/ Resume
  <2>1. UNCHANGED <<endpoint, host, due>> /\ usb_up' \in BOOLEAN
    BY <1>2 DEF Suspend, Resume
  <2>2. TypeOK'
    BY <1>a, <2>1 DEF Inv, TypeOK
  <2>3. NewestLast'
    BY <1>a, <1>d, <2>1 DEF Inv, NewestLast
  <2> QED
    BY <1>b, <2>2, <2>3 DEF Inv
<1>3. CASE BusReset
  <2>1. /\ usb_up' = FALSE /\ endpoint' = NoReport /\ host' = Released
        /\ due' = IF report_queue_count = 0 THEN Released ELSE due
    BY <1>3 DEF BusReset
  <2>2. TypeOK'
    BY <1>a, <1>c, <2>1 DEF Inv, TypeOK
  <2>3. NewestLast'
    BY <1>a, <1>c, <1>d, <2>1 DEF Inv, NewestLast
  <2> QED
    BY <1>b, <2>2, <2>3 DEF Inv
<1> QED
  BY <1>1, <1>2, <1>3

LEMMA StepInv == Inv /\ [Next]_vars => Inv'
<1> SUFFICES ASSUME Inv, [Next]_vars PROVE Inv'
  OBVIOUS
<1>1. ASSUME NEW r \in Report, SendReport(r)
      PROVE  Inv'
  BY <1>1, SendInv
<1>2. CASE ReleaseAll
  BY <1>2, ReleaseInv
<1>3. CASE HidKeyboardTask
  BY <1>3, TaskInv
<1>4. CASE HostPoll \/ Suspend \/ Resume \/ BusReset
  BY <1>4, BusInv
<1>5. CASE UNCHANGED vars
  BY <1>5 DEF vars, Inv, TypeOK, NewestLast, ReleaseIsNext, Slot
<1> QED
  BY <1>1, <1>2, <1>3, <1>4, <1>5 DEF Next

LEMMA Invariant == Spec => []Inv
  BY InitInv, StepInv, PTL DEF Spec

\* The indices of the ring stay inside it, after any sequence of overflows,
\* flushes and sendings.
THEOREM TypeCorrect == Spec => []TypeOK
<1>1. Inv => TypeOK
  BY DEF Inv
<1> QED
  BY <1>1, Invariant, PTL

\* The newest state is never lost: it is last in line, in the ring, the endpoint
\* or the host.
THEOREM NewestAlwaysLast == Spec => []NewestLast
<1>1. Inv => NewestLast
  BY DEF Inv
<1> QED
  BY <1>1, Invariant, PTL

\* An all-released report that was asked for is the next one to be sent, until
\* it is sent or overflows.
THEOREM ReleaseAlwaysNext == Spec => []ReleaseIsNext
<1>1. Inv => ReleaseIsNext
  BY DEF Inv
<1> QED
  BY <1>1, Invariant, PTL

-----------------------------------------------------------------------------
(* The ring implements the stream.                                         *)

\* The contents of a ring q with n reports from position h on
Contents(q, h, n) == [i \in 1..n |-> q[(h + (i - 1)) % QueueSize]]

LEMMA ContentsAreSequence ==
    ASSUME NEW q \in [0..QueueSize-1 -> Report], NEW h \in 0..QueueSize-1,
           NEW n \in 0..QueueSize
    PROVE  /\ Contents(q, h, n) \in Seq(Report)
           /\ Len(Contents(q, h, n)) = n
           /\ \A i \in 1..n : Contents(q, h, n)[i] = q[(h + (i - 1)) % QueueSize]
<1>1. QueueSize \in Nat \ {0}
  BY QueueAssumption
<1>2. \A i \in 1..n : q[(h + (i - 1)) % QueueSize] \in Report
  <2>1. \A x \in Int : x % QueueSize \in 0..QueueSize-1
    BY <1>1
  <2> QED
    BY <2>1
<1>3. Contents(q, h, n) \in [1..n -> Report]
  BY <1>2 DEF Contents
<1>4. n \in Nat
  BY <1>1
<1>5. Contents(q, h, n) \in Seq(Report)
  BY <1>3, <1>4, SeqDef
<1>6. Len(Contents(q, h, n)) = n
  BY <1>3, <1>4
<1> QED
  BY <1>5, <1>6 DEF Contents

LEMMA PendingIsContents ==
    /\ Pending = Contents(report_queue, report_queue_head, report_queue_count)
    /\ Pending' = Contents(report_queue', report_queue_head', report_queue_count')
  BY DEF Pending, Contents, Slot

\* The elements of the ring, before and after a step that keeps the types
LEMMA PendingTyped ==
    ASSUME TypeOK, TypeOK'
    PROVE  /\ Pending \in Seq(Report) /\ Len(Pending) = report_queue_count
           /\ \A i \in 1..report_queue_count : Pending[i] = report_queue[Slot(i - 1)]
           /\ Pending' \in Seq(Report) /\ Len(Pending') = report_queue_count'
           /\ \A i \in 1..report_queue_count' :
                  Pending'[i] = (report_queue[Slot(i - 1)])'
  BY PendingIsContents, ContentsAreSequence DEF TypeOK, Slot

\* A new report at the end, in a ring with room
LEMMA MakeAtEnd ==
    ASSUME TypeOK, TypeOK', NEW r \in Report, SendReport(r), ~Full
    PROVE  Pending' = Append(Pending, r)
<1>1. /\ report_queue_count < QueueSize
      /\ report_queue' = [report_queue EXCEPT ![Slot(report_queue_count)] = r]
      /\ report_queue_head' = report_queue_head
      /\ report_queue_count' = report_queue_count + 1
  BY SendToRoom
<1>2. QueueSize \in Nat \ {0} /\ report_queue_count \in 0..QueueSize-1
  BY <1>1, CountIsNat
<1>3. /\ Append(Pending, r) \in Seq(Report)
      /\ Len(Append(Pending, r)) = report_queue_count + 1
      /\ \A i \in 1..report_queue_count : Append(Pending, r)[i] = Pending[i]
      /\ Append(Pending, r)[report_queue_count + 1] = r
  BY PendingTyped, AppendProperties
<1>4. ASSUME NEW i \in 1..report_queue_count + 1
      PROVE  Pending'[i] = Append(Pending, r)[i]
  <2>1. i - 1 \in 0..QueueSize-1 /\ Slot(i - 1)' = Slot(i - 1)
    BY <1>1, <1>2 DEF Slot
  <2>2. /\ Slot(i - 1) \in 0..QueueSize-1
        /\ report_queue \in [0..QueueSize-1 -> Report]
    BY <1>2, <2>1, SlotWraps DEF TypeOK
  <2>3. Pending'[i] = report_queue'[Slot(i - 1)]
    BY <1>1, <2>1, PendingTyped
  <2>4. CASE i = report_queue_count + 1
    <3>1. Slot(i - 1) = Slot(report_queue_count)
      BY <1>2, <2>4
    <3> QED
      BY <1>1, <1>3, <2>2, <2>3, <2>4, <3>1
  <2>5. CASE i # report_queue_count + 1
    <3>1. i \in 1..report_queue_count /\ i - 1 # report_queue_count
      BY <1>2, <2>5
    <3>2. Slot(i - 1) # Slot(report_queue_count)
      BY <1>2, <2>1, <3>1, SlotsDiffer
    <3>3. Pending'[i] = report_queue[Slot(i - 1)]
      BY <1>1, <2>2, <2>3, <3>2
    <3> QED
      BY <1>3, <3>1, <3>3, PendingTyped
  <2> QED
    BY <2>4, <2>5
<1>5. Pending' \in Seq(Report) /\ Len(Pending') = report_queue_count + 1
  BY <1>1, PendingTyped
<1> QED
  BY <1>3, <1>4, <1>5, SeqEqual

\* A report that is alone in the ring afterwards
LEMMA MakeAlone ==
    ASSUME TypeOK, TypeOK', NEW r \in Report,
           report_queue' = [report_queue EXCEPT ![0] = r],
           report_queue_head' = 0, report_queue_count' = 1
    PROVE  Pending' = Append(SubSeq(Pending, Len(Pending) + 1, Len(Pending)), r)
<1>1. /\ Pending' \in Seq(Report) /\ Len(Pending') = 1
      /\ Pending'[1] = (report_queue[Slot(1 - 1)])'
  BY PendingTyped
<1>2. (report_queue[Slot(1 - 1)])' = r
  <2>1. QueueSize \in Nat \ {0} /\ report_queue \in [0..QueueSize-1 -> Report]
    BY CountIsNat DEF TypeOK
  <2>2. (0 + (1 - 1)) % QueueSize = 0 /\ report_queue'[0] = r
    BY <2>1
  <2> QED
    BY <2>2 DEF Slot
<1>3. SubSeq(Pending, Len(Pending) + 1, Len(Pending)) = <<>>
  <2>1. Len(Pending) \in Nat
    BY PendingTyped, CountIsNat
  <2> QED
    BY <2>1, SubSeqEmpty
<1>4. Append(<<>>, r) \in Seq(Report) /\ Len(Append(<<>>, r)) = 1 /\ Append(<<>>, r)[1] = r
  BY EmptySeq, AppendProperties
<1>5. \A i \in 1..1 : Pending'[i] = Append(<<>>, r)[i]
  BY <1>1, <1>2, <1>4
<1>6. Pending' = Append(<<>>, r)
  BY <1>1, <1>4, <1>5, SeqEqual
<1> QED
  BY <1>3, <1>6

LEMMA SendIsMake ==
    ASSUME TypeOK, TypeOK', NEW r \in Report, SendReport(r)
    PROVE  Stream!Make(r)
<1>1. Pending \in Seq(Report) /\ Len(Pending) \in Nat
  BY PendingTyped, CountIsNat
<1>2. \E dropped \in 0..Len(Pending) :
          Pending' = Append(SubSeq(Pending, dropped + 1, Len(Pending)), r)
  <2>1. CASE Full
    <3>1. Pending' = Append(SubSeq(Pending, Len(Pending) + 1, Len(Pending)), r)
      BY <2>1, MakeAlone DEF SendReport
    <3> QED
      BY <1>1, <3>1
  <2>2. CASE ~Full
    <3>1. SubSeq(Pending, 0 + 1, Len(Pending)) = Pending
      BY <1>1, SubSeqFull
    <3>2. Pending' = Append(SubSeq(Pending, 0 + 1, Len(Pending)), r)
      BY <2>2, <3>1, MakeAtEnd
    <3> QED
      BY <1>1, <3>2
  <2> QED
    BY <2>1, <2>2
<1> QED
  BY <1>2 DEF Stream!Make, SendReport

LEMMA ReleaseIsMake ==
    ASSUME TypeOK, TypeOK', ReleaseAll
    PROVE  Stream!Make(Released)
<1>1. Len(Pending) \in Nat /\ Released \in Report
  BY PendingTyped, CountIsNat, ReportAssumption
<1>2. Pending' = Append(SubSeq(Pending, Len(Pending) + 1, Len(Pending)), Released)
  BY <1>1, MakeAlone DEF ReleaseAll
<1>3. \E dropped \in 0..Len(Pending) :
          Pending' = Append(SubSeq(Pending, dropped + 1, Len(Pending)), Released)
  BY <1>1, <1>2
<1> QED
  BY <1>3 DEF Stream!Make, ReleaseAll

LEMMA TaskIsTake ==
    ASSUME TypeOK, TypeOK', HidKeyboardTask
    PROVE  Stream!Take
<1>1. /\ report_queue_count > 0 /\ endpoint = NoReport
      /\ endpoint' = report_queue[report_queue_head]
      /\ UNCHANGED <<report_queue, host, due>>
  BY DEF HidKeyboardTask
<1>2. /\ report_queue_count \in Nat \ {0}
      /\ report_queue_count' = report_queue_count - 1
      /\ Slot(0) = report_queue_head
  BY <1>1, CountIsNat, TaskMovesHead
<1>3. Pending \in Seq(Report) /\ Len(Pending) = report_queue_count /\ Pending # <<>>
  BY <1>2, PendingTyped
<1>4. Head(Pending) = endpoint'
  <2>1. Head(Pending) = Pending[1]
    BY <1>3
  <2>2. Pending[1] = report_queue[Slot(1 - 1)]
    BY <1>2, PendingTyped
  <2> QED
    BY <1>1, <1>2, <2>1, <2>2
<1>5. Pending' = Tail(Pending)
  <2>1. /\ Tail(Pending) \in Seq(Report)
        /\ Len(Tail(Pending)) = report_queue_count'
        /\ \A i \in 1..report_queue_count' : Tail(Pending)[i] = Pending[i + 1]
    BY <1>2, <1>3, HeadTailProperties
  <2>2. Pending' \in Seq(Report) /\ Len(Pending') = report_queue_count'
    BY PendingTyped
  <2>3. ASSUME NEW i \in 1..report_queue_count'
        PROVE  Pending'[i] = Tail(Pending)[i]
    <3>1. Pending'[i] = report_queue[Slot(i - 1)']
      BY <1>1, PendingTyped
    <3>2. Slot(i - 1)' = Slot(i)
      BY TaskMovesHead
    <3>3. i + 1 \in 1..report_queue_count /\ (i + 1) - 1 = i
      BY <1>2
    <3>4. Pending[i + 1] = report_queue[Slot(i)]
      BY <3>3, PendingTyped
    <3> QED
      BY <2>1, <3>1, <3>2, <3>4
  <2> QED
    BY <2>1, <2>2, <2>3, SeqEqual
<1> QED
  BY <1>1, <1>3, <1>4, <1>5 DEF Stream!Take

\* The bus and the host: what they do to the ring is nothing.
LEMMA BusIsStream ==
    ASSUME TypeOK, TypeOK', HostPoll \/ Suspend \/ Resume \/ BusReset \/ UNCHANGED vars
    PROVE  Stream!Receive \/ Stream!Reset \/ UNCHANGED Stream!vars
<1>1. UNCHANGED Pending
  <2>1. UNCHANGED queueVars
    BY DEF HostPoll, Suspend, Resume, BusReset, vars
  <2> QED
    BY <2>1, PendingIsContents
<1>2. Pending = <<>> <=> report_queue_count = 0
  BY PendingTyped, CountIsNat, EmptySeq
<1>3. CASE HostPoll
  BY <1>1, <1>3 DEF HostPoll, Stream!Receive
<1>4. CASE Suspend \/ Resume \/ UNCHANGED vars
  BY <1>1, <1>4 DEF Suspend, Resume, vars, Stream!vars
<1>5. CASE BusReset
  BY <1>1, <1>2, <1>5 DEF BusReset, Stream!Reset
<1> QED
  BY <1>3, <1>4, <1>5

LEMMA StepStream == TypeOK /\ TypeOK' /\ [Next]_vars => [Stream!Next]_Stream!vars
<1> SUFFICES ASSUME TypeOK, TypeOK', [Next]_vars
             PROVE  [Stream!Next]_Stream!vars
  OBVIOUS
<1>1. ASSUME NEW r \in Report, SendReport(r)
      PROVE  Stream!Next
  BY <1>1, SendIsMake DEF Stream!Next
<1>2. CASE ReleaseAll
  BY <1>2, ReleaseIsMake, ReportAssumption DEF Stream!Next
<1>3. CASE HidKeyboardTask
  BY <1>3, TaskIsTake DEF Stream!Next
<1>4. CASE HostPoll \/ Suspend \/ Resume \/ BusReset \/ UNCHANGED vars
  BY <1>4, BusIsStream DEF Stream!Next
<1> QED
  BY <1>1, <1>2, <1>3, <1>4 DEF Next

LEMMA InitStream == Init => Stream!Init
<1> SUFFICES ASSUME Init PROVE Stream!Init
  OBVIOUS
<1>1. TypeOK
  BY InitInv DEF Inv
<1>2. Pending \in Seq(Report) /\ Len(Pending) = 0
  BY <1>1, PendingIsContents, ContentsAreSequence DEF Init, TypeOK
<1>3. Pending = <<>>
  BY <1>2, EmptySeq
<1> QED
  BY <1>3 DEF Init, Stream!Init

\* The ring, its overflow and its flush implement the stream: the host receives
\* reports in order, each at most once, and only older ones are ever dropped.
THEOREM RingImplementsStream == Spec => RingIsStream
<1>1. Spec => []TypeOK
  BY TypeCorrect
<1>2. Init => Stream!Init
  BY InitStream
<1>3. TypeOK /\ TypeOK' /\ [Next]_vars => [Stream!Next]_Stream!vars
  BY StepStream
<1> QED
  BY <1>1, <1>2, <1>3, PTL DEF Spec, RingIsStream, Stream!Spec

=============================================================================
