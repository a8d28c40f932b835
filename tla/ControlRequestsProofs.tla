------------------------ MODULE ControlRequestsProofs ------------------------
(***************************************************************************)
(* The queue of control requests and the line of the CDC port, for every   *)
(* size of either and every set of requests: the queue stays in its array, *)
(* the buffer holds the end of the typed line, and the ring implements the *)
(* FIFO of RequestFifo.tla.                                                *)
(***************************************************************************)
EXTENDS ControlRequests, SequenceTheorems, TLAPS

Entry == Request \cup {NoRequest}

\* The types of the queue alone
QueueOK ==
    /\ requests \in [0..Capacity-1 -> Entry]
    /\ head \in 0..Capacity-1
    /\ count \in 0..Capacity

LEMMA TypeHasQueue == TypeOK => QueueOK
  BY DEF TypeOK, QueueOK, Entry

-----------------------------------------------------------------------------
(* Arithmetic of the ring.                                                 *)

\* An offset within the ring wraps at most once.
LEMMA SlotWraps ==
    ASSUME QueueOK, NEW k \in 0..Capacity
    PROVE  /\ Slot(k) \in 0..Capacity-1
           /\ Slot(k) = IF head + k < Capacity THEN head + k ELSE head + k - Capacity
<1>1. /\ Capacity \in Nat \ {0} /\ head \in 0..Capacity-1
      /\ head + k \in 0..2 * Capacity - 1
  BY SizeAssumption DEF QueueOK
<1>2. \A x \in 0..Capacity-1 : x % Capacity = x
  BY <1>1
<1>3. \A x \in Capacity..2 * Capacity - 1 : x % Capacity = x - Capacity
  BY <1>1
<1>4. CASE head + k < Capacity
  BY <1>1, <1>2, <1>4 DEF Slot
<1>5. CASE ~(head + k < Capacity)
  BY <1>1, <1>3, <1>5 DEF Slot
<1> QED
  BY <1>4, <1>5

\* Different offsets below the capacity are different slots.
LEMMA SlotsDiffer ==
    ASSUME QueueOK, NEW j \in 0..Capacity-1, NEW k \in 0..Capacity-1, j # k
    PROVE  Slot(j) # Slot(k)
<1>1. head \in 0..Capacity-1 /\ Capacity \in Nat
  BY SizeAssumption DEF QueueOK
<1> QED
  BY <1>1, SlotWraps

LEMMA CountIsNat ==
    ASSUME QueueOK
    PROVE  /\ Capacity \in Nat \ {0} /\ count \in Nat /\ count <= Capacity
           /\ head \in 0..Capacity-1
           /\ Slot(0) = head
  BY SizeAssumption, SlotWraps DEF QueueOK

-----------------------------------------------------------------------------
(* The queue stays in its array.                                           *)

LEMMA PushKeepsQueue ==
    ASSUME QueueOK, NEW r \in Request, Push(r)
    PROVE  QueueOK' /\ answer' \in {"accepted", "refused"}
<1>1. CASE count < Capacity /\ Put(r)
  <2>1. count + 1 \in 0..Capacity /\ r \in Entry
    BY <1>1, CountIsNat DEF Entry
  <2> QED
    BY <1>1, <2>1 DEF QueueOK, Put
<1>2. CASE count = Capacity /\ answer' = "refused" /\ UNCHANGED <<requests, head, count>>
  BY <1>2 DEF QueueOK
<1> QED
  BY <1>1, <1>2 DEF Push

\* control_request_queue_pop: what is behind the request keeps its place.
LEMMA PopMovesHead ==
    ASSUME QueueOK, Pop
    PROVE  /\ QueueOK' /\ executed' \in Entry /\ UNCHANGED <<requests, answer>>
           /\ executed' = requests[Slot(0)]
           /\ count \in 1..Capacity /\ count' = count - 1
           /\ \A k \in 1..count' : Slot(k - 1)' = Slot(k)
<1>1. /\ Capacity \in Nat \ {0} /\ head \in 0..Capacity-1
      /\ count \in 1..Capacity /\ Slot(0) = head
      /\ requests \in [0..Capacity-1 -> Entry]
      /\ head' = Slot(1) /\ count' = count - 1
      /\ executed' = requests[head] /\ UNCHANGED <<requests, answer>>
  BY CountIsNat DEF Pop, QueueOK
<1>2. Slot(1) \in 0..Capacity-1
  BY <1>1, SlotWraps
<1>3. ASSUME NEW k \in 1..count'
      PROVE  Slot(k - 1)' = Slot(k)
  <2>1. /\ k \in 1..Capacity-1
        /\ Slot(1) = IF head + 1 < Capacity THEN head + 1 ELSE head + 1 - Capacity
    BY <1>1, SlotWraps
  <2>2. Slot(k - 1)' = (Slot(1) + (k - 1)) % Capacity
    BY <1>1 DEF Slot
  <2>3. CASE head + 1 < Capacity
    <3>1. Slot(1) + (k - 1) = head + k
      BY <1>1, <2>1, <2>3
    <3> QED
      BY <2>2, <3>1 DEF Slot
  <2>4. CASE ~(head + 1 < Capacity)
    <3>1. head = Capacity - 1
      BY <1>1, <2>4
    <3>2. Slot(1) + (k - 1) = k - 1 /\ head + k = Capacity + (k - 1)
      BY <1>1, <2>1, <3>1
    <3>3. (k - 1) % Capacity = (Capacity + (k - 1)) % Capacity
      BY <1>1, <2>1
    <3> QED
      BY <2>2, <3>2, <3>3 DEF Slot
  <2> QED
    BY <2>3, <2>4
<1>4. count - 1 \in 0..Capacity
  BY <1>1
<1> QED
  BY <1>1, <1>2, <1>3, <1>4 DEF QueueOK

-----------------------------------------------------------------------------
(* The invariant of the turn.                                              *)

LEMMA InitType == Init => TypeOK
<1> SUFFICES ASSUME Init PROVE TypeOK
  OBVIOUS
<1>1. /\ Capacity \in Nat \ {0} /\ BufferSize \in Nat \ {0} /\ ReadSize \in Nat
  BY SizeAssumption
<1>2. head \in 0..Capacity-1 /\ count \in 0..Capacity /\ unread \in 0..ReadSize
  BY <1>1 DEF Init
<1>3. /\ <<>> \in Seq(Char) /\ Len(<<>>) = 0 /\ 0 < BufferSize
  BY <1>1
<1>4. requests \in [0..Capacity-1 -> Request \cup {NoRequest}]
  BY DEF Init
<1> QED
  BY <1>2, <1>3, <1>4 DEF Init, TypeOK

\* The variables of the line
LineOK ==
    /\ unread \in 0..ReadSize
    /\ command_buffer \in Seq(Char) /\ Len(command_buffer) < BufferSize
    /\ typed \in Seq(Char)

LEMMA TypeParts ==
    TypeOK <=> /\ phase \in {"poll", "read", "drain"}
               /\ LineOK /\ QueueOK
               /\ answer \in {"none", "accepted", "refused"}
               /\ executed \in Entry
  BY DEF TypeOK, LineOK, QueueOK, Entry

LEMMA ReadOneType ==
    ASSUME LineOK, ReadOne
    PROVE  unread' \in 0..ReadSize
  BY SizeAssumption DEF LineOK, ReadOne

LEMMA StepType == TypeOK /\ [Next]_vars => TypeOK'
<1> SUFFICES ASSUME TypeOK, [Next]_vars PROVE TypeOK'
  OBVIOUS
<1> USE DEF lineVars, queueVars
<1>0. /\ phase \in {"poll", "read", "drain"} /\ LineOK /\ QueueOK
      /\ answer \in {"none", "accepted", "refused"} /\ executed \in Entry
  BY TypeParts
<1>1. ASSUME NEW r \in Request, WebSubmit(r)
      PROVE  TypeOK'
  <2>1. QueueOK' /\ answer' \in {"accepted", "refused"}
    BY <1>0, <1>1, PushKeepsQueue DEF WebSubmit
  <2>2. LineOK' /\ UNCHANGED <<phase, executed>>
    BY <1>0, <1>1 DEF WebSubmit, LineOK
  <2> QED
    BY <1>0, <2>1, <2>2 DEF TypeOK, LineOK, QueueOK, Entry
<1>2. CASE EndPoll
  BY <1>2 DEF EndPoll, TypeOK
<1>3. ASSUME NEW c \in Char, ReadChar(c)
      PROVE  TypeOK'
  <2>1. unread' \in 0..ReadSize
    BY <1>0, <1>3, ReadOneType DEF ReadChar
  <2>2. /\ Append(command_buffer, c) \in Seq(Char)
        /\ Len(Append(command_buffer, c)) = Len(command_buffer) + 1
        /\ Len(command_buffer) \in Nat
        /\ Append(typed, c) \in Seq(Char)
        /\ <<>> \in Seq(Char) /\ Len(<<>>) = 0
    BY <1>0, AppendProperties DEF LineOK
  <2>3. /\ Len(command_buffer) < BufferSize - 1 => Len(command_buffer) + 1 < BufferSize
        /\ 0 < BufferSize
    BY <2>2, SizeAssumption
  <2>4. command_buffer' \in Seq(Char) /\ Len(command_buffer') < BufferSize
    BY <1>3, <2>2, <2>3 DEF ReadChar
  <2> QED
    BY <1>3, <2>1, <2>2, <2>4 DEF ReadChar, TypeOK
<1>4. CASE ReadEndOfLine
  <2>1. unread' \in 0..ReadSize
    BY <1>0, <1>4, ReadOneType DEF ReadEndOfLine
  <2>2. /\ command_buffer' = <<>> /\ typed' = <<>>
        /\ <<>> \in Seq(Char) /\ Len(<<>>) < BufferSize
        /\ UNCHANGED <<phase, executed>>
    BY <1>4, SizeAssumption DEF ReadEndOfLine
  <2>3. QueueOK' /\ answer' \in {"none", "accepted", "refused"}
    <3>1. CASE Parse(command_buffer) \in Request
      BY <1>0, <1>4, <3>1, PushKeepsQueue DEF ReadEndOfLine
    <3>2. CASE Parse(command_buffer) \notin Request
      BY <1>0, <1>4, <3>2 DEF ReadEndOfLine, QueueOK
    <3> QED
      BY <3>1, <3>2
  <2> QED
    BY <1>0, <2>1, <2>2, <2>3 DEF TypeOK, QueueOK, Entry
<1>5. CASE EndRead
  BY <1>5 DEF EndRead, TypeOK
<1>6. CASE Execute
  <2>1. QueueOK' /\ executed' \in Entry /\ answer' = answer
    BY <1>0, <1>6, PopMovesHead DEF Execute
  <2> QED
    BY <1>6, <2>1 DEF Execute, TypeOK, QueueOK, Entry
<1>7. CASE EndTurn
  BY <1>7 DEF EndTurn, TypeOK
<1>8. CASE UNCHANGED vars
  BY <1>8 DEF vars, TypeOK
<1> QED
  BY <1>1, <1>2, <1>3, <1>4, <1>5, <1>6, <1>7, <1>8 DEF Next, Turn

\* The queue stays within its array and the line within its buffer, with room
\* for the terminating zero, whatever is typed and submitted.
THEOREM TypeCorrect == Spec => []TypeOK
  BY InitType, StepType, PTL DEF Spec

-----------------------------------------------------------------------------
(* The buffer and the typed line.                                          *)

\* The characters of a line of n that no longer are in the buffer
Dropped(n) == BufferSize * (n \div BufferSize)

\* One more character: the dropped ones stay the same, or all of them are.
LEMMA DroppedGrows ==
    ASSUME NEW n \in Nat
    PROVE  /\ Dropped(n) \in Nat
           /\ n - Dropped(n) \in 0..BufferSize-1
           /\ n - Dropped(n) < BufferSize - 1 => Dropped(n + 1) = Dropped(n)
           /\ ~(n - Dropped(n) < BufferSize - 1) => Dropped(n + 1) = n + 1
<1>1. BufferSize \in Nat \ {0}
  BY SizeAssumption
<1> DEFINE q == n \div BufferSize
           m == n % BufferSize
<1>2. /\ q \in Nat /\ m \in 0..BufferSize-1
      /\ n = BufferSize * q + m
  BY <1>1
<1>3. BufferSize * q \in Nat
  BY <1>1, <1>2
<1>4. Dropped(n) = BufferSize * q
  BY DEF Dropped
<1>5. n - Dropped(n) = m
  BY <1>2, <1>3, <1>4
<1>6. m < BufferSize - 1 => (n + 1) \div BufferSize = q
  BY <1>1, <1>2
<1>7. ~(m < BufferSize - 1) => (n + 1) \div BufferSize = q + 1
  BY <1>1, <1>2
<1>8. ~(m < BufferSize - 1) => BufferSize * (q + 1) = n + 1
  <2> SUFFICES ASSUME ~(m < BufferSize - 1) PROVE BufferSize * (q + 1) = n + 1
    OBVIOUS
  <2>1. m = BufferSize - 1
    BY <1>1, <1>2
  <2>2. BufferSize * (q + 1) = BufferSize * q + BufferSize
    BY <1>1, <1>2
  <2> QED
    BY <1>1, <1>2, <1>3, <2>1, <2>2
<1> QED
  BY <1>2, <1>3, <1>4, <1>5, <1>6, <1>7, <1>8 DEF Dropped

\* The part of a sequence from d + 1 on, when one element more is appended
LEMMA TailGrows ==
    ASSUME NEW s \in Seq(Char), NEW c \in Char, NEW d \in 0..Len(s)
    PROVE  SubSeq(Append(s, c), d + 1, Len(s) + 1) = Append(SubSeq(s, d + 1, Len(s)), c)
<1> DEFINE a == Append(s, c)
           l == SubSeq(a, d + 1, Len(s) + 1)
           r == Append(SubSeq(s, d + 1, Len(s)), c)
<1>1. /\ Len(s) \in Nat /\ a \in Seq(Char) /\ Len(a) = Len(s) + 1
      /\ \A i \in 1..Len(s) : a[i] = s[i]
      /\ a[Len(s) + 1] = c
  BY AppendProperties
<1>2. /\ SubSeq(s, d + 1, Len(s)) \in Seq(Char)
      /\ Len(SubSeq(s, d + 1, Len(s))) = Len(s) - d
      /\ \A i \in 1..Len(s) - d : SubSeq(s, d + 1, Len(s))[i] = s[d + i]
  BY <1>1
<1>3. /\ l \in Seq(Char) /\ Len(l) = Len(s) - d + 1
      /\ \A i \in 1..Len(s) - d + 1 : l[i] = a[d + i]
  BY <1>1
<1>4. /\ r \in Seq(Char) /\ Len(r) = Len(s) - d + 1
      /\ \A i \in 1..Len(s) - d : r[i] = SubSeq(s, d + 1, Len(s))[i]
      /\ r[Len(s) - d + 1] = c
  BY <1>2, AppendProperties
<1>5. ASSUME NEW i \in 1..Len(s) - d + 1
      PROVE  l[i] = r[i]
  <2>1. CASE i = Len(s) - d + 1
    <3>1. d + i = Len(s) + 1
      BY <1>1, <2>1
    <3> QED
      BY <1>1, <1>3, <1>4, <2>1, <3>1
  <2>2. CASE i # Len(s) - d + 1
    <3>1. i \in 1..Len(s) - d /\ d + i \in 1..Len(s)
      BY <1>1, <2>2
    <3> QED
      BY <1>1, <1>2, <1>3, <1>4, <3>1
  <2> QED
    BY <2>1, <2>2
<1> QED
  BY <1>3, <1>4, <1>5, SeqEqual

LEMMA ReadCharTail ==
    ASSUME TypeOK, BufferIsTail, NEW c \in Char, ReadChar(c)
    PROVE  BufferIsTail'
<1> DEFINE n == Len(typed)
           d == Dropped(n)
<1>1. /\ typed \in Seq(Char) /\ n \in Nat /\ BufferSize \in Nat \ {0}
      /\ typed' = Append(typed, c) /\ Len(typed') = n + 1
      /\ command_buffer' = IF Len(command_buffer) < BufferSize - 1
                           THEN Append(command_buffer, c) ELSE <<>>
  BY SizeAssumption, AppendProperties DEF TypeOK, ReadChar
<1>2. command_buffer = SubSeq(typed, d + 1, n)
  BY DEF BufferIsTail, Dropped
<1>3. /\ d \in Nat /\ n - d \in 0..BufferSize-1 /\ d \in 0..n
      /\ n - d < BufferSize - 1 => Dropped(n + 1) = d
      /\ ~(n - d < BufferSize - 1) => Dropped(n + 1) = n + 1
  <2>1. d \in Nat /\ n - d \in 0..BufferSize-1
    BY <1>1, DroppedGrows
  <2> QED
    BY <1>1, <2>1, DroppedGrows
<1>4. Len(command_buffer) = n - d
  BY <1>1, <1>2, <1>3
<1>5. command_buffer' = SubSeq(typed', Dropped(n + 1) + 1, n + 1)
  <2>1. CASE n - d < BufferSize - 1
    <3>1. command_buffer' = Append(SubSeq(typed, d + 1, n), c)
      BY <1>1, <1>2, <1>4, <2>1
    <3>2. SubSeq(typed', d + 1, n + 1) = Append(SubSeq(typed, d + 1, n), c)
      BY <1>1, <1>3, TailGrows
    <3> QED
      BY <1>3, <2>1, <3>1, <3>2
  <2>2. CASE ~(n - d < BufferSize - 1)
    <3>1. command_buffer' = <<>> /\ Dropped(n + 1) = n + 1
      BY <1>1, <1>3, <1>4, <2>2
    <3>2. SubSeq(typed', (n + 1) + 1, n + 1) = <<>>
      BY <1>1, SubSeqEmpty
    <3> QED
      BY <3>1, <3>2
  <2> QED
    BY <2>1, <2>2
<1>6. Dropped(n + 1) = BufferSize * (Len(typed') \div BufferSize)
  BY <1>1 DEF Dropped
<1> QED
  BY <1>1, <1>5, <1>6 DEF BufferIsTail

LEMMA EmptyLineTail ==
    /\ command_buffer = <<>> /\ typed = <<>> => BufferIsTail
    /\ command_buffer' = <<>> /\ typed' = <<>> => BufferIsTail'
<1>1. Dropped(0) = 0
  BY SizeAssumption DEF Dropped
<1>2. Len(<<>>) = 0 /\ SubSeq(<<>>, 0 + 1, 0) = <<>>
  BY SubSeqEmpty
<1> QED
  BY <1>1, <1>2 DEF BufferIsTail, Dropped

LEMMA StepTail == TypeOK /\ BufferIsTail /\ [Next]_vars => BufferIsTail'
<1> SUFFICES ASSUME TypeOK, BufferIsTail, [Next]_vars PROVE BufferIsTail'
  OBVIOUS
<1>1. ASSUME NEW c \in Char, ReadChar(c)
      PROVE  BufferIsTail'
  BY <1>1, ReadCharTail
<1>2. CASE ReadEndOfLine
  BY <1>2, EmptyLineTail DEF ReadEndOfLine
<1>3. CASE UNCHANGED lineVars
  BY <1>3 DEF lineVars, BufferIsTail
<1>4. CASE \/ EndPoll \/ EndRead \/ Execute \/ EndTurn
           \/ \E r \in Request : WebSubmit(r)
           \/ UNCHANGED vars
  <2>1. UNCHANGED lineVars
    BY <1>4 DEF EndPoll, EndRead, Execute, EndTurn, WebSubmit, vars
  <2> QED
    BY <1>3, <2>1
<1> QED
  BY <1>1, <1>2, <1>4 DEF Next, Turn

\* The buffer of the CDC line holds the end of the line, what follows the last
\* BufferSize characters that were dropped together, for every length of either.
THEOREM BufferAlwaysTail == Spec => []BufferIsTail
<1>1. Init => BufferIsTail
  BY EmptyLineTail DEF Init
<1> QED
  BY <1>1, StepTail, TypeCorrect, PTL DEF Spec

-----------------------------------------------------------------------------
(* The ring implements the FIFO.                                           *)

\* The contents of a ring q with n requests from position h on
Contents(q, h, n) == [i \in 1..n |-> q[(h + (i - 1)) % Capacity]]

LEMMA ContentsAreSequence ==
    ASSUME NEW q \in [0..Capacity-1 -> Entry], NEW h \in 0..Capacity-1,
           NEW n \in 0..Capacity
    PROVE  /\ Contents(q, h, n) \in Seq(Entry)
           /\ Len(Contents(q, h, n)) = n
           /\ \A i \in 1..n : Contents(q, h, n)[i] = q[(h + (i - 1)) % Capacity]
<1>1. Capacity \in Nat \ {0}
  BY SizeAssumption
<1>2. \A i \in 1..n : q[(h + (i - 1)) % Capacity] \in Entry
  <2>1. \A x \in Int : x % Capacity \in 0..Capacity-1
    BY <1>1
  <2> QED
    BY <2>1
<1>3. Contents(q, h, n) \in [1..n -> Entry]
  BY <1>2 DEF Contents
<1>4. n \in Nat
  BY <1>1
<1>5. Contents(q, h, n) \in Seq(Entry)
  BY <1>3, <1>4, SeqDef
<1>6. Len(Contents(q, h, n)) = n
  BY <1>3, <1>4
<1> QED
  BY <1>5, <1>6 DEF Contents

LEMMA WaitingIsContents ==
    /\ Waiting = Contents(requests, head, count)
    /\ Waiting' = Contents(requests', head', count')
  BY DEF Waiting, Contents, Slot

\* The elements of the queue, before and after a step that keeps the types
LEMMA WaitingTyped ==
    ASSUME QueueOK, QueueOK'
    PROVE  /\ Waiting \in Seq(Entry) /\ Len(Waiting) = count
           /\ \A i \in 1..count : Waiting[i] = requests[Slot(i - 1)]
           /\ Waiting' \in Seq(Entry) /\ Len(Waiting') = count'
           /\ \A i \in 1..count' : Waiting'[i] = (requests[Slot(i - 1)])'
  BY WaitingIsContents, ContentsAreSequence DEF QueueOK, Slot

\* A request that is put into the queue is the last of it.
LEMMA PutAtEnd ==
    ASSUME QueueOK, QueueOK', NEW r \in Request, count < Capacity, Put(r)
    PROVE  Waiting' = Append(Waiting, r)
<1>1. /\ requests' = [requests EXCEPT ![Slot(count)] = r]
      /\ head' = head /\ count' = count + 1
  BY DEF Put
<1>2. Capacity \in Nat \ {0} /\ count \in 0..Capacity-1 /\ r \in Entry
  BY CountIsNat DEF Entry
<1>3. /\ Append(Waiting, r) \in Seq(Entry)
      /\ Len(Append(Waiting, r)) = count + 1
      /\ \A i \in 1..count : Append(Waiting, r)[i] = Waiting[i]
      /\ Append(Waiting, r)[count + 1] = r
  BY <1>2, WaitingTyped, AppendProperties
<1>4. ASSUME NEW i \in 1..count + 1
      PROVE  Waiting'[i] = Append(Waiting, r)[i]
  <2>1. i - 1 \in 0..Capacity-1 /\ Slot(i - 1)' = Slot(i - 1)
    BY <1>1, <1>2 DEF Slot
  <2>2. /\ Slot(i - 1) \in 0..Capacity-1
        /\ requests \in [0..Capacity-1 -> Entry]
    BY <1>2, <2>1, SlotWraps DEF QueueOK
  <2>3. Waiting'[i] = requests'[Slot(i - 1)]
    BY <1>1, <2>1, WaitingTyped
  <2>4. CASE i = count + 1
    <3>1. Slot(i - 1) = Slot(count)
      BY <1>2, <2>4
    <3> QED
      BY <1>1, <1>3, <2>2, <2>3, <2>4, <3>1
  <2>5. CASE i # count + 1
    <3>1. i \in 1..count /\ i - 1 # count
      BY <1>2, <2>5
    <3>2. Slot(i - 1) # Slot(count)
      BY <1>2, <2>1, <3>1, SlotsDiffer
    <3>3. Waiting'[i] = requests[Slot(i - 1)]
      BY <1>1, <2>2, <2>3, <3>2
    <3> QED
      BY <1>3, <3>1, <3>3, WaitingTyped
  <2> QED
    BY <2>4, <2>5
<1>5. Waiting' \in Seq(Entry) /\ Len(Waiting') = count + 1
  BY <1>1, WaitingTyped
<1> QED
  BY <1>3, <1>4, <1>5, SeqEqual

LEMMA PushIsFifo ==
    ASSUME QueueOK, NEW r \in Request, Push(r), UNCHANGED executed
    PROVE  Fifo!Accept(r) \/ Fifo!Refuse
<1>1. QueueOK'
  BY PushKeepsQueue
<1>2. Len(Waiting) = count /\ count \in Nat
  BY <1>1, WaitingTyped, CountIsNat
<1>3. CASE count < Capacity /\ Put(r)
  BY <1>1, <1>2, <1>3, PutAtEnd DEF Put, Fifo!Accept
<1>4. CASE count = Capacity /\ answer' = "refused" /\ UNCHANGED <<requests, head, count>>
  <2>1. UNCHANGED Waiting
    BY <1>4, WaitingIsContents
  <2> QED
    BY <1>2, <1>4, <2>1 DEF Fifo!Refuse
<1> QED
  BY <1>3, <1>4 DEF Push

LEMMA PopIsFifo ==
    ASSUME QueueOK, Pop
    PROVE  Fifo!Execute
<1>1. /\ QueueOK' /\ executed' = requests[Slot(0)]
      /\ UNCHANGED <<requests, answer>>
      /\ count \in 1..Capacity /\ count' = count - 1
      /\ \A k \in 1..count' : Slot(k - 1)' = Slot(k)
  BY PopMovesHead
<1>2. count \in Nat \ {0} /\ Capacity \in Nat
  BY <1>1, CountIsNat
<1>3. Waiting \in Seq(Entry) /\ Len(Waiting) = count /\ Waiting # <<>>
  BY <1>1, <1>2, WaitingTyped
<1>4. Head(Waiting) = executed'
  <2>1. Head(Waiting) = Waiting[1]
    BY <1>3
  <2>2. Waiting[1] = requests[Slot(1 - 1)]
    BY <1>1, <1>2, WaitingTyped
  <2> QED
    BY <1>1, <2>1, <2>2
<1>5. Waiting' = Tail(Waiting)
  <2>1. /\ Tail(Waiting) \in Seq(Entry)
        /\ Len(Tail(Waiting)) = count'
        /\ \A i \in 1..count' : Tail(Waiting)[i] = Waiting[i + 1]
    BY <1>1, <1>2, <1>3, HeadTailProperties
  <2>2. Waiting' \in Seq(Entry) /\ Len(Waiting') = count'
    BY <1>1, WaitingTyped
  <2>3. ASSUME NEW i \in 1..count'
        PROVE  Waiting'[i] = Tail(Waiting)[i]
    <3>1. Waiting'[i] = requests[Slot(i - 1)']
      BY <1>1, WaitingTyped
    <3>2. Slot(i - 1)' = Slot(i)
      BY <1>1
    <3>3. i + 1 \in 1..count /\ (i + 1) - 1 = i
      BY <1>1, <1>2
    <3>4. Waiting[i + 1] = requests[Slot(i)]
      BY <1>1, <3>3, WaitingTyped
    <3> QED
      BY <2>1, <3>1, <3>2, <3>4
  <2> QED
    BY <2>1, <2>2, <2>3, SeqEqual
<1> QED
  BY <1>1, <1>3, <1>4, <1>5 DEF Fifo!Execute

LEMMA StepFifo == TypeOK /\ [Next]_vars => [Fifo!Next]_Fifo!vars
<1> SUFFICES ASSUME TypeOK, [Next]_vars
             PROVE  [Fifo!Next]_Fifo!vars
  OBVIOUS
<1>a. QueueOK
  BY TypeHasQueue
<1>1. ASSUME NEW r \in Request, WebSubmit(r)
      PROVE  Fifo!Next
  BY <1>a, <1>1, PushIsFifo DEF WebSubmit, Fifo!Next
<1>2. CASE Execute
  BY <1>a, <1>2, PopIsFifo DEF Execute, Fifo!Next
<1>3. CASE ReadEndOfLine /\ Parse(command_buffer) \in Request
  BY <1>a, <1>3, PushIsFifo DEF ReadEndOfLine, Fifo!Next
<1>4. CASE UNCHANGED <<queueVars, executed>>
  BY <1>4, WaitingIsContents DEF queueVars, Fifo!vars
<1>5. CASE \/ EndPoll \/ EndRead \/ EndTurn
           \/ \E c \in Char : ReadChar(c)
           \/ ReadEndOfLine /\ Parse(command_buffer) \notin Request
           \/ UNCHANGED vars
  <2>1. UNCHANGED <<queueVars, executed>>
    BY <1>5 DEF EndPoll, EndRead, EndTurn, ReadChar, ReadEndOfLine, vars, queueVars
  <2> QED
    BY <1>4, <2>1
<1> QED
  BY <1>1, <1>2, <1>3, <1>5 DEF Next, Turn

LEMMA InitFifo == Init => Fifo!Init
<1> SUFFICES ASSUME Init PROVE Fifo!Init
  OBVIOUS
<1>1. QueueOK
  BY InitType, TypeHasQueue
<1>2. Waiting \in Seq(Entry) /\ Len(Waiting) = 0
  BY <1>1, WaitingIsContents, ContentsAreSequence DEF Init, QueueOK
<1>3. Waiting = <<>>
  BY <1>2, EmptySeq
<1> QED
  BY <1>3 DEF Init, Fifo!Init

\* The ring implements the FIFO of RequestFifo.tla: what is accepted, of the web
\* page and the CDC line, is executed once and in the order of acceptance.
THEOREM RingImplementsFifo == Spec => QueueIsFifo
<1>1. Spec => []TypeOK
  BY TypeCorrect
<1>2. Init => Fifo!Init
  BY InitFifo
<1>3. TypeOK /\ [Next]_vars => [Fifo!Next]_Fifo!vars
  BY StepFifo
<1> QED
  BY <1>1, <1>2, <1>3, PTL DEF Spec, QueueIsFifo, Fifo!Spec

=============================================================================
