--------------------------- MODULE ServiceRecord ---------------------------
(***************************************************************************)
(* What a service record means, told without parsing it: the properties of *)
(* SdpParser.tla and ReportDescriptor.tla.                                 *)
(*                                                                         *)
(* Lists of protocols are told by their trees, which are sequences with    *)
(* kids or data of a type; the list of descriptors by its grammar; a report*)
(* descriptor by what each of its items has before it.                     *)
(***************************************************************************)
EXTENDS SdpParser

\* The step that parses a whole attribute
Parses(id) ==
    /\ attribute.id = id
    /\ offset' = offset + 1 /\ offset' = Length /\ Length <= BufferSize

-----------------------------------------------------------------------------
(* Lists of protocols                                                      *)

\* The sequences in a tree, in the order of the document
RECURSIVE SequencesIn(_)
SequencesIn(t) ==
    FlattenSeq([i \in DOMAIN t.kids |->
        IF t.kids[i].type # "sequence" THEN <<>> ELSE <<t.kids[i]>> \o SequencesIn(t.kids[i])])

IsL2cap(t) ==
    /\ Len(t.kids) >= 2
    /\ t.kids[1].type = "uuid" /\ t.kids[1].data = L2CAP
    /\ t.kids[2].type = "uint" /\ Len(t.kids[2].data) = 2

\* The PSMs of a tree, the first one first
Psms(t) ==
    IF t.type # "sequence" THEN <<>>
    ELSE LET named == SelectSeq(SequencesIn(t), IsL2cap)
         IN  [i \in DOMAIN named |-> BigEndian(named[i].kids[2].data)]

\* Somewhere in b stands the UUID of L2CAP, and after it this number.
Spelled(b, psm) ==
    \E i \in 1..Len(b) - 5 :
        SubSeq(b, i, i + 5) = <<25>> \o L2CAP \o <<9, psm \div 256, psm % 256>>

\* The PSM of a list of protocols is that of the first sequence in it, at any
\* depth, that names L2CAP and a number; a list that names none changes nothing,
\* and one that is damaged gives no PSM that it does not spell out.
PsmIsFirst ==
    [][\A id \in {PROTOCOL_DESCRIPTOR_LIST, ADDITIONAL_PROTOCOL_DESCRIPTOR_LISTS} :
         Parses(id) =>
           LET was == device[PsmField(id)]
               is  == device'[PsmField(id)]
           IN  IF attribute.tree # NoTree
               THEN is = Head(Psms(attribute.tree) \o <<was>>)
               ELSE is # was => Spelled(attribute.value, is)]_vars

-----------------------------------------------------------------------------
(* The list of descriptors                                                 *)

\* Data behind a header with a length of one, two or four bytes
Contents(b, type) ==
    {SubSeq(b, n + 2, Len(b)) : n \in
        {n \in {1, 2, 4} : /\ Len(b) > n
                           /\ b[1] = 8 * type + (CASE n = 1 -> 5 [] n = 2 -> 6 [] n = 4 -> 7)
                           /\ BigEndian(SubSeq(b, 2, n + 1)) = Len(b) - n - 1}}

\* The strings of b, if it is a sequence of an 8-bit number, the kind of a report
\* descriptor or another one, and a string
Texts(b, report) ==
    UNION {Contents(SubSeq(c, 3, Len(c)), 4) :
              c \in {c \in Contents(b, 6) : /\ Len(c) > 2 /\ c[1] = 8
                                            /\ report <=> c[2] = REPORT}}

RECURSIVE OtherEntries(_)
OtherEntries(b) ==
    \/ b = <<>>
    \/ \E n \in 1..Len(b) : /\ Texts(SubSeq(b, 1, n), FALSE) # {}
                            /\ OtherEntries(SubSeq(b, n + 1, Len(b)))

\* The report descriptors of a list: a sequence of entries, of which the first,
\* and no other, is one.
ReportDescriptors(b) ==
    UNION {UNION {Texts(SubSeq(c, 1, n), TRUE) :
                     n \in {n \in 1..Len(c) : OtherEntries(SubSeq(c, n + 1, Len(c)))}} :
              c \in Contents(b, 6)}

\* A report descriptor is taken from a list that is well formed to its last
\* byte, and from such a list it is taken.
ReportFromList ==
    [][Parses(HID_DESCRIPTOR_LIST) =>
          (device'.report.valid <=>
              \E d \in ReportDescriptors(attribute.value) : ParseReportDescriptor(d).valid)]_vars

-----------------------------------------------------------------------------
(* Report descriptors                                                      *)

\* Positions of items of some kinds from i to j
At(I, kinds, i, j) == {k \in i..j : k \in DOMAIN I /\ I[k].kind \in kinds}
Count(I, kind, i, j) == Cardinality(At(I, {kind}, i, j))
Latest(S) == IF S = {} THEN 0 ELSE CHOOSE k \in S : \A l \in S : l <= k

\* What began with item j has not ended before item i.
StillOpen(I, open, close, j, i) ==
    \A k \in j+1..i-1 : Count(I, close, j + 1, k) <= Count(I, open, j + 1, k)

\* All that opens is closed.
Balanced(I, open, close) ==
    /\ StillOpen(I, open, close, 0, Len(I) + 1)
    /\ Count(I, open, 1, Len(I)) = Count(I, close, 1, Len(I))

Mains(I) == {i \in DOMAIN I : Main(I[i])}
Collections(I) == At(I, {"collection"}, 1, Len(I))

\* The collections around item i
Around(I, i) ==
    {j \in At(I, {"collection"}, 1, i - 1) : StillOpen(I, "collection", "end_collection", j, i)}

\* A global item holds until the next one, or a pop restores what was before the
\* push.
Global(I, kind, i) ==
    LET j == Latest({j \in At(I, {kind}, 1, i - 1) : StillOpen(I, "push", "pop", j, i)})
    IN  IF j = 0 THEN 0 ELSE I[j].value

\* Local items belong to the next main item: those from here on
Locals(I, i) == Latest({m \in Mains(I) : m < i}) + 1

\* The usages that item k adds
Adds(I, k) ==
    LET usage == UsageOf(I[k], Global(I, "usage_page", k))
        minimum == I[Latest(At(I, {"usage_minimum"}, 1, k))].value % 65536
    IN  CASE I[k].kind = "usage" -> <<usage>>
          [] I[k].kind = "usage_maximum" ->
                [u \in 1..usage.usage - minimum + 1 |-> [usage EXCEPT !.usage = minimum + u - 1]]
          [] OTHER -> <<>>

\* The delimiter that item k is in, or 0
DelimiterOf(I, k) ==
    LET d == Latest(At(I, {"delimiter"}, Locals(I, k), k))
    IN  IF d # 0 /\ I[d].value = 1 THEN d ELSE 0

\* The usages of a main item, by the delimiter they are in
UsageSets(I, i) ==
    LET locals == At(I, {"usage", "usage_maximum"}, Locals(I, i), i - 1)
    IN  {FlattenSeq([n \in 1..i-1 |->
            IF n \in locals /\ DelimiterOf(I, n) = d THEN Adds(I, n) ELSE <<>>]) :
               d \in {DelimiterOf(I, n) : n \in locals}}

IsApplication(I, i, usage) ==
    /\ I[i].kind = "collection" /\ I[i].value = 1
    /\ \E s \in UsageSets(I, i) : s[1] = usage

\* Every bit of the report is a key of its own, or none of the keyboard's keys;
\* more than eight are.
IsBitmap(I, i) ==
    LET count == Global(I, "report_count", i)
    IN  /\ I[i].kind = "input" /\ I[i].value % 4 = 2
        /\ Global(I, "report_size", i) = 1
        /\ \E s \in UsageSets(I, i) :
              /\ count <= Len(s)
              /\ \A b \in 1..count : s[b].page = PAGE_KEYBOARD
              /\ \A a, b \in 1..count : s[a] = s[b] => a = b \/ s[a].usage < 4
              /\ Cardinality({b \in 1..count : s[b].usage >= 4}) > 8

IsConsumerData(I, i) ==
    /\ I[i].kind = "input" /\ I[i].value % 2 = 0
    /\ \E s \in UsageSets(I, i) : \E c \in DOMAIN s :
          /\ s[c].page = PAGE_CONSUMER /\ s[c].usage # 0
          /\ (I[i].value \div 2) % 2 = 1 => c <= Global(I, "report_count", i)

\* What a valid descriptor declares
Declared(I) ==
    [valid |-> TRUE,
     has_keyboard |-> \E i \in Collections(I) : IsApplication(I, i, KEYBOARD),
     has_consumer_control |->
        \/ \E i \in Collections(I) : IsApplication(I, i, CONSUMER_CONTROL)
        \/ \E i \in Mains(I) : IsConsumerData(I, i),
     has_nkro_keyboard |->
        \E i \in Mains(I) : /\ IsBitmap(I, i)
                            /\ \E j \in Around(I, i) : IsApplication(I, j, KEYBOARD),
     uses_report_ids |-> At(I, {"report_id"}, 1, Len(I)) # {}]

KeyboardInKeyboard(I) ==
    \E i \in Collections(I) : \E j \in Around(I, i) :
        IsApplication(I, i, KEYBOARD) /\ IsApplication(I, j, KEYBOARD)

\* A report descriptor made of whole collections and reports is valid; any other
\* one is only if its collections and pushes are balanced.  A valid one declares
\* what its items say, each with the items before it that it depends on: a bitmap
\* counts inside of a keyboard's collection only, with the usages since the last
\* main item and the sizes that hold.  (Keyboards inside of keyboards are left
\* out: after the inner one the code does not see the outer one.)
ReportAsDeclared ==
    [][Parses(HID_DESCRIPTOR_LIST) =>
          /\ attribute.tree # NoTree => device'.report.valid
          /\ \A d \in ReportDescriptors(attribute.value) :
                LET I == Items(d)
                IN  device'.report.valid =>
                       /\ Balanced(I, "collection", "end_collection")
                       /\ Balanced(I, "push", "pop")
                       /\ KeyboardInKeyboard(I) \/ device'.report = Declared(I)]_vars

=============================================================================
