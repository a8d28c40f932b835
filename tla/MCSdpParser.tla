----------------------------- MODULE MCSdpParser -----------------------------
(***************************************************************************)
(* Attributes for ServiceRecord.tla: lists of protocols from small trees,  *)
(* report descriptors from a few collections and reports in any order, and *)
(* both with a byte missing, added or changed.                             *)
(***************************************************************************)
EXTENDS ServiceRecord

SeqsUpTo(S, n) == UNION {[1..m -> S] : m \in 0..n}

Leaf(type, data) == [type |-> type, data |-> data, kids |-> <<>>]
Sequence(kids) == [type |-> "sequence", data |-> <<>>, kids |-> kids]
Alternative(kids) == [type |-> "alternative", data |-> <<>>, kids |-> kids]

RECURSIVE Encode(_)
Encode(t) ==
    LET inner == FlattenSeq([i \in DOMAIN t.kids |-> Encode(t.kids[i])])
        size  == IF Len(t.data) = 1 THEN 0 ELSE 1
    IN  CASE t.type = "uint"        -> <<8 + size>> \o t.data
          [] t.type = "uuid"        -> <<24 + size>> \o t.data
          [] t.type = "string"      -> <<37, Len(t.data)>> \o t.data
          [] t.type = "sequence"    -> <<53, Len(inner)>> \o inner
          [] t.type = "alternative" -> <<61, Len(inner)>> \o inner

Whole(id, tree) == [id |-> id, value |-> Encode(tree), tree |-> tree]
Raw(id, value) == [id |-> id, value |-> value, tree |-> NoTree]

Damaged(a) ==
    {Raw(a.id, SubSeq(a.value, 1, n)) : n \in 1..Len(a.value) - 1}
    \cup {Raw(a.id, [a.value EXCEPT ![i] = b]) :
             i \in DOMAIN a.value, b \in {0, 9, 25, 53, 54, 252}}
    \cup {Raw(a.id, a.value \o <<b>>) : b \in {0, 53}}

-----------------------------------------------------------------------------
L2cap  == Leaf("uuid", L2CAP)
Hidp   == Leaf("uuid", <<0, 17>>)
Psm(n) == Leaf("uint", <<0, n>>)

Protocols == {Sequence(k) : k \in SeqsUpTo({L2cap, Hidp, Psm(17)}, 2)}
             \cup {Sequence(<<L2cap, Psm(19)>>), Alternative(<<L2cap, Psm(21)>>),
                   Sequence(<<L2cap, Leaf("uint", <<17>>)>>)}
Lists  == {Sequence(k) : k \in SeqsUpTo(Protocols \cup {L2cap, Psm(17)}, 2)}
Nested == {Sequence(<<t>>) : t \in Lists}
          \cup {Sequence(<<t, Sequence(<<L2cap, Psm(19)>>)>>) : t \in Lists}

Control   == Whole(PROTOCOL_DESCRIPTOR_LIST,
                 Sequence(<<Sequence(<<L2cap, Psm(17)>>), Sequence(<<Hidp>>)>>))
Interrupt == Whole(ADDITIONAL_PROTOCOL_DESCRIPTOR_LISTS,
                 Sequence(<<Sequence(<<Sequence(<<L2cap, Psm(19)>>), Sequence(<<Hidp>>)>>)>>))
ProtocolLists ==
    {Whole(PROTOCOL_DESCRIPTOR_LIST, t) : t \in Lists}
    \cup {Whole(ADDITIONAL_PROTOCOL_DESCRIPTOR_LISTS, t) : t \in Nested}
    \cup Damaged(Control) \cup Damaged(Interrupt)

-----------------------------------------------------------------------------
KeyboardApp == <<5, 1, 9, 6, 161, 1>>
ConsumerApp == <<5, 12, 9, 1, 161, 1>>
End         == <<192>>
Keys(n)     == <<5, 7, 25, 3, 41, 2 + n, 117, 1, 149, n>>

\* Reports and collections: keys as bits, fewer keys than bits, constant bits,
\* a page taken back, a volume key beyond the report, usages that alternate, ...
Bodies ==
    {Keys(10) \o <<129, 2>>,
     Keys(9) \o <<129, 2>>,
     Keys(10) \o <<149, 12, 129, 2>>,
     Keys(10) \o <<129, 3>>,
     <<164>> \o Keys(10) \o <<145, 2, 180, 129, 2>>,
     <<11, 233, 0, 12, 0, 117, 8, 149, 1, 129, 0>>,
     <<5, 7, 9, 4, 5, 12, 9, 233, 129, 2>>,
     <<133, 1, 254, 1, 7, 164>>,
     Keys(10) \o <<169, 1, 5, 12, 9, 233, 169, 0, 129, 2>>,
     <<5, 1, 9, 2, 161, 0>> \o Keys(10) \o <<129, 2, 192>>}

\* Items that do not make a descriptor by themselves
Pieces == {KeyboardApp, End, <<164>>, <<180>>, <<9, 6>>, <<25, 4>>, <<169, 1>>, <<38, 1>>}

EntryOf(kind, text) == Sequence(<<Leaf("uint", <<kind>>), Leaf("string", text)>>)
List(text) == Sequence(<<EntryOf(REPORT, text)>>)

Reports ==
    {app \o FlattenSeq(s) \o End \o t :
        app \in {KeyboardApp, ConsumerApp}, s \in SeqsUpTo(Bodies, 2),
        t \in {<<>>, Keys(10) \o <<129, 2>>}}
PiecedReports == {FlattenSeq(s) : s \in SeqsUpTo(Pieces, 3)}

OneReport == Whole(HID_DESCRIPTOR_LIST, List(KeyboardApp \o End))
TwoEntries(k, l) == Whole(HID_DESCRIPTOR_LIST,
    Sequence(<<EntryOf(k, KeyboardApp \o End), EntryOf(l, <<>>)>>))

DescriptorLists ==
    {Whole(HID_DESCRIPTOR_LIST, List(r)) : r \in Reports}
    \cup {Raw(HID_DESCRIPTOR_LIST, Encode(List(r))) : r \in PiecedReports}
    \cup Damaged(OneReport) \cup Damaged(TwoEntries(REPORT, 35))
    \cup {Raw(HID_DESCRIPTOR_LIST, TwoEntries(k, l).value) : k, l \in {REPORT, 35}}
    \cup {[d EXCEPT !.value = header \o Tail(d.value)] :     \* longer lengths
               d \in {OneReport, Control}, header \in {<<54, 0>>, <<55, 0, 0, 0>>}}
    \cup {Raw(d.id, header \o Tail(d.value)) :
               d \in {OneReport, Control}, header \in {<<55, 0, 0>>, <<55, 0, 1, 0>>}}
    \cup {Raw(HID_DESCRIPTOR_LIST, Encode(Sequence(<<List(End)>>))),
          Raw(HID_DESCRIPTOR_LIST, Encode(Sequence(<<>>)))}

-----------------------------------------------------------------------------
Name(text) == Whole(SERVICE_NAME, Leaf("string", text))

MCFew ==
    {Control, Interrupt, OneReport, Name(<<>>), Name(<<75>>),
     Raw(HID_DESCRIPTOR_LIST, <<53, 1, 0>>),
     Raw(HID_DESCRIPTOR_LIST, [i \in 1..BufferSize + 1 |-> 53]),
     Raw(PROTOCOL_DESCRIPTOR_LIST, [i \in 1..BufferSize + 1 |-> 53]),
     Raw(1, <<53, 0>>)}
MCAttribute == ProtocolLists \cup DescriptorLists \cup MCFew

=============================================================================
