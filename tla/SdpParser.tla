----------------------------- MODULE SdpParser -----------------------------
(***************************************************************************)
(* bt/sdp_parser.c: the attributes of a keyboard's service record.  BTstack*)
(* hands them over byte by byte; a buffer collects the bytes of one        *)
(* attribute and is parsed with the last of them.  The bytes are whatever  *)
(* the keyboard sent: the data elements in them need not be well formed.   *)
(*                                                                         *)
(* Bytes and parsing are those of the code; only the buffer is shorter, and*)
(* of a name only that there is one is kept.                               *)
(***************************************************************************)
EXTENDS ReportDescriptor

CONSTANTS
    Attribute,       \* what is received: [id, value, tree], see NoTree
    Few,             \* those of them that are tried one after another
    MaxReceived,     \* bound of the model: how many of these
    BufferSize       \* SDP_PARSER_BUFFER_SIZE

PROTOCOL_DESCRIPTOR_LIST             == 4
ADDITIONAL_PROTOCOL_DESCRIPTOR_LISTS == 13
SERVICE_NAME                         == 256
HID_DESCRIPTOR_LIST                  == 518
L2CAP == <<1, 0>>    \* the UUID 0x0100
REPORT == 34         \* the kind 0x22 of a class descriptor

\* Tree of a value that encodes none
NoTree == [type |-> "none"]

ASSUME AttributeAssumption ==
    /\ Few \subseteq Attribute
    /\ {MaxReceived, BufferSize} \subseteq Nat \ {0}

VARIABLES
    buffer,          \* sdp_parser.buffer
    completed_attribute_count,
    device,          \* what the parser sets of the connected device, which is
                     \* listed (ConnectedDeviceKnown)
    attribute,       \* the attribute that BTstack hands over
    offset,          \* bytes of it handed over
    received         \* attributes so far, for the bound

vars == <<buffer, completed_attribute_count, device, attribute, offset, received>>

NewDevice(has_name) ==
    [hid_control_psm |-> 0, hid_interrupt_psm |-> 0, has_name |-> has_name,
     report_descriptor_present |-> FALSE, report_descriptor_too_large |-> FALSE,
     report |-> NoInfo]

NoAttribute == [id |-> 0, value |-> <<>>, tree |-> NoTree]

Init ==
    /\ buffer = [i \in 0..BufferSize-1 |-> 0]
    /\ completed_attribute_count = 0
    /\ \E named \in BOOLEAN : device = NewDevice(named)
    /\ attribute = NoAttribute
    /\ offset = 0
    /\ received = 0

-----------------------------------------------------------------------------
(* Data elements                                                           *)

Types == 1 :> "uint" @@ 2 :> "int" @@ 3 :> "uuid" @@ 4 :> "string" @@ 5 :> "bool" @@
         6 :> "sequence" @@ 7 :> "alternative" @@ 8 :> "url" @@ 0 :> "nil"
SizeIndexes == [nil |-> {0}, bool |-> {0}, uint |-> 0..4, int |-> 0..4, uuid |-> {1, 2, 4},
                string |-> 5..7, sequence |-> 5..7, alternative |-> 5..7, url |-> 5..7]

BigEndian(b) == FoldLeft(LAMBDA v, x : 256 * v + x, 0, b)

HeaderSize(b) == IF b[1] % 8 <= 4 THEN 1 ELSE 1 + 2^((b[1] % 8) - 5)
DataSize(b) ==
    IF b[1] = 0 THEN 0
    ELSE IF b[1] % 8 <= 4 THEN 2^(b[1] % 8)
    ELSE BigEndian(SubSeq(b, 2, HeaderSize(b)))

\* A whole element is at the beginning of b.
Readable(b) ==
    /\ b # <<>>
    /\ b[1] \div 8 \in DOMAIN Types
    /\ b[1] % 8 \in SizeIndexes[Types[b[1] \div 8]]
    /\ HeaderSize(b) <= Len(b)
    /\ DataSize(b) <= Len(b) - HeaderSize(b)

NoElement == [type |-> "none", data |-> <<>>, total |-> 0]

\* read_element
ReadElement(b) ==
    IF ~Readable(b) THEN NoElement
    ELSE LET total == HeaderSize(b) + DataSize(b)
         IN  [type |-> Types[b[1] \div 8], data |-> SubSeq(b, HeaderSize(b) + 1, total), total |-> total]

After(b, e) == SubSeq(b, e.total + 1, Len(b))
Bytes(b, e) == SubSeq(b, 1, e.total)

\* The bytes of the elements in data; what cannot be read is the last of them.
RECURSIVE Parts(_)
Parts(data) ==
    IF data = <<>> THEN <<>>
    ELSE IF ~Readable(data) THEN <<data>>
    ELSE LET e == ReadElement(data) IN <<Bytes(data, e)>> \o Parts(After(data, e))

\* validate_element_tree
RECURSIVE ValidElementTree(_, _)
ValidElementTree(b, depth) ==
    LET root == ReadElement(b)
    IN  /\ depth <= 4
        /\ Readable(b) /\ root.total = Len(b)
        /\ root.type = "sequence" =>
               \A part \in ToSet(Parts(root.data)) : ValidElementTree(part, depth + 1)

NoDescriptor == <<-1>>

\* An entry of the descriptor list: its kind, an 8-bit number, and its text
EntryKind(b) == ReadElement(ReadElement(b).data)
EntryText(b) == ReadElement(After(ReadElement(b).data, EntryKind(b)))
Entry(b) ==
    /\ ReadElement(b).type = "sequence"
    /\ EntryKind(b).type = "uint" /\ Len(EntryKind(b).data) = 1
    /\ EntryText(b).type = "string"
    /\ EntryKind(b).total + EntryText(b).total = Len(ReadElement(b).data)

\* Mutant of FindReportDescriptor: other entries may come first.
FindAnyReportDescriptor(b) ==
    LET entries == Parts(ReadElement(b).data)
        reports == {i \in DOMAIN entries : Entry(entries[i]) /\ EntryKind(entries[i]).data = <<REPORT>>}
    IN  IF ValidElementTree(b, 0) /\ reports # {}
        THEN EntryText(entries[CHOOSE i \in reports : TRUE]).data
        ELSE NoDescriptor

\* find_report_descriptor: the text of the first entry, and of no other, is it.
FindReportDescriptor(b) ==
    LET entries == Parts(ReadElement(b).data)
    IN  IF /\ ValidElementTree(b, 0)
           /\ ReadElement(b).type = "sequence"
           /\ entries # <<>>
           /\ \A i \in DOMAIN entries :
                  /\ Entry(entries[i])
                  /\ (i = 1) <=> (EntryKind(entries[i]).data = <<REPORT>>)
        THEN EntryText(entries[1]).data
        ELSE NoDescriptor

NoPsm == -1

\* The PSM of a sequence that begins with the L2CAP UUID and a 16-bit number
NamedPsm(b) ==
    LET data   == ReadElement(b).data
        first  == ReadElement(data)
        second == ReadElement(After(data, first))
    IN  IF /\ first.type = "uuid" /\ first.data = L2CAP
           /\ second.type = "uint" /\ Len(second.data) = 2
        THEN BigEndian(second.data)
        ELSE NoPsm

\* Mutant of FindL2capPsm: the sequences inside are left out.
FindShallowPsm(b) ==
    LET parts == Parts(ReadElement(b).data)
        found == {i \in DOMAIN parts : NamedPsm(parts[i]) # NoPsm}
    IN  IF ReadElement(b).type # "sequence" \/ found = {} THEN NoPsm
        ELSE NamedPsm(parts[CHOOSE i \in found : \A j \in found : i <= j])

\* find_l2cap_psm: a part is looked at before the sequences inside it, and the
\* search ends with the first part that cannot be read.
RECURSIVE FindL2capPsm(_)
FindL2capPsm(b) ==
    LET parts == Parts(ReadElement(b).data)
        psm(i) == IF ReadElement(parts[i]).type # "sequence" THEN NoPsm
                  ELSE IF NamedPsm(parts[i]) # NoPsm THEN NamedPsm(parts[i])
                  ELSE FindL2capPsm(parts[i])
        found == {i \in DOMAIN parts : psm(i) # NoPsm}
    IN  IF ReadElement(b).type # "sequence" \/ found = {} THEN NoPsm
        ELSE psm(CHOOSE i \in found : \A j \in found : i <= j)

-----------------------------------------------------------------------------
(* parse_attribute and sdp_parser_feed                                     *)

PsmField(id) ==
    IF id = PROTOCOL_DESCRIPTOR_LIST THEN "hid_control_psm" ELSE "hid_interrupt_psm"

PsmOf(d, id, b) ==
    IF FindL2capPsm(b) = NoPsm THEN d
    ELSE [d EXCEPT ![PsmField(id)] = FindL2capPsm(b)]

ReportOf(d, b) ==
    LET found == FindReportDescriptor(b)
    IN  [d EXCEPT !.report_descriptor_present = TRUE,
                  !.report_descriptor_too_large = FALSE,
                  !.report = IF found = NoDescriptor THEN NoInfo ELSE ParseReportDescriptor(found)]

NameOf(d, b) ==
    [d EXCEPT !.has_name = @ \/ /\ ReadElement(b).type = "string"
                                /\ ReadElement(b).data # <<>>]

ParseAttribute(d, id, b) ==
    IF id = HID_DESCRIPTOR_LIST THEN ReportOf(d, b)
    ELSE IF id \in {PROTOCOL_DESCRIPTOR_LIST, ADDITIONAL_PROTOCOL_DESCRIPTOR_LISTS} THEN PsmOf(d, id, b)
    ELSE IF id = SERVICE_NAME THEN NameOf(d, b)
    ELSE d

TooLarge(d, id) ==
    IF id # HID_DESCRIPTOR_LIST THEN d
    ELSE [d EXCEPT !.report_descriptor_present = TRUE,
                   !.report_descriptor_too_large = TRUE,
                   !.report = NoInfo]

Length == Len(attribute.value)

\* sdp_parser_feed of an attribute that does not fit the buffer
FeedTooLarge ==
    /\ offset < Length /\ Length > BufferSize
    /\ offset' = offset + 1
    /\ device' = TooLarge(device, attribute.id)
    /\ UNCHANGED <<buffer, completed_attribute_count, attribute, received>>

\* sdp_parser_feed of a byte, and with the last one the attribute is parsed.
Feed ==
    /\ offset < Length /\ Length <= BufferSize
    /\ offset' = offset + 1
    /\ buffer' = [buffer EXCEPT ![offset] = attribute.value[offset + 1]]
    /\ IF offset + 1 = Length
       THEN /\ completed_attribute_count' = completed_attribute_count + 1
            /\ device' = ParseAttribute(device, attribute.id, [i \in 1..Length |-> buffer'[i - 1]])
       ELSE UNCHANGED <<completed_attribute_count, device>>
    /\ UNCHANGED <<attribute, received>>

\* BTstack begins with the next attribute of the record.
NextAttribute(a) ==
    /\ offset = Length
    /\ received < MaxReceived
    /\ received > 0 => {attribute, a} \subseteq Few \cup {NoAttribute}
    /\ attribute' = a
    /\ offset' = 0
    /\ received' = received + 1
    /\ UNCHANGED <<buffer, completed_attribute_count, device>>

\* start_sdp_client_query of the next connection, after this query was cut off
\* anywhere: the buffer is not cleared.
NextQuery ==
    /\ attribute \in Few
    /\ device' = NewDevice(device.has_name)
    /\ completed_attribute_count' = 0
    /\ attribute' = NoAttribute
    /\ offset' = 0
    /\ UNCHANGED <<buffer, received>>

Next ==
    \/ Feed
    \/ FeedTooLarge
    \/ \E a \in Attribute : NextAttribute(a)
    \/ NextQuery

Spec == Init /\ [][Next]_vars

=============================================================================
