-------------------------- MODULE ReportDescriptor --------------------------
(***************************************************************************)
(* bt/hid_report_descriptor.c: what the bytes of a HID report descriptor   *)
(* say of the keyboard.  Its items are looked at one after the other, with *)
(* the state the HID class defines for them; the first item that is        *)
(* refused makes the whole descriptor invalid.                             *)
(*                                                                         *)
(* A usage set keeps the usages themselves, by position, where the code    *)
(* keeps the first position of each key and a bitmap of the positions that *)
(* hold none.                                                              *)
(***************************************************************************)
EXTENDS Integers, FiniteSets, SequencesExt, TLC

STACK_DEPTH    == 4
SET_COUNT      == 4
POSITION_LIMIT == 256

PAGE_KEYBOARD == 7
PAGE_CONSUMER == 12
KEYBOARD         == [page |-> 1, usage |-> 6]
CONSUMER_CONTROL == [page |-> PAGE_CONSUMER, usage |-> 1]
NoUsage          == [page |-> -1, usage |-> -1]

NoInfo == [valid |-> FALSE, has_keyboard |-> FALSE, has_consumer_control |-> FALSE,
           has_nkro_keyboard |-> FALSE, uses_report_ids |-> FALSE]

-----------------------------------------------------------------------------
(* Items                                                                   *)

\* Tag and type, as they are in the upper six bits of an item's first byte
Kinds ==
    1 :> "usage_page" @@ 29 :> "report_size" @@ 33 :> "report_id" @@
    37 :> "report_count" @@ 41 :> "push" @@ 45 :> "pop" @@
    2 :> "usage" @@ 6 :> "usage_minimum" @@ 10 :> "usage_maximum" @@ 42 :> "delimiter" @@
    32 :> "input" @@ 36 :> "output" @@ 44 :> "feature" @@
    40 :> "collection" @@ 48 :> "end_collection"

Kind(byte) ==
    LET k == byte \div 4
    IN  IF k \in DOMAIN Kinds THEN Kinds[k]
        ELSE IF k % 4 = 0 THEN "other_main" ELSE "ignored"

\* item_value: little-endian
ItemValue(data) == FoldLeft(LAMBDA v, i : v + data[i] * 256^(i - 1), 0, [i \in DOMAIN data |-> i])

TruncatedItem == [kind |-> "truncated", size |-> 0, value |-> 0]

\* The items of a descriptor.  A long item (0xfe) is skipped; one that is longer
\* than what is left is the last.
RECURSIVE Items(_)
Items(d) ==
    IF d = <<>> THEN <<>>
    ELSE LET long == d[1] = 254
             code == d[1] % 4
             size == IF ~long THEN IF code = 3 THEN 4 ELSE code
                     ELSE IF Len(d) < 3 THEN 2 ELSE 2 + d[2]
             rest == SubSeq(d, 2 + size, Len(d))
         IN  IF Len(d) < 1 + size THEN <<TruncatedItem>>
             ELSE IF long THEN Items(rest)
             ELSE <<[kind  |-> Kind(d[1]), size |-> size,
                     value |-> ItemValue(SubSeq(d, 2, 1 + size))]>> \o Items(rest)

Main(it) == it.kind \in {"input", "output", "feature", "collection", "end_collection", "other_main"}

\* qualified_usage_page: an item of four bytes names the page of its usage.
UsageOf(it, page) ==
    [page  |-> IF it.size = 4 THEN it.value \div 65536 ELSE page,
     usage |-> it.value % 65536]

-----------------------------------------------------------------------------
(* The state of the parser                                                 *)

Start ==
    [ok |-> TRUE, info |-> NoInfo,
     page |-> 0, size |-> 0, count |-> 0, stack |-> <<>>,
     sets |-> <<(<<>>)>>, current |-> 1, minimum |-> NoUsage, delimiter_open |-> FALSE,
     collection_depth |-> 0, keyboard_depth |-> 0]

Refused(p, it) ==
    \/ it.kind = "truncated"
    \/ /\ it.kind \in {"usage_page", "report_size", "report_count", "usage", "usage_minimum",
                       "usage_maximum", "input", "output", "feature"}
       /\ it.size \notin {1, 2, 4}
    \/ it.kind = "report_id" /\ (it.size # 1 \/ it.value = 0)
    \/ it.kind = "push" /\ (it.size # 0 \/ Len(p.stack) = STACK_DEPTH)
    \/ it.kind = "pop" /\ (it.size # 0 \/ p.stack = <<>>)
    \/ it.kind = "usage_minimum" /\ p.minimum # NoUsage
    \/ /\ it.kind = "usage_maximum"
       /\ \/ p.minimum = NoUsage
          \/ UsageOf(it, p.page).page # p.minimum.page
          \/ UsageOf(it, p.page).usage < p.minimum.usage
    \/ /\ it.kind = "delimiter"
       /\ \/ p.minimum # NoUsage \/ it.size # 1 \/ it.value \notin {0, 1}
          \/ (it.value = 1) = p.delimiter_open
          \/ it.value = 1 /\ Len(p.sets) = SET_COUNT
    \/ Main(it) /\ (p.delimiter_open \/ p.minimum # NoUsage)
    \/ it.kind = "collection" /\ (it.size # 1 \/ \A s \in ToSet(p.sets) : s = <<>>)
    \/ it.kind = "end_collection" /\ (it.size # 0 \/ p.collection_depth = 0)

AppendUsages(p, usages) == [p EXCEPT !.sets[p.current] = @ \o usages]

UsageRange(u, v) == [i \in 1..v.usage - u.usage + 1 |-> [u EXCEPT !.usage = u.usage + i - 1]]

\* The application of a set is its first usage.
Applications(p) == {s[1] : s \in ToSet(p.sets) \ {<<>>}}

Collection(p, it) ==
    LET depth == p.collection_depth + 1
        named == IF it.value = 1 THEN Applications(p) ELSE {}
    IN  [p EXCEPT !.collection_depth = depth,
                  !.keyboard_depth = IF KEYBOARD \in named THEN depth ELSE @,
                  !.info.has_keyboard = @ \/ KEYBOARD \in named,
                  !.info.has_consumer_control = @ \/ CONSUMER_CONTROL \in named]

\* Mutant of EndCollection: what follows the keyboard is still the keyboard.
EndKeepsKeyboard(p) == [p EXCEPT !.collection_depth = @ - 1]

EndCollection(p) ==
    [p EXCEPT !.collection_depth = @ - 1,
              !.keyboard_depth = IF @ = p.collection_depth THEN 0 ELSE @]

\* Keys (usages from 4) and other positions of the keyboard page in a report
KeyPositions(s, count) ==
    {i \in DOMAIN s : i <= count /\ i <= POSITION_LIMIT /\ s[i].page = PAGE_KEYBOARD}
KeyCount(s, count) ==
    Cardinality({s[i].usage : i \in KeyPositions(s, count)} \cap 4..255)
NonKeyCount(s, count) ==
    Cardinality({i \in KeyPositions(s, count) : s[i].usage < 4})

\* A bitmap: one bit each for more than eight keys and for nothing else
Bitmap(p, s, flags) ==
    /\ p.keyboard_depth # 0
    /\ flags % 4 = 2
    /\ p.size = 1
    /\ p.count \in 9..POSITION_LIMIT
    /\ KeyCount(s, p.count) > 8
    /\ KeyCount(s, p.count) + NonKeyCount(s, p.count) >= p.count

\* Data of the consumer page; a variable only reaches its first report_count usages.
ConsumerData(p, s, flags) ==
    /\ flags % 2 = 0
    /\ \E i \in DOMAIN s : /\ s[i].page = PAGE_CONSUMER /\ s[i].usage # 0
                           /\ flags \div 2 % 2 = 0 \/ i <= p.count

Input(p, it) ==
    LET sets == ToSet(p.sets)
    IN  [p EXCEPT
           !.info.has_nkro_keyboard = @ \/ \E s \in sets : Bitmap(p, s, it.value),
           !.info.has_consumer_control = @ \/ \E s \in sets : ConsumerData(p, s, it.value)]

Delimiter(p, it) ==
    IF it.value = 1
    THEN [p EXCEPT !.sets = Append(@, <<>>), !.current = Len(p.sets) + 1, !.delimiter_open = TRUE]
    ELSE [p EXCEPT !.current = 1, !.delimiter_open = FALSE]

Pop(p) ==
    LET top == Last(p.stack)
    IN  [p EXCEPT !.stack = Front(@), !.page = top.page, !.size = top.size, !.count = top.count]

\* Mutant of ResetUsageSets: usages stay for the next main item.
KeepUsageSets(p) == p

ResetUsageSets(p) == [p EXCEPT !.sets = <<(<<>>)>>, !.current = 1]

\* The effect of an item that is not refused
Taken(p, it) ==
    CASE it.kind = "usage_page"    -> [p EXCEPT !.page = it.value]
      [] it.kind = "report_size"   -> [p EXCEPT !.size = it.value]
      [] it.kind = "report_count"  -> [p EXCEPT !.count = it.value]
      [] it.kind = "report_id"     -> [p EXCEPT !.info.uses_report_ids = TRUE]
      [] it.kind = "push" ->
            [p EXCEPT !.stack = Append(@, [page |-> p.page, size |-> p.size, count |-> p.count])]
      [] it.kind = "pop"           -> Pop(p)
      [] it.kind = "usage"         -> AppendUsages(p, <<UsageOf(it, p.page)>>)
      [] it.kind = "usage_minimum" -> [p EXCEPT !.minimum = UsageOf(it, p.page)]
      [] it.kind = "usage_maximum" ->
            [AppendUsages(p, UsageRange(p.minimum, UsageOf(it, p.page))) EXCEPT !.minimum = NoUsage]
      [] it.kind = "delimiter"     -> Delimiter(p, it)
      [] it.kind = "collection"    -> ResetUsageSets(Collection(p, it))
      [] it.kind = "end_collection" -> ResetUsageSets(EndCollection(p))
      [] it.kind = "input"         -> ResetUsageSets(Input(p, it))
      [] it.kind \in {"output", "feature", "other_main"} -> ResetUsageSets(p)
      [] OTHER                     -> p

Step(p, it) ==
    IF ~p.ok \/ Refused(p, it) THEN [p EXCEPT !.ok = FALSE] ELSE Taken(p, it)

\* hid_report_descriptor_parse
ParseReportDescriptor(d) ==
    LET p == FoldLeft(Step, Start, Items(d))
        complete == /\ d # <<>> /\ p.ok
                    /\ p.collection_depth = 0 /\ p.stack = <<>>
                    /\ ~p.delimiter_open /\ p.minimum = NoUsage
    IN  IF complete THEN [p.info EXCEPT !.valid = TRUE] ELSE NoInfo

=============================================================================
