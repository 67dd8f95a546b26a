---------------------------- MODULE MCStageBands ----------------------------
(***************************************************************************)
(* TLC instance of StageBands: sheets ending with four of the rows below,  *)
(* which hold headers with and without a label beside the stages, rows of  *)
(* sub-labels, products with all, some or no dates, and sub-rows, where    *)
(* the first row holds no dates; and sheets of MaxRow rows below a tall    *)
(* header.                                                                 *)
(***************************************************************************)
EXTENDS StageBands

e == Empty

NoCells == [c \in 1 .. MaxCol |-> Empty]
TopRows ==
  { NoCells,
    <<"IO", e,        "cut",   "sew",         "pack",        e>>,       \* a header over three stages
    <<"IO", e,        "cut",   e,             "sew",         e>>,       \* a header over two, cells between
    <<"IO", e,        "cut",   e,             e,             e>>,       \* a header over one
    <<e,    e,        "cut",   "sew",         "pack",        e>>,       \* stages without a label
    <<e,    e,        "plan",  "actual",      "plan",        "actual">>,
    <<e,    e,        "plan",  "actual",      e,             e>>,       \* sub-labels for one stage
    <<e,    e,        "plan",  "actual",      "dev",         e>> }      \* three for one stage
DateRows ==
  { <<"P",  e,        "date",  "date",        "date",        "date">>,
    <<"P",  e,        "date",  "date",        "date",        e>>,
    <<"P",  e,        "date",  "date",        e,             "plan">>,  \* a label beside the dates
    <<"P",  e,        e,       e,             e,             e>>,
    <<"P",  e,        "date string", "date string", e,       e>>,
    <<"P",  e,        "TBD",   "TBD",         "date string", "number">>,
    <<e,    "plan",   "date",  "date",        "date",        e>>,
    <<e,    "action", "date",  e,             "date",        e>>,
    <<e,    "dev",    "date",  "date string", Blanks,        e>>,
    <<e,    e,        Blanks,  Blanks,        "number",      e>> }

SomeRows == TopRows \cup DateRows

FewRows ==
  {[r \in 1 .. MaxRow - 4 |-> NoCells] \o <<top>> \o below :
   top \in TopRows, below \in [1 .. 3 -> SomeRows]}

SomeMerges == {{}, {<<5, 3, 5, 4>>}, {<<6, 5, 6, 6>>}, {<<7, 5, 8, 5>>}}

\* Long enough to repeat a label and to pass the sixth row below the header.
TallHeader == <<"IO", e,  "cut",  "sew",  "pack", e>>
TallRows ==
  { TallHeader,
    <<e,    "plan",      "date", "date", "date", e>>,
    <<"P",  "actual",    "date", e,      "date", e>>,          \* fewer dates
    <<"dev", e,          e,      "date", e,      "date">> }    \* a label in column 1, a date more
TallSheets == {s \in [1 .. MaxRow -> TallRows] : s[1] = TallHeader}

SomeSheets == FewRows \cup TallSheets

Sub(plan, actual) ==
  [l \in SubLabels |-> CASE SubRowLabels[l] = "plan" -> plan
                         [] SubRowLabels[l] = "actual" -> actual
                         [] OTHER -> l]
SomeNameMaps ==
  { [ignored |-> {"sew"}, sub |-> Sub("ignore", "actual_date")],
    [ignored |-> {}, sub |-> Sub("planned_date", "quantity")] }
=============================================================================
