---------------------------- MODULE PlanInvariants ----------------------------
(***************************************************************************)
(* The tier-1 checks of a sheet plan, validation/plan_invariants.py: one   *)
(* operator per check, true when the check has no finding.  A plan is a    *)
(* record of its rows, header rows and blocks, its mode, and whether it    *)
(* has header labels and key/value anchors of its own.                     *)
(*                                                                         *)
(* sub_row_consistency is left out: no code sets the sub_row_role of a     *)
(* row, so that no group mixes rows with and without one.                  *)
(***************************************************************************)
EXTENDS Integers

CONSTANT None

PliModes == {"ROW_PER_PLI", "SHEET_IS_PLI", "SECTION_PER_PLI"}

\* ERROR: an ANCHOR row points at nothing, a CHILD row at an ANCHOR row.
AnchorIdxs(rs) == {rs[i].idx : i \in {i \in DOMAIN rs : rs[i].role = "anchor"}}
ReferenceIntegrity(rs) ==
  \A i \in DOMAIN rs :
    /\ rs[i].role = "anchor" => rs[i].anchor = None
    /\ rs[i].role = "child" => rs[i].anchor \in AnchorIdxs(rs)

\* ERROR: no row index twice.
RowUniqueness(rs) == \A i, j \in DOMAIN rs : rs[i].idx = rs[j].idx => i = j

\* WARN: the header rows form a contiguous range, and no data row is above the
\* last of them.
HeadersContiguous(headers) == \A h, k \in headers : h .. k \subseteq headers
NoDataAbove(headers, rs) ==
  \A i \in DOMAIN rs, h \in headers :
    rs[i].role \in {"anchor", "child"} => ~(rs[i].idx < h)

\* ERROR: sorted by their first rows, each block ends above the next.  Blocks
\* that start in the same row keep their order.
SortedBefore(bs, i, j) ==
  bs[i].first < bs[j].first \/ (bs[i].first = bs[j].first /\ i < j)
Adjacent(bs, i, j) ==
  /\ SortedBefore(bs, i, j)
  /\ ~\E k \in DOMAIN bs : SortedBefore(bs, i, k) /\ SortedBefore(bs, k, j)
BlocksApart(bs) ==
  \A i, j \in DOMAIN bs : Adjacent(bs, i, j) => bs[i].last < bs[j].first

\* ERROR: a plan is read through one channel, the one its mode stands for.
Channels(p) ==
  {m \in PliModes : \/ m = "ROW_PER_PLI" /\ p.labels
                    \/ m = "SHEET_IS_PLI" /\ p.kvs
                    \/ m = "SECTION_PER_PLI" /\ DOMAIN p.blocks # {}}
OneIdentityChannel(p) == \A m, n \in Channels(p) : m = n
ModeHasChannel(p) == Channels(p) # {} => p.mode \in Channels(p)

\* validate_invariants finds no ERROR, so that the plan is not planned again.
IsSound(p) ==
  /\ ReferenceIntegrity(p.rows)
  /\ RowUniqueness(p.rows)
  /\ BlocksApart(p.blocks)
  /\ OneIdentityChannel(p)
  /\ ModeHasChannel(p)
=============================================================================
