-------------------------- MODULE ExtractionProofs ---------------------------
(***************************************************************************)
(* Proofs about extract(): for any workbook, any plans and whatever the    *)
(* agents answer, every extraction is counted once, a result covers the    *)
(* relevant sheets in order, a dead language model leaves the planner's    *)
(* own extraction, and what hints do not repair is told the caller.        *)
(***************************************************************************)
EXTENDS Extraction, TLAPS, FiniteSetTheorems

InSheet == {"plan", "hint", "review", "name", "apply"}
Planned == {"hint", "review", "name", "apply"}

\* Where the loop over the sheets is, and what it has done so far.
LoopInv ==
  /\ pc \in {"new", "classify"} =>
       /\ relevant = <<>> /\ at = 0 /\ plis = <<>> /\ applied = <<>> /\ calls = <<>>
       /\ warns = {} /\ warnings = {} /\ drafts = <<>> /\ hinted = {}
  /\ pc \in InSheet => at \in 1 .. Len(relevant) /\ Len(applied) = at - 1 /\ calls # <<>>
  /\ pc \in Planned => plan \in Plan
  /\ pc = "hint" => "error" \in findings
  /\ pc = "check" => relevant # <<>> /\ Len(applied) = Len(relevant)
  /\ Returned => (relevant = <<>> /\ plis = <<>>) \/ Len(applied) = Len(relevant)

\* The PLIs are those of the sheets applied, in order; the format is the first's.
ResultInv ==
  /\ \A k \in DOMAIN plis : plis[k] <= Len(applied)
  /\ \A j, k \in DOMAIN plis : j < k => plis[j] <= plis[k]
  /\ \A k \in DOMAIN applied : applied[k].mode = "sheet_is_pli" => \E j \in DOMAIN plis : plis[j] = k
  /\ applied = <<>> => format = None
  /\ applied # <<>> => format = applied[1].mode

CountInv ==
  /\ ~Ended => \A s \in Statuses \cup {"plis"} : counts[s] = 0
  /\ Returned =>
       /\ \A s \in Statuses : counts[s] = IF s = (IF plis = <<>> THEN "empty" ELSE "success") THEN 1 ELSE 0
       /\ counts["plis"] = Len(plis)
  /\ pc = "raised" =>
       /\ \A s \in Statuses : counts[s] = IF s = "failure" /\ relevant # <<>> THEN 1 ELSE 0
       /\ counts["plis"] = 0

\* Without the model the sheets and the plans are the deterministic ones.
DownInv ==
  ModelDown /\ calls # <<>> =>
    /\ relevant = SheetNames
    /\ pc \in Planned => plan.maker = "planner"
    /\ \A k \in DOMAIN applied : applied[k].maker = "planner"

\* The warnings about plans, in both lists together, are those of the plans hinted
\* so far; outside _plan_for_sheet the sheet's list has joined the other.
AboutPlans(ws) == {w \in ws : w.maker \in Makers}
ToldOf(hs) == UNION {FindingsAbout(h) : h \in hs}
WarnInv ==
  pc # "raised" =>
    /\ AboutPlans(warnings \cup warns) = ToldOf(hinted)
    /\ pc \notin {"hint", "review", "name"} => warns \subseteq warnings

ExtractionInv ==
  /\ TypeOK
  /\ LoopInv
  /\ ResultInv
  /\ CountInv
  /\ DownInv
  /\ WarnInv

-----------------------------------------------------------------------------
\* The last call tells whether the model is still down.
LEMMA AskedDown ==
  ASSUME TypeOK, NEW agent, NEW ending, Asked(agent, ending)
  PROVE  /\ calls' # <<>>
         /\ ModelDown' => ModelDown /\ ending = "failure"
<1> DEFINE call == [agent |-> agent, at |-> at, ending |-> ending]
           n == Len(calls) + 1
<1>1. calls' = Append(calls, call) /\ Len(calls) \in Nat /\ DOMAIN calls = 1 .. Len(calls)
  BY DEF Asked, TypeOK
<1>2. /\ DOMAIN calls' = 1 .. n /\ calls'[n].ending = ending
      /\ \A k \in DOMAIN calls : k \in DOMAIN calls' /\ calls'[k] = calls[k]
  BY <1>1 DEF TypeOK
<1>3. n \in DOMAIN calls'
  BY <1>1, <1>2
<1>4. calls' # <<>>
  BY <1>1, <1>2, <1>3
<1>5. ModelDown' => ModelDown /\ ending = "failure"
  BY <1>2, <1>3 DEF ModelDown
<1>6. QED
  BY <1>4, <1>5

LEMMA AskedTyped ==
  ASSUME TypeOK,
         NEW agent \in {"sheet_classifier", "layout_hinter", "plan_reviewer", "field_namer"},
         NEW ending \in {"result", "failure", "raised"}, Asked(agent, ending)
  PROVE  calls' \in Seq([agent: {"sheet_classifier", "layout_hinter", "plan_reviewer", "field_namer"},
                         at: Nat, ending: {"result", "failure", "raised"}])
<1>1. at \in Nat
  BY DEF TypeOK
<1>2. QED
  BY <1>1 DEF TypeOK, Asked

LEMMA CountTyped ==
  ASSUME TypeOK, NEW status \in Statuses, Count(status)
  PROVE  /\ counts' \in [Statuses \cup {"plis"} -> Nat]
         /\ counts'[status] = counts[status] + 1
         /\ \A s \in Statuses \ {status} : counts'[s] = counts[s]
         /\ counts'["plis"] = IF pc = "check" THEN counts["plis"] + Len(plis) ELSE counts["plis"]
<1> DEFINE n == IF pc = "check" THEN counts["plis"] + Len(plis) ELSE counts["plis"]
<1>1. Len(plis) \in Nat /\ counts \in [Statuses \cup {"plis"} -> Nat] /\ "plis" \notin Statuses
  BY DEF TypeOK, Statuses
<1>2. n \in Nat
  BY <1>1
<1>3. counts' = [counts EXCEPT ![status] = @ + 1, !["plis"] = n]
  BY <1>1 DEF Count
<1> HIDE DEF n
<1>4. /\ counts' \in [Statuses \cup {"plis"} -> Nat]
      /\ counts'["plis"] = n
  BY <1>1, <1>2, <1>3
<1>5. /\ counts'[status] = counts[status] + 1
      /\ \A s \in Statuses \ {status} : counts'[s] = counts[s]
  BY <1>1, <1>3
<1>6. QED
  BY <1>4, <1>5 DEF n

\* A step that touches no warning, and does not leave _plan_for_sheet.
LEMMA WarningsStay ==
  ASSUME WarnInv, UNCHANGED <<warns, warnings, hinted>>, pc' # "raised" => pc # "raised",
         pc' \notin {"hint", "review", "name", "raised"} => pc \notin {"hint", "review", "name"}
  PROVE  WarnInv'
BY DEF WarnInv, AboutPlans, ToldOf, FindingsAbout

\* An exception in the try ends the extraction as a counted failure.
LEMMA FailsKeepsInv ==
  ASSUME ExtractionInv, Fails, pc \in InSheet,
         UNCHANGED calls \/ \E agent \in {"layout_hinter", "field_namer"},
                               ending \in {"result", "raised"} : Asked(agent, ending)
  PROVE  ExtractionInv'
<1>1. /\ pc' = "raised" /\ Count("failure")
      /\ UNCHANGED <<worksheets, relevant, at, plan, findings, warns, warnings, plis, format,
                     drafts, hinted, validated, applied>>
  BY DEF Fails
<1>2. /\ counts' \in [Statuses \cup {"plis"} -> Nat]
      /\ counts'["failure"] = counts["failure"] + 1
      /\ \A s \in Statuses \ {"failure"} : counts'[s] = counts[s]
      /\ counts'["plis"] = counts["plis"]
  BY <1>1, CountTyped DEF ExtractionInv, Statuses, InSheet
<1>3. \A s \in Statuses \cup {"plis"} : counts[s] = 0
  BY DEF ExtractionInv, CountInv, Ended, InSheet
<1>4. relevant # <<>>
  BY DEF ExtractionInv, LoopInv
<1>5. TypeOK'
  BY <1>1, <1>2, AskedTyped DEF ExtractionInv, TypeOK
<1>6. CountInv'
  BY <1>1, <1>2, <1>3, <1>4 DEF CountInv, Ended, Returned, Statuses
<1>7. DownInv'
  <2>1. CASE UNCHANGED calls
    BY <1>1, <2>1 DEF ExtractionInv, DownInv, ModelDown, Planned
  <2>2. CASE \E agent \in {"layout_hinter", "field_namer"},
                ending \in {"result", "raised"} : Asked(agent, ending)
    BY <2>2, AskedDown DEF ExtractionInv, DownInv
  <2>3. QED
    BY <2>1, <2>2
<1>8. LoopInv' /\ ResultInv' /\ WarnInv'
  BY <1>1 DEF ExtractionInv, LoopInv, ResultInv, WarnInv, InSheet, Planned, Returned
<1>9. QED
  BY <1>5, <1>6, <1>7, <1>8 DEF ExtractionInv

LEMMA ClassifyKeepsInv ==
  ASSUME ExtractionInv, ClassifySheets
  PROVE  ExtractionInv'
<1>1. PICK ending \in {"result", "failure"} :
        Asked("sheet_classifier", ending) /\ relevant' \in RelevantSheets(ending)
  BY DEF ClassifySheets
<1>2. /\ pc = "classify" /\ relevant = <<>> /\ at = 0 /\ plis = <<>> /\ applied = <<>>
      /\ format = None
      /\ hinted = {} /\ warnings = {} /\ warns = {} /\ drafts = <<>>
      /\ UNCHANGED <<worksheets, plan, findings, warns, plis, format,
                     drafts, hinted, validated, applied>>
  BY DEF ClassifySheets, ExtractionInv, LoopInv, ResultInv
<1>3. \A s \in Statuses \cup {"plis"} : counts[s] = 0
  BY <1>2 DEF ExtractionInv, CountInv, Ended
<1>4. relevant' \in Seq(SheetSet \cup {StrayName})
  BY <1>1, NamesAssumption, BoundsAssumption DEF RelevantSheets, SheetSet
<1>5. calls' \in Seq([agent: {"sheet_classifier", "layout_hinter", "plan_reviewer", "field_namer"},
                      at: Nat, ending: {"result", "failure", "raised"}])
  BY <1>1, AskedTyped DEF ExtractionInv
<1>6. DownInv'
  <2>1. ModelDown' => ending = "failure"
    BY <1>1, AskedDown DEF ExtractionInv
  <2>2. ending = "failure" => relevant' = SheetNames
    BY <1>1 DEF RelevantSheets
  <2>3. pc' \notin Planned /\ DOMAIN applied' = {}
    BY <1>2 DEF ClassifySheets, Planned
  <2>4. QED
    BY <2>1, <2>2, <2>3 DEF DownInv
<1>7. CASE relevant' = <<>>
  <2>1. pc' = "returned" /\ Count("empty") /\ at' = 0 /\ warnings' = {NoSheets}
    BY <1>2, <1>7 DEF ClassifySheets
  <2>2. /\ counts' \in [Statuses \cup {"plis"} -> Nat]
        /\ counts'["empty"] = counts["empty"] + 1
        /\ \A s \in Statuses \ {"empty"} : counts'[s] = counts[s]
        /\ counts'["plis"] = counts["plis"]
    BY <1>2, <2>1, CountTyped DEF ExtractionInv, Statuses
  <2>3. TypeOK'
    BY <1>2, <1>4, <1>5, <1>7, <2>1, <2>2 DEF ExtractionInv, TypeOK, NoSheets, Severities
  <2>4. CountInv'
    BY <1>2, <1>3, <2>1, <2>2 DEF CountInv, Ended, Returned, Statuses
  <2>5. LoopInv' /\ ResultInv'
    BY <1>2, <1>7, <2>1 DEF ExtractionInv, LoopInv, ResultInv, InSheet, Planned, Returned
  <2>6. WarnInv'
    BY <1>2, <2>1 DEF WarnInv, AboutPlans, ToldOf, NoSheets, Makers
  <2>7. QED
    BY <1>6, <2>3, <2>4, <2>5, <2>6 DEF ExtractionInv
<1>8. CASE relevant' # <<>>
  <2>1. pc' = "plan" /\ at' = 1 /\ counts' = counts /\ warnings' = warnings
    BY <1>8 DEF ClassifySheets
  <2>2. Len(relevant') \in Nat /\ Len(relevant') >= 1
    BY <1>4, <1>8
  <2>3. TypeOK' /\ calls' # <<>>
    BY <1>1, <1>2, <1>4, <1>5, <2>1, <2>2, AskedDown DEF ExtractionInv, TypeOK
  <2>4. CountInv'
    BY <1>3, <2>1 DEF CountInv, Ended, Returned
  <2>5. LoopInv' /\ ResultInv' /\ WarnInv'
    BY <1>2, <2>1, <2>2, <2>3, WarningsStay DEF ExtractionInv, LoopInv, ResultInv, InSheet,
                                                Planned, Returned
  <2>6. QED
    BY <1>6, <2>3, <2>4, <2>5 DEF ExtractionInv
<1>9. QED
  BY <1>7, <1>8

LEMMA RegisterKeepsInv ==
  ASSUME ExtractionInv, Register
  PROVE  ExtractionInv'
<1>1. /\ pc = "new" /\ pc' \in {"classify", "raised"}
      /\ UNCHANGED <<worksheets, relevant, at, plan, findings, warns, warnings, plis, format, counts,
                     calls, drafts, hinted, validated, applied>>
  BY DEF Register
<1>2. relevant = <<>> /\ \A s \in Statuses \cup {"plis"} : counts[s] = 0
  BY <1>1 DEF ExtractionInv, LoopInv, CountInv, Ended
<1>3. TypeOK'
  BY <1>1 DEF ExtractionInv, TypeOK
<1>4. CountInv'
  BY <1>1, <1>2 DEF CountInv, Ended, Returned, Statuses
<1>5. DownInv'
  BY <1>1 DEF ExtractionInv, DownInv, ModelDown, Planned
<1>6. LoopInv' /\ ResultInv' /\ WarnInv'
  BY <1>1, WarningsStay DEF ExtractionInv, LoopInv, ResultInv, InSheet, Planned, Returned
<1>7. QED
  BY <1>3, <1>4, <1>5, <1>6 DEF ExtractionInv

LEMMA PlanSheetKeepsInv ==
  ASSUME ExtractionInv, PlanSheet
  PROVE  ExtractionInv'
<1>1. PICK p \in Plans : /\ plan' = p /\ validated' = p /\ findings' = p.findings
                         /\ pc' = IF "error" \in p.findings THEN "hint" ELSE "review"
  BY DEF PlanSheet
<1>2. /\ pc = "plan"
      /\ warns' = {} /\ drafts' = Append(drafts, plan')
      /\ UNCHANGED <<worksheets, relevant, at, warnings, plis, format, counts, calls, hinted, applied>>
  BY DEF PlanSheet
<1>3. p \in Plan /\ p.maker = "planner" /\ p.findings \in SUBSET Severities
  BY PlansAssumption DEF Plan
<1>4. TypeOK'
  <2>1. drafts' \in Seq(Plan) /\ warns' \subseteq PlanWarning
    BY <1>1, <1>2, <1>3 DEF ExtractionInv, TypeOK
  <2>2. QED
    BY <1>1, <1>2, <1>3, <2>1 DEF ExtractionInv, TypeOK
<1>5. LoopInv'
  BY <1>1, <1>2, <1>3 DEF ExtractionInv, LoopInv, InSheet, Planned, Returned
<1>6. WarnInv'
  <2>1. /\ AboutPlans(warnings \cup warns) = ToldOf(hinted) /\ warns \subseteq warnings
        /\ pc' \in {"hint", "review"}
    BY <1>1, <1>2 DEF ExtractionInv, WarnInv
  <2>2. warnings' \cup warns' = warnings \cup warns
    BY <1>2, <2>1
  <2>3. QED
    BY <1>2, <2>1, <2>2 DEF WarnInv, AboutPlans, ToldOf, FindingsAbout
<1>7. CountInv' /\ ResultInv'
  BY <1>1, <1>2 DEF ExtractionInv, CountInv, ResultInv, Ended, Returned
<1>8. DownInv'
  BY <1>1, <1>2, <1>3 DEF ExtractionInv, DownInv, ModelDown
<1>9. QED
  BY <1>4, <1>5, <1>6, <1>7, <1>8 DEF ExtractionInv

LEMMA HintLayoutKeepsInv ==
  ASSUME ExtractionInv, HintLayout
  PROVE  ExtractionInv'
<1>1. PICK ending \in {"result", "failure"} :
        /\ Asked("layout_hinter", ending)
        /\ plan' \in IF ending = "failure" THEN {plan} ELSE Hinted(plan)
  BY DEF HintLayout
<1>2. /\ pc = "hint" /\ pc' = "review" /\ validated' = plan'
      /\ warns' = warns \cup WarningsOf(plan')
      /\ hinted' = hinted \cup {[at |-> at, plan |-> plan']}
      /\ UNCHANGED <<worksheets, relevant, at, findings, warnings, plis, format, counts, drafts, applied>>
  BY DEF HintLayout
<1>3. plan \in Plan /\ at \in Nat
  BY <1>2 DEF ExtractionInv, LoopInv, Planned, TypeOK
<1>4. plan' \in Plan
  BY <1>1, <1>3 DEF Hinted, Plan, Makers
<1>5. calls' \in Seq([agent: {"sheet_classifier", "layout_hinter", "plan_reviewer", "field_namer"},
                      at: Nat, ending: {"result", "failure", "raised"}])
  BY <1>1, AskedTyped DEF ExtractionInv
<1>6. WarningsOf(plan') \subseteq PlanWarning
  BY <1>2, <1>3, <1>4 DEF WarningsOf, Plan, PlanWarning
<1>7. TypeOK'
  BY <1>2, <1>4, <1>5, <1>6 DEF ExtractionInv, TypeOK
<1>8. LoopInv'
  BY <1>1, <1>2, <1>4, AskedDown DEF ExtractionInv, LoopInv, InSheet, Planned, Returned
<1>9. WarnInv'
  <2>1. AboutPlans(warnings \cup warns) = ToldOf(hinted)
    BY <1>2 DEF ExtractionInv, WarnInv
  <2>2. \A w \in WarningsOf(plan') : w.maker \in Makers
    BY <1>6 DEF PlanWarning
  <2>3. AboutPlans(warnings' \cup warns') = AboutPlans(warnings \cup warns) \cup WarningsOf(plan')
    BY <1>2, <2>2 DEF AboutPlans
  <2>4. FindingsAbout([at |-> at, plan |-> plan']) = WarningsOf(plan')
    BY DEF FindingsAbout, WarningsOf
  <2> DEFINE h == [at |-> at, plan |-> plan']
  <2> HIDE DEF h
  <2>5. ToldOf(hinted \cup {h}) = ToldOf(hinted) \cup FindingsAbout(h)
    BY DEF ToldOf
  <2>6. AboutPlans(warnings' \cup warns') = ToldOf(hinted')
    BY <1>2, <2>1, <2>3, <2>4, <2>5 DEF h
  <2>7. QED
    BY <1>2, <2>6 DEF WarnInv, AboutPlans, ToldOf, FindingsAbout
<1>10. CountInv' /\ ResultInv'
  BY <1>2 DEF ExtractionInv, CountInv, ResultInv, Ended, Returned
<1>11. DownInv'
  <2>1. ModelDown' => ModelDown /\ ending = "failure" /\ calls' # <<>>
    BY <1>1, AskedDown DEF ExtractionInv
  <2>2. ending = "failure" => plan' = plan
    BY <1>1
  <2>3. calls # <<>>
    BY <1>2 DEF ExtractionInv, LoopInv, InSheet
  <2>4. QED
    BY <1>2, <2>1, <2>2, <2>3 DEF ExtractionInv, DownInv, Planned
<1>12. QED
  BY <1>7, <1>8, <1>9, <1>10, <1>11 DEF ExtractionInv

LEMMA ReviewPlanKeepsInv ==
  ASSUME ExtractionInv, ReviewPlan
  PROVE  ExtractionInv'
<1>1. PICK ending \in {"result", "failure"} :
        Asked("plan_reviewer", ending) /\ plan' \in Reviewed(ending)
  BY DEF ReviewPlan
<1>2. /\ pc = "review" /\ pc' = "name"
      /\ UNCHANGED <<worksheets, relevant, at, findings, warns, warnings, plis, format, counts,
                     drafts, hinted, validated, applied>>
  BY DEF ReviewPlan
<1>3. plan \in Plan /\ calls # <<>>
  BY <1>2 DEF ExtractionInv, LoopInv, InSheet, Planned
<1>4. plan' \in Plan
  BY <1>1, <1>3 DEF Reviewed, Corrected, Plan, Makers
<1>5. calls' \in Seq([agent: {"sheet_classifier", "layout_hinter", "plan_reviewer", "field_namer"},
                      at: Nat, ending: {"result", "failure", "raised"}])
  BY <1>1, AskedTyped DEF ExtractionInv
<1>6. calls' # <<>> /\ (ModelDown' => ModelDown /\ ending = "failure")
  BY <1>1, AskedDown DEF ExtractionInv
<1>7. TypeOK'
  BY <1>2, <1>4, <1>5 DEF ExtractionInv, TypeOK
<1>8. LoopInv' /\ WarnInv'
  BY <1>2, <1>4, <1>6, WarningsStay DEF ExtractionInv, LoopInv, InSheet, Planned, Returned
<1>9. CountInv' /\ ResultInv'
  BY <1>2 DEF ExtractionInv, CountInv, ResultInv, Ended, Returned
<1>10. DownInv'
  <2>1. ending = "failure" => plan' = plan
    BY <1>1 DEF Reviewed
  <2>2. QED
    BY <1>2, <1>3, <1>6, <2>1 DEF ExtractionInv, DownInv, Planned
<1>11. QED
  BY <1>7, <1>8, <1>9, <1>10 DEF ExtractionInv

LEMMA SkipReviewKeepsInv ==
  ASSUME ExtractionInv, SkipReview
  PROVE  ExtractionInv'
<1>1. /\ pc = "review" /\ pc' = "name"
      /\ UNCHANGED <<worksheets, relevant, at, plan, findings, warns, warnings, plis, format, counts,
                     calls, drafts, hinted, validated, applied>>
  BY DEF SkipReview
<1>2. TypeOK'
  BY <1>1 DEF ExtractionInv, TypeOK
<1>3. LoopInv' /\ WarnInv'
  BY <1>1, WarningsStay DEF ExtractionInv, LoopInv, InSheet, Planned, Returned
<1>4. CountInv' /\ ResultInv' /\ DownInv'
  BY <1>1 DEF ExtractionInv, CountInv, ResultInv, DownInv, ModelDown, Ended, Returned, Planned
<1>5. QED
  BY <1>2, <1>3, <1>4 DEF ExtractionInv

LEMMA NameFieldsKeepsInv ==
  ASSUME ExtractionInv, NameFields
  PROVE  ExtractionInv'
<1>1. PICK ending \in {"result", "failure"} : Asked("field_namer", ending)
  BY DEF NameFields
<1>2. /\ pc = "name" /\ pc' = "apply" /\ warnings' = warnings \cup warns
      /\ UNCHANGED <<worksheets, relevant, at, plan, findings, warns, plis, format, counts,
                     drafts, hinted, validated, applied>>
  BY DEF NameFields, AllWarnings
<1>3. calls' \in Seq([agent: {"sheet_classifier", "layout_hinter", "plan_reviewer", "field_namer"},
                      at: Nat, ending: {"result", "failure", "raised"}])
  BY <1>1, AskedTyped DEF ExtractionInv
<1>4. calls # <<>> /\ calls' # <<>> /\ (ModelDown' => ModelDown)
  BY <1>1, <1>2, AskedDown DEF ExtractionInv, LoopInv, InSheet
<1>5. TypeOK'
  BY <1>2, <1>3 DEF ExtractionInv, TypeOK, PlanWarning
<1>6. LoopInv'
  BY <1>2, <1>4 DEF ExtractionInv, LoopInv, InSheet, Planned, Returned
<1>7. WarnInv'
  <2>1. AboutPlans(warnings \cup warns) = ToldOf(hinted)
    BY <1>2 DEF ExtractionInv, WarnInv
  <2>2. warnings' \cup warns' = warnings \cup warns /\ warns' \subseteq warnings'
    BY <1>2
  <2>3. QED
    BY <1>2, <2>1, <2>2 DEF WarnInv, AboutPlans, ToldOf, FindingsAbout
<1>8. CountInv' /\ ResultInv'
  BY <1>2 DEF ExtractionInv, CountInv, ResultInv, Ended, Returned
<1>9. DownInv'
  BY <1>2, <1>4 DEF ExtractionInv, DownInv, Planned
<1>10. QED
  BY <1>5, <1>6, <1>7, <1>8, <1>9 DEF ExtractionInv

\* The sheet's PLIs come after those of the sheets before it.
LEMMA AppliedResult ==
  ASSUME ExtractionInv, ApplyPlan
  PROVE  /\ plis' \in Seq(1 .. Len(relevant))
         /\ Len(applied') = at /\ applied' \in Seq(Plan)
         /\ ResultInv'
<1>1. PICK n \in IF plan.mode = "sheet_is_pli" THEN {1} ELSE 0 .. MaxPlis :
        plis' = plis \o [k \in 1 .. n |-> at]
  BY DEF ApplyPlan, Collected
<1>2. /\ pc = "apply" /\ applied' = Append(applied, plan)
      /\ format' = IF format = None THEN plan.mode ELSE format
  BY DEF ApplyPlan, DetectedFormat
<1>3. /\ plan \in Plan /\ at \in 1 .. Len(relevant) /\ Len(applied) = at - 1
      /\ applied \in Seq(Plan) /\ plis \in Seq(1 .. Len(relevant))
      /\ Len(relevant) \in Nat
  BY <1>2 DEF ExtractionInv, LoopInv, TypeOK, InSheet, Planned
<1>4. n \in Nat /\ (plan.mode = "sheet_is_pli" => n = 1)
  BY <1>1, BoundsAssumption
<1>5. DEFINE batch == [k \in 1 .. n |-> at]
<1>6. batch \in Seq(1 .. Len(relevant)) /\ Len(batch) = n
  BY <1>3, <1>4
<1>7. /\ plis' \in Seq(1 .. Len(relevant)) /\ Len(plis') = Len(plis) + n
      /\ \A k \in 1 .. Len(plis) : plis'[k] = plis[k]
      /\ \A k \in Len(plis) + 1 .. Len(plis) + n : plis'[k] = at
      /\ DOMAIN plis = 1 .. Len(plis) /\ DOMAIN plis' = 1 .. Len(plis) + n
      /\ Len(plis) \in Nat
  BY <1>1, <1>3, <1>4, <1>6
<1>8. /\ applied' \in Seq(Plan) /\ Len(applied') = at
      /\ \A k \in 1 .. at - 1 : applied'[k] = applied[k]
      /\ applied'[at] = plan
      /\ DOMAIN applied = 1 .. at - 1 /\ DOMAIN applied' = 1 .. at
  BY <1>2, <1>3
<1>9. /\ \A k \in 1 .. Len(plis) : plis[k] \in Nat /\ plis[k] <= at - 1
      /\ \A j, k \in 1 .. Len(plis) : j < k => plis[j] <= plis[k]
      /\ \A k \in 1 .. at - 1 : applied[k].mode = "sheet_is_pli" => \E j \in 1 .. Len(plis) : plis[j] = k
      /\ applied = <<>> => format = None
      /\ applied # <<>> => format = applied[1].mode
  <2>1. ResultInv
    BY DEF ExtractionInv
  <2>2. \A k \in 1 .. Len(plis) : plis[k] \in Nat
    BY <1>3
  <2>3. Len(applied) = at - 1 /\ DOMAIN applied = 1 .. at - 1
    BY <1>3, <1>8
  <2>4. \A k \in 1 .. Len(plis) : plis[k] <= at - 1
    BY <1>7, <2>1, <2>3 DEF ResultInv
  <2>5. \A j, k \in 1 .. Len(plis) : j < k => plis[j] <= plis[k]
    BY <1>7, <2>1 DEF ResultInv
  <2>6. \A k \in 1 .. at - 1 : applied[k].mode = "sheet_is_pli" => \E j \in 1 .. Len(plis) : plis[j] = k
    BY <1>7, <2>1, <2>3 DEF ResultInv
  <2>7. QED
    BY <2>1, <2>2, <2>4, <2>5, <2>6 DEF ResultInv
<1> HIDE DEF batch
<1>10. \A k \in DOMAIN plis' : plis'[k] <= Len(applied')
  <2> SUFFICES ASSUME NEW k \in DOMAIN plis'  PROVE plis'[k] <= at
    BY <1>8
  <2>1. at \in Nat
    BY <1>3
  <2>2. CASE k \in 1 .. Len(plis)
    BY <1>7, <1>9, <2>1, <2>2
  <2>3. CASE k \in Len(plis) + 1 .. Len(plis) + n
    BY <1>7, <2>1, <2>3
  <2>4. QED
    BY <1>4, <1>7, <2>2, <2>3
<1>11. \A j, k \in DOMAIN plis' : j < k => plis'[j] <= plis'[k]
  <2> SUFFICES ASSUME NEW j \in DOMAIN plis', NEW k \in DOMAIN plis', j < k
               PROVE  plis'[j] <= plis'[k]
    OBVIOUS
  <2>1. at \in Nat /\ j \in 1 .. Len(plis) + n /\ k \in 1 .. Len(plis) + n
    BY <1>3, <1>7
  <2>2. CASE k \in 1 .. Len(plis)
    <3>1. j \in 1 .. Len(plis)
      BY <1>4, <1>7, <2>1, <2>2
    <3>2. QED
      BY <1>7, <1>9, <2>2, <3>1
  <2>3. CASE k \notin 1 .. Len(plis)
    <3>1. plis'[k] = at
      BY <1>4, <1>7, <2>1, <2>3
    <3>2. plis'[j] <= at
      BY <1>8, <1>10
    <3>3. QED
      BY <3>1, <3>2
  <2>4. QED
    BY <2>2, <2>3
<1>12. ASSUME NEW k \in DOMAIN applied', applied'[k].mode = "sheet_is_pli"
       PROVE  \E j \in DOMAIN plis' : plis'[j] = k
  <2>1. CASE k = at
    <3>1. n = 1
      BY <1>4, <1>8, <1>12, <2>1
    <3>2. Len(plis) + 1 \in DOMAIN plis' /\ plis'[Len(plis) + 1] = at
      BY <1>7, <3>1
    <3>3. QED
      BY <2>1, <3>2
  <2>2. CASE k # at
    <3>1. k \in 1 .. at - 1 /\ applied[k].mode = "sheet_is_pli"
      BY <1>3, <1>8, <1>12, <2>2
    <3>2. PICK j \in 1 .. Len(plis) : plis[j] = k
      BY <1>9, <3>1
    <3>3. j \in DOMAIN plis' /\ plis'[j] = k
      BY <1>4, <1>7, <3>2
    <3>4. QED
      BY <3>3
  <2>3. QED
    BY <2>1, <2>2
<1>13. applied' # <<>> /\ format' = applied'[1].mode
  <2>1. applied' # <<>>
    BY <1>3, <1>8
  <2>2. CASE at = 1
    <3>1. applied = <<>>
      BY <1>3, <2>2
    <3>2. QED
      BY <1>2, <1>8, <1>9, <2>1, <2>2, <3>1
  <2>3. CASE at # 1
    <3>1. 1 \in 1 .. at - 1 /\ applied # <<>>
      BY <1>3, <1>8, <2>3
    <3>2. format = applied[1].mode /\ applied[1] \in Plan
      BY <1>3, <1>8, <1>9, <3>1
    <3>3. format # None
      BY <3>2, NoneAssumption DEF Plan
    <3>4. QED
      BY <1>2, <1>8, <2>1, <3>1, <3>2, <3>3
  <2>4. QED
    BY <2>2, <2>3
<1>14. QED
  BY <1>7, <1>8, <1>10, <1>11, <1>12, <1>13 DEF ResultInv

LEMMA ApplyPlanKeepsInv ==
  ASSUME ExtractionInv, ApplyPlan
  PROVE  ExtractionInv'
<1>1. /\ pc = "apply" /\ applied' = Append(applied, plan)
      /\ format' = IF format = None THEN plan.mode ELSE format
      /\ UNCHANGED <<worksheets, relevant, plan, findings, warns, warnings, counts, calls,
                     drafts, hinted, validated>>
      /\ \/ at < Len(relevant) /\ pc' = "plan" /\ at' = at + 1
         \/ ~(at < Len(relevant)) /\ pc' = "check" /\ at' = at
  BY DEF ApplyPlan, DetectedFormat, MoreSheets
<1>2. /\ plis' \in Seq(1 .. Len(relevant))
      /\ Len(applied') = at /\ applied' \in Seq(Plan) /\ ResultInv'
  BY AppliedResult
<1>3. /\ plan \in Plan /\ at \in 1 .. Len(relevant) /\ Len(relevant) \in Nat
      /\ calls # <<>> /\ applied \in Seq(Plan) /\ relevant \in Seq(SheetSet \cup {StrayName})
  BY <1>1 DEF ExtractionInv, LoopInv, TypeOK, InSheet, Planned
<1>4. format' \in Modes \cup {None}
  BY <1>1, <1>3 DEF ExtractionInv, TypeOK, Plan
<1>5. TypeOK'
  BY <1>1, <1>2, <1>3, <1>4 DEF ExtractionInv, TypeOK
<1>6. LoopInv'
  <2>1. relevant # <<>>
    BY <1>3
  <2>2. CASE at < Len(relevant)
    <3>1. pc' = "plan" /\ at' = at + 1 /\ relevant' = relevant /\ calls' = calls
      BY <1>1, <2>2
    <3>2. at' \in 1 .. Len(relevant) /\ Len(applied') = at' - 1
      BY <1>2, <1>3, <2>2, <3>1
    <3>3. QED
      BY <1>3, <3>1, <3>2 DEF LoopInv, InSheet, Planned, Returned
  <2>3. CASE ~(at < Len(relevant))
    <3>1. pc' = "check" /\ relevant' = relevant
      BY <1>1, <2>3
    <3>2. Len(applied') = Len(relevant)
      BY <1>2, <1>3, <2>3
    <3>3. QED
      BY <2>1, <3>1, <3>2 DEF LoopInv, InSheet, Planned, Returned
  <2>4. QED
    BY <2>2, <2>3
<1>7. WarnInv' /\ CountInv'
  BY <1>1, WarningsStay DEF ExtractionInv, CountInv, Ended, Returned
<1>8. DownInv'
  <2> SUFFICES ASSUME ModelDown'
               PROVE  /\ relevant' = SheetNames
                      /\ \A k \in DOMAIN applied' : applied'[k].maker = "planner"
    BY <1>1 DEF DownInv, Planned
  <2>1. ModelDown
    BY <1>1 DEF ModelDown
  <2>2. /\ relevant = SheetNames /\ plan.maker = "planner"
        /\ \A k \in DOMAIN applied : applied[k].maker = "planner"
    BY <1>1, <1>3, <2>1 DEF ExtractionInv, DownInv, Planned
  <2>3. QED
    BY <1>1, <1>3, <2>2
<1>9. QED
  BY <1>2, <1>5, <1>6, <1>7, <1>8 DEF ExtractionInv

LEMMA CheckKeepsInv ==
  ASSUME ExtractionInv, CheckAndReconcile
  PROVE  ExtractionInv'
<1>1. PICK found \in SUBSET {"warn"} :
        warnings' = warnings \cup {[at |-> 0, maker |-> "validators", severity |-> s] : s \in found}
  BY DEF CheckAndReconcile
<1>2. /\ pc = "check" /\ pc' = "returned"
      /\ Count(IF plis = <<>> THEN "empty" ELSE "success")
      /\ UNCHANGED <<worksheets, relevant, at, plan, findings, warns, plis, format, calls,
                     drafts, hinted, validated, applied>>
  BY DEF CheckAndReconcile
<1>3. PICK status \in Statuses : status = IF plis = <<>> THEN "empty" ELSE "success"
  BY DEF Statuses
<1>4. /\ counts' \in [Statuses \cup {"plis"} -> Nat]
      /\ counts'[status] = counts[status] + 1
      /\ \A s \in Statuses \ {status} : counts'[s] = counts[s]
      /\ counts'["plis"] = counts["plis"] + Len(plis)
  BY <1>2, <1>3, CountTyped DEF ExtractionInv
<1>5. (\A s \in Statuses \cup {"plis"} : counts[s] = 0) /\ Len(plis) \in Nat
  BY <1>2 DEF ExtractionInv, CountInv, Ended, TypeOK
<1>6. TypeOK'
  <2>1. warnings' \subseteq [at: Nat, maker: Makers \cup {"validators", "extract"}, severity: Severities]
    BY <1>1 DEF ExtractionInv, TypeOK, Severities
  <2>2. QED
    BY <1>2, <1>4, <2>1 DEF ExtractionInv, TypeOK
<1>7. CountInv'
  <2>1. pc' = "returned" /\ plis' = plis
    BY <1>2
  <2>2. counts'["plis"] = Len(plis)
    <3>1. counts'["plis"] = counts["plis"] + Len(plis) /\ counts["plis"] = 0
      BY <1>4, <1>5
    <3>2. QED
      BY <1>5, <3>1
  <2>3. \A s \in Statuses : counts'[s] = IF s = status THEN 1 ELSE 0
    BY <1>4, <1>5
  <2>4. QED
    BY <1>3, <2>1, <2>2, <2>3 DEF CountInv, Ended, Returned
<1>8. LoopInv'
  BY <1>2 DEF ExtractionInv, LoopInv, InSheet, Planned, Returned
<1>9. ResultInv' /\ DownInv'
  BY <1>2 DEF ExtractionInv, ResultInv, DownInv, ModelDown, Planned
<1>10. WarnInv'
  <2> DEFINE own == {[at |-> 0, maker |-> "validators", severity |-> s] : s \in found}
  <2>1. AboutPlans(warnings \cup warns) = ToldOf(hinted) /\ warns \subseteq warnings
    BY <1>2 DEF ExtractionInv, WarnInv
  <2>2. \A w \in own : w.maker \notin Makers
    BY DEF Makers
  <2>3. warnings' = warnings \cup own
    BY <1>1
  <2> HIDE DEF own
  <2>4. AboutPlans(warnings' \cup warns') = AboutPlans(warnings \cup warns) /\ warns' \subseteq warnings'
    BY <1>2, <2>1, <2>2, <2>3 DEF AboutPlans
  <2>5. QED
    BY <1>2, <2>1, <2>4 DEF WarnInv, AboutPlans, ToldOf, FindingsAbout
<1>11. QED
  BY <1>6, <1>7, <1>8, <1>9, <1>10 DEF ExtractionInv

LEMMA FailureKeepsInv ==
  ASSUME ExtractionInv, Failure
  PROVE  ExtractionInv'
<1>1. CASE PlannerRaises
  BY <1>1, FailsKeepsInv DEF PlannerRaises, InSheet
<1>2. CASE RevalidationRaises
  BY <1>2, FailsKeepsInv DEF RevalidationRaises, InSheet
<1>3. CASE NamerPromptRaises
  <2>1. Asked("field_namer", "raised")
    BY <1>3 DEF NamerPromptRaises
  <2>2. QED
    BY <1>3, <2>1, FailsKeepsInv DEF NamerPromptRaises, InSheet
<1>4. CASE ApplyRaises
  BY <1>4, FailsKeepsInv DEF ApplyRaises, InSheet
<1>5. QED
  BY <1>1, <1>2, <1>3, <1>4 DEF Failure

LEMMA InitInv == Init => ExtractionInv
<1> SUFFICES ASSUME Init PROVE ExtractionInv
  OBVIOUS
<1>1. counts \in [Statuses \cup {"plis"} -> Nat] /\ \A s \in Statuses \cup {"plis"} : counts[s] = 0
  BY DEF Init
<1>2. TypeOK
  BY <1>1 DEF Init, TypeOK
<1>3. LoopInv /\ ResultInv /\ DownInv /\ WarnInv
  BY DEF Init, LoopInv, ResultInv, DownInv, WarnInv, AboutPlans, ToldOf, InSheet, Planned, Returned
<1>4. CountInv
  BY <1>1 DEF Init, CountInv, Ended, Returned
<1>5. QED
  BY <1>2, <1>3, <1>4 DEF ExtractionInv

LEMMA StepKeepsInv == ExtractionInv /\ [Next]_vars => ExtractionInv'
<1> SUFFICES ASSUME ExtractionInv, [Next]_vars PROVE ExtractionInv'
  OBVIOUS
<1>1. CASE Register
  BY <1>1, RegisterKeepsInv
<1>2. CASE ClassifySheets
  BY <1>2, ClassifyKeepsInv
<1>3. CASE Sheet
  BY <1>3, PlanSheetKeepsInv, HintLayoutKeepsInv, ReviewPlanKeepsInv, SkipReviewKeepsInv,
     NameFieldsKeepsInv, ApplyPlanKeepsInv DEF Sheet
<1>4. CASE Failure
  BY <1>4, FailureKeepsInv
<1>5. CASE CheckAndReconcile
  BY <1>5, CheckKeepsInv
<1>6. CASE UNCHANGED vars
  <2>1. UNCHANGED <<pc, worksheets, relevant, at, plan, findings, warns, warnings, plis, format,
                    counts, calls, drafts, hinted, validated, applied>>
    BY <1>6 DEF vars
  <2>2. WarnInv'
    BY <2>1, WarningsStay DEF ExtractionInv
  <2>3. TypeOK'
    BY <2>1 DEF ExtractionInv, TypeOK
  <2>4. LoopInv' /\ ResultInv'
    BY <2>1 DEF ExtractionInv, LoopInv, ResultInv, Returned
  <2>5. CountInv' /\ DownInv'
    BY <2>1 DEF ExtractionInv, CountInv, DownInv, ModelDown, Ended, Returned
  <2>6. QED
    BY <2>2, <2>3, <2>4, <2>5 DEF ExtractionInv
<1>7. QED
  BY <1>1, <1>2, <1>3, <1>4, <1>5, <1>6 DEF Next

LEMMA ExtractionInvariant == Spec => []ExtractionInv
<1>1. Init => ExtractionInv
  BY InitInv
<1>2. ExtractionInv /\ [Next]_vars => ExtractionInv'
  BY StepKeepsInv
<1>3. QED
  BY <1>1, <1>2, PTL DEF Spec

-----------------------------------------------------------------------------
\* Every state of an extraction is well formed (the locals of extract()).
THEOREM ExtractionTypes == Spec => []TypeOK
<1>1. ExtractionInv => TypeOK
  BY DEF ExtractionInv
<1>2. QED
  BY <1>1, ExtractionInvariant, PTL

\* For any workbook and any answers every extraction is counted exactly once,
\* under the status and with the PLIs its caller gets (217-273).
THEOREM CountsMatchResults == Spec => []OneOutcomeCounted
<1>1. ExtractionInv => OneOutcomeCounted
  <2> SUFFICES ASSUME ExtractionInv PROVE OneOutcomeCounted
    OBVIOUS
  <2>1. Len(plis) \in Nat
    BY DEF ExtractionInv, TypeOK
  <2>2. \A s \in Statuses : counts[s] \in {0, 1}
    BY DEF ExtractionInv, CountInv, Ended, Returned
  <2>3. Returned => {s \in Statuses : counts[s] > 0} = IF plis = <<>> THEN {"empty"} ELSE {"success"}
    BY DEF ExtractionInv, CountInv, Statuses
  <2>4. pc = "raised" => {s \in Statuses : counts[s] > 0} = IF relevant = <<>> THEN {} ELSE {"failure"}
    BY DEF ExtractionInv, CountInv, Statuses
  <2>5. ~Ended => {s \in Statuses : counts[s] > 0} = {}
    BY DEF ExtractionInv, CountInv
  <2>6. counts["plis"] = IF Returned THEN Len(plis) ELSE 0
    BY DEF ExtractionInv, CountInv, Ended, Returned
  <2>7. QED
    BY <2>2, <2>3, <2>4, <2>5, <2>6 DEF OneOutcomeCounted
<1>2. QED
  BY <1>1, ExtractionInvariant, PTL

\* A result covers every relevant sheet, its PLIs in the sheets' order, and
\* names the first sheet's format (223-239).
THEOREM ResultCoversSheets == Spec => []ResultCoversSheetsInOrder
<1>1. ExtractionInv => ResultCoversSheetsInOrder
  <2> SUFFICES ASSUME ExtractionInv, Returned, relevant # <<>> PROVE ResultCoversSheetsInOrder
    BY DEF ResultCoversSheetsInOrder
  <2>1. Len(applied) = Len(relevant)
    BY DEF ExtractionInv, LoopInv
  <2>2. DOMAIN applied = DOMAIN relevant /\ applied # <<>>
    BY <2>1 DEF ExtractionInv, TypeOK
  <2>3. QED
    BY <2>1, <2>2 DEF ExtractionInv, ResultInv, ResultCoversSheetsInOrder
<1>2. QED
  BY <1>1, ExtractionInvariant, PTL

\* While the language model answers nothing, every sheet is extracted as the
\* deterministic planner planned it (agents' run fallbacks).
THEOREM ModelDownMeansPlanner == Spec => []DegradesToPlanner
<1>1. ExtractionInv => DegradesToPlanner
  BY DEF ExtractionInv, DownInv, DegradesToPlanner
<1>2. QED
  BY <1>1, ExtractionInvariant, PTL

\* The warnings a result has about plans are exactly what is still wrong with the
\* plans of its sheets after the hinter, over any number of sheets (134-137, 231).
THEOREM HintedFindingsReachCaller == Spec => []HintedFindingsReported
<1>1. ExtractionInv => HintedFindingsReported
  <2> SUFFICES ASSUME ExtractionInv, Returned PROVE HintedFindingsReported
    BY DEF HintedFindingsReported
  <2>1. AboutPlans(warnings \cup warns) = ToldOf(hinted) /\ warns \subseteq warnings
    BY DEF ExtractionInv, WarnInv, Returned
  <2>2. warnings \cup warns = warnings
    BY <2>1
  <2>3. AboutPlans(warnings) = ToldOf(hinted)
    BY <2>1, <2>2
  <2>4. QED
    BY <2>3 DEF HintedFindingsReported, AboutPlans, ToldOf
<1>2. QED
  BY <1>1, ExtractionInvariant, PTL

-----------------------------------------------------------------------------
SheetAgents == {"layout_hinter", "plan_reviewer", "field_namer"}
Unasked(agent, k) == CallsTo(agent, k) = {}
AskedHere(agent) == \E k \in Nat : k = at /\ ~Unasked(agent, k)
AskedAtMostOnce(agent, k) == \A m, n \in CallsTo(agent, k) : m = n

\* What the draft of a sheet has the orchestrator ask for.
WantsHints(d) == "error" \in d.findings
WantsReview(d) == "warn" \in d.findings \/ d.confidence < 85 \/ d.mode # "row_per_pli"

\* The draft of the sheet at hand is the last one; the review is decided on its
\* findings, and hints leave its mode and confidence.
DraftsInv ==
  /\ Len(drafts) >= Len(applied)
  /\ pc = "plan" => Len(drafts) = at - 1
  /\ pc \in Planned => Len(drafts) = at
  /\ pc = "hint" => WantsHints(drafts[at])
  /\ pc \in {"hint", "review"} => (NeedsReview <=> WantsReview(drafts[at]))

\* A sheet's agents are asked in order, each once: the agents of the steps to
\* come have not been asked about the present sheet, those of later sheets not
\* at all, and those of the steps done if the draft wants them.
AsDrafted(k) ==
  /\ ~Unasked("layout_hinter", k) <=> WantsHints(drafts[k])
  /\ ~Unasked("plan_reviewer", k) <=> WantsReview(drafts[k])
  /\ ~Unasked("field_namer", k)
ClassifierFirst == \A n \in DOMAIN calls : calls[n].agent = "sheet_classifier" <=> n = 1
BudgetInv ==
  /\ \A agent \in SheetAgents, k \in Nat : AskedAtMostOnce(agent, k) /\ (k > at => Unasked(agent, k))
  /\ ClassifierFirst
  /\ pc \in {"new", "classify"} => calls = <<>>
  /\ pc \in {"plan", "hint"} => ~AskedHere("layout_hinter")
  /\ pc \in {"plan", "hint", "review"} => ~AskedHere("plan_reviewer")
  /\ pc \in {"plan", "hint", "review", "name"} => ~AskedHere("field_namer")
  /\ pc \in {"review", "name", "apply"} => (AskedHere("layout_hinter") <=> WantsHints(drafts[at]))
  /\ pc \in {"name", "apply"} => (AskedHere("plan_reviewer") <=> WantsReview(drafts[at]))
  /\ pc = "apply" => AskedHere("field_namer")
  /\ \A k \in DOMAIN applied : AsDrafted(k)

LEMMA StepKeepsDrafts == ExtractionInv /\ DraftsInv /\ [Next]_vars => DraftsInv'
<1> SUFFICES ASSUME ExtractionInv, DraftsInv, [Next]_vars PROVE DraftsInv'
  OBVIOUS
<1>1. /\ drafts \in Seq(Plan) /\ Len(drafts) \in Nat /\ applied \in Seq(Plan) /\ Len(applied) \in Nat
      /\ at \in Nat
      /\ pc \in Planned => plan \in Plan
  BY DEF ExtractionInv, LoopInv, TypeOK
<1>2. CASE Register
  BY <1>2 DEF Register, DraftsInv, Planned
<1>3. CASE ClassifySheets
  <2>1. drafts = <<>> /\ applied = <<>> /\ UNCHANGED <<drafts, applied>>
    BY <1>3 DEF ClassifySheets, ExtractionInv, LoopInv
  <2>2. pc' = "returned" \/ (pc' = "plan" /\ at' = 1)
    BY <1>3 DEF ClassifySheets
  <2>3. QED
    BY <2>1, <2>2 DEF DraftsInv, Planned
<1>4. CASE PlanSheet
  <2>1. PICK p \in Plans : /\ plan' = p /\ findings' = p.findings /\ drafts' = Append(drafts, p)
                           /\ pc' = IF "error" \in p.findings THEN "hint" ELSE "review"
    BY <1>4 DEF PlanSheet
  <2>2. pc = "plan" /\ UNCHANGED <<at, applied>> /\ p \in Plan
    BY <1>4, PlansAssumption DEF PlanSheet
  <2>3. Len(drafts) = at - 1 /\ Len(applied) = at - 1
    BY <2>2 DEF DraftsInv, ExtractionInv, LoopInv, InSheet
  <2>4. Len(drafts') = at /\ drafts'[at] = p
    BY <1>1, <2>1, <2>2, <2>3
  <2>5. NeedsReview' <=> WantsReview(drafts'[at'])
    BY <2>1, <2>2, <2>4 DEF NeedsReview, ConfidenceGate, WantsReview
  <2>6. pc' = "hint" => WantsHints(drafts'[at'])
    BY <2>1, <2>2, <2>4 DEF WantsHints
  <2>7. pc' \in {"hint", "review"}
    BY <2>1
  <2>8. QED
    BY <1>1, <2>2, <2>3, <2>4, <2>5, <2>6, <2>7 DEF DraftsInv, Planned
<1>5. CASE HintLayout
  <2>1. pc = "hint" /\ pc' = "review" /\ UNCHANGED <<at, applied, drafts, findings>>
    BY <1>5 DEF HintLayout
  <2>2. plan' = plan \/ plan' \in Hinted(plan)
    BY <1>5 DEF HintLayout
  <2>3. plan'.mode = plan.mode /\ plan'.confidence = plan.confidence
    <3>1. CASE plan' = plan
      BY <3>1
    <3>2. CASE plan' # plan
      <4>1. PICK f \in SUBSET Severities : plan' = [plan EXCEPT !.maker = "hinter", !.findings = f]
        BY <2>2, <3>2 DEF Hinted
      <4>2. plan \in Plan
        BY <1>1, <2>1 DEF Planned
      <4>3. QED
        BY <4>1, <4>2 DEF Plan
    <3>3. QED
      BY <3>1, <3>2
  <2>4. NeedsReview' <=> NeedsReview
    BY <2>1, <2>3 DEF NeedsReview
  <2>5. QED
    BY <2>1, <2>4 DEF DraftsInv, Planned
<1>6. CASE ReviewPlan \/ SkipReview \/ NameFields
  <2>1. /\ pc \in {"review", "name"} /\ pc' \in {"name", "apply"}
        /\ UNCHANGED <<at, applied, drafts>>
    BY <1>6 DEF ReviewPlan, SkipReview, NameFields
  <2>2. QED
    BY <2>1 DEF DraftsInv, Planned
<1>7. CASE ApplyPlan
  <2>1. /\ pc = "apply" /\ applied' = Append(applied, plan) /\ drafts' = drafts
        /\ (pc' = "plan" /\ at' = at + 1) \/ pc' = "check"
    BY <1>7 DEF ApplyPlan
  <2>2. Len(drafts) = at /\ Len(applied) = at - 1
    BY <2>1 DEF DraftsInv, ExtractionInv, LoopInv, InSheet, Planned
  <2>3. Len(applied') = at
    BY <1>1, <2>1, <2>2 DEF Planned
  <2>4. QED
    BY <1>1, <2>1, <2>2, <2>3 DEF DraftsInv, Planned
<1>8. CASE Failure \/ CheckAndReconcile
  <2>1. pc' \in {"raised", "returned"} /\ UNCHANGED <<applied, drafts>>
    BY <1>8 DEF Failure, PlannerRaises, RevalidationRaises, NamerPromptRaises, ApplyRaises, Fails,
                CheckAndReconcile
  <2>2. QED
    BY <2>1 DEF DraftsInv, Planned
<1>9. CASE UNCHANGED vars
  BY <1>9 DEF vars, DraftsInv, NeedsReview
<1>10. QED
  BY <1>2, <1>3, <1>4, <1>5, <1>6, <1>7, <1>8, <1>9 DEF Next, Sheet

\* One more call, about the present sheet.
LEMMA AskedCalls ==
  ASSUME TypeOK, NEW agent, NEW ending, Asked(agent, ending)
  PROVE  /\ \A a, k : CallsTo(a, k)' = IF a = agent /\ k = at THEN CallsTo(a, k) \cup {Len(calls) + 1}
                                      ELSE CallsTo(a, k)
         /\ DOMAIN calls' = DOMAIN calls \cup {Len(calls) + 1}
         /\ Len(calls) + 1 \notin DOMAIN calls
         /\ calls'[Len(calls) + 1].agent = agent
         /\ \A k \in DOMAIN calls : calls'[k] = calls[k]
<1> DEFINE call == [agent |-> agent, at |-> at, ending |-> ending]
           n == Len(calls) + 1
<1>1. calls' = Append(calls, call) /\ Len(calls) \in Nat /\ DOMAIN calls = 1 .. Len(calls)
  BY DEF Asked, TypeOK
<1>2. /\ DOMAIN calls' = DOMAIN calls \cup {n}
      /\ calls'[n].agent = agent /\ calls'[n].at = at
      /\ \A k \in DOMAIN calls : calls'[k] = calls[k]
      /\ n \notin DOMAIN calls
  BY <1>1 DEF TypeOK
<1> HIDE DEF n
<1>3. \A a, k : CallsTo(a, k)' = IF a = agent /\ k = at THEN CallsTo(a, k) \cup {n} ELSE CallsTo(a, k)
  BY <1>2 DEF CallsTo
<1>4. QED
  BY <1>2, <1>3 DEF n

\* A step that asks no agent and plans or applies no sheet.
LEMMA QuietKeepsBudget ==
  ASSUME BudgetInv, UNCHANGED <<calls, at, drafts, applied>>,
         pc' \in {"new", "classify"} => pc \in {"new", "classify"},
         pc' \in InSheet => pc' = "name" /\ pc = "review" /\ ~WantsReview(drafts[at])
  PROVE  BudgetInv'
<1>1. \A a, k : CallsTo(a, k)' = CallsTo(a, k)
  BY DEF CallsTo
<1>2. \A a : AskedHere(a)' <=> AskedHere(a)
  BY <1>1 DEF AskedHere, Unasked
<1>3. \A k \in DOMAIN applied' : AsDrafted(k)'
  BY <1>1 DEF BudgetInv, AsDrafted, Unasked, WantsHints, WantsReview
<1>4. \A a \in SheetAgents, k \in Nat : AskedAtMostOnce(a, k)' /\ (k > at' => Unasked(a, k)')
  BY <1>1 DEF BudgetInv, AskedAtMostOnce, Unasked
<1>5. ClassifierFirst'
  BY DEF BudgetInv, ClassifierFirst
<1>6. QED
  BY <1>2, <1>3, <1>4, <1>5 DEF BudgetInv, InSheet, WantsHints, WantsReview

LEMMA UnchangedKeepsBudget == BudgetInv /\ UNCHANGED vars => BudgetInv'
<1> SUFFICES ASSUME BudgetInv, UNCHANGED vars PROVE BudgetInv'
  OBVIOUS
<1>1. \A a, k : CallsTo(a, k)' = CallsTo(a, k)
  BY DEF vars, CallsTo
<1>2. UNCHANGED <<pc, at, calls, drafts, applied>>
  BY DEF vars
<1>3. \A a : AskedHere(a)' <=> AskedHere(a)
  BY <1>1, <1>2 DEF AskedHere, Unasked
<1>4. \A k \in DOMAIN applied' : AsDrafted(k)'
  BY <1>1, <1>2 DEF BudgetInv, AsDrafted, Unasked, WantsHints, WantsReview
<1>5. \A a \in SheetAgents, k \in Nat : AskedAtMostOnce(a, k)' /\ (k > at' => Unasked(a, k)')
  BY <1>1, <1>2 DEF BudgetInv, AskedAtMostOnce, Unasked
<1>6. ClassifierFirst'
  BY <1>2 DEF BudgetInv, ClassifierFirst
<1>7. QED
  BY <1>2, <1>3, <1>4, <1>5, <1>6 DEF BudgetInv, WantsHints, WantsReview

\* A call that no step has made yet, about the sheet at hand.
LEMMA SheetAsksKeepBudget ==
  ASSUME TypeOK, BudgetInv, NEW agent \in SheetAgents, NEW ending, Asked(agent, ending),
         ~AskedHere(agent), UNCHANGED <<at, drafts, applied>>, calls # <<>>,
         \A k \in DOMAIN applied : k \in Nat /\ k # at
  PROVE  /\ \A a \in SheetAgents, k \in Nat :
              AskedAtMostOnce(a, k)' /\ (k > at' => Unasked(a, k)')
         /\ ClassifierFirst'
         /\ AskedHere(agent)'
         /\ \A a \in SheetAgents \ {agent} : AskedHere(a)' <=> AskedHere(a)
         /\ \A k \in DOMAIN applied' : AsDrafted(k)'
<1>1. /\ \A a, k : CallsTo(a, k)' = IF a = agent /\ k = at THEN CallsTo(a, k) \cup {Len(calls) + 1}
                                   ELSE CallsTo(a, k)
      /\ DOMAIN calls' = DOMAIN calls \cup {Len(calls) + 1}
      /\ Len(calls) + 1 \notin DOMAIN calls
      /\ calls'[Len(calls) + 1].agent = agent
      /\ \A k \in DOMAIN calls : calls'[k] = calls[k]
  BY AskedCalls
<1>2. at \in Nat /\ at' = at
  BY DEF TypeOK
<1>3. \A a \in SheetAgents, k \in Nat : AskedAtMostOnce(a, k) /\ (k > at => CallsTo(a, k) = {})
  BY DEF BudgetInv, Unasked
<1>4. \A k \in Nat : k = at => CallsTo(agent, k) = {}
  BY DEF AskedHere, Unasked
<1>5. ASSUME NEW a \in SheetAgents, NEW k \in Nat
      PROVE  AskedAtMostOnce(a, k)' /\ (k > at' => Unasked(a, k)')
  <2>1. CASE a = agent /\ k = at
    <3>1. CallsTo(a, k)' = {Len(calls) + 1}
      BY <1>1, <1>4, <2>1
    <3>2. QED
      BY <1>2, <2>1, <3>1 DEF AskedAtMostOnce
  <2>2. CASE ~(a = agent /\ k = at)
    <3>1. CallsTo(a, k)' = CallsTo(a, k)
      BY <1>1, <2>2
    <3>2. QED
      BY <1>2, <1>3, <3>1 DEF AskedAtMostOnce, Unasked
  <2>3. QED
    BY <2>1, <2>2
<1>6. AskedHere(agent)'
  <2>1. PICK k \in Nat : k = at
    BY <1>2
  <2>2. CallsTo(agent, k)' # {}
    BY <1>1, <2>1
  <2>3. QED
    BY <1>2, <2>1, <2>2 DEF AskedHere, Unasked
<1>7. ASSUME NEW a \in SheetAgents \ {agent} PROVE AskedHere(a)' <=> AskedHere(a)
  <2>1. \A k \in Nat : CallsTo(a, k)' = CallsTo(a, k)
    BY <1>1
  <2>2. QED
    BY <1>2, <2>1 DEF AskedHere, Unasked
<1>8. ASSUME NEW k \in DOMAIN applied' PROVE AsDrafted(k)'
  <2>1. \A a : CallsTo(a, k)' = CallsTo(a, k)
    BY <1>1
  <2>2. AsDrafted(k)
    BY DEF BudgetInv
  <2>3. QED
    BY <2>1, <2>2 DEF AsDrafted, Unasked, WantsHints, WantsReview
<1>9. ClassifierFirst'
  <2>1. Len(calls) + 1 # 1 /\ agent # "sheet_classifier"
    BY DEF TypeOK, SheetAgents
  <2>2. QED
    BY <1>1, <2>1 DEF BudgetInv, ClassifierFirst
<1>10. QED
  BY <1>5, <1>6, <1>7, <1>8, <1>9

LEMMA SheetStepKeepsBudget ==
  ASSUME ExtractionInv, DraftsInv, BudgetInv, Sheet
  PROVE  BudgetInv'
<1>1. /\ TypeOK /\ drafts \in Seq(Plan) /\ Len(drafts) \in Nat /\ DOMAIN drafts = 1 .. Len(drafts)
      /\ applied \in Seq(Plan) /\ at \in Nat /\ DOMAIN applied = 1 .. Len(applied)
      /\ Len(applied) \in Nat /\ Len(drafts) >= Len(applied)
  BY DEF ExtractionInv, TypeOK, DraftsInv
<1>2. /\ Len(applied) = at - 1 /\ calls # <<>> /\ \A k \in DOMAIN applied : k \in Nat /\ k # at
  <2>1. pc \in InSheet
    BY DEF Sheet, PlanSheet, HintLayout, ReviewPlan, SkipReview, NameFields, ApplyPlan, InSheet
  <2>2. Len(applied) = at - 1 /\ calls # <<>>
    BY <2>1 DEF ExtractionInv, LoopInv
  <2>3. QED
    BY <1>1, <2>2
<1>3. CASE PlanSheet
  <2>1. PICK p \in Plans : /\ drafts' = Append(drafts, p)
                           /\ pc' = IF "error" \in p.findings THEN "hint" ELSE "review"
    BY <1>3 DEF PlanSheet
  <2>2. pc = "plan" /\ UNCHANGED <<calls, at, applied>> /\ p \in Plan /\ Len(drafts) = at - 1
    BY <1>3, PlansAssumption DEF PlanSheet, DraftsInv
  <2>3. drafts'[at'] = p /\ \A k \in DOMAIN applied : drafts'[k] = drafts[k]
    BY <1>1, <2>1, <2>2
  <2>4. \A a, k : CallsTo(a, k)' = CallsTo(a, k)
    BY <2>2 DEF CallsTo
  <2>5. \A a : AskedHere(a)' <=> AskedHere(a)
    BY <2>2, <2>4 DEF AskedHere, Unasked
  <2>6. \A k \in DOMAIN applied' : AsDrafted(k)'
    BY <2>2, <2>3, <2>4 DEF BudgetInv, AsDrafted, Unasked, WantsHints, WantsReview
  <2>7. \A a \in SheetAgents, k \in Nat : AskedAtMostOnce(a, k)' /\ (k > at' => Unasked(a, k)')
    BY <2>2, <2>4 DEF BudgetInv, AskedAtMostOnce, Unasked
  <2>8. ClassifierFirst'
    BY <2>2 DEF BudgetInv, ClassifierFirst
  <2>9. pc' = "review" => ~WantsHints(drafts'[at'])
    BY <2>1, <2>3 DEF WantsHints
  <2>10. pc' \in {"hint", "review"}
    BY <2>1
  <2>11. QED
    BY <2>2, <2>5, <2>6, <2>7, <2>8, <2>9, <2>10 DEF BudgetInv, WantsHints
<1>4. CASE HintLayout
  <2>1. PICK ending : Asked("layout_hinter", ending)
    BY <1>4 DEF HintLayout
  <2>2. ~AskedHere("layout_hinter") /\ ~AskedHere("plan_reviewer") /\ ~AskedHere("field_namer")
    BY <1>4 DEF HintLayout, BudgetInv
  <2>3. pc = "hint" /\ pc' = "review" /\ UNCHANGED <<at, drafts, applied>>
    BY <1>4 DEF HintLayout
  <2>4. WantsHints(drafts'[at'])
    BY <2>3 DEF DraftsInv, WantsHints
  <2>5. QED
    BY <1>1, <1>2, <2>1, <2>2, <2>3, <2>4, SheetAsksKeepBudget DEF BudgetInv, SheetAgents, WantsHints
<1>5. CASE ReviewPlan
  <2>1. PICK ending : Asked("plan_reviewer", ending)
    BY <1>5 DEF ReviewPlan
  <2>2. /\ ~AskedHere("plan_reviewer") /\ ~AskedHere("field_namer")
        /\ AskedHere("layout_hinter") <=> WantsHints(drafts[at])
    BY <1>5 DEF ReviewPlan, BudgetInv
  <2>3. pc = "review" /\ pc' = "name" /\ UNCHANGED <<at, drafts, applied>>
    BY <1>5 DEF ReviewPlan
  <2>4. WantsReview(drafts[at])
    BY <1>5 DEF ReviewPlan, DraftsInv
  <2>5. /\ \A a \in SheetAgents, k \in Nat : AskedAtMostOnce(a, k)' /\ (k > at' => Unasked(a, k)')
        /\ ClassifierFirst' /\ AskedHere("plan_reviewer")'
        /\ AskedHere("layout_hinter")' <=> AskedHere("layout_hinter")
        /\ AskedHere("field_namer")' <=> AskedHere("field_namer")
        /\ \A k \in DOMAIN applied' : AsDrafted(k)'
    BY <1>1, <1>2, <2>1, <2>2, <2>3, SheetAsksKeepBudget DEF SheetAgents
  <2>6. QED
    BY <2>2, <2>3, <2>4, <2>5 DEF BudgetInv, WantsHints, WantsReview
<1>6. CASE SkipReview
  <2>1. ~WantsReview(drafts[at])
    BY <1>6 DEF SkipReview, DraftsInv
  <2>2. QED
    BY <1>6, <2>1, QuietKeepsBudget DEF SkipReview, InSheet
<1>7. CASE NameFields
  <2>1. PICK ending : Asked("field_namer", ending)
    BY <1>7 DEF NameFields
  <2>2. /\ ~AskedHere("field_namer")
        /\ AskedHere("layout_hinter") <=> WantsHints(drafts[at])
        /\ AskedHere("plan_reviewer") <=> WantsReview(drafts[at])
    BY <1>7 DEF NameFields, BudgetInv
  <2>3. pc = "name" /\ pc' = "apply" /\ UNCHANGED <<at, drafts, applied>>
    BY <1>7 DEF NameFields
  <2>4. /\ \A a \in SheetAgents, k \in Nat : AskedAtMostOnce(a, k)' /\ (k > at' => Unasked(a, k)')
        /\ ClassifierFirst' /\ AskedHere("field_namer")'
        /\ AskedHere("layout_hinter")' <=> AskedHere("layout_hinter")
        /\ AskedHere("plan_reviewer")' <=> AskedHere("plan_reviewer")
        /\ \A k \in DOMAIN applied' : AsDrafted(k)'
    BY <1>1, <1>2, <2>1, <2>2, <2>3, SheetAsksKeepBudget DEF SheetAgents
  <2>5. QED
    BY <2>2, <2>3, <2>4 DEF BudgetInv, WantsHints, WantsReview
<1>8. CASE ApplyPlan
  <2>1. /\ pc = "apply" /\ UNCHANGED <<calls, plan, drafts>>
        /\ \/ pc' = "plan" /\ at' = at + 1
           \/ pc' = "check" /\ at' = at
    BY <1>8 DEF ApplyPlan
  <2>2. applied' = Append(applied, plan) /\ plan \in Plan
    BY <1>8, <2>1 DEF ApplyPlan, ExtractionInv, LoopInv, Planned
  <2>3. DOMAIN applied' = DOMAIN applied \cup {at}
    BY <1>1, <1>2, <2>2
  <2>4. /\ AskedHere("field_namer")
        /\ AskedHere("layout_hinter") <=> WantsHints(drafts[at])
        /\ AskedHere("plan_reviewer") <=> WantsReview(drafts[at])
    BY <2>1 DEF BudgetInv
  <2>5. \A a, k : CallsTo(a, k)' = CallsTo(a, k)
    BY <2>1 DEF CallsTo
  <2>6. AsDrafted(at)
    BY <1>1, <2>4 DEF AsDrafted, AskedHere
  <2>7. \A k \in DOMAIN applied' : AsDrafted(k)'
    BY <2>1, <2>3, <2>5, <2>6 DEF BudgetInv, AsDrafted, Unasked, WantsHints, WantsReview
  <2>8. \A a \in SheetAgents, k \in Nat : AskedAtMostOnce(a, k)' /\ (k > at' => Unasked(a, k)')
    BY <1>1, <2>1, <2>5 DEF BudgetInv, AskedAtMostOnce, Unasked
  <2>9. at' > at => \A a \in SheetAgents : ~AskedHere(a)'
    <3> SUFFICES ASSUME at' > at, NEW a \in SheetAgents PROVE ~AskedHere(a)'
      OBVIOUS
    <3>1. at' \in Nat /\ at \in Nat
      BY <1>1, <2>1
    <3>2. \A k \in Nat : k = at' => CallsTo(a, k) = {}
      BY <3>1 DEF BudgetInv, Unasked
    <3>3. QED
      BY <2>5, <3>2 DEF AskedHere, Unasked
  <2>10. ClassifierFirst'
    BY <2>1 DEF BudgetInv, ClassifierFirst
  <2>11. CASE pc' = "plan"
    <3>1. at' > at
      BY <1>1, <2>1, <2>11
    <3>2. QED
      BY <2>7, <2>8, <2>9, <2>10, <2>11, <3>1 DEF BudgetInv, SheetAgents
  <2>12. CASE pc' = "check"
    BY <2>7, <2>8, <2>10, <2>12 DEF BudgetInv
  <2>13. QED
    BY <2>1, <2>11, <2>12
<1>9. QED
  BY <1>3, <1>4, <1>5, <1>6, <1>7, <1>8 DEF Sheet

LEMMA StepKeepsBudget == ExtractionInv /\ DraftsInv /\ BudgetInv /\ [Next]_vars => BudgetInv'
<1> SUFFICES ASSUME ExtractionInv, DraftsInv, BudgetInv, [Next]_vars PROVE BudgetInv'
  OBVIOUS
<1>1. TypeOK
  BY DEF ExtractionInv
<1>2. CASE Register
  BY <1>2, QuietKeepsBudget DEF Register, InSheet
<1>3. CASE ClassifySheets
  <2>1. PICK ending : Asked("sheet_classifier", ending)
    BY <1>3 DEF ClassifySheets
  <2>2. /\ pc = "classify" /\ calls = <<>> /\ applied = <<>> /\ applied' = <<>>
        /\ pc' \in {"returned", "plan"} /\ at' \in Nat
    BY <1>1, <1>3 DEF ClassifySheets, BudgetInv, ExtractionInv, LoopInv, TypeOK
  <2>3. \A a, k : CallsTo(a, k) = {}
    BY <2>2 DEF CallsTo
  <2>4. \A a \in SheetAgents, k \in Nat : CallsTo(a, k)' = {}
    BY <1>1, <2>1, <2>3, AskedCalls DEF SheetAgents
  <2>5. ClassifierFirst'
    <3>1. DOMAIN calls = {} /\ Len(calls) = 0
      BY <2>2
    <3>2. DOMAIN calls' = {1} /\ calls'[1].agent = "sheet_classifier"
      BY <1>1, <2>1, <3>1, AskedCalls
    <3>3. QED
      BY <3>2 DEF ClassifierFirst
  <2>6. QED
    BY <2>2, <2>4, <2>5 DEF BudgetInv, AskedAtMostOnce, AskedHere, Unasked, SheetAgents
<1>4. CASE Sheet
  BY <1>4, SheetStepKeepsBudget
<1>5. CASE Failure
  <2>1. pc' = "raised" /\ UNCHANGED <<at, drafts, applied>> /\ pc \in InSheet
    BY <1>5 DEF Failure, PlannerRaises, RevalidationRaises, NamerPromptRaises, ApplyRaises, Fails, InSheet
  <2>2. CASE UNCHANGED calls
    BY <2>1, <2>2, QuietKeepsBudget DEF InSheet
  <2>3. CASE \E agent \in SheetAgents, ending \in {"result", "raised"} :
               Asked(agent, ending) /\ ~AskedHere(agent)
    <3>1. calls # <<>> /\ Len(applied) = at - 1 /\ at \in Nat /\ applied \in Seq(Plan)
      BY <2>1 DEF ExtractionInv, LoopInv, TypeOK
    <3>2. \A k \in DOMAIN applied : k \in Nat /\ k # at
      BY <3>1
    <3>3. QED
      BY <1>1, <2>1, <2>3, <3>1, <3>2, SheetAsksKeepBudget DEF BudgetInv
  <2>4. QED
    BY <1>5, <2>2, <2>3 DEF Failure, PlannerRaises, RevalidationRaises, NamerPromptRaises,
       ApplyRaises, BudgetInv, SheetAgents
<1>6. CASE CheckAndReconcile
  BY <1>6, QuietKeepsBudget DEF CheckAndReconcile, InSheet
<1>7. CASE UNCHANGED vars
  BY <1>7, UnchangedKeepsBudget
<1>8. QED
  BY <1>2, <1>3, <1>4, <1>5, <1>6, <1>7 DEF Next

\* At most one member: one or none in number.
LEMMA AtMostOneMember ==
  ASSUME NEW S, \A m, n \in S : m = n
  PROVE  Cardinality(S) = IF S # {} THEN 1 ELSE 0
<1>1. CASE S = {}
  BY <1>1, FS_EmptySet
<1>2. CASE S # {}
  <2>1. PICK m : S = {m}
    BY <1>2
  <2>2. QED
    BY <2>1, FS_Singleton
<1>3. QED
  BY <1>1, <1>2

\* For any workbook and any answers the classifier is run once, and each applied sheet
\* cost the runs its draft called for: of the hinter for an error, of the reviewer for
\* a warning, a low confidence or a mode that is not row by row, and one of the namer
\* (140-196, 212).
THEOREM BudgetIsKept == Spec => []CallBudget
<1>1. Init => DraftsInv /\ BudgetInv
  <2> SUFFICES ASSUME Init PROVE DraftsInv /\ BudgetInv
    OBVIOUS
  <2>1. calls = <<>> /\ drafts = <<>> /\ applied = <<>> /\ pc = "new" /\ \A a, k : CallsTo(a, k) = {}
    BY DEF Init, CallsTo
  <2>2. DraftsInv
    BY <2>1 DEF DraftsInv, Planned
  <2>3. BudgetInv
    BY <2>1 DEF BudgetInv, ClassifierFirst, AskedAtMostOnce, AskedHere, Unasked
  <2>4. QED
    BY <2>2, <2>3
<1>2. ExtractionInv /\ DraftsInv /\ BudgetInv => CallBudget
  <2> SUFFICES ASSUME ExtractionInv, DraftsInv, BudgetInv, NEW k \in DOMAIN applied
               PROVE  /\ Once("layout_hinter", k, WantsHints(drafts[k]))
                      /\ Once("plan_reviewer", k, WantsReview(drafts[k]))
                      /\ Once("field_namer", k, TRUE)
    BY DEF CallBudget, BudgetInv, ClassifierFirst, WantsHints, WantsReview
  <2>1. k \in Nat
    BY DEF ExtractionInv, TypeOK
  <2>2. \A a \in SheetAgents : Cardinality(CallsTo(a, k)) = IF CallsTo(a, k) # {} THEN 1 ELSE 0
    <3> TAKE a \in SheetAgents
    <3>1. \A m, n \in CallsTo(a, k) : m = n
      BY <2>1 DEF BudgetInv, AskedAtMostOnce
    <3>2. QED
      BY <3>1, AtMostOneMember
  <2>3. AsDrafted(k)
    BY DEF BudgetInv
  <2>4. QED
    BY <2>2, <2>3 DEF AsDrafted, Unasked, Once, SheetAgents
<1>3. DraftsInv /\ ExtractionInv /\ [Next]_vars => DraftsInv'
  BY StepKeepsDrafts
<1>4. QED
  BY <1>1, <1>2, <1>3, StepKeepsBudget, ExtractionInvariant, PTL DEF Spec
=============================================================================
