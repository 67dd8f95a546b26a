----------------------------- MODULE Extraction -----------------------------
(***************************************************************************)
(* extract() of app/services/extraction.py for one workbook: classify the  *)
(* sheets, then for each relevant sheet plan, validate, hint, review, name *)
(* and apply, then check and reconcile the whole result.  The language     *)
(* model decides what the agents answer; an agent whose attempts all fail  *)
(* falls back to its default (AgentContract, ending "failure").            *)
(*                                                                         *)
(* A plan is kept as what the orchestrator looks at: its mode, its         *)
(* confidence in percent, the severities of the findings validation has    *)
(* about it, and who touched it last.                                      *)
(***************************************************************************)
EXTENDS Integers, Sequences, FiniteSets

CONSTANTS
  SheetNames,    \* the workbook's sheets, in order
  StrayName,     \* a name that is no sheet of the workbook
  Plans,         \* the plans a planner may produce
  MaxRelevant,   \* bound on the sheets the classifier may name
  MaxPlis,       \* bound on the PLIs of a sheet
  None

Modes == {"row_per_pli", "section_per_pli", "sheet_is_pli"}
Severities == {"error", "warn"}
Makers == {"planner", "hinter", "reviewer"}
Plan == [mode: Modes, confidence: 0 .. 100, findings: SUBSET Severities, maker: Makers]

ASSUME PlansAssumption ==
  /\ Plans \subseteq Plan
  /\ \A p \in Plans : p.maker = "planner"
ASSUME NoneAssumption == None \notin Modes
ASSUME BoundsAssumption == MaxRelevant \in Nat /\ MaxPlis \in Nat
ASSUME NamesAssumption ==
  /\ SheetNames \in Seq({SheetNames[k] : k \in DOMAIN SheetNames})
  /\ \A k \in DOMAIN SheetNames : SheetNames[k] # StrayName

VARIABLES
  pc,          \* the phase: "new", "classify", "plan", "hint", "review",
               \* "name", "apply", "check", "returned" or "raised"
  worksheets,  \* the sheets that have cells (a chart sheet has none)
  relevant,    \* relevant
  at,          \* position of the loop over relevant
  plan,        \* the sheet's plan
  findings,    \* the severities among findings, as first validated
  warns,       \* the sheet's own warnings in _plan_for_sheet
  warnings,    \* all_warnings: [at, maker, severity] of the plan warned about
  plis,        \* all_plis: for each PLI the position of its sheet
  format,      \* format_detected
  counts,      \* extractions_total by status, and plis_extracted_total
  calls,       \* agent runs: [agent, at, ending] (history)
  drafts,      \* the planner's plan of each sheet begun (history)
  hinted,      \* the plans validated after hints: [at, plan] (history)
  validated,   \* the last plan that was validated (history)
  applied      \* the plans applied (history)

vars == <<pc, worksheets, relevant, at, plan, findings, warns, warnings, plis, format, counts,
          calls, drafts, hinted, validated, applied>>

Statuses == {"success", "empty", "failure"}
SheetSet == {SheetNames[k] : k \in DOMAIN SheetNames}

Init ==
  /\ pc = "new"
  /\ worksheets \in SUBSET SheetSet
  /\ relevant = <<>> /\ at = 0
  /\ plan = None /\ findings = {}
  /\ warns = {} /\ warnings = {} /\ plis = <<>> /\ format = None
  /\ counts = [s \in Statuses \cup {"plis"} |-> 0]
  /\ calls = <<>> /\ drafts = <<>> /\ hinted = {} /\ validated = None /\ applied = <<>>

-----------------------------------------------------------------------------
Asked(agent, ending) == calls' = Append(calls, [agent |-> agent, at |-> at, ending |-> ending])
Count(status) ==
  counts' = [counts EXCEPT ![status] = @ + 1,
                           !["plis"] = IF pc = "check" THEN @ + Len(plis) ELSE @]

\* Mutant of Fails: a failure the caller sees and the metrics do not.
FailsUncounted ==
  /\ pc' = "raised"
  /\ UNCHANGED <<worksheets, relevant, at, plan, findings, warns, warnings, plis, format,
                 drafts, hinted, validated, applied>>
  /\ UNCHANGED counts

\* except Exception: count the failure, re-raise.
Fails ==
  /\ pc' = "raised"
  /\ Count("failure")
  /\ UNCHANGED <<worksheets, relevant, at, plan, findings, warns, warnings, plis, format,
                 drafts, hinted, validated, applied>>

\* The workbook is opened and the provider made before the try: a corrupt file
\* or a missing API key is raised without being counted.
Register ==
  /\ pc = "new"
  /\ pc' \in {"classify", "raised"}
  /\ UNCHANGED <<worksheets, relevant, at, plan, findings, warns, warnings, plis, format, counts,
                 calls, drafts, hinted, validated, applied>>

\* Mutant of RelevantSheets: a failed classifier selects nothing.
NoSheetsOnFailure(ending) ==
  IF ending = "failure"
  THEN {<<>>}
  ELSE UNION {[1 .. n -> SheetSet \cup {StrayName}] : n \in 0 .. MaxRelevant}

\* What SheetClassifier.run returns: the model's names unchecked, or all sheets.
RelevantSheets(ending) ==
  IF ending = "failure"
  THEN {SheetNames}
  ELSE UNION {[1 .. n -> SheetSet \cup {StrayName}] : n \in 0 .. MaxRelevant}

NoSheets == [at |-> 0, maker |-> "extract", severity |-> "warn"]

ClassifySheets ==
  /\ pc = "classify"
  /\ \E ending \in {"result", "failure"} :
       /\ Asked("sheet_classifier", ending)
       /\ relevant' \in RelevantSheets(ending)
  /\ IF relevant' = <<>>
     THEN pc' = "returned" /\ warnings' = {NoSheets} /\ Count("empty") /\ UNCHANGED at
     ELSE pc' = "plan" /\ at' = 1 /\ UNCHANGED <<warnings, counts>>
  /\ UNCHANGED <<worksheets, plan, findings, warns, plis, format,
                 drafts, hinted, validated, applied>>

\* _run_planner and _validate_plan.
PlanSheet ==
  /\ pc = "plan" /\ relevant[at] \in worksheets
  /\ \E p \in Plans :
       /\ plan' = p /\ validated' = p /\ findings' = p.findings
       /\ drafts' = Append(drafts, p)
       /\ pc' = IF "error" \in p.findings THEN "hint" ELSE "review"
  /\ warns' = {}
  /\ UNCHANGED <<worksheets, relevant, at, warnings, plis, format, counts, calls, hinted, applied>>

\* workbook_ctx.wb[sheet] raises for a name that is no sheet, and a chart
\* sheet has no cells to survey.
PlannerRaises ==
  /\ pc = "plan" /\ relevant[at] \notin worksheets
  /\ Fails
  /\ UNCHANGED calls

\* The identity column the hinter suggests changes what the statistics find
\* about a plan with rows; the structural errors do not depend on it.
Hinted(p) ==
  {p} \cup {[p EXCEPT !.maker = "hinter", !.findings = f] :
              f \in {g \in SUBSET Severities :
                       /\ "error" \in g <=> "error" \in p.findings
                       /\ p.mode = "sheet_is_pli" => g = p.findings}}

WarningsOf(p) == {[at |-> at, maker |-> p.maker, severity |-> s] : s \in p.findings}

\* _apply_layout_hints_if_needed: the plan is validated again and all its
\* findings become warnings; the caller keeps the first findings.
HintLayout ==
  /\ pc = "hint"
  /\ \E ending \in {"result", "failure"} :
       /\ Asked("layout_hinter", ending)
       /\ plan' \in IF ending = "failure" THEN {plan} ELSE Hinted(plan)
  /\ validated' = plan'
  /\ hinted' = hinted \cup {[at |-> at, plan |-> plan']}
  /\ warns' = warns \cup WarningsOf(plan')
  /\ pc' = "review"
  /\ UNCHANGED <<worksheets, relevant, at, findings, warnings, plis, format, counts, drafts, applied>>

\* A suggestion that is no column letter makes the second validation raise.
RevalidationRaises ==
  /\ pc = "hint" /\ plan.mode # "sheet_is_pli"
  /\ Asked("layout_hinter", "result")
  /\ Fails

ConfidenceGate == 85

\* Mutant of NeedsReview: only a shaky plan is reviewed.
NeedsReviewIfUnsure == plan.confidence < ConfidenceGate

NeedsReview ==
  \/ "warn" \in findings
  \/ plan.confidence < ConfidenceGate
  \/ plan.mode # "row_per_pli"

\* Row corrections may repair or break anything; a plan without rows stays.
Corrected(p) ==
  {p} \cup {[p EXCEPT !.maker = "reviewer", !.findings = f] :
              f \in IF p.mode = "sheet_is_pli" THEN {} ELSE SUBSET Severities}

Reviewed(ending) == IF ending = "failure" THEN {plan} ELSE Corrected(plan)

\* _apply_plan_review_if_needed
ReviewPlan ==
  /\ pc = "review" /\ NeedsReview
  /\ \E ending \in {"result", "failure"} :
       /\ Asked("plan_reviewer", ending)
       /\ plan' \in Reviewed(ending)
  /\ pc' = "name"
  /\ UNCHANGED <<worksheets, relevant, at, findings, warns, warnings, plis, format, counts,
                 drafts, hinted, validated, applied>>

\* Mutant of SkipReview: only a plan without findings goes on unreviewed.
SkipReviewIfClean ==
  /\ pc = "review" /\ ~NeedsReview /\ findings = {}
  /\ pc' = "name"
  /\ UNCHANGED <<worksheets, relevant, at, plan, findings, warns, warnings, plis, format, counts,
                 calls, drafts, hinted, validated, applied>>

SkipReview ==
  /\ pc = "review" /\ ~NeedsReview
  /\ pc' = "name"
  /\ UNCHANGED <<worksheets, relevant, at, plan, findings, warns, warnings, plis, format, counts,
                 calls, drafts, hinted, validated, applied>>

\* Mutant of AllWarnings: each sheet's warnings replace those before.
LastSheetsWarnings == warns

AllWarnings == warnings \cup warns

\* FieldNamer.run: a name map, or the empty one.  It ends _plan_for_sheet, whose
\* warnings join those of the sheets before.
NameFields ==
  /\ pc = "name"
  /\ \E ending \in {"result", "failure"} : Asked("field_namer", ending)
  /\ warnings' = AllWarnings
  /\ pc' = "apply"
  /\ UNCHANGED <<worksheets, relevant, at, plan, findings, warns, plis, format, counts,
                 drafts, hinted, validated, applied>>

\* A corrected role that is not even a string has no .value for the prompt.
NamerPromptRaises ==
  /\ pc = "name" /\ plan.maker = "reviewer" /\ plan.mode = "row_per_pli"
  /\ Asked("field_namer", "raised")
  /\ Fails

\* Mutant of Collected: each sheet's PLIs replace those before.
LastSheetOnly(batch) == batch

Collected(batch) == plis \o batch

DetectedFormat == IF format = None THEN plan.mode ELSE format

MoreSheets == at < Len(relevant)

\* apply_plan, and the end of the loop body.
ApplyPlan ==
  /\ pc = "apply"
  /\ \E n \in IF plan.mode = "sheet_is_pli" THEN {1} ELSE 0 .. MaxPlis :
       plis' = Collected([k \in 1 .. n |-> at])
  /\ applied' = Append(applied, plan)
  /\ format' = DetectedFormat
  /\ IF MoreSheets
     THEN pc' = "plan" /\ at' = at + 1
     ELSE pc' = "check" /\ UNCHANGED at
  /\ UNCHANGED <<worksheets, relevant, plan, findings, warns, warnings, counts, calls,
                 drafts, hinted, validated>>

\* A value that PLI(**values) rejects, or a name map that names no plain field.
ApplyRaises ==
  /\ pc = "apply"
  /\ Fails
  /\ UNCHANGED calls

\* The four validators and reconcile: findings become warnings, the PLIs stay.
\* Without PLIs every tracked field has dropped out.
CheckAndReconcile ==
  /\ pc = "check"
  /\ \E found \in SUBSET {"warn"} :
       /\ plis = <<>> => found # {}
       /\ warnings' = warnings \cup {[at |-> 0, maker |-> "validators", severity |-> s] : s \in found}
  /\ Count(IF plis = <<>> THEN "empty" ELSE "success")
  /\ pc' = "returned"
  /\ UNCHANGED <<worksheets, relevant, at, plan, findings, warns, plis, format, calls,
                 drafts, hinted, validated, applied>>

Sheet == PlanSheet \/ HintLayout \/ ReviewPlan \/ SkipReview \/ NameFields \/ ApplyPlan
Failure == PlannerRaises \/ RevalidationRaises \/ NamerPromptRaises \/ ApplyRaises
Next == Register \/ ClassifySheets \/ Sheet \/ Failure \/ CheckAndReconcile

\* One synchronous call: it always proceeds, and every agent run ends (AgentRunner).
Spec == Init /\ [][Next]_vars /\ WF_vars(Next)

-----------------------------------------------------------------------------
Ended == pc \in {"returned", "raised"}
Returned == pc = "returned"

PlanWarning == [at: Nat, maker: Makers, severity: Severities]

TypeOK ==
  /\ pc \in {"new", "classify", "plan", "hint", "review", "name", "apply", "check",
             "returned", "raised"}
  /\ worksheets \in SUBSET SheetSet
  /\ relevant \in Seq(SheetSet \cup {StrayName})
  /\ at \in 0 .. Len(relevant)
  /\ plan \in Plan \cup {None} /\ validated \in Plan \cup {None}
  /\ findings \in SUBSET Severities
  /\ warns \subseteq PlanWarning
  /\ warnings \subseteq [at: Nat, maker: Makers \cup {"validators", "extract"}, severity: Severities]
  /\ plis \in Seq(1 .. Len(relevant))
  /\ format \in Modes \cup {None}
  /\ counts \in [Statuses \cup {"plis"} -> Nat]
  /\ calls \in Seq([agent: {"sheet_classifier", "layout_hinter", "plan_reviewer", "field_namer"},
                    at: Nat, ending: {"result", "failure", "raised"}])
  /\ drafts \in Seq(Plan) /\ applied \in Seq(Plan)
  /\ hinted \subseteq [at: Nat, plan: Plan]

\* Every extraction that opened its workbook is counted exactly once, under
\* the status its caller sees, with the PLIs the caller gets (217-273).
OneOutcomeCounted ==
  LET counted == {s \in Statuses : counts[s] > 0}
  IN /\ \A s \in Statuses : counts[s] <= 1
     /\ Returned => counted = IF plis = <<>> THEN {"empty"} ELSE {"success"}
     /\ pc = "raised" => counted = IF relevant = <<>> THEN {} ELSE {"failure"}
     /\ ~Ended => counted = {}
     /\ counts["plis"] = IF Returned THEN Len(plis) ELSE 0

\* The caller gets the PLIs of all relevant sheets, in their order, and the
\* format of the first of them (223-239).
ResultCoversSheetsInOrder ==
  Returned /\ relevant # <<>> =>
    /\ Len(applied) = Len(relevant)
    /\ format = applied[1].mode
    /\ \A j, k \in DOMAIN plis : j < k => plis[j] <= plis[k]
    /\ \A k \in DOMAIN relevant : applied[k].mode = "sheet_is_pli" => \E j \in DOMAIN plis : plis[j] = k

\* With the language model down, the extraction is the deterministic one: all
\* sheets, each as planned, and no agent stops it (agents' run fallbacks).
ModelDown == \A k \in DOMAIN calls : calls[k].ending = "failure"
DegradesToPlanner ==
  ModelDown /\ calls # <<>> =>
    /\ relevant = SheetNames
    /\ \A k \in DOMAIN applied : applied[k].maker = "planner"

\* What the hinter leaves wrong is told the caller, for every sheet of the workbook,
\* and nothing else the plan checks found: the warnings of a result that are about
\* plans are the findings about the plans validated after hints (134-137, 231).
FindingsAbout(h) ==
  {[at |-> h.at, maker |-> h.plan.maker, severity |-> s] : s \in h.plan.findings}
HintedFindingsReported ==
  Returned => {w \in warnings : w.maker \in Makers} = UNION {FindingsAbout(h) : h \in hinted}

\* The budget of language model runs: one run of the classifier; then for each sheet
\* a run of the hinter exactly when its draft has an error, one of the reviewer
\* exactly when the draft has a warning, is below the confidence gate or is not read
\* row by row, whatever the hints made of it, and one of the namer (140-196, 212).
CallsTo(agent, k) == {n \in DOMAIN calls : calls[n].agent = agent /\ calls[n].at = k}
Once(agent, k, asked) == Cardinality(CallsTo(agent, k)) = IF asked THEN 1 ELSE 0
CallBudget ==
  /\ \A n \in DOMAIN calls : calls[n].agent = "sheet_classifier" <=> n = 1
  /\ \A k \in DOMAIN applied :
       /\ Once("layout_hinter", k, "error" \in drafts[k].findings)
       /\ Once("plan_reviewer", k, \/ "warn" \in drafts[k].findings
                                   \/ drafts[k].confidence < 85
                                   \/ drafts[k].mode # "row_per_pli")
       /\ Once("field_namer", k, TRUE)

\* Every extraction ends.
EveryExtractionEnds == <>Ended

\* ARCHITECTURE.md line 434: "If the reviewer says `needs_fix`, corrections are
\* applied and validation reruns."  No plan reaches apply_plan unvalidated.
AppliedPlanWasValidated == pc = "apply" => validated = plan

\* extraction.py lines 8-10: "Per-sheet failures are isolated from the
\* workbook-level extraction".  A sheet that fails costs no other sheet its PLIs.
SheetFailuresAreIsolated == pc = "raised" => plis = <<>>
=============================================================================
