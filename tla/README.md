# A TLA+ verification of tna-service

tna-service turns Time-and-Action spreadsheets (`.xlsx`) into product line
items (PLIs). A workbook is uploaded; a language model picks the relevant
sheets; a deterministic planner describes each sheet; the language model may
correct that description; a deterministic applier reads the PLIs from it;
validators attach warnings. These modules model the parts whose behaviour
depends on order, accumulated state, failure or concurrency, check them with
TLC on small instances and prove the central invariants with TLAPS for
instances of every size.

Paths below are relative to the repository's `app/` unless they say otherwise.

## 1. Inventory

| Component | State it keeps | Operations | Talks to | What is hard | What makes it correct |
|---|---|---|---|---|---|
| Upload endpoint `routers/extract.py` | one temporary file per request | refuse, create file, read, extract, unlink, respond | orchestrator, by a blocking call inside a coroutine | concurrent requests on one event loop; failures before the `try`; crashes | each upload answered, from its own file, which is then removed |
| Workbook cache `repositories/workbook_repo.py` | `_CACHE`, by path, for the life of the process | look up or load | endpoint, orchestrator | no lock, no eviction, stale entries | a request extracts from the workbook it uploaded |
| Orchestrator `services/extraction.py` | plan, findings, warnings, PLIs, counters of one call | classify, plan, validate, hint, review, name, apply, check, reconcile | all below | partial failure; plan changed after it was validated; conditional agents | one counted outcome, all sheets in order, degrades to the deterministic plan |
| Agent runner `services/agents/_base.py`, `services/llm_provider.py` | attempt, prompt, last error, counters | run with retries | Anthropic API (external) | retries against invalid, missing and failing answers | bounded attempts, faithful report, counters that add up |
| Agents `services/agents/*.py` | none | one run each, with a fallback | agent runner | fallbacks; answers used unchecked | the extraction survives any of them failing |
| Sheet surveyor `services/planner/surveyor.py` | none (one pass) | collect signals | planner | heuristics | - |
| Row classifier `services/planner/row_classifier.py` | five variables carried from row to row | one rule per row | planner | long sequences of rows; state from far above | rows belong to the right product; totals are totals |
| Planner `services/planner/plan.py` | the plan under construction | decide mode, classify, segment, correct title rows, collect labels | classifier, segmenter, detectors | a correction made after rows refer to each other | a plan without tier-1 errors |
| Block segmenter, KV anchor detector | none | pure passes over a sheet | planner | boundaries | blocks disjoint, nothing lost |
| Stage band detector `services/planner/stage_band_detector.py` | bands found, name cells seen | one outcome per row of dates | planner | each row of dates looks up for its header and may look like a new band | the documented layouts give one band with all their stages |
| Plan validation `services/validation/plan_*.py` | none | list findings | orchestrator | - | its tier-1 errors never come from a plan of the planner |
| Applier `services/applier/apply_plan.py` | values, source cells and confidences of the PLI being read | group rows, read cells, coerce, promote, read stages | orchestrator | key collisions, overwritten fields, dates of other rows | each data row once; each value has its cell; each product its own dates |
| Result validators, reconciler | none | findings to warnings | orchestrator | - | PLIs unchanged |
| Evaluation harness (`evals/` in the repository's root) | rows and archived outputs of a run | live run, replay, pairing, comparison | orchestrator (as extractor), workbook cache | failures of one file, an interrupted run, values that went through JSON | one row per file; best recall; a replay scores like its live run |
| Workbook tools, models, settings, logging, tracing, health, deployment | none that matters here | - | - | - | - |

Interaction is by plain calls: the endpoint calls the orchestrator, which calls
everything else in sequence, one sheet after another. The only concurrency is
between requests on uvicorn's event loop, and the only state that outlives a
request is the workbook cache and the metrics.

`PROJECT.json` lists every hazard of the code at its line with the properties
that would catch it.

## 2. Modules

| Module | Models | Depends on |
|---|---|---|
| `RowClassifier` | `classify_rows`: one action per rule | - |
| `SheetPlan` | one sheet from the scan over `SheetRowPlanner.run`, with the title-row correction or the blocks of `segment_blocks`, and the reviewer's corrections to the emitted PLIs | EXTENDS `RowClassifier`, INSTANCE `PlanInvariants` |
| `PlanInvariants` | the tier-1 checks of `validate_invariants`, one operator each | - |
| `AgentContract` | abstract: what one agent run promises the orchestrator | - |
| `AgentRunner` | the retry loop around `complete_with_schema`, run after run | implements `AgentContract` |
| `Extraction` | `extract()` for one workbook, with any answers of the agents | uses the contract's endings |
| `PliValues` | reading one PLI from its labels, and `SourceCellVerifier` checking it | - |
| `StageBands` | `detect_stage_bands` over one sheet, and `_read_stages` reading the stages of its PLIs | - |
| `Evaluation` | `evaluate`, an interruption, and `evaluate_replay` of what was archived | - |
| `ExtractService` | several uploads over one event loop and the cache, with crashes | an extraction is one step that ends in a result or an exception |
| `MC*` | values of the constants for TLC | |
| `*Proofs` | the theorems of section 5 | EXTEND their component and `TLAPS` |

### How state and actions correspond to the code

**RowClassifier.** `firstDataRow`, `lastAnchor`, `lastGroup`, `nextGroup` and
`recentQtys` are the five values `_classify_single_row` takes and returns;
`rows` is the list `classify_rows` builds. Each action is one rule with its
guard in the code's priority order. A row is abstracted to what the rules read:
whether its identity cell is empty, a header term or other text, the number in
its quantity cell, whether anything else is in it, and how a merged region
covers the identity column. Quantities are integers in quarters, so the
tolerance 0.5 is `Tolerance = 2`. `ValidSheet` says what openpyxl guarantees of
merged regions, and `HasIdentityColumn` what the surveyor needs to offer an
identity column at all (a header term in the first 15 rows).

**SheetPlan.** `mode` is what `_decide_pli_mode` chose. The scores and cells it
reads are not modelled, so a sheet may have each mode its rows allow (`CanBe`).
For rows, `AssemblePlan` is all of `SheetRowPlanner.run`; whether the labels
cover fewer than half of the populated columns depends on cells that are not
modelled, so the title-row correction is a choice wherever it is possible at all
(`TitleRowPossible`). For sections, one `AddBlock` is one round of
`segment_blocks`' loop: `Start` is the anchor, `Bound` the row before the next
one, `ClippingGaps` the gaps its inner loop accepts, and `End` what is left of
them. A sheet that is one product has no rows to scan (`RowsReady`). A key/value
anchor is the row of its label, since only that decides which block it joins;
which labels have a value cell is free (`DetectKvAnchors`). Stage bands join
blocks by the same rule and are left out. `CorrectRow` is one entry of
`verdict.row_corrections`, with a role, an anchor or neither of them given; group
id, header rows and blocks stay, as in the code. `groups` is `rows_by_group`, an
insertion-ordered dictionary, as a sequence of keys with their lists: `GroupRow`
is one round of the loop that fills it, in which a key already there is joined
and a new one opened, and `EmitRow` one round of the two nested loops that walk
it, whose place is `cursor`. `EmitRow`, `EmitBlock` and `EmitSheet` append one
PLI each. The planner never sets `sub_row_role`, so multi-row PLIs do not occur
in these plans. A suggested role that is not even a text is stored by the code
and makes the next prompt raise; that is `NamerPromptRaises` in `Extraction`.

**PlanInvariants.** A check that makes findings is an operator that is true when
it makes none. Blocks are compared pairwise after sorting, as the code does, so
`BlocksApart` speaks of blocks adjacent in that order. `PlanPasses` applies them
to the plans of `SheetPlan`, the planner composed with the validation that
follows it: none of the checks of severity ERROR (`IsSound`) has a finding, and
of the two warnings of `header_contiguity` only that of a gap in the header band
may occur, over rows that are no products.

**AgentRunner.** `RetriesLeft` is the loop's condition and, negated, the break
in both handlers (the loop ends there either way). The Anthropic service is
external: it answers with a valid tool call, an invalid one, none, or an error.
`errorsIn` counts the messages appended to the prompt.

**Extraction.** A plan is what the orchestrator looks at: mode, confidence,
severities of its findings, and who touched it last. The planner may produce any
plan of `Plans`, so the orchestrator is verified for planners that do make
tier-1 errors, although the present one does not (theorem
`PlanAlwaysPasses`). Every way an exception leaves the code is an action:
an unknown or chart sheet, a hinted column that is no column, a corrected role
without `.value`, a value PLI rejects. `Register` covers what happens before the
`try` and is counted nowhere. `warns` is the list `_plan_for_sheet` makes anew for
each sheet, `warnings` the `all_warnings` it joins when that returns; `drafts` and
`hinted` remember what was planned and what the hints made of it, for the
properties.

**PliValues.** One step is one label of `plan.header_labels`, then of the
key/value anchors; which canonical name it has and which cell it points to
(after following merged regions) is chosen when it is read, so every plan and
every name map is covered, also those that send several labels to one name, or one
to `stages` or `source`, which the reader fills itself in the end. `fields`, `meta`,
`cells` and `conf` are `values`, its two dictionaries and `source_cells`. A cell's
value is abstracted to its kind, which decides what `_coerce` and PLI's validation
do with it, and a value held is what it prints as: `Coerced` is `int()`, which
makes the whole number of a float, a fraction or a text with commas (`Whole`). A
confidence is represented by the
reason for it (column label, anchor, fallback, rated by the model). `Restated`
says when a field prints otherwise than its cell. Section and sheet readers run
the same anchor loop; they have no column labels.

**StageBands.** `row` is the loop variable of `detect_stage_bands`; each action
from `FewDates` to `WideBand` is one way through its body, in the order of its
`continue`s. A cell is abstracted to its kind (empty, number, native date, text
that looks like a date, blanks) or to its text where texts are compared.
Columns are numbers; where the code keeps a dictionary by name the model has a
function, whose later entry replaces an earlier one as there. `NameFields` is the
field namer's answer, then `ReadProduct` reads the stages of one product of a
ROW_PER_PLI sheet in its own row and `ReadSheet` those of a sheet or block at the
plan row of each band. A stage is the band, its name, whether it has a planned
date, and the cell of everything read for it. `StageRaises` is what `Stage(...)`
does not accept: a second `planned_date`, a `quantity` that is no number.

**Evaluation.** One file goes through `SkipFile`, `ExtractionFails` or
`ExtractFile`; the result is then archived, paired label by label (`PairNext`,
one call of `_match`) and scored, the same way in both loops. A row holds, in
place of its averages, what they are computed from. A value is its type and what
it says; `Reloaded` is the JSON round trip, in which typed fields come back and
metadata stays text, and `Normalize` is `_normalize`. Replays happen later:
workbooks may have gone or been replaced by something unreadable. `ScoringFails`
is a source cell in a sheet that the workbook does not have, or at an address
that is none, which makes the scorer raise, in the replay as in the live run.
`Interrupt` kills the live run anywhere, in the middle of a write too; a write that
fails in a run that goes on is not modelled, nor is `duration_seconds`, which a
replay sets to 0.

**ExtractService.** The endpoint's one `await` is the read of the upload, so
`CreateTempFile` and `StartExtraction` are separate steps with others between
them, and from `StartExtraction` to `FinishExtraction` the request holds the
event loop (`holder`). A crash loses open requests and the cache and keeps the
files. Temporary names are random; the model lets one come back once its file is
gone, which is when the cache matters.

## 3. Runs

| Run | Instance | Distinct states | Shows |
|---|---|---|---|
| `row_plan` | all valid sheets of 4 rows over 11 kinds, one correction, 4 roles, 2 anchors | 2 988 040 | parenting, grouping, header band, totals; no tier-1 error; a PLI per data row, order |
| `agent_runner` | 2 retries, 3 runs | 14 289 | contract, prompt, report, counters, termination |
| `extraction` | 2 sheets, any selection of up to 2 names, 5 draft plans | 160 012 | outcome counting, order, degradation, reporting, agent budget, termination |
| `service` | 3 uploads, 2 names, 1 crash | 10 140 | serial extraction, own files, staleness, clean-up, answers |
| `pli_values` | 3 labels, 3 cells, 5 names and the two special targets, 8 values of 8 kinds, one fraction coming to 0 | 1 217 170 | which values are lost, confidences, validation, what the verifier misses |
| `sections` | all section sheets and sheets that are one product, of 6 rows over 5 kinds, any labels with values, one correction | 1 270 724 | tier-1 checks, bounds of blocks, labels of the right product, a PLI per anchor or sheet, termination |
| `stage_bands` | sheets of 8 rows and 6 columns: the last 4 over 18 kinds, the first of them without dates, or all over 4 kinds below a tall header; 4 sets of merges, 2 name maps | 2 341 272 | documented layouts found whole, sub-row labels repeated, missing or beyond the sixth row included; a column for one stage; dates of the right product |
| `evaluation` | 2 files, up to 2 PLIs on each side, every kind of metadata, an interruption anywhere | 3 294 372 | pairing, isolation of failures, replay |
| `pli_trace`, `stage_dates`, `extraction_revalidation`, `extraction_isolation` | as above | - | the disagreements of section 6 |

**Why the bounds are enough.** Four rows hold every pattern the scan's state can
tell apart: header, anchor, merged row, then any row that looks back at them;
the properties relate at most three rows, and the proofs cover all lengths. One
correction suffices to reach plans the planner cannot build, and its values
include a role that does not exist and an anchor outside the sheet. A section
sheet needs a header row, two gaps and a second row with a label; six rows leave
room for two products with a gap between, before or after them, or none. Two retries
separate first, middle and last attempts; three runs show what one run leaves to
the next. Two relevant sheets show order, duplicates and a failure after a
success; three labels let a field be read, overwritten and overwritten again, or two
names meet in the promotion; the third request and second name let a temporary name be reused while
another request is in flight. The detector looks two rows up: four rows are a
header, a row of sub-labels and two rows of dates, the second of which is the one
that finds sub-labels where stage names should be. Eight rows are a tall header, the
six rows in which its sub-rows are looked for, and one beyond them. Six columns hold a label, the
sub-row column and two stages with two sub-columns, or three stages and an empty
column. Two files let one fail before or after the other; two PLIs on each side
are what one pairing can take from another, and the proofs cover all numbers.

`CHECK_DEADLOCK FALSE` stands in every configuration because every one of these
systems really stops: a scanned sheet, an applied plan, an ended extraction, an
answered upload, a bounded number of runs, a finished replay.

## 4. Fairness

- `SheetPlan`, `Extraction`: weak fairness of the steps of one synchronous call,
  which nothing can suspend. `RowClassifier`, `PliValues`, `StageBands` and
  `Evaluation` state only safety and assume none.
- `AgentRunner`: the loop proceeds and every request ends, because the SDK has a
  timeout of its own. Beginning a run, and failing to build a prompt, are not fair.
- `ExtractService`: a started extraction ends (`EveryExtractionEnds`), a read
  ends or fails, and the loop wakes every waiting coroutine. Uploads are not fair.

## 5. Theorems

All of them hold for every value of the constants under the modules' named
`ASSUME`s, which type the constants (row kinds are row kinds, bounds are
naturals, `None` is no member of the sets it is added to, `int()` returns
integers) and keep the kinds of values apart (an ordinary text is none of the
cells that `StageBands` gives a meaning; in `PliValues`, blanks and dates are no
numbers, a fraction is no whole number). They exclude no sheet, plan or name map,
and TLC evaluates them in the runs.

| Module | Proved | Argument |
|---|---|---|
| `RowClassifierProofs` | `ScanTypeOK`, `ChildrenBelongToNearestAnchor`, `GroupsAreDistinct`, `HeaderBandPrecedesData` | `ScanInv`: the properties alone are not inductive, since they speak of emitted rows and the next row is parented from memory. The strengthening says the memory is right: `lastAnchor` is the last ANCHOR emitted and `lastGroup` its group, `firstDataRow` is set exactly when an ANCHOR was, row `i` of the list has index `i`, and every group given is below `nextGroup`. |
| | `TotalsAddUp` | `TotalsInv` says that what `recent_qtys` adds up to, over all of it and over the last group, is the sum over the data rows so far (`SumsKept`), and that no data row has a later group than the last (`GroupsKept`). `Total` is a recursive function of the prefixes of a sequence; the lemmas say that it is a number, that an element more adds its value and that sequences which agree sum alike. Each is shown by taking the shortest prefix where it fails (`WellFoundedInduction`), since no prover here can instantiate an induction rule. |
| `SheetPlanProofs` | `TypeOK`, `PlanPasses`, `EachDataRowOnePli`, `PlisFollowHeaders`, `BlocksAreSections`, `LabelsBelongToNearestAnchor`, the safety half of `EveryAnchorEmitted` | `SheetInv` joins the scan's invariant with that of the plan's rows, of the blocks cut so far and of the PLIs emitted so far. Rows: the title-row correction turns the row after the last header and the rows parented to it into headers at once, so no reference is left dangling; until a correction, groups grow with the rows, so the order of the groups is that of the sheet. The header band has a gap only where the title-row correction left rows of other roles in it, none of them a product. Blocks: an ANCHOR row has an identity text, so no gap starts in one, and a block cannot reach past the next anchor or the next gap, since above any empty row below the anchor a gap starts and would have clipped it; blocks are therefore apart, and they are the plan's only channel. PLIs: the entries of `groups` partition the data rows met so far, each under its own key (`GroupRow` puts a row in one entry, old or new), and what is emitted is what lies before the cursor, in sheet order as long as groups grow; or they are the first blocks. |
| | `ScanSpec` | `PlannerKeepsScan`: each step of the planner is a step of the scan or leaves it alone, so the planner implements the scan and inherits its theorems. |
| `ExtractionProofs` | `TypeOK`, `OneOutcomeCounted`, `ResultCoversSheetsInOrder`, `DegradesToPlanner`, `HintedFindingsReported`, `CallBudget` | `ExtractionInv` adds what the loop has done by its position: the PLIs collected come from positions up to the present one in order, one plan was applied for each earlier sheet, nothing is counted before the end, and as long as every answer was a failure the present plan and all applied ones are the planner's. The warnings about plans are those of the hinted plans of earlier sheets, those of the present sheet waiting in `warns`. `BudgetInv` says of each phase which agents have been asked about the sheet at hand, once each, and that none was asked about a later one. |
| `AgentRunnerProofs` | `TypeOK`, `PromptCarriesEachError`, `FailureReportsLastAttempt`, `CountersReconcile`, `KeepsContract` | `RunnerInv` adds that a run in progress has received as many answers as it made attempts, and that the prompt already holds one message per invalid answer while an attempt is left. The refinement maps each action to an action of `AgentContract` or a stutter. |
| `ExtractServiceProofs` | `TypeOK`, `ExtractionsAreSerial`, `TempFilesAreOwn`, `StaleOnlyOnNameReuse`, `NoFileLeftBehind` | `ServiceInv` adds that a file in use is on disk under its request's name, and that whatever is cached was loaded by a request of this process under that path. |
| `PliValuesProofs` | `TypeOK`, `LossesAreKnown`, `ConfidenceFollowsAddress`, `OnlyDatesAreRejected`, `VerifierErrsOnZerosAndDates` | `ValuesInv` adds that, until the PLI is emitted, the value at a name's address is held under that very name, as the field or as metadata, up to `int()`; that only filled cells are recorded; that int fields hold integers; and that what went to the metadata of a field is what the field could not take. The promotion then moves the one value whose name has no field, and the end overwrites two. |
| `StageBandsProofs` | `TypeOK`, `EachColumnOneStage`, `WideLayoutFound`, `TallLayoutFound`, `ProductsReadTheirDates` | `BandsInv` types the bands and tells the columns of each apart: a sub-column's owner is the nearest stage on its left, by the choice of the greatest, so no stage lies between. `LayoutInv` says row by row, for a header row `h` of a documented layout, what the scan has found: no band up to the first row of dates, and from there the one band, which every later row of dates is recognised as, whichever dates it has. For that the proof follows each way the detector may look up from a row: it finds `h` itself, or the sub-labels below it (`SubLabelledSheet`), and meets the title cell of `h` either way. `ReadInv` says that the stages read of a product row are those of that band in that row. |
| `EvaluationProofs` | `TypeOK`, `PairingIsComplete`, `StrongestFirst`, `FailuresStayInTheirFile`, `ReplayScoresLikeLive` | `EvaluationInv` ties the loop to its file (what is scored live was just archived, what is replayed is the archived output), and says of each row of either run that its pairs are those `Matched` gives for the labels and the output of its file, and its cells those that match. Two runs over one output then have one row. A chosen candidate stays the strongest because `Consumed` only grows. |

Every safety invariant of a passing run is stated by a theorem. Only
model-checked are the temporal properties that need fairness, which no prover
here handles: `EveryRunEnds`, `EveryExtractionEnds`, `EveryUploadAnswered` and
the liveness half of `EveryAnchorEmitted`. The refuted statements of section 6
rest on TLC's counterexamples.

What the proof attempts taught about the models:

- two equal sub-labels under one stage of a wide sheet lose the first column,
  since `_collect_sub_columns` keeps a dictionary by label. The instance then
  checked was too narrow to show it; `SubLabelledSheet` now says that no
  sub-label occurs twice for a stage, and TLC's rows have three under one;
- in the row below a plain wide header, a sub-label beside the dates makes the
  nearest stage one with sub-columns, and the detector then drops the others:
  `WideSheet` asks that there is none.

## 6. Where the code and its documents disagree

Each is a run of its own, whose only property is the documented statement and
which TLC refutes with the code's behaviour.

1. `extraction_revalidation`: after `needs_fix` "validation reruns"
   (`ARCHITECTURE.md` line 434); the code applies the corrected plan unseen.
2. `extraction_isolation`: "per-sheet failures are isolated" (`extraction.py`
   line 8); an exception in one sheet discards the PLIs of all.
3. `pli_trace`: "every extracted value carries the A1 address it was read from"
   (`README.md` line 16); a promoted `io_number` does not, and a field whose name
   a later, uncoercible label shares carries that label's address.
4. `stage_dates`: the detector "accepts both native Excel date/datetime cells and
   string-formatted dates" (`stage_band_detector.py` line 56), and models parse
   such texts (`extraction.py` line 5); the applier sets `planned_date` from
   native dates only, so these stages lose their dates.

More were met while modelling and have no run of their own:

- a CHILD needs only a merged region with a value, not one "whose anchor has
  identity" (`row_classifier.py` lines 8 and 114), so a row under a merged title
  joins the last product;
- the service calls itself stateless (`README.md` line 22) while every workbook
  ever uploaded stays in `_CACHE`;
- the last block of a section sheet with no gap below it is cut to its anchor row
  (`block_segmenter.py` line 50), though "each block is bounded by blank-run gaps"
  (line 3): the exception in `BlocksAreSections`;
- cells are to be copied verbatim (`docs/PRINCIPLES.md` line 9), but of the quantity
  12.5 only 12 is kept (`apply_plan.py` line 108): one of the losses of `LossesAreKnown`;
- the verifier checks that a cell "still holds the extracted value"
  (`source_cell_verifier.py` lines 1-2), but a quantity of 0, such as 0.5 is cut to,
  counts as missing and is compared with nothing (line 45): the exception in
  `VerifierErrsOnZerosAndDates`;
- `SourceCellVerifier` compares printed forms, and a date never prints like the
  datetime it was read from: every such delivery date is reported as a mismatch;
- the title-row correction may leave header rows that are not contiguous, which
  tier 1 reports as a warning of the planner's own plan: the exception in
  `PlanPasses`;
- a label the name map calls `stages` or `source` is read, traced and rated, and
  its value is then overwritten; a date field of blanks becomes empty: with the
  fractions, the three losses of `LossesAreKnown`;
- a sub-label that the field namer calls `planned_date`, as its prompt allows,
  makes `Stage(...)` raise (`StageRaises`), and the extraction with it;
- two columns of a band with one name, or two sub-columns of a stage with one
  label: the first is lost; the six rows in which
  sub-rows are looked for may reach into the next band;
- greedy pairing may give an exact twin to an earlier, weaker label; the recall
  stays the same, field scores may not;
- metadata that are times or have fractions of a second score differently in a
  replay, contrary to `source_cell_match.py` lines 15-19: the exception in
  `ReplayScoresLikeLive`; run directories are named by the second, so two runs
  within one share theirs; and a file whose extraction failed counts as zero in
  the live run and is not in the replay.

## 7. Not modelled, and the plan

What could still be added, in this order:

1. Which stage bands join the blocks of `SheetPlan`, so that their stages are
   read for the right product there too.
2. `_decide_pli_mode` and `detect_kv_anchors` over sheets of cells, against
   reference definitions; the header labels left beside the stage columns.
3. The tier-2 statistics, so that severities in `Extraction` follow from plans.
4. An abstract specification of a sheet's life (products in sheet order, none
   lost) that `SheetPlan` implements in each mode, and one of the service that
   `ExtractService` implements.
5. The confidence formula of the reconciler, with the bound `ExtractResponse`
   puts on it.

Of `PliValues`: the text `0`, which a string field keeps, and ISO dates written as
text (which print like the field). Of `StageBands`: texts that differ only in case or blanks. Of the applier: multi-row
PLIs, to which no plan of this planner leads.

Left out for good: prompt texts, schema flattening, token counts, spans and
exporters, settings and loaders, the health endpoint and request ids, the
read-only workbook tools, deployment and data: I/O and formatting without state
of their own.
