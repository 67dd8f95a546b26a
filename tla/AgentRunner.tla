----------------------------- MODULE AgentRunner -----------------------------
(***************************************************************************)
(* AgentRunner.run of app/services/agents/_base.py around                  *)
(* AnthropicProvider.complete_with_schema (llm_provider.py): the retry     *)
(* loop of one agent, over the runs an extraction makes of it one after    *)
(* another, with the prompt it builds up and the counters it leaves in     *)
(* the telemetry.  The Anthropic service is external: it answers each      *)
(* request with a valid tool call, an invalid one, no tool call, or an     *)
(* error.                                                                  *)
(***************************************************************************)
EXTENDS Naturals, Sequences, FiniteSets

CONSTANTS
  MaxRetries,  \* RetryPolicy.max_retries
  MaxRuns,     \* bound on the runs of the agent
  None         \* Python's None

ASSUME RetriesAssumption == MaxRetries \in Nat
ASSUME RunsAssumption == MaxRuns \in Nat

Errors == {"validation", "other"}
Outcome == [kind: {"result", "raised"}]
           \cup [kind: {"failure"}, attemptCount: Nat, finalError: Errors]
ASSUME NoneAssumption == None \notin Errors \cup Outcome

VARIABLES
  pc,         \* "idle", "loop" (while condition) or "request" (in flight)
  attempt,    \* attempt
  errorsIn,   \* validation errors appended to the user prompt
  lastError,  \* last_error: None, "validation" or "other"
  outcome,    \* what the last run ended with
  answers,    \* the answers the current run received (history)
  runs,       \* runs begun (history)
  raised,     \* runs that raised (history)
  requests,   \* requests sent to the service over all runs (history)
  counts      \* the telemetry counters

vars == <<pc, attempt, errorsIn, lastError, outcome, answers, runs, raised, requests, counts>>

Counters == {"llm_success", "llm_failure", "agent_success", "agent_failure", "agent_retry"}

Init ==
  /\ pc = "idle" /\ attempt = 0 /\ errorsIn = 0 /\ lastError = None
  /\ outcome = None
  /\ answers = <<>> /\ runs = 0 /\ raised = 0 /\ requests = 0
  /\ counts = [c \in Counters |-> 0]

-----------------------------------------------------------------------------
Bump(cs) == counts' = [c \in Counters |-> IF c \in cs THEN counts[c] + 1 ELSE counts[c]]
Ends(o) == pc' = "idle" /\ outcome' = o

\* Mutant of BeginRun: the prompt of the previous run is built on.
BeginRunOnOldPrompt ==
  /\ pc = "idle" /\ runs < MaxRuns
  /\ pc' = "loop" /\ attempt' = 0 /\ lastError' = None
  /\ outcome' = None /\ answers' = <<>> /\ runs' = runs + 1
  /\ UNCHANGED <<errorsIn, raised, requests, counts>>

\* The spec's build_user_input runs before the loop, outside its try.
BeginRun ==
  /\ pc = "idle" /\ runs < MaxRuns
  /\ pc' = "loop" /\ attempt' = 0 /\ errorsIn' = 0 /\ lastError' = None
  /\ outcome' = None /\ answers' = <<>> /\ runs' = runs + 1
  /\ UNCHANGED <<raised, requests, counts>>

BuildInputRaises ==
  /\ pc = "loop" /\ attempt = 0
  /\ Ends([kind |-> "raised"])
  /\ raised' = raised + 1
  /\ UNCHANGED <<attempt, errorsIn, lastError, answers, runs, requests, counts>>

\* Mutant of RetriesLeft: max_retries taken for a number of attempts.
AttemptsLeft == attempt < MaxRetries

\* The while condition, negated the handlers' "if attempt > max_retries: break".
RetriesLeft == attempt <= MaxRetries

SendRequest ==
  /\ pc = "loop" /\ RetriesLeft
  /\ pc' = "request"
  /\ attempt' = attempt + 1
  /\ requests' = requests + 1
  /\ UNCHANGED <<errorsIn, lastError, outcome, answers, runs, raised, counts>>

ValidAnswer ==
  /\ pc = "request"
  /\ answers' = Append(answers, "valid")
  /\ Bump({"llm_success", "agent_success"})
  /\ Ends([kind |-> "result"])
  /\ UNCHANGED <<attempt, errorsIn, lastError, runs, raised, requests>>

\* Mutants of Fails: the first error is kept; every failed attempt is counted
\* as a failed run.
FailsKeepingError(answer, error, bumped) ==
  /\ pc = "request" /\ pc' = "loop"
  /\ answers' = Append(answers, answer)
  /\ lastError' = IF lastError = None THEN error ELSE lastError
  /\ Bump(bumped)
  /\ UNCHANGED <<attempt, outcome, runs, raised, requests>>
FailsCountingRuns(answer, error, bumped) ==
  /\ pc = "request" /\ pc' = "loop"
  /\ answers' = Append(answers, answer)
  /\ lastError' = error
  /\ Bump(bumped \cup {"agent_failure"})
  /\ UNCHANGED <<attempt, outcome, runs, raised, requests>>

\* A failed attempt: the handler keeps the error and the loop goes on.
Fails(answer, error, bumped) ==
  /\ pc = "request" /\ pc' = "loop"
  /\ answers' = Append(answers, answer)
  /\ lastError' = error
  /\ Bump(bumped)
  /\ UNCHANGED <<attempt, outcome, runs, raised, requests>>

\* except ValidationError: the error goes into the next prompt, if there is one.
InvalidAnswer ==
  /\ Fails("invalid", "validation", {"llm_success", "agent_retry"})
  /\ errorsIn' = IF RetriesLeft THEN errorsIn + 1 ELSE errorsIn

\* except Exception: no tool_use block in the answer, or the SDK call raised.
NoToolCall == Fails("no_tool_call", "other", {"llm_success"}) /\ UNCHANGED errorsIn
SdkError   == Fails("sdk_error", "other", {"llm_failure"}) /\ UNCHANGED errorsIn

\* Mutant of RecordRunFailure: only schema failures are reported.
RecordSchemaFailure ==
  /\ pc = "loop" /\ ~RetriesLeft /\ lastError = "validation"
  /\ Bump({"agent_failure"})
  /\ Ends([kind |-> "failure", attemptCount |-> attempt, finalError |-> lastError])
  /\ UNCHANGED <<attempt, errorsIn, lastError, answers, runs, raised, requests>>

\* The loop is left without a result.
RecordRunFailure ==
  /\ pc = "loop" /\ ~RetriesLeft
  /\ Bump({"agent_failure"})
  /\ Ends([kind |-> "failure", attemptCount |-> attempt, finalError |-> lastError])
  /\ UNCHANGED <<attempt, errorsIn, lastError, answers, runs, raised, requests>>

Answered == ValidAnswer \/ InvalidAnswer \/ NoToolCall \/ SdkError
LoopStep == SendRequest \/ RecordRunFailure
Next == BeginRun \/ BuildInputRaises \/ LoopStep \/ Answered

\* The loop always proceeds, and the SDK's own timeout ends every request.
Spec == Init /\ [][Next]_vars /\ WF_vars(LoopStep) /\ WF_vars(Answered)

-----------------------------------------------------------------------------
TypeOK ==
  /\ pc \in {"idle", "loop", "request"}
  /\ attempt \in 0 .. MaxRetries + 1
  /\ errorsIn \in Nat
  /\ lastError \in Errors \cup {None}
  /\ outcome \in Outcome \cup {None}
  /\ answers \in Seq({"valid", "invalid", "no_tool_call", "sdk_error"})
  /\ runs \in 0 .. MaxRuns
  /\ raised \in Nat
  /\ requests \in Nat
  /\ counts \in [Counters -> Nat]

\* The runner keeps its contract with the orchestrator: never more requests
\* than allowed, and a failure only after all of them (AgentRunner.run, 74-94).
Promise == INSTANCE AgentContract WITH
  running <- pc # "idle",
  asked <- attempt,
  ending <- IF outcome = None THEN None ELSE outcome.kind
KeepsContract == Promise!Contract

\* The prompt of a request carries one error message for each invalid answer of this
\* run and none from other failures or from earlier runs (lines 66, 87).
InvalidAnswers == Cardinality({k \in DOMAIN answers : answers[k] = "invalid"})
PromptCarriesEachError == pc = "request" => errorsIn = InvalidAnswers

\* An AgentRunFailure reports the attempts really made and the error of the
\* last one (lines 94, 133-137).
FailureReportsLastAttempt ==
  outcome # None /\ outcome.kind = "failure" =>
    /\ outcome.attemptCount = Len(answers)
    /\ (outcome.finalError = "validation") <=> (answers[Len(answers)] = "invalid")

\* The counters add up over all runs: each request is one llm_calls_total, and
\* each run that does not raise is one agent_calls_total, once it has ended.
CountersReconcile ==
  /\ counts["llm_success"] + counts["llm_failure"] + (IF pc = "request" THEN 1 ELSE 0)
       = requests
  /\ counts["agent_success"] + counts["agent_failure"] + raised + (IF pc = "idle" THEN 0 ELSE 1)
       = runs

\* Every run ends, however the service answers.
EveryRunEnds == pc # "idle" ~> pc = "idle"
=============================================================================
