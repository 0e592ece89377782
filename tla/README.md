# A verification development of Effect Probe

Effect Probe runs a piece of code that causes side effects (a *subject*) in worlds of
its own, loses the first result of the subject at the provider boundary, lets it retry,
and concludes from what it observes whether the retry was safe. It is itself a program
that orders effects, recovers from failures and publishes results, so it can be wrong in
the ways it looks for in others. This directory holds TLA+ modules of it, TLC runs that
check them on small instances, and TLAPS proofs, for every instance, of all their safety
properties and refinements. Paths below are relative to the repository; `K` stands for
`src/effectprobe/_semantic_kernel.py`.

## 1. The system

### Parts, state and operations

| Part (source) | State | Operations | Uses |
|---|---|---|---|
| Lost-result schedule (`_lost_result.py`) | armed fault, reached attempts, undelivered result, three observations | `run_commit_then_lose_first_provider_result`, the controller's `deliver` | the subject and the observer, as callbacks |
| Trial and world session (`K` 192-262, 469-651) | stage, errors, results, cleanup status | `_run_clean`, `_run_perturbed`, `WorldSession.__enter__/__exit__` | the schedule; the case's callbacks |
| Case evaluation (`K` 264-466, 654-839) | trial pairs, the two axes | `evaluate_case`, `_resolve_candidates`, `_aggregate`, contract evaluation | trials |
| In-memory refund case (`_refund_comparison.py`) | provider ledger | `FakeRefundProvider.refund`, two subjects | kernel, as a case |
| File-journal refund case (`_file_refund_comparison.py`) | a directory with a JSON-lines journal | `FileRefundProvider.refund` with its append, `read_file_refund_journal`, `FileRefundObserver.observe`, two subjects, `provision`, `cleanup` | kernel, as a case |
| SQLite store (`_mcp_refund_store.py`) | payments, events, receipts, deliveries | `commit_refund`, `observe_refunds`, `read_mcp_deliveries` | SQLite |
| MCP server (`_mcp_refund_server.py`) | a process with a mode | the refund tool and its fault variants | store; stdio |
| MCP client session (`_mcp_stdio.py`) | process, session, timeouts | `preflight_mcp_tool`, enter with rollback, `validate_capabilities`, `call_tool`, exit | server process |
| MCP refund case (`_mcp_refund_comparison.py`) | world record, exit stack | `provision`, `invoke`, `observe`, `cleanup`, the two contracts | client, store, kernel |
| Artifact files (`_evidence_artifact.py`) | files in a directory | `write_evidence_artifact`, reading, compatibility | file system |
| Capture and replay (`_mcp_evidence_replay.py`) | artifacts with lineage | record, capture, replay | MCP case, artifact files |
| Reports (`_mcp_reports.py`) | none | eligibility, terminal/JSON/JUnit rendering | artifact files |
| Command line (`_cli.py`) | command, exit status | `run`, `report`, `replay`, `_write_report` | all of the above |

What makes each of them correct, in the order of the table: the loss is injected once and
the evidence says when; a world is cleaned up once and no failure hides another; a FAIL is
reproduced and a PASS stands on evidence; (both file-like stores and the fixture) one
refund per key and no receipt without a refund; a session leaves no process behind and
passes only a tool with the registered schemas; the two subjects are told apart; a file is
whole and success is for good; what is captured is what was concluded, and what a report
accepts is what a trial recorded; an exit status of 0 is true.

A command preflights its destinations, evaluates a case (or reads a source and replays
it), captures the evaluation as an artifact, publishes that, reads it back, builds a
report and publishes or prints it. An evaluation runs a *pair* of trials, clean and
perturbed, and two more pairs if the first one contradicts a retry invariant. A trial
provisions a world, observes it, invokes the subject through the schedule, observes
again and cleans up. In the MCP case the subject is a call of a tool in a server process
that commits to a SQLite database the harness observes on the side.

### What is hard about it

* **Callbacks that misbehave.** The subject holds the delivery callback and may call it
  late, twice or never, and may swallow or replay the private loss signal.
* **Failures at every statement, of several at once.** Body and cleanup, provisioning
  and rollback may both fail; neither failure may hide the other, and a world is cleaned
  up once. `KeyboardInterrupt` is no `Exception` and passes most handlers.
* **Two processes and a timeout.** A server that the client gave up on may still commit,
  between two `SELECT`s of an observation that is no transaction. It may hang or exit in
  discovery, in a call, or while its client is being closed.
* **Torn appends.** A write takes a part of a record and the next one fails; a caller may
  catch the error and refund again.
* **Verdict policy.** A contradiction must be confirmed, an error must stay on its axis
  and still not vanish, a PASS must stand on evidence.
* **Files shared with others.** Destinations are checked minutes before they are used;
  power failures keep any subset of what was not synced.

`PROJECT.json` lists these hazards one by one (38), each at its line with the
properties that would catch it.

## 2. Modules

```
  implements (INSTANCE, the abstract specification is a PROPERTY of a run)
    LostResult     ==> OneLoss
    Trial          ==> TrialContract
    McpRefundWorld ==> RefundLedger
    FileJournal    ==> RefundLedger
    FileRefundWorld ==> FileJournal, RefundLedger
    Publication    ==> ExclusiveFiles

  is built from (takes the steps or the operators of)
    Trial           --> LostResult, TrialOutcomes
    FileRefundWorld --> FileJournal, LostResult
    McpRefundWorld  --> McpSession, LostResult, ReportableTrial
    Capture         --> Evaluation --> TrialOutcomes --> Verdicts
    TrialContract   --> TrialOutcomes
    Commands        --> ExclusiveFiles

  is proved about (EXTENDS the module on the right)
    LostResultProofs, PublicationProofs, FileJournalProofs, McpRefundWorldProofs,
    CommandsProofs        --> the module of that name
    TrialProofs           --> Trial; takes the lemmas of LostResultProofs
    EvaluationProofs      --> Capture, and so Evaluation
    FileRefundWorldProofs --> FileRefundWorld, FileJournalProofs
```

| Module | Lines modelled | State and actions |
|---|---|---|
| `LostResult` | `_lost_result.py` | `schedule` is the statement the function stands at; `reached`, `injected`, `undelivered` are the controller's fields; `baseline`, `afterLost`, `final`, `subjectResult` the local variables. `Deliver(a, r)` is a call of attempt `a`'s callback; `CatchLoss`, `RaiseHeldLoss`, `SubjectRaises`, `FirstReturns`, `SecondReturns`, `LossPropagates` are what a Python callable may do about the loss. |
| `OneLoss` | the same promise, abstract | one fault, in attempt 1; one retry, after it; an outcome that says what happened |
| `Trial` | `_run_clean`, `_run_perturbed`, `WorldSession` | `stage` is the local of that name, `step` says whether control is in the body, a rollback or an exit; `raised` is the exception under way. Every stage has its success and its failure; the perturbed stage `lost_result_schedule` takes the steps of `LostResult`. |
| `TrialOutcomes`, `TrialContract` | the values a trial may return | the interface between `Trial` and `Evaluation` |
| `Verdicts` | contract evaluation, resolution, aggregation | operators only |
| `Evaluation` | `evaluate_case`, `_run_pair` | `pairs` is `pairs`; `RunClean(o)`, `RunPerturbed(o)` take any outcome `TrialOutcomes` allows; `Conclude` draws both axes |
| `RefundLedger` | `FakeRefundProvider.refund` | append-only history, one refund per key, receipts of committed refunds only |
| `FileJournal` | `refund()`, the strict reader, the observer | the file is its `lines` and the length of an unfinished `tail`; `Write(n)` is an `os.write` that takes n pieces of what is `pending`; `RefundRaises` is any error or interrupt, after which the file stays as it is; `Readable` is `read_file_refund_journal` |
| `FileRefundWorld` | the file-journal case | one perturbed trial of a case with input `amount` and `key`: `world` and `directory` from provisioning to cleanup, the subjects' calls of the provider in the steps of `LostResult`, `corrupt_journal_trials` |
| `McpSession` | `McpStdioToolClient`, the server's variants | `stack` is the `ExitStack` of `__enter__`; discovery, schema validation, rollback and exit, with interrupts between any two of them |
| `McpRefundWorld` | MCP case, client, server, store | the preflight session, then the world; the server's transaction statement by statement in `txn`, committed to `db`; `wire` holds the one request or reply under way; the client's call, the observer's three `SELECT`s (`reads`, `seen`), the exit stack (`resources`) |
| `ReportableTrial` | `_validate_pair` and its helpers, `_mcp_reports.py` | operators: what a report requires of the evidence inside a trial |
| `Capture` | `capture_mcp_evidence`, `_build_report` | operators over the state of `Evaluation`: which evaluations are captured and which captures are reported, beside the world records the tracker kept |
| `ExclusiveFiles` | the promise of publication | a path gets a whole file once; a power failure may take it back until success was reported |
| `Publication` | `write_evidence_artifact`, `_write_report` | each `step` of a writer is a system call; `directory`/`content` are what processes see, `diskDirectory`/`diskContent` what a power failure leaves; `WriteBack` writes back in any order |
| `Commands` | `_cli.py`, recording, capture, replay, report acceptance | `control` of each process is the statement it stands at or its exit; files through `ExclusiveFiles`, publishing and reporting being two steps |

`Trial` may end only as `TrialContract` says and `Evaluation` assumes no more than
`TrialOutcomes` of its trials; `FileRefundWorld` does to its journal only what
`FileJournal` lets any caller do; `Publication` keeps `ExclusiveFiles` and `Commands` uses
no more than it. So each half is checked against what the other half relies on, and the
product, which TLC could not explore, is never built.

The operators introduced with "Slip" are plausible mistakes in the code next to the
definition they would replace (a dropped guard, a missing sync, a number counted from
zero). No specification uses them: substituting one for its neighbour breaks the property
that is there to prevent it, which is how each property was seen to have teeth.

### What the models leave out

* A `_ProviderResultLost` that the subject kept from an earlier trial: `LostResult` starts
  with nothing held, while the runner (`_lost_result.py:225`) would take such a loss for
  its own, without asking `controller.injected`. No subject of the repository keeps one.
* `Publication` lets a report's writer fail at `lstat`, which only an artifact's does:
  there the failure stands for one of `mkstemp`, with the same effect.
* In `Commands` a path named `-` for an artifact (`_cli.py:160-162`) is no case of its own:
  it would end the command with the category of a destination in use, before anything
  was done.
* Text: identities, diagnostics, JSON and XML are values or are absent. Attempt and
  trial identities are the numbers the code derives them from.
* `Verdicts` takes a contract's `evaluate()` as its decision, and the two dimensions of a
  requirement as its kind and whether its surface is the covered one.
* A record of the journal is its fields and a length in pieces; that its text decodes to
  these fields is assumed. A line which is no record is one value, `Garbage`.
* The schemas a server lists are their required fields and types. The MCP protocol is one
  request, one reply or one error on the wire.
* Contract names are distinct. The code looks confirmations up by name
  (`K:737`) and does not forbid equal ones; no case of the repository has them.
* In `McpRefundWorld` and `FileRefundWorld` an interrupt arrives while the world is open,
  in the former also in preflight, in provisioning and in the client's exit; an interrupt
  of the body's other statements and of the rest of the cleanup is `Trial`'s. One perturbed world is modelled; the clean trial of the same subject is
  the first attempt of it, which is what `Delta` compares with.
* In `Publication` a power failure leaves the temporary name as it was: no promise is
  about it.
* In `Commands` an evaluation is the evidence it may be captured as, and the rules by
  which a report accepts evidence are the constant `Eligible`; `Capture` and
  `ReportableTrial` spell these rules out against the evaluation and the trial they are
  about. Reading a file is one step.

## 3. Runs

| Run | Instance | Distinct states | What it shows |
|---|---|---|---|
| `lost_result` | 2 observations, 2 payloads, 3 crossings | 1,613 | whatever the subject does, outcome and evidence agree; the recorded fault is never rewritten; no retry without a loss; implements `OneLoss`; ends |
| `trial` | 1 assertion, 2 invariants, 4 observations, 2 crossings | 124,640 | one cleanup unless an interrupt meets it, no failure masked, no decision without its evidence, only outcomes of `TrialContract`; ends |
| `evaluation_one` | 1 assertion, 1 invariant, all 8 coverages | 451 k | what a PASS stands on, which errors reach which axis, pairs are only added; what is captured and reported of it; ends |
| `evaluation_two` | 2 invariants that share their confirmations | 408 k | FAIL exactly when confirmed; a candidate is always settled and never passes |
| `mcp_refund_world` | payment 2, refunds of 0 to 3, both subjects, 12 server variants | 82,494 | a world only after a preflight that passed; observations are consistent beside a live server, receipts have effects, the subjects are told apart, a report accepts what was recorded, the server never outlives its database unless that is reported; implements `RefundLedger`; the world is closed |
| `file_refund_world` | payment 3, refunds of 0 to 2, 2 keys, 2 pieces a record, 3 calls | 663,820 | a torn or oversized journal stays refused and a whole one never is, receipts have records, the subjects are told apart; implements `FileJournal` and `RefundLedger`; the world is closed |
| `publication` | 2 writers, 2 paths, other programs | 262,844 | files are whole, success is exclusive and durable; implements `ExclusiveFiles` |
| `commands` | 2 commands of any kind, 3 paths, other programs | 1,458,788 | status 0 is true, reports are about the right evidence, lineage is true and has no circle |
| `evaluation_unreached`, `trial_interrupt`, `trial_rollback`, `commands_axes` | as above | - | violated: see section 5 |

**Bounds, and why they suffice.**
`CrossingBound` caps the calls of the delivery callbacks: only the first one ever acts,
so the third is already like the second, and two suffice inside a trial; the proofs are
for any bound. `MCWorld` has one observation per answer of the two questions a trial asks
(does the state differ, does the history grow), among them a history that is truncated
and grown back. The confirmation policy is per invariant except for the errors of a pair,
so two invariants meet every interaction. A payment of 2 with refunds of 0, 1, 2, 3 has a
refund that is invalid, one that may be repeated exactly to the limit, one whose
repetition is refused, and one that is refused at once. `Configurations` gives preflight
and world the same server variant, or a normal server to preflight and a faulty one to the
world: any other pair ends in preflight like the first. In the journal's world
`RecordSize = 2` lets an append be whole in one write, whole in two, or torn between them;
`MaxSize = 4` is two records, so that the third one outgrows it; three calls (`CallBound`)
are an attempt that fails, one that repeats and one after the loss; two keys are the
case's own and the other one that a subject may make up. Nothing changes with
more pieces or calls, and the proofs are for any number of them. Two writers or commands meet in
one destination; a third would meet the same file. Three paths are what a replay needs
for its source, artifact and report. `TypeOK` of every module says what its variables
are; runs check it of `LostResult` and `Evaluation`, and it is proved of these and of
`Publication`, `FileJournal`, `Trial`, `McpRefundWorld` and `Commands`.

**Symmetry** is declared only where no liveness property is checked and no `CHOOSE` or
order is used: the two invariants of `evaluation_two`, the processes and the paths of
`commands`.

**Deadlock.** `CHECK_DEADLOCK FALSE` everywhere, because every model is of something
that ends: a schedule, a trial, a command. That it does not stop before its end is what
`ScheduleEnds`, `TrialEnds`, `EvaluationEnds` and `WorldIsClosed` say. `Publication` and
`Commands` have no liveness property: a command may be killed anywhere.

**Fairness.** Schedule, trial and evaluation are sequential Python: each takes its next
statement, hence weak fairness of the statements. That an invocation of the subject ends
is an assumption about the subject (`WF_vars(InvocationEnds)`), made in `lost_result` and
`trial` only; nothing is assumed about how it ends, nor that it crosses the boundary.
`mcp_refund_world` does without: the harness' read timeout ends a call and a discovery,
so only the harness is fair (`WF_vars(Harness)`), and the server may hang for ever, or
exit. `file_refund_world` is one thread, of which `Harness` is the next statement; an
interrupt is never assumed to come or not to come.

## 4. Proofs

TLAPS checks 41 theorems in eight modules, for every value of the constants. They state
every safety invariant, action property and refinement that a passing run checks.

In each module one step or lemma per action shows that an inductive invariant is
preserved, and the temporal theorems combine those by `PTL`. Each of these invariants was
checked as a TLC invariant, over the states of the run, before it was proved. What they
add to the properties is what is interesting about them:

* **`LostResultProofs`** assumes `LostResultAssumption` (`None` is no observation, result
  or attempt number; the bound is a number). That a second invocation has its loss behind
  it needs to know what the controller holds at *every* statement. `ScheduleInv` says
  this: what `injected` and the head of `reached` are (the fault is the first crossing),
  that a signal or a held signal means a fired fault, and which observation exists from
  which statement on. From it follow `OutcomeIsTrue`, `RetryFollowsLoss`,
  `EvidenceNeverRewritten` and `ImplementsOneLoss`.
* **`TrialProofs`** assumes `TrialAssumption` (the same of worlds and results).
  `ScheduleIsInStep` is `ScheduleInv` of the schedule inside of the trial, whose steps are
  covered by the lemmas of `LostResultProofs`, and relates the two programs: at which
  stage the schedule has not begun, or completed. `BeforeCleanup` says that no cleanup
  happened, and that there are no errors or results, until control reaches an exit or a
  rollback; `AtTheEnd` lists the four ways in which a trial ends (evaluated, invalid,
  unreached, loss swallowed). With these, `WorldIsCleanedUpOnce`, `NothingMasked` and
  `DecisionsHaveEvidence` are a matter of four cases, and `ImplementsTrialContract` one
  step: every ending is an outcome that `TrialOutcomes` has, with the errors, the cleanup
  status and the evidence that belong together.
* **`EvaluationProofs`** assumes `VerdictsAssumption` and `EvaluationAssumption`.
  `EvaluationInv` has a `PairOK` for every pair begun (its results come from its trials'
  outcomes under the declared coverage, and an error verdict or a failed cleanup has an
  entry in its errors) and `PairsComplete` (which pairs have both trials at which
  statement). Lemmas about `Verdicts` (what a contract evaluates to, what resolving a
  candidate yields, when `_aggregate` answers PASS, ERROR, UNVERIFIED) carry it to the
  axes: `FailureIsConfirmed`, `ContradictionIsNotForgotten`, `PassStandsOnEvidence`,
  `AxesAreSeparate`. `EvidenceIsOnlyAdded` is the action property `PairsOnlyAdded`.
  `CapturesAreFaithful` is about what capture and report make of a conclusion.
  `CaptureInv` adds how the results of a pair are explained and which of its trials have
  evidence: an evaluation without evidence can only be told from a decided one by its
  explanations. The theorem is for cases with one retry invariant, as the MCP case is,
  whose artifacts are the only ones that are captured: a report expects every retry
  invariant to FAIL in unsafe mode, and of several one may fail alone.
* **`McpRefundWorldProofs`** assumes `McpRefundAssumption` (amounts and payment are
  naturals, `None` is none of the values). `TrialInv` says in nine parts what client,
  server, store and observer know of each other. `TransactionInv`: what the open
  transaction holds at each statement of the server, and that one which inserts stays
  within the payment. `StoreInv`: the database is as before or as after the one attempt
  under way, and what is on the wire tells which. `EvidenceInv` and `ScheduleInv`: what
  was delivered and observed is the attempt's own receipt and those refunds, and between
  attempts client and server are quiet. `ObserverInv`: what the `SELECT`s so far returned
  is what the database still holds. That is the heart of it: an observation begins before
  the first call or after a reply, and a trial whose call ended without one observes no
  more, so no server that could still commit is ever beside an observation. `DeliveriesInv`, `SessionInv`, `PreflightInv` and `WorldInv` do
  the same for the delivery rows, for the client's exit stack, for what the preflight let
  through and for the order in which a world is taken down. Theorems:
  `ObservationsSnapshot`, `ReceiptsAreOfCommits`, `SubjectsToldApart`,
  `DatabaseOutlivesServer`, `PreflightComesFirst`, `CleanTrialsAreReportable`, and
  `ImplementsLedger`, in which `COMMIT` is the ledger's step and every other one stutters.
* **`FileJournalProofs`** assumes `FileJournalAssumption` (amounts are naturals, `None`
  is no key, a record has at least one piece). What the strict reader sees does not say
  why an append is safe: between the read and the last write the journal changes under the
  call. `JournalInv` says what is known at each statement: an append under way has written
  exactly the tail, and its key is in no line; a written record is the last line; lines
  carry their ordinals, so no garbage ever becomes a line. From it follow
  `UnreadableStaysFinal` and `JournalIsLedger`, for any caller, payment and size bound.
  `WholeInv` adds that what was checked before an append still holds at its last write,
  for `WholeJournalStaysReadable`. What a journal has refunded is defined as a number of
  units, one for each unit of each line's amount: the facts about cardinalities of
  `FiniteSetTheorems` then say what an appended line adds, where a recursive sum would
  need an induction over the journal.
* **`FileRefundWorldProofs`** adds `FileRefundAssumption`. `TrialKeepsJournal` and
  `TrialKeepsLedger` carry the journal's theorems over to every trial, whatever the
  subject does. `TrialInv` adds to `JournalInv` where the schedule stands: the provider is
  only at work while the subject is invoked, every delivered receipt has its line, the
  lost one is among them, and the observation after the loss is a prefix of the journal
  that has it. `TrialObservesReceipts` follows: the three observations and the receipts
  are one story. For `SubjectsToldApart`, `OwnInv` says for each of the two subjects of
  the case what the journal holds before and after the commit of each attempt, for every
  amount and key; and `CorruptionStops` that a trial whose journal was corrupted never
  gets past the observation that finds it.
* **`PublicationProofs`** assumes `PublicationAssumption`. `PublicationInv` adds what the
  order of the system calls is for: a writer that got as far as the link has a synced,
  whole file; a name points only at such writers, in memory and on disk; a name on disk
  is the name in memory; between its link and its end a writer's destination is its own.
  `FilesAreWhole`, `SuccessLasts` and `PromiseIsKept` follow, for any number of writers
  and paths.
* **`CommandsProofs`** assumes `CommandsAssumption` (the standard output is no path,
  `None` and foreign files are nothing else). `ChildInv`: a capture is made once and never
  changes. `PlaceInv`: from its publication on the path of an artifact holds the command's
  own capture, and from the sync on for good. `ReportInv`: a report is about what its
  command captured, although it is built from what was read back from that path; a report
  in the directory is the one its writer built. `LineageInv`: an identity tells an
  artifact, among all that are in place or were read; and captures do not name each other
  in a circle, because the identity of a new capture is one that no artifact can name yet.
  The last clause is about sets of commands, not of files, since a power failure may take
  files away. `StatusZeroIsTrue`, `ReportsAreOwn` and `LineageHolds` follow, for any
  number of commands, paths and other programs.

**Only model-checked:** liveness (`ScheduleEnds`, `TrialEnds`, `EvaluationEnds` and
`WorldIsClosed` of both worlds), because it needs fairness and `ENABLED`, which the prover
does not handle; and the four statements of section 5, which are refuted, by
counterexamples that TLC finds.

## 5. Where the code and its documentation disagree

Each is a run that TLC finds violated, by what the code does:

1. `evaluation_unreached`: a candidate none of whose confirmations reached the boundary
   is explained as "a valid confirmation did not reproduce" (`K:787`).
   `docs/claim-boundaries.md:271-272` promises to name the unreached boundary. The
   verdict, INCONCLUSIVE, is right; its explanation is not.
2. `trial_interrupt`: an interrupt in a trial whose cleanup then fails becomes an error
   record (`K:258`) and the evaluation goes on; `README.md:133-134` says that an
   interrupted command is `130`.
3. `trial_rollback`: an interrupt while a world is provisioned skips the rollback
   (`K:235`); the docstring of `WorldSession` promises one cleanup attempt, including
   rollback.
4. `commands_axes`: `run` and `replay` end in status 1 if an axis is not the registered
   one (`_mcp_reports.py:1019`), although their artifact is published;
   `README.md:130-132` says status 0 whatever the axes are.

One more sentence is true only in part, and no run claims more: a comment in capture
(`_mcp_evidence_replay.py:693-694`) keeps error evidence inspectable, and so it is where
the error leaves all trials their evidence; but an evaluation with a trial that has a
world and no evidence is not captured at all (`:523`). `CapturesFollowConclusions` says
exactly which evaluations are.

## 6. Not modelled, and why

The modules were written with the most important behaviour first: the schedule, trials,
verdicts and evaluation, the MCP world, publication, commands; then the file-journal
case, MCP sessions, and what capture and reports require. What is left out:

* **The reader's race** (`_evidence_artifact.py:314-353`). `read_evidence_artifact`
  compares the inode it opened with the one it inspected and bounds what it reads. It
  matters only beside a program that replaces or rewrites files, which the other programs
  of `Publication` and `Commands` do not do; with such a program, the product with the
  writers is beyond what TLC explores. Reading is one step of `Commands`.
* **An artifact replaced before it is read back** (`_cli.py:274`). A command reports what
  it finds at the artifact's path, and takes a valid artifact that replaced its own for
  it (`tests/test_cli.py:349-386` does so). The same programs would be needed; of those
  that are modelled, none removes what a command published.
* **JSON and schemas.** The limits on JSON, the field-by-field validation of an artifact
  that was read back, the field-by-field compatibility comparison and the redaction check
  are long conjunctions over data with no state: translated, they would say the same once
  more, and there is no shorter definition to hold them against.
* **Rendering.** Terminal text, JSON and JUnit XML, the derivation of identity strings by
  hashing, argument parsing, the wording of diagnostics.
* **The in-memory fixture's world**, an object that is made and marked as cleaned, with
  nothing that can fail in between; its ledger is `RefundLedger`, and its contracts are
  those of `FileRefundWorld`.
* **Contracts of one name** (`K:737`): see the hazard; no case of the repository has them.
* **The package entry**, which holds the version string.
