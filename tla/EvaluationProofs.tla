-------------------------- MODULE EvaluationProofs --------------------------
(***************************************************************************)
(* Theorems about Evaluation, for every set of contracts, every            *)
(* requirement and every outcome a trial may have.                         *)
(***************************************************************************)
EXTENDS Capture, TLAPS

-----------------------------------------------------------------------------
(* What evaluating a contract can conclude.                                *)

LEMMA CleanResultType ==
    ASSUME NEW c \in CleanAssertions, NEW cov \in SurfaceCoverage, NEW d \in Decision
    PROVE  /\ CleanResult(c, cov, d) \in InvariantResult
           /\ CleanResult(c, cov, d).verdict = "PASS" => Missing(c, cov) = {}
           /\ CleanResult(c, cov, d).verdict = "ERROR" =>
                  CleanResult(c, cov, d).explanation = "evaluator_malfunctioned"
<1>1. Missing(c, cov) \in SUBSET EvidenceRequirement
  BY VerdictsAssumption DEF Missing, MissingRequirements, Contracts
<1> QED
  BY <1>1 DEF CleanResult, WithoutEvidence, Concludes, InvariantResult,
              InvariantVerdict, Explanation, Decision

LEMMA RetryResultType ==
    ASSUME NEW i \in RetryInvariants, NEW cov \in SurfaceCoverage, NEW d \in Decision
    PROVE  /\ RetryResult(i, cov, d) \in InvariantResult
           /\ RetryResult(i, cov, d).verdict # "FAIL"
           /\ RetryResult(i, cov, d).verdict = "PASS" => Missing(i, cov) = {}
           /\ RetryResult(i, cov, d).verdict = "ERROR" =>
                  RetryResult(i, cov, d).explanation = "evaluator_malfunctioned"
           /\ RetryResult(i, cov, d).missing = Missing(i, cov)
           /\ RetryResult(i, cov, d).candidate =>
                  /\ RetryResult(i, cov, d).verdict = "INCONCLUSIVE"
                  /\ Missing(i, cov) = {}
<1>1. Missing(i, cov) \in SUBSET EvidenceRequirement
  BY VerdictsAssumption DEF Missing, MissingRequirements, Contracts
<1> QED
  BY <1>1 DEF RetryResult, WithoutEvidence, Concludes, InvariantResult,
              InvariantVerdict, Explanation, Decision

LEMMA UniformResultsType ==
    ASSUME NEW names, NEW verdict \in InvariantVerdict, NEW why \in Explanation
    PROVE  /\ UniformResults(names, verdict, why) \in [names -> InvariantResult]
           /\ \A n \in names : UniformResults(names, verdict, why)[n] =
                  [verdict |-> verdict, explanation |-> why,
                   missing |-> {}, candidate |-> FALSE]
BY DEF UniformResults, Concludes, InvariantResult

-----------------------------------------------------------------------------
(* What the outcomes of a trial have in common.                            *)

CleanOutcomeOK(o, cov) ==
    /\ o \in TrialOutcome(CleanAssertions)
    /\ \A c \in CleanAssertions :
           /\ o.results[c].verdict = "PASS" => o.evidence /\ Missing(c, cov) = {}
           /\ o.results[c].verdict = "ERROR" => o.failed
    /\ ~o.failed => o.cleanup = "pass"

PerturbedOutcomeOK(o, cov) ==
    /\ o \in TrialOutcome(RetryInvariants)
    /\ \A i \in RetryInvariants :
           /\ o.results[i].verdict # "FAIL"
           /\ o.results[i].verdict = "PASS" => o.evidence /\ Missing(i, cov) = {}
           /\ o.results[i].verdict = "ERROR" => o.failed
           /\ o.results[i].missing \in {{}, Missing(i, cov)}
           /\ o.results[i].candidate => /\ o.results[i].verdict = "INCONCLUSIVE"
                                        /\ Missing(i, cov) = {}
    /\ ~o.failed => o.cleanup = "pass"

LEMMA CleanOutcomesOK ==
    ASSUME NEW cov \in SurfaceCoverage, NEW o \in CleanOutcomes(cov)
    PROVE  CleanOutcomeOK(o, cov)
<1>1. CASE o \in Evaluated(CleanEvaluations(cov))
  <2>1. PICK d \in [CleanAssertions -> Decision], cl \in {"pass", "error"} :
            o = [evidence |-> TRUE, results |-> EvaluateClean(cov, d),
                 failed |-> cl = "error" \/ Malfunctioned(EvaluateClean(cov, d)) # {},
                 cleanup |-> cl]
    BY <1>1 DEF Evaluated, CleanEvaluations
  <2>2. \A c \in CleanAssertions : o.results[c] = CleanResult(c, cov, d[c])
                                   /\ d[c] \in Decision
    BY <2>1 DEF EvaluateClean
  <2>3. o.results \in [CleanAssertions -> InvariantResult]
    BY <2>1, <2>2, CleanResultType DEF EvaluateClean
  <2>4. /\ o.evidence = TRUE /\ o.cleanup = cl
        /\ o.failed <=> cl = "error" \/ Malfunctioned(o.results) # {}
        /\ o.failed \in BOOLEAN
        /\ ~o.failed => o.cleanup = "pass"
    BY <2>1
  <2>5. o \in TrialOutcome(CleanAssertions)
    BY <2>1, <2>3, <2>4 DEF TrialOutcome, CleanupStatus
  <2>6. ASSUME NEW c \in CleanAssertions, o.results[c].verdict = "ERROR"
        PROVE  o.failed
    <3>1. o.results[c].explanation = "evaluator_malfunctioned"
      BY <2>2, <2>6, CleanResultType
    <3>2. c \in Malfunctioned(o.results)
      BY <2>3, <3>1 DEF Malfunctioned
    <3> QED
      BY <3>2, <2>4
  <2>7. ASSUME NEW c \in CleanAssertions, o.results[c].verdict = "PASS"
        PROVE  Missing(c, cov) = {}
    BY <2>2, <2>7, CleanResultType
  <2> QED
    BY <2>4, <2>5, <2>6, <2>7 DEF CleanOutcomeOK
<1>2. CASE o \in Invalid(CleanAssertions)
  <2>1. /\ o.evidence \in BOOLEAN /\ o.failed = TRUE /\ o.cleanup \in CleanupStatus
        /\ o.results = UniformResults(CleanAssertions, "ERROR", "trial_invalid")
        /\ o = [evidence |-> o.evidence, results |-> o.results,
                failed |-> o.failed, cleanup |-> o.cleanup]
    BY <1>2 DEF Invalid
  <2>2. /\ o.results \in [CleanAssertions -> InvariantResult]
        /\ \A c \in CleanAssertions :
               o.results[c].verdict = "ERROR" /\ ~o.results[c].candidate
    BY <2>1, UniformResultsType DEF InvariantVerdict, Explanation
  <2>3. o \in TrialOutcome(CleanAssertions)
    BY <2>1, <2>2 DEF TrialOutcome
  <2> QED
    BY <2>1, <2>2, <2>3 DEF CleanOutcomeOK
<1> QED
  BY <1>1, <1>2 DEF CleanOutcomes

LEMMA PerturbedOutcomesOK ==
    ASSUME NEW cov \in SurfaceCoverage, NEW o \in PerturbedOutcomes(cov)
    PROVE  PerturbedOutcomeOK(o, cov)
<1>1. CASE o \in Evaluated(RetryEvaluations(cov))
  <2>1. PICK d \in [RetryInvariants -> Decision], cl \in {"pass", "error"} :
            o = [evidence |-> TRUE, results |-> EvaluateRetry(cov, d),
                 failed |-> cl = "error" \/ Malfunctioned(EvaluateRetry(cov, d)) # {},
                 cleanup |-> cl]
    BY <1>1 DEF Evaluated, RetryEvaluations
  <2>2. \A i \in RetryInvariants : o.results[i] = RetryResult(i, cov, d[i])
                                   /\ d[i] \in Decision
    BY <2>1 DEF EvaluateRetry
  <2>3. o.results \in [RetryInvariants -> InvariantResult]
    BY <2>1, <2>2, RetryResultType DEF EvaluateRetry
  <2>4. /\ o.evidence = TRUE /\ o.cleanup = cl
        /\ o.failed <=> cl = "error" \/ Malfunctioned(o.results) # {}
        /\ o.failed \in BOOLEAN
        /\ ~o.failed => o.cleanup = "pass"
    BY <2>1
  <2>5. o \in TrialOutcome(RetryInvariants)
    BY <2>1, <2>3, <2>4 DEF TrialOutcome, CleanupStatus
  <2>6. ASSUME NEW i \in RetryInvariants, o.results[i].verdict = "ERROR"
        PROVE  o.failed
    <3>1. o.results[i].explanation = "evaluator_malfunctioned"
      BY <2>2, <2>6, RetryResultType
    <3>2. i \in Malfunctioned(o.results)
      BY <2>3, <3>1 DEF Malfunctioned
    <3> QED
      BY <3>2, <2>4
  <2>7. ASSUME NEW i \in RetryInvariants, o.results[i].verdict = "PASS"
        PROVE  Missing(i, cov) = {}
    BY <2>2, <2>7, RetryResultType
  <2>8. ASSUME NEW i \in RetryInvariants
        PROVE  /\ o.results[i].verdict # "FAIL"
               /\ o.results[i].missing \in {{}, Missing(i, cov)}
               /\ o.results[i].candidate => /\ o.results[i].verdict = "INCONCLUSIVE"
                                            /\ Missing(i, cov) = {}
    BY <2>2, RetryResultType
  <2> QED
    BY <2>4, <2>5, <2>6, <2>7, <2>8 DEF PerturbedOutcomeOK
<1>2. CASE o \in Invalid(RetryInvariants)
  <2>1. /\ o.evidence \in BOOLEAN /\ o.failed = TRUE /\ o.cleanup \in CleanupStatus
        /\ o.results = UniformResults(RetryInvariants, "ERROR", "trial_invalid")
        /\ o = [evidence |-> o.evidence, results |-> o.results,
                failed |-> o.failed, cleanup |-> o.cleanup]
    BY <1>2 DEF Invalid
  <2>2. /\ o.results \in [RetryInvariants -> InvariantResult]
        /\ \A i \in RetryInvariants :
               /\ o.results[i].verdict = "ERROR" /\ ~o.results[i].candidate
               /\ o.results[i].missing = {}
    BY <2>1, UniformResultsType DEF InvariantVerdict, Explanation
  <2>3. o \in TrialOutcome(RetryInvariants)
    BY <2>1, <2>2 DEF TrialOutcome
  <2> QED
    BY <2>1, <2>2, <2>3 DEF PerturbedOutcomeOK
<1>3. CASE o = Unreached
  <2>1. /\ o.results \in [RetryInvariants -> InvariantResult]
        /\ \A i \in RetryInvariants :
               /\ o.results[i].verdict = "INCONCLUSIVE" /\ o.results[i].missing = {}
               /\ ~o.results[i].candidate
    BY <1>3, UniformResultsType DEF Unreached, InvariantVerdict, Explanation
  <2> QED
    BY <1>3, <2>1 DEF Unreached, PerturbedOutcomeOK, TrialOutcome, CleanupStatus
<1>4. CASE o = Swallowed
  <2>1. /\ o.results \in [RetryInvariants -> InvariantResult]
        /\ \A i \in RetryInvariants :
               /\ o.results[i].verdict = "ERROR" /\ ~o.results[i].candidate
               /\ o.results[i].missing = {}
    BY <1>4, UniformResultsType DEF Swallowed, InvariantVerdict, Explanation
  <2> QED
    BY <1>4, <2>1 DEF Swallowed, PerturbedOutcomeOK, TrialOutcome, CleanupStatus
<1> QED
  BY <1>1, <1>2, <1>3, <1>4 DEF PerturbedOutcomes

-----------------------------------------------------------------------------
(* What the pairs have in common, and the inductive invariant: how many    *)
(* pairs there are is told by where evaluate_case stands and by the        *)
(* candidates of the primary one, and a conclusion is the one that         *)
(* _resolve_candidates and _aggregate draw from the pairs kept.            *)

PairOK(pair, cov) ==
    /\ pair \in PairResult
    /\ \A c \in CleanAssertions :
           /\ pair.cleanResults[c].verdict = "PASS" => pair.clean /\ Missing(c, cov) = {}
           /\ pair.cleanResults[c].verdict = "ERROR" => "clean" \in pair.errors
    /\ \A i \in RetryInvariants :
           /\ pair.retryResults[i].verdict # "FAIL"
           /\ pair.retryResults[i].verdict = "PASS" =>
                  pair.clean /\ pair.perturbed /\ Missing(i, cov) = {}
           /\ pair.retryResults[i].verdict = "ERROR" => "retry" \in pair.errors
           /\ pair.retryResults[i].missing \in {{}, Missing(i, cov)}
           /\ pair.retryResults[i].candidate =>
                  /\ pair.retryResults[i].verdict = "INCONCLUSIVE"
                  /\ Missing(i, cov) = {}
    /\ "clean" \notin pair.errors => pair.cleanCleanup = "pass"
    /\ "retry" \notin pair.errors => pair.perturbedCleanup = "pass"

PairsComplete == \/ Len(pairs) = 1 /\ Candidates(pairs[1]) = {}
                 \/ Len(pairs) = 3 /\ Candidates(pairs[1]) # {}

EvaluationInv ==
    /\ TypeOK
    /\ \A k \in 1 .. Len(pairs) : PairOK(pairs[k], coverage)
    /\ control \in {"configuration", "preflight", "scope"} => pairs = <<>>
    /\ control \in {"preflight", "scope", "clean_trial", "perturbed_trial", "conclude",
                    "done"} => RetryInvariants # {}
    /\ control \in {"clean_trial", "perturbed_trial"} =>
           /\ Len(pairs) < 3
           /\ Len(pairs) > 0 => Candidates(pairs[1]) # {}
    /\ Len(pairs) > 1 => Candidates(pairs[1]) # {}
    /\ control = "perturbed_trial" => CleanOutcomeOK(clean, coverage) /\ clean.evidence
    /\ control \in {"conclude", "done"} => PairsComplete
    /\ control # "done" => cleanValidity = None /\ retrySafety = None
    /\ control = "done" =>
           /\ cleanValidity =
                  [status |-> Aggregate(pairs[1].cleanResults, TRUE,
                                        "clean" \in pairs[1].errors),
                   invariants |-> pairs[1].cleanResults]
           /\ retrySafety =
                  [status |-> Aggregate(ResolveCandidates, FALSE,
                                        "retry" \in pairs[1].errors),
                   invariants |-> ResolveCandidates]

LEMMA AggregateType ==
    ASSUME NEW names, NEW results \in [names -> InvariantResult],
           NEW unverified \in BOOLEAN, NEW failed \in BOOLEAN
    PROVE  /\ Aggregate(results, unverified, failed) \in AxisStatus
           /\ Aggregate(results, unverified, failed) = "PASS" =>
                  ~failed /\ names # {} /\ \A n \in names : results[n].verdict = "PASS"
           /\ Aggregate(results, unverified, failed) = "UNVERIFIED" =>
                  unverified /\ ~failed /\ names = {}
           /\ Aggregate(results, unverified, failed) = "ERROR" =>
                  \/ failed
                  \/ \E n \in names : results[n].verdict = "ERROR"
                  \/ names = {} /\ ~unverified
<1> DEFINE verdicts == {results[n].verdict : n \in DOMAIN results}
<1>1. /\ \A n \in names : results[n].verdict \in verdicts
      /\ \A v \in verdicts : \E n \in names : results[n].verdict = v
      /\ verdicts \subseteq InvariantVerdict
      /\ verdicts = {} <=> names = {}
  <2>1. DOMAIN results = names /\ \A n \in names : results[n] \in InvariantResult
    OBVIOUS
  <2>2. \A n \in names : results[n].verdict \in InvariantVerdict
    BY <2>1 DEF InvariantResult
  <2> QED
    BY <2>1, <2>2, Zenon
<1>2. Aggregate(results, unverified, failed) =
          IF verdicts = {} THEN IF unverified /\ ~failed THEN "UNVERIFIED" ELSE "ERROR"
          ELSE IF "FAIL" \in verdicts THEN "FAIL"
          ELSE IF failed \/ "ERROR" \in verdicts THEN "ERROR"
          ELSE IF "INCONCLUSIVE" \in verdicts THEN "INCONCLUSIVE"
          ELSE "PASS"
  <2>1. {results[n].verdict : n \in DOMAIN results} = verdicts
    OBVIOUS
  <2> HIDE DEF verdicts
  <2> QED
    BY <2>1, Zenon DEF Aggregate
<1> HIDE DEF verdicts
<1> QED
  BY <1>1, <1>2 DEF AxisStatus, InvariantVerdict

LEMMA ResolveType ==
    ASSUME NEW ran \in Seq(PairResult), Len(ran) > 0, NEW i \in RetryInvariants
    PROVE  LET r == ResolveCandidate(i, ran[1].retryResults[i],
                                     SubSeq(ran, 2, Len(ran)))
           IN  r \in InvariantResult
               /\ (~ran[1].retryResults[i].candidate => r = ran[1].retryResults[i])
               /\ (ran[1].retryResults[i].candidate => r.verdict # "PASS" /\ ~r.candidate)
<1> DEFINE p == ran[1].retryResults[i]
           rest == SubSeq(ran, 2, Len(ran))
           r == ResolveCandidate(i, p, rest)
<1>1. p \in InvariantResult
  <2>1. ran[1] \in PairResult
    OBVIOUS
  <2> QED
    BY <2>1 DEF PairResult
<1>2. \A v \in {"FAIL", "INCONCLUSIVE", "ERROR"}, why \in Explanation :
          /\ Resolved(p, v, why) \in InvariantResult
          /\ Resolved(p, v, why).verdict = v
          /\ ~Resolved(p, v, why).candidate
  BY <1>1 DEF Resolved, InvariantResult, InvariantVerdict
<1> HIDE DEF p, rest
<1>3. r \in InvariantResult /\ (~p.candidate => r = p)
      /\ (p.candidate => r.verdict # "PASS" /\ ~r.candidate)
  BY <1>1, <1>2 DEF ResolveCandidate, Explanation
<1> QED
  BY <1>3 DEF p, rest

LEMMA ConclusionType ==
    ASSUME EvaluationInv, Len(pairs) > 0
    PROVE  /\ [status |-> Aggregate(pairs[1].cleanResults, TRUE, "clean" \in pairs[1].errors),
               invariants |-> pairs[1].cleanResults] \in AxisResult(CleanAssertions)
           /\ [status |-> Aggregate(ResolveCandidates, FALSE, "retry" \in pairs[1].errors),
               invariants |-> ResolveCandidates] \in AxisResult(RetryInvariants)
<1>1. pairs[1] \in PairResult
  BY DEF EvaluationInv, TypeOK
<1>2. /\ pairs[1].cleanResults \in [CleanAssertions -> InvariantResult]
      /\ ("clean" \in pairs[1].errors) \in BOOLEAN
      /\ ("retry" \in pairs[1].errors) \in BOOLEAN
  BY <1>1 DEF PairResult
<1>3. ResolveCandidates \in [RetryInvariants -> InvariantResult]
  BY ResolveType DEF EvaluationInv, TypeOK, ResolveCandidates, Confirmations
<1> QED
  BY <1>2, <1>3, AggregateType DEF AxisResult

LEMMA EvaluationInvInit == Init => EvaluationInv
<1> SUFFICES ASSUME Init PROVE EvaluationInv
  OBVIOUS
<1>1. pairs \in Seq(PairResult) /\ Len(pairs) = 0 /\ pairs = <<>>
  BY DEF Init
<1>2. TypeOK
  BY <1>1 DEF Init, TypeOK
<1>3. control = "configuration" /\ cleanValidity = None /\ retrySafety = None
  BY DEF Init
<1> QED
  BY <1>1, <1>2, <1>3 DEF EvaluationInv

(* Appending a good pair keeps the pairs good and decides what comes next. *)
LEMMA AddPairPreserves ==
    ASSUME EvaluationInv, control \in {"clean_trial", "perturbed_trial"},
           NEW pair, PairOK(pair, coverage), AddPair(pair)
    PROVE  EvaluationInv'
<1>1. /\ pairs \in Seq(PairResult) /\ Len(pairs) < 3 /\ pair \in PairResult
      /\ control # "done"
  BY DEF EvaluationInv, TypeOK, PairOK
<1>2. /\ pairs' \in Seq(PairResult) /\ Len(pairs') = Len(pairs) + 1
      /\ pairs'[Len(pairs) + 1] = pair
      /\ \A k \in 1 .. Len(pairs) : pairs'[k] = pairs[k]
  BY <1>1 DEF AddPair
<1>3. \A k \in 1 .. Len(pairs') : PairOK(pairs'[k], coverage)
  <2> TAKE k \in 1 .. Len(pairs')
  <2>1. k \in 1 .. Len(pairs) \/ k = Len(pairs) + 1
    BY <1>1, <1>2
  <2> QED
    BY <1>2, <2>1 DEF EvaluationInv
<1>4. UNCHANGED <<coverage, cleanValidity, retrySafety>> /\ clean' = None
  BY DEF AddPair
<1>5. control' = AfterPair(pairs')
  BY DEF AddPair
<1>6. Len(pairs) > 0 => pairs'[1] = pairs[1] /\ Candidates(pairs[1]) # {}
  BY <1>1, <1>2 DEF EvaluationInv
<1>7. CASE control' = "clean_trial"
  <2>1. Len(pairs') < 3 /\ Candidates(pairs'[1]) # {}
    BY <1>1, <1>2, <1>5, <1>6, <1>7 DEF AfterPair
  <2> QED
    BY <1>1, <1>2, <1>3, <1>4, <1>7, <2>1 DEF EvaluationInv, TypeOK
<1>8. CASE control' = "conclude"
  <2>1. (Len(pairs') = 1 /\ Candidates(pairs'[1]) = {})
        \/ (Len(pairs') = 3 /\ Candidates(pairs'[1]) # {})
    BY <1>1, <1>2, <1>5, <1>6, <1>8 DEF AfterPair
  <2> QED
    BY <1>1, <1>2, <1>3, <1>4, <1>8, <2>1 DEF EvaluationInv, TypeOK, PairsComplete
<1> QED
  BY <1>5, <1>7, <1>8 DEF AfterPair

LEMMA RunCleanPreserves ==
    ASSUME EvaluationInv, NEW o \in CleanOutcomes(coverage), RunClean(o)
    PROVE  EvaluationInv'
<1>1. coverage \in SurfaceCoverage /\ control = "clean_trial"
  BY DEF EvaluationInv, TypeOK, RunClean
<1>2. CleanOutcomeOK(o, coverage)
  BY <1>1, CleanOutcomesOK
<1>3. CASE o.evidence
  <2>1. /\ clean' = o /\ control' = "perturbed_trial"
        /\ UNCHANGED <<coverage, pairs, cleanValidity, retrySafety>>
    BY <1>3 DEF RunClean
  <2>2. o \in TrialOutcome(CleanAssertions)
    BY <1>2 DEF CleanOutcomeOK
  <2> QED
    BY <1>1, <1>2, <1>3, <2>1, <2>2 DEF EvaluationInv, TypeOK
<1>4. CASE ~o.evidence
  <2> DEFINE pair == WithoutCleanEvidence(o)
  <2>1. o \in TrialOutcome(CleanAssertions)
    BY <1>2 DEF CleanOutcomeOK
  <2>2. /\ pair.clean = FALSE /\ pair.perturbed = FALSE
        /\ pair.cleanResults = o.results
        /\ pair.retryResults =
               UniformResults(RetryInvariants, "ERROR", "no_clean_reference")
        /\ pair.errors = ErrorAxis("clean", o.failed) \cup {"retry"}
        /\ pair.cleanCleanup = o.cleanup /\ pair.perturbedCleanup = "not_attempted"
    BY DEF WithoutCleanEvidence
  <2>3. /\ pair.retryResults \in [RetryInvariants -> InvariantResult]
        /\ \A i \in RetryInvariants : /\ pair.retryResults[i].verdict = "ERROR"
                                     /\ ~pair.retryResults[i].candidate
                                     /\ pair.retryResults[i].missing = {}
    BY <2>2, UniformResultsType DEF InvariantVerdict, Explanation
  <2>4. /\ pair.errors \in SUBSET Axis /\ "retry" \in pair.errors
        /\ "clean" \in pair.errors <=> o.failed
    BY <2>2 DEF ErrorAxis, Axis
  <2>5. pair \in PairResult
    BY <2>1, <2>3, <2>4
       DEF PairResult, TrialOutcome, WithoutCleanEvidence, CleanupStatus
  <2>6. PairOK(pair, coverage)
    BY <1>2, <1>4, <2>2, <2>3, <2>4, <2>5 DEF PairOK, CleanOutcomeOK
  <2>7. AddPair(pair)
    BY <1>4 DEF RunClean
  <2> QED
    BY <1>1, <2>6, <2>7, AddPairPreserves
<1> QED
  BY <1>3, <1>4

LEMMA RunPerturbedPreserves ==
    ASSUME EvaluationInv, NEW o \in PerturbedOutcomes(coverage), RunPerturbed(o)
    PROVE  EvaluationInv'
<1> DEFINE pair == Compared(clean, o)
<1>1. coverage \in SurfaceCoverage /\ control = "perturbed_trial"
  BY DEF EvaluationInv, TypeOK, RunPerturbed
<1>2. PerturbedOutcomeOK(o, coverage) /\ CleanOutcomeOK(clean, coverage) /\ clean.evidence
  BY <1>1, PerturbedOutcomesOK DEF EvaluationInv
<1>3. o \in TrialOutcome(RetryInvariants) /\ clean \in TrialOutcome(CleanAssertions)
  BY <1>2 DEF PerturbedOutcomeOK, CleanOutcomeOK
<1>4. /\ pair.clean = TRUE /\ pair.perturbed = o.evidence
      /\ pair.cleanResults = clean.results /\ pair.retryResults = o.results
      /\ pair.errors = ErrorAxis("clean", clean.failed) \cup ErrorAxis("retry", o.failed)
      /\ pair.cleanCleanup = clean.cleanup /\ pair.perturbedCleanup = o.cleanup
  BY DEF Compared
<1>5. /\ pair.errors \in SUBSET Axis
      /\ "clean" \in pair.errors <=> clean.failed
      /\ "retry" \in pair.errors <=> o.failed
  BY <1>4 DEF ErrorAxis, Axis
<1>6. pair \in PairResult
  BY <1>3, <1>5 DEF PairResult, TrialOutcome, Compared
<1>7. PairOK(pair, coverage)
  BY <1>2, <1>4, <1>5, <1>6 DEF PairOK, CleanOutcomeOK, PerturbedOutcomeOK
<1>8. AddPair(pair)
  BY DEF RunPerturbed
<1> QED
  BY <1>1, <1>7, <1>8, AddPairPreserves

LEMMA ConcludePreserves ==
    ASSUME EvaluationInv, Conclude
    PROVE  EvaluationInv'
<1>1. /\ PairsComplete /\ RetryInvariants # {}
      /\ UNCHANGED <<coverage, clean, pairs>> /\ control' = "done"
  BY DEF Conclude, EvaluationInv
<1>2. Len(pairs) > 0
  BY <1>1 DEF PairsComplete
<1>3. /\ cleanValidity' =
             [status |-> Aggregate(pairs[1].cleanResults, TRUE, "clean" \in pairs[1].errors),
              invariants |-> pairs[1].cleanResults]
      /\ retrySafety' =
             [status |-> Aggregate(ResolveCandidates, FALSE, "retry" \in pairs[1].errors),
              invariants |-> ResolveCandidates]
  BY DEF Conclude
<1>4. /\ cleanValidity' \in AxisResult(CleanAssertions)
      /\ retrySafety' \in AxisResult(RetryInvariants)
  BY <1>2, <1>3, ConclusionType
<1>5. ResolveCandidates' = ResolveCandidates
  BY <1>1 DEF ResolveCandidates, Confirmations
<1>6. TypeOK'
  BY <1>1, <1>4 DEF EvaluationInv, TypeOK, Ended
<1>7. PairsComplete'
  BY <1>1 DEF PairsComplete
<1> QED
  BY <1>1, <1>3, <1>5, <1>6, <1>7 DEF EvaluationInv

LEMMA EvaluationInvNext == EvaluationInv /\ [Next]_vars => EvaluationInv'
<1> SUFFICES ASSUME EvaluationInv, [Next]_vars
             PROVE  EvaluationInv'
  OBVIOUS
<1>1. CASE CheckConfiguration
  BY <1>1 DEF CheckConfiguration, EvaluationInv, TypeOK, Ended
<1>2. CASE Preflight
  BY <1>2 DEF Preflight, EvaluationInv, TypeOK, Ended
<1>3. CASE RecordScope
  <2>1. Len(pairs) = 0 /\ UNCHANGED <<coverage, clean, pairs, cleanValidity, retrySafety>>
        /\ control' \in {"clean_trial", "raised"} /\ RetryInvariants # {}
        /\ control = "scope"
    BY <1>3 DEF RecordScope, EvaluationInv
  <2>2. TypeOK'
    BY <2>1 DEF EvaluationInv, TypeOK, Ended
  <2>3. cleanValidity' = None /\ retrySafety' = None /\ Len(pairs') = 0
    BY <2>1 DEF EvaluationInv
  <2>4. \A k \in 1 .. Len(pairs') : PairOK(pairs'[k], coverage')
    BY <2>3
  <2>5. CASE control' = "clean_trial"
    BY <2>1, <2>2, <2>3, <2>4, <2>5 DEF EvaluationInv
  <2>6. CASE control' = "raised"
    BY <2>1, <2>2, <2>3, <2>4, <2>6 DEF EvaluationInv
  <2> QED
    BY <2>1, <2>5, <2>6
<1>4. ASSUME NEW o \in CleanOutcomes(coverage), RunClean(o)
      PROVE  EvaluationInv'
  BY <1>4, RunCleanPreserves
<1>5. ASSUME NEW o \in PerturbedOutcomes(coverage), RunPerturbed(o)
      PROVE  EvaluationInv'
  BY <1>5, RunPerturbedPreserves
<1>6. CASE Conclude
  BY <1>6, ConcludePreserves
<1>7. CASE Interrupt
  BY <1>7 DEF Interrupt, EvaluationInv, TypeOK, Ended
<1>8. CASE UNCHANGED vars
  BY <1>8 DEF vars, EvaluationInv, TypeOK, PairsComplete, ResolveCandidates, Confirmations
<1> QED
  BY <1>1, <1>2, <1>3, <1>4, <1>5, <1>6, <1>7, <1>8 DEF Next, Progress

LEMMA EvaluationInvariant == Spec => []EvaluationInv
BY EvaluationInvInit, EvaluationInvNext, PTL DEF Spec

(* The evaluation keeps the types the code gives its pairs and axes.       *)
THEOREM TypeCorrect == Spec => []TypeOK
<1>1. EvaluationInv => TypeOK
  BY DEF EvaluationInv
<1> QED
  BY <1>1, EvaluationInvariant, PTL

-----------------------------------------------------------------------------
(* The conclusion, read back from the pairs it was drawn from.             *)

LEMMA ConclusionOfPairs ==
    ASSUME EvaluationInv, Concluded
    PROVE  /\ pairs \in Seq(PairResult) /\ PairsComplete
           /\ \A k \in 1 .. Len(pairs) : PairOK(pairs[k], coverage)
           /\ RetryInvariants # {}
           /\ retrySafety.invariants = ResolveCandidates
           /\ retrySafety.status =
                  Aggregate(ResolveCandidates, FALSE, "retry" \in pairs[1].errors)
           /\ cleanValidity.status =
                  Aggregate(pairs[1].cleanResults, TRUE, "clean" \in pairs[1].errors)
           /\ pairs[1] \in PairResult /\ PairOK(pairs[1], coverage)
           /\ ResolveCandidates \in [RetryInvariants -> InvariantResult]
           /\ \A i \in RetryInvariants :
                  /\ ~pairs[1].retryResults[i].candidate =>
                         ResolveCandidates[i] = pairs[1].retryResults[i]
                  /\ pairs[1].retryResults[i].candidate =>
                         /\ ResolveCandidates[i].verdict # "PASS"
                         /\ ~ResolveCandidates[i].candidate
<1>1. /\ pairs \in Seq(PairResult) /\ PairsComplete
      /\ \A k \in 1 .. Len(pairs) : PairOK(pairs[k], coverage)
      /\ RetryInvariants # {}
  BY DEF EvaluationInv, TypeOK, Concluded
<1>2. Len(pairs) > 0
  BY <1>1 DEF PairsComplete
<1>3. pairs[1] \in PairResult /\ PairOK(pairs[1], coverage)
  BY <1>1, <1>2
<1>4. /\ retrySafety.invariants = ResolveCandidates
      /\ retrySafety.status =
             Aggregate(ResolveCandidates, FALSE, "retry" \in pairs[1].errors)
      /\ cleanValidity.status =
             Aggregate(pairs[1].cleanResults, TRUE, "clean" \in pairs[1].errors)
  <2> DEFINE retryStatus == Aggregate(ResolveCandidates, FALSE, "retry" \in pairs[1].errors)
             cleanStatus == Aggregate(pairs[1].cleanResults, TRUE, "clean" \in pairs[1].errors)
  <2>1. /\ retrySafety = [status |-> retryStatus, invariants |-> ResolveCandidates]
        /\ cleanValidity = [status |-> cleanStatus, invariants |-> pairs[1].cleanResults]
    BY DEF EvaluationInv, Concluded
  <2> HIDE DEF retryStatus, cleanStatus
  <2>2. /\ retrySafety.invariants = ResolveCandidates
        /\ retrySafety.status = retryStatus
        /\ cleanValidity.status = cleanStatus
    BY <2>1
  <2> QED
    BY <2>2 DEF retryStatus, cleanStatus
<1>5. \A i \in RetryInvariants :
          /\ ResolveCandidates[i] \in InvariantResult
          /\ ~pairs[1].retryResults[i].candidate =>
                 ResolveCandidates[i] = pairs[1].retryResults[i]
          /\ pairs[1].retryResults[i].candidate =>
                 ResolveCandidates[i].verdict # "PASS" /\ ~ResolveCandidates[i].candidate
  <2> SUFFICES ASSUME NEW i \in RetryInvariants
               PROVE  LET r == ResolveCandidates[i]
                      IN  /\ r \in InvariantResult
                          /\ ~pairs[1].retryResults[i].candidate =>
                                 r = pairs[1].retryResults[i]
                          /\ pairs[1].retryResults[i].candidate =>
                                 r.verdict # "PASS" /\ ~r.candidate
    OBVIOUS
  <2>1. ResolveCandidates[i] = ResolveCandidate(i, pairs[1].retryResults[i],
                                                SubSeq(pairs, 2, Len(pairs)))
    BY DEF ResolveCandidates, Confirmations
  <2> QED
    BY <1>1, <1>2, <2>1, ResolveType
<1>6. ResolveCandidates \in [RetryInvariants -> InvariantResult]
  BY <1>5 DEF ResolveCandidates
<1> QED
  BY <1>1, <1>3, <1>4, <1>5, <1>6

(* A FAIL verdict means three contradicting pairs and two confirmations    *)
(* without errors, and these always give FAIL (_resolve_candidates).       *)
THEOREM FailureIsConfirmed == Spec => []FailIsReproduced
<1>1. EvaluationInv => FailIsReproduced
  <2> SUFFICES ASSUME EvaluationInv, Concluded, NEW i \in RetryInvariants
               PROVE  FinalVerdict(i) = "FAIL" <=>
                          /\ Len(pairs) = 3
                          /\ \A k \in 1..3 : i \in Candidates(pairs[k])
                          /\ pairs[2].errors = {} /\ pairs[3].errors = {}
    BY DEF FailIsReproduced
  <2> DEFINE p == pairs[1].retryResults[i]
             rest == SubSeq(pairs, 2, Len(pairs))
  <2>1. FinalVerdict(i) = ResolveCandidate(i, p, rest).verdict
    BY ConclusionOfPairs DEF FinalVerdict, ResolveCandidates, Confirmations
  <2>2. /\ p \in InvariantResult /\ p.verdict # "FAIL"
        /\ i \in Candidates(pairs[1]) <=> p.candidate
    BY ConclusionOfPairs DEF PairOK, PairResult, Candidates
  <2>3. p.candidate => Missing(i, coverage) = {}
    BY ConclusionOfPairs DEF PairOK
  <2>4. CASE ~p.candidate
    <3>1. FinalVerdict(i) = p.verdict
      BY <2>1, <2>4 DEF ResolveCandidate
    <3>2. 1 \in 1..3
      OBVIOUS
    <3> QED
      BY <2>2, <2>4, <3>1, <3>2
  <2>5. CASE p.candidate
    <3>1. Len(pairs) = 3
      BY <2>2, <2>5, ConclusionOfPairs DEF PairsComplete
    <3>2. /\ rest \in Seq(PairResult) /\ Len(rest) = 2 /\ DOMAIN rest = 1..2
          /\ rest[1] = pairs[2] /\ rest[2] = pairs[3]
      BY <3>1, ConclusionOfPairs
    <3>3. \A k \in 1..2 : PairOK(rest[k], coverage) /\ rest[k] \in PairResult
      <4>1. \A k \in 1..3 : PairOK(pairs[k], coverage)
        BY <3>1, ConclusionOfPairs
      <4>2. pairs[2] \in PairResult /\ pairs[3] \in PairResult
        BY <3>1, ConclusionOfPairs
      <4>3. /\ PairOK(rest[1], coverage) /\ rest[1] \in PairResult
            /\ PairOK(rest[2], coverage) /\ rest[2] \in PairResult
        BY <3>2, <4>1, <4>2
      <4> HIDE DEF rest
      <4> QED
        BY <4>3
    <3>4. \A k \in 1..2 : /\ Match(i, rest[k]) = rest[k].retryResults[i]
                          /\ Match(i, rest[k]) \in InvariantResult
                          /\ i \in Candidates(rest[k]) <=> Match(i, rest[k]).candidate
                          /\ Match(i, rest[k]).candidate =>
                                 Match(i, rest[k]).verdict = "INCONCLUSIVE"
                          /\ Match(i, rest[k]).missing = {}
      BY <2>5, <2>3, <3>3 DEF Match, PairResult, PairOK, Candidates
    <3>5. \A v \in {"FAIL", "INCONCLUSIVE", "ERROR"}, why \in Explanation :
              Resolved(p, v, why).verdict = v
      BY <2>2 DEF Resolved, InvariantResult
    <3>6. FinalVerdict(i) = "FAIL" <=>
              ~ConfirmationFailed(i, rest) /\ Reproduced(i, rest)
      <4> HIDE DEF p, rest
      <4> QED
        BY <2>1, <2>5, <3>2, <3>5 DEF ResolveCandidate, Explanation
    <3>7. ~ConfirmationFailed(i, rest) /\ Reproduced(i, rest) <=>
              /\ \A k \in 1..2 : rest[k].errors = {} /\ i \in Candidates(rest[k])
      <4> HIDE DEF rest
      <4> QED
        BY <3>2, <3>4 DEF ConfirmationFailed, Reproduced
    <3>8. (\A k \in 1..2 : rest[k].errors = {} /\ i \in Candidates(rest[k])) <=>
              /\ \A k \in 1..3 : i \in Candidates(pairs[k])
              /\ pairs[2].errors = {} /\ pairs[3].errors = {}
      <4>1. \A k \in 1..2 : k = 1 \/ k = 2
        OBVIOUS
      <4>2. \A k \in 1..3 : k = 1 \/ k = 2 \/ k = 3
        OBVIOUS
      <4>3. 1 \in 1..2 /\ 2 \in 1..2 /\ 2 \in 1..3 /\ 3 \in 1..3
        OBVIOUS
      <4> HIDE DEF rest
      <4> QED
        BY <2>2, <2>5, <3>2, <4>1, <4>2, <4>3
    <3> QED
      BY <3>1, <3>6, <3>7, <3>8
  <2> QED
    BY <2>4, <2>5
<1> QED
  BY <1>1, EvaluationInvariant, PTL

(* The axis statuses, read back from the results they aggregate.           *)

LEMMA StatusOfConclusion ==
    ASSUME EvaluationInv, Concluded
    PROVE  /\ retrySafety.status = "PASS" =>
                  /\ "retry" \notin pairs[1].errors
                  /\ \A i \in RetryInvariants : ResolveCandidates[i].verdict = "PASS"
           /\ retrySafety.status = "ERROR" =>
                  \/ "retry" \in pairs[1].errors
                  \/ \E i \in RetryInvariants : ResolveCandidates[i].verdict = "ERROR"
           /\ retrySafety.status # "UNVERIFIED"
           /\ cleanValidity.status = "PASS" =>
                  /\ "clean" \notin pairs[1].errors /\ CleanAssertions # {}
                  /\ \A c \in CleanAssertions : pairs[1].cleanResults[c].verdict = "PASS"
           /\ cleanValidity.status = "ERROR" =>
                  \/ "clean" \in pairs[1].errors
                  \/ \E c \in CleanAssertions : pairs[1].cleanResults[c].verdict = "ERROR"
           /\ cleanValidity.status = "UNVERIFIED" =>
                  CleanAssertions = {} /\ "clean" \notin pairs[1].errors
<1>1. /\ ResolveCandidates \in [RetryInvariants -> InvariantResult]
      /\ pairs[1].cleanResults \in [CleanAssertions -> InvariantResult]
      /\ RetryInvariants # {}
      /\ retrySafety.status =
             Aggregate(ResolveCandidates, FALSE, "retry" \in pairs[1].errors)
      /\ cleanValidity.status =
             Aggregate(pairs[1].cleanResults, TRUE, "clean" \in pairs[1].errors)
  BY ConclusionOfPairs DEF PairResult
<1> DEFINE retryFailed == "retry" \in pairs[1].errors
           cleanFailed == "clean" \in pairs[1].errors
           retryStatus == Aggregate(ResolveCandidates, FALSE, retryFailed)
           cleanStatus == Aggregate(pairs[1].cleanResults, TRUE, cleanFailed)
<1>2. retryFailed \in BOOLEAN /\ cleanFailed \in BOOLEAN
  OBVIOUS
<1> HIDE DEF retryFailed, cleanFailed
<1>3. /\ retryStatus = "PASS" =>
             /\ ~retryFailed
             /\ \A i \in RetryInvariants : ResolveCandidates[i].verdict = "PASS"
      /\ retryStatus = "UNVERIFIED" => RetryInvariants = {}
      /\ retryStatus = "ERROR" =>
             \/ retryFailed
             \/ \E i \in RetryInvariants : ResolveCandidates[i].verdict = "ERROR"
             \/ RetryInvariants = {}
  BY <1>1, <1>2, AggregateType
<1>4. /\ cleanStatus = "PASS" =>
             /\ ~cleanFailed /\ CleanAssertions # {}
             /\ \A c \in CleanAssertions : pairs[1].cleanResults[c].verdict = "PASS"
      /\ cleanStatus = "UNVERIFIED" => CleanAssertions = {} /\ ~cleanFailed
      /\ cleanStatus = "ERROR" =>
             \/ cleanFailed
             \/ \E c \in CleanAssertions : pairs[1].cleanResults[c].verdict = "ERROR"
  <2> DEFINE results == pairs[1].cleanResults
  <2>1. results \in [CleanAssertions -> InvariantResult]
    BY <1>1
  <2> HIDE DEF results
  <2>2. LET status == Aggregate(results, TRUE, cleanFailed)
        IN  /\ status = "PASS" =>
                   /\ ~cleanFailed /\ CleanAssertions # {}
                   /\ \A c \in CleanAssertions : results[c].verdict = "PASS"
            /\ status = "UNVERIFIED" => CleanAssertions = {} /\ ~cleanFailed
            /\ status = "ERROR" =>
                   cleanFailed \/ \E c \in CleanAssertions : results[c].verdict = "ERROR"
    BY <1>2, <2>1, AggregateType
  <2> QED
    BY <2>2 DEF results
<1>5. retrySafety.status = retryStatus /\ cleanValidity.status = cleanStatus
  BY <1>1 DEF retryFailed, cleanFailed
<1> HIDE DEF retryStatus, cleanStatus
<1> QED
  BY <1>1, <1>3, <1>4, <1>5 DEF retryFailed, cleanFailed

(* A contradiction seen in the primary pair never ends in a PASS.          *)
THEOREM ContradictionIsNotForgotten == Spec => []CandidateNeverPasses
<1>1. EvaluationInv => CandidateNeverPasses
  <2> SUFFICES ASSUME EvaluationInv, Concluded
               PROVE  CandidateNeverPasses
    BY DEF CandidateNeverPasses
  <2>1. \A i \in RetryInvariants : ~ResolveCandidates[i].candidate
    <3> SUFFICES ASSUME NEW i \in RetryInvariants
                 PROVE  ~ResolveCandidates[i].candidate
      OBVIOUS
    <3>1. pairs[1].retryResults[i].candidate => ~ResolveCandidates[i].candidate
      BY ConclusionOfPairs
    <3>2. ~pairs[1].retryResults[i].candidate =>
              ResolveCandidates[i] = pairs[1].retryResults[i]
      BY ConclusionOfPairs
    <3> QED
      BY <3>1, <3>2
  <2>2. \A i \in Candidates(pairs[1]) :
            i \in RetryInvariants /\ ResolveCandidates[i].verdict # "PASS"
    BY ConclusionOfPairs DEF Candidates
  <2>3. retrySafety.status = "PASS" =>
            \A i \in RetryInvariants : ResolveCandidates[i].verdict = "PASS"
    BY StatusOfConclusion
  <2>4. retrySafety.invariants = ResolveCandidates
    BY ConclusionOfPairs
  <2> QED
    BY <2>1, <2>2, <2>3, <2>4 DEF FinalVerdict, CandidateNeverPasses
<1> QED
  BY <1>1, EvaluationInvariant, PTL

(* A PASS on either axis stands on complete trials, cleaned-up worlds and  *)
(* full coverage.                                                          *)
THEOREM PassStandsOnEvidence == Spec => []PassIsSupported
<1>1. EvaluationInv => PassIsSupported
  <2> SUFFICES ASSUME EvaluationInv, Concluded
               PROVE  PassIsSupported
    BY DEF PassIsSupported
  <2>1. PairOK(pairs[1], coverage) /\ RetryInvariants # {}
    BY ConclusionOfPairs
  <2>2. ASSUME retrySafety.status = "PASS"
        PROVE  /\ "retry" \notin pairs[1].errors
               /\ \A i \in RetryInvariants :
                      pairs[1].retryResults[i].verdict = "PASS"
    BY <2>2, ConclusionOfPairs, StatusOfConclusion
  <2>3. ASSUME retrySafety.status = "PASS"
        PROVE  /\ pairs[1].clean /\ pairs[1].perturbed
               /\ pairs[1].perturbedCleanup = "pass"
               /\ \A i \in RetryInvariants : Missing(i, coverage) = {}
    BY <2>1, <2>2, <2>3 DEF PairOK
  <2>4. ASSUME cleanValidity.status = "PASS"
        PROVE  /\ pairs[1].clean
               /\ pairs[1].cleanCleanup = "pass"
               /\ \A c \in CleanAssertions : Missing(c, coverage) = {}
    <3>1. /\ "clean" \notin pairs[1].errors /\ CleanAssertions # {}
          /\ \A c \in CleanAssertions : pairs[1].cleanResults[c].verdict = "PASS"
      BY <2>4, StatusOfConclusion
    <3> QED
      BY <2>1, <3>1 DEF PairOK
  <2> QED
    BY <2>3, <2>4 DEF PassIsSupported
<1> QED
  BY <1>1, EvaluationInvariant, PTL

(* No error of one axis is reported on the other.                          *)
THEOREM AxesAreSeparate == Spec => []ErrorsStayOnTheirAxis
<1>1. EvaluationInv => ErrorsStayOnTheirAxis
  <2> SUFFICES ASSUME EvaluationInv, Concluded
               PROVE  ErrorsStayOnTheirAxis
    BY DEF ErrorsStayOnTheirAxis
  <2>1. PairOK(pairs[1], coverage)
    BY ConclusionOfPairs
  <2>2. cleanValidity.status = "ERROR" => "clean" \in pairs[1].errors
    BY <2>1, StatusOfConclusion DEF PairOK
  <2>3. /\ cleanValidity.status = "UNVERIFIED" =>
               CleanAssertions = {} /\ "clean" \notin pairs[1].errors
        /\ retrySafety.status # "UNVERIFIED"
    BY StatusOfConclusion
  <2>4. ASSUME NEW i \in RetryInvariants, ResolveCandidates[i].verdict = "ERROR",
               "retry" \notin pairs[1].errors
        PROVE  \E k \in DOMAIN Confirmations : Confirmations[k].errors # {}
    <3>1. pairs[1].retryResults[i].candidate
      <4>1. pairs[1].retryResults[i].verdict # "ERROR"
        BY <2>1, <2>4 DEF PairOK
      <4>2. ~pairs[1].retryResults[i].candidate =>
                ResolveCandidates[i] = pairs[1].retryResults[i]
        BY ConclusionOfPairs
      <4> QED
        BY <2>4, <4>1, <4>2
    <3>2. Len(pairs) = 3 /\ pairs \in Seq(PairResult)
      BY <3>1, ConclusionOfPairs DEF PairsComplete, Candidates
    <3>3. \A k \in 1..3 : PairOK(pairs[k], coverage)
      BY <3>2, ConclusionOfPairs
    <3>4. /\ Len(Confirmations) = 2 /\ DOMAIN Confirmations = 1..2
          /\ \A k \in 1..2 : Confirmations[k] = pairs[k + 1]
      BY <3>2 DEF Confirmations
    <3>5. \A k \in 1..2 : PairOK(Confirmations[k], coverage)
      BY <3>3, <3>4
    <3>6. ConfirmationFailed(i, Confirmations)
      <4>1. pairs[1].retryResults[i] \in InvariantResult
        BY <2>1 DEF PairOK, PairResult
      <4>2. \A v \in {"FAIL", "INCONCLUSIVE"}, why \in Explanation :
                Resolved(pairs[1].retryResults[i], v, why).verdict = v
        BY <4>1 DEF Resolved, InvariantResult
      <4>3. ResolveCandidates[i] =
                ResolveCandidate(i, pairs[1].retryResults[i], Confirmations)
        BY DEF ResolveCandidates
      <4>4. "reproduced" \in Explanation /\ "not_reproduced" \in Explanation
        BY DEF Explanation
      <4> QED
        BY <2>4, <3>1, <3>4, <4>2, <4>3, <4>4 DEF ResolveCandidate
    <3>7. PICK k \in 1..2 : \/ Confirmations[k].errors # {}
                           \/ Match(i, Confirmations[k]).verdict = "ERROR"
                           \/ Match(i, Confirmations[k]).missing # {}
      BY <3>4, <3>6 DEF ConfirmationFailed
    <3>8. Match(i, Confirmations[k]) = Confirmations[k].retryResults[i]
      BY <3>5 DEF PairOK, PairResult, Match
    <3>9. Match(i, Confirmations[k]).missing = {}
      <4>1. Missing(i, coverage) = {}
        BY <2>1, <3>1 DEF PairOK
      <4> QED
        BY <3>5, <3>8, <4>1 DEF PairOK
    <3>10. CASE Match(i, Confirmations[k]).verdict = "ERROR"
      BY <3>4, <3>5, <3>8, <3>10 DEF PairOK
    <3> QED
      BY <3>4, <3>7, <3>10, <3>9
  <2>5. retrySafety.status = "ERROR" =>
            \/ "retry" \in pairs[1].errors
            \/ \E k \in DOMAIN Confirmations : Confirmations[k].errors # {}
    BY <2>4, StatusOfConclusion
  <2> QED
    BY <2>2, <2>3, <2>5 DEF ErrorsStayOnTheirAxis
<1> QED
  BY <1>1, EvaluationInvariant, PTL

-----------------------------------------------------------------------------
(* Pairs are only ever appended, confirmations only to a candidate, and    *)
(* after the conclusion nothing changes (evaluate_case).                   *)
THEOREM EvidenceIsOnlyAdded == Spec => PairsOnlyAdded
<1> DEFINE OnlyAdded ==
               /\ Len(pairs') >= Len(pairs)
               /\ \A k \in DOMAIN pairs : pairs'[k] = pairs[k]
               /\ Len(pairs') > 1 => Candidates(pairs'[1]) # {}
               /\ retrySafety # None => UNCHANGED <<pairs, cleanValidity, retrySafety>>
<1>1. ASSUME EvaluationInv, [Next]_vars
      PROVE  OnlyAdded
  <2>1. EvaluationInv'
    BY <1>1, EvaluationInvNext
  <2>2. pairs \in Seq(PairResult)
    BY <1>1 DEF EvaluationInv, TypeOK
  <2>3. pairs' = pairs \/ \E pair : pairs' = Append(pairs, pair)
    BY <1>1 DEF Next, Progress, CheckConfiguration, Preflight, RecordScope, RunClean,
                RunPerturbed, AddPair, Conclude, Interrupt, vars
  <2>4. Len(pairs') >= Len(pairs) /\ \A k \in DOMAIN pairs : pairs'[k] = pairs[k]
    BY <2>2, <2>3
  <2>5. Len(pairs') > 1 => Candidates(pairs'[1]) # {}
    BY <2>1 DEF EvaluationInv, Candidates
  <2>6. retrySafety # None => control = "done"
    BY <1>1 DEF EvaluationInv
  <2>7. control = "done" => UNCHANGED <<pairs, cleanValidity, retrySafety>>
    BY <1>1 DEF Next, Progress, CheckConfiguration, Preflight, RecordScope, RunClean,
                RunPerturbed, Conclude, Interrupt, vars
  <2> QED
    BY <2>4, <2>5, <2>6, <2>7
<1>2. EvaluationInv /\ [Next]_vars => [OnlyAdded]_vars
  BY <1>1
<1>3. Spec => [][OnlyAdded]_vars
  BY <1>2, EvaluationInvariant, PTL DEF Spec
<1> QED
  BY <1>3 DEF PairsOnlyAdded

-----------------------------------------------------------------------------
(* What a capture relies on beyond what the axes do: how a result is       *)
(* explained, and which trials have evidence where it was concluded from.  *)

CleanExplained(results) ==
    \A c \in CleanAssertions :
        /\ results[c].verdict = "PASS" => results[c] = Concludes("PASS", "decision")
        /\ results[c].explanation # "fault_caught"

Contradicted == [Concludes("INCONCLUSIVE", "decision") EXCEPT !.candidate = TRUE]

RetryExplained(results, evidence) ==
    \A i \in RetryInvariants :
        /\ results[i].verdict = "PASS" => results[i] = Concludes("PASS", "decision")
        /\ results[i].candidate => results[i] = Contradicted /\ evidence
        /\ results[i].explanation = "fault_caught" => ~evidence

PairExplained(pair) ==
    /\ CleanExplained(pair.cleanResults)
    /\ RetryExplained(pair.retryResults, pair.perturbed)
    /\ pair.perturbed => pair.clean
    /\ \A i \in RetryInvariants :
           pair.retryResults[i].explanation = "fault_caught" => pair.clean

CaptureInv ==
    /\ \A k \in 1 .. Len(pairs) : PairExplained(pairs[k])
    /\ control = "perturbed_trial" => CleanExplained(clean.results)

LEMMA CleanResultExplained ==
    ASSUME NEW c, NEW cov, NEW d
    PROVE  /\ CleanResult(c, cov, d).verdict = "PASS" =>
                  CleanResult(c, cov, d) = Concludes("PASS", "decision")
           /\ CleanResult(c, cov, d).explanation # "fault_caught"
BY DEF CleanResult, WithoutEvidence, Concludes

LEMMA RetryResultExplained ==
    ASSUME NEW i, NEW cov, NEW d
    PROVE  /\ RetryResult(i, cov, d).verdict = "PASS" =>
                  RetryResult(i, cov, d) = Concludes("PASS", "decision")
           /\ RetryResult(i, cov, d).candidate => RetryResult(i, cov, d) = Contradicted
           /\ RetryResult(i, cov, d).explanation # "fault_caught"
BY DEF RetryResult, WithoutEvidence, Concludes, Contradicted

LEMMA CleanOutcomesExplained ==
    ASSUME NEW cov \in SurfaceCoverage, NEW o \in CleanOutcomes(cov)
    PROVE  CleanExplained(o.results)
<1>1. CASE o \in Evaluated(CleanEvaluations(cov))
  <2>1. PICK d : o.results = EvaluateClean(cov, d)
    BY <1>1 DEF Evaluated, CleanEvaluations
  <2>2. \A c \in CleanAssertions : o.results[c] = CleanResult(c, cov, d[c])
    BY <2>1 DEF EvaluateClean
  <2>3. ASSUME NEW c \in CleanAssertions
        PROVE  /\ o.results[c].verdict = "PASS" => o.results[c] = Concludes("PASS", "decision")
               /\ o.results[c].explanation # "fault_caught"
    <3>1. o.results[c] = CleanResult(c, cov, d[c])
      BY <2>2
    <3>2. /\ CleanResult(c, cov, d[c]).verdict = "PASS" =>
                 CleanResult(c, cov, d[c]) = Concludes("PASS", "decision")
          /\ CleanResult(c, cov, d[c]).explanation # "fault_caught"
      BY CleanResultExplained
    <3> QED
      BY <3>1, <3>2, Zenon
  <2> QED
    BY <2>3 DEF CleanExplained
<1>2. CASE o \in Invalid(CleanAssertions)
  <2>1. o.results = UniformResults(CleanAssertions, "ERROR", "trial_invalid")
    BY <1>2 DEF Invalid
  <2>2. \A c \in CleanAssertions : /\ o.results[c].verdict # "PASS"
                                   /\ o.results[c].explanation = "trial_invalid"
    BY <2>1, UniformResultsType DEF InvariantVerdict, Explanation
  <2> QED
    BY <2>2 DEF CleanExplained
<1> QED
  BY <1>1, <1>2 DEF CleanOutcomes

LEMMA PerturbedOutcomesExplained ==
    ASSUME NEW cov \in SurfaceCoverage, NEW o \in PerturbedOutcomes(cov)
    PROVE  RetryExplained(o.results, o.evidence)
<1>1. CASE o \in Evaluated(RetryEvaluations(cov))
  <2>1. PICK d : o.results = EvaluateRetry(cov, d)
    BY <1>1 DEF Evaluated, RetryEvaluations
  <2>2. \A i \in RetryInvariants : o.results[i] = RetryResult(i, cov, d[i])
    BY <2>1 DEF EvaluateRetry
  <2>3. o.evidence = TRUE
    BY <1>1 DEF Evaluated
  <2>4. ASSUME NEW i \in RetryInvariants
        PROVE  /\ o.results[i].verdict = "PASS" => o.results[i] = Concludes("PASS", "decision")
               /\ o.results[i].candidate => o.results[i] = Contradicted
               /\ o.results[i].explanation # "fault_caught"
    <3>1. o.results[i] = RetryResult(i, cov, d[i])
      BY <2>2
    <3>2. /\ RetryResult(i, cov, d[i]).verdict = "PASS" =>
                 RetryResult(i, cov, d[i]) = Concludes("PASS", "decision")
          /\ RetryResult(i, cov, d[i]).candidate => RetryResult(i, cov, d[i]) = Contradicted
          /\ RetryResult(i, cov, d[i]).explanation # "fault_caught"
      BY RetryResultExplained
    <3> QED
      BY <3>1, <3>2, Zenon
  <2> QED
    BY <2>3, <2>4 DEF RetryExplained
<1>2. CASE o \in Invalid(RetryInvariants)
  <2>1. o.results = UniformResults(RetryInvariants, "ERROR", "trial_invalid")
    BY <1>2 DEF Invalid
  <2>2. \A i \in RetryInvariants : /\ o.results[i].verdict # "PASS"
                                   /\ o.results[i].explanation = "trial_invalid"
                                   /\ ~o.results[i].candidate
    BY <2>1, UniformResultsType DEF InvariantVerdict, Explanation
  <2> QED
    BY <2>1, <2>2 DEF RetryExplained
<1>3. CASE o = Unreached
  <2>1. o.results = UniformResults(RetryInvariants, "INCONCLUSIVE", "boundary_not_reached")
    BY <1>3 DEF Unreached
  <2>2. \A i \in RetryInvariants : /\ o.results[i].verdict # "PASS"
                                   /\ o.results[i].explanation = "boundary_not_reached"
                                   /\ ~o.results[i].candidate
    BY <2>1, UniformResultsType DEF InvariantVerdict, Explanation
  <2> QED
    BY <2>1, <2>2 DEF RetryExplained
<1>4. CASE o = Swallowed
  <2>1. o.results = UniformResults(RetryInvariants, "ERROR", "fault_caught") /\ o.evidence = FALSE
    BY <1>4 DEF Swallowed
  <2>2. \A i \in RetryInvariants : /\ o.results[i].verdict # "PASS"
                                   /\ o.results[i].explanation = "fault_caught"
                                   /\ ~o.results[i].candidate
    BY <2>1, UniformResultsType DEF InvariantVerdict, Explanation
  <2> QED
    BY <2>1, <2>2 DEF RetryExplained
<1> QED
  BY <1>1, <1>2, <1>3, <1>4 DEF PerturbedOutcomes

LEMMA CaptureInvInit == Init => CaptureInv
<1> SUFFICES ASSUME Init PROVE CaptureInv
  OBVIOUS
<1>1. Len(pairs) = 0 /\ control = "configuration"
  BY DEF Init
<1> QED
  BY <1>1 DEF CaptureInv

LEMMA AddPairExplained ==
    ASSUME EvaluationInv, CaptureInv, NEW pair, PairExplained(pair), AddPair(pair)
    PROVE  CaptureInv'
<1>1. pairs \in Seq(PairResult)
  BY DEF EvaluationInv, TypeOK
<1>2. /\ Len(pairs') = Len(pairs) + 1 /\ pairs'[Len(pairs) + 1] = pair
      /\ \A k \in 1 .. Len(pairs) : pairs'[k] = pairs[k]
  BY <1>1 DEF AddPair
<1>3. \A k \in 1 .. Len(pairs') : PairExplained(pairs'[k])
  <2> TAKE k \in 1 .. Len(pairs')
  <2>1. k \in 1 .. Len(pairs) \/ k = Len(pairs) + 1
    BY <1>1, <1>2
  <2> QED
    BY <1>2, <2>1 DEF CaptureInv
<1>4. control' # "perturbed_trial"
  BY DEF AddPair, AfterPair
<1> QED
  BY <1>3, <1>4 DEF CaptureInv

LEMMA CaptureInvNext == EvaluationInv /\ CaptureInv /\ [Next]_vars => CaptureInv'
<1> SUFFICES ASSUME EvaluationInv, CaptureInv, [Next]_vars
             PROVE  CaptureInv'
  OBVIOUS
<1>0. coverage \in SurfaceCoverage
  BY DEF EvaluationInv, TypeOK
<1>1. CASE \/ CheckConfiguration \/ Preflight \/ RecordScope \/ Conclude \/ Interrupt
           \/ UNCHANGED vars
  <2>1. pairs' = pairs /\ clean' = clean
        /\ (control' = "perturbed_trial" => control = "perturbed_trial")
    BY <1>1 DEF CheckConfiguration, Preflight, RecordScope, Conclude, Interrupt, vars
  <2> QED
    BY <2>1 DEF CaptureInv
<1>2. ASSUME NEW o \in CleanOutcomes(coverage), RunClean(o)
      PROVE  CaptureInv'
  <2>1. CleanExplained(o.results)
    BY <1>0, CleanOutcomesExplained
  <2>2. CASE o.evidence
    <3>1. clean' = o /\ pairs' = pairs
      BY <1>2, <2>2 DEF RunClean
    <3> QED
      BY <2>1, <3>1 DEF CaptureInv
  <2>3. CASE ~o.evidence
    <3> DEFINE pair == WithoutCleanEvidence(o)
    <3>1. /\ pair.clean = FALSE /\ pair.perturbed = FALSE /\ pair.cleanResults = o.results
          /\ pair.retryResults = UniformResults(RetryInvariants, "ERROR", "no_clean_reference")
      BY DEF WithoutCleanEvidence
    <3> HIDE DEF pair
    <3>2. \A i \in RetryInvariants :
              /\ pair.retryResults[i].verdict # "PASS"
              /\ pair.retryResults[i].explanation = "no_clean_reference"
              /\ ~pair.retryResults[i].candidate
      BY <3>1, UniformResultsType DEF InvariantVerdict, Explanation
    <3>3. PairExplained(pair)
      BY <2>1, <3>1, <3>2 DEF PairExplained, RetryExplained
    <3>4. AddPair(pair)
      BY <1>2, <2>3 DEF RunClean, pair
    <3> QED
      BY <3>3, <3>4, AddPairExplained
  <2> QED
    BY <2>2, <2>3
<1>3. ASSUME NEW o \in PerturbedOutcomes(coverage), RunPerturbed(o)
      PROVE  CaptureInv'
  <2> DEFINE pair == Compared(clean, o)
  <2>1. /\ pair.clean = TRUE /\ pair.perturbed = o.evidence
        /\ pair.cleanResults = clean.results /\ pair.retryResults = o.results
    BY DEF Compared
  <2>2. AddPair(pair) /\ CleanExplained(clean.results)
    BY <1>3 DEF RunPerturbed, CaptureInv
  <2>3. RetryExplained(o.results, o.evidence)
    BY <1>0, PerturbedOutcomesExplained
  <2> HIDE DEF pair
  <2>4. PairExplained(pair)
    BY <2>1, <2>2, <2>3 DEF PairExplained
  <2> QED
    BY <2>2, <2>4, AddPairExplained
<1> QED
  BY <1>1, <1>2, <1>3 DEF Next, Progress

LEMMA CaptureInvariant == Spec => []CaptureInv
BY EvaluationInvariant, CaptureInvInit, CaptureInvNext, PTL DEF Spec

(* A trial with evidence had a world, and the tracker has its record.      *)
LEMMA EvidenceIsTracked ==
    ASSUME CaptureInv, pairs \in Seq(PairResult), NEW worlds \in TrackedWorlds
    PROVE  /\ worlds \subseteq Trials
           /\ \A t \in Trials : HasEvidence(t) => t \in worlds
<1> DEFINE started == {t \in Trials : t[2] = "perturbed" => pairs[t[1]].clean}
<1>1. worlds \subseteq started /\ \A t \in started \ worlds : MayLackWorld(t)
  BY DEF TrackedWorlds
<1>2. ASSUME NEW t \in Trials, HasEvidence(t)
      PROVE  t \in worlds
  <2>1. t[1] \in 1 .. Len(pairs) /\ t[2] \in {"clean", "perturbed"}
    BY DEF Trials
  <2>2. PairExplained(pairs[t[1]])
    BY <2>1 DEF CaptureInv
  <2>3. t \in started
    BY <1>2, <2>1, <2>2 DEF HasEvidence, PairExplained
  <2> QED
    BY <1>1, <1>2, <2>3 DEF MayLackWorld
<1> QED
  BY <1>1, <1>2

(* An explanation that is not registered is of a trial without evidence.   *)
LEMMA ResolvedExplanation ==
    ASSUME NEW i, NEW p \in InvariantResult, NEW rest
    PROVE  \/ ResolveCandidate(i, p, rest) = p
           \/ ResolveCandidate(i, p, rest).explanation # "fault_caught"
<1>1. \A v, why : why # "fault_caught" => Resolved(p, v, why).explanation # "fault_caught"
  BY DEF Resolved, InvariantResult
<1> QED
  BY <1>1 DEF ResolveCandidate

LEMMA ExplanationsAreRegistered ==
    ASSUME EvaluationInv, CaptureInv, Concluded, NEW worlds \in TrackedWorlds,
           \A t \in worlds : HasEvidence(t)
    PROVE  \A result \in Results : result.explanation \notin Unregistered
<1>0. /\ pairs \in Seq(PairResult) /\ Len(pairs) > 0
      /\ \A k \in 1 .. Len(pairs) : pairs[k] \in PairResult /\ PairExplained(pairs[k])
  BY ConclusionOfPairs DEF PairsComplete, CaptureInv
<1>1. \A k \in 1 .. Len(pairs) : \A c \in CleanAssertions :
          pairs[k].cleanResults[c].explanation # "fault_caught"
  BY <1>0 DEF PairExplained, CleanExplained
<1>2. ASSUME NEW k \in 1 .. Len(pairs), NEW i \in RetryInvariants,
             pairs[k].retryResults[i].explanation = "fault_caught"
      PROVE  FALSE
  <2> DEFINE t == <<k, "perturbed">>
  <2>1. t \in Trials /\ t[1] = k /\ t[2] = "perturbed"
    BY <1>0 DEF Trials
  <2>2. pairs[k].clean /\ ~pairs[k].perturbed
    BY <1>0, <1>2 DEF PairExplained, RetryExplained
  <2>3. ~HasEvidence(t)
    BY <2>1, <2>2 DEF HasEvidence
  <2>4. ~MayLackWorld(t)
    BY <1>2, <2>1 DEF MayLackWorld
  <2> HIDE DEF t
  <2>5. t \in worlds
    BY <2>1, <2>2, <2>4 DEF TrackedWorlds
  <2> QED
    BY <2>3, <2>5
<1>3. \A c \in CleanAssertions : cleanValidity.invariants[c].explanation # "fault_caught"
  <2>1. cleanValidity.invariants = pairs[1].cleanResults
    <3> DEFINE status == Aggregate(pairs[1].cleanResults, TRUE, "clean" \in pairs[1].errors)
    <3>1. cleanValidity = [status |-> status, invariants |-> pairs[1].cleanResults]
      BY DEF EvaluationInv, Concluded
    <3> HIDE DEF status
    <3> QED
      BY <3>1
  <2> QED
    BY <1>0, <1>1, <2>1
<1>4. \A i \in RetryInvariants : retrySafety.invariants[i].explanation # "fault_caught"
  <2> TAKE i \in RetryInvariants
  <2>1. pairs[1].retryResults[i] \in InvariantResult
    BY <1>0 DEF PairResult
  <2>2. retrySafety.invariants[i] =
            ResolveCandidate(i, pairs[1].retryResults[i], Confirmations)
    BY ConclusionOfPairs DEF ResolveCandidates
  <2> QED
    BY <1>0, <1>2, <2>1, <2>2, ResolvedExplanation
<1> QED
  BY <1>0, <1>1, <1>2, <1>3, <1>4 DEF Results, Unregistered

(* An axis FAILs by one of its invariants.                                 *)
LEMMA AggregateFails ==
    ASSUME NEW names, NEW results \in [names -> InvariantResult],
           NEW unverified \in BOOLEAN, NEW failed \in BOOLEAN,
           Aggregate(results, unverified, failed) = "FAIL"
    PROVE  \E n \in names : results[n].verdict = "FAIL"
<1> DEFINE verdicts == {results[n].verdict : n \in DOMAIN results}
<1>1. "FAIL" \in verdicts
  <2>1. Aggregate(results, unverified, failed) =
            IF verdicts = {} THEN IF unverified /\ ~failed THEN "UNVERIFIED" ELSE "ERROR"
            ELSE IF "FAIL" \in verdicts THEN "FAIL"
            ELSE IF failed \/ "ERROR" \in verdicts THEN "ERROR"
            ELSE IF "INCONCLUSIVE" \in verdicts THEN "INCONCLUSIVE"
            ELSE "PASS"
    BY DEF Aggregate
  <2> HIDE DEF verdicts
  <2> QED
    BY <2>1
<1> QED
  BY <1>1

(* The axes that _build_report wants, read from the pairs.                 *)
LEMMA CleanAsRegistered ==
    ASSUME EvaluationInv, CaptureInv, Concluded, cleanValidity.status = "PASS"
    PROVE  /\ pairs[1].cleanResults = ExpectedClean
           /\ cleanValidity = [status |-> "PASS", invariants |-> ExpectedClean]
<1>1. /\ Len(pairs) > 0 /\ pairs[1] \in PairResult /\ PairExplained(pairs[1])
  BY ConclusionOfPairs DEF PairsComplete, CaptureInv
<1>2. \A c \in CleanAssertions : pairs[1].cleanResults[c] = Concludes("PASS", "decision")
  BY <1>1, StatusOfConclusion DEF PairExplained, CleanExplained
<1>3. pairs[1].cleanResults = ExpectedClean
  <2>1. pairs[1].cleanResults \in [CleanAssertions -> InvariantResult]
    BY <1>1 DEF PairResult
  <2> QED
    BY <1>2, <2>1 DEF ExpectedClean
<1>4. cleanValidity = [status |-> "PASS", invariants |-> pairs[1].cleanResults]
  <2> DEFINE status == Aggregate(pairs[1].cleanResults, TRUE, "clean" \in pairs[1].errors)
  <2>1. cleanValidity = [status |-> status, invariants |-> pairs[1].cleanResults]
    BY DEF EvaluationInv, Concluded
  <2> HIDE DEF status
  <2>2. cleanValidity.status = status
    BY <2>1
  <2> QED
    BY <2>1, <2>2
<1> QED
  BY <1>3, <1>4

LEMMA RetryAxis ==
    ASSUME EvaluationInv, Concluded
    PROVE  retrySafety = [status |-> retrySafety.status, invariants |-> ResolveCandidates]
<1> DEFINE status == Aggregate(ResolveCandidates, FALSE, "retry" \in pairs[1].errors)
<1>1. retrySafety = [status |-> status, invariants |-> ResolveCandidates]
  BY DEF EvaluationInv, Concluded
<1> HIDE DEF status
<1> QED
  BY <1>1

(* A keyed subject passes: one pair, no candidate in it.                   *)
LEMMA PassAsRegistered ==
    ASSUME EvaluationInv, CaptureInv, CandidateNeverPasses, PassIsSupported, Concluded,
           retrySafety.status = "PASS"
    PROVE  /\ Len(pairs) = 1
           /\ pairs[1].clean /\ pairs[1].perturbed
           /\ pairs[1].retryResults = ExpectedComparison("keyed")
           /\ retrySafety = [status |-> "PASS", invariants |-> ExpectedRetry("keyed")]
<1>1. Candidates(pairs[1]) = {}
  BY DEF CandidateNeverPasses
<1>2. Len(pairs) = 1 /\ pairs[1] \in PairResult /\ PairExplained(pairs[1])
  <2>1. Len(pairs) = 1 /\ pairs[1] \in PairResult
    BY <1>1, ConclusionOfPairs DEF PairsComplete
  <2>2. \A k \in 1 .. Len(pairs) : PairExplained(pairs[k])
    BY DEF CaptureInv
  <2>3. 1 \in 1 .. Len(pairs)
    BY <2>1
  <2>4. PairExplained(pairs[1])
    BY <2>2, <2>3, Zenon
  <2> QED
    BY <2>1, <2>4
<1>3. \A i \in RetryInvariants :
          /\ pairs[1].retryResults[i] = Concludes("PASS", "decision")
          /\ ResolveCandidates[i] = Concludes("PASS", "decision")
  <2> TAKE i \in RetryInvariants
  <2>1. ~pairs[1].retryResults[i].candidate
    BY <1>1 DEF Candidates
  <2>2. ResolveCandidates[i] = pairs[1].retryResults[i]
    BY <2>1, ConclusionOfPairs
  <2>3. ResolveCandidates[i].verdict = "PASS"
    BY StatusOfConclusion
  <2> QED
    BY <1>2, <2>2, <2>3 DEF PairExplained, RetryExplained
<1>4. pairs[1].retryResults = ExpectedComparison("keyed")
  <2>1. pairs[1].retryResults \in [RetryInvariants -> InvariantResult]
    BY <1>2 DEF PairResult
  <2> QED
    BY <1>3, <2>1 DEF ExpectedComparison
<1>5. ResolveCandidates = ExpectedRetry("keyed")
  BY <1>3 DEF ResolveCandidates, ExpectedRetry
<1> QED
  BY <1>2, <1>4, <1>5, RetryAxis DEF PassIsSupported

(* An unsafe one fails: three pairs whose one invariant is contradicted.   *)
LEMMA FailAsRegistered ==
    ASSUME EvaluationInv, CaptureInv, FailIsReproduced, Concluded,
           NEW only, RetryInvariants = {only}, retrySafety.status = "FAIL"
    PROVE  /\ Len(pairs) = 3
           /\ \A k \in 1..3 : /\ pairs[k].clean /\ pairs[k].perturbed
                              /\ pairs[k].retryResults = ExpectedComparison("unsafe")
           /\ retrySafety = [status |-> "FAIL", invariants |-> ExpectedRetry("unsafe")]
<1>0. ResolveCandidates \in [RetryInvariants -> InvariantResult]
  BY ConclusionOfPairs
<1>1. ResolveCandidates[only].verdict = "FAIL"
  <2> DEFINE failed == "retry" \in pairs[1].errors
  <2>1. Aggregate(ResolveCandidates, FALSE, failed) = "FAIL"
    BY ConclusionOfPairs
  <2>2. failed \in BOOLEAN
    OBVIOUS
  <2> HIDE DEF failed
  <2>3. \E n \in RetryInvariants : ResolveCandidates[n].verdict = "FAIL"
    BY <1>0, <2>1, <2>2, AggregateFails
  <2> QED
    BY <2>3
<1>2. Len(pairs) = 3 /\ \A k \in 1..3 : only \in Candidates(pairs[k])
  BY <1>1, ConclusionOfPairs DEF FailIsReproduced, FinalVerdict
<1>3. \A k \in 1..3 : pairs[k] \in PairResult /\ PairExplained(pairs[k])
  <2>1. 1 .. Len(pairs) = 1..3
    BY <1>2
  <2>2. \A k \in 1 .. Len(pairs) : pairs[k] \in PairResult
    <3>1. pairs \in Seq(PairResult)
      BY ConclusionOfPairs
    <3> QED
      BY <3>1
  <2>3. \A k \in 1 .. Len(pairs) : PairExplained(pairs[k])
    BY DEF CaptureInv
  <2> QED
    BY <2>1, <2>2, <2>3, Zenon
<1>4. \A k \in 1..3 : /\ pairs[k].retryResults[only] = Contradicted
                      /\ pairs[k].clean /\ pairs[k].perturbed
  BY <1>2, <1>3 DEF PairExplained, RetryExplained, Candidates
<1>5. \A k \in 1..3 : pairs[k].retryResults = ExpectedComparison("unsafe")
  <2> TAKE k \in 1..3
  <2>1. pairs[k].retryResults \in [RetryInvariants -> InvariantResult]
    BY <1>3 DEF PairResult
  <2> QED
    BY <1>4, <2>1 DEF ExpectedComparison, Contradicted
<1>6. ResolveCandidates[only] = Concludes("FAIL", "reproduced")
  <2> DEFINE p == pairs[1].retryResults[only]
  <2>1. p = Contradicted /\ p \in InvariantResult /\ p.candidate
    BY <1>2, <1>3, <1>4 DEF Candidates, PairResult
  <2>2. ResolveCandidates[only] = ResolveCandidate(only, p, Confirmations)
    BY DEF ResolveCandidates
  <2> HIDE DEF p
  <2>3. p.candidate /\ p.missing = {}
    BY <2>1 DEF Contradicted, Concludes
  <2>4. Resolved(p, "FAIL", "reproduced") = Concludes("FAIL", "reproduced")
    <3> DEFINE r == Resolved(p, "FAIL", "reproduced")
    <3>1. r \in InvariantResult
      BY <2>1 DEF Resolved, InvariantResult, InvariantVerdict, Explanation
    <3>2. /\ r.verdict = "FAIL" /\ r.explanation = "reproduced"
          /\ r.missing = {} /\ r.candidate = FALSE
      BY <2>1, <2>3 DEF Resolved, InvariantResult
    <3> QED
      BY <3>1, <3>2 DEF InvariantResult, Concludes
  <2>5. \A v, why : Resolved(p, v, why).verdict = v
    BY <2>1 DEF Resolved, InvariantResult
  <2> QED
    BY <1>1, <2>3, <2>2, <2>4, <2>5 DEF ResolveCandidate
<1>7. ResolveCandidates = ExpectedRetry("unsafe")
  BY <1>0, <1>6 DEF ExpectedRetry
<1> QED
  BY <1>2, <1>4, <1>5, <1>7, RetryAxis

(* For any case with one retry invariant, as the MCP case is: whatever the *)
(* trials ended with and whatever worlds the tracker recorded, capture and *)
(* report refuse nothing that the kernel decided on whole evidence and let *)
(* nothing else pass.                                                      *)
THEOREM CapturesAreFaithful ==
    ASSUME NEW only, RetryInvariants = {only}
    PROVE  Spec => []CapturesFollowConclusions
<1>1. ASSUME EvaluationInv, CaptureInv, FailIsReproduced, CandidateNeverPasses,
             PassIsSupported, Concluded, ScopeIsRegistered
      PROVE  CapturesFollowConclusions
  <2>0. /\ pairs \in Seq(PairResult) /\ Len(pairs) > 0 /\ DOMAIN pairs = 1 .. Len(pairs)
        /\ \A k \in 1 .. Len(pairs) : PairOK(pairs[k], coverage)
    BY <1>1, ConclusionOfPairs DEF PairsComplete
  <2>1. ASSUME NEW worlds \in TrackedWorlds, NEW left \in LeftBehind(worlds)
        PROVE  Captures(worlds, left) <=> left = {} /\ \A t \in worlds : HasEvidence(t)
    <3>1. worlds \subseteq Trials /\ \A t \in Trials : HasEvidence(t) => t \in worlds
      BY <1>1, <2>0, EvidenceIsTracked
    <3>2. RecordsMatch(worlds, left) <=> left = {} /\ \A t \in worlds : HasEvidence(t)
      BY <3>1 DEF RecordsMatch
    <3>3. (\A t \in worlds : HasEvidence(t)) =>
              \A result \in Results : result.explanation \notin Unregistered
      BY <1>1, ExplanationsAreRegistered
    <3> QED
      BY <1>1, <3>2, <3>3 DEF Captures
  <2>2. ASSUME NEW mode \in Mode
        PROVE  Reports(mode) <=>
                   /\ cleanValidity.status = "PASS"
                   /\ retrySafety.status = IF mode = "keyed" THEN "PASS" ELSE "FAIL"
                   /\ \A k \in DOMAIN pairs :
                          /\ pairs[k].errors = {}
                          /\ pairs[k].cleanResults = pairs[1].cleanResults
    <3>1. ASSUME Reports(mode)
          PROVE  /\ cleanValidity.status = "PASS"
                 /\ retrySafety.status = IF mode = "keyed" THEN "PASS" ELSE "FAIL"
                 /\ \A k \in DOMAIN pairs :
                        /\ pairs[k].errors = {}
                        /\ pairs[k].cleanResults = pairs[1].cleanResults
      <4>1. \A k \in DOMAIN pairs :
                pairs[k].errors = {} /\ pairs[k].cleanResults = ExpectedClean
        BY <3>1 DEF Reports, PairIsReportable
      <4>2. 1 \in DOMAIN pairs
        BY <2>0
      <4> QED
        BY <3>1, <4>1, <4>2 DEF Reports
    <3>2. ASSUME cleanValidity.status = "PASS",
                 retrySafety.status = IF mode = "keyed" THEN "PASS" ELSE "FAIL",
                 \A k \in DOMAIN pairs : /\ pairs[k].errors = {}
                                         /\ pairs[k].cleanResults = pairs[1].cleanResults
          PROVE  Reports(mode)
      <4>1. /\ pairs[1].cleanResults = ExpectedClean
            /\ cleanValidity = [status |-> "PASS", invariants |-> ExpectedClean]
        BY <1>1, <3>2, CleanAsRegistered
      <4>2. \A k \in DOMAIN pairs : /\ pairs[k].errors = {}
                                    /\ pairs[k].cleanResults = ExpectedClean
                                    /\ pairs[k].cleanCleanup = "pass"
                                    /\ pairs[k].perturbedCleanup = "pass"
        BY <2>0, <3>2, <4>1 DEF PairOK
      <4>3. CASE mode = "keyed"
        <5>1. /\ Len(pairs) = 1 /\ pairs[1].clean /\ pairs[1].perturbed
              /\ pairs[1].retryResults = ExpectedComparison(mode)
              /\ retrySafety = [status |-> "PASS", invariants |-> ExpectedRetry(mode)]
          BY <1>1, <3>2, <4>3, PassAsRegistered
        <5>2. \A k \in DOMAIN pairs : k = 1
          BY <2>0, <5>1
        <5> QED
          BY <4>1, <4>2, <4>3, <5>1, <5>2 DEF Reports, PairIsReportable
      <4>4. CASE mode = "unsafe"
        <5>1. /\ Len(pairs) = 3
              /\ \A k \in 1..3 : /\ pairs[k].clean /\ pairs[k].perturbed
                                 /\ pairs[k].retryResults = ExpectedComparison(mode)
              /\ retrySafety = [status |-> "FAIL", invariants |-> ExpectedRetry(mode)]
          BY <1>1, <3>2, <4>4, FailAsRegistered
        <5>2. DOMAIN pairs = 1..3
          BY <2>0, <5>1
        <5> QED
          BY <4>1, <4>2, <4>4, <5>1, <5>2 DEF Reports, PairIsReportable
      <4> QED
        BY <4>3, <4>4 DEF Mode
    <3> QED
      BY <3>1, <3>2
  <2>3. ASSUME NEW worlds \in TrackedWorlds, retrySafety.status \in {"PASS", "FAIL"}
        PROVE  \A t \in worlds : HasEvidence(t)
    <3>1. \A k \in 1 .. Len(pairs) : pairs[k].clean /\ pairs[k].perturbed
      <4>1. CASE retrySafety.status = "PASS"
        <5>1. Len(pairs) = 1 /\ pairs[1].clean /\ pairs[1].perturbed
          BY <1>1, <4>1, PassAsRegistered
        <5> QED
          BY <5>1
      <4>2. CASE retrySafety.status = "FAIL"
        BY <1>1, <4>2, FailAsRegistered
      <4> QED
        BY <2>3, <4>1, <4>2
    <3>2. worlds \subseteq Trials
      BY <1>1, <2>0, EvidenceIsTracked
    <3> QED
      BY <2>0, <3>1, <3>2 DEF Trials, HasEvidence
  <2>4. ASSUME NEW worlds \in TrackedWorlds, NEW left \in LeftBehind(worlds),
               NEW mode \in Mode, Reports(mode)
        PROVE  Captures(worlds, left)
    <3>1. worlds \subseteq Trials
      BY <1>1, <2>0, EvidenceIsTracked
    <3>2. \A t \in worlds : HasEvidence(t) /\ CleanupOf(t) = "pass"
      BY <2>4, <3>1 DEF Trials, HasEvidence, CleanupOf, Reports, PairIsReportable
    <3>3. left = {}
      BY <3>2 DEF LeftBehind
    <3> QED
      BY <2>1, <3>2, <3>3
  <2> QED
    BY <2>1, <2>2, <2>3, <2>4 DEF CapturesFollowConclusions
<1>2. EvaluationInv /\ CaptureInv /\ FailIsReproduced /\ CandidateNeverPasses /\ PassIsSupported
          => CapturesFollowConclusions
  BY <1>1 DEF CapturesFollowConclusions
<1> QED
  BY <1>2, EvaluationInvariant, CaptureInvariant, FailureIsConfirmed,
     ContradictionIsNotForgotten, PassStandsOnEvidence, PTL
=============================================================================
