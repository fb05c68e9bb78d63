----------------------------- MODULE SourceRounds ------------------------------
(* What decides in a source optimisation and who checks it again: the planner   *)
(* that chooses a target, the performance gate over the samples, the parent     *)
(* that advances with accepted candidates, the result file, and the server that *)
(* verifies the file before it shows a best kernel and a gain.                  *)
(*                                                                              *)
(* Commands, restores and their faults are in SourceOptimizer; here a version   *)
(* runs or fails, and a publication succeeds or fails.  Latencies are integers; *)
(* samples are listed in increasing order, which no definition but the median   *)
(* looks at.                                                                    *)
EXTENDS Integers, Sequences, FiniteSets

CONSTANTS Versions, Baseline,   \* sources by hash
          TargetsOf,            \* the targets found in each, in order
          Rewrite,              \* the source a target makes of it
          TemplateOf,           \* the rewriting of each target
          Samples,              \* the samples a benchmark may measure
          Codegens,             \* the code generation evidence a build may leave
          Threshold,            \* min_improvement_percent
          Budget,               \* max_candidates
          MinimumRepeats        \* 3

ASSUME RoundsAssumption ==
  /\ Baseline \in Versions /\ TargetsOf[Baseline] # <<>> /\ Threshold \in Nat /\ Budget \in Nat
  /\ MinimumRepeats \in Nat \ {0} /\ Samples \subseteq Seq(Int)

VARIABLES phase,         \* where run_source_optimization is
          cancelled,     \* the cancel flag
          round, parent, \* the round, and the version it builds on
          plan,          \* the plan of the round
          trial,         \* the candidate of the round
          attempted,     \* targets and sources tried so far
          observed,      \* versions with an eligible metric observation of their own
          result,        \* source_optimization.json
          bestKernel     \* best_kernel.py

vars == <<phase, cancelled, round, parent, plan, trial, attempted, observed, result, bestKernel>>

None == "none"
NoId == 0
NotMeasured == <<>>

(* -- performance.py ----------------------------------------------------------- *)
\* The hash of the generated source, or why there is none.
Digest(codegen) == IF codegen \in {"unavailable", "inconsistent"} THEN None ELSE codegen

\* Twice the median.
Median(s) == s[(Len(s) + 1) \div 2] + s[Len(s) \div 2 + 1]
Least(s) == CHOOSE v \in {s[i] : i \in DOMAIN s} : \A i \in DOMAIN s : v <= s[i]
Greatest(s) == CHOOSE v \in {s[i] : i \in DOMAIN s} : \A i \in DOMAIN s : v >= s[i]
Improves(before, after) ==
  before > after /\ (before - after) * 100 >= Threshold * before

AssessmentOf(decision, status) == [decision |-> decision, codegen_status |-> status]
(* Mutant: the repeated parent is not among the controls.                       *)
AssessWithoutControl(baseline, candidate, before, after, recheck, needs) ==
  LET status == IF Digest(before) = None \/ Digest(after) = None THEN "unavailable" ELSE "changed"
  IN IF before = after \/ ~Improves(Least(baseline), Greatest(candidate))
     THEN AssessmentOf("inconclusive", status) ELSE AssessmentOf("accepted", status)

\* recheck is NotMeasured when there is none; needs = "recheck" is require_recheck.
AssessPerformance(baseline, candidate, before, after, recheck, needs) ==
  LET status == IF Digest(before) = None \/ Digest(after) = None THEN "unavailable"
                ELSE IF Digest(before) = Digest(after) THEN "unchanged" ELSE "changed"
      controls == baseline \o recheck
      groups == {baseline, candidate} \cup (IF recheck = NotMeasured THEN {} ELSE {recheck})
  IN IF "inconsistent" \in {before, after} THEN AssessmentOf("inconclusive", "inconsistent")
     ELSE IF status = "unchanged" THEN AssessmentOf("codegen_unchanged", status)
     ELSE IF \E s \in groups : Len(s) < MinimumRepeats \/ \E i \in DOMAIN s : s[i] <= 0
       THEN AssessmentOf("inconclusive", status)
     ELSE IF ~Improves(Median(baseline), Median(candidate)) THEN AssessmentOf("no_improvement", status)
     ELSE IF ~Improves(Least(controls), Greatest(candidate)) THEN AssessmentOf("inconclusive", status)
     ELSE IF needs = "recheck" /\ recheck = NotMeasured THEN AssessmentOf("inconclusive", status)
     ELSE AssessmentOf("accepted", status)

NoGate == [decision |-> None]
Gate(baseline, candidate, before, after, recheck, needs) ==
  LET found == AssessPerformance(baseline, candidate, before, after, recheck, needs)
  IN [decision |-> found.decision, codegen_status |-> found.codegen_status,
      baseline |-> baseline, candidate |-> candidate, recheck |-> recheck,
      before |-> Digest(before), after |-> Digest(after),
      recheck_passed |-> found.decision = "accepted" /\ recheck # NotMeasured]

Recorded(digest) == IF digest = None THEN "unavailable" ELSE digest
SavedGateIsAccepted(gate) ==
  /\ gate # NoGate
  /\ gate.decision = "accepted" /\ gate.recheck_passed
  /\ gate.codegen_status \in {"changed", "unavailable"}
  /\ AssessPerformance(gate.baseline, gate.candidate, Recorded(gate.before), Recorded(gate.after),
                       gate.recheck, "recheck") = AssessmentOf("accepted", gate.codegen_status)

(* -- planner.py ---------------------------------------------------------------- *)
Open(version) == {i \in DOMAIN TargetsOf[version] : <<version, TargetsOf[version][i]>> \notin attempted.targets}
OpenTargets(version) == {TargetsOf[version][i] : i \in Open(version)}

Templates == {TemplateOf[t] : t \in DOMAIN TemplateOf}
Proposals == [decision : {"attempt", "stop"}, target : DOMAIN TemplateOf \cup {None},
              template : Templates \cup {None, "unknown"}, evidence : SUBSET observed,
              hardware : BOOLEAN, low : BOOLEAN]

(* Mutant: a target of an earlier round is still taken.                          *)
WellFoundedIfKnown(p, targets, eligible) ==
  p.evidence \subseteq eligible /\ (p.decision = "attempt" => p.target # None /\ p.template # None)
WellFounded(p, targets, eligible) ==
  /\ p.evidence \subseteq eligible
  /\ p.hardware => p.evidence # {}
  /\ p.evidence = {} => p.low
  /\ IF p.decision = "attempt"
     THEN /\ p.target \in targets /\ p.template # None
          /\ p.template = TemplateOf[p.target]
             \/ p.template \notin {TemplateOf[t] : t \in targets}
     ELSE p.target = None /\ p.template = None

\* A template nobody implements turns the attempt into a stop.
ValidatedPlan(p) ==
  [decision |-> IF p.decision = "attempt" /\ p.template = TemplateOf[p.target] THEN "attempt" ELSE "stop",
   target |-> IF p.decision = "attempt" /\ p.template = TemplateOf[p.target] THEN p.target ELSE None,
   evidence |-> p.evidence]
\* Without an answer the first open target is attempted.
RuleBasedPlans(version) ==
  IF Open(version) = {} THEN {[decision |-> "stop", target |-> None, evidence |-> {}]}
  ELSE {[decision |-> "attempt", target |-> TargetsOf[version][i], evidence |-> {}] :
          i \in {k \in Open(version) : \A j \in Open(version) : k <= j}}
NoPlan == [decision |-> None, target |-> None, evidence |-> {}]

(* -- app.py: what the server makes of the result --------------------------------- *)
AcceptedOf(res) == {i \in DOMAIN res.trials : res.trials[i].status = "accepted"}
Latest(S) == CHOOSE i \in S : \A j \in S : j <= i
GateMatches(t) ==
  /\ t.correct /\ t.executed = t.after
  /\ SavedGateIsAccepted(t.gate)
  /\ t.gate.baseline = t.baseline_samples /\ t.gate.candidate = t.candidate_samples

\* What the trial at place i had to build on: the last accepted one before it.
ParentOf(res, i) ==
  LET earlier == {j \in AcceptedOf(res) : j < i}
      last == res.trials[Latest(earlier)]
  IN IF earlier = {} THEN [version |-> Baseline, samples |-> res.baseline_samples]
     ELSE [version |-> last.after, samples |-> last.candidate_samples]
FollowsParent(res, i) ==
  LET t == res.trials[i]
      before == ParentOf(res, i)
  IN GateMatches(t) /\ t.before = before.version /\ t.baseline_samples = before.samples

SourceBestVerified(res, kernel) ==
  /\ res.status = "completed" /\ res.baseline_verified
  /\ kernel = res.best
  /\ IF res.accepted = NoId THEN res.best = Baseline
     ELSE \E i \in AcceptedOf(res) :
            /\ res.trials[i].id = res.accepted /\ res.trials[i].after = res.best
            /\ \A j \in AcceptedOf(res) : j <= i => FollowsParent(res, j)

AcceptedTrial(res) == CHOOSE t \in {res.trials[i] : i \in DOMAIN res.trials} : t.id = res.accepted
\* The two medians the gain is computed from.
SourceGain(res) == <<Median(res.baseline_samples), Median(AcceptedTrial(res).candidate_samples)>>

(* -- engine.py: the rounds --------------------------------------------------------- *)
Empty == [status |-> "running", baseline_verified |-> FALSE, baseline_samples |-> NotMeasured,
          trials |-> <<>>, accepted |-> NoId, best |-> Baseline]
NoTrial == [id |-> NoId]

Init ==
  /\ phase = "baseline" /\ cancelled = FALSE /\ round = 0
  /\ parent = [version |-> Baseline, samples |-> NotMeasured, codegen |-> "unavailable"]
  /\ plan = NoPlan /\ trial = NoTrial
  /\ attempted = [targets |-> {}, sources |-> {Baseline}] /\ observed = {}
  /\ result = Empty /\ bestKernel = None

RequestCancel ==
  /\ ~cancelled /\ phase # "end" /\ cancelled' = TRUE
  /\ UNCHANGED <<phase, round, parent, plan, trial, attempted, observed, result, bestKernel>>

BaselineMeasured ==
  /\ phase = "baseline"
  /\ \E samples \in Samples, codegen \in Codegens :
       /\ parent' = [parent EXCEPT !.samples = samples, !.codegen = codegen]
       /\ result' = [result EXCEPT !.baseline_verified = TRUE, !.baseline_samples = samples]
  /\ observed' \in SUBSET {Baseline}
  /\ bestKernel' = Baseline /\ phase' = "round"
  /\ UNCHANGED <<cancelled, round, plan, trial, attempted>>
BaselineFails ==
  /\ phase = "baseline" /\ phase' = "end"
  /\ \E status \in {"failed"} \cup (IF cancelled THEN {"cancelled"} ELSE {}) :
       result' = [result EXCEPT !.status = status]
  /\ UNCHANGED <<cancelled, round, parent, plan, trial, attempted, observed, bestKernel>>

\* Observations whose trial and source are the parent's.
BoundEvidence(version) == observed \cap {version}
\* The plan starts as the evidence it may cite.
RoundBegins ==
  /\ phase = "round"
  /\ IF cancelled \/ round = Budget
     THEN phase' = "publish" /\ UNCHANGED <<round, plan>>
     ELSE /\ phase' = "planning" /\ round' = round + 1
          /\ plan' = [NoPlan EXCEPT !.evidence = BoundEvidence(parent.version)]
  /\ UNCHANGED <<cancelled, parent, trial, attempted, observed, result, bestKernel>>

\* One of two answers of the model passes, or the rule takes over.
PlannerAnswers ==
  /\ phase = "planning" /\ phase' = "planned"
  /\ \E p \in {q \in Proposals : WellFounded(q, OpenTargets(parent.version), plan.evidence)} :
       plan' = ValidatedPlan(p)
  /\ UNCHANGED <<cancelled, round, parent, trial, attempted, observed, result, bestKernel>>
PlannerFallsBack ==
  /\ phase = "planning" /\ phase' = "planned"
  /\ plan' \in RuleBasedPlans(parent.version)
  /\ UNCHANGED <<cancelled, round, parent, trial, attempted, observed, result, bestKernel>>

PlanStops ==
  /\ phase = "planned" /\ (cancelled \/ plan.decision # "attempt")
  /\ phase' = "publish" /\ plan' = NoPlan
  /\ UNCHANGED <<cancelled, round, parent, trial, attempted, observed, result, bestKernel>>

Proposed(id) ==
  [id |-> id, before |-> parent.version, after |-> Rewrite[parent.version][plan.target],
   executed |-> None, correct |-> FALSE, status |-> "running", gate |-> NoGate,
   baseline_samples |-> parent.samples, candidate_samples |-> NotMeasured,
   codegen |-> "unavailable", recheck |-> NotMeasured]
\* Only what the server reads of a trial stays in the file.
Written(t, status) ==
  IF status = "accepted" THEN [t EXCEPT !.status = status]
  ELSE [id |-> t.id, before |-> t.before, after |-> t.after, status |-> status]
Appended(t, status) == [result EXCEPT !.trials = Append(@, Written(t, status))]

RewriteRejected ==
  /\ phase = "planned" /\ ~cancelled /\ plan.decision = "attempt"
  /\ Rewrite[parent.version][plan.target] \in attempted.sources
  /\ attempted' = [attempted EXCEPT !.targets = @ \cup {<<parent.version, plan.target>>}]
  /\ result' = Appended(Proposed(round), "validation_failed")
  /\ phase' = "round" /\ plan' = NoPlan
  /\ UNCHANGED <<cancelled, round, parent, trial, observed, bestKernel>>

\* The candidate is deployed, built, tested and measured, or fails at any of them.
CandidateMeasured ==
  /\ phase = "planned" /\ ~cancelled /\ plan.decision = "attempt"
  /\ Rewrite[parent.version][plan.target] \notin attempted.sources
  /\ attempted' = [attempted EXCEPT !.targets = @ \cup {<<parent.version, plan.target>>},
                                    !.sources = @ \cup {Rewrite[parent.version][plan.target]}]
  /\ plan' = NoPlan
  /\ \/ \E samples \in Samples, codegen \in Codegens :
          /\ trial' = [Proposed(round) EXCEPT !.executed = Rewrite[parent.version][plan.target], !.correct = TRUE,
                         !.candidate_samples = samples, !.codegen = codegen]
          /\ phase' = "gate" /\ UNCHANGED result
     \/ /\ result' = Appended(Proposed(round), "failed")
        /\ phase' = "round" /\ UNCHANGED trial
  /\ observed' \in {observed, observed \cup {Rewrite[parent.version][plan.target]}}
  /\ UNCHANGED <<cancelled, round, parent, bestKernel>>

\* Without a repeated parent the gate only screens.
GateScreens ==
  /\ phase = "gate"
  /\ LET gate == Gate(parent.samples, trial.candidate_samples, parent.codegen, trial.codegen,
                      NotMeasured, "nothing")
     IN IF cancelled
        THEN trial' = [trial EXCEPT !.status = "cancelled"] /\ phase' = "settle"
        ELSE IF gate.decision = "accepted" THEN phase' = "recheck" /\ UNCHANGED trial
        ELSE trial' = [trial EXCEPT !.status = "no_improvement", !.gate = gate] /\ phase' = "settle"
  /\ UNCHANGED <<cancelled, round, parent, plan, attempted, observed, result, bestKernel>>

\* The parent is built and measured once more; other code than before refuses.
RecheckMeasured ==
  /\ phase = "recheck" /\ phase' = "settle"
  /\ \E samples \in Samples, codegen \in Codegens :
       LET gate == Gate(parent.samples, trial.candidate_samples, parent.codegen, trial.codegen,
                        samples, "recheck")
           drifted == codegen = "inconsistent" \/ Digest(parent.codegen) \notin {None, Digest(codegen)}
       IN trial' = [trial EXCEPT !.recheck = samples,
                      !.status = IF gate.decision = "accepted" /\ ~drifted THEN "accepted" ELSE "no_improvement",
                      !.gate = IF drifted THEN [gate EXCEPT !.decision = "inconclusive", !.recheck_passed = FALSE]
                               ELSE gate]
  /\ UNCHANGED <<cancelled, round, parent, plan, attempted, observed, result, bestKernel>>
RecheckFails ==
  /\ phase = "recheck" /\ phase' = "settle"
  /\ trial' = [trial EXCEPT !.status = "no_improvement"]
  /\ UNCHANGED <<cancelled, round, parent, plan, attempted, observed, result, bestKernel>>

(* Mutant: the next round compares with the samples of the old parent.            *)
AdoptKeepingSamples(accepted) ==
  parent' = IF accepted THEN [parent EXCEPT !.version = trial.after, !.codegen = trial.codegen] ELSE parent
Adopt(accepted) ==
  parent' = IF accepted THEN [version |-> trial.after, samples |-> trial.candidate_samples,
                              codegen |-> trial.codegen]
            ELSE parent
TrialSettles ==
  /\ phase = "settle" /\ phase' = "round" /\ trial' = NoTrial
  /\ result' = Appended(trial, IF cancelled THEN "cancelled" ELSE trial.status)
  /\ Adopt(~cancelled /\ trial.status = "accepted")
  /\ UNCHANGED <<cancelled, round, plan, attempted, observed, bestKernel>>
\* The workspace could not be put back: no further round, nothing is published.
RestoreFails ==
  /\ phase = "settle" /\ phase' = "end" /\ trial' = NoTrial
  /\ result' = [Appended(trial, "validation_failed") EXCEPT !.status = "failed"]
  /\ UNCHANGED <<cancelled, round, parent, plan, attempted, observed, bestKernel>>

(* -- engine.py: publication and the end -------------------------------------------- *)
Last == result.trials[Latest(AcceptedOf(result))]
\* The candidates take another status: the last one of them, or all.
Restated(ids, status) ==
  [i \in DOMAIN result.trials |->
     IF result.trials[i].id \in ids THEN Written(result.trials[i], status) ELSE result.trials[i]]
AcceptedIds == {result.trials[i].id : i \in AcceptedOf(result)}

\* The flag is read twice on the way.
LoopEnds ==
  /\ phase = "publish" /\ ~cancelled /\ phase' = "chosen"
  /\ UNCHANGED <<cancelled, round, parent, plan, trial, attempted, observed, result, bestKernel>>
PublicationBegins ==
  /\ phase = "chosen"
  /\ phase' = IF AcceptedIds = {} \/ cancelled THEN "ending" ELSE "publishing"
  /\ UNCHANGED <<cancelled, round, parent, plan, trial, attempted, observed, result, bestKernel>>
\* The baseline goes back to the workspace, which may fail when it had left it.
CancelledBeforePublication ==
  /\ phase = "publish" /\ cancelled /\ phase' = "end"
  /\ \E status \in {"cancelled"} \cup (IF parent.version = Baseline THEN {} ELSE {"failed"}) :
       result' = [result EXCEPT !.trials = Restated(AcceptedIds, "cancelled"), !.status = status]
  /\ UNCHANGED <<cancelled, round, parent, plan, trial, attempted, observed, bestKernel>>
Published ==
  /\ phase = "publishing" /\ ~cancelled /\ phase' = "published"
  /\ bestKernel' = Last.after
  /\ result' = [result EXCEPT !.accepted = Last.id, !.best = Last.after]
  /\ UNCHANGED <<cancelled, round, parent, plan, trial, attempted, observed>>
\* A failed audit, or a file that could not be written: the baseline's is written back.
PublicationFails ==
  /\ phase = "publishing" /\ phase' = "end"
  /\ \E status \in {"failed"} \cup (IF cancelled THEN {"cancelled"} ELSE {}) :
       result' = [result EXCEPT !.status = status,
                    !.trials = Restated({Last.id}, IF cancelled THEN "cancelled" ELSE "validation_failed")]
  /\ bestKernel' = Baseline
  /\ UNCHANGED <<cancelled, round, parent, plan, trial, attempted, observed>>
CancelledAfterPublication ==
  /\ phase = "published" /\ phase' = "ending"
  /\ IF cancelled
     THEN /\ result' = [result EXCEPT !.accepted = NoId, !.best = Baseline,
                                     !.trials = Restated({result.accepted}, "cancelled")]
          /\ bestKernel' = Baseline
     ELSE UNCHANGED <<result, bestKernel>>
  /\ UNCHANGED <<cancelled, round, parent, plan, trial, attempted, observed>>
Ends ==
  /\ phase = "ending" /\ phase' = "end"
  /\ result' = [result EXCEPT !.status = IF cancelled THEN "cancelled" ELSE "completed"]
  /\ UNCHANGED <<cancelled, round, parent, plan, trial, attempted, observed, bestKernel>>
\* An effect raises, the undo of a publication too: the worker writes "failed", if it can.
EngineRaises ==
  /\ phase # "end" /\ phase' = "end"
  /\ \E status \in {result.status, "failed"} : result' = [result EXCEPT !.status = status]
  /\ bestKernel' \in {bestKernel} \cup (IF phase = "publishing" THEN {Last.after} ELSE {})
  /\ UNCHANGED <<cancelled, round, parent, plan, trial, attempted, observed>>

Next ==
  \/ RequestCancel \/ BaselineMeasured \/ BaselineFails \/ RoundBegins
  \/ PlannerAnswers \/ PlannerFallsBack \/ PlanStops \/ RewriteRejected \/ CandidateMeasured
  \/ GateScreens \/ RecheckMeasured \/ RecheckFails \/ TrialSettles \/ RestoreFails
  \/ LoopEnds \/ PublicationBegins \/ CancelledBeforePublication \/ Published \/ PublicationFails
  \/ CancelledAfterPublication \/ Ends \/ EngineRaises
Spec == Init /\ [][Next]_vars

(* -- properties ------------------------------------------------------------------- *)
(* What the engine reports as completed, the server can verify: the two check       *)
(* the same chain of parents, samples, gates and hashes from two sides              *)
(* (engine.py 923-995 against app.py _source_best_verification).  A chain that      *)
(* the engine builds and the server rejects would hide a finished task's result.    *)
CompletedVerifies ==
  phase = "end" /\ result.status = "completed" => SourceBestVerified(result, bestKernel)

(* A verified best kernel with a gain is the version on disk, was executed and      *)
(* correct, and every sample of it beats every sample of the original baseline,     *)
(* and of the repeated run of its parent, by the threshold: over several rounds,    *)
(* in which the gate only ever compared with the parent.                            *)
ShownGainIsEarned ==
  phase = "end" /\ SourceBestVerified(result, bestKernel) /\ result.accepted # NoId =>
    LET best == AcceptedTrial(result)
    IN /\ best.after = bestKernel /\ best.executed = bestKernel /\ best.correct
       /\ Len(best.recheck) >= MinimumRepeats
       /\ \A samples \in {result.baseline_samples, best.recheck} : \A i \in DOMAIN samples :
            Improves(samples[i], Greatest(best.candidate_samples))
       /\ Improves(SourceGain(result)[1], SourceGain(result)[2])

(* Whatever the model answers, a plan that leaves the planner attempts a target     *)
(* still open for the current parent, with evidence of this parent only, and a      *)
(* stop carries no target (planner.py _validate_plan): an answer that names a       *)
(* target of an earlier round, or the evidence of another parent, is not taken.     *)
PlansAreAuthorised ==
  [][phase = "planning" /\ phase' = "planned" =>
       /\ plan'.evidence \subseteq {parent.version}
       /\ IF plan'.decision = "attempt" THEN plan'.target \in OpenTargets(parent.version)
          ELSE plan'.target = None]_vars
===============================================================================
