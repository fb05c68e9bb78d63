-------------------------- MODULE SourceRoundsProofs ---------------------------
(* For every set of sources, targets and samples, every budget and threshold:   *)
(* a plan that leaves the planner is authorised, whatever the model answered;   *)
(* what the engine completes, the server verifies; and a gain it shows is       *)
(* earned over the baseline.                                                    *)
(*                                                                              *)
(* The engine carries a parent, the server finds one in the file: RoundsInv     *)
(* says they are the same, that every accepted trial of the file follows the    *)
(* one before it, and that its gain over its parent adds up to one over the     *)
(* baseline.  Least and Greatest are defined by CHOOSE; that they exist is an   *)
(* induction over the length of the samples (SetInduction).                     *)
EXTENDS SourceRounds, WellFoundedInduction, TLAPS

(* -- the planner --------------------------------------------------------------- *)

(* While the planner is asked, the evidence it may cite is the parent's.        *)
PlanningInv ==
  phase = "planning" => plan.evidence \subseteq {parent.version}

(* The rule attempts an open target, or stops because there is none.            *)
LEMMA RuleIsAuthorised ==
  ASSUME NEW p \in RuleBasedPlans(parent.version)
  PROVE  /\ p.evidence = {}
         /\ IF p.decision = "attempt" THEN p.target \in OpenTargets(parent.version) ELSE p.target = None
<1>1. CASE Open(parent.version) = {}
  BY <1>1 DEF RuleBasedPlans
<1>2. CASE Open(parent.version) # {}
  BY <1>2 DEF RuleBasedPlans, OpenTargets
<1> QED
  BY <1>1, <1>2

(* What passes the validation names an open target or none, and cites what it   *)
(* was shown.                                                                   *)
LEMMA AnswerIsAuthorised ==
  ASSUME NEW p \in Proposals, NEW targets, NEW eligible, WellFounded(p, targets, eligible)
  PROVE  /\ ValidatedPlan(p).evidence \subseteq eligible
         /\ IF ValidatedPlan(p).decision = "attempt" THEN ValidatedPlan(p).target \in targets
            ELSE ValidatedPlan(p).target = None
BY DEF WellFounded, ValidatedPlan

LEMMA PlanningInit == Init => PlanningInv
BY DEF Init, PlanningInv, NoPlan

LEMMA PlanningStep == PlanningInv /\ [Next]_vars => PlanningInv'
<1> SUFFICES ASSUME PlanningInv, [Next]_vars PROVE PlanningInv'
  OBVIOUS
<1>1. CASE RoundBegins
  <2>1. CASE phase' = "planning"
    <3>1. plan' = [NoPlan EXCEPT !.evidence = BoundEvidence(parent.version)] /\ parent' = parent
      BY <1>1, <2>1 DEF RoundBegins
    <3>2. plan'.evidence = BoundEvidence(parent.version)
      BY <3>1 DEF NoPlan
    <3> QED
      BY <3>1, <3>2 DEF PlanningInv, BoundEvidence
  <2>2. CASE phase' # "planning"
    BY <2>2 DEF PlanningInv
  <2> QED
    BY <2>1, <2>2
<1>2. CASE RequestCancel
  BY <1>2 DEF RequestCancel, PlanningInv
<1>3. CASE UNCHANGED vars
  BY <1>3 DEF vars, PlanningInv
<1>4. ASSUME ~RoundBegins, ~RequestCancel, ~UNCHANGED vars PROVE phase' # "planning"
  BY <1>4 DEF Next, vars, BaselineMeasured, BaselineFails, PlannerAnswers, PlannerFallsBack, PlanStops,
       RewriteRejected, CandidateMeasured, GateScreens, RecheckMeasured, RecheckFails, TrialSettles,
       RestoreFails, LoopEnds, PublicationBegins, CancelledBeforePublication, Published,
       PublicationFails, CancelledAfterPublication, Ends, EngineRaises
<1> QED
  BY <1>1, <1>2, <1>3, <1>4 DEF PlanningInv

(* A plan that leaves the planner attempts a target still open for the parent,  *)
(* with evidence of this parent only, and a stop carries no target.             *)
THEOREM PlansAuthorised == Spec => PlansAreAuthorised
<1>1. PlanningInv /\ [Next]_vars =>
        [phase = "planning" /\ phase' = "planned" =>
           /\ plan'.evidence \subseteq {parent.version}
           /\ IF plan'.decision = "attempt" THEN plan'.target \in OpenTargets(parent.version)
              ELSE plan'.target = None]_vars
  <2> SUFFICES ASSUME PlanningInv, Next, phase = "planning", phase' = "planned"
      PROVE /\ plan'.evidence \subseteq {parent.version}
            /\ IF plan'.decision = "attempt" THEN plan'.target \in OpenTargets(parent.version)
               ELSE plan'.target = None
    OBVIOUS
  <2>1. PlannerAnswers \/ PlannerFallsBack
    BY DEF Next, RequestCancel, BaselineMeasured, BaselineFails, RoundBegins, PlanStops,
       RewriteRejected, CandidateMeasured, GateScreens, RecheckMeasured, RecheckFails, TrialSettles,
       RestoreFails, LoopEnds, PublicationBegins, CancelledBeforePublication, Published,
       PublicationFails, CancelledAfterPublication, Ends, EngineRaises
  <2>2. CASE PlannerAnswers
    <3>1. PICK p \in Proposals : /\ WellFounded(p, OpenTargets(parent.version), plan.evidence)
                                 /\ plan' = ValidatedPlan(p)
      BY <2>2 DEF PlannerAnswers
    <3> QED
      BY <3>1, AnswerIsAuthorised DEF PlanningInv
  <2>3. CASE PlannerFallsBack
    BY <2>3, RuleIsAuthorised DEF PlannerFallsBack
  <2> QED
    BY <2>1, <2>2, <2>3
<1> QED
  BY <1>1, PlanningInit, PlanningStep, PTL DEF Spec, PlansAreAuthorised

(* -- numbers ------------------------------------------------------------------- *)
(* A set of natural numbers has a least element.                                *)
LEMMA LeastOfSet ==
  ASSUME NEW T, T \subseteq Nat, T # {}
  PROVE  \E x \in T : \A y \in T : x <= y
<1> DEFINE R == OpToRel(<, Nat)
<1>1. IsWellFoundedOn(R, Nat)
  BY NatLessThanWellFounded
<1>2. \A x, y \in Nat : x < y => <<x, y>> \in R
  BY DEF OpToRel
<1> HIDE DEF R
<1>3. PICK x \in T : \A y \in T : ~(<<y, x>> \in R)
  BY <1>1, WFMin
<1>4. ASSUME NEW y \in T PROVE x <= y
  <2>1. x \in Nat /\ y \in Nat
    OBVIOUS
  <2>2. ~(y < x)
    BY <1>2, <1>3, <2>1
  <2> QED
    BY <2>1, <2>2
<1> QED
  BY <1>4

LEMMA SetInduction ==
  ASSUME NEW S, 0 \in S, \A n \in Nat : n \in S => n + 1 \in S
  PROVE  Nat \subseteq S
<1> SUFFICES ASSUME Nat \ S # {} PROVE FALSE
  OBVIOUS
<1>1. PICK x \in Nat \ S : \A y \in Nat \ S : x <= y
  BY LeastOfSet
<1>2. x # 0 /\ x - 1 \in Nat
  OBVIOUS
<1>3. x - 1 \in S
  BY <1>1, <1>2
<1> QED
  BY <1>2, <1>3

(* The last of some places of a sequence.                                       *)
LEMMA LatestIsLast ==
  ASSUME NEW n \in Nat, NEW S, S \subseteq 1..n, S # {}
  PROVE  Latest(S) \in S /\ \A j \in S : j <= Latest(S)
<1> DEFINE T == {n - j : j \in S}
<1>1. T \subseteq Nat /\ T # {}
  <2>1. \A j \in S : n - j \in Nat
    OBVIOUS
  <2> QED
    BY <2>1
<1>2. PICK x \in T : \A y \in T : x <= y
  BY <1>1, LeastOfSet
<1>3. PICK i \in S : x = n - i
  BY <1>2
<1>4. \A j \in S : j <= i
  <2> TAKE j \in S
  <2>1. n - j \in T
    OBVIOUS
  <2> QED
    BY <1>2, <1>3, <2>1
<1> QED
  BY <1>4 DEF Latest

(* The samples of a benchmark have a least and a greatest.                      *)
LEMMA BoundsExist ==
  ASSUME NEW n \in Nat
  PROVE  \A s \in [1..(n + 1) -> Int] :
           /\ \E i \in 1..(n + 1) : \A j \in 1..(n + 1) : s[i] <= s[j]
           /\ \E i \in 1..(n + 1) : \A j \in 1..(n + 1) : s[i] >= s[j]
<1> DEFINE Bounded(m) == \A s \in [1..(m + 1) -> Int] :
                           /\ \E i \in 1..(m + 1) : \A j \in 1..(m + 1) : s[i] <= s[j]
                           /\ \E i \in 1..(m + 1) : \A j \in 1..(m + 1) : s[i] >= s[j]
           S == {m \in Nat : Bounded(m)}
<1>1. 0 \in S
  <2>1. 1 \in 1..(0 + 1) /\ \A j \in 1..(0 + 1) : j = 1
    OBVIOUS
  <2>2. ASSUME NEW s \in [1..(0 + 1) -> Int]
        PROVE \A j \in 1..(0 + 1) : s[1] <= s[j] /\ s[1] >= s[j]
    BY <2>1
  <2> QED
    BY <2>1, <2>2
<1>2. ASSUME NEW m \in Nat, m \in S PROVE m + 1 \in S
  <2>0. m + 1 \in Nat
    OBVIOUS
  <2> SUFFICES ASSUME NEW s \in [1..((m + 1) + 1) -> Int]
               PROVE /\ \E i \in 1..((m + 1) + 1) : \A j \in 1..((m + 1) + 1) : s[i] <= s[j]
                     /\ \E i \in 1..((m + 1) + 1) : \A j \in 1..((m + 1) + 1) : s[i] >= s[j]
    BY <2>0
  <2> DEFINE t == [i \in 1..(m + 1) |-> s[i]]
  <2>1. t \in [1..(m + 1) -> Int]
    OBVIOUS
  <2>2. /\ \E i \in 1..(m + 1) : \A j \in 1..(m + 1) : t[i] <= t[j]
        /\ \E i \in 1..(m + 1) : \A j \in 1..(m + 1) : t[i] >= t[j]
    BY <1>2, <2>1
  <2>3. PICK i \in 1..(m + 1) : \A j \in 1..(m + 1) : s[i] <= s[j]
    BY <2>2
  <2>4. PICK k \in 1..(m + 1) : \A j \in 1..(m + 1) : s[k] >= s[j]
    BY <2>2
  <2>5. \E l \in 1..((m + 1) + 1) : \A j \in 1..((m + 1) + 1) : s[l] <= s[j]
    <3> DEFINE l == IF s[i] <= s[(m + 1) + 1] THEN i ELSE (m + 1) + 1
    <3>1. l \in 1..((m + 1) + 1) /\ \A j \in 1..((m + 1) + 1) : s[l] <= s[j]
      BY <2>3
    <3> QED
      BY <3>1
  <2>6. \E l \in 1..((m + 1) + 1) : \A j \in 1..((m + 1) + 1) : s[l] >= s[j]
    <3> DEFINE l == IF s[k] >= s[(m + 1) + 1] THEN k ELSE (m + 1) + 1
    <3>1. l \in 1..((m + 1) + 1) /\ \A j \in 1..((m + 1) + 1) : s[l] >= s[j]
      BY <2>4
    <3> QED
      BY <3>1
  <2> QED
    BY <2>5, <2>6
<1> HIDE DEF S
<1>3. Nat \subseteq S
  BY <1>1, <1>2, SetInduction
<1> QED
  BY <1>3 DEF S

LEMMA SamplesAreBounded ==
  ASSUME NEW s \in Seq(Int), s # <<>>
  PROVE  /\ Least(s) \in Int /\ \E i \in DOMAIN s : Least(s) = s[i]
         /\ Greatest(s) \in Int /\ \E i \in DOMAIN s : Greatest(s) = s[i]
         /\ \A i \in DOMAIN s : Least(s) <= s[i] /\ s[i] <= Greatest(s)
<1> DEFINE n == Len(s) - 1
<1>1. n \in Nat /\ DOMAIN s = 1..(n + 1) /\ s \in [1..(n + 1) -> Int]
  OBVIOUS
<1> HIDE DEF n
<1>2. PICK i \in 1..(n + 1) : \A j \in 1..(n + 1) : s[i] <= s[j]
  BY <1>1, BoundsExist
<1>3. PICK k \in 1..(n + 1) : \A j \in 1..(n + 1) : s[k] >= s[j]
  BY <1>1, BoundsExist
<1> DEFINE V == {s[j] : j \in DOMAIN s}
<1>4. \E v \in V : \A w \in V : v <= w
  BY <1>1, <1>2
<1>5. \E v \in V : \A w \in V : v >= w
  BY <1>1, <1>3
<1>6. Least(s) \in V /\ \A w \in V : Least(s) <= w
  BY <1>4 DEF Least
<1>7. Greatest(s) \in V /\ \A w \in V : Greatest(s) >= w
  BY <1>5 DEF Greatest
<1> QED
  BY <1>1, <1>6, <1>7

(* -- the gate -------------------------------------------------------------------- *)
Positive(s) == s \in Seq(Int) /\ s # <<>> /\ \A i \in DOMAIN s : s[i] > 0

(* What the gate has seen when it accepts with a repeated control.              *)
LEMMA AcceptedSamples ==
  ASSUME NEW b \in Seq(Int), NEW c \in Seq(Int), NEW k \in Seq(Int), NEW x, NEW y,
         AssessPerformance(b, c, x, y, k, "recheck").decision = "accepted"
  PROVE  /\ Positive(b) /\ Positive(c) /\ Positive(k) /\ Len(k) >= MinimumRepeats
         /\ Improves(Least(b \o k), Greatest(c))
<1>1. k # NotMeasured
  BY DEF AssessPerformance, AssessmentOf
<1>2. ~ \E s \in {b, c, k} : Len(s) < MinimumRepeats \/ \E i \in DOMAIN s : s[i] <= 0
  BY <1>1 DEF AssessPerformance, AssessmentOf
<1>3. Improves(Least(b \o k), Greatest(c))
  BY DEF AssessPerformance, AssessmentOf
<1>4. ASSUME NEW s \in {b, c, k} PROVE Positive(s) /\ Len(s) >= MinimumRepeats
  <2>1. s \in Seq(Int) /\ Len(s) \in Nat /\ DOMAIN s = 1..Len(s)
    BY <1>4
  <2>2. Len(s) >= MinimumRepeats
    BY <1>2, <1>4, <2>1, RoundsAssumption
  <2>3. ASSUME NEW i \in DOMAIN s PROVE s[i] > 0
    <3>1. s[i] \in Int
      BY <2>1
    <3>2. ~(s[i] <= 0)
      BY <1>2, <1>4
    <3> QED
      BY <3>1, <3>2
  <2>4. s # <<>>
    BY <2>1, <2>2, RoundsAssumption
  <2> QED
    BY <2>1, <2>2, <2>3, <2>4 DEF Positive
<1> QED
  BY <1>3, <1>4

(* From what was saved of the gate the server comes to the same assessment.     *)
LEMMA AcceptedAgain ==
  ASSUME NEW b, NEW c, NEW k, NEW x, NEW y,
         AssessPerformance(b, c, x, y, k, "recheck").decision = "accepted"
  PROVE  LET found == AssessPerformance(b, c, x, y, k, "recheck")
         IN /\ found.codegen_status \in {"changed", "unavailable"}
            /\ AssessPerformance(b, c, Recorded(Digest(x)), Recorded(Digest(y)), k, "recheck")
                 = AssessmentOf("accepted", found.codegen_status)
<1>1. x # "inconsistent" /\ y # "inconsistent"
  BY DEF AssessPerformance, AssessmentOf
<1>2. ASSUME NEW z, z # "inconsistent"
      PROVE Digest(Recorded(Digest(z))) = Digest(z) /\ Recorded(Digest(z)) # "inconsistent"
  BY <1>2 DEF Digest, Recorded, None
<1> DEFINE p == Recorded(Digest(x))
           q == Recorded(Digest(y))
<1>3. Digest(p) = Digest(x) /\ Digest(q) = Digest(y) /\ p # "inconsistent" /\ q # "inconsistent"
  BY <1>1, <1>2
<1> HIDE DEF p, q
<1> DEFINE change(u, v) == IF Digest(u) = None \/ Digest(v) = None THEN "unavailable"
                           ELSE IF Digest(u) = Digest(v) THEN "unchanged" ELSE "changed"
<1>4. change(p, q) = change(x, y)
  BY <1>3
<1>5. /\ AssessPerformance(b, c, x, y, k, "recheck") = AssessmentOf("accepted", change(x, y))
     /\ change(x, y) # "unchanged"
  BY <1>1 DEF AssessPerformance, AssessmentOf
<1>6. AssessPerformance(b, c, p, q, k, "recheck") = AssessPerformance(b, c, x, y, k, "recheck")
  BY <1>1, <1>3, <1>4 DEF AssessPerformance
<1>7. change(x, y) \in {"changed", "unavailable"}
  BY <1>5
<1> HIDE DEF change
<1>8. \A s : AssessmentOf("accepted", s).codegen_status = s
  BY DEF AssessmentOf
<1> QED
  BY <1>5, <1>6, <1>7, <1>8 DEF p, q

(* A faster candidate gains as much, and a slower version gains as much by it.  *)
LEMMA FasterGains ==
  ASSUME NEW a \in Int, NEW b \in Int, NEW w \in Int, Improves(a, b), w <= b
  PROVE  Improves(a, w)
<1>1. Threshold \in Nat
  BY RoundsAssumption
<1> DEFINE t == Threshold * a
<1>2. t \in Int /\ a > b /\ (a - b) * 100 >= t
  BY <1>1 DEF Improves
<1> HIDE DEF t
<1>3. a > w /\ (a - w) * 100 >= t
  BY <1>2
<1> QED
  BY <1>3 DEF Improves, t

LEMMA SlowerGains ==
  ASSUME NEW a \in Int, NEW b \in Int, NEW v \in Int, a > 0, b > 0, Improves(a, b), v >= a
  PROVE  Improves(v, b)
<1>1. Threshold \in Nat /\ a > b /\ (a - b) * 100 >= Threshold * a
  BY RoundsAssumption DEF Improves
<1>2. Threshold <= 100
  <2> SUFFICES ASSUME Threshold > 100 PROVE FALSE
    BY <1>1
  <2>1. (Threshold - 100) * a >= 0
    BY <1>1
  <2>2. Threshold * a >= 100 * a
    BY <1>1, <2>1
  <2> DEFINE t == Threshold * a
  <2>3. t \in Int /\ t >= 100 * a /\ (a - b) * 100 >= t
    BY <1>1, <2>2
  <2> HIDE DEF t
  <2> QED
    BY <1>1, <2>3
<1>3. (v - a) * (100 - Threshold) >= 0
  <2> DEFINE d == v - a
             e == 100 - Threshold
  <2>1. d \in Nat /\ e \in Nat
    BY <1>1, <1>2
  <2> HIDE DEF d, e
  <2>2. d * e >= 0
    BY <2>1
  <2> QED
    BY <2>2 DEF d, e
<1>4. (v - b) * 100 - Threshold * v = ((a - b) * 100 - Threshold * a) + (v - a) * (100 - Threshold)
  BY <1>1
<1> DEFINE t == Threshold * a
           u == Threshold * v
           m == (v - a) * (100 - Threshold)
<1>5. t \in Int /\ u \in Int /\ m \in Int /\ (a - b) * 100 >= t /\ m >= 0
      /\ (v - b) * 100 - u = ((a - b) * 100 - t) + m
  BY <1>1, <1>3, <1>4
<1> HIDE DEF t, u, m
<1>6. v > b /\ (v - b) * 100 >= u
  BY <1>1, <1>5
<1> QED
  BY <1>6 DEF Improves, u

(* -- the result file ------------------------------------------------------------- *)
IsResult(r) ==
  r = [status |-> r.status, baseline_verified |-> r.baseline_verified,
       baseline_samples |-> r.baseline_samples, trials |-> r.trials,
       accepted |-> r.accepted, best |-> r.best]
IsTrial(t) ==
  t = [id |-> t.id, before |-> t.before, after |-> t.after, executed |-> t.executed,
       correct |-> t.correct, status |-> t.status, gate |-> t.gate,
       baseline_samples |-> t.baseline_samples, candidate_samples |-> t.candidate_samples,
       codegen |-> t.codegen, recheck |-> t.recheck]
Next1(r) == Len(r.trials) + 1

(* Only what the file says of its trials and its baseline makes their chain.    *)
LEMMA ChainOf ==
  ASSUME NEW q, NEW r, q.trials = r.trials, q.baseline_samples = r.baseline_samples
  PROVE  /\ AcceptedOf(q) = AcceptedOf(r)
         /\ \A i : ParentOf(q, i) = ParentOf(r, i) /\ (FollowsParent(q, i) <=> FollowsParent(r, i))
<1>1. AcceptedOf(q) = AcceptedOf(r)
  BY DEF AcceptedOf
<1>2. \A i : ParentOf(q, i) = ParentOf(r, i)
  BY <1>1 DEF ParentOf
<1> QED
  BY <1>1, <1>2 DEF FollowsParent

(* A trial at the end of the file leaves what is said of those before it.       *)
Extends(S, r, q, t) ==
  /\ q.trials \in Seq(S \cup {t})
  /\ Next1(r) \in Nat /\ DOMAIN r.trials = 1..(Next1(r) - 1) /\ DOMAIN q.trials = 1..Next1(r)
  /\ \A i \in DOMAIN r.trials : q.trials[i] = r.trials[i]
  /\ q.trials[Next1(r)] = t
  /\ AcceptedOf(q) = IF t.status = "accepted" THEN AcceptedOf(r) \cup {Next1(r)} ELSE AcceptedOf(r)
  /\ \A i \in 1..Next1(r) : ParentOf(q, i) = ParentOf(r, i)
LEMMA Appending ==
  ASSUME NEW S, NEW r, r.trials \in Seq(S), NEW t, NEW q,
         q.trials = Append(r.trials, t), q.baseline_samples = r.baseline_samples
  PROVE  Extends(S, r, q, t)
<1> DEFINE n == Len(r.trials)
<1>1. /\ n \in Nat /\ DOMAIN r.trials = 1..n
      /\ q.trials \in Seq(S \cup {t}) /\ Len(q.trials) = n + 1 /\ DOMAIN q.trials = 1..(n + 1)
      /\ \A i \in 1..n : q.trials[i] = r.trials[i]
      /\ q.trials[n + 1] = t
  OBVIOUS
<1> HIDE DEF n
<1>2. AcceptedOf(q) = IF t.status = "accepted" THEN AcceptedOf(r) \cup {n + 1} ELSE AcceptedOf(r)
  <2>1. 1..(n + 1) = 1..n \cup {n + 1}
    BY <1>1
  <2> QED
    BY <1>1, <2>1 DEF AcceptedOf
<1>3. ASSUME NEW i \in 1..(n + 1) PROVE ParentOf(q, i) = ParentOf(r, i)
  <2> DEFINE earlier == {j \in AcceptedOf(r) : j < i}
  <2>1. AcceptedOf(r) \subseteq 1..n
    BY <1>1 DEF AcceptedOf
  <2>2. {j \in AcceptedOf(q) : j < i} = earlier
    BY <1>1, <1>2, <2>1
  <2>3. earlier # {} => Latest(earlier) \in 1..n
    <3> SUFFICES ASSUME earlier # {} PROVE Latest(earlier) \in 1..n
      OBVIOUS
    <3>1. earlier \subseteq 1..n
      BY <2>1
    <3> HIDE DEF earlier
    <3> QED
      BY <1>1, <3>1, LatestIsLast
  <2>4. ParentOf(q, i) = IF earlier = {} THEN [version |-> Baseline, samples |-> q.baseline_samples]
                         ELSE [version |-> q.trials[Latest(earlier)].after,
                               samples |-> q.trials[Latest(earlier)].candidate_samples]
    BY <2>2 DEF ParentOf
  <2>5. ParentOf(r, i) = IF earlier = {} THEN [version |-> Baseline, samples |-> r.baseline_samples]
                         ELSE [version |-> r.trials[Latest(earlier)].after,
                               samples |-> r.trials[Latest(earlier)].candidate_samples]
    BY DEF ParentOf
  <2> QED
    BY <1>1, <2>3, <2>4, <2>5
<1> QED
  BY <1>1, <1>2, <1>3 DEF Extends, Next1, n

(* The parent of the next trial is the last accepted one.                       *)
LEMMA NextParent ==
  ASSUME NEW S, NEW r, r.trials \in Seq(S)
  PROVE  ParentOf(r, Next1(r)) =
           IF AcceptedOf(r) = {} THEN [version |-> Baseline, samples |-> r.baseline_samples]
           ELSE [version |-> r.trials[Latest(AcceptedOf(r))].after,
                 samples |-> r.trials[Latest(AcceptedOf(r))].candidate_samples]
<1>1. Next1(r) \in Nat /\ AcceptedOf(r) \subseteq 1..(Next1(r) - 1)
  BY DEF AcceptedOf, Next1
<1>2. {j \in AcceptedOf(r) : j < Next1(r)} = AcceptedOf(r)
  BY <1>1
<1> QED
  BY <1>2 DEF ParentOf

(* -- the inductive invariant ------------------------------------------------------- *)
Tried == {"gate", "recheck", "settle"}
InRound == {"planning", "planned"} \cup Tried
Rounds == InRound \cup {"round", "publish", "chosen"}

(* The file may still be, or is, that of a completed run.                       *)
Hopeful == (phase # "end" /\ ~(phase = "ending" /\ cancelled)) \/ result.status = "completed"

StatusInv ==
  /\ IsResult(result) /\ cancelled \in BOOLEAN
  /\ phase # "end" => result.status = "running"

(* A trial is named by its round.                                               *)
IdsInv ==
  /\ round \in Nat /\ (phase \in InRound => round > 0)
  /\ \E S : result.trials \in Seq(S)
  /\ \A i \in DOMAIN result.trials : result.trials[i].id \in 1..round
  /\ phase \in InRound => \A i \in DOMAIN result.trials : result.trials[i].id # round
  /\ \A i, j \in DOMAIN result.trials : result.trials[i].id = result.trials[j].id => i = j

(* The parent the engine carries is the one the server finds in the file.       *)
ParentInv ==
  /\ parent = [version |-> parent.version, samples |-> parent.samples, codegen |-> parent.codegen]
  /\ parent.samples \in Seq(Int) /\ result.baseline_samples \in Seq(Int)
  /\ phase = "baseline" => parent.version = Baseline /\ AcceptedOf(result) = {}
  /\ phase \in Rounds =>
       [version |-> parent.version, samples |-> parent.samples] = ParentOf(result, Next1(result))

(* The candidate of the round, and what it passed when it was accepted.         *)
Passed(t) ==
  /\ {t.baseline_samples, t.candidate_samples, t.recheck} \subseteq Seq(Int)
  /\ GateMatches(t) /\ t.gate.recheck = t.recheck
TrialInv ==
  phase \in Tried =>
    /\ IsTrial(trial) /\ trial.id = round
    /\ trial.before = parent.version /\ trial.baseline_samples = parent.samples
    /\ trial.correct /\ trial.executed = trial.after /\ trial.candidate_samples \in Seq(Int)
    /\ phase # "settle" => trial.status = "running"
    /\ trial.status = "accepted" => Passed(trial)

(* Every accepted trial in the file builds on the one before it, passed its own *)
(* gate, and gains over the baseline.                                           *)
GainsOver(baseline, t) == Positive(baseline) /\ Improves(Least(baseline), Greatest(t.candidate_samples))
ChainInv ==
  \A i \in AcceptedOf(result) :
    /\ FollowsParent(result, i) /\ Passed(result.trials[i])
    /\ GainsOver(result.baseline_samples, result.trials[i])

(* What the file and best_kernel.py announce.                                   *)
NothingAnnounced == result.accepted = NoId /\ result.best = Baseline
LastAnnounced ==
  /\ AcceptedOf(result) # {} /\ result.accepted = Last.id
  /\ result.best = Last.after /\ bestKernel = Last.after
AnnouncedInv ==
  /\ phase # "baseline" => result.baseline_verified
  /\ phase \in Rounds \cup {"baseline", "publishing"} => NothingAnnounced
  /\ phase \in Rounds \cup {"publishing"} => bestKernel = Baseline
  /\ phase = "publishing" => AcceptedOf(result) # {}
  /\ phase = "published" => LastAnnounced
  /\ phase \in {"ending", "end"} => (NothingAnnounced /\ bestKernel = Baseline) \/ LastAnnounced

FileInv == IdsInv /\ ParentInv /\ TrialInv /\ ChainInv /\ AnnouncedInv
RoundsInv == StatusInv /\ (Hopeful => FileInv)

LEMMA RoundsInit == Init => RoundsInv
<1> SUFFICES ASSUME Init PROVE RoundsInv
  OBVIOUS
<1>1. <<>> \in Seq({}) /\ <<>> \in Seq(Int) /\ DOMAIN <<>> = {}
  OBVIOUS
<1>2. IsResult(result) /\ AcceptedOf(result) = {}
  BY <1>1 DEF Init, Empty, IsResult, AcceptedOf
<1> QED
  BY <1>1, <1>2
     DEF Init, Empty, NoPlan, NoTrial, NotMeasured, NoId, RoundsInv, StatusInv, FileInv, IdsInv, ParentInv,
         TrialInv, ChainInv, AnnouncedInv, NothingAnnounced, Tried, InRound, Rounds

(* A step that leaves the file, the kernel and the parent as they are.          *)
LEMMA FileUntouched ==
  ASSUME FileInv, UNCHANGED <<result, bestKernel, parent>>, phase # "baseline"
  PROVE  /\ ChainInv' /\ (phase \in Rounds /\ phase' \in Rounds => ParentInv')
         /\ LastAnnounced' = LastAnnounced /\ NothingAnnounced' = NothingAnnounced
BY DEF FileInv, ChainInv, ParentInv, LastAnnounced, NothingAnnounced, Last, Rounds, InRound, Tried

LEMMA QuietSteps ==
  ASSUME RoundsInv,
         RequestCancel \/ RoundBegins \/ PlannerAnswers \/ PlannerFallsBack \/ PlanStops \/ LoopEnds
           \/ PublicationBegins
  PROVE  RoundsInv'
<1>1. UNCHANGED <<result, bestKernel, parent, trial>> /\ cancelled' \in BOOLEAN /\ phase # "end"
  BY DEF RoundsInv, StatusInv, RequestCancel, RoundBegins, PlannerAnswers, PlannerFallsBack, PlanStops,
         LoopEnds, PublicationBegins
<1>2. StatusInv'
  BY <1>1 DEF RoundsInv, StatusInv
<1>3. CASE RequestCancel
  BY <1>1, <1>2, <1>3
     DEF RequestCancel, RoundsInv, StatusInv, Hopeful, FileInv, IdsInv, ParentInv, TrialInv, ChainInv,
         AnnouncedInv, NothingAnnounced, LastAnnounced, Last
<1>5. CASE RoundBegins \/ PlannerAnswers \/ PlannerFallsBack \/ PlanStops \/ LoopEnds
  <2>1. phase \in Rounds \ Tried /\ phase' \in Rounds \ Tried /\ Hopeful
    BY <1>5 DEF RoundBegins, PlannerAnswers, PlannerFallsBack, PlanStops, LoopEnds, Rounds, InRound, Tried,
                Hopeful
  <2>2. FileInv /\ phase # "baseline"
    BY <2>1 DEF RoundsInv, Rounds, InRound, Tried
  <2>3. IdsInv'
    <3>1. CASE RoundBegins /\ phase' = "planning"
      <4>1. round' = round + 1 /\ result' = result
        BY <1>1, <3>1 DEF RoundBegins
      <4> QED
        BY <2>2, <3>1, <4>1 DEF FileInv, IdsInv
    <3>2. CASE ~(RoundBegins /\ phase' = "planning")
      <4>1. round' = round /\ result' = result /\ (phase' \in InRound => phase \in InRound)
        BY <1>1, <1>5, <3>2 DEF RoundBegins, PlannerAnswers, PlannerFallsBack, PlanStops, LoopEnds, InRound, Tried
      <4> QED
        BY <2>2, <4>1 DEF FileInv, IdsInv
    <3> QED
      BY <3>1, <3>2
  <2>4. TrialInv'
    BY <2>1 DEF TrialInv
  <2>5. AnnouncedInv'
    BY <1>1, <2>1, <2>2, FileUntouched DEF FileInv, AnnouncedInv, Rounds, InRound, Tried
  <2> QED
    BY <1>1, <1>2, <2>1, <2>2, <2>3, <2>4, <2>5, FileUntouched DEF RoundsInv, FileInv
<1>6. CASE PublicationBegins
  <2>1. /\ phase = "chosen" /\ round' = round /\ cancelled' = cancelled
        /\ phase' = IF AcceptedIds = {} \/ cancelled THEN "ending" ELSE "publishing"
    BY <1>6 DEF PublicationBegins
  <2>2. FileInv /\ phase \in Rounds /\ phase \notin InRound
    BY <2>1 DEF RoundsInv, Hopeful, Rounds, InRound, Tried
  <2>3. phase' \notin Rounds /\ phase' \notin InRound /\ phase' \notin Tried
    BY <2>1 DEF Rounds, InRound, Tried
  <2>4. IdsInv' /\ TrialInv' /\ ParentInv'
    BY <1>1, <2>1, <2>2, <2>3 DEF FileInv, IdsInv, TrialInv, ParentInv
  <2>5. phase' = "publishing" => AcceptedOf(result) # {}
    BY <2>1 DEF AcceptedIds
  <2>6. AnnouncedInv'
    BY <1>1, <2>1, <2>2, <2>3, <2>5, FileUntouched DEF FileInv, AnnouncedInv
  <2> QED
    BY <1>1, <1>2, <2>1, <2>2, <2>4, <2>6, FileUntouched DEF RoundsInv, FileInv
<1> QED
  BY <1>3, <1>5, <1>6

(* What raised is not reported as completed.                                    *)
LEMMA RaiseStep == RoundsInv /\ EngineRaises => RoundsInv'
<1> SUFFICES ASSUME RoundsInv, EngineRaises PROVE RoundsInv'
  OBVIOUS
<1>1. StatusInv /\ phase' = "end" /\ cancelled' = cancelled /\ result.status = "running"
  BY DEF RoundsInv, StatusInv, EngineRaises
<1>2. PICK status \in {result.status, "failed"} : result' = [result EXCEPT !.status = status]
  BY DEF EngineRaises
<1>3. IsResult(result') /\ result'.status = status
  BY <1>1, <1>2 DEF StatusInv, IsResult
<1> QED
  BY <1>1, <1>2, <1>3 DEF RoundsInv, StatusInv, Hopeful

LEMMA BaselineSteps ==
  ASSUME RoundsInv, BaselineMeasured \/ BaselineFails
  PROVE  RoundsInv'
<1>1. phase = "baseline" /\ Hopeful /\ FileInv /\ StatusInv
  BY DEF RoundsInv, BaselineMeasured, BaselineFails, Hopeful
<1>2. CASE BaselineFails
  <2>1. PICK status \in {"failed", "cancelled"} : result' = [result EXCEPT !.status = status]
    BY <1>2 DEF BaselineFails
  <2>2. IsResult(result') /\ result'.status = status
    BY <1>1, <2>1 DEF StatusInv, IsResult
  <2>3. phase' = "end" /\ cancelled' = cancelled
    BY <1>2 DEF BaselineFails
  <2> QED
    BY <1>1, <2>2, <2>3 DEF RoundsInv, StatusInv, Hopeful
<1>3. CASE BaselineMeasured
  <2>1. PICK samples \in Samples, codegen \in Codegens :
          /\ parent' = [parent EXCEPT !.samples = samples, !.codegen = codegen]
          /\ result' = [result EXCEPT !.baseline_verified = TRUE, !.baseline_samples = samples]
    BY <1>3 DEF BaselineMeasured
  <2>2. samples \in Seq(Int)
    BY RoundsAssumption
  <2>3. /\ parent' = [version |-> Baseline, samples |-> samples, codegen |-> codegen]
        /\ parent'.version = Baseline /\ parent'.samples = samples /\ parent'.codegen = codegen
    BY <1>1, <2>1 DEF FileInv, ParentInv
  <2>4. /\ IsResult(result') /\ result'.baseline_verified /\ result'.baseline_samples = samples
        /\ result'.trials = result.trials /\ result'.status = result.status
        /\ result'.accepted = result.accepted /\ result'.best = result.best
    BY <1>1, <2>1 DEF StatusInv, IsResult
  <2>5. AcceptedOf(result') = {}
    BY <1>1, <2>4 DEF FileInv, ParentInv, AcceptedOf
  <2>6. phase' = "round" /\ bestKernel' = Baseline /\ UNCHANGED <<cancelled, round, trial>>
    BY <1>3 DEF BaselineMeasured
  <2>7. PICK S : result.trials \in Seq(S)
    BY <1>1 DEF FileInv, IdsInv
  <2>8. ParentOf(result', Next1(result')) = [version |-> Baseline, samples |-> samples]
    BY <2>4, <2>5, <2>7, NextParent
  <2>9. IdsInv' /\ TrialInv'
    BY <1>1, <2>4, <2>6 DEF FileInv, IdsInv, TrialInv, InRound, Tried
  <2>10. ParentInv'
    BY <2>2, <2>3, <2>4, <2>6, <2>8 DEF ParentInv
  <2>11. ChainInv'
    BY <2>5 DEF ChainInv
  <2>12. AnnouncedInv'
    BY <1>1, <2>4, <2>6 DEF FileInv, AnnouncedInv, NothingAnnounced
  <2>13. StatusInv'
    BY <1>1, <2>4, <2>6 DEF StatusInv
  <2> QED
    BY <2>9, <2>10, <2>11, <2>12, <2>13 DEF RoundsInv, FileInv
<1> QED
  BY <1>2, <1>3

(* -- the candidate of a round ------------------------------------------------------ *)
(* What an accepting gate saved lets the server accept the trial.               *)
LEMMA GateSaved ==
  ASSUME NEW b, NEW c, NEW k, NEW x, NEW y, Gate(b, c, x, y, k, "recheck").decision = "accepted"
  PROVE  /\ SavedGateIsAccepted(Gate(b, c, x, y, k, "recheck"))
         /\ Gate(b, c, x, y, k, "recheck").baseline = b /\ Gate(b, c, x, y, k, "recheck").candidate = c
         /\ Gate(b, c, x, y, k, "recheck").recheck = k
<1>1. PICK g, found : g = Gate(b, c, x, y, k, "recheck") /\ found = AssessPerformance(b, c, x, y, k, "recheck")
  OBVIOUS
<1>2. g = [decision |-> found.decision, codegen_status |-> found.codegen_status,
           baseline |-> b, candidate |-> c, recheck |-> k, before |-> Digest(x), after |-> Digest(y),
           recheck_passed |-> found.decision = "accepted" /\ k # NotMeasured]
  BY <1>1 DEF Gate
<1>3. found.decision = "accepted"
  BY <1>1, <1>2
<1>4. k # NotMeasured
  BY <1>1, <1>3 DEF AssessPerformance, AssessmentOf
<1>5. PICK again : again = AssessPerformance(b, c, Recorded(Digest(x)), Recorded(Digest(y)), k, "recheck")
  OBVIOUS
<1>6. found.codegen_status \in {"changed", "unavailable"} /\ again = AssessmentOf("accepted", found.codegen_status)
  BY <1>1, <1>3, <1>5, AcceptedAgain
<1>7. /\ g.decision = "accepted" /\ g.codegen_status = found.codegen_status
      /\ g.baseline = b /\ g.candidate = c /\ g.recheck = k
      /\ g.before = Digest(x) /\ g.after = Digest(y)
  BY <1>2, <1>3
<1>8. g.recheck_passed
  <2>1. g.recheck_passed = (found.decision = "accepted" /\ k # NotMeasured)
    BY <1>2
  <2> QED
    BY <1>3, <1>4, <2>1
<1>9. g # NoGate
  <2>1. NoGate.decision = "none"
    BY DEF NoGate, None
  <2> QED
    BY <1>7, <2>1
<1>10. AssessPerformance(g.baseline, g.candidate, Recorded(g.before), Recorded(g.after), g.recheck, "recheck")
         = AssessmentOf("accepted", g.codegen_status)
  BY <1>5, <1>6, <1>7
<1>11. SavedGateIsAccepted(g)
  BY <1>6, <1>7, <1>8, <1>9, <1>10 DEF SavedGateIsAccepted
<1> QED
  BY <1>1, <1>7, <1>11

LEMMA TrialSteps ==
  ASSUME RoundsInv, GateScreens \/ RecheckMeasured \/ RecheckFails
  PROVE  RoundsInv'
<1>1. /\ UNCHANGED <<result, bestKernel, parent, round, cancelled>>
      /\ phase \in {"gate", "recheck"} /\ phase' \in {"recheck", "settle"}
  BY DEF GateScreens, RecheckMeasured, RecheckFails
<1>2. Hopeful /\ FileInv /\ StatusInv /\ TrialInv
  BY <1>1 DEF RoundsInv, Hopeful, FileInv
<1>3. IsTrial(trial) /\ trial.status = "running"
  BY <1>1, <1>2 DEF TrialInv, Tried
<1>4. StatusInv' /\ IdsInv' /\ ChainInv' /\ ParentInv'
  BY <1>1, <1>2, FileUntouched DEF FileInv, StatusInv, IdsInv, InRound, Tried, Rounds
<1>5. AnnouncedInv'
  BY <1>1, <1>2, FileUntouched DEF FileInv, AnnouncedInv, Rounds, InRound, Tried
<1>6. TrialInv'
  <2>1. SUFFICES /\ IsTrial(trial') /\ trial'.id = trial.id /\ trial'.before = trial.before
                 /\ trial'.baseline_samples = trial.baseline_samples /\ trial'.correct = trial.correct
                 /\ trial'.executed = trial.executed /\ trial'.after = trial.after
                 /\ trial'.candidate_samples = trial.candidate_samples
                 /\ phase' = "recheck" => trial'.status = "running"
                 /\ trial'.status = "accepted" => Passed(trial')
    BY <1>1, <1>2 DEF TrialInv, Tried
  <2>2. CASE GateScreens
    <3>1. PICK gate : \/ trial' = [trial EXCEPT !.status = "cancelled"] /\ phase' = "settle"
                      \/ trial' = trial /\ phase' = "recheck"
                      \/ trial' = [trial EXCEPT !.status = "no_improvement", !.gate = gate] /\ phase' = "settle"
      BY <2>2 DEF GateScreens
    <3> QED
      BY <1>3, <3>1 DEF IsTrial
  <2>3. CASE RecheckFails
    <3>1. trial' = [trial EXCEPT !.status = "no_improvement"] /\ phase' = "settle"
      BY <2>3 DEF RecheckFails
    <3> QED
      BY <1>3, <3>1 DEF IsTrial
  <2>4. CASE RecheckMeasured
    <3>1. PICK samples \in Samples, codegen \in Codegens :
            LET gate == Gate(parent.samples, trial.candidate_samples, parent.codegen, trial.codegen,
                             samples, "recheck")
                drifted == codegen = "inconsistent" \/ Digest(parent.codegen) \notin {None, Digest(codegen)}
            IN trial' = [trial EXCEPT !.recheck = samples,
                           !.status = IF gate.decision = "accepted" /\ ~drifted THEN "accepted" ELSE "no_improvement",
                           !.gate = IF drifted
                                    THEN [gate EXCEPT !.decision = "inconclusive", !.recheck_passed = FALSE]
                                    ELSE gate]
      BY <2>4 DEF RecheckMeasured
    <3>0. PICK gate :
            gate = Gate(parent.samples, trial.candidate_samples, parent.codegen, trial.codegen, samples, "recheck")
      OBVIOUS
    <3>2. PICK status, saved :
            /\ trial' = [trial EXCEPT !.recheck = samples, !.status = status, !.gate = saved]
            /\ status \in {"accepted", "no_improvement"}
            /\ status = "accepted" => saved = gate /\ gate.decision = "accepted"
      <4> DEFINE drifted == codegen = "inconsistent" \/ Digest(parent.codegen) \notin {None, Digest(codegen)}
                 status == IF gate.decision = "accepted" /\ ~drifted THEN "accepted" ELSE "no_improvement"
                 saved == IF drifted THEN [gate EXCEPT !.decision = "inconclusive", !.recheck_passed = FALSE]
                          ELSE gate
      <4>1. trial' = [trial EXCEPT !.recheck = samples, !.status = status, !.gate = saved]
        BY <3>0, <3>1
      <4>2. /\ status \in {"accepted", "no_improvement"}
            /\ status = "accepted" => saved = gate /\ gate.decision = "accepted"
        OBVIOUS
      <4> QED
        BY <4>1, <4>2
    <3>3. /\ IsTrial(trial') /\ trial'.id = trial.id /\ trial'.before = trial.before
          /\ trial'.baseline_samples = trial.baseline_samples /\ trial'.correct = trial.correct
          /\ trial'.executed = trial.executed /\ trial'.after = trial.after
          /\ trial'.candidate_samples = trial.candidate_samples
          /\ trial'.recheck = samples /\ trial'.status = status /\ trial'.gate = saved
      BY <1>3, <3>2 DEF IsTrial
    <3>4. phase' = "settle"
      BY <2>4 DEF RecheckMeasured
    <3>5. /\ parent.samples \in Seq(Int) /\ trial.candidate_samples \in Seq(Int) /\ samples \in Seq(Int)
          /\ trial.baseline_samples = parent.samples /\ trial.correct /\ trial.executed = trial.after
      BY <1>1, <1>2, RoundsAssumption DEF FileInv, ParentInv, TrialInv, Tried
    <3>6. ASSUME trial'.status = "accepted" PROVE Passed(trial')
      <4>1. trial'.gate = gate /\ gate.decision = "accepted"
        BY <3>2, <3>3, <3>6
      <4>2. /\ SavedGateIsAccepted(gate) /\ gate.baseline = parent.samples
            /\ gate.candidate = trial.candidate_samples /\ gate.recheck = samples
        <5>1. PICK b, c, x, y : b = parent.samples /\ c = trial.candidate_samples
                               /\ x = parent.codegen /\ y = trial.codegen
          OBVIOUS
        <5>2. gate = Gate(b, c, x, y, samples, "recheck")
          BY <3>0, <5>1
        <5>3. Gate(b, c, x, y, samples, "recheck").decision = "accepted"
          BY <4>1, <5>2
        <5>4. /\ SavedGateIsAccepted(Gate(b, c, x, y, samples, "recheck"))
              /\ Gate(b, c, x, y, samples, "recheck").baseline = b /\ Gate(b, c, x, y, samples, "recheck").candidate = c
              /\ Gate(b, c, x, y, samples, "recheck").recheck = samples
          BY <5>3, GateSaved
        <5> QED
          BY <5>1, <5>2, <5>4
      <4> QED
        BY <3>3, <3>5, <4>1, <4>2 DEF Passed, GateMatches
    <3> QED
      BY <3>3, <3>4, <3>6
  <2> QED
    BY <2>2, <2>3, <2>4
<1> QED
  BY <1>4, <1>5, <1>6 DEF RoundsInv, FileInv

(* The samples of two benchmarks together.                                       *)
LEMMA Joined ==
  ASSUME NEW b \in Seq(Int), NEW k \in Seq(Int), b # <<>>
  PROVE  /\ b \o k \in Seq(Int) /\ b \o k # <<>>
         /\ \A i \in DOMAIN b : \E j \in DOMAIN (b \o k) : (b \o k)[j] = b[i]
         /\ \A i \in DOMAIN k : \E j \in DOMAIN (b \o k) : (b \o k)[j] = k[i]
         /\ \A i \in DOMAIN (b \o k) : (\E j \in DOMAIN b : (b \o k)[i] = b[j]) \/ (\E j \in DOMAIN k : (b \o k)[i] = k[j])
<1> DEFINE s == b \o k
<1>1. PICK m, n : m = Len(b) /\ n = Len(k)
  OBVIOUS
<1>2. /\ m \in Nat /\ n \in Nat /\ m > 0
      /\ DOMAIN b = 1..m /\ DOMAIN k = 1..n
  BY <1>1
<1>3. s \in Seq(Int) /\ Len(s) = m + n
  BY <1>1
<1>4. DOMAIN s = 1..(m + n)
  BY <1>3, <1>2
<1>5. ASSUME NEW i \in 1..m PROVE s[i] = b[i]
  BY <1>1, <1>2
<1>6. ASSUME NEW i \in 1..n PROVE s[m + i] = k[i]
  <2>1. i \in Int /\ m + i > m /\ m + i <= m + n /\ (m + i) - m = i
    BY <1>2
  <2> QED
    BY <1>1, <1>2, <2>1
<1> HIDE DEF s
<1>7. \A i \in DOMAIN b : i \in DOMAIN s /\ s[i] = b[i]
  BY <1>2, <1>4, <1>5
<1>8. ASSUME NEW i \in DOMAIN k PROVE \E j \in DOMAIN s : s[j] = k[i]
  <2>1. m + i \in DOMAIN s /\ s[m + i] = k[i]
    BY <1>2, <1>4, <1>6
  <2> QED
    BY <2>1
<1>9. ASSUME NEW i \in DOMAIN s PROVE (\E j \in DOMAIN b : s[i] = b[j]) \/ (\E j \in DOMAIN k : s[i] = k[j])
  <2>1. CASE i <= m
    <3>1. i \in DOMAIN b
      BY <1>2, <1>4, <2>1
    <3> QED
      BY <1>7, <3>1
  <2>2. CASE i > m
    <3>1. i - m \in 1..n /\ m + (i - m) = i
      BY <1>2, <1>4, <2>2
    <3> QED
      BY <1>2, <1>6, <3>1
  <2> QED
    BY <1>2, <1>4, <2>1, <2>2
<1>10. s # <<>>
  BY <1>2, <1>3
<1> QED
  BY <1>3, <1>7, <1>8, <1>9, <1>10 DEF s

(* What an accepted trial passed: it gains over each sample of its parent and   *)
(* of the repeated run of it.                                                   *)
LEMMA PassedGains ==
  ASSUME NEW t, Passed(t)
  PROVE  /\ Positive(t.baseline_samples) /\ Positive(t.candidate_samples) /\ Positive(t.recheck)
         /\ Len(t.recheck) >= MinimumRepeats
         /\ Improves(Least(t.baseline_samples), Greatest(t.candidate_samples))
         /\ Improves(Least(t.recheck), Greatest(t.candidate_samples))
<1>1. PICK b \in Seq(Int), c \in Seq(Int), k \in Seq(Int) :
        b = t.baseline_samples /\ c = t.candidate_samples /\ k = t.recheck
  BY DEF Passed
<1>2. PICK x, y : x = Recorded(t.gate.before) /\ y = Recorded(t.gate.after)
  OBVIOUS
<1>3. AssessPerformance(b, c, x, y, k, "recheck").decision = "accepted"
  <2>1. AssessPerformance(b, c, x, y, k, "recheck") = AssessmentOf("accepted", t.gate.codegen_status)
    BY <1>1, <1>2 DEF Passed, GateMatches, SavedGateIsAccepted
  <2> QED
    BY <2>1 DEF AssessmentOf
<1>4. Positive(b) /\ Positive(c) /\ Positive(k) /\ Len(k) >= MinimumRepeats /\ Improves(Least(b \o k), Greatest(c))
  BY <1>3, AcceptedSamples
<1> DEFINE s == b \o k
<1>5. /\ s \in Seq(Int) /\ s # <<>>
      /\ \A i \in DOMAIN b : \E j \in DOMAIN s : s[j] = b[i]
      /\ \A i \in DOMAIN k : \E j \in DOMAIN s : s[j] = k[i]
      /\ \A i \in DOMAIN s : (\E j \in DOMAIN b : s[i] = b[j]) \/ (\E j \in DOMAIN k : s[i] = k[j])
  BY <1>4, Joined DEF Positive
<1>6. Improves(Least(s), Greatest(c))
  BY <1>4
<1> HIDE DEF s
<1>7. /\ Least(s) \in Int /\ Least(s) > 0 /\ \A i \in DOMAIN s : Least(s) <= s[i]
  <2>1. /\ Least(s) \in Int /\ \A i \in DOMAIN s : Least(s) <= s[i]
        /\ \E i \in DOMAIN s : Least(s) = s[i]
    BY <1>5, SamplesAreBounded
  <2>2. \A i \in DOMAIN s : s[i] > 0
    BY <1>4, <1>5 DEF Positive
  <2> QED
    BY <2>1, <2>2
<1>8. Greatest(c) \in Int /\ Greatest(c) > 0
  BY <1>4, SamplesAreBounded DEF Positive
<1>9. Least(b) \in Int /\ Least(b) >= Least(s)
  <2>1. Least(b) \in Int /\ \E i \in DOMAIN b : Least(b) = b[i]
    BY <1>4, SamplesAreBounded DEF Positive
  <2> QED
    BY <1>5, <1>7, <2>1
<1>10. Least(k) \in Int /\ Least(k) >= Least(s)
  <2>1. Least(k) \in Int /\ \E i \in DOMAIN k : Least(k) = k[i]
    BY <1>4, SamplesAreBounded DEF Positive
  <2> QED
    BY <1>5, <1>7, <2>1
<1>11. Improves(Least(b), Greatest(c)) /\ Improves(Least(k), Greatest(c))
  BY <1>6, <1>7, <1>8, <1>9, <1>10, SlowerGains
<1> QED
  BY <1>1, <1>4, <1>11

(* A candidate that gains over a version that gains over the baseline.          *)
LEMMA GainsAdd ==
  ASSUME NEW t, Passed(t), NEW baseline, NEW p,
         t.baseline_samples = p.candidate_samples, GainsOver(baseline, p)
  PROVE  GainsOver(baseline, t)
<1>1. PICK a, b, c : a = Least(baseline) /\ b = Greatest(p.candidate_samples) /\ c = Greatest(t.candidate_samples)
  OBVIOUS
<1>2. a \in Int /\ b \in Int /\ c \in Int
  BY <1>1, PassedGains, SamplesAreBounded DEF GainsOver, Positive
<1>3. c <= b
  <2> DEFINE s == t.baseline_samples
  <2>1. /\ Least(s) \in Int /\ Improves(Least(s), c)
        /\ \E i \in DOMAIN s : Least(s) = s[i]
        /\ \A i \in DOMAIN s : s[i] <= Greatest(s)
    BY <1>1, PassedGains, SamplesAreBounded DEF Positive
  <2>2. Greatest(s) = b
    BY <1>1
  <2> HIDE DEF s
  <2> QED
    BY <1>2, <2>1, <2>2 DEF Improves
<1>4. Improves(a, b)
  BY <1>1 DEF GainsOver
<1>5. Improves(a, c)
  BY <1>2, <1>3, <1>4, FasterGains
<1> QED
  BY <1>1, <1>5 DEF GainsOver

(* The engine appends the trial of its round and adopts it when it was accepted. *)
LEMMA Appends ==
  ASSUME FileInv, StatusInv, phase \in InRound, phase' = "round",
         UNCHANGED <<cancelled, round, bestKernel>>,
         NEW t, NEW status, IsTrial(t), t.id = round,
         result' = Appended(t, status),
         IF status = "accepted"
         THEN /\ t.before = parent.version /\ t.baseline_samples = parent.samples /\ Passed(t)
              /\ parent' = [version |-> t.after, samples |-> t.candidate_samples, codegen |-> t.codegen]
         ELSE parent' = parent
  PROVE  StatusInv' /\ FileInv'
<1> DEFINE w == Written(t, status)
           n == Next1(result)
<1>1. w.id = round /\ w.status = status
  BY DEF Written, IsTrial
<1>2. status = "accepted" => w = [t EXCEPT !.status = status]
  BY DEF Written
<1>3. /\ IsResult(result') /\ result'.trials = Append(result.trials, w)
      /\ result'.baseline_samples = result.baseline_samples /\ result'.status = result.status
      /\ result'.baseline_verified = result.baseline_verified
      /\ result'.accepted = result.accepted /\ result'.best = result.best
  BY DEF StatusInv, IsResult, Appended
<1>4. PICK S : result.trials \in Seq(S)
  BY DEF FileInv, IdsInv
<1> HIDE DEF w
<1>5. /\ result'.trials \in Seq(S \cup {w})
      /\ n \in Nat /\ DOMAIN result.trials = 1..(n - 1) /\ DOMAIN result'.trials = 1..n
      /\ \A i \in DOMAIN result.trials : result'.trials[i] = result.trials[i]
      /\ result'.trials[n] = w
      /\ AcceptedOf(result') = IF status = "accepted" THEN AcceptedOf(result) \cup {n} ELSE AcceptedOf(result)
      /\ \A i \in 1..n : ParentOf(result', i) = ParentOf(result, i)
  <2>1. PICK r, q, v : r = result /\ q = result' /\ v = w
    OBVIOUS
  <2>2. r.trials \in Seq(S) /\ q.trials = Append(r.trials, v) /\ q.baseline_samples = r.baseline_samples
    BY <1>3, <1>4, <2>1
  <2>3. Extends(S, r, q, v)
    BY <2>2, Appending
  <2> QED
    BY <1>1, <2>1, <2>3 DEF Extends
<1>6. AcceptedOf(result) \subseteq 1..(n - 1) /\ n >= 1
  BY <1>4, <1>5 DEF AcceptedOf, Next1
<1>7. [version |-> parent.version, samples |-> parent.samples] = ParentOf(result, n)
  BY DEF FileInv, ParentInv, Rounds
<1> HIDE DEF n
<1>8. StatusInv'
  BY <1>3 DEF StatusInv, InRound, Tried
<1>9. IdsInv'
  <2>1. round \in Nat /\ round > 0 /\ round' = round
    BY DEF FileInv, IdsInv
  <2>2. \A i \in DOMAIN result'.trials :
          result'.trials[i].id = IF i = n THEN round ELSE result.trials[i].id
    BY <1>1, <1>5
  <2>3. \A i \in DOMAIN result'.trials : i # n => i \in DOMAIN result.trials
    BY <1>5
  <2>4. \A i \in DOMAIN result.trials : result.trials[i].id \in 1..round /\ result.trials[i].id # round
    BY DEF FileInv, IdsInv
  <2>5. \A i, j \in DOMAIN result.trials : result.trials[i].id = result.trials[j].id => i = j
    BY DEF FileInv, IdsInv
  <2>6. \A i \in DOMAIN result'.trials : result'.trials[i].id \in 1..round'
    BY <2>1, <2>2, <2>3, <2>4
  <2>7. \A i, j \in DOMAIN result'.trials : result'.trials[i].id = result'.trials[j].id => i = j
    BY <2>2, <2>3, <2>4, <2>5
  <2>8. phase' \notin InRound
    BY DEF InRound, Tried
  <2> QED
    BY <1>5, <2>1, <2>6, <2>7, <2>8 DEF IdsInv
<1>10. ParentInv'
  <2>1. ParentOf(result', Next1(result')) =
          IF AcceptedOf(result') = {} THEN [version |-> Baseline, samples |-> result'.baseline_samples]
          ELSE [version |-> result'.trials[Latest(AcceptedOf(result'))].after,
                samples |-> result'.trials[Latest(AcceptedOf(result'))].candidate_samples]
    BY <1>5, NextParent
  <2>2. CASE status = "accepted"
    <3>1. Latest(AcceptedOf(result')) = n
      <4>1. AcceptedOf(result') \subseteq 1..n /\ n \in AcceptedOf(result')
        BY <1>5, <1>6, <2>2
      <4>2. \A j \in AcceptedOf(result') : j <= Latest(AcceptedOf(result'))
        BY <1>5, <4>1, LatestIsLast
      <4>3. Latest(AcceptedOf(result')) \in 1..n
        BY <1>5, <4>1, LatestIsLast
      <4>4. PICK l : l = Latest(AcceptedOf(result'))
        OBVIOUS
      <4>5. l \in 1..n /\ n <= l
        BY <4>1, <4>2, <4>3, <4>4
      <4>6. l = n
        BY <1>5, <4>5
      <4> QED
        BY <4>4, <4>6
    <3>2. w.after = t.after /\ w.candidate_samples = t.candidate_samples /\ t.candidate_samples \in Seq(Int)
      BY <1>2, <2>2 DEF IsTrial, Passed
    <3>3. parent' = [version |-> t.after, samples |-> t.candidate_samples, codegen |-> t.codegen]
      BY <2>2
    <3>4. [version |-> parent'.version, samples |-> parent'.samples] = ParentOf(result', Next1(result'))
      BY <1>5, <1>6, <2>1, <2>2, <3>1, <3>2, <3>3
    <3>5. result'.baseline_samples \in Seq(Int)
      BY <1>3 DEF FileInv, ParentInv
    <3> QED
      BY <3>2, <3>3, <3>4, <3>5 DEF ParentInv
  <2>3. CASE status # "accepted"
    <3>1. AcceptedOf(result') = AcceptedOf(result) /\ parent' = parent
      BY <1>5, <2>3
    <3>2. AcceptedOf(result) # {} => Latest(AcceptedOf(result)) \in DOMAIN result.trials
      BY <1>5, <1>6, LatestIsLast
    <3>3. ParentOf(result, n) =
          IF AcceptedOf(result) = {} THEN [version |-> Baseline, samples |-> result.baseline_samples]
          ELSE [version |-> result.trials[Latest(AcceptedOf(result))].after,
                samples |-> result.trials[Latest(AcceptedOf(result))].candidate_samples]
      BY <1>4, NextParent DEF n
    <3>4. ParentOf(result', Next1(result')) = ParentOf(result, n)
      BY <1>3, <1>5, <2>1, <3>1, <3>2, <3>3
    <3> QED
      BY <1>3, <1>7, <3>1, <3>4 DEF FileInv, ParentInv
  <2> QED
    BY <2>2, <2>3
<1>11. ChainInv'
  <2>1. ASSUME NEW i \in AcceptedOf(result)
        PROVE  FollowsParent(result', i) /\ Passed(result'.trials[i])
               /\ GainsOver(result'.baseline_samples, result'.trials[i])
    <3>1. i \in 1..n /\ result'.trials[i] = result.trials[i]
      BY <1>5, <1>6
    <3>2. ParentOf(result', i) = ParentOf(result, i)
      BY <1>5, <3>1
    <3>3. FollowsParent(result, i) /\ Passed(result.trials[i]) /\ GainsOver(result.baseline_samples, result.trials[i])
      BY DEF FileInv, ChainInv
    <3> QED
      BY <1>3, <3>1, <3>2, <3>3 DEF FollowsParent
  <2>2. ASSUME status = "accepted"
        PROVE  FollowsParent(result', n) /\ Passed(w) /\ GainsOver(result'.baseline_samples, w)
    <3>1. /\ w.before = parent.version /\ w.baseline_samples = parent.samples
          /\ w.correct = t.correct /\ w.executed = t.executed /\ w.after = t.after /\ w.gate = t.gate
          /\ w.baseline_samples = t.baseline_samples /\ w.candidate_samples = t.candidate_samples
          /\ w.recheck = t.recheck
      BY <1>2, <2>2 DEF IsTrial
    <3>2. Passed(w)
      BY <2>2, <3>1 DEF Passed, GateMatches
    <3>3. ParentOf(result', n) = [version |-> parent.version, samples |-> parent.samples]
      BY <1>5, <1>6, <1>7
    <3>4. FollowsParent(result', n)
      <4>1. GateMatches(w) /\ result'.trials[n] = w
        BY <1>5, <3>2 DEF Passed
      <4>2. ParentOf(result', n).version = parent.version /\ ParentOf(result', n).samples = parent.samples
        BY <3>3
      <4> QED
        BY <3>1, <4>1, <4>2 DEF FollowsParent
    <3>5. ParentOf(result, n) =
          IF AcceptedOf(result) = {} THEN [version |-> Baseline, samples |-> result.baseline_samples]
          ELSE [version |-> result.trials[Latest(AcceptedOf(result))].after,
                samples |-> result.trials[Latest(AcceptedOf(result))].candidate_samples]
      BY <1>4, NextParent DEF n
    <3>6. GainsOver(result.baseline_samples, w)
      <4>1. CASE AcceptedOf(result) = {}
        <5>1. w.baseline_samples = result.baseline_samples
          BY <1>7, <3>1, <3>5, <4>1
        <5> QED
          BY <3>2, <5>1, PassedGains DEF GainsOver
      <4>2. CASE AcceptedOf(result) # {}
        <5> DEFINE p == result.trials[Latest(AcceptedOf(result))]
        <5>1. w.baseline_samples = p.candidate_samples
          BY <1>7, <3>1, <3>5, <4>2
        <5>2. GainsOver(result.baseline_samples, p)
          <6>1. Latest(AcceptedOf(result)) \in AcceptedOf(result)
            BY <1>5, <1>6, <4>2, LatestIsLast
          <6> QED
            BY <6>1 DEF FileInv, ChainInv
        <5> HIDE DEF p
        <5> QED
          BY <3>2, <5>1, <5>2, GainsAdd
      <4> QED
        BY <4>1, <4>2
    <3> QED
      BY <1>3, <3>2, <3>4, <3>6
  <2> QED
    BY <1>5, <2>1, <2>2 DEF ChainInv
<1>12. TrialInv'
  BY DEF TrialInv, Tried
<1>13. AnnouncedInv'
  <2>1. result.baseline_verified /\ NothingAnnounced /\ bestKernel = Baseline
    BY DEF FileInv, AnnouncedInv, Rounds, InRound, Tried
  <2> QED
    BY <1>3, <2>1 DEF AnnouncedInv, NothingAnnounced
<1> QED
  BY <1>8, <1>9, <1>10, <1>11, <1>12, <1>13 DEF FileInv

LEMMA AppendSteps ==
  ASSUME RoundsInv, RewriteRejected \/ CandidateMeasured \/ TrialSettles
  PROVE  RoundsInv'
<1>1. phase \in InRound /\ FileInv /\ StatusInv /\ Hopeful
  BY DEF RewriteRejected, CandidateMeasured, TrialSettles, InRound, Tried, RoundsInv, Hopeful
<1>2. IsTrial(Proposed(round)) /\ Proposed(round).id = round
  BY DEF IsTrial, Proposed
<1>3. CASE RewriteRejected
  <2>1. /\ phase' = "round" /\ result' = Appended(Proposed(round), "validation_failed")
        /\ UNCHANGED <<cancelled, round, bestKernel>> /\ parent' = parent
    BY <1>3 DEF RewriteRejected
  <2>2. StatusInv' /\ FileInv'
    BY <1>1, <1>2, <2>1, Appends
  <2> QED
    BY <2>2 DEF RoundsInv
<1>4. CASE CandidateMeasured
  <2>1. UNCHANGED <<cancelled, round, bestKernel>> /\ parent' = parent /\ phase = "planned"
    BY <1>4 DEF CandidateMeasured
  <2>2. CASE result' = Appended(Proposed(round), "failed") /\ phase' = "round"
    <3>1. StatusInv' /\ FileInv'
      BY <1>1, <1>2, <2>1, <2>2, Appends
    <3> QED
      BY <3>1 DEF RoundsInv
  <2>3. ASSUME NEW samples \in Samples, NEW codegen \in Codegens,
               trial' = [Proposed(round) EXCEPT !.executed = Rewrite[parent.version][plan.target], !.correct = TRUE,
                           !.candidate_samples = samples, !.codegen = codegen],
               phase' = "gate", result' = result
        PROVE  RoundsInv'
    <3>1. samples \in Seq(Int)
      BY RoundsAssumption
    <3>2. /\ IsTrial(trial') /\ trial'.id = round /\ trial'.before = parent.version
          /\ trial'.baseline_samples = parent.samples /\ trial'.correct
          /\ trial'.executed = trial'.after /\ trial'.candidate_samples = samples
          /\ trial'.status = "running"
      BY <2>3 DEF IsTrial, Proposed
    <3>3. TrialInv'
      BY <2>1, <2>3, <3>1, <3>2 DEF TrialInv
    <3>4. StatusInv' /\ IdsInv' /\ ChainInv' /\ ParentInv'
      BY <1>1, <2>1, <2>3, FileUntouched DEF FileInv, StatusInv, IdsInv, InRound, Tried, Rounds
    <3>5. AnnouncedInv'
      BY <1>1, <2>1, <2>3, FileUntouched DEF FileInv, AnnouncedInv, Rounds, InRound, Tried
    <3> QED
      BY <3>3, <3>4, <3>5 DEF RoundsInv, FileInv
  <2> QED
    BY <1>4, <2>2, <2>3 DEF CandidateMeasured
<1>5. CASE TrialSettles
  <2>1. PICK status : status = IF cancelled THEN "cancelled" ELSE trial.status
    OBVIOUS
  <2>2. /\ phase = "settle" /\ phase' = "round" /\ result' = Appended(trial, status)
        /\ UNCHANGED <<cancelled, round, bestKernel>>
        /\ Adopt(~cancelled /\ trial.status = "accepted")
    BY <1>5, <2>1 DEF TrialSettles
  <2>3. /\ IsTrial(trial) /\ trial.id = round /\ trial.before = parent.version
        /\ trial.baseline_samples = parent.samples
        /\ trial.status = "accepted" => Passed(trial)
    BY <1>1, <2>2 DEF FileInv, TrialInv, Tried
  <2>4. status = "accepted" => ~cancelled /\ trial.status = "accepted"
    BY <2>1
  <2>5. ~cancelled /\ trial.status = "accepted" => status = "accepted"
    BY <2>1
  <2>6. IF status = "accepted"
        THEN parent' = [version |-> trial.after, samples |-> trial.candidate_samples, codegen |-> trial.codegen]
        ELSE parent' = parent
    BY <2>2, <2>4, <2>5 DEF Adopt
  <2>7. StatusInv' /\ FileInv'
    <3>1. CASE status = "accepted"
      <4>1. /\ parent' = [version |-> trial.after, samples |-> trial.candidate_samples, codegen |-> trial.codegen]
            /\ Passed(trial)
        BY <2>3, <2>4, <2>6, <3>1
      <4>2. PICK t : t = trial
        OBVIOUS
      <4> QED
        BY <1>1, <2>2, <2>3, <3>1, <4>1, <4>2, Appends
    <3>2. CASE status # "accepted"
      BY <1>1, <2>2, <2>3, <2>6, <3>2, Appends
    <3> QED
      BY <3>1, <3>2
  <2> QED
    BY <2>7 DEF RoundsInv
<1> QED
  BY <1>3, <1>4, <1>5

(* -- publication and the end --------------------------------------------------------- *)
LEMMA EndSteps ==
  ASSUME RoundsInv,
         RestoreFails \/ CancelledBeforePublication \/ Published \/ PublicationFails
           \/ CancelledAfterPublication \/ Ends
  PROVE  RoundsInv'
<1>1. phase # "end" /\ cancelled' = cancelled /\ StatusInv
  BY DEF RestoreFails, CancelledBeforePublication, Published, PublicationFails, CancelledAfterPublication, Ends,
         RoundsInv
<1>2. IsResult(result) /\ cancelled \in BOOLEAN /\ result.status = "running"
  BY <1>1 DEF StatusInv
<1>3. CASE RestoreFails \/ CancelledBeforePublication \/ PublicationFails
  <2>1. PICK trials, status :
          /\ result' = [result EXCEPT !.trials = trials, !.status = status] /\ status \in {"failed", "cancelled"}
          /\ phase' = "end"
    <3>1. CASE RestoreFails
      <4>1. result' = [[result EXCEPT !.trials = Append(@, Written(trial, "validation_failed"))]
                         EXCEPT !.status = "failed"]
        BY <3>1 DEF RestoreFails, Appended
      <4>2. result' = [result EXCEPT !.trials = Append(result.trials, Written(trial, "validation_failed")),
                                     !.status = "failed"]
        BY <1>2, <4>1 DEF IsResult
      <4> QED
        BY <3>1, <4>2 DEF RestoreFails
    <3>2. CASE CancelledBeforePublication
      BY <3>2 DEF CancelledBeforePublication
    <3>3. CASE PublicationFails
      <4>1. PICK status \in {"failed", "cancelled"} :
              result' = [result EXCEPT !.status = status,
                           !.trials = Restated({Last.id}, IF cancelled THEN "cancelled" ELSE "validation_failed")]
        BY <3>3 DEF PublicationFails
      <4>2. PICK trials : trials = Restated({Last.id}, IF cancelled THEN "cancelled" ELSE "validation_failed")
        OBVIOUS
      <4>3. result' = [result EXCEPT !.trials = trials, !.status = status]
        BY <1>2, <4>1, <4>2 DEF IsResult
      <4> QED
        BY <3>3, <4>1, <4>3 DEF PublicationFails
    <3> QED
      BY <1>3, <3>1, <3>2, <3>3
  <2>2. IsResult(result') /\ result'.status = status
    BY <1>2, <2>1 DEF IsResult
  <2> QED
    BY <1>1, <1>2, <2>1, <2>2 DEF RoundsInv, StatusInv, Hopeful
<1>4. CASE Published
  <2>1. /\ phase = "publishing" /\ phase' = "published" /\ bestKernel' = Last.after
        /\ result' = [result EXCEPT !.accepted = Last.id, !.best = Last.after]
        /\ UNCHANGED <<round, parent, trial>>
    BY <1>4 DEF Published
  <2>2. FileInv
    BY <2>1 DEF RoundsInv, Hopeful
  <2>3. PICK last : last = Last
    OBVIOUS
  <2>4. /\ IsResult(result') /\ result'.accepted = last.id /\ result'.best = last.after
        /\ result'.trials = result.trials /\ result'.baseline_samples = result.baseline_samples
        /\ result'.status = result.status /\ result'.baseline_verified = result.baseline_verified
    BY <1>2, <2>1, <2>3 DEF IsResult
  <2>5. AcceptedOf(result') = AcceptedOf(result) /\ Last' = Last
    BY <2>4 DEF AcceptedOf, Last
  <2>6. ChainInv'
    <3>1. \A i : FollowsParent(result', i) <=> FollowsParent(result, i)
      BY <2>4, ChainOf
    <3> QED
      BY <2>2, <2>4, <2>5, <3>1 DEF FileInv, ChainInv
  <2>7. IdsInv' /\ TrialInv' /\ ParentInv'
    BY <2>1, <2>2, <2>4 DEF FileInv, IdsInv, TrialInv, ParentInv, Rounds, InRound, Tried
  <2>8. AnnouncedInv'
    <3>1. LastAnnounced'
      <4>1. AcceptedOf(result) # {}
        BY <2>1, <2>2 DEF FileInv, AnnouncedInv
      <4> QED
        BY <2>1, <2>3, <2>4, <2>5, <4>1 DEF LastAnnounced
    <3>2. result'.baseline_verified
      BY <2>1, <2>2, <2>4 DEF FileInv, AnnouncedInv
    <3> QED
      BY <2>1, <3>1, <3>2 DEF AnnouncedInv, Rounds, InRound, Tried
  <2>9. StatusInv'
    BY <1>1, <1>2, <2>1, <2>4 DEF StatusInv
  <2> QED
    BY <2>6, <2>7, <2>8, <2>9 DEF RoundsInv, FileInv
<1>5. CASE CancelledAfterPublication
  <2>1. phase = "published" /\ phase' = "ending" /\ UNCHANGED <<round, parent, trial>>
    BY <1>5 DEF CancelledAfterPublication
  <2>2. CASE cancelled
    <3>1. PICK trials : result' = [result EXCEPT !.accepted = NoId, !.best = Baseline, !.trials = trials]
      BY <1>5, <2>2 DEF CancelledAfterPublication
    <3>2. IsResult(result') /\ result'.status = "running"
      BY <1>2, <3>1 DEF IsResult
    <3> QED
      BY <1>1, <1>2, <2>1, <2>2, <3>2 DEF RoundsInv, StatusInv, Hopeful
  <2>3. CASE ~cancelled
    <3>1. UNCHANGED <<result, bestKernel, parent>>
      BY <1>5, <2>1, <2>3 DEF CancelledAfterPublication
    <3>2. FileInv
      BY <2>1 DEF RoundsInv, Hopeful
    <3>3. ChainInv' /\ LastAnnounced' = LastAnnounced
      BY <2>1, <3>1, <3>2, FileUntouched
    <3>4. IdsInv' /\ TrialInv' /\ ParentInv'
      BY <2>1, <3>1, <3>2 DEF FileInv, IdsInv, TrialInv, ParentInv, Rounds, InRound, Tried
    <3>5. AnnouncedInv'
      BY <2>1, <3>1, <3>2, <3>3 DEF FileInv, AnnouncedInv, Rounds, InRound, Tried
    <3>6. StatusInv'
      BY <1>1, <1>2, <2>1, <3>1 DEF StatusInv
    <3> QED
      BY <3>3, <3>4, <3>5, <3>6 DEF RoundsInv, FileInv
  <2> QED
    BY <1>2, <2>2, <2>3
<1>6. CASE Ends
  <2>1. PICK status : /\ status = IF cancelled THEN "cancelled" ELSE "completed"
                      /\ result' = [result EXCEPT !.status = status]
    BY <1>6 DEF Ends
  <2>2. phase = "ending" /\ phase' = "end" /\ UNCHANGED <<round, parent, trial, bestKernel>>
    BY <1>6 DEF Ends
  <2>3. /\ IsResult(result') /\ result'.status = status
        /\ result'.accepted = result.accepted /\ result'.best = result.best
        /\ result'.trials = result.trials /\ result'.baseline_samples = result.baseline_samples
        /\ result'.baseline_verified = result.baseline_verified
    BY <1>2, <2>1 DEF IsResult
  <2>4. StatusInv'
    BY <1>1, <1>2, <2>2, <2>3 DEF StatusInv
  <2>5. CASE cancelled
    BY <2>1, <2>2, <2>3, <2>4, <2>5 DEF RoundsInv, Hopeful
  <2>6. CASE ~cancelled
    <3>1. FileInv
      BY <2>2, <2>6 DEF RoundsInv, Hopeful
    <3>2. ChainInv'
      <4>1. \A i : FollowsParent(result', i) <=> FollowsParent(result, i)
        BY <2>3, ChainOf
      <4>2. AcceptedOf(result') = AcceptedOf(result)
        BY <2>3 DEF AcceptedOf
      <4> QED
        BY <2>3, <3>1, <4>1, <4>2 DEF FileInv, ChainInv
    <3>3. IdsInv' /\ TrialInv' /\ ParentInv'
      BY <2>2, <2>3, <3>1 DEF FileInv, IdsInv, TrialInv, ParentInv, Rounds, InRound, Tried
    <3>4. /\ NothingAnnounced => NothingAnnounced'
          /\ LastAnnounced => LastAnnounced'
      BY <2>2, <2>3 DEF NothingAnnounced, LastAnnounced, Last, AcceptedOf
    <3>5. AnnouncedInv'
      BY <2>2, <2>3, <3>1, <3>4 DEF FileInv, AnnouncedInv, Rounds, InRound, Tried
    <3> QED
      BY <2>4, <3>2, <3>3, <3>5 DEF RoundsInv, FileInv
  <2> QED
    BY <1>2, <2>5, <2>6
<1> QED
  BY <1>3, <1>4, <1>5, <1>6

LEMMA RoundsStep == RoundsInv /\ [Next]_vars => RoundsInv'
<1> SUFFICES ASSUME RoundsInv, [Next]_vars PROVE RoundsInv'
  OBVIOUS
<1>1. CASE UNCHANGED vars
  BY <1>1 DEF vars, RoundsInv, StatusInv, Hopeful, FileInv, IdsInv, ParentInv, TrialInv, ChainInv, AnnouncedInv,
              NothingAnnounced, LastAnnounced, Last
<1>2. CASE Next
  BY <1>2, BaselineSteps, QuietSteps, RaiseStep, TrialSteps, AppendSteps, EndSteps DEF Next
<1> QED
  BY <1>1, <1>2

(* The inductive invariant of the rounds: see RoundsInv.                        *)
THEOREM RoundsInvariance == Spec => []RoundsInv
<1>1. Init => RoundsInv
  BY RoundsInit
<1>2. RoundsInv /\ [Next]_vars => RoundsInv'
  BY RoundsStep
<1> QED
  BY <1>1, <1>2, PTL DEF Spec

(* -- what the server makes of the file ------------------------------------------------ *)
(* The announced trial is the last accepted one.                                *)
LEMMA LastIsAccepted ==
  ASSUME FileInv, LastAnnounced
  PROVE  \E i \in AcceptedOf(result) :
           /\ i \in DOMAIN result.trials /\ result.trials[i] = Last /\ result.trials[i].id # NoId
<1>1. PICK S : result.trials \in Seq(S)
  BY DEF FileInv, IdsInv
<1>2. /\ Next1(result) - 1 \in Nat /\ DOMAIN result.trials = 1..(Next1(result) - 1)
      /\ AcceptedOf(result) \subseteq DOMAIN result.trials
  BY <1>1 DEF Next1, AcceptedOf
<1>3. Latest(AcceptedOf(result)) \in AcceptedOf(result)
  BY <1>2, LatestIsLast DEF LastAnnounced
<1>4. \A i \in DOMAIN result.trials : result.trials[i].id # NoId
  BY DEF FileInv, IdsInv, NoId
<1> QED
  BY <1>2, <1>3, <1>4 DEF Last

(* For any number of rounds, targets and samples: what the engine reports as    *)
(* completed, the server verifies from the file and best_kernel.py alone.       *)
THEOREM CompletedIsVerified == Spec => []CompletedVerifies
<1>1. RoundsInv => CompletedVerifies
  <2> SUFFICES ASSUME RoundsInv, phase = "end", result.status = "completed"
               PROVE  SourceBestVerified(result, bestKernel)
    BY DEF CompletedVerifies
  <2>1. FileInv
    BY DEF RoundsInv, Hopeful
  <2>2. result.baseline_verified /\ ((NothingAnnounced /\ bestKernel = Baseline) \/ LastAnnounced)
    BY <2>1 DEF FileInv, AnnouncedInv
  <2>3. CASE NothingAnnounced /\ bestKernel = Baseline
    BY <2>2, <2>3 DEF NothingAnnounced, SourceBestVerified
  <2>4. CASE LastAnnounced
    <3>1. PICK i \in AcceptedOf(result) : result.trials[i] = Last /\ result.trials[i].id # NoId
      BY <2>1, <2>4, LastIsAccepted
    <3>2. /\ result.trials[i].id = result.accepted /\ result.trials[i].after = result.best
          /\ bestKernel = result.best /\ result.accepted # NoId
      BY <2>4, <3>1 DEF LastAnnounced
    <3>3. \A j \in AcceptedOf(result) : j <= i => FollowsParent(result, j)
      BY <2>1 DEF FileInv, ChainInv
    <3> QED
      BY <2>2, <3>2, <3>3 DEF SourceBestVerified
  <2> QED
    BY <2>2, <2>3, <2>4
<1> QED
  BY <1>1, RoundsInvariance, PTL

(* Both samples a median is made of lie between the least and the greatest.     *)
LEMMA MedianIsBetween ==
  ASSUME NEW s \in Seq(Int), s # <<>>
  PROVE  Median(s) \in Int /\ 2 * Least(s) <= Median(s) /\ Median(s) <= 2 * Greatest(s)
<1>1. PICK n : n = Len(s)
  OBVIOUS
<1>2. n \in Nat \ {0} /\ DOMAIN s = 1..n
  BY <1>1
<1>3. (n + 1) \div 2 \in 1..n /\ n \div 2 + 1 \in 1..n
  BY <1>2
<1>4. PICK i \in DOMAIN s, j \in DOMAIN s : Median(s) = s[i] + s[j]
  BY <1>1, <1>2, <1>3 DEF Median
<1>5. /\ Least(s) \in Int /\ Greatest(s) \in Int /\ s[i] \in Int /\ s[j] \in Int
      /\ Least(s) <= s[i] /\ s[i] <= Greatest(s) /\ Least(s) <= s[j] /\ s[j] <= Greatest(s)
  BY SamplesAreBounded
<1> QED
  BY <1>4, <1>5

(* So a gain over every sample is one of the medians.                           *)
LEMMA MediansGain ==
  ASSUME NEW b, NEW c, Positive(b), Positive(c), Improves(Least(b), Greatest(c))
  PROVE  Improves(Median(b), Median(c))
<1>1. PICK x, y, u, v : x = Least(b) /\ y = Greatest(c) /\ u = Median(b) /\ v = Median(c)
  OBVIOUS
<1>2. /\ x \in Int /\ y \in Int /\ u \in Int /\ v \in Int
      /\ 2 * x <= u /\ v <= 2 * y
  BY <1>1, SamplesAreBounded, MedianIsBetween DEF Positive
<1>3. x > 0
  BY <1>1, SamplesAreBounded DEF Positive
<1>4. v > 0
  <2>1. PICK l : l = Least(c)
    OBVIOUS
  <2>2. l \in Int /\ l > 0
    BY <2>1, SamplesAreBounded DEF Positive
  <2>3. 2 * l <= v
    BY <1>1, <2>1, MedianIsBetween DEF Positive
  <2> QED
    BY <1>2, <2>2, <2>3
<1>5. Improves(2 * x, 2 * y)
  <2>1. Threshold \in Nat /\ x > y /\ (x - y) * 100 >= Threshold * x
    BY <1>1, RoundsAssumption DEF Improves
  <2>2. 2 * (Threshold * x) = Threshold * (2 * x)
    BY <1>2, <2>1
  <2> DEFINE t == Threshold * x
  <2>3. t \in Int /\ (x - y) * 100 >= t /\ Threshold * (2 * x) = 2 * t
    BY <1>2, <2>1, <2>2
  <2> HIDE DEF t
  <2>4. 2 * x > 2 * y /\ (2 * x - 2 * y) * 100 >= 2 * t
    BY <1>2, <2>1, <2>3
  <2> QED
    BY <2>3, <2>4 DEF Improves
<1>6. Improves(2 * x, v)
  BY <1>2, <1>5, FasterGains
<1>7. Improves(u, v)
  BY <1>2, <1>3, <1>4, <1>6, SlowerGains
<1> QED
  BY <1>1, <1>7

(* A gain over the least sample is one over each.                               *)
LEMMA EachSampleGains ==
  ASSUME NEW b, NEW c, Positive(b), Positive(c), Improves(Least(b), Greatest(c)), NEW i \in DOMAIN b
  PROVE  Improves(b[i], Greatest(c))
<1>1. PICK x, y, v : x = Least(b) /\ y = Greatest(c) /\ v = b[i]
  OBVIOUS
<1>2. x \in Int /\ x > 0 /\ v \in Int /\ x <= v
  BY <1>1, SamplesAreBounded DEF Positive
<1>3. y \in Int /\ y > 0
  BY <1>1, SamplesAreBounded DEF Positive
<1>4. Improves(v, y)
  BY <1>1, <1>2, <1>3, SlowerGains
<1> QED
  BY <1>1, <1>4

(* For any number of rounds, threshold and samples: what the server shows is    *)
(* earned over every sample of the baseline and of the repeated parent, though  *)
(* the gate only ever compared with the parent.                                 *)
THEOREM ShownGainEarned == Spec => []ShownGainIsEarned
<1>1. RoundsInv => ShownGainIsEarned
  <2> SUFFICES ASSUME RoundsInv, phase = "end", SourceBestVerified(result, bestKernel), result.accepted # NoId
               PROVE  LET best == AcceptedTrial(result)
                      IN /\ best.after = bestKernel /\ best.executed = bestKernel /\ best.correct
                         /\ Len(best.recheck) >= MinimumRepeats
                         /\ \A samples \in {result.baseline_samples, best.recheck} : \A i \in DOMAIN samples :
                              Improves(samples[i], Greatest(best.candidate_samples))
                         /\ Improves(SourceGain(result)[1], SourceGain(result)[2])
    BY DEF ShownGainIsEarned
  <2>1. FileInv
    BY DEF RoundsInv, Hopeful, SourceBestVerified
  <2>2. LastAnnounced
    BY <2>1 DEF FileInv, AnnouncedInv, NothingAnnounced
  <2>3. PICK i \in AcceptedOf(result) : i \in DOMAIN result.trials /\ result.trials[i] = Last
    BY <2>1, <2>2, LastIsAccepted
  <2>4. AcceptedTrial(result) = Last
    <3> DEFINE T == {result.trials[j] : j \in DOMAIN result.trials}
    <3>1. \A j \in DOMAIN result.trials : result.trials[j].id = result.accepted => j = i
      BY <2>1, <2>2, <2>3 DEF FileInv, IdsInv, LastAnnounced
    <3>2. \A t \in T : t.id = result.accepted => t = Last
      BY <2>3, <3>1
    <3>3. Last \in T /\ Last.id = result.accepted
      BY <2>2, <2>3 DEF LastAnnounced
    <3> QED
      BY <3>2, <3>3 DEF AcceptedTrial
  <2>5. PICK best : best = Last
    OBVIOUS
  <2>6. Passed(best) /\ GainsOver(result.baseline_samples, best)
    BY <2>1, <2>3, <2>5 DEF FileInv, ChainInv
  <2>7. best.after = bestKernel /\ best.executed = bestKernel /\ best.correct
    BY <2>2, <2>5, <2>6 DEF LastAnnounced, Passed, GateMatches
  <2>8. /\ Positive(best.recheck) /\ Positive(best.candidate_samples) /\ Len(best.recheck) >= MinimumRepeats
        /\ Improves(Least(best.recheck), Greatest(best.candidate_samples))
    BY <2>6, PassedGains
  <2>9. /\ Positive(result.baseline_samples)
        /\ Improves(Least(result.baseline_samples), Greatest(best.candidate_samples))
    BY <2>6 DEF GainsOver
  <2>10. \A samples \in {result.baseline_samples, best.recheck} : \A j \in DOMAIN samples :
           Improves(samples[j], Greatest(best.candidate_samples))
    BY <2>8, <2>9, EachSampleGains
  <2>11. Improves(Median(result.baseline_samples), Median(best.candidate_samples))
    BY <2>8, <2>9, MediansGain
  <2> QED
    BY <2>4, <2>5, <2>7, <2>8, <2>10, <2>11 DEF SourceGain
<1> QED
  BY <1>1, RoundsInvariance, PTL
===============================================================================
