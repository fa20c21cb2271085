------------------------- MODULE PolicySegmentation -------------------------
(***************************************************************************)
(* The offline experiment that asks whether a learned tree chooses the      *)
(* range of an item better than its class does                              *)
(* (evaluate_replenishment/policy_segmentation.py,                          *)
(* training/policy_segmentation.py), beside the studies of                  *)
(* CatalogComparison and with the same directory of artifacts.  Training    *)
(* cases fit trees, validation cases choose one, and of each holdout case   *)
(* three arms choose on the planning input before its demand is replayed.   *)
(*                                                                          *)
(* An experiment is [cases, profiles, fixed]: profiles are numbered in the  *)
(* order of their identifiers, and fixed is the profile of each segment.    *)
(* Classification is made again under every search configuration, which it  *)
(* does not read.  Regret and ratios are in whole parts of ten thousand;    *)
(* the share of weeks with demand, the cost ratio, which all items of an    *)
(* experiment share, and timings are left out.                              *)
(***************************************************************************)
EXTENDS CatalogComparison

VARIABLE experiment   \* how far the experiment is, Nothing before it starts

segmentationVars == <<studyVars, experiment>>

Trial    == Given.experiment
Profiles == Trial.profiles
Arms     == <<"ABC_XYZ", "ML_PROFILE", "WIDE_REFERENCE">>
ArmSet   == ToSet(Arms)

-----------------------------------------------------------------------------
(* The cases, in the order of their periods.                                *)

SplitOrder == [TRAIN |-> 0, VALIDATION |-> 1, HOLDOUT |-> 2]
TrialCases == SortSeq(Trial.cases, LAMBDA c, d : c.plan.start < d.plan.start)

OrderRefusal(k) ==
  LET c == TrialCases[k]
      before == TrialCases[k - 1]
  IN First(<<
       Check(OfflineRefusal(c)),
       <<k > 1 /\ before.plan.start + before.plan.weeks > c.plan.start,
         "SEGMENTATION_OVERLAPPING_PERIODS">>,
       <<k > 1 /\ SplitOrder[before.split] > SplitOrder[c.split], "SEGMENTATION_SPLIT_ORDER">> >>)

TrialRefusal ==
  First(<<
    <<Len(Trial.cases) \notin 3..12 \/ Cardinality(DOMAIN Profiles) \notin 2..4,
      "SEGMENTATION_EXPERIMENT_SIZE">>,
    <<\E a, b \in DOMAIN Trial.cases : a # b /\ Trial.cases[a].name = Trial.cases[b].name,
      "SEGMENTATION_DUPLICATE_CASE">>,
    <<DOMAIN Trial.fixed # Segments, "SEGMENTATION_ABC_PROFILE_COVERAGE">>,
    <<\E s \in DOMAIN Trial.fixed : Trial.fixed[s] \notin DOMAIN Profiles,
      "SEGMENTATION_ABC_UNKNOWN_PROFILE">>,
    Check(FirstRefusal([k \in DOMAIN TrialCases |-> OrderRefusal(k)])),
    <<{c.split : c \in ToSet(Trial.cases)} # DOMAIN SplitOrder, "SEGMENTATION_REQUIRED_SPLITS">> >>)

-----------------------------------------------------------------------------
(* A run of the search and the selection under another search configuration. *)

Policies(p) == p.kinds \X p.rmos \X p.emos \X p.levels \X p.reviews

\* The wide reference has the union of the ranges column by column, which must be the
\* union of their policies.
BroadProfile == [f \in DOMAIN Profiles[1] |-> UNION {Profiles[p][f] : p \in DOMAIN Profiles}]

BroadRefusal ==
  IF \/ Policies(BroadProfile) # UNION {Policies(Profiles[p]) : p \in DOMAIN Profiles}
     \/ Cardinality(Policies(BroadProfile)) > 32
  THEN "SEGMENTATION_REFERENCE_LIBRARY" ELSE None

WithGroups(g)  == [Given.config.search EXCEPT !.groups = g]
BroadSearch    == WithGroups([s \in Segments |-> BroadProfile])
Rebuilt(search) == [Given.config EXCEPT !.search = search, !.name = <<@, search>>]

SnapshotUnder(config) ==
  [Given.snapshot EXCEPT
     !.config = config.name,
     !.items = [i \in DOMAIN @ |-> [@[i] EXCEPT !.policy.config = config.name]]]

GatesOf(snapshot) ==
  [i \in DOMAIN snapshot.items |->
     <<snapshot.items[i].status, PolicyHash(snapshot.items[i].policy)>>]

Selecting(source, selection) ==
  [refusal |-> IF selection.status = "REFUSED" THEN selection.reason ELSE None,
   source |-> source, selection |-> selection]

SearchedFirst(source) ==
  IF source.status = "REFUSED" THEN [refusal |-> source.reason]
  ELSE Selecting(source, RunPolicySelection(source))

RunOf(request, config) ==
  SearchedFirst(RunPolicySearch(request, config, SnapshotUnder(config)))

Kept(run) == {SearchArtifact(run.source), ResultArtifact("PSEL", run.selection)}

-----------------------------------------------------------------------------
(* What the trees learn from: the features of an item on its planning input *)
(* and what each profile would have come to.                                *)

Featured(r) ==
  {i \in DOMAIN Given.snapshot.items :
     Given.snapshot.items[i].status = "CLASSIFIED" /\ r.history[i].mean > 0}

\* In the order of their names.
FeaturesOf(r, i) ==
  LET h       == r.history[i]
      plan    == r.plans[i]
      is(k, v) == IF Given.snapshot.items[i].segment[k] = v THEN 1 ELSE 0
  IN <<is(1, "A"), is(1, "B"), is(1, "C"), (10000 * h.dev * h.dev) \div (h.mean * h.mean),
       (10000 * plan.stock.available) \div h.mean, plan.policy[1].lead, h.mean,
       plan.policy[1].moq, is(2, "X"), is(2, "Y"), is(2, "Z")>>

\* Whose policies are those of a candidate, whatever range it was taken from.
SamePolicy(c, d) == PolicyKey(c) = PolicyKey(d)
BankOf(source, i) == {c \in ToSet(source.children) : c.candidate.item = i}
InBank(bank, c) ==
  LET same == {d \in bank : SamePolicy(d.candidate, c)}
  IN IF same = {} THEN Nothing ELSE CHOOSE d \in same : TRUE

\* The cheapest usable child, ties broken by inventory, orders and identifier.
Winner(children, id) ==
  LET usable == {c \in children : Usable(c)}
      key(c) == NumericRank(c) \o id[c]
  IN IF usable = {} THEN Nothing
     ELSE CHOOSE c \in usable : ~\E d \in usable : Before(key(d), key(c))

OwnIds(children) == [c \in children |-> CandidateKey(c.candidate)]
Cheapest(children) == Winner(children, OwnIds(children))

\* The candidates an item has when it is routed to a profile.
RoutedTo(search, i, p) ==
  PolicyCandidates([search EXCEPT !.overrides = i :> Profiles[p]], i,
                   Given.snapshot.items[i].segment)

\* The choice is made on the forecast, with the identifiers the policies would have.
ChosenFor(routed, bank) ==
  LET open == {c \in bank : \E d \in routed : SamePolicy(c.candidate, d)}
  IN Winner(open, [c \in open |->
                     CandidateKey(CHOOSE d \in routed : SamePolicy(c.candidate, d))])

\* Defect: a policy that ran is credited, whether or not it served.
OutcomeUnserved(winner, bank) ==
  LET actual   == IF winner = Nothing THEN Nothing ELSE InBank(bank, winner.candidate)
      feasible == actual # Nothing /\ actual.status = "SUCCEEDED"
  IN [feasible |-> feasible, cost |-> IF feasible THEN actual.metrics.cost ELSE Nothing]

OutcomeIn(winner, bank) ==
  LET actual   == IF winner = Nothing THEN Nothing ELSE InBank(bank, winner.candidate)
      feasible == actual # Nothing /\ actual.status = "SUCCEEDED" /\ actual.eligible
  IN [feasible |-> feasible, cost |-> IF feasible THEN actual.metrics.cost ELSE Nothing]

LearnedRow(c, i, broad, replay) ==
  [case |-> c.name, item |-> i, features |-> FeaturesOf(c.plan, i),
   outcomes |-> [p \in DOMAIN Profiles |->
     OutcomeIn(ChosenFor(RoutedTo(broad.search, i, p), BankOf(broad, i)), BankOf(replay, i))]]

CanServe(row) == \E p \in DOMAIN row.outcomes : row.outcomes[p].feasible

LearnedRows(c, broad, replay) ==
  {row \in {LearnedRow(c, i, broad, replay) : i \in Featured(c.plan)} : CanServe(row)}

ExclusionsOf(c, rows) ==
  [i \in {j \in DOMAIN Given.snapshot.items : ~\E row \in rows : row.item = j} |->
     IF i \in Featured(c.plan) THEN "NO_FEASIBLE_PROFILE_ON_REALIZED_TRAINING_PATH"
     ELSE "CLASSIFICATION_OR_ZERO_HISTORY_NOT_SUPPORTED"]

-----------------------------------------------------------------------------
(* The trees (fit_profile_tree, routing_loss, predict_profile).             *)

\* Rows whose route fails count first, then the regret of the others.
RoutingLoss(rows, route) ==
  LET at(r)     == r.outcomes[route[r]]
      served    == {r \in rows : at(r).feasible}
      best(r)   == Min({r.outcomes[p].cost : p \in {q \in DOMAIN r.outcomes :
                                                      r.outcomes[q].feasible}})
      regret(r) == (10000 * (at(r).cost - best(r))) \div Most(1, best(r))
  IN <<Cardinality(rows \ served), SumOf(served, regret)>>

\* The one profile that loses least.
LeafOf(rows) ==
  LET loss(p) == RoutingLoss(rows, [r \in rows |-> p])
  IN CHOOSE p \in DOMAIN Profiles :
       \A q \in DOMAIN Profiles \ {p} : Before(Append(loss(p), p), Append(loss(q), q))
LeafLoss(rows) == LET p == LeafOf(rows) IN RoutingLoss(rows, [r \in rows |-> p])

\* A split is a feature and twice a threshold, between two values that are next to
\* each other.
GoesLeft(features, split) == 2 * features[split[1]] <= split[2]
LeftOf(rows, split)       == {r \in rows : GoesLeft(r.features, split)}
MinLeaf == 2

SplitsOf(rows) ==
  LET values(f) == {r.features[f] : r \in rows}
      above(f, v) == {u \in values(f) : u > v}
  IN UNION {{<<f, v + Min(above(f, v))>> : v \in {u \in values(f) : above(f, u) # {}}} :
              f \in DOMAIN (CHOOSE r \in rows : TRUE).features}

SplitLoss(rows, split) ==
  LET left  == LeafLoss(LeftOf(rows, split))
      right == LeafLoss(rows \ LeftOf(rows, split))
  IN <<left[1] + right[1], left[2] + right[2]>>

\* The splits that leave enough rows on both sides and lose less than a leaf.
GoodSplits(rows) ==
  {s \in SplitsOf(rows) :
     /\ Cardinality(LeftOf(rows, s)) >= MinLeaf
     /\ Cardinality(rows) - Cardinality(LeftOf(rows, s)) >= MinLeaf
     /\ Before(SplitLoss(rows, s), LeafLoss(rows))}

RECURSIVE Grow(_, _)
Grow(rows, depth) ==
  LET good == IF depth = 0 \/ Cardinality(rows) < 2 * MinLeaf THEN {} ELSE GoodSplits(rows)
      best == CHOOSE s \in good :
                \A t \in good \ {s} : Before(SplitLoss(rows, s) \o s, SplitLoss(rows, t) \o t)
  IN IF good = {} THEN [leaf |-> TRUE, profile |-> LeafOf(rows)]
     ELSE [leaf |-> FALSE, split |-> best, left |-> Grow(LeftOf(rows, best), depth - 1),
           right |-> Grow(rows \ LeftOf(rows, best), depth - 1)]

RECURSIVE Predicted(_, _)
Predicted(tree, features) ==
  IF tree.leaf THEN tree.profile
  ELSE Predicted(IF GoesLeft(features, tree.split) THEN tree.left ELSE tree.right, features)

Depths == 0..2

FitRefusal(rows) ==
  First(<< <<rows["VALIDATION"] = {}, "SEGMENTATION_NO_VALIDATION_ROWS">>,
           <<Cardinality(rows["TRAIN"]) \notin 2..1024, "SEGMENTATION_TRAINING_SIZE">> >>)

\* The tree that loses least on the validation cases, the shallower of two.
BestTree(trees, validation) ==
  LET route(d) == [r \in validation |-> Predicted(trees[d], r.features)]
      loss(d)  == Append(RoutingLoss(validation, route(d)), d)
  IN trees[CHOOSE d \in Depths : \A e \in Depths \ {d} : Before(loss(d), loss(e))]

-----------------------------------------------------------------------------
(* The arms of a holdout case.                                              *)

RoutesOf(r, tree) == [i \in Featured(r) |-> Predicted(tree, FeaturesOf(r, i))]
FixedSearch       == WithGroups([s \in Segments |-> Profiles[Trial.fixed[s]]])

ArmSearch(r, arm, tree) ==
  CASE arm = "WIDE_REFERENCE" -> BroadSearch
    [] arm = "ABC_XYZ" -> FixedSearch
    [] arm = "ML_PROFILE" ->
         [FixedSearch EXCEPT !.overrides =
            [i \in DOMAIN RoutesOf(r, tree) |-> Profiles[RoutesOf(r, tree)[i]]]]

\* What an arm retains of the good policies, and how what it locked did.
ArmRecordOf(name, arm, i, chosen, actual, base, available, good, oracle) ==
  LET metrics  == IF actual = Nothing THEN base ELSE actual.metrics
      feasible == chosen # Nothing /\ metrics.feasible
  IN [case |-> name, arm |-> arm, item |-> i, locked |-> chosen, metrics |-> metrics,
      feasible |-> feasible, candidates |-> Cardinality(available),
      retained |-> IF good = {} THEN Nothing ELSE good \cap available # {},
      recalled |-> Cardinality(good \cap available),
      missed |-> oracle # Nothing /\ ~feasible,
      regret |-> IF feasible /\ oracle # Nothing
                 THEN metrics.cost - oracle.metrics.cost ELSE Nothing]

\* The policies that cost what the winner of a bank costs.
CheapestIn(bank) ==
  LET best == Cheapest(bank)
  IN IF best = Nothing THEN {}
     ELSE {PolicyKey(c.candidate) :
             c \in {d \in bank : Usable(d) /\ d.metrics.cost = best.metrics.cost}}

ArmRecord(name, arm, i, run, replay, reference) ==
  LET chosen == run.selection.items[i].candidate
  IN ArmRecordOf(name, arm, i, chosen,
       IF chosen = Nothing THEN Nothing ELSE InBank(BankOf(replay, i), chosen),
       BaselineMetrics(replay, i),
       {PolicyKey(c.candidate) : c \in BankOf(run.source, i)},
       CheapestIn(BankOf(reference, i)), Cheapest(BankOf(replay, i)))

ArmRecords(name, plans, replay) ==
  {ArmRecord(name, arm, i, plans[arm], replay, plans["WIDE_REFERENCE"].source) :
     arm \in ArmSet, i \in DOMAIN replay.baselines}

ReplayFailed(plans, replay) ==
  \E arm \in ArmSet : \E i \in DOMAIN replay.baselines :
    LET chosen == plans[arm].selection.items[i].candidate
        actual == InBank(BankOf(replay, i), chosen)
    IN chosen # Nothing /\ actual # Nothing /\ actual.status # "SUCCEEDED"

ArmSummary(records, arm) ==
  LET rows == {r \in records : r.arm = arm}
  IN [periods |-> Cardinality(rows),
      selected |-> Cardinality({r \in rows : r.locked # Nothing}),
      feasible |-> Cardinality({r \in rows : r.feasible}),
      demand |-> SumOf(rows, LAMBDA r : r.metrics.demand),
      fulfilled |-> SumOf(rows, LAMBDA r : r.metrics.fulfilled),
      cost |-> SumOf(rows, LAMBDA r : r.metrics.cost),
      holding |-> SumOf(rows, LAMBDA r : r.metrics.holding),
      misses |-> Cardinality({r \in rows : r.retained = FALSE}),
      comparable |-> Cardinality({r \in rows : r.retained # Nothing}),
      missed |-> Cardinality({r \in rows : r.missed}),
      evaluated |-> SumOf(rows, LAMBDA r : r.candidates)]

\* Costs are compared only where both arms serve.
ArmPairs(records) ==
  LET abc     == {r \in records : r.arm = "ABC_XYZ"}
      peer(r) == CHOOSE q \in records :
                   q.arm = "ML_PROFILE" /\ q.case = r.case /\ q.item = r.item
      both    == {r \in abc : r.feasible /\ peer(r).feasible}
  IN [pairs |-> Cardinality(both), excluded |-> Cardinality(abc) - Cardinality(both),
      abc |-> SumOf(both, LAMBDA r : r.metrics.cost),
      ml |-> SumOf(both, LAMBDA r : peer(r).metrics.cost),
      abcHolding |-> SumOf(both, LAMBDA r : r.metrics.holding),
      mlHolding |-> SumOf(both, LAMBDA r : peer(r).metrics.holding)]

Report(records) ==
  [arms |-> [arm \in ArmSet |-> ArmSummary(records, arm)], paired |-> ArmPairs(records)]

-----------------------------------------------------------------------------
(* The steps.                                                               *)

At(stage) == experiment # Nothing /\ experiment.stage = stage
Current   == TrialCases[experiment.case]
NoArms    == [arm \in ArmSet |-> Nothing]

SegmentationInit == StudyInit /\ experiment = Nothing

StartExperiment ==
  /\ Given.experiment # Nothing /\ experiment = Nothing
  /\ experiment' =
       IF TrialRefusal # None THEN Stopped(TrialRefusal)
       ELSE [stage |-> "LEARNING", reason |-> None, case |-> 1,
             rows |-> [split \in {"TRAIN", "VALIDATION"} |-> {}], excluded |-> <<>>,
             tree |-> Nothing, plans |-> NoArms, replay |-> Nothing, records |-> {},
             report |-> Nothing]
  /\ UNCHANGED studyVars

\* A step that may be refused, and what it keeps when it is not.
Unrefused(refusal, next, kept) ==
  /\ experiment' = IF refusal # None THEN Stopped(refusal) ELSE next
  /\ store' = IF refusal # None THEN store ELSE store \cup kept
  /\ UNCHANGED <<world, results, edited, outcome, study>>

WithRows(rows) ==
  [experiment EXCEPT !.case = @ + 1, !.rows[Current.split] = @ \cup rows,
                     !.excluded = Append(@, ExclusionsOf(Current, rows))]

LearnFrom(broad, replay) ==
  LET refusal == First(<<Check(BroadRefusal), Check(broad.refusal), Check(replay.refusal)>>)
  IN Unrefused(refusal, WithRows(LearnedRows(Current, broad.source, replay.source)),
               Kept(broad) \cup Kept(replay))

LearnCase ==
  /\ At("LEARNING") /\ Current.split # "HOLDOUT"
  /\ LearnFrom(RunOf(Current.plan, Rebuilt(BroadSearch)),
               RunOf(Current.replay, Rebuilt(BroadSearch)))

FitTrees ==
  /\ At("LEARNING") /\ Current.split = "HOLDOUT"
  /\ LET rows == experiment.rows
     IN Unrefused(FitRefusal(rows),
          [experiment EXCEPT !.stage = "ARMS",
             !.tree = BestTree([d \in Depths |-> Grow(rows["TRAIN"], d)], rows["VALIDATION"])],
          {})

\* The arms take turns to be the first.
FirstHoldout == Min({k \in DOMAIN TrialCases : TrialCases[k].split = "HOLDOUT"})
ArmTurn(n)   == Arms[((n + experiment.case - FirstHoldout - 1) % 3) + 1]
NextArm      == ArmTurn(Min({n \in 1..3 : experiment.plans[ArmTurn(n)] = Nothing}))

GateRefusalUnder(config) ==
  IF GatesOf(SnapshotUnder(config)) # GatesOf(SnapshotUnder(Rebuilt(BroadSearch)))
  THEN "SEGMENTATION_GATE_CHANGED" ELSE None

ArmPlanned(arm, config, run) ==
  Unrefused(First(<<Check(run.refusal), Check(GateRefusalUnder(config))>>),
            [experiment EXCEPT !.plans[arm] = run], Kept(run))

PlanArm ==
  /\ At("ARMS") /\ Nothing \in {experiment.plans[arm] : arm \in ArmSet}
  /\ LET config == Rebuilt(ArmSearch(Current.plan, NextArm, experiment.tree))
     IN ArmPlanned(NextArm, config, RunOf(Current.plan, config))

\* No realised demand is looked at before every arm has chosen on the same input.
InputRefusalOf(plans) ==
  IF Cardinality({<<plans[arm].source.request, plans[arm].source.baselines>> :
                    arm \in ArmSet}) # 1
  THEN "SEGMENTATION_ARM_INPUT_MISMATCH" ELSE None

HoldoutReplayed(replay) ==
  Unrefused(First(<<Check(InputRefusalOf(experiment.plans)), Check(replay.refusal)>>),
            [experiment EXCEPT !.stage = "REPLAYED", !.replay = replay], Kept(replay))

ReplayHoldout ==
  /\ At("ARMS") /\ Nothing \notin {experiment.plans[arm] : arm \in ArmSet}
  /\ HoldoutReplayed(RunOf(Current.replay, Rebuilt(BroadSearch)))

\* The next holdout case, or the report and its summary.
AfterCase(records) ==
  [experiment EXCEPT !.records = records, !.plans = NoArms, !.replay = Nothing,
     !.case   = IF @ < Len(TrialCases) THEN @ + 1 ELSE @,
     !.stage  = IF experiment.case < Len(TrialCases) THEN "ARMS" ELSE "REPORTED",
     !.report = IF experiment.case < Len(TrialCases) THEN Nothing ELSE Report(records)]

CompareArms ==
  /\ At("REPLAYED")
  /\ LET replay  == experiment.replay.source
         records == ArmRecords(Current.name, experiment.plans, replay)
     IN Unrefused(First(<<
          <<ReplayFailed(experiment.plans, replay), "SEGMENTATION_REPLAY_FAILED">>,
          <<Dominated(records), "SEGMENTATION_REFERENCE_DOMINANCE">> >>),
          AfterCase(experiment.records \cup records), {})

SegmentationNext ==
  \/ StudyNext /\ UNCHANGED experiment
  \/ StartExperiment \/ LearnCase \/ FitTrees \/ PlanArm \/ ReplayHoldout \/ CompareArms

SegmentationSpec == SegmentationInit /\ [][SegmentationNext]_segmentationVars

-----------------------------------------------------------------------------
(* Properties.                                                              *)

\* What the request alone makes of the candidates a search has for an item.
TrialProspects(r, search, i) ==
  LET item == Given.snapshot.items[i]
  IN [x \in {y \in PolicyCandidates(search, i, item.segment) : i \notin r.pinned} |->
       Prospect(Simulated(r.plans[i], x, r.history[i], AdmissionOf(item),
                          LevelFloor(Given.config, item)),
                Given.config.search, AdmissionOf(item))]

\* A profile is credited with what the policy comes to that an item routed to it locks.
OutcomeTrue(credit, locked, realized) ==
  LET served == {x \in locked : FateOf(x, realized) # Nothing}
  IN /\ credit.feasible <=> served # {}
     /\ \A x \in served : credit.cost = FateOf(x, realized).cost

RowTrue(row, c) ==
  \A p \in DOMAIN Profiles :
    OutcomeTrue(row.outcomes[p],
      BestAmong(TrialProspects(c.plan, [BroadSearch EXCEPT !.overrides = row.item :> Profiles[p]],
                               row.item)),
      TrialProspects(c.replay, BroadSearch, row.item))

\* own and planned are the ranges of the arm and of the wide reference on the planning
\* input, realized is the wide reference on the realised demand.
ArmRecordTrue(r, own, planned, realized) ==
  /\ BestAmong(own) = {r.locked} \ {Nothing}
  /\ r.retained = FALSE <=> /\ AblePolicies(planned) # {}
                            /\ Min(CostsIn(planned)) \notin CostsIn(own)
  /\ r.arm = "WIDE_REFERENCE" => r.retained # FALSE
  /\ r.missed <=> AblePolicies(realized) # {} /\ ~r.feasible
  /\ r.feasible <=> r.locked # Nothing /\ FateOf(r.locked, realized) # Nothing
  /\ r.feasible => /\ r.metrics = FateOf(r.locked, realized)
                   /\ r.regret = r.metrics.cost - Min(CostsIn(realized))

ArmRecordsTrue(records, c, tree) ==
  \A r \in records :
    ArmRecordTrue(r, TrialProspects(c.plan, ArmSearch(c.plan, r.arm, tree), r.item),
                  TrialProspects(c.plan, BroadSearch, r.item),
                  TrialProspects(c.replay, BroadSearch, r.item))

ArmsChosen == (At("ARMS") \/ At("REPLAYED"))
                /\ Nothing \notin {experiment.plans[arm] : arm \in ArmSet}

\* The experiment learns from what its arms would do and judges what they did.  A
\* profile is credited, from one wide search and one wide replay, with exactly what an
\* item routed to it would lock on the forecast and what that comes to; an arm is judged
\* by the optimum of its own range on the planning input; and once every arm has chosen,
\* no case is stopped: every locked policy can be replayed and none beats hindsight
\* (policy_segmentation.py:270-335, 337-420, 549-567).
ExperimentIsFair ==
  [][/\ ArmsChosen /\ experiment' # experiment => experiment'.stage # "REFUSED"
     /\ At("LEARNING") /\ Current.split # "HOLDOUT" /\ experiment' # experiment
          /\ experiment'.stage # "REFUSED" =>
          \A row \in experiment'.rows[Current.split] :
            row.case = Current.name => RowTrue(row, Current)
     /\ At("REPLAYED") /\ experiment' # experiment =>
          ArmRecordsTrue({r \in experiment'.records : r.case = Current.name}, Current,
                         experiment.tree)]_segmentationVars

\* The studies judge what was chosen without the answer, by what it really comes to: the
\* comparison of the catalogs, and the experiment with learned ranges.
StudiesAreFair == ComparisonIsFair /\ ExperimentIsFair
=============================================================================
