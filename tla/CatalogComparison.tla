-------------------------- MODULE CatalogComparison --------------------------
(***************************************************************************)
(* The comparison of the three catalogs on held-out periods                 *)
(* (evaluate_replenishment/catalog_comparison.py), beside the development   *)
(* chain, whose directory of artifacts it shares.  Of each period every     *)
(* mode chooses on the planning input; only when all choices are locked is  *)
(* the realised demand replayed, for every candidate of the widest range.   *)
(*                                                                          *)
(* A study is [protocol, cases], as the world gives it; its progress is one *)
(* record.  Repeated timings of a pure computation are left out.            *)
(***************************************************************************)
EXTENDS PolicyChain

VARIABLE study   \* how far the comparison is, Nothing before it starts

studyVars == <<vars, study>>

Cases    == Given.study.cases
Protocol == Given.study.protocol
ModeSet  == ToSet(Modes)

-----------------------------------------------------------------------------
(* The protocol and the cases.                                              *)

LastWeek(p, start) == start + p.weeks - 1
Meets(p, a, b)     == a <= LastWeek(p, b) /\ b <= LastWeek(p, a)

ProtocolRefusal(p) ==
  First(<<
    <<p.minFill # 95 \/ p.lookback # 26, "CATALOG_COMPARISON_PROTOCOL_INVALID">>,
    <<p.allowed # {}, "CATALOG_COMPARISON_BOUNDARY">>,
    <<p.weeks \notin 1..13 \/ Cardinality(p.items) \notin 1..8
        \/ Cardinality(DOMAIN p.periods) \notin 1..2, "CATALOG_COMPARISON_WORKLOAD">>,
    <<p.cost = Nothing, "CATALOG_COMPARISON_COST_REQUIRED">>,
    <<\E n \in DOMAIN p.periods, u \in p.used :
        p.periods[n] <= u[2] /\ u[1] <= LastWeek(p, p.periods[n]),
      "CATALOG_COMPARISON_REUSED_HOLDOUT">>,
    <<\E n, m \in DOMAIN p.periods : n # m /\ Meets(p, p.periods[n], p.periods[m]),
      "CATALOG_COMPARISON_OVERLAPPING_PERIODS">> >>)

\* A replay is the plan with another forecast and nothing else.
WithoutForecast(plan) ==
  [plan EXCEPT !.demand = [w \in DOMAIN @ |-> [@[w] EXCEPT !.forecast = 0]]]

SameButForecast(plan, replay) ==
  /\ DOMAIN plan.plans = DOMAIN replay.plans
  /\ \A i \in DOMAIN plan.plans : WithoutForecast(plan.plans[i]) = WithoutForecast(replay.plans[i])

\* Planning and replay are offline, synthetic and one but for the forecast, and the
\* costs are known.
OfflineRefusal(c) ==
  First(<<
    <<c.split \notin {"TRAIN", "VALIDATION", "HOLDOUT"}, "SEGMENTATION_SPLIT">>,
    <<{c.plan.mode, c.replay.mode} # {"LOCAL_SHADOW"}, "SEGMENTATION_OFFLINE_ONLY">>,
    <<~c.synthetic, "SEGMENTATION_SYNTHETIC_ONLY">>,
    <<<<c.plan.scope, c.plan.revision, c.plan.start, c.plan.weeks>>
        # <<c.replay.scope, c.replay.revision, c.replay.start, c.replay.weeks>>,
      "SEGMENTATION_REPLAY_CONTEXT">>,
    <<<<c.plan.contract, c.plan.binding, c.plan.bound>>
        # <<c.replay.contract, c.replay.binding, c.replay.bound>>,
      "SEGMENTATION_REPLAY_EXECUTION_GUARD">>,
    <<~SameButForecast(c.plan, c.replay), "SEGMENTATION_REPLAY_IMMUTABLE_INPUT">>,
    <<<<c.plan.history, c.plan.pinned, c.plan.lookback>>
        # <<c.replay.history, c.replay.pinned, c.replay.lookback>>,
      "SEGMENTATION_REPLAY_HISTORY_OR_POLICY">>,
    <<Given.config.search.cost = Nothing, "SEGMENTATION_COST_REQUIRED">>,
    <<DOMAIN Given.config.search.overrides # {}, "SEGMENTATION_EXISTING_OVERRIDE">> >>)

CaseRefusal(c, p) ==
  First(<<
    Check(OfflineRefusal(c)),
    <<c.split # "HOLDOUT" \/ c.name \notin DOMAIN p.periods, "CATALOG_COMPARISON_CASES">>,
    <<c.plan.start # p.periods[c.name] \/ c.plan.weeks # p.weeks
        \/ DOMAIN c.plan.plans # p.items, "CATALOG_COMPARISON_INPUT_SCOPE">>,
    <<Given.config.search.cost # p.cost \/ Given.config.search.minFill # p.minFill,
      "CATALOG_COMPARISON_COST_OR_SERVICE_DRIFT">>,
    <<c.feature.exceptions # {}, "CATALOG_COMPARISON_OVERRIDE_UNSUPPORTED">> >>)

StudyRefusal(cases, p) ==
  First(<<
    Check(ProtocolRefusal(p)),
    <<Len(cases) # Cardinality(DOMAIN p.periods)
        \/ \E a, b \in DOMAIN cases : a # b /\ cases[a].name = cases[b].name,
      "CATALOG_COMPARISON_CASES">>,
    Check(FirstRefusal([k \in DOMAIN cases |-> CaseRefusal(cases[k], p)])) >>)

-----------------------------------------------------------------------------
(* What one mode found of a case.                                           *)

\* What a policy does, whatever range it was taken from.
PolicyKey(c) == <<c.item, c.kind, c.rmos, c.emos, c.level, c.review>>

Keys(children, i) == {PolicyKey(children[k].candidate) :
                        k \in {j \in DOMAIN children : children[j].candidate.item = i}}

\* Defect: a policy that does not serve the demand is as good as one that does.
UsableUnserved(child) == child.status = "SUCCEEDED" /\ child.metrics.cost # Nothing

Usable(child)      == child.status = "SUCCEEDED" /\ child.eligible /\ child.metrics.cost # Nothing
NumericRank(child) == <<child.metrics.cost, child.metrics.holding, child.metrics.count>>

\* The policies no usable one is better than, ties included.
GoodChildren(children, i) ==
  LET usable == {c \in ToSet(children) : c.candidate.item = i /\ Usable(c)}
  IN {c \in usable : ~\E d \in usable : Before(NumericRank(d), NumericRank(c))}

GoodPolicies(children, i) == {PolicyKey(c.candidate) : c \in GoodChildren(children, i)}
BestCost(children, i)     == (CHOOSE c \in GoodChildren(children, i) : TRUE).metrics.cost

SameInputs(source, wide) ==
  [source EXCEPT !.catalog = Nothing, !.children = <<>>, !.excluded = Nothing]
    = [wide EXCEPT !.catalog = Nothing, !.children = <<>>, !.excluded = Nothing]

\* The same policy of two ranges has the same projection.
SharedPolicy(child, children) ==
  \E k \in DOMAIN children :
    /\ PolicyKey(children[k].candidate) = PolicyKey(child.candidate)
    /\ children[k].status = child.status /\ children[k].metrics = child.metrics
    /\ children[k].rows = child.rows

DriftFrom(source, wide) ==
  First(<<
    <<~SameInputs(source, wide), "CATALOG_COMPARISON_INPUT_DRIFT">>,
    <<\E k \in DOMAIN source.children : ~SharedPolicy(source.children[k], wide.children),
      "CATALOG_COMPARISON_SHARED_POLICY_DRIFT">> >>)

DriftRefusal(plans) ==
  FirstRefusal([k \in DOMAIN Modes |-> DriftFrom(plans[Modes[k]].source, plans[Wide].source)])

-----------------------------------------------------------------------------
(* The records of a case: what was locked, and how it did.                  *)

ReplayOf(chosen, realized) ==
  CHOOSE c \in ToSet(realized.children) : PolicyKey(c.candidate) = PolicyKey(chosen)

Regret(cost, best) == IF best = Nothing THEN Nothing ELSE cost - best

\* The record of an item: a locked policy is judged by its own replay, an item without
\* one by doing nothing.
RecordOf(name, mode, i, chosen, actual, base, available, good, hindsight, planned) ==
  LET metrics  == IF actual = Nothing THEN base ELSE actual.metrics
      feasible == actual # Nothing /\ actual.eligible
  IN [case |-> name, mode |-> mode, item |-> i, locked |-> chosen, metrics |-> metrics,
      feasible |-> feasible, candidates |-> Cardinality(available),
      good |-> Cardinality(good.policies),
      retained |-> IF good.policies = {} THEN Nothing ELSE good.policies \cap available # {},
      recalled |-> Cardinality(good.policies \cap available),
      planningRegret |-> IF chosen = Nothing THEN Nothing ELSE Regret(planned.cost, good.cost),
      realizedRetained |-> IF hindsight.policies = {} THEN Nothing
                           ELSE hindsight.policies \cap available # {},
      missed |-> hindsight.policies # {} /\ ~feasible,
      regret |-> IF feasible THEN Regret(metrics.cost, hindsight.cost) ELSE Nothing]

GoodOf(children, i) ==
  LET good == GoodPolicies(children, i)
  IN [policies |-> good, cost |-> IF good = {} THEN Nothing ELSE BestCost(children, i)]

RecordFor(name, mode, i, plan, wide, realized) ==
  LET chosen == plan.selection.items[i].candidate
  IN RecordOf(name, mode, i, chosen,
       IF chosen = Nothing THEN Nothing ELSE ReplayOf(chosen, realized),
       BaselineMetrics(realized, i), Keys(plan.source.children, i), GoodOf(wide.children, i),
       GoodOf(realized.children, i), plan.selection.items[i].score)

Records(name, plans, realized) ==
  {RecordFor(name, m, i, plans[m], plans[Wide].source, realized) :
     m \in ModeSet, i \in DOMAIN realized.baselines}

Duplicated(children) ==
  \E j, k \in DOMAIN children :
    j < k /\ PolicyKey(children[j].candidate) = PolicyKey(children[k].candidate)

Unreplayable(plans, realized) ==
  \E m \in ModeSet : \E i \in DOMAIN plans[m].selection.items :
    LET chosen == plans[m].selection.items[i].candidate
    IN chosen # Nothing /\ ~\E c \in ToSet(realized.children) :
         PolicyKey(c.candidate) = PolicyKey(chosen) /\ c.status = "SUCCEEDED"

Dominated(records) == \E r \in records : r.regret # Nothing /\ r.regret < 0

RecordsRefusal(plans, realized) ==
  IF Duplicated(realized.children) THEN "CATALOG_COMPARISON_SEMANTIC_DUPLICATE"
  ELSE IF Unreplayable(plans, realized) THEN "CATALOG_COMPARISON_LOCKED_POLICY_NOT_REPLAYABLE"
  ELSE None

-----------------------------------------------------------------------------
(* The summary: modes, and two of them on the items both serve.             *)

SumOf(records, f(_)) == MapThenSumSet(f, records)

ModeSummary(records, mode) ==
  LET rows == {r \in records : r.mode = mode}
  IN [count |-> Cardinality(rows), selected |-> Cardinality({r \in rows : r.locked # Nothing}),
      feasible |-> Cardinality({r \in rows : r.feasible}),
      demand |-> SumOf(rows, LAMBDA r : r.metrics.demand),
      fulfilled |-> SumOf(rows, LAMBDA r : r.metrics.fulfilled),
      cost |-> SumOf(rows, LAMBDA r : r.metrics.cost),
      backlog |-> SumOf(rows, LAMBDA r : r.metrics.endBacklog),
      comparable |-> Cardinality({r \in rows : r.retained # Nothing}),
      lost |-> Cardinality({r \in rows : r.retained = FALSE}),
      missed |-> Cardinality({r \in rows : r.missed})]

\* Only the items both modes serve may be compared by cost.
PairSummary(records, challenger) ==
  LET left  == {r \in records : r.mode = Modes[1]}
      peer(r) == CHOOSE q \in records :
                   q.mode = challenger /\ q.case = r.case /\ q.item = r.item
      both  == {r \in left : r.feasible /\ peer(r).feasible}
  IN [pairs |-> Cardinality(both), excluded |-> Cardinality(left \ both),
      cost |-> SumOf(both, LAMBDA r : r.metrics.cost),
      challenger |-> SumOf(both, LAMBDA r : peer(r).metrics.cost)]

Summary(records) ==
  [modes |-> [m \in ModeSet |-> ModeSummary(records, m)],
   pairs |-> [m \in ModeSet \ {Modes[1]} |-> PairSummary(records, m)]]

-----------------------------------------------------------------------------
(* The steps.                                                               *)

NoPlans == [m \in ModeSet |-> Nothing]

Stopped(reason) == [stage |-> "REFUSED", reason |-> reason]

\* The features of a case are produced before any mode plans it.
CaseStarted(k, records) ==
  LET refusal == FeatureRefusal(Cases[k].feature)
  IN IF refusal # None THEN Stopped(refusal)
     ELSE [stage |-> "PLANNING", reason |-> None, case |-> k, plans |-> NoPlans,
           realized |-> Nothing, records |-> records, summary |-> Nothing]

StudyInit == Init /\ study = Nothing

StartStudy ==
  /\ Given.study # Nothing /\ study = Nothing
  /\ study' = LET refusal == StudyRefusal(Cases, Protocol)
              IN IF refusal # None THEN Stopped(refusal) ELSE CaseStarted(1, {})
  /\ UNCHANGED vars

In(stage) == study # Nothing /\ study.stage = stage

\* Modes take turns to be the first.
TurnOf(k, n) == Modes[((n + k - 2) % 3) + 1]
NextMode     == TurnOf(study.case,
                       Min({n \in 1..3 : study.plans[TurnOf(study.case, n)] = Nothing}))

PlanFrom(source, selection) ==
  IF selection.status = "REFUSED" THEN Stopped(selection.reason)
  ELSE [study EXCEPT !.plans[NextMode] = [source |-> source, selection |-> selection]]

\* The selection makes the search again from the same inputs, which gives the same.
Planned(source) ==
  IF source.status = "REFUSED" THEN Stopped(source.reason)
  ELSE PlanFrom(source, SelectionAgainst(source, source))

PlanMode ==
  /\ In("PLANNING") /\ Nothing \in {study.plans[m] : m \in ModeSet}
  /\ LET c == Cases[study.case]
     IN study' = Planned(RunCatalogSearch(c.plan, Given.config, Given.snapshot, NextMode,
                                          c.feature))
  /\ UNCHANGED vars

\* The choice barrier: no realised demand is looked at before every mode has chosen.
LockChoices ==
  /\ In("PLANNING") /\ Nothing \notin {study.plans[m] : m \in ModeSet}
  /\ study' = LET refusal == DriftRefusal(study.plans)
              IN IF refusal # None THEN Stopped(refusal) ELSE [study EXCEPT !.stage = "LOCKED"]
  /\ UNCHANGED vars

Realized(source) ==
  IF source.status = "REFUSED" THEN Stopped(source.reason)
  ELSE IF ReplayRefusal(source) # None THEN Stopped(ReplayRefusal(source))
  ELSE [study EXCEPT !.stage = "REPLAYED", !.realized = source]

ReplayRealized ==
  /\ In("LOCKED")
  /\ LET c == Cases[study.case]
     IN study' = Realized(RunCatalogSearch(c.replay, Given.config, Given.snapshot, Wide,
                                           c.feature))
  /\ UNCHANGED vars

Recorded(records) ==
  IF Dominated(records) THEN Stopped("CATALOG_COMPARISON_REFERENCE_DOMINANCE")
  ELSE [study EXCEPT !.stage = "RECORDED", !.records = @ \cup records]

RecordCase ==
  /\ In("REPLAYED")
  /\ study' = LET refusal == RecordsRefusal(study.plans, study.realized)
              IN IF refusal # None THEN Stopped(refusal)
                 ELSE Recorded(Records(Cases[study.case].name, study.plans, study.realized))
  /\ UNCHANGED vars

\* What a case leaves behind, in this order; a source is kept before what rests on it.
Artifacts ==
  [n \in 1..7 |->
     IF n = 7 THEN [kind |-> "OCPSI", value |-> study.realized]
     ELSE LET plan == study.plans[Modes[(n + 1) \div 2]]
          IN IF n % 2 = 1 THEN [kind |-> "OCPSI", value |-> plan.source]
             ELSE [kind |-> "OCPSEL", value |-> plan.selection]]

ToKeep == {n \in 1..7 : Artifacts[n] \notin store}

KeepArtifact ==
  /\ In("RECORDED") /\ ToKeep # {}
  /\ store' = store \cup {Artifacts[Min(ToKeep)]}
  /\ UNCHANGED <<world, results, edited, outcome, study>>

NextCase ==
  /\ In("RECORDED") /\ ToKeep = {}
  /\ study' = IF study.case < Len(Cases) THEN CaseStarted(study.case + 1, study.records)
              ELSE [study EXCEPT !.stage = "COMPARED", !.summary = Summary(study.records)]
  /\ UNCHANGED vars

StudyNext ==
  \/ Next /\ UNCHANGED study
  \/ StartStudy \/ PlanMode \/ LockChoices \/ ReplayRealized \/ RecordCase
  \/ KeepArtifact \/ NextCase

StudySpec == StudyInit /\ [][StudyNext]_studyVars

-----------------------------------------------------------------------------
(* Properties.                                                              *)

\* The candidates of a case with what its inputs make of each, as the request alone has
\* it: the metrics of those that may be chosen.
ProspectsIn(r, f, mode, i) ==
  [x \in {y \in ProduceCatalog(mode, f).candidates[i] : i \notin r.pinned} |->
     Prospect(Simulated(r.plans[i], x, r.history[i], AdmissionOf(Given.snapshot.items[i]),
                        LevelFloor(Given.config, Given.snapshot.items[i])),
              Given.config.search, AdmissionOf(Given.snapshot.items[i]))]

AblePolicies(prospects) == {x \in DOMAIN prospects : prospects[x] # Nothing}
CostsIn(prospects)      == {prospects[x].cost : x \in AblePolicies(prospects)}

\* The metrics of a policy in a range that has it; nothing when it may not be chosen.
FateOf(policy, prospects) ==
  prospects[CHOOSE x \in DOMAIN prospects : PolicyKey(x) = PolicyKey(policy)]

Beaten(metrics, prospects) ==
  LET rank(x) == <<x.cost, x.holding, x.count>>
  IN \E x \in AblePolicies(prospects) : Before(rank(prospects[x]), rank(metrics))

\* What a record may say of an item whose mode locked a policy, and of one without: own
\* and planned are the ranges of its mode and of the widest mode on the planning input,
\* realized is the widest on the realised demand.
RecordTrue(r, own, planned, realized) ==
  /\ BestAmong(own) = {r.locked} \ {Nothing}
  /\ r.retained = FALSE <=> /\ AblePolicies(planned) # {}
                            /\ r.locked = Nothing \/ Beaten(own[r.locked], planned)
  /\ r.missed <=> AblePolicies(realized) # {} /\ ~r.feasible
  /\ r.feasible <=> r.locked # Nothing /\ FateOf(r.locked, realized) # Nothing
  /\ r.feasible => /\ r.metrics = FateOf(r.locked, realized)
                   /\ r.regret = r.metrics.cost - Min(CostsIn(realized))
  /\ r.locked # Nothing => r.planningRegret = own[r.locked].cost - Min(CostsIn(planned))

ItemRecordsTrue(records, c, i, planned, realized) ==
  \A r \in {q \in records : q.item = i} :
    RecordTrue(r, ProspectsIn(c.plan, c.feature, r.mode, i), planned, realized)

RecordsTrue(records, c) ==
  \A i \in DOMAIN c.plan.plans :
    ItemRecordsTrue(records, c, i, ProspectsIn(c.plan, c.feature, Wide, i),
                    ProspectsIn(c.replay, c.feature, Wide, i))

ChoicesMade == /\ study # Nothing /\ study.stage \in {"PLANNING", "LOCKED", "REPLAYED"}
               /\ Nothing \notin {study.plans[m] : m \in ModeSet}

\* A comparison judges what was chosen without the answer.  The policy a mode is judged
\* by is the optimum of its range on the planning input alone; the mode lost a good
\* policy exactly when something in the widest range beats what it locked; a policy that
\* serves the realised demand is charged what it really costs and measured against the
\* cheapest that serves it; and once every mode has chosen, no case is stopped: ranges
\* never disagree about a policy they share, every locked policy can be replayed, and
\* none beats hindsight (catalog_comparison.py:73-127, 131-234, 478-515).
ComparisonIsFair ==
  [][/\ ChoicesMade /\ study' # study => study'.stage # "REFUSED"
     /\ In("REPLAYED") /\ study' # study /\ study'.stage = "RECORDED" =>
          RecordsTrue(study'.records \ study.records, Cases[study.case])]_studyVars
=============================================================================
