-------------------------- MODULE PolicySensitivity --------------------------
(***************************************************************************)
(* The comparison of sealed search results                                  *)
(* (recommend_replenishment/application/policy_sensitivity.py): the same    *)
(* candidates over other horizons, other cost profiles and other demand     *)
(* paths.  A validation case may be chosen from; a holdout case only says   *)
(* how the policy locked by the reference case does.                        *)
(*                                                                          *)
(* A request is [cases, costs, reference, cost, pairs]: cases by name, each *)
(* [source, trace, split, seed]; costs by name; pairs of case names.        *)
(***************************************************************************)
EXTENDS PolicySelection

Succeeded(source) == {c \in ToSet(source.children) : c.status = "SUCCEEDED"}
HorizonOf(source) == Len(source.baselines[CHOOSE i \in DOMAIN source.baselines : TRUE])
WithoutDates(control) == [control EXCEPT !.orderDates = {}]

-----------------------------------------------------------------------------
(* What the cases must have in common.                                      *)

\* A child whose policy, control or calculated levels move during the plan is not one
\* policy.
Frozen(child) ==
  \A w \in DOMAIN child.decisions :
    LET d == child.decisions[w]  first == child.decisions[1]
    IN /\ d.obs.policy = first.obs.policy /\ d.obs.control = first.obs.control
       /\ d.obs.allowed = first.obs.allowed /\ d.mean = first.mean
       /\ d.proposal.rop = first.proposal.rop /\ d.proposal.target = first.proposal.target

\* Configuration, scope, stock and what each candidate was computed from; neither the
\* run nor the end of the plan.
Initial(source) ==
  [config |-> source.config, search |-> source.search, scope |-> source.scope,
   start |-> source.start, excluded |-> source.excluded,
   stock |-> [i \in DOMAIN source.baselines |-> source.baselines[i][1].opened],
   candidates |-> {c.candidate : c \in ToSet(source.children)},
   evidence |-> {LET first == c.decisions[1]
                 IN [candidate |-> c.candidate, policy |-> first.obs.policy,
                     control |-> WithoutDates(first.obs.control), allowed |-> first.obs.allowed,
                     rop |-> first.proposal.rop, target |-> first.proposal.target,
                     admission |-> first.admission, mean |-> first.mean] :
                   c \in Succeeded(source)}]

\* The demand and the confirmed supply of every week.
Trace(source) ==
  [i \in DOMAIN source.baselines |->
     [w \in DOMAIN source.baselines[i] |->
        [demand |-> source.baselines[i][w].demand, receipt |-> source.baselines[i][w].receipt]]]

\* A shorter plan may cut an order calendar, never change it.
SameCalendar(cases) ==
  \A x, y \in DOMAIN cases :
    \A c \in Succeeded(cases[x].source), d \in Succeeded(cases[y].source) :
      c.candidate = d.candidate =>
        LET common == 1..Least(Len(c.rows), Len(d.rows))
        IN c.decisions[1].obs.control.orderDates \cap common
             = d.decisions[1].obs.control.orderDates \cap common

SamePrefix(cases) ==
  \A x, y \in DOMAIN cases :
    cases[x].trace = cases[y].trace =>
      \A i \in DOMAIN cases[x].source.baselines :
        LET a == Trace(cases[x].source)[i]  b == Trace(cases[y].source)[i]
        IN Len(a) <= Len(b) => a = SubSeq(b, 1, Len(a))

OfSplit(cases, split) == {x \in DOMAIN cases : cases[x].split = split}

HoldoutReused(cases) ==
  \E x \in OfSplit(cases, "HOLDOUT"), y \in OfSplit(cases, "VALIDATION") :
    cases[x].seed = cases[y].seed \/ Trace(cases[x].source) = Trace(cases[y].source)

PairValid(cases, pair) ==
  /\ {pair[1], pair[2]} \subseteq OfSplit(cases, "VALIDATION")
  /\ cases[pair[1]].trace = cases[pair[2]].trace
  /\ HorizonOf(cases[pair[1]].source) < HorizonOf(cases[pair[2]].source)

SensitivityRefusal(q) ==
  LET cases == q.cases
  IN IF q.reference \notin OfSplit(cases, "VALIDATION") \/ q.cost \notin DOMAIN q.costs
     THEN "POLICY_SENSITIVITY_REFERENCE_INVALID"
     ELSE First(<<
       Check(AnyRefusal([x \in DOMAIN cases |-> VerifySource(cases[x].source)])),
       <<\E x \in DOMAIN cases : \E c \in Succeeded(cases[x].source) : ~Frozen(c),
         "POLICY_SENSITIVITY_FROZEN_POLICY_REQUIRED">>,
       <<Cardinality({Initial(cases[x].source) : x \in DOMAIN cases}) > 1,
         "POLICY_SENSITIVITY_INITIAL_CONDITIONS_MISMATCH">>,
       <<\E x \in DOMAIN cases :
           Cardinality({Len(cases[x].source.baselines[i]) :
                          i \in DOMAIN cases[x].source.baselines}) > 1,
         "POLICY_SENSITIVITY_HORIZON_MISMATCH">>,
       <<~SameCalendar(cases), "POLICY_SENSITIVITY_ORDER_CALENDAR_MISMATCH">>,
       <<\E x, y \in DOMAIN cases : cases[x].trace = cases[y].trace
           /\ <<cases[x].seed, cases[x].split>> # <<cases[y].seed, cases[y].split>>,
         "POLICY_SENSITIVITY_TRACE_IDENTITY_MISMATCH">>,
       <<~SamePrefix(cases), "POLICY_SENSITIVITY_TRACE_PREFIX_MISMATCH">>,
       <<HoldoutReused(cases), "POLICY_SENSITIVITY_HOLDOUT_REUSED">>,
       <<\E pair \in q.pairs : ~PairValid(cases, pair),
         "POLICY_SENSITIVITY_TERMINAL_PAIR_INVALID">> >>)

-----------------------------------------------------------------------------
(* Metrics of a prefix of a plan under another cost profile.                *)

\* An order placed within the weeks counts, received or not.
Repriced(child, cost, minFill, weeks) ==
  LET orders == {o \in child.orders : o.placed <= weeks}
  IN [metrics |-> EvaluatedRows(SubSeq(child.rows, 1, weeks),
                                SubSeq(child.decisions, 1, weeks), orders, cost, minFill),
      open |-> MapThenSumSet(LAMBDA o : o.quantity, {o \in orders : o.arrival > weeks})]

-----------------------------------------------------------------------------
(* The matrix: every case, cost profile and item.                           *)

RepricedAssessment(child, cost, minFill) ==
  Assessed(child, IF child.status = "FAILED" THEN Nothing
                  ELSE Repriced(child, cost, minFill, Len(child.rows)).metrics, minFill)

RepricedAssessments(children, cost, minFill) ==
  [k \in DOMAIN children |-> RepricedAssessment(children[k], cost, minFill)]

\* The first of three lists of reasons that says anything.
ReasonsIn(first, second) ==
  IF first # {} THEN first ELSE IF second # {} THEN second ELSE {"NO_CANDIDATES_EVALUATED"}

\* Holdout cases are assessed and never ranked.
RowFrom(validation, assessments, ranked) ==
  [candidate |-> IF ranked = <<>> THEN Nothing ELSE ranked[1].candidate,
   reasons |-> ReasonsIn(IF validation THEN RankedReasons(ranked)
                         ELSE {"LOCKED_POLICY_ONLY_NO_HOLDOUT_RESELECTION"},
                         UNION {assessments[k].reasons : k \in DOMAIN assessments}),
   assessments |-> WithRanks(assessments, ranked)]

RowOfAssessments(validation, assessments) ==
  RowFrom(validation, assessments, IF validation THEN Ranked(assessments) ELSE <<>>)

MatrixRow(q, x, p, i) ==
  LET source == q.cases[x].source
  IN RowOfAssessments(q.cases[x].split = "VALIDATION",
       RepricedAssessments(ChildrenOfItem(source, i), q.costs[p], source.search.minFill))

Matrix(q) ==
  [x \in DOMAIN q.cases |->
     [p \in DOMAIN q.costs |->
        [i \in DOMAIN q.cases[x].source.baselines |-> MatrixRow(q, x, p, i)]]]

\* The reference case and the reference costs choose the policy the others are held to.
Locked(q, matrix) ==
  [i \in DOMAIN q.cases[q.reference].source.baselines |->
     matrix[q.reference][q.cost][i].candidate]

Changes(q, matrix) ==
  [x \in OfSplit(q.cases, "VALIDATION") |->
     [p \in DOMAIN q.costs |->
        [i \in DOMAIN matrix[x][p] |->
           [candidate |-> matrix[x][p][i].candidate,
            changed |-> Locked(q, matrix)[i] # matrix[x][p][i].candidate]]]]

HoldoutEvaluation(q, matrix, x, p, i) ==
  LET chosen  == Locked(q, matrix)[i]
      child   == CHOOSE c \in ToSet(q.cases[x].source.children) : c.candidate = chosen
      row     == matrix[x][p][i]
      reasons == (CHOOSE a \in ToSet(row.assessments) : a.candidate = chosen).reasons
  IN IF chosen = Nothing
     THEN [candidate |-> Nothing, status |-> "NOT_EVALUATED",
           reasons |-> {"REFERENCE_POLICY_NOT_SELECTED"}]
     ELSE [candidate |-> chosen,
           status |-> IF child.status = "FAILED" THEN "NOT_EVALUATED" ELSE "EVALUATED",
           reasons |-> IF reasons = {} THEN {"LOCKED_POLICY_MEETS_SERVICE_AND_COST_REQUIREMENTS"}
                       ELSE reasons]

HoldoutEvaluations(q, matrix) ==
  [x \in OfSplit(q.cases, "HOLDOUT") |->
     [p \in DOMAIN q.costs |->
        [i \in DOMAIN matrix[x][p] |-> HoldoutEvaluation(q, matrix, x, p, i)]]]

-----------------------------------------------------------------------------
(* One plan and its extension, over the weeks they share.                   *)

ActionOf(d) ==
  [action |-> d.proposal.action, quantity |-> d.proposal.quantity,
   accepted |-> d.validation.accepted, arrival |-> d.validation.arrival,
   reasons |-> d.validation.reasons]

Terminal(q, pair, c) ==
  LET short    == q.cases[pair[1]].source
      weeks    == HorizonOf(short)
      cost     == q.costs[q.cost]
      minFill  == short.search.minFill
      child    == CHOOSE d \in ToSet(short.children) : d.candidate = c
      extended == CHOOSE d \in ToSet(q.cases[pair[2]].source.children) : d.candidate = c
      changed  == {w \in 1..weeks :
                     ActionOf(child.decisions[w]) # ActionOf(extended.decisions[w])}
  IN IF "FAILED" \in {child.status, extended.status}
     THEN [status |-> "NOT_COMPARABLE"]
     ELSE [status |-> "COMPARED", weeks |-> weeks, changed |-> changed,
           short |-> Repriced(child, cost, minFill, weeks),
           common |-> Repriced(extended, cost, minFill, weeks),
           full |-> Repriced(extended, cost, minFill, Len(extended.rows))]

Terminals(q) ==
  [pair \in q.pairs |->
     [c \in {d.candidate : d \in ToSet(q.cases[pair[1]].source.children)} |->
        Terminal(q, pair, c)]]

SensitivityOf(q, matrix) ==
  [status |-> "EVALUATED", request |-> q, matrix |-> matrix,
   locked |-> Locked(q, matrix), changes |-> Changes(q, matrix),
   holdout |-> HoldoutEvaluations(q, matrix), terminal |-> Terminals(q)]

RunPolicySensitivity(q) == Unless(SensitivityRefusal(q), SensitivityOf(q, Matrix(q)))
=============================================================================
