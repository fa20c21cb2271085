--------------------------- MODULE PolicySelection ---------------------------
(***************************************************************************)
(* The choice of one evaluated candidate per item                           *)
(* (recommend_replenishment/application/policy_selection.py): every         *)
(* candidate of a search result is replayed with the common guard and stock *)
(* step before its metrics are believed, then the eligible ones are ranked. *)
(*                                                                          *)
(* An order is identified by the week of the decision that placed it.       *)
(***************************************************************************)
EXTENDS PolicySearch

-----------------------------------------------------------------------------
(* The replay of one candidate.                                             *)

GateRefusal(a, source) ==
  First(<< <<a.purpose # "SHADOW" \/ a.strategy # "MATHEMATICAL",
             "POLICY_SELECTION_ADMISSION_MISMATCH">>,
           <<a.version # "2.0.0", "POLICY_SELECTION_GATE_VERSION_INVALID">>,
           <<a.config # source.config, "POLICY_SELECTION_CONFIG_BINDING_MISMATCH">>,
           <<a.publish \/ a.order, "POLICY_SELECTION_PUBLICATION_FORBIDDEN">>,
           <<a.action \notin OrderActions \/ (a.action = "BLOCK") # a.noOrder,
             "POLICY_SELECTION_GATE_INVALID">> >>)

ReviewRequired(a) == a.action = "REVIEW" \/ a.approval \in {"STANDARD", "HIGH_VALUE"}

\* The stock each week opens with when only the recorded orders are received.
ReplayedStock(child, base) ==
  LET stock[w \in 1..Len(base)] ==
        IF w = 1 THEN base[1].opened
        ELSE LET before == base[w - 1]
             IN StockFrom(Advance(stock[w - 1], before.demand, before.receipt,
                                  Ordered(child.orders, w - 1)), stock[w - 1])
  IN stock

WeekRefusal(child, base, w, stock) ==
  LET row == child.rows[w]
      d   == child.decisions[w]
      first == child.decisions[1]
      placed == {o \in child.orders : o.placed = w}
  IN First(<<
    <<row.week # w \/ row.demand # base[w].demand \/ row.receipt # base[w].receipt,
      "POLICY_SELECTION_INPUT_ROWS_MISMATCH">>,
    <<d.admission # first.admission, "POLICY_SELECTION_GATE_CHANGED">>,
    <<d.candidate # child.candidate \/ d.mean # first.mean,
      "POLICY_SELECTION_POLICY_EVIDENCE_MISMATCH">>,
    <<d.obs.week # w, "POLICY_SELECTION_OBSERVATION_MISMATCH">>,
    <<d.obs.stock # stock, "POLICY_SELECTION_ROLL_FORWARD_MISMATCH">>,
    <<d.validation # Validated(d.obs, d.proposal), "POLICY_SELECTION_GUARD_REPLAY_MISMATCH">>,
    <<OrderGate(first.admission) /\ d.proposal.action # "HOLD", "POLICY_SELECTION_GATE_BYPASS">>,
    <<d.validation.accepted > 0
        /\ placed # {[placed |-> w, arrival |-> d.validation.arrival,
                      quantity |-> d.validation.accepted]},
      "POLICY_SELECTION_ORDER_MISMATCH">>,
    <<row.opened # stock
        \/ row.psi # Advance(stock, row.demand, row.receipt, Ordered(child.orders, w)),
      "POLICY_SELECTION_PSI_REPLAY_MISMATCH">> >>)

AcceptedWeeks(child) == {w \in DOMAIN child.decisions : child.decisions[w].validation.accepted > 0}

\* Defect: what the search recorded of a candidate is believed.
CandidateRefusalUnread(child, base, source) == GateRefusal(child.decisions[1].admission, source)

\* The first reason of several places, in their order.
FirstRefusal(f) ==
  LET bad == {k \in DOMAIN f : f[k] # None} IN IF bad = {} THEN None ELSE f[Min(bad)]
AnyRefusal(f) ==
  LET bad == {k \in DOMAIN f : f[k] # None}
  IN IF bad = {} THEN None ELSE f[CHOOSE k \in bad : TRUE]

WeeksRefusal(child, base, stock) ==
  FirstRefusal([w \in DOMAIN base |-> WeekRefusal(child, base, w, stock[w])])

MetricsReplay(child, metrics, gate) ==
  child.metrics = metrics /\ child.eligible = (metrics.feasible /\ ~gate)

\* The first reason to refuse a candidate that succeeded, week by week.
CandidateRefusal(child, base, source) ==
  IF ~(Len(child.rows) = Len(base) /\ Len(child.decisions) = Len(base) /\ base # <<>>)
  THEN "POLICY_SELECTION_HORIZON_MISMATCH"
  ELSE LET first == child.decisions[1]
           s     == source.search
       IN First(<<
         <<\E o, p \in child.orders : o # p /\ o.placed = p.placed,
           "POLICY_SELECTION_ORDER_DUPLICATE">>,
         Check(GateRefusal(first.admission, source)),
         <<first.mean = 0, "POLICY_SELECTION_MONTHLY_DEMAND_INVALID">>,
         Check(WeeksRefusal(child, base, ReplayedStock(child, base))),
         <<{o.placed : o \in child.orders} # AcceptedWeeks(child),
           "POLICY_SELECTION_UNBACKED_ORDER">>,
         <<~MetricsReplay(child, EvaluatedRows(child.rows, child.decisions, child.orders,
                                               s.cost, s.minFill), OrderGate(first.admission)),
           "POLICY_SELECTION_METRICS_REPLAY_MISMATCH">> >>)

-----------------------------------------------------------------------------
(* Assessment and ranking.                                                  *)

IneligibleReasons(metrics, a, minFill) ==
  {r \in {"ORDER_GATE_BLOCKED", "RECOMMENDATION_CALCULATION_BLOCKED", "NO_DEMAND_IN_HORIZON",
          "FILL_RATE_BELOW_MINIMUM", "ENDING_BACKORDER_REMAINS", "COST_PROFILE_NOT_BOUND"} :
     CASE r = "ORDER_GATE_BLOCKED" -> a.noOrder
       [] r = "RECOMMENDATION_CALCULATION_BLOCKED" -> ~a.calculation
       [] r = "NO_DEMAND_IN_HORIZON" -> metrics.demand = 0
       [] r = "FILL_RATE_BELOW_MINIMUM" ->
            metrics.demand > 0 /\ 100 * metrics.fulfilled < minFill * metrics.demand
       [] r = "ENDING_BACKORDER_REMAINS" -> metrics.endBacklog > 0
       [] r = "COST_PROFILE_NOT_BOUND" -> metrics.cost = Nothing}

\* metrics are those a candidate is judged by: its own, or repriced ones.
Assessed(child, metrics, minFill) ==
  LET failed  == child.status = "FAILED"
      reasons == IF failed THEN {"CANDIDATE_FAILED"}
                 ELSE IneligibleReasons(metrics, child.decisions[1].admission, minFill)
  IN [candidate |-> child.candidate, reasons |-> reasons, rank |-> 0,
      status |-> IF failed THEN "FAILED"
                 ELSE IF reasons # {} THEN "INELIGIBLE" ELSE "NOT_SELECTED",
      score |-> IF reasons # {} THEN Nothing
                ELSE [cost |-> metrics.cost, holding |-> metrics.holding,
                      weeks |-> metrics.weeks, count |-> metrics.count]]

\* Average inventory is compared by the total over the weeks all candidates share.
RankingKey(x) == <<x.score.cost, x.score.holding, x.score.count>> \o CandidateKey(x.candidate)

LoserReasons  == <<"HIGHER_TOTAL_COST", "HIGHER_AVERAGE_INVENTORY", "MORE_ORDERS",
                   "CANDIDATE_ID_TIE_BREAK">>
WinnerReasons == <<"LOWEST_TOTAL_COST", "TIE_RESOLVED_BY_AVERAGE_INVENTORY",
                   "TIE_RESOLVED_BY_ORDER_COUNT", "TIE_RESOLVED_BY_CANDIDATE_ID">>

\* The ranking field that separates two assessments; identifiers are the last.
Separating(x, y) == Least(4, FirstDifference(RankingKey(x), RankingKey(y)))

\* The eligible assessments, best first.
Ranked(assessments) ==
  LET eligible == SetToSortSeq({x \in ToSet(assessments) : x.score # Nothing},
                               LAMBDA x, y : Before(RankingKey(x), RankingKey(y)))
  IN [k \in DOMAIN eligible |->
        IF k = 1
        THEN [eligible[1] EXCEPT !.rank = 1, !.status = "SELECTED", !.reasons = {"RANKED_FIRST"}]
        ELSE [eligible[k] EXCEPT !.rank = k,
                !.reasons = {LoserReasons[Separating(eligible[1], eligible[k])]}]]

RankedReasons(ranked) ==
  CASE ranked = <<>> -> {}
    [] Len(ranked) = 1 -> {"RANKED_FIRST", "ONLY_ELIGIBLE_CANDIDATE"}
    [] OTHER -> {"RANKED_FIRST", WinnerReasons[Separating(ranked[1], ranked[2])]}

WithRanks(assessments, ranked) ==
  [k \in DOMAIN assessments |->
     IF ranked = <<>> \/ assessments[k].score = Nothing THEN assessments[k]
     ELSE CHOOSE x \in ToSet(ranked) : x.candidate = assessments[k].candidate]

-----------------------------------------------------------------------------
(* The selection of every item.                                             *)

ChildrenOfItem(source, i) == SelectSeq(source.children, LAMBDA c : c.candidate.item = i)

\* What a result must be before any of its candidates is replayed.
SourceRefusal(source) ==
  LET children == source.children
      known    == DOMAIN source.baselines \ DOMAIN source.excluded
  IN First(<<
    <<source.status # "EVALUATED", "POLICY_SELECTION_SOURCE_SCOPE_INVALID">>,
    <<~SearchConfigValid(source.search) \/ ~source.search.enabled,
      "POLICY_SELECTION_SEARCH_CONFIG_MISMATCH">>,
    <<DOMAIN source.baselines = {}, "POLICY_SELECTION_BASELINE_INVALID">>,
    <<~(DOMAIN source.excluded \subseteq DOMAIN source.baselines),
      "POLICY_SELECTION_EXCLUSION_INVALID">>,
    <<\/ \E k \in DOMAIN children : children[k].candidate.item \notin known
      \/ \E j, k \in DOMAIN children : j < k /\ children[j].candidate = children[k].candidate,
      "POLICY_SELECTION_CANDIDATE_DUPLICATE_OR_ORPHAN">> >>)

\* An item has all the candidates its configuration gives it, or none.
ItemRefusal(source, i) ==
  LET children == ChildrenOfItem(source, i)
      expected == PolicyCandidates(source.search, i, children[1].candidate.segment)
  IN IF children = <<>> THEN None
     ELSE IF {c.candidate : c \in ToSet(children)} # expected
          THEN "POLICY_SELECTION_CANDIDATE_SET_MISMATCH"
     ELSE FirstRefusal([k \in DOMAIN children |->
            IF children[k].status = "FAILED" THEN None
            ELSE CandidateRefusal(children[k], source.baselines[i], source)])

\* verify_source: the same replay without a ranking.
VerifySource(source) ==
  IF SourceRefusal(source) # None THEN SourceRefusal(source)
  ELSE FirstRefusal([i \in DOMAIN source.baselines |-> ItemRefusal(source, i)])

ItemReasons(source, i, assessments, ranked) ==
  CASE ranked # <<>> -> RankedReasons(ranked)
    [] i \in DOMAIN source.excluded -> {"SEARCH_ITEM_EXCLUDED"}
    [] assessments = <<>> -> {"NO_CANDIDATES_EVALUATED"}
    [] \A k \in DOMAIN assessments : assessments[k].status = "FAILED" ->
         {"ALL_CANDIDATES_FAILED"}
    [] OTHER -> UNION {assessments[k].reasons : k \in DOMAIN assessments}

\* The statement of an item whose candidates were assessed and ranked.
ChosenOf(source, i, assessments, ranked) ==
  LET chosen == ranked[1]
      child  == CHOOSE c \in ToSet(ChildrenOfItem(source, i)) : c.candidate = chosen.candidate
      some   == ranked # <<>>
  IN [status |-> IF some THEN "SELECTED" ELSE "NOT_SELECTED",
      reasons |-> ItemReasons(source, i, assessments, ranked),
      exclusion |-> IF i \in DOMAIN source.excluded THEN source.excluded[i] ELSE None,
      candidate |-> IF some THEN chosen.candidate ELSE Nothing,
      score |-> IF some THEN chosen.score ELSE Nothing,
      review |-> IF some THEN ReviewRequired(child.decisions[1].admission) ELSE Nothing,
      decisions |-> WithRanks(assessments, ranked)]

RankedItem(source, i, assessments) == ChosenOf(source, i, assessments, Ranked(assessments))

ItemSelection(source, i) ==
  LET children == ChildrenOfItem(source, i)
  IN RankedItem(source, i, [k \in DOMAIN children |->
       Assessed(children[k], children[k].metrics, source.search.minFill)])

\* verify_policy_selection_result: what a selection states of itself is consistent.
SelectionValid(items) ==
  \A i \in DOMAIN items :
    LET x     == items[i]
        taken == x.status = "SELECTED"
        ranks == {d.rank : d \in {e \in ToSet(x.decisions) : e.rank > 0}}
    IN /\ x.reasons # {}
       /\ taken <=> x.candidate # Nothing
       /\ taken <=> x.score # Nothing
       /\ \A d \in ToSet(x.decisions) :
            /\ d.reasons # {}
            /\ (d.status \in {"SELECTED", "NOT_SELECTED"}) <=> (d.rank > 0 /\ d.score # Nothing)
       /\ ranks = 1..Cardinality(ranks)
       /\ {d \in ToSet(x.decisions) : d.status = "SELECTED"}
            = {d \in ToSet(x.decisions) : d.rank = 1}
       /\ IF taken THEN \E d \in ToSet(x.decisions) :
                          d.rank = 1 /\ d.candidate = x.candidate /\ d.score = x.score
                             /\ d.candidate.item = i
          ELSE ranks = {}

SelectionOf(source, items) ==
  IF ~SelectionValid(items) THEN [status |-> "REFUSED", reason |-> "POLICY_SELECTION_RESULT_INVALID"]
  ELSE [status |-> "COMPUTED", parent |-> source, items |-> items]

RunPolicySelection(source) ==
  Unless(VerifySource(source),
         SelectionOf(source, [i \in DOMAIN source.baselines |-> ItemSelection(source, i)]))
=============================================================================
