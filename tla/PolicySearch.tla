----------------------------- MODULE PolicySearch -----------------------------
(***************************************************************************)
(* The bounded policy search of one prepared input                          *)
(* (recommend_replenishment/application/policy_search.py): the candidates   *)
(* of each item, and the simulation of each candidate with the common       *)
(* observation, guard and stock step.  A search may be given a catalog of   *)
(* candidates, which takes the place of the configured profiles.            *)
(*                                                                          *)
(* Planning weeks are whole weeks numbered from 1.  Cover is in hundredths  *)
(* of a month, a service level in hundredths of a percent and a fill rate   *)
(* in percent.  A candidate is its parameters; their order stands for the   *)
(* order of candidate identifiers.                                          *)
(***************************************************************************)
EXTENDS ItemPolicy, StockStep, SequencesExt

CONSTANTS
  Nothing,   \* what is not given: no cap, no cost, no candidate, no metrics
  Factor     \* quantile of the normal distribution at a service level, in hundredths

Kinds      == {"ROP_FIXED_Q", "PERIODIC_ORDER_UP_TO"}
Check(reason) == <<reason # None, reason>>  \* the place of a reason in a list of checks
Total(f)   == MapThenSumSet(LAMBDA x : f[x], DOMAIN f)
CeilDiv(a, b) == (a + b - 1) \div b

-----------------------------------------------------------------------------
(* The search configuration and the candidates of an item.                  *)

ProfileValid(p, limit) ==
  /\ p.kinds # {} /\ p.kinds \subseteq Kinds
  /\ p.rmos # {}  /\ p.rmos \subseteq 0..1200
  /\ p.emos # {}  /\ p.emos \subseteq 1..1200
  /\ p.levels # {} /\ p.levels \subseteq Levels
  /\ p.reviews # {} /\ p.reviews \subseteq 1..13
  /\ \A v \in {p.rmos, p.emos, p.levels, p.reviews} : Cardinality(v) <= 16
  /\ Cardinality(p.kinds \X p.rmos \X p.emos \X p.levels \X p.reviews) <= limit

SearchConfigValid(s) ==
  /\ s.lookback \in {13, 26} /\ s.limit \in 1..256 /\ s.minFill \in 0..100
  /\ DOMAIN s.groups # {} /\ DOMAIN s.groups \subseteq Segments
  /\ \A g \in DOMAIN s.groups : ProfileValid(s.groups[g], s.limit)
  /\ \A i \in DOMAIN s.overrides : ProfileValid(s.overrides[i], s.limit)

\* An override of the item stands before the profile of its segment.
ProfileOf(s, i, segment) ==
  IF i \in DOMAIN s.overrides THEN s.overrides[i]
  ELSE IF segment \in DOMAIN s.groups THEN s.groups[segment] ELSE Nothing

PolicyCandidates(s, i, segment) ==
  LET p == ProfileOf(s, i, segment)
  IN {[item |-> i, segment |-> segment, kind |-> v[1], rmos |-> v[2], emos |-> v[3],
       level |-> v[4], review |-> v[5],
       range |-> IF i \in DOMAIN s.overrides THEN "ITEM_OVERRIDE" ELSE "GROUP_PROFILE"] :
        v \in p.kinds \X p.rmos \X p.emos \X p.levels \X p.reviews}

\* An identifier is a hash of the candidate and of the range it comes from: the same
\* parameters are in another order in another range.
CandidateKey(c) ==
  LET sign == IF c.range = "GROUP_PROFILE" THEN 1 ELSE -1
  IN <<IF c.kind = "ROP_FIXED_Q" THEN sign ELSE 2 * sign, sign * c.rmos, sign * c.emos,
       sign * c.level, sign * c.review>>

\* Lexicographic order of keys of one length, and where two keys first differ.
FirstDifference(a, b) == Min({k \in DOMAIN a : a[k] # b[k]})
Before(a, b) == a # b /\ a[FirstDifference(a, b)] < b[FirstDifference(a, b)]
InCandidateOrder(S) ==
  SetToSortSeq(S, LAMBDA c, d : Before(CandidateKey(c), CandidateKey(d)))

-----------------------------------------------------------------------------
(* What the history of an item makes of a service level and of a cover.     *)

WeeksOf(days) == CeilDiv(days, 7)

\* factor * deviation * sqrt(weeks), rounded up.
SafetyStock(h, level, weeks) ==
  LET scaled == Factor[level] * h.dev
  IN Min({k \in 0..((scaled * weeks) \div 100 + 1) :
            10000 * k * k >= scaled * scaled * weeks})

ReorderPoint(h, level, days) ==
  h.mean * WeeksOf(days) + SafetyStock(h, level, WeeksOf(days))

\* A month has 52/12 weeks.
Cover(h, months) == CeilDiv(h.mean * 13 * months, 300)

-----------------------------------------------------------------------------
(* The observation of a week and the guard.                                 *)

\* The first week that opens on or after the due date of an order placed now.
ArrivalWeek(week, lead) == week + WeeksOf(lead)

Ordered(orders, week) ==
  MapThenSumSet(LAMBDA o : o.quantity, {o \in orders : o.arrival = week})

\* plan covers exactly the weeks of its calendar.
Observation(plan, week, stock, orders) ==
  LET pending == [b \in week..plan.weeks |-> plan.receipt[b] + Ordered(orders, b)]
  IN [week |-> week, weeks |-> plan.weeks, stock |-> stock, pending |-> pending,
      position |-> stock.available + Total(pending) - stock.backorder,
      policy |-> plan.policy[week], schedule |-> plan.policy,
      control |-> plan.control, allowed |-> plan.allowed]

CommittedTo(obs, week) ==
  obs.stock.available + obs.stock.reserved + Total([b \in obs.week..week |-> obs.pending[b]])

\* The least room under any cap from the arrival on.
Headroom(obs, arrival) ==
  LET capped == {b \in arrival..obs.weeks : obs.schedule[b].cap # Nothing}
  IN IF capped = {} THEN Nothing
     ELSE Min({Most(0, obs.schedule[b].cap - CommittedTo(obs, b)) : b \in capped})

\* Defect: an order that arrives after the plan is accepted as if it arrived in it.
ValidatedBeyondHorizon(obs, proposal) ==
  LET raw     == IF proposal.action = "ORDER_UP_TO" THEN Most(0, proposal.quantity - obs.position)
                 ELSE proposal.quantity
      arrival == Least(obs.weeks, ArrivalWeek(obs.week, obs.policy.lead))
  IN [status |-> IF raw = 0 THEN "NO_ORDER" ELSE "ACCEPTED", reasons |-> {},
      accepted |-> raw, arrival |-> IF raw = 0 THEN 0 ELSE arrival]

Validated(obs, proposal) ==
  LET raw      == IF proposal.action = "ORDER_UP_TO"
                  THEN Most(0, proposal.quantity - obs.position) ELSE proposal.quantity
      arrival  == ArrivalWeek(obs.week, obs.policy.lead)
      lot      == obs.policy.multiple
      rounded  == CeilDiv(Most(obs.policy.moq, raw), lot) * lot
      room     == Headroom(obs, arrival)
      limit    == IF room = Nothing THEN obs.control.maxOrder
                  ELSE Least(obs.control.maxOrder, room)
      feasible == Least(rounded, (limit \div lot) * lot)
      bounds   == obs.control.minTarget..obs.control.maxTarget
      adjusted == {r \in {"MOQ_OR_MULTIPLE_ROUND_UP", "APPROVED_LIMIT_OR_CAPACITY_REDUCTION",
                          "ARRIVAL_ROUNDED_FORWARD"} :
                     CASE r = "MOQ_OR_MULTIPLE_ROUND_UP" -> rounded # raw
                       [] r = "APPROVED_LIMIT_OR_CAPACITY_REDUCTION" -> feasible # rounded
                       [] r = "ARRIVAL_ROUNDED_FORWARD" -> obs.policy.lead % 7 # 0}
      refused  == First(<<
        <<proposal.action \notin obs.allowed, "ACTION_NOT_APPROVED">>,
        <<proposal.action = "ORDER_UP_TO" /\ proposal.quantity \notin bounds,
          "TARGET_OUTSIDE_APPROVED_BOUNDS">>,
        <<raw = 0, IF proposal.action = "HOLD" THEN "HOLD" ELSE "NO_NET_REQUIREMENT">>,
        <<obs.week \notin obs.control.orderDates, "ORDER_CALENDAR_CLOSED">>,
        <<arrival > obs.weeks, "ARRIVAL_OUTSIDE_PLAN_HORIZON">>,
        <<feasible <= 0 \/ feasible < obs.policy.moq, "NO_FEASIBLE_ORDER_QUANTITY">> >>)
  IN IF refused # None
     THEN [status |-> IF refused \in {"HOLD", "NO_NET_REQUIREMENT"} THEN "NO_ORDER"
                      ELSE "REJECTED",
           reasons |-> {refused}, accepted |-> 0, arrival |-> 0]
     ELSE [status |-> IF adjusted = {} THEN "ACCEPTED" ELSE "ADJUSTED",
           reasons |-> IF adjusted = {} THEN {"CONSTRAINTS_PASSED"} ELSE adjusted,
           accepted |-> feasible, arrival |-> arrival]

-----------------------------------------------------------------------------
(* The decision of a candidate.                                             *)

\* What the policy admitted for the item lets a candidate do.
OrderGate(a) == a.noOrder \/ ~a.calculation

\* Protection may be longer than the physical lead time, which the guard keeps.
ProtectionDays(a, obs) == IF a.leadTime = <<>> THEN obs.policy.lead ELSE a.leadTime[2]

\* The proposal of a candidate; none when its target is outside the approved bounds,
\* which fails the candidate.
Decision(c, h, a, floor, obs) ==
  LET level  == Most(c.level, floor)
      days   == ProtectionDays(a, obs)
      rop    == Most(ReorderPoint(h, level, days), Cover(h, c.rmos))
      lot    == Cover(h, c.emos)
      fixed  == c.kind = "ROP_FIXED_Q"
      target == IF fixed THEN rop + lot
                ELSE Most(rop + lot, ReorderPoint(h, level, days + 7 * c.review))
      due    == (obs.week - 1) % c.review = 0 /\ obs.week \in obs.control.orderDates
      needed == IF fixed THEN obs.position <= rop ELSE obs.position < target
      order  == ~OrderGate(a) /\ due /\ needed
      action == IF ~order THEN "HOLD" ELSE IF fixed THEN "ORDER_QTY" ELSE "ORDER_UP_TO"
  IN IF target \notin obs.control.minTarget..obs.control.maxTarget THEN Nothing
     ELSE [action |-> action,
           quantity |-> CASE action = "HOLD" -> 0 [] action = "ORDER_QTY" -> lot
                          [] action = "ORDER_UP_TO" -> target,
           rop |-> rop, target |-> target]

-----------------------------------------------------------------------------
(* The projections.                                                         *)

StockFrom(psi, stock) ==
  [available |-> psi.eoh, reserved |-> stock.reserved, backorder |-> psi.backorderClose]

PsiRow(plan, week, stock, recommended) ==
  [week |-> week, demand |-> plan.demand[week], receipt |-> plan.receipt[week],
   opened |-> stock,
   psi |-> Advance(stock, plan.demand[week], plan.receipt[week], recommended)]

BaselineRows(plan) ==
  LET rows[w \in 0..plan.weeks] ==
        IF w = 0 THEN <<>>
        ELSE LET stock == IF w = 1 THEN plan.stock
                          ELSE StockFrom(rows[w - 1][w - 1].psi, plan.stock)
             IN Append(rows[w - 1], PsiRow(plan, w, stock, 0))
  IN rows[plan.weeks]

WithOrder(orders, w, v) ==
  IF v.accepted = 0 THEN orders
  ELSE orders \cup {[placed |-> w, arrival |-> v.arrival, quantity |-> v.accepted]}

\* What a candidate decides in a week, and what the guard makes of it.
Decided(c, h, a, obs, proposal) ==
  IF proposal = Nothing THEN Nothing
  ELSE [obs |-> obs, proposal |-> proposal, validation |-> Validated(obs, proposal),
        admission |-> a, candidate |-> c, mean |-> h.mean]

NextRun(run, row, orders, d) ==
  [stock |-> StockFrom(row.psi, run.stock), orders |-> orders,
   rows |-> Append(run.rows, row), decisions |-> Append(run.decisions, d)]

AfterOrders(plan, run, w, orders, d) ==
  NextRun(run, PsiRow(plan, w, run.stock, Ordered(orders, w)), orders, d)

AfterDecision(plan, run, w, d) ==
  IF d = Nothing THEN Nothing
  ELSE AfterOrders(plan, run, w, WithOrder(run.orders, w, d.validation), d)

AfterWeek(plan, c, h, a, floor, run, obs) ==
  AfterDecision(plan, run, obs.week, Decided(c, h, a, obs, Decision(c, h, a, floor, obs)))

Simulated(plan, c, h, a, floor) ==
  LET start == [stock |-> plan.stock, rows |-> <<>>, decisions |-> <<>>, orders |-> {}]
      next(run, w) == AfterWeek(plan, c, h, a, floor, run,
                                Observation(plan, w, run.stock, run.orders))
      runs[w \in 0..plan.weeks] ==
        IF w = 0 THEN start
        ELSE IF runs[w - 1] = Nothing THEN Nothing ELSE next(runs[w - 1], w)
  IN runs[plan.weeks]

-----------------------------------------------------------------------------
(* The metrics of a projection.                                             *)

DemandOf(row)   == row.demand.order + row.demand.forecast
\* Old backlog served in a week is no service of its current demand.
ServedNow(row)  == row.psi.fulfilledOrder - Least(row.psi.available, row.opened.backorder)
                   + row.psi.fulfilledForecast
OverRows(f(_), rows) == MapThenSumSet(LAMBDA w : f(rows[w]), DOMAIN rows)

EvaluatedRows(rows, decisions, orders, cost, minFill) ==
  LET onHand(r)  == r.psi.eoh + r.opened.reserved
      owed(r)    == r.psi.backorderClose
      demand     == OverRows(DemandOf, rows)
      fulfilled  == OverRows(ServedNow, rows)
      holding    == OverRows(onHand, rows)
      backlog    == OverRows(owed, rows)
      ordered    == MapThenSumSet(LAMBDA o : o.quantity, orders)
      endBacklog == rows[Len(rows)].psi.backorderClose
  IN [weeks |-> Len(rows), demand |-> demand, fulfilled |-> fulfilled, holding |-> holding,
      backlog |-> backlog, endBacklog |-> endBacklog,
      count |-> Cardinality(orders), ordered |-> ordered,
      rejected |-> Cardinality({w \in DOMAIN decisions :
                                  decisions[w].validation.status = "REJECTED"}),
      feasible |-> /\ demand > 0 /\ 100 * fulfilled >= minFill * demand
                   /\ endBacklog = 0,
      cost |-> IF cost = Nothing THEN Nothing
               ELSE holding * cost.holding + backlog * cost.backlog
                    + Cardinality(orders) * cost.fixed + ordered * cost.variable]

-----------------------------------------------------------------------------
(* The search over every item of a request.                                 *)

\* The admission of an item as a shadow computation of this configuration.
AdmissionRefusal(config, item) ==
  Rejection(item.policy, config, "SHADOW", "MATHEMATICAL", FALSE)
AdmissionOf(item) == Admitted(item.policy, "SHADOW", "MATHEMATICAL")

\* The request contract 2.0.0 has every item admitted before anything is computed;
\* with either contract one item that is not admitted refuses the search.
ToAdmit(r, snapshot) ==
  {i \in DOMAIN r.plans \cap DOMAIN snapshot.items :
     r.contract = "2.0.0" \/ snapshot.items[i].status = "CLASSIFIED"}

\* A catalog that was bound to this search: its candidates, the reason for an item
\* without any, and why it may not be used with these inputs.
CatalogRefusal(catalog) == IF catalog = Nothing THEN None ELSE catalog.refusal
LimitOf(s, catalog)     == IF catalog = Nothing THEN s.limit ELSE catalog.limit

\* A request of contract 2.0.0 is bound to one classification and its configuration.
BoundElsewhere(r, snapshot) ==
  r.contract = "2.0.0" /\ r.binding # [snapshot |-> snapshot, config |-> snapshot.config]

SearchRefusal(r, config, snapshot, catalog) ==
  LET s        == config.search
      items    == DOMAIN r.plans
      rejected == {i \in ToAdmit(r, snapshot) :
                     AdmissionRefusal(config, snapshot.items[i]) # None}
  IN First(<<
    <<r.mode # "LOCAL_SHADOW", "POLICY_SEARCH_LOCAL_SHADOW_ONLY">>,
    <<~SearchConfigValid(s), "POLICY_SEARCH_CONFIG_INVALID">>,
    <<~s.enabled, "POLICY_SEARCH_DISABLED">>,
    <<s.lookback # r.lookback, "POLICY_SEARCH_LOOKBACK_BINDING_MISMATCH">>,
    <<snapshot.config # config.name, "POLICY_SEARCH_CONFIG_HASH_MISMATCH">>,
    <<snapshot.revision # r.revision, "POLICY_SEARCH_CONFIG_REVISION_MISMATCH">>,
    <<snapshot.scope # r.scope, "POLICY_SEARCH_SCOPE_MISMATCH">>,
    <<snapshot.windowEnd > r.start, "POLICY_SEARCH_CLASSIFICATION_LOOKAHEAD">>,
    <<BoundElsewhere(r, snapshot), "POLICY_SEARCH_EFFECTIVE_POLICY_BINDING_MISMATCH">>,
    <<~(items \subseteq DOMAIN snapshot.items), "POLICY_SEARCH_CLASSIFICATION_COVERAGE">>,
    <<~(DOMAIN s.overrides \subseteq items), "POLICY_SEARCH_ORPHAN_OVERRIDE">>,
    Check(CatalogRefusal(catalog)),
    <<r.weeks * (r.weeks + 1) * Cardinality(items) * LimitOf(s, catalog) > 400000,
      "POLICY_SEARCH_WORKLOAD_LIMIT">>,
    <<rejected # {}, "POLICY_SEARCH_ITEM_NOT_ADMITTED">>,
    <<r.contract = "2.0.0"
        /\ \E i \in ToAdmit(r, snapshot) : r.bound[i] # PolicyHash(snapshot.items[i].policy),
      "POLICY_SEARCH_ITEM_POLICY_BINDING_MISMATCH">> >>)

\* The floor of a class is a business rule: a search may not go below it.
LevelFloor(config, item) ==
  IF config.ved.enabled /\ item.ved # None THEN config.floor[item.ved] ELSE 5000

\* Why the profiles, or the catalog, have no candidate for an item.
RangeReason(s, i, item, catalog) ==
  IF catalog # Nothing THEN catalog.reasons[i]
  ELSE IF ProfileOf(s, i, item.segment) = Nothing THEN "POLICY_SEARCH_GROUP_NOT_CONFIGURED"
  ELSE None

CandidatesFor(s, i, item, catalog) ==
  IF catalog = Nothing THEN PolicyCandidates(s, i, item.segment) ELSE catalog.candidates[i]

Exclusion(r, config, item, i, catalog) ==
  LET h == r.history[i]
  IN First(<< <<h.missing, "INSUFFICIENT_DEMAND_HISTORY">>,
              <<h.mean = 0, "ZERO_HISTORICAL_MEAN_DEMAND">>,
              <<i \in r.pinned, "APPROVED_OVERRIDE_PINNED">>,
              <<item.status # "CLASSIFIED", "POLICY_SEARCH_ITEM_UNCLASSIFIED">>,
              Check(RangeReason(config.search, i, item, catalog)) >>)

\* A candidate that fails keeps nothing of what it simulated.
Evaluated(run, c, a, s) ==
  IF run = Nothing
  THEN [candidate |-> c, status |-> "FAILED", rows |-> Nothing, decisions |-> Nothing,
        orders |-> Nothing, metrics |-> Nothing, eligible |-> FALSE]
  ELSE LET metrics == EvaluatedRows(run.rows, run.decisions, run.orders, s.cost, s.minFill)
       IN [candidate |-> c, status |-> "SUCCEEDED", rows |-> run.rows,
           decisions |-> run.decisions, orders |-> run.orders, metrics |-> metrics,
           eligible |-> metrics.feasible /\ ~OrderGate(a)]

ChildrenOf(r, config, item, i, catalog) ==
  LET candidates == InCandidateOrder(CandidatesFor(config.search, i, item, catalog))
      child(c, a) == Evaluated(Simulated(r.plans[i], c, r.history[i], a,
                                         LevelFloor(config, item)), c, a, config.search)
  IN [k \in DOMAIN candidates |-> child(candidates[k], AdmissionOf(item))]

\* A result states every item of the request: by its candidates or by the reason
\* why it has none.
SearchResult(r, config, snapshot, catalog) ==
  LET items    == DOMAIN r.plans
      reason   == [i \in items |-> Exclusion(r, config, snapshot.items[i], i, catalog)]
      searched == SetToSortSeq({i \in items : reason[i] = None}, <)
  IN [status |-> IF catalog = Nothing THEN "EVALUATED" ELSE "CATALOG_EVALUATED",
      catalog |-> catalog, request |-> r.name, config |-> config.name,
      search |-> config.search, scope |-> r.scope, start |-> r.start,
      baselines |-> [i \in items |-> BaselineRows(r.plans[i])],
      excluded |-> [i \in {j \in items : reason[j] # None} |-> reason[i]],
      children |-> FlattenSeq([k \in DOMAIN searched |->
                     ChildrenOf(r, config, snapshot.items[searched[k]], searched[k], catalog)])]

\* The answer of a use case: a refusal with its reason, or the result.
Unless(refusal, result) ==
  IF refusal # None THEN [status |-> "REFUSED", reason |-> refusal] ELSE result

SearchWith(r, config, snapshot, catalog) ==
  Unless(SearchRefusal(r, config, snapshot, catalog), SearchResult(r, config, snapshot, catalog))

RunPolicySearch(r, config, snapshot) == SearchWith(r, config, snapshot, Nothing)
=============================================================================
