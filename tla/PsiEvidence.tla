------------------------------ MODULE PsiEvidence ------------------------------
(***************************************************************************)
(* The evidence of one PSI child: what RunRecommendedPsiUseCase records of  *)
(* every decision of PsiPlanning, the child that build_psi_child_artifact   *)
(* seals over it, and the check (_validate_successful_build) that every     *)
(* later reader makes again, from the sealed source alone.                  *)
(*                                                                          *)
(* The check exists for a producer that errs.  So the projection may slip   *)
(* ONCE: lose an accepted order, decide on a stale view, receive a supply   *)
(* twice, open a bucket with the wrong stock, or be sealed with, or         *)
(* compared with, another input.  What follows a slip is consistent with it.*)
(*                                                                          *)
(* Hashes bind whole documents and are implicit: a child is only read as it *)
(* was sealed.  Supply is kept per bucket; its ids are left out.            *)
(***************************************************************************)
EXTENDS PsiPlanning, FiniteSetsExt

CONSTANT None        \* a date, bucket, headroom or target that is not given

ASSUME NoneAssumption == None \notin Nat /\ None \notin Plans

VARIABLES
  decisions,  \* [observation, proposal, validation] of every decided bucket
  slip,       \* what went wrong, or "NONE"
  source,     \* the input the evidence is sealed with, None before
  compared    \* sealed rows of the baseline the child is compared with

evidenceVars == <<vars, decisions, slip, source, compared>>

-----------------------------------------------------------------------------
(* The guard, with the receipt it returns (guard.py).                       *)

\* What the strategy and the guard are shown in a bucket.
Seen == [week |-> Week, stock |-> Current, pending |-> pending]

DueBy(o, b) == RunningTotal([c \in Bucket |-> o.pending.confirmed[c]
                                              + o.pending.recommended[c]])[b]

Position(o) == o.stock.available + DueBy(o, Horizon) - o.stock.backorder

Arrivals(src, w) == {b \in w..Horizon : Start[b] >= Start[w] + src.policy[w].lead}

\* Space left under every cap from the arrival on, None where no cap applies.
Headroom(src, o, arrival) ==
  LET capped == {b \in arrival..Horizon : src.policy[b].cap # NoCap}
      held(b) == o.stock.available + o.stock.reserved + DueBy(o, b)
  IN IF capped = {} THEN None
     ELSE Min({Most(0, src.policy[b].cap - held(b)) : b \in capped})

\* The part of the validation every path of the guard fills in.
Unplaced(o, p) ==
  LET raw == IF p.action = "ORDER_UP_TO" THEN Most(0, p.quantity - Position(o))
                                         ELSE p.quantity
  IN [position |-> Position(o), raw |-> raw, rounded |-> 0, accepted |-> 0,
      uncovered |-> raw, due |-> None, arrival |-> None, headroom |-> None,
      target |-> IF p.action = "ORDER_UP_TO" THEN p.quantity ELSE None,
      status |-> "NO_ORDER", reasons |-> {}]

Rejected(v, why) == [v EXCEPT !.status = "REJECTED", !.reasons = {why}, !.target = None]

\* Rounding, capacity and limits, once the order has a bucket to arrive in.
Sized(src, o, v) ==
  LET policy   == src.policy[o.week]
      lot      == policy.multiple
      rounded  == ((Most(policy.moq, v.raw) + lot - 1) \div lot) * lot
      room     == Headroom(src, o, v.arrival)
      limit    == IF room = None THEN src.maxOrder ELSE Least(src.maxOrder, room)
      accepted == Least(rounded, (limit \div lot) * lot)
      why      == {r \in {"ROUND_UP", "REDUCTION", "ROUNDED_FORWARD"} :
                     \/ r = "ROUND_UP" /\ rounded # v.raw
                     \/ r = "REDUCTION" /\ accepted # rounded
                     \/ r = "ROUNDED_FORWARD" /\ v.due # Start[v.arrival]}
      placed   == [v EXCEPT !.rounded = rounded, !.headroom = room]
  IN IF accepted <= 0 \/ accepted < policy.moq
     THEN Rejected(placed, "NO_FEASIBLE_ORDER_QUANTITY")
     ELSE [placed EXCEPT !.accepted = accepted, !.uncovered = Most(0, v.raw - accepted),
                         !.status = IF why = {} THEN "ACCEPTED" ELSE "ADJUSTED",
                         !.reasons = IF why = {} THEN {"CONSTRAINTS_PASSED"} ELSE why]

\* The early returns of _validate_action, in their order.
ValidateAction(src, o, p) ==
  LET v == Unplaced(o, p)
      dated == [v EXCEPT !.due = Start[o.week] + src.policy[o.week].lead]
      arrivals == Arrivals(src, o.week)
  IN CASE p.action \notin src.allowed -> Rejected(v, "ACTION_NOT_APPROVED")
       [] /\ p.action = "ORDER_UP_TO" /\ p.action \in src.allowed
          /\ p.quantity \notin src.minTarget..src.maxTarget
            -> Rejected(v, "TARGET_OUTSIDE_APPROVED_BOUNDS")
       [] OTHER ->
            IF v.raw = 0
            THEN [v EXCEPT !.reasons = {IF p.action = "HOLD" THEN "HOLD"
                                                             ELSE "NO_NET_REQUIREMENT"}]
            ELSE IF o.week \notin src.orderDates THEN Rejected(v, "ORDER_CALENDAR_CLOSED")
            ELSE IF arrivals = {} THEN Rejected(dated, "ARRIVAL_OUTSIDE_PLAN_HORIZON")
            ELSE Sized(src, o, [dated EXCEPT !.arrival = Min(arrivals)])

Decision(o, p) == [observation |-> o, proposal |-> p,
                   validation |-> ValidateAction(plan, o, p)]

-----------------------------------------------------------------------------
(* The sealed rows and their metrics.                                       *)

\* A row as the two use cases write it, with the demand and stock it opened on.
PsiRow(r, d, reserved, cap) ==
  LET open == r.backorderClose + r.fulfilledOrder - d.order
      forBacklog == Least(r.available, open)
  IN [boh |-> r.boh, reserved |-> reserved, onHandOpen |-> r.boh + reserved,
      confirmed |-> r.inbound, recommended |-> r.recommended, available |-> r.available,
      backorderOpen |-> open, order |-> d.order, forecast |-> d.forecast,
      fulfilledBacklog |-> forBacklog, fulfilledOrder |-> r.fulfilledOrder - forBacklog,
      fulfilledForecast |-> r.fulfilledForecast, eoh |-> r.eoh,
      onHandClose |-> r.eoh + reserved, backorderClose |-> r.backorderClose,
      shortage |-> r.shortage,
      excess |-> IF cap = NoCap THEN 0 ELSE Most(0, r.available + reserved - cap)]

PsiRows(s, input) ==
  [b \in DOMAIN s |-> PsiRow(s[b], input.demand[b], input.stock.reserved,
                             input.policy[b].cap)]

\* Sums over the horizon and the closing row.
Summarize(psi) ==
  LET sum(f) == RunningTotal(f)[Horizon]
      last == psi[Horizon]
  IN [demand |-> sum([b \in DOMAIN psi |-> psi[b].order + psi[b].forecast]),
      onTime |-> sum([b \in DOMAIN psi |-> psi[b].fulfilledOrder + psi[b].fulfilledForecast]),
      backorder |-> last.backorderClose, eoh |-> last.eoh, onHand |-> last.onHandClose,
      shortage |-> sum([b \in DOMAIN psi |-> psi[b].shortage])]

-----------------------------------------------------------------------------
(* The check of a sealed child.                                             *)

\* Every bucket conserves stock, orders and forecast, serves in the fixed
\* priority, and opens with what the one before it closed with.
RollsForward(psi) ==
  \A b \in DOMAIN psi :
    LET r == psi[b]
        afterBacklog == r.available - r.fulfilledBacklog
    IN /\ r.onHandOpen = r.boh + r.reserved
       /\ r.available = r.boh + r.confirmed + r.recommended
       /\ r.available = r.eoh + r.fulfilledBacklog + r.fulfilledOrder + r.fulfilledForecast
       /\ r.onHandClose = r.eoh + r.reserved
       /\ r.backorderOpen + r.order
            = r.backorderClose + r.fulfilledBacklog + r.fulfilledOrder
       /\ r.shortage = r.forecast - r.fulfilledForecast
       /\ r.fulfilledBacklog = Least(r.available, r.backorderOpen)
       /\ r.fulfilledOrder = Least(afterBacklog, r.order)
       /\ r.fulfilledForecast = Least(afterBacklog - r.fulfilledOrder, r.forecast)
       /\ b > 1 => /\ r.boh = psi[b - 1].eoh
                   /\ r.backorderOpen = psi[b - 1].backorderClose
                   /\ r.reserved = psi[b - 1].reserved

\* Defect: the opening stock of the plan is not compared.
BoundToSourceRowsOnly(psi, src) ==
  \A b \in Bucket :
    /\ psi[b].order = src.demand[b].order /\ psi[b].forecast = src.demand[b].forecast
    /\ psi[b].confirmed = src.receipt[b]

\* Demand, receipts, opening stock and capacity excess are those of the source.
BoundToSource(psi, src) ==
  /\ \A b \in Bucket :
       /\ psi[b].order = src.demand[b].order /\ psi[b].forecast = src.demand[b].forecast
       /\ psi[b].confirmed = src.receipt[b]
       /\ psi[b].excess = IF src.policy[b].cap = NoCap THEN 0
                          ELSE Most(0, psi[b].available + psi[b].reserved - src.policy[b].cap)
  /\ psi[1].boh = src.stock.available
  /\ psi[1].reserved = src.stock.reserved
  /\ psi[1].onHandOpen = src.stock.available + src.stock.reserved
  /\ psi[1].backorderOpen = src.stock.backorder

\* A validation is possible on its face, whatever it was derived from.
StatusConsistent(v, p, w) ==
  LET mapped == v.due # None /\ v.arrival # None
      unmapped == v.due = None /\ v.arrival = None
      target == IF p.action = "ORDER_UP_TO" THEN p.quantity ELSE None
  IN /\ v.raw = IF p.action = "ORDER_UP_TO" THEN Most(0, p.quantity - v.position)
                                            ELSE p.quantity
     /\ v.accepted <= v.rounded
     /\ v.uncovered = Most(0, v.raw - v.accepted)
     /\ v.headroom # None => v.accepted <= v.headroom
     /\ v.due # None => Start[w] <= v.due
     /\ v.arrival # None => v.due # None /\ v.due <= Start[v.arrival]
     /\ \/ /\ v.status = "NO_ORDER"
           /\ v.raw = 0 /\ v.rounded = 0 /\ v.accepted = 0 /\ unmapped
           /\ v.target = target
           /\ v.reasons = {IF p.action = "HOLD" THEN "HOLD" ELSE "NO_NET_REQUIREMENT"}
        \/ /\ v.status = "REJECTED" /\ v.accepted = 0 /\ v.target = None
           /\ \/ /\ v.reasons \in {{"ACTION_NOT_APPROVED"}, {"ORDER_CALENDAR_CLOSED"},
                                   {"TARGET_OUTSIDE_APPROVED_BOUNDS"}}
                 /\ v.rounded = 0 /\ unmapped /\ v.headroom = None
                 /\ "ORDER_CALENDAR_CLOSED" \in v.reasons => v.raw > 0
                 /\ "TARGET_OUTSIDE_APPROVED_BOUNDS" \in v.reasons
                      => p.action = "ORDER_UP_TO"
              \/ /\ v.reasons = {"ARRIVAL_OUTSIDE_PLAN_HORIZON"}
                 /\ v.raw > 0 /\ v.rounded = 0
                 /\ v.due # None /\ v.arrival = None /\ v.headroom = None
              \/ /\ v.reasons = {"NO_FEASIBLE_ORDER_QUANTITY"}
                 /\ v.raw > 0 /\ v.rounded >= v.raw /\ v.rounded > 0 /\ mapped
        \/ /\ v.status \in {"ACCEPTED", "ADJUSTED"}
           /\ v.accepted > 0 /\ v.rounded >= v.raw /\ v.rounded > 0 /\ mapped
           /\ v.target = target
           /\ LET why == {r \in {"ROUND_UP", "REDUCTION", "ROUNDED_FORWARD"} :
                            \/ r = "ROUND_UP" /\ v.rounded # v.raw
                            \/ r = "REDUCTION" /\ v.accepted # v.rounded
                            \/ r = "ROUNDED_FORWARD" /\ v.due # Start[v.arrival]}
              IN v.reasons = IF v.status = "ADJUSTED" THEN why
                             ELSE IF why = {} THEN {"CONSTRAINTS_PASSED"} ELSE {}

\* The observation shows the state the row of its bucket opened with, and its
\* pending supply, with the order accepted now, is what that row receives.
BoundToRow(d, psi) ==
  LET w == d.observation.week
      r == psi[w]
      now == IF d.validation.arrival = w THEN d.validation.accepted ELSE 0
  IN /\ d.observation.stock = [available |-> r.boh, reserved |-> r.reserved,
                               backorder |-> r.backorderOpen]
     /\ r.confirmed = d.observation.pending.confirmed[w]
     /\ r.recommended = d.observation.pending.recommended[w] + now

\* Defect: received supply stays in the replayed ledger.
LedgerReplaysUndropped(ds, src) ==
  LET ledger[w \in Bucket] ==
        IF w = 1 THEN [confirmed |-> src.receipt, recommended |-> [b \in Bucket |-> 0]]
        ELSE LET v == ds[w - 1].validation
             IN IF v.accepted > 0 THEN AddSupply(ledger[w - 1], v.arrival, v.accepted)
                                  ELSE ledger[w - 1]
  IN \A w \in Bucket : ds[w].observation.pending = ledger[w]

\* Replaying the accepted orders from the receipts of the source gives the
\* pending supply every observation was shown.
LedgerReplays(ds, src) ==
  LET ledger[w \in Bucket] ==
        IF w = 1 THEN [confirmed |-> src.receipt, recommended |-> [b \in Bucket |-> 0]]
        ELSE LET v == ds[w - 1].validation
                 grown == IF v.accepted > 0
                          THEN AddSupply(ledger[w - 1], v.arrival, v.accepted)
                          ELSE ledger[w - 1]
             IN DropSupply(grown, w - 1)
  IN \A w \in Bucket : ds[w].observation.pending = ledger[w]

\* Every bucket receives exactly what the accepted orders send it.
ReceiptsReconcile(ds, psi) ==
  LET arriving(b) == [w \in Bucket |-> IF ds[w].validation.arrival = b
                                       THEN ds[w].validation.accepted ELSE 0]
  IN \A b \in Bucket : psi[b].recommended = RunningTotal(arriving(b))[Horizon]

\* A decision is one of its bucket, and the guard makes the same of its proposal.
DecisionHolds(d, w, psi, src) ==
  /\ d.observation.week = w
  /\ d.validation = ValidateAction(src, d.observation, d.proposal)
  /\ StatusConsistent(d.validation, d.proposal, w)
  /\ BoundToRow(d, psi)

\* What the check makes of rows and decisions, against the source.
DecisionsHold(ds, psi, src) ==
  /\ BoundToSource(psi, src)
  /\ Len(ds) = Horizon
  /\ \A w \in Bucket : DecisionHolds(ds[w], w, psi, src)
  /\ LedgerReplays(ds, src)
  /\ ReceiptsReconcile(ds, psi)

\* The action artifacts: observations and proposals with the source they refer
\* to, and the validations in the same order.
ActionArtifacts == [decisions |-> decisions, source |-> source]

\* The sealed child.
Child == LET psi == PsiRows(rows, plan)
         IN [psi |-> psi, metrics |-> Summarize(psi), action |-> ActionArtifacts]

BaselineChild == [psi |-> compared, metrics |-> Summarize(compared)]

BaselineValid(c) ==
  /\ RollsForward(c.psi)
  /\ c.metrics = Summarize(c.psi)
  /\ \A b \in DOMAIN c.psi : c.psi[b].recommended = 0

\* The artifacts of the decisions name the source the check goes by.
ActionsHold(c) == DecisionsHold(c.action.decisions, c.psi, c.action.source)

ChildValid(c) ==
  /\ RollsForward(c.psi)
  /\ c.metrics = Summarize(c.psi)
  /\ ActionsHold(c)

\* Defect: only demand is compared.
SameOutsideDemandOnly(base, candidate) ==
  \A b \in Bucket : base[b].order = candidate[b].order

\* A strategy changes actions, never the outside world or the opening stock.
SameOutside(base, candidate) ==
  /\ \A b \in Bucket :
       /\ base[b].order = candidate[b].order
       /\ base[b].forecast = candidate[b].forecast
       /\ base[b].confirmed = candidate[b].confirmed
  /\ base[1].boh = candidate[1].boh
  /\ base[1].reserved = candidate[1].reserved
  /\ base[1].onHandOpen = candidate[1].onHandOpen
  /\ base[1].backorderOpen = candidate[1].backorderOpen

\* compare_psi_children answers, and does not raise.
Comparable ==
  /\ source # None
  /\ BaselineValid(BaselineChild)
  /\ ChildValid(Child)
  /\ SameOutside(BaselineChild.psi, Child.psi)

\* The deltas of the comparison.  A service level is a quotient: its delta is
\* compared with zero by cross-multiplication, None without demand.
Comparison ==
  LET b == BaselineChild.metrics
      c == Child.metrics
  IN [service |-> IF b.demand = 0 \/ c.demand = 0 THEN None
                  ELSE c.onTime * b.demand - b.onTime * c.demand,
      backorder |-> c.backorder - b.backorder,
      available |-> c.eoh - b.eoh, onHand |-> c.onHand - b.onHand]

-----------------------------------------------------------------------------
(* The run of one item, with at most one slip.                              *)

EvidenceInit ==
  /\ Init
  /\ decisions = <<>>
  /\ slip = "NONE"
  /\ source = None
  /\ compared = <<>>

RunBaseline == BaselineBucket /\ UNCHANGED <<decisions, slip, source, compared>>

\* The decision is recorded with the observation it was made on.
Decide(p) ==
  /\ PlaceOrder(p) \/ OrderNothing(p)
  /\ decisions' = Append(decisions, Decision(Seen, p))
  /\ UNCHANGED <<slip, source, compared>>

RunBucket == AdvanceBucket /\ UNCHANGED <<decisions, slip, source, compared>>

\* The child is sealed; the comparison reads the baseline of the same run.
Seal ==
  /\ phase = "DONE" /\ source = None
  /\ source' = plan
  /\ compared' = PsiRows(baseline, plan)
  /\ UNCHANGED <<vars, decisions, slip>>

\* The slips, each a run of the program with one statement gone wrong.
LoseOrder(p) ==
  /\ phase = "DECIDE" /\ slip = "NONE"
  /\ ValidateAction(plan, Seen, p).accepted > 0
  /\ decisions' = Append(decisions, Decision(Seen, p))
  /\ slip' = "ORDER_LOST"
  /\ phase' = "ADVANCE"
  /\ UNCHANGED <<plan, baseline, rows, pending, orders, source, compared>>

DecideOnStaleView(p) ==
  LET stale == [Seen EXCEPT !.pending.recommended = [b \in Bucket |-> 0]]
      v == ValidateAction(plan, stale, p)
  IN /\ phase = "DECIDE" /\ slip = "NONE" /\ stale # Seen
     /\ decisions' = Append(decisions, Decision(stale, p))
     /\ pending' = IF v.accepted > 0 THEN AddSupply(pending, v.arrival, v.accepted)
                                     ELSE pending
     /\ slip' = "STALE_VIEW"
     /\ phase' = "ADVANCE"
     /\ UNCHANGED <<plan, baseline, rows, orders, source, compared>>

\* Supply of the current bucket that is carried into the next one.
Carried(supply) == [supply EXCEPT ![Week + 1] = @ + supply[Week], ![Week] = 0]

\* The bucket is advanced, but from another stock, or with supply kept back.
AdvanceWrongly(kind, stock, kept) ==
  /\ phase = "ADVANCE" /\ slip = "NONE"
  /\ rows' = Append(rows, Advance(stock, plan.demand[Week], pending.confirmed[Week],
                                  pending.recommended[Week]))
  /\ pending' = kept
  /\ slip' = kind
  /\ phase' = IF Week = Horizon THEN "DONE" ELSE "DECIDE"
  /\ UNCHANGED <<plan, baseline, orders, decisions, source, compared>>

ReopenStock ==
  plan.stock # Current /\ AdvanceWrongly("STOCK_REOPENED", plan.stock, DropSupply(pending, Week))
KeepSupply ==
  Week < Horizon /\ Pending(Week) > 0
    /\ AdvanceWrongly("SUPPLY_KEPT", Current,
         [confirmed |-> Carried(pending.confirmed), recommended |-> Carried(pending.recommended)])

\* The baseline projection of an input.
BaselineOf(input) ==
  LET stock[b \in 0..Horizon] ==
        IF b = 0 THEN input.stock
        ELSE LET r == Advance(stock[b - 1], input.demand[b], input.receipt[b], 0)
             IN [available |-> r.eoh, reserved |-> input.stock.reserved,
                 backorder |-> r.backorderClose]
  IN [b \in Bucket |-> Advance(stock[b - 1], input.demand[b], input.receipt[b], 0)]

\* Another input that differs from the plan in one part.
Neighbour(other) == \E f \in DOMAIN plan : other = [plan EXCEPT ![f] = other[f]]

\* The child is sealed with another input, or compared with a baseline of one.
SealOther(other) ==
  /\ phase = "DONE" /\ source = None /\ slip = "NONE"
  /\ other # plan /\ Neighbour(other)
  /\ \/ /\ source' = other /\ slip' = "OTHER_SOURCE"
        /\ compared' = PsiRows(baseline, plan)
     \/ /\ source' = plan /\ slip' = "OTHER_BASELINE"
        /\ compared' = PsiRows(BaselineOf(other), other)
  /\ UNCHANGED <<vars, decisions>>

RunFails == StrategyFails /\ UNCHANGED <<decisions, slip, source, compared>>

EvidenceNext ==
  \/ RunBaseline
  \/ \E p \in Proposals : Decide(p) \/ LoseOrder(p) \/ DecideOnStaleView(p)
  \/ RunFails
  \/ RunBucket
  \/ ReopenStock
  \/ KeepSupply
  \/ Seal
  \/ \E other \in Plans : SealOther(other)

EvidenceSpec == EvidenceInit /\ [][EvidenceNext]_evidenceVars

-----------------------------------------------------------------------------
(* Properties.                                                              *)

\* What the program computes from an input when the strategy makes these
\* proposals: the definition the check is compared with.
Computed(src, proposals) ==
  LET run[w \in 0..Horizon] ==
        IF w = 0
        THEN [stock |-> src.stock, decisions |-> <<>>, rows |-> <<>>,
              pending |-> [confirmed |-> src.receipt,
                           recommended |-> [b \in Bucket |-> 0]]]
        ELSE LET before == run[w - 1]
                 o == [week |-> w, stock |-> before.stock, pending |-> before.pending]
                 v == ValidateAction(src, o, proposals[w])
                 supply == IF v.accepted > 0
                           THEN AddSupply(before.pending, v.arrival, v.accepted)
                           ELSE before.pending
                 r == Advance(before.stock, src.demand[w], supply.confirmed[w],
                              supply.recommended[w])
             IN [stock |-> [available |-> r.eoh, reserved |-> src.stock.reserved,
                            backorder |-> r.backorderClose],
                 decisions |-> Append(before.decisions,
                                 [observation |-> o, proposal |-> proposals[w],
                                  validation |-> v]),
                 rows |-> Append(before.rows, r),
                 pending |-> DropSupply(supply, w)]
  IN run[Horizon]

\* Two programs written apart agree: whatever the strategy proposes, the
\* evidence of a projection that ran without a slip passes the check, can be
\* compared with its baseline, and names exactly the orders that were placed.
\* build_psi_child_artifact raises otherwise, and the whole Run fails.
HonestIsSealed ==
  source # None /\ slip = "NONE" =>
    /\ Comparable
    /\ orders = {[placed |-> w, arrival |-> decisions[w].validation.arrival,
                  quantity |-> decisions[w].validation.accepted] :
                   w \in {w \in Bucket : decisions[w].validation.accepted > 0}}

\* What passes the check was computed from the source it is sealed with: no
\* slip gets through unless it made no difference.  Readers rely on this: they
\* never run the projection again (validate_psi_child_build).
AcceptedIsComputed ==
  source # None =>
    (ChildValid(Child) =>
       LET computed == Computed(source, [w \in Bucket |-> decisions[w].proposal])
       IN /\ Child.psi = PsiRows(computed.rows, source)
          /\ decisions = computed.decisions)

\* A comparison that is answered compares like with like: the recommendation
\* never serves less of the demand in time, owes more or leaves less stock
\* than the baseline named beside it.
ComparisonNeverAdverse ==
  Comparable =>
    /\ Comparison.service # None => Comparison.service >= 0
    /\ Comparison.backorder <= 0
    /\ Comparison.available >= 0 /\ Comparison.onHand = Comparison.available
=============================================================================
