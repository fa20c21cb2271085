------------------------------ MODULE PsiPlanning ------------------------------
(***************************************************************************)
(* The weekly stock projection of ONE item: the baseline of                 *)
(* RunPsiSimulationUseCase, then the recommended projection of              *)
(* RunRecommendedPsiUseCase over the same prepared input, in the order      *)
(* PsiRunOrchestrator.execute runs them.  No state crosses items            *)
(* (recommend_replenishment/application/partition.py), so one item stands   *)
(* for each of them.                                                        *)
(*                                                                          *)
(* Quantities are naturals in the smallest planning unit of the item; dates *)
(* are days counted from the first day of the plan.  The strategy is any    *)
(* program: mathematical, learned or wrong.  It proposes, and the shared    *)
(* guard decides.  What it may raise ends the projection.  Reason codes,    *)
(* hashes and evidence are left out.                                        *)
(***************************************************************************)
EXTENDS StockStep, Sequences, FiniteSets, Functions

CONSTANTS
  Horizon,      \* number of buckets of the plan calendar
  Start,        \* first day of each bucket
  Plans,        \* prepared inputs and controls the projection may be given
  Proposals,    \* [action, quantity] a strategy may propose
  NoCap         \* a policy row without physical_max_capacity

Bucket == 1..Horizon
Action == {"HOLD", "ORDER_QTY", "ORDER_UP_TO"}

\* The policy row whose dates contain the first day of a bucket.
Policy == [lead : Nat, multiple : Nat \ {0}, moq : Nat, cap : Nat \cup {NoCap}]
Plan   == [stock : Stock, demand : [Bucket -> Demand], receipt : [Bucket -> Nat],
           policy : [Bucket -> Policy], orderDates : SUBSET Bucket, maxOrder : Nat,
           minTarget : Nat, maxTarget : Nat, allowed : SUBSET Action]

\* Buckets are 1 to 7 days long and follow each other (validate_calendar).
ASSUME CalendarAssumption ==
  /\ Horizon \in Nat \ {0}
  /\ Start \in [Bucket -> Nat]
  /\ \A b, c \in Bucket : c = b + 1 => Start[c] - Start[b] \in 1..7

ASSUME PlanAssumption == Plans \subseteq Plan

\* A HOLD carries no quantity (ReplenishmentProposal.from_dict).
ASSUME ProposalAssumption ==
  /\ Proposals \subseteq [action : Action, quantity : Nat]
  /\ \A p \in Proposals : p.action = "HOLD" => p.quantity = 0

VARIABLES
  plan,         \* the prepared input
  phase,        \* BASELINE, DECIDE, ADVANCE, DONE or FAILED
  baseline,     \* rows of the baseline projection so far
  rows,         \* rows of the recommended projection so far
  pending,      \* supply not yet received, by kind and receipt bucket
  orders        \* recommended orders

vars == <<plan, phase, baseline, rows, pending, orders>>

-----------------------------------------------------------------------------
(* The stock a projection stands at.                                        *)

\* The state a projection is in after the rows it has produced.
StockAfter(s) ==
  IF s = <<>> THEN plan.stock
  ELSE [available |-> s[Len(s)].eoh, reserved |-> plan.stock.reserved,
        backorder |-> s[Len(s)].backorderClose]

\* The bucket the recommended projection is in.
Week == Len(rows) + 1
Current == StockAfter(rows)

-----------------------------------------------------------------------------
(* The pending ledger and the guard.                                        *)

Total(f, S) == SumFunctionOnSet(f, S)

\* Running totals of a quantity per bucket.
RunningTotal(f) ==
  LET total[b \in 0..Horizon] == IF b = 0 THEN 0 ELSE total[b - 1] + f[b]
  IN total

Pending(b) == pending.confirmed[b] + pending.recommended[b]
PendingTo(b) == RunningTotal([c \in Bucket |-> Pending(c)])[b]

\* Defect: the position forgets what is under way.
InventoryPositionOnHand == Current.available - Current.backorder

InventoryPosition ==
  Current.available + PendingTo(Horizon) - Current.backorder

\* The buckets that open on or after the due date of an order placed now.
ArrivalBuckets ==
  {b \in Bucket : Start[b] >= Start[Week] + plan.policy[Week].lead}
Arrival == CHOOSE b \in ArrivalBuckets : \A c \in ArrivalBuckets : b <= c

\* Stock and supply present by a bucket, when no demand takes any of it.
Committed(b) == Current.available + Current.reserved + PendingTo(b)

\* Defect: the cap is read in the arrival bucket alone.
FitsCapacityOnArrival(q) ==
  plan.policy[Arrival].cap # NoCap => Committed(Arrival) + q <= plan.policy[Arrival].cap

\* Every cap from the arrival on leaves room for the quantity.
FitsCapacity(q) ==
  \A b \in Arrival..Horizon :
    plan.policy[b].cap # NoCap => Committed(b) + q <= plan.policy[b].cap

\* What a proposal asks for before lots and limits.
Raw(p) == IF p.action = "ORDER_UP_TO" THEN Most(0, p.quantity - InventoryPosition)
                                      ELSE p.quantity

Approved(p) ==
  /\ p.action \in plan.allowed
  /\ p.action = "ORDER_UP_TO" => p.quantity \in plan.minTarget..plan.maxTarget

\* The lots that cover the need, or as many of them as the limits admit.
FitsLimits(q) == q <= plan.maxOrder /\ FitsCapacity(q)
LotsAccepted(p, n) ==
  LET lot == plan.policy[Week].multiple
      need == Most(plan.policy[Week].moq, Raw(p))
  IN /\ FitsLimits(n * lot)
     /\ (n - 1) * lot < need
     /\ n * lot < need => ~FitsLimits((n + 1) * lot)

\* The guard accepts these lots of the proposal.
Accepts(p, n) ==
  /\ Approved(p)
  /\ Raw(p) > 0
  /\ Week \in plan.orderDates
  /\ ArrivalBuckets # {}
  /\ LotsAccepted(p, n)
  /\ n * plan.policy[Week].multiple >= plan.policy[Week].moq

\* Defect: an order replaces the supply already due in its bucket.
AddSupplyReplacing(l, b, q) == [l EXCEPT !.confirmed[b] = 0, !.recommended[b] = q]

\* Supply of an accepted order joins what is due in its bucket.
AddSupply(l, b, q) == [l EXCEPT !.recommended[b] = @ + q]

\* The supply of a bucket leaves the ledger once received.
DropSupply(l, b) == [l EXCEPT !.confirmed[b] = 0, !.recommended[b] = 0]

-----------------------------------------------------------------------------
(* The projections.                                                         *)

Init ==
  /\ plan \in Plans
  /\ phase = "BASELINE"
  /\ baseline = <<>>
  /\ rows = <<>>
  /\ pending = [confirmed |-> plan.receipt, recommended |-> [b \in Bucket |-> 0]]
  /\ orders = {}

BaselineBucket ==
  /\ phase = "BASELINE"
  /\ LET b == Len(baseline) + 1
     IN /\ baseline' = Append(baseline, Advance(StockAfter(baseline),
                                                plan.demand[b], plan.receipt[b], 0))
        /\ phase' = IF b = Horizon THEN "DECIDE" ELSE "BASELINE"
  /\ UNCHANGED <<plan, rows, pending, orders>>

\* The strategy proposes and the guard accepts an order.
PlaceOrder(p) ==
  /\ phase = "DECIDE"
  /\ \E n \in 1..plan.maxOrder :
       LET q == n * plan.policy[Week].multiple
       IN /\ Accepts(p, n)
          /\ orders' = orders \cup {[placed |-> Week, arrival |-> Arrival, quantity |-> q]}
          /\ pending' = AddSupply(pending, Arrival, q)
  /\ phase' = "ADVANCE"
  /\ UNCHANGED <<plan, baseline, rows>>

\* The proposal orders nothing, or the guard rejects it.
OrderNothing(p) ==
  /\ phase = "DECIDE"
  /\ \A n \in 1..plan.maxOrder : ~Accepts(p, n)
  /\ phase' = "ADVANCE"
  /\ UNCHANGED <<plan, baseline, rows, pending, orders>>

\* The strategy raises, or answers for another decision: nothing is returned.
StrategyFails ==
  /\ phase = "DECIDE"
  /\ phase' = "FAILED"
  /\ rows' = <<>>
  /\ orders' = {}
  /\ UNCHANGED <<plan, baseline, pending>>

AdvanceBucket ==
  /\ phase = "ADVANCE"
  /\ rows' = Append(rows, Advance(Current, plan.demand[Week],
                                  pending.confirmed[Week], pending.recommended[Week]))
  /\ pending' = DropSupply(pending, Week)
  /\ phase' = IF Week = Horizon THEN "DONE" ELSE "DECIDE"
  /\ UNCHANGED <<plan, baseline, orders>>

Next ==
  \/ BaselineBucket
  \/ \E p \in Proposals : PlaceOrder(p) \/ OrderNothing(p)
  \/ StrategyFails
  \/ AdvanceBucket

Spec == Init /\ [][Next]_vars

-----------------------------------------------------------------------------
(* Properties.                                                              *)

\* Rows hold quantities that are never negative, in every bucket, and the
\* ledger and the orders name buckets of the calendar.
TypeOK ==
  /\ plan \in Plans
  /\ phase \in {"BASELINE", "DECIDE", "ADVANCE", "DONE", "FAILED"}
  /\ baseline \in Seq(Row) /\ Len(baseline) <= Horizon
  /\ rows \in Seq(Row) /\ Len(rows) <= Horizon
  /\ pending \in [confirmed : [Bucket -> Nat], recommended : [Bucket -> Nat]]
  /\ orders \subseteq [placed : Bucket, arrival : Bucket, quantity : Nat \ {0}]

\* "Every accepted order is within the horizon and has been simulated exactly
\* once" (recommend_replenishment/application/run.py): a bucket receives the
\* orders due in it and the confirmed supply of the plan, and the finished
\* projection has nothing left to receive.
OrdersReceivedOnce ==
  LET due(b) == {o \in orders : o.arrival = b}
  IN /\ \A b \in DOMAIN rows :
          /\ rows[b].recommended = Total([o \in due(b) |-> o.quantity], due(b))
          /\ rows[b].inbound = plan.receipt[b]
     /\ phase = "DONE" => \A b \in Bucket : Pending(b) = 0
     /\ phase = "DONE" => \A o \in orders : o.arrival \in DOMAIN rows

\* How far the stock of a bucket exceeds its cap before any demand is served.
CapacityExcess(b) ==
  LET cap == plan.policy[b].cap
  IN IF cap = NoCap THEN 0
     ELSE Most(0, rows[b].available + plan.stock.reserved - cap)

\* A recommended order never takes part in an excess over the physical
\* capacity: a bucket over its cap has received no recommended order, in it or
\* before it.  The guard commits space for the whole rest of the horizon
\* ("including future effective cap reductions"), so an order cannot fill the
\* space a later reduction takes away.
ExcessNeverRecommended ==
  \A b \in DOMAIN rows :
    CapacityExcess(b) > 0 => \A c \in 1..b : rows[c].recommended = 0

\* What entered the stock since the plan opened is still there or was issued,
\* and what customers ordered was delivered or is owed.  A forecast that was
\* not met is never owed.
LedgerBalances ==
  \A s \in {baseline, rows} :
    LET sum(f) == Total(f, DOMAIN s)
    IN /\ plan.stock.available + sum([b \in DOMAIN s |-> s[b].inbound + s[b].recommended])
            = StockAfter(s).available
              + sum([b \in DOMAIN s |-> s[b].fulfilledOrder + s[b].fulfilledForecast])
       /\ plan.stock.backorder + sum([b \in DOMAIN s |-> plan.demand[b].order])
            = StockAfter(s).backorder + sum([b \in DOMAIN s |-> s[b].fulfilledOrder])

\* Whatever the strategy proposes, the recommended projection serves customers
\* at least as well as the baseline it is compared with: in no bucket is more
\* owed, more forecast missed or less left in stock.
NeverWorseThanBaseline ==
  \A b \in DOMAIN rows :
    /\ rows[b].eoh >= baseline[b].eoh
    /\ rows[b].backorderClose <= baseline[b].backorderClose
    /\ rows[b].shortage <= baseline[b].shortage

\* The largest position a rounded order up to the largest target can reach.
LargestOrderUpTo ==
  CHOOSE m \in {plan.maxTarget + plan.policy[b].moq + plan.policy[b].multiple : b \in Bucket} :
    \A b \in Bucket : plan.maxTarget + plan.policy[b].moq + plan.policy[b].multiple <= m

\* Orders already under way count: when quantities may not be ordered directly,
\* repeated ORDER_UP_TO decisions never lift the inventory position above the
\* approved target by more than one order's rounding.
PipelineBounded ==
  phase # "FAILED" /\ "ORDER_QTY" \notin plan.allowed =>
    InventoryPosition <=
      Most(LargestOrderUpTo,
           plan.stock.available + Total(plan.receipt, Bucket) - plan.stock.backorder)

\* The supply of a projection is accounted for, from the moment it has a plan: every
\* order is received once, stock and demand balance, the pipeline does not grow beyond
\* its target, and no order takes part in an excess over the physical capacity.
SupplyAccounted ==
  phase # "WAITING" =>
    OrdersReceivedOnce /\ LedgerBalances /\ PipelineBounded /\ ExcessNeverRecommended
=============================================================================
