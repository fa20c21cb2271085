----------------------------- MODULE RunCostProofs -----------------------------
(***************************************************************************)
(* Proofs about what is sealed of a projection and of the costs of its      *)
(* orders, on top of those about the projection: what the check of a sealed *)
(* child establishes about it and about its comparison with the baseline,   *)
(* what a later read finds of a Run that was priced, what the shares of a   *)
(* shipment add up to and how many orders its saving accounts for.          *)
(***************************************************************************)
EXTENDS RunCost, PsiPlanningProofs

-----------------------------------------------------------------------------
(* The evidence of a projection.                                            *)

\* The positions of a sequence are finite in number.
LEMMA PositionsFinite == ASSUME NEW n \in Nat PROVE IsFiniteSet(1..n)
<1>1. 1 \in Int /\ n \in Int
  OBVIOUS
<1> QED BY <1>1, FS_Interval

\* Integers may add up below zero, but keep the order of what is added.
LEMMA RunningTotalMonotone ==
  ASSUME NEW f \in [Bucket -> Int], NEW g \in [Bucket -> Int],
         \A b \in Bucket : f[b] <= g[b]
  PROVE  /\ RunningTotal(f)[Horizon] \in Int /\ RunningTotal(g)[Horizon] \in Int
         /\ RunningTotal(f)[Horizon] <= RunningTotal(g)[Horizon]
<1> DEFINE S == {n \in Nat : n <= Horizon =>
                   /\ RunningTotal(f)[n] \in Int /\ RunningTotal(g)[n] \in Int
                   /\ RunningTotal(f)[n] <= RunningTotal(g)[n]}
<1>1. 0 \in S
  BY RunningTotalDef
<1>2. ASSUME NEW n \in Nat, n \in S
      PROVE  n + 1 \in S
  <2>1. CASE n + 1 <= Horizon
    <3>1. n + 1 \in Bucket /\ (n + 1) - 1 = n
      BY <2>1, CalendarAssumption DEF Bucket
    <3>2. /\ RunningTotal(f)[n + 1] = RunningTotal(f)[n] + f[n + 1]
          /\ RunningTotal(g)[n + 1] = RunningTotal(g)[n] + g[n + 1]
      BY <3>1, RunningTotalDef
    <3>3. /\ RunningTotal(f)[n] \in Int /\ RunningTotal(g)[n] \in Int
          /\ RunningTotal(f)[n] <= RunningTotal(g)[n]
          /\ f[n + 1] \in Int /\ g[n + 1] \in Int /\ f[n + 1] <= g[n + 1]
      BY <1>2, <2>1, <3>1, CalendarAssumption
    <3> QED BY <3>2, <3>3
  <2>2. CASE ~ (n + 1 <= Horizon)
    BY <2>2
  <2> QED BY <2>1, <2>2
<1>3. Nat \subseteq S
  <2> HIDE DEF S
  <2> QED BY <1>1, <1>2, Induction
<1> QED BY <1>3, CalendarAssumption

-----------------------------------------------------------------------------
(* Comparisons.                                                             *)

\* A sealed row, whatever went wrong before it was sealed.
SealedRow == [boh : Int, reserved : Int, onHandOpen : Int, confirmed : Int,
              recommended : Nat, available : Int, backorderOpen : Int, order : Nat,
              forecast : Nat, fulfilledBacklog : Int, fulfilledOrder : Int,
              fulfilledForecast : Int, eoh : Int, onHandClose : Int,
              backorderClose : Int, shortage : Int, excess : Int]

\* What RollsForward asks of a row on its own.
Balanced(r) ==
  /\ r.onHandOpen = r.boh + r.reserved
  /\ r.available = r.boh + r.confirmed + r.recommended
  /\ r.available = r.eoh + r.fulfilledBacklog + r.fulfilledOrder + r.fulfilledForecast
  /\ r.onHandClose = r.eoh + r.reserved
  /\ r.backorderOpen + r.order = r.backorderClose + r.fulfilledBacklog + r.fulfilledOrder
  /\ r.shortage = r.forecast - r.fulfilledForecast
  /\ r.fulfilledBacklog = Least(r.available, r.backorderOpen)
  /\ r.fulfilledOrder = Least(r.available - r.fulfilledBacklog, r.order)
  /\ r.fulfilledForecast
       = Least(r.available - r.fulfilledBacklog - r.fulfilledOrder, r.forecast)

\* One week that opens at least as well closes at least as well.
LEMMA WeekMonotone ==
  ASSUME NEW r \in SealedRow, NEW s \in SealedRow, Balanced(r), Balanced(s),
         r.order = s.order, r.forecast = s.forecast, r.confirmed = s.confirmed,
         r.recommended = 0, r.boh <= s.boh, s.backorderOpen <= r.backorderOpen
  PROVE  /\ r.eoh <= s.eoh /\ s.backorderClose <= r.backorderClose
         /\ r.fulfilledOrder + r.fulfilledForecast <= s.fulfilledOrder + s.fulfilledForecast
<1>1. /\ r.boh \in Int /\ r.confirmed \in Int /\ r.backorderOpen \in Int /\ r.order \in Nat
      /\ r.forecast \in Nat /\ r.available \in Int /\ r.fulfilledBacklog \in Int
      /\ r.fulfilledOrder \in Int /\ r.fulfilledForecast \in Int /\ r.eoh \in Int
      /\ r.backorderClose \in Int
      /\ s.boh \in Int /\ s.confirmed \in Int /\ s.backorderOpen \in Int /\ s.order \in Nat
      /\ s.forecast \in Nat /\ s.available \in Int /\ s.fulfilledBacklog \in Int
      /\ s.fulfilledOrder \in Int /\ s.fulfilledForecast \in Int /\ s.eoh \in Int
      /\ s.backorderClose \in Int /\ s.recommended \in Nat
  BY DEF SealedRow
<1>2. /\ r.fulfilledBacklog = Least(r.available, r.backorderOpen)
      /\ s.fulfilledBacklog = Least(s.available, s.backorderOpen)
      /\ r.fulfilledOrder = Least(r.available - r.fulfilledBacklog, r.order)
      /\ s.fulfilledOrder = Least(s.available - s.fulfilledBacklog, r.order)
      /\ r.fulfilledForecast
           = Least(r.available - r.fulfilledBacklog - r.fulfilledOrder, r.forecast)
      /\ s.fulfilledForecast
           = Least(s.available - s.fulfilledBacklog - s.fulfilledOrder, r.forecast)
  BY DEF Balanced
<1>3. r.available <= s.available
  BY <1>1 DEF Balanced
<1>4. /\ r.available - r.fulfilledBacklog <= s.available - s.fulfilledBacklog
      /\ s.backorderOpen - s.fulfilledBacklog <= r.backorderOpen - r.fulfilledBacklog
  <2>1. /\ r.available - Least(r.available, r.backorderOpen)
             <= s.available - Least(s.available, s.backorderOpen)
        /\ s.backorderOpen - Least(s.available, s.backorderOpen)
             <= r.backorderOpen - Least(r.available, r.backorderOpen)
    BY <1>1, <1>3, LeastLeaves
  <2> QED BY <1>2, <2>1
<1>5. /\ r.fulfilledOrder <= s.fulfilledOrder
      /\ r.available - r.fulfilledBacklog - r.fulfilledOrder
           <= s.available - s.fulfilledBacklog - s.fulfilledOrder
  <2> DEFINE x == r.available - r.fulfilledBacklog
             y == s.available - s.fulfilledBacklog
  <2>1. x \in Int /\ y \in Int /\ x <= y /\ r.order \in Int
    BY <1>1, <1>4
  <2> HIDE DEF x, y
  <2>2. Least(x, r.order) <= Least(y, r.order) /\ x - Least(x, r.order) <= y - Least(y, r.order)
    BY <2>1, LeastLeaves
  <2> QED BY <1>2, <2>2 DEF x, y
<1>6. /\ r.fulfilledForecast <= s.fulfilledForecast
      /\ r.available - r.fulfilledBacklog - r.fulfilledOrder - r.fulfilledForecast
           <= s.available - s.fulfilledBacklog - s.fulfilledOrder - s.fulfilledForecast
  <2> DEFINE x == r.available - r.fulfilledBacklog - r.fulfilledOrder
             y == s.available - s.fulfilledBacklog - s.fulfilledOrder
  <2>1. x \in Int /\ y \in Int /\ x <= y /\ r.forecast \in Int
    BY <1>1, <1>5
  <2> HIDE DEF x, y
  <2>2. /\ Least(x, r.forecast) <= Least(y, r.forecast)
        /\ x - Least(x, r.forecast) <= y - Least(y, r.forecast)
    BY <2>1, LeastLeaves
  <2> QED BY <1>2, <2>2 DEF x, y
<1>7. r.eoh <= s.eoh
  BY <1>1, <1>6 DEF Balanced
<1>8. s.backorderClose <= r.backorderClose
  BY <1>1, <1>4, <1>5 DEF Balanced
<1> QED BY <1>1, <1>5, <1>6, <1>7, <1>8

\* The rows of a child, one by one and from week to week.
LEMMA RowsRollForward ==
  ASSUME NEW psi \in [Bucket -> SealedRow], RollsForward(psi)
  PROVE  /\ \A b \in Bucket : Balanced(psi[b])
         /\ \A b \in Bucket : b > 1 => /\ psi[b].boh = psi[b - 1].eoh
                                       /\ psi[b].backorderOpen = psi[b - 1].backorderClose
                                       /\ psi[b].reserved = psi[b - 1].reserved
BY DEF RollsForward, Balanced

\* Against the same outside world no week of a candidate is worse than the
\* same week of a child that orders nothing.
LEMMA WeeksCompared ==
  ASSUME NEW base \in [Bucket -> SealedRow], NEW candidate \in [Bucket -> SealedRow],
         RollsForward(base), RollsForward(candidate), SameOutside(base, candidate),
         \A b \in Bucket : base[b].recommended = 0
  PROVE  \A b \in Bucket :
           /\ base[b].eoh <= candidate[b].eoh
           /\ candidate[b].backorderClose <= base[b].backorderClose
           /\ base[b].fulfilledOrder + base[b].fulfilledForecast
                <= candidate[b].fulfilledOrder + candidate[b].fulfilledForecast
           /\ base[b].reserved = candidate[b].reserved
<1> DEFINE Opens(b) == /\ base[b].boh <= candidate[b].boh
                       /\ candidate[b].backorderOpen <= base[b].backorderOpen
                       /\ base[b].reserved = candidate[b].reserved
           S == {n \in Nat : n + 1 <= Horizon => Opens(n + 1)}
<1>1. \A b \in Bucket : Balanced(base[b]) /\ Balanced(candidate[b])
  BY RowsRollForward
<1>2. ASSUME NEW b \in Bucket, Opens(b)
      PROVE  /\ base[b].eoh <= candidate[b].eoh
             /\ candidate[b].backorderClose <= base[b].backorderClose
             /\ base[b].fulfilledOrder + base[b].fulfilledForecast
                  <= candidate[b].fulfilledOrder + candidate[b].fulfilledForecast
  <2>1. base[b] \in SealedRow /\ candidate[b] \in SealedRow
    OBVIOUS
  <2>2. /\ base[b].order = candidate[b].order /\ base[b].forecast = candidate[b].forecast
        /\ base[b].confirmed = candidate[b].confirmed
    BY DEF SameOutside
  <2> QED BY <1>1, <1>2, <2>1, <2>2, WeekMonotone
<1>3. 0 \in S
  <2>1. 1 \in Bucket
    BY HorizonType DEF Bucket
  <2>2. base[1] \in SealedRow /\ candidate[1] \in SealedRow
    BY <2>1
  <2>3. Opens(1)
    BY <2>2 DEF SameOutside, SealedRow
  <2> QED BY <2>3
<1>4. ASSUME NEW n \in Nat, n \in S
      PROVE  n + 1 \in S
  <2>1. CASE n + 2 <= Horizon
    <3>1. n + 1 \in Bucket /\ n + 2 \in Bucket /\ n + 2 > 1 /\ (n + 2) - 1 = n + 1
      BY <2>1, HorizonType DEF Bucket
    <3>2. Opens(n + 1)
      BY <1>4, <3>1, HorizonType DEF Bucket
    <3>3. /\ base[n + 2].boh = base[n + 1].eoh /\ candidate[n + 2].boh = candidate[n + 1].eoh
          /\ base[n + 2].backorderOpen = base[n + 1].backorderClose
          /\ candidate[n + 2].backorderOpen = candidate[n + 1].backorderClose
          /\ base[n + 2].reserved = base[n + 1].reserved
          /\ candidate[n + 2].reserved = candidate[n + 1].reserved
      BY <3>1, RowsRollForward
    <3>4. Opens(n + 2)
      BY <1>2, <3>1, <3>2, <3>3
    <3>5. (n + 1) + 1 = n + 2
      OBVIOUS
    <3> QED BY <3>4, <3>5
  <2>2. CASE ~ (n + 2 <= Horizon)
    BY <2>2, HorizonType
  <2> QED BY <2>1, <2>2
<1>5. Nat \subseteq S
  <2> HIDE DEF S
  <2> QED BY <1>3, <1>4, Induction
<1>6. ASSUME NEW b \in Bucket
      PROVE  Opens(b)
  <2>1. b - 1 \in Nat /\ (b - 1) + 1 = b /\ b <= Horizon
    BY HorizonType DEF Bucket
  <2>2. b - 1 \in S
    BY <1>5, <2>1
  <2> QED BY <2>1, <2>2
<1> QED BY <1>2, <1>6

\* The metrics of the children compared.
LEMMA MetricsCompared ==
  ASSUME NEW base \in [Bucket -> SealedRow], NEW candidate \in [Bucket -> SealedRow],
         RollsForward(base), RollsForward(candidate), SameOutside(base, candidate),
         \A b \in Bucket : base[b].recommended = 0
  PROVE  LET x == Summarize(base)
             y == Summarize(candidate)
         IN /\ x.demand \in Nat /\ x.demand = y.demand
            /\ x.onTime \in Int /\ y.onTime \in Int /\ x.onTime <= y.onTime
            /\ x.backorder \in Int /\ y.backorder \in Int /\ y.backorder <= x.backorder
            /\ x.eoh \in Int /\ y.eoh \in Int /\ x.eoh <= y.eoh
            /\ x.onHand \in Int /\ y.onHand \in Int
            /\ y.onHand - x.onHand = y.eoh - x.eoh
<1> DEFINE asked(psi) == [b \in DOMAIN psi |-> psi[b].order + psi[b].forecast]
           served(psi) == [b \in DOMAIN psi |-> psi[b].fulfilledOrder + psi[b].fulfilledForecast]
<1>1. Horizon \in Bucket
  BY HorizonType DEF Bucket
<1>2. \A b \in Bucket : base[b] \in SealedRow /\ candidate[b] \in SealedRow
  OBVIOUS
<1>3. asked(base) \in [Bucket -> Nat] /\ asked(base) = asked(candidate)
  <2>1. \A b \in Bucket : /\ base[b].order \in Nat /\ base[b].forecast \in Nat
                          /\ base[b].order = candidate[b].order
                          /\ base[b].forecast = candidate[b].forecast
    BY <1>2 DEF SealedRow, SameOutside
  <2> QED BY <2>1
<1>4. /\ served(base) \in [Bucket -> Int] /\ served(candidate) \in [Bucket -> Int]
      /\ \A b \in Bucket : served(base)[b] <= served(candidate)[b]
  <2>1. \A b \in Bucket :
          /\ base[b].fulfilledOrder \in Int /\ base[b].fulfilledForecast \in Int
          /\ candidate[b].fulfilledOrder \in Int /\ candidate[b].fulfilledForecast \in Int
    BY <1>2 DEF SealedRow
  <2> QED BY <2>1, WeeksCompared
<1>5. RunningTotal(asked(base))[Horizon] \in Nat
  <2> HIDE DEF asked
  <2> QED BY <1>3, HorizonType, RunningTotalType
<1>6. /\ RunningTotal(served(base))[Horizon] \in Int
      /\ RunningTotal(served(candidate))[Horizon] \in Int
      /\ RunningTotal(served(base))[Horizon] <= RunningTotal(served(candidate))[Horizon]
  <2> HIDE DEF served
  <2> QED BY <1>4, RunningTotalMonotone
<1>7. /\ Summarize(base).demand = RunningTotal(asked(base))[Horizon]
      /\ Summarize(candidate).demand = RunningTotal(asked(candidate))[Horizon]
      /\ Summarize(base).onTime = RunningTotal(served(base))[Horizon]
      /\ Summarize(candidate).onTime = RunningTotal(served(candidate))[Horizon]
  BY DEF Summarize
<1>8. /\ Summarize(base).backorder = base[Horizon].backorderClose
      /\ Summarize(candidate).backorder = candidate[Horizon].backorderClose
      /\ Summarize(base).eoh = base[Horizon].eoh
      /\ Summarize(candidate).eoh = candidate[Horizon].eoh
      /\ Summarize(base).onHand = base[Horizon].onHandClose
      /\ Summarize(candidate).onHand = candidate[Horizon].onHandClose
  BY DEF Summarize
<1>9. /\ base[Horizon].eoh <= candidate[Horizon].eoh
      /\ candidate[Horizon].backorderClose <= base[Horizon].backorderClose
      /\ base[Horizon].reserved = candidate[Horizon].reserved
      /\ base[Horizon].onHandClose = base[Horizon].eoh + base[Horizon].reserved
      /\ candidate[Horizon].onHandClose = candidate[Horizon].eoh + candidate[Horizon].reserved
  BY <1>1, WeeksCompared, RowsRollForward DEF Balanced
<1>10. /\ base[Horizon].eoh \in Int /\ candidate[Horizon].eoh \in Int
       /\ base[Horizon].backorderClose \in Int /\ candidate[Horizon].backorderClose \in Int
       /\ base[Horizon].reserved \in Int /\ candidate[Horizon].reserved \in Int
  BY <1>1, <1>2 DEF SealedRow
<1> HIDE DEF asked, served
<1>11. /\ Summarize(base).demand \in Nat /\ Summarize(base).demand = Summarize(candidate).demand
       /\ Summarize(base).onTime \in Int /\ Summarize(candidate).onTime \in Int
       /\ Summarize(base).onTime <= Summarize(candidate).onTime
  BY <1>3, <1>5, <1>6, <1>7
<1> QED BY <1>8, <1>9, <1>10, <1>11

-----------------------------------------------------------------------------
(* What every run records and seals.                                        *)

Observation == [week : Bucket, stock : Stock, pending : Ledger]

\* What the guard makes of a proposal on what it is shown.
Judgments(input) ==
  {[observation |-> o, proposal |-> p, validation |-> ValidateAction(input, o, p)] :
     o \in Observation, p \in Proposals}

\* Whatever slips, a decision is the guard's on what was shown, and what is sealed
\* is the input and the rows of some run.
EvidenceTypes ==
  /\ Types
  /\ phase = "DONE" => Len(rows) = Horizon
  /\ decisions \in Seq(Judgments(plan))
  /\ source # None => phase = "DONE" /\ source \in Plans
  /\ source # None => compared \in [Bucket -> SealedRow]

\* The supply an observation shows as due is a number.
LEMMA DueByType ==
  ASSUME NEW o \in Observation, NEW b \in Bucket
  PROVE  DueBy(o, b) \in Nat
<1> DEFINE f == [c \in Bucket |-> o.pending.confirmed[c] + o.pending.recommended[c]]
<1>1. f \in [Bucket -> Nat]
  BY DEF Observation, Ledger
<1>2. b \in 0..Horizon
  BY HorizonType DEF Bucket
<1> HIDE DEF f
<1>3. RunningTotal(f)[b] \in Nat
  BY <1>1, <1>2, RunningTotalType
<1> QED BY <1>3 DEF DueBy, f

\* The least element of a set of naturals is one of them.
LEMMA MinOf ==
  ASSUME NEW S, S \subseteq Nat, S # {}
  PROVE  Min(S) \in S /\ \A k \in S : Min(S) <= k
BY LeastElement DEF Min

\* The room under the caps is a number where there is a cap.
LEMMA HeadroomType ==
  ASSUME NEW src \in Plan, NEW o \in Observation, NEW a \in Bucket
  PROVE  Headroom(src, o, a) \in Nat \cup {None}
<1> DEFINE capped == {b \in a..Horizon : src.policy[b].cap # NoCap}
           held(b) == o.stock.available + o.stock.reserved + DueBy(o, b)
           rooms == {Most(0, src.policy[b].cap - held(b)) : b \in capped}
<1>1. CASE capped = {}
  BY <1>1 DEF Headroom
<1>2. CASE capped # {}
  <2>1. ASSUME NEW b \in capped
        PROVE  Most(0, src.policy[b].cap - held(b)) \in Nat
    <3>1. b \in Bucket
      BY HorizonType DEF Bucket
    <3>2. src.policy[b].cap \in Nat
      BY <3>1 DEF Plan, Policy
    <3>3. held(b) \in Nat
      <4>1. DueBy(o, b) \in Nat
        BY <3>1, DueByType
      <4> QED BY <4>1 DEF Observation, Stock
    <3> HIDE DEF held
    <3> QED BY <3>2, <3>3 DEF Most
  <2>2. rooms \subseteq Nat /\ rooms # {}
    BY <1>2, <2>1
  <2>3. Min(rooms) \in Nat
    <3> HIDE DEF rooms
    <3> QED BY <2>2, MinOf
  <2> QED BY <1>2, <2>3 DEF Headroom
<1> QED BY <1>1, <1>2

\* The part of a validation every path fills in.
LEMMA UnplacedType ==
  ASSUME NEW o \in Observation, NEW p \in Proposals
  PROVE  Unplaced(o, p).raw \in Nat /\ Unplaced(o, p).position \in Int
<1>1. DueBy(o, Horizon) \in Nat
  BY DueByType, HorizonType DEF Bucket
<1>2. o.stock.available \in Nat /\ o.stock.backorder \in Nat /\ p.quantity \in Nat
  BY ProposalAssumption DEF Observation, Stock
<1>3. Position(o) \in Int
  BY <1>1, <1>2 DEF Position
<1>4. Most(0, p.quantity - Position(o)) \in Nat
  BY <1>2, <1>3 DEF Most
<1> QED BY <1>2, <1>3, <1>4 DEF Unplaced

\* A validation of an order that arrives in a bucket, before it is sized.
Dated(src, o, p, a) ==
  [Unplaced(o, p) EXCEPT !.due = Start[o.week] + src.policy[o.week].lead, !.arrival = a]

\* A validation before anything is placed.
Blank(position, raw, target) ==
  [position |-> position, raw |-> raw, rounded |-> 0, accepted |-> 0, uncovered |-> raw,
   due |-> None, arrival |-> None, headroom |-> None, target |-> target,
   status |-> "NO_ORDER", reasons |-> {}]

\* A validation read by its fields.
Reads(v, position, raw, rounded, accepted, uncovered, due, arrival, headroom,
      target, status, reasons) ==
  /\ v.position = position /\ v.raw = raw /\ v.rounded = rounded /\ v.accepted = accepted
  /\ v.uncovered = uncovered /\ v.due = due /\ v.arrival = arrival /\ v.headroom = headroom
  /\ v.target = target /\ v.status = status /\ v.reasons = reasons

\* What a proposal asks for, and the target a validation keeps of it.
Asked(o, p) == IF p.action = "ORDER_UP_TO" THEN Most(0, p.quantity - Position(o))
                                           ELSE p.quantity
TargetOf(p) == IF p.action = "ORDER_UP_TO" THEN p.quantity ELSE None

\* The updates of the sizing.
Roomed(d, rounded, room) == [d EXCEPT !.rounded = rounded, !.headroom = room]
Filled(d, accepted, uncovered, status, reasons) ==
  [d EXCEPT !.accepted = accepted, !.uncovered = uncovered, !.status = status,
            !.reasons = reasons]

\* What the sizing computes for an order that arrives in bucket a.
Limit(src, o, a) == LET room == Headroom(src, o, a)
                    IN IF room = None THEN src.maxOrder ELSE Least(src.maxOrder, room)
RoundedUp(src, o, raw) ==
  LET lot == src.policy[o.week].multiple
  IN ((Most(src.policy[o.week].moq, raw) + lot - 1) \div lot) * lot
Fitted(src, o, raw, a) ==
  LET lot == src.policy[o.week].multiple
  IN Least(RoundedUp(src, o, raw), (Limit(src, o, a) \div lot) * lot)
Adjustments(raw, rounded, accepted, due, opens) ==
  {r \in {"ROUND_UP", "REDUCTION", "ROUNDED_FORWARD"} :
     \/ r = "ROUND_UP" /\ rounded # raw
     \/ r = "REDUCTION" /\ accepted # rounded
     \/ r = "ROUNDED_FORWARD" /\ due # opens}
TooLittle(src, o, raw, a) ==
  Fitted(src, o, raw, a) <= 0 \/ Fitted(src, o, raw, a) < src.policy[o.week].moq

\* A new validation has only what the proposal asks for.
LEMMA UnplacedIsBlank ==
  ASSUME NEW o, NEW p
  PROVE  Unplaced(o, p) = Blank(Position(o), Asked(o, p), TargetOf(p))
BY Zenon DEF Unplaced, Blank, Asked, TargetOf

\* What dating an order, rejecting it and placing it make of it.
LEMMA DatedReads ==
  ASSUME NEW position, NEW raw, NEW target, NEW due, NEW a,
         NEW d, d = [Blank(position, raw, target) EXCEPT !.due = due, !.arrival = a]
  PROVE  Reads(d, position, raw, 0, 0, raw, due, a, None, target, "NO_ORDER", {})
BY DEF Blank, Reads

\* A rejection keeps what was filled in before it.
LEMMA RejectedReads ==
  ASSUME NEW position, NEW raw, NEW target, NEW due, NEW a, NEW rounded, NEW room, NEW why,
         NEW d, d = [Blank(position, raw, target) EXCEPT !.due = due, !.arrival = a]
  PROVE  Reads(Rejected(Roomed(d, rounded, room), why),
               position, raw, rounded, 0, raw, due, a, room, None, "REJECTED", {why})
BY DEF Rejected, Roomed, Blank, Reads

\* An acceptance fills in the rest.
LEMMA FilledReads ==
  ASSUME NEW position, NEW raw, NEW target, NEW due, NEW a, NEW rounded, NEW room,
         NEW accepted, NEW uncovered, NEW status, NEW reasons,
         NEW d, d = [Blank(position, raw, target) EXCEPT !.due = due, !.arrival = a]
  PROVE  Reads(Filled(Roomed(d, rounded, room), accepted, uncovered, status, reasons),
               position, raw, rounded, accepted, uncovered, due, a, room, target,
               status, reasons)
<1> DEFINE placed == Roomed(d, rounded, room)
<1>1. placed = [d EXCEPT !.rounded = rounded, !.headroom = room]
  BY Zenon DEF Roomed
<1>2. /\ DOMAIN placed = {"position", "raw", "rounded", "accepted", "uncovered", "due",
                          "arrival", "headroom", "target", "status", "reasons"}
      /\ placed.position = position /\ placed.raw = raw /\ placed.rounded = rounded
      /\ placed.due = due /\ placed.arrival = a /\ placed.headroom = room
      /\ placed.target = target
  <2> HIDE DEF placed
  <2> QED BY <1>1 DEF Blank
<1> HIDE DEF placed
<1> QED BY <1>2 DEF Filled, Reads, placed

\* The two ends of the sizing.
LEMMA SizedDef ==
  ASSUME NEW src, NEW o, NEW d
  PROVE  LET rounded  == RoundedUp(src, o, d.raw)
             fitted   == Fitted(src, o, d.raw, d.arrival)
             placed   == Roomed(d, rounded, Headroom(src, o, d.arrival))
             why      == Adjustments(d.raw, rounded, fitted, d.due, Start[d.arrival])
         IN Sized(src, o, d) =
              IF TooLittle(src, o, d.raw, d.arrival)
              THEN Rejected(placed, "NO_FEASIBLE_ORDER_QUANTITY")
              ELSE Filled(placed, fitted, Most(0, d.raw - fitted),
                          IF why = {} THEN "ACCEPTED" ELSE "ADJUSTED",
                          IF why = {} THEN {"CONSTRAINTS_PASSED"} ELSE why)
BY Zenon DEF Sized, Roomed, Filled, RoundedUp, Fitted, Adjustments, Limit, TooLittle

\* The sizing of an order, field by field.
LEMMA SizedReads ==
  ASSUME NEW src, NEW o, NEW p, NEW a
  PROVE  LET s       == Sized(src, o, Dated(src, o, p, a))
             raw     == Asked(o, p)
             due     == Start[o.week] + src.policy[o.week].lead
             rounded == RoundedUp(src, o, raw)
             fitted  == Fitted(src, o, raw, a)
             room    == Headroom(src, o, a)
             why     == Adjustments(raw, rounded, fitted, due, Start[a])
         IN \/ /\ TooLittle(src, o, raw, a)
               /\ Reads(s, Position(o), raw, rounded, 0, raw, due, a, room, None,
                        "REJECTED", {"NO_FEASIBLE_ORDER_QUANTITY"})
            \/ /\ ~ TooLittle(src, o, raw, a)
               /\ Reads(s, Position(o), raw, rounded, fitted, Most(0, raw - fitted),
                        due, a, room, TargetOf(p),
                        IF why = {} THEN "ACCEPTED" ELSE "ADJUSTED",
                        IF why = {} THEN {"CONSTRAINTS_PASSED"} ELSE why)
<1> DEFINE s       == Sized(src, o, Dated(src, o, p, a))
           raw     == Asked(o, p)
           due     == Start[o.week] + src.policy[o.week].lead
           rounded == RoundedUp(src, o, raw)
           fitted  == Fitted(src, o, raw, a)
           room    == Headroom(src, o, a)
           why     == Adjustments(raw, rounded, fitted, due, Start[a])
           d       == Dated(src, o, p, a)
           status  == IF why = {} THEN "ACCEPTED" ELSE "ADJUSTED"
           reasons == IF why = {} THEN {"CONSTRAINTS_PASSED"} ELSE why
           uncovered == Most(0, raw - fitted)
           placed  == Roomed(d, rounded, room)
<1>1. d = [Blank(Position(o), raw, TargetOf(p)) EXCEPT !.due = due, !.arrival = a]
  BY UnplacedIsBlank, Zenon DEF Dated
<1>2. s = Sized(src, o, d)
  OBVIOUS
<1> HIDE DEF d
<1>3. d.arrival = a /\ d.raw = raw /\ d.due = due
  <2>1. Reads(d, Position(o), raw, 0, 0, raw, due, a, None, TargetOf(p), "NO_ORDER", {})
    BY <1>1, DatedReads
  <2> QED BY <2>1, Zenon DEF Reads
<1>4. s = IF TooLittle(src, o, raw, a)
          THEN Rejected(placed, "NO_FEASIBLE_ORDER_QUANTITY")
          ELSE Filled(placed, fitted, uncovered, status, reasons)
  BY <1>2, <1>3, SizedDef, Zenon
<1> HIDE DEF raw, due, rounded, fitted, room, why, status, reasons, uncovered, s
<1>5. Reads(Rejected(placed, "NO_FEASIBLE_ORDER_QUANTITY"),
            Position(o), raw, rounded, 0, raw, due, a, room, None,
            "REJECTED", {"NO_FEASIBLE_ORDER_QUANTITY"})
  BY <1>1, RejectedReads
<1>6. Reads(Filled(placed, fitted, uncovered, status, reasons),
            Position(o), raw, rounded, fitted, uncovered, due, a, room, TargetOf(p),
            status, reasons)
  BY <1>1, FilledReads
<1> HIDE DEF placed
<1>7. \/ /\ TooLittle(src, o, raw, a)
         /\ Reads(s, Position(o), raw, rounded, 0, raw, due, a, room, None,
                  "REJECTED", {"NO_FEASIBLE_ORDER_QUANTITY"})
      \/ /\ ~ TooLittle(src, o, raw, a)
         /\ Reads(s, Position(o), raw, rounded, fitted, uncovered, due, a, room,
                  TargetOf(p), status, reasons)
  BY <1>4, <1>5, <1>6, Zenon
<1> QED BY <1>7, Zenon DEF raw, due, rounded, fitted, room, why, status, reasons,
                           uncovered, s

\* The quantities of a sizing.
LEMMA SizedQuantities ==
  ASSUME NEW src \in Plan, NEW o \in Observation, NEW raw \in Nat, NEW a \in Bucket
  PROVE  /\ Headroom(src, o, a) \in Nat \cup {None} /\ Limit(src, o, a) \in Nat
         /\ RoundedUp(src, o, raw) \in Int /\ Fitted(src, o, raw, a) \in Int
<1> DEFINE moq == src.policy[o.week].moq
           lot == src.policy[o.week].multiple
           limit == Limit(src, o, a)
           rounded == RoundedUp(src, o, raw)
<1>1. moq \in Nat /\ lot \in Nat \ {0} /\ src.maxOrder \in Nat
  BY DEF Plan, Policy, Observation
<1>2. Headroom(src, o, a) \in Nat \cup {None}
  BY HeadroomType
<1>3. limit \in Nat
  BY <1>1, <1>2 DEF Limit, Least
<1>4. Most(moq, raw) \in Nat
  BY <1>1 DEF Most
<1>5. rounded = ((Most(moq, raw) + lot - 1) \div lot) * lot
  BY Zenon DEF RoundedUp
<1>6. Fitted(src, o, raw, a) = Least(rounded, (limit \div lot) * lot)
  BY Zenon DEF Fitted
<1> HIDE DEF moq, lot, limit, rounded
<1>7. rounded \in Int /\ (limit \div lot) * lot \in Int
  BY <1>1, <1>3, <1>4, <1>5
<1>8. Fitted(src, o, raw, a) \in Int
  BY <1>6, <1>7 DEF Least
<1> QED BY <1>2, <1>3, <1>7, <1>8 DEF limit, rounded

\* What is sized and accepted has a quantity, and keeps its arrival.
LEMMA SizedPlaces ==
  ASSUME NEW src \in Plan, NEW o \in Observation, NEW p \in Proposals, NEW a \in Bucket
  PROVE  LET s == Sized(src, o, Dated(src, o, p, a))
         IN s.accepted \in Nat /\ (s.accepted > 0 => s.arrival = a)
<1> DEFINE s == Sized(src, o, Dated(src, o, p, a))
           raw == Asked(o, p)
           fitted == Fitted(src, o, raw, a)
<1>1. raw \in Nat
  <2>1. Unplaced(o, p).raw = raw
    BY UnplacedIsBlank DEF Blank
  <2> QED BY <2>1, UnplacedType
<1>2. \/ s.accepted = 0
      \/ ~ TooLittle(src, o, raw, a) /\ s.accepted = fitted /\ s.arrival = a
  <2>1. \/ \E q, u, r, x, y, z : Reads(s, q, u, r, 0, u, x, a, y, None, "REJECTED", z)
        \/ /\ ~ TooLittle(src, o, raw, a)
           /\ \E q, u, r, v, x, y, tt, st, z :
                Reads(s, q, u, r, fitted, v, x, a, y, tt, st, z)
    BY SizedReads, Zenon
  <2> HIDE DEF s, raw, fitted
  <2> QED BY <2>1, Zenon DEF Reads
<1>3. fitted \in Int
  BY <1>1, SizedQuantities
<1>4. ~ TooLittle(src, o, raw, a) => ~ (fitted <= 0)
  BY DEF TooLittle
<1> HIDE DEF s, raw, fitted
<1> QED BY <1>2, <1>3, <1>4 DEF s

\* An accepted order has a quantity and a bucket to arrive in.
LEMMA ValidationPlaces ==
  ASSUME NEW src \in Plan, NEW o \in Observation, NEW p \in Proposals
  PROVE  LET v == ValidateAction(src, o, p)
         IN v.accepted \in Nat /\ (v.accepted > 0 => v.arrival \in Bucket)
<1> DEFINE arrivals == Arrivals(src, o.week)
           a == Min(arrivals)
           s == Sized(src, o, Dated(src, o, p, a))
<1>1. \/ ValidateAction(src, o, p).accepted = 0
      \/ arrivals # {} /\ ValidateAction(src, o, p) = s
  BY DEF ValidateAction, Rejected, Unplaced, Dated
<1>2. ASSUME arrivals # {}
      PROVE  a \in Bucket
  <2>1. arrivals \subseteq Bucket /\ Bucket \subseteq Nat
    BY HorizonType DEF Arrivals, Bucket, Observation
  <2> HIDE DEF arrivals
  <2> QED BY <1>2, <2>1, MinOf
<1>3. ASSUME arrivals # {}
      PROVE  s.accepted \in Nat /\ (s.accepted > 0 => s.arrival \in Bucket)
  <2>1. a \in Bucket
    BY <1>2, <1>3
  <2> HIDE DEF a, arrivals
  <2> QED BY <2>1, SizedPlaces
<1> HIDE DEF arrivals, s
<1> QED BY <1>1, <1>3

\* A sealed row of whole quantities.
LEMMA PsiRowType ==
  ASSUME NEW r \in Row, NEW d \in Demand, NEW reserved \in Nat, NEW cap \in Nat \cup {NoCap}
  PROVE  /\ PsiRow(r, d, reserved, cap) \in SealedRow
         /\ PsiRow(r, d, reserved, cap).recommended = r.recommended
<1> DEFINE row == PsiRow(r, d, reserved, cap)
           open == r.backorderClose + r.fulfilledOrder - d.order
           forBacklog == Least(r.available, open)
           excess == IF cap = NoCap THEN 0 ELSE Most(0, r.available + reserved - cap)
<1>1. /\ r.boh \in Nat /\ r.inbound \in Nat /\ r.recommended \in Nat /\ r.available \in Nat
      /\ r.fulfilledOrder \in Nat /\ r.fulfilledForecast \in Nat /\ r.eoh \in Nat
      /\ r.backorderClose \in Nat /\ r.shortage \in Nat /\ d.order \in Nat /\ d.forecast \in Nat
  BY DEF Row, Demand
<1>2. open \in Int /\ forBacklog \in Int
  BY <1>1 DEF Least
<1>3. excess \in Int
  BY <1>1 DEF Most
<1> HIDE DEF open, forBacklog, excess
<1>4. row = [boh |-> r.boh, reserved |-> reserved, onHandOpen |-> r.boh + reserved,
             confirmed |-> r.inbound, recommended |-> r.recommended,
             available |-> r.available, backorderOpen |-> open, order |-> d.order,
             forecast |-> d.forecast, fulfilledBacklog |-> forBacklog,
             fulfilledOrder |-> r.fulfilledOrder - forBacklog,
             fulfilledForecast |-> r.fulfilledForecast, eoh |-> r.eoh,
             onHandClose |-> r.eoh + reserved, backorderClose |-> r.backorderClose,
             shortage |-> r.shortage, excess |-> excess]
  BY Zenon DEF PsiRow, open, forBacklog, excess
<1> HIDE DEF row
<1> QED BY <1>1, <1>2, <1>3, <1>4 DEF SealedRow, row

\* What is sealed for a plan and the rows of a whole projection.
LEMMA PsiRowsType ==
  ASSUME NEW input \in Plan, NEW s, DOMAIN s = Bucket, \A b \in Bucket : s[b] \in Row
  PROVE  /\ PsiRows(s, input) \in [Bucket -> SealedRow]
         /\ \A b \in Bucket : PsiRows(s, input)[b].recommended = s[b].recommended
<1>1. ASSUME NEW b \in Bucket
      PROVE  LET row == PsiRow(s[b], input.demand[b], input.stock.reserved,
                               input.policy[b].cap)
             IN row \in SealedRow /\ row.recommended = s[b].recommended
  <2>1. /\ s[b] \in Row /\ input.demand[b] \in Demand /\ input.stock.reserved \in Nat
        /\ input.policy[b].cap \in Nat \cup {NoCap}
    BY DEF Plan, Stock, Policy
  <2> QED BY <2>1, PsiRowType
<1> QED BY <1>1 DEF PsiRows

\* The baseline of another input is a whole projection too.
LEMMA BaselineOfType ==
  ASSUME NEW input \in Plan
  PROVE  DOMAIN BaselineOf(input) = Bucket /\ \A b \in Bucket : BaselineOf(input)[b] \in Row
<1> DEFINE after(s, b) ==
             LET r == Advance(s, input.demand[b], input.receipt[b], 0)
             IN [available |-> r.eoh, reserved |-> input.stock.reserved,
                 backorder |-> r.backorderClose]
           Body(t, b) == IF b = 0 THEN input.stock ELSE after(t[b - 1], b)
           S == {n \in Nat : \E t : t = [b \in 0..n |-> Body(t, b)]}
           stock == CHOOSE t : t = [b \in 0..Horizon |-> Body(t, b)]
<1> HIDE DEF after
<1>1. 0 \in S
  <2> DEFINE t == [b \in 0..0 |-> input.stock]
  <2>1. t = [b \in 0..0 |-> Body(t, b)]
    OBVIOUS
  <2> QED BY <2>1
<1>2. ASSUME NEW n \in Nat, n \in S
      PROVE  n + 1 \in S
  <2>1. PICK t : t = [b \in 0..n |-> Body(t, b)]
    BY <1>2
  <2> DEFINE u == [b \in 0..(n + 1) |-> IF b = n + 1 THEN after(t[n], n + 1) ELSE t[b]]
  <2>2. ASSUME NEW b \in 0..(n + 1)
        PROVE  u[b] = Body(u, b)
    <3>1. CASE b = n + 1
      BY <3>1
    <3>2. CASE b # n + 1
      <4>1. b \in 0..n /\ (b # 0 => b - 1 \in 0..n /\ b - 1 # n + 1)
        BY <3>2
      <4>2. u[b] = t[b] /\ t[b] = Body(t, b)
        BY <2>1, <3>2, <4>1
      <4> QED BY <4>1, <4>2
    <3> QED BY <3>1, <3>2
  <2>3. u = [b \in 0..(n + 1) |-> Body(u, b)]
    BY <2>2
  <2>4. \E v : v = [b \in 0..(n + 1) |-> Body(v, b)]
    <3> HIDE DEF u
    <3> QED BY <2>3
  <2> QED BY <2>4
<1>3. Horizon \in S
  <2> HIDE DEF S
  <2> QED BY <1>1, <1>2, Induction, HorizonType
<1>4. stock = [b \in 0..Horizon |-> Body(stock, b)]
  BY <1>3
<1>5. BaselineOf(input)
        = [b \in Bucket |-> Advance(stock[b - 1], input.demand[b], input.receipt[b], 0)]
  BY DEF BaselineOf, after
<1> HIDE DEF stock
<1>6. input.stock \in Stock
      /\ \A b \in Bucket : input.demand[b] \in Demand /\ input.receipt[b] \in Nat
  BY DEF Plan
<1>7. \A n \in Nat : n <= Horizon => stock[n] \in Stock
  <2> DEFINE T == {n \in Nat : n <= Horizon => stock[n] \in Stock}
  <2>1. 0 \in T
    BY <1>4, <1>6, HorizonType
  <2>2. ASSUME NEW n \in Nat, n \in T, n + 1 <= Horizon
        PROVE  stock[n + 1] \in Stock
    <3>1. n + 1 \in Bucket /\ n + 1 \in 0..Horizon /\ n + 1 # 0 /\ (n + 1) - 1 = n
      BY <2>2, HorizonType DEF Bucket
    <3>2. stock[n] \in Stock
      BY <2>2, <3>1, HorizonType
    <3>3. stock[n + 1] = after(stock[n], n + 1)
      BY <1>4, <3>1
    <3>4. Advance(stock[n], input.demand[n + 1], input.receipt[n + 1], 0) \in Row
      BY <1>6, <3>1, <3>2, AdvanceType
    <3> QED BY <1>6, <3>3, <3>4 DEF after, Stock, Row
  <2>3. Nat \subseteq T
    <3>1. \A n \in Nat : n \in T => n + 1 \in T
      BY <2>2
    <3> HIDE DEF T
    <3> QED BY <2>1, <3>1, Induction
  <2> QED BY <2>3
<1>8. ASSUME NEW b \in Bucket
      PROVE  BaselineOf(input)[b] \in Row
  <2>1. b - 1 \in Nat /\ b - 1 <= Horizon
    BY HorizonType DEF Bucket
  <2> QED BY <1>5, <1>6, <1>7, <2>1, AdvanceType
<1> QED BY <1>5, <1>8

\* What the strategy is shown is an observation.
LEMMA SeenType ==
  ASSUME Types, phase \in {"DECIDE", "ADVANCE"}
  PROVE  Seen \in Observation /\ Current \in Stock
<1>1. Week \in Bucket
  BY WeekType
<1>2. Current \in Stock
  BY StockAfterType DEF Types, TypeOK, Current
<1>3. pending \in Ledger
  BY DEF Types, TypeOK, Ledger
<1> QED BY <1>1, <1>2, <1>3 DEF Seen, Observation

\* A recorded decision is a judgment.
LEMMA DecisionRecorded ==
  ASSUME decisions \in Seq(Judgments(plan)), NEW o \in Observation, NEW p \in Proposals
  PROVE  Append(decisions, Decision(o, p)) \in Seq(Judgments(plan))
<1>1. \E x \in Observation, y \in Proposals :
        Decision(o, p) = [observation |-> x, proposal |-> y,
                          validation |-> ValidateAction(plan, x, y)]
  BY Zenon DEF Decision
<1> HIDE DEF Decision
<1>2. Decision(o, p) \in Judgments(plan)
  BY <1>1, SMT DEF Judgments
<1> HIDE DEF Judgments
<1> QED BY <1>2

\* A bucket advanced from any stock, leaving any ledger, keeps the types.
LEMMA WronglyAdvanced ==
  ASSUME EvidenceTypes, NEW kind, NEW stock \in Stock, NEW kept \in Ledger,
         AdvanceWrongly(kind, stock, kept)
  PROVE  EvidenceTypes'
<1> DEFINE row == Advance(stock, plan.demand[Week], pending.confirmed[Week],
                          pending.recommended[Week])
<1>1. Week \in Bucket /\ Week = Len(rows) + 1 /\ phase = "ADVANCE"
  BY WeekType DEF AdvanceWrongly, EvidenceTypes
<1>2. pending.confirmed[Week] \in Nat /\ pending.recommended[Week] \in Nat
  BY <1>1 DEF EvidenceTypes, Types, TypeOK
<1>3. plan.demand[Week] \in Demand
  BY <1>1, PlanType DEF EvidenceTypes, Types
<1>4. row \in Row /\ rows' = Append(rows, row)
  BY <1>2, <1>3, AdvanceType DEF AdvanceWrongly
<1> HIDE DEF row
<1>5. rows' \in Seq(Row) /\ Len(rows') = Week
  BY <1>1, <1>4, AppendRow DEF EvidenceTypes, Types, TypeOK
<1>6. /\ pending' = kept /\ phase' = (IF Week = Horizon THEN "DONE" ELSE "DECIDE")
      /\ UNCHANGED <<plan, baseline, orders, decisions, source, compared>>
  BY DEF AdvanceWrongly
<1>7. Week \in Nat /\ Week <= Horizon /\ (Week # Horizon => Week < Horizon)
  BY <1>1, HorizonType DEF Bucket
<1> HIDE DEF Week
<1>8. TypeOK'
  BY <1>5, <1>6, <1>7 DEF EvidenceTypes, Types, TypeOK, Ledger
<1>9. Progress'
  BY <1>1, <1>5, <1>6, <1>7 DEF EvidenceTypes, Types, Progress
<1>10. phase' = "DONE" => Len(rows') = Horizon
  BY <1>5, <1>6
<1>11. source' = None
  BY <1>1, <1>6 DEF EvidenceTypes
<1>12. decisions' \in Seq(Judgments(plan'))
  BY <1>6 DEF EvidenceTypes
<1> QED BY <1>8, <1>9, <1>10, <1>11, <1>12 DEF EvidenceTypes, Types

\* An item starts with its types.
LEMMA EvidenceInitTypes == EvidenceInit => EvidenceTypes
<1> SUFFICES ASSUME EvidenceInit
             PROVE  EvidenceTypes
  OBVIOUS
<1>1. Types /\ phase = "BASELINE" /\ source = None /\ decisions = <<>>
  BY TypesInit DEF EvidenceInit, Init
<1>2. decisions \in Seq(Judgments(plan))
  BY <1>1
<1> QED BY <1>1, <1>2 DEF EvidenceTypes

\* Every step keeps them, a slip included.
LEMMA EvidenceStepTypes ==
  ASSUME EvidenceTypes, [EvidenceNext]_evidenceVars
  PROVE  EvidenceTypes'
<1> USE DEF EvidenceTypes
<1>1. CASE RunBaseline
  <2>1. Types' /\ phase = "BASELINE" /\ phase' \in {"BASELINE", "DECIDE"} /\ UNCHANGED plan
    BY <1>1, TypesStep DEF RunBaseline, BaselineBucket, Next
  <2> QED BY <1>1, <2>1 DEF RunBaseline
<1>2. ASSUME NEW p \in Proposals, Decide(p)
      PROVE  EvidenceTypes'
  <2>1. Types'
    BY <1>2, TypesStep DEF Decide, Next
  <2>2. phase = "DECIDE" /\ phase' = "ADVANCE" /\ UNCHANGED plan
    BY <1>2 DEF Decide, PlaceOrder, OrderNothing
  <2>3. decisions' \in Seq(Judgments(plan'))
    <3>1. decisions' = Append(decisions, Decision(Seen, p)) /\ Seen \in Observation
      BY <1>2, <2>2, SeenType DEF Decide
    <3> QED BY <2>2, <3>1, DecisionRecorded
  <2> QED BY <1>2, <2>1, <2>2, <2>3 DEF Decide
<1>3. ASSUME NEW p \in Proposals, LoseOrder(p)
      PROVE  EvidenceTypes'
  <2>1. /\ phase = "DECIDE" /\ phase' = "ADVANCE"
        /\ UNCHANGED <<plan, baseline, rows, pending, orders, source, compared>>
    BY <1>3 DEF LoseOrder
  <2>2. Types'
    BY <2>1 DEF Types, TypeOK, Progress
  <2>3. decisions' \in Seq(Judgments(plan'))
    <3>1. decisions' = Append(decisions, Decision(Seen, p)) /\ Seen \in Observation
      BY <1>3, <2>1, SeenType DEF LoseOrder
    <3> QED BY <2>1, <3>1, DecisionRecorded
  <2> QED BY <2>1, <2>2, <2>3
<1>4. ASSUME NEW p \in Proposals, DecideOnStaleView(p)
      PROVE  EvidenceTypes'
  <2> DEFINE stale == [Seen EXCEPT !.pending.recommended = [b \in Bucket |-> 0]]
             v == ValidateAction(plan, stale, p)
  <2>1. /\ phase = "DECIDE" /\ phase' = "ADVANCE"
        /\ UNCHANGED <<plan, baseline, rows, orders, source, compared>>
        /\ decisions' = Append(decisions, Decision(stale, p))
        /\ pending' = IF v.accepted > 0 THEN AddSupply(pending, v.arrival, v.accepted)
                                        ELSE pending
    BY <1>4 DEF DecideOnStaleView
  <2>2. stale \in Observation
    <3>1. Seen \in Observation
      BY <2>1, SeenType
    <3> QED BY <3>1 DEF Observation, Ledger
  <2>3. plan \in Plan /\ pending \in Ledger
    BY PlanAssumption DEF Types, TypeOK, Ledger
  <2> HIDE DEF stale
  <2>4. v.accepted \in Nat /\ (v.accepted > 0 => v.arrival \in Bucket)
    BY <2>2, <2>3, ValidationPlaces
  <2> HIDE DEF v
  <2>5. pending' \in Ledger
    BY <2>1, <2>3, <2>4, AddSupplyType
  <2>6. Types'
    BY <2>1, <2>5 DEF Types, TypeOK, Progress, Ledger
  <2>7. decisions' \in Seq(Judgments(plan'))
    BY <2>1, <2>2, DecisionRecorded
  <2> QED BY <2>1, <2>6, <2>7
<1>5. CASE RunFails
  <2>1. Types' /\ phase = "DECIDE" /\ phase' = "FAILED" /\ UNCHANGED plan
    BY <1>5, TypesStep DEF RunFails, StrategyFails, Next
  <2> QED BY <1>5, <2>1 DEF RunFails
<1>6. CASE RunBucket
  <2>1. Types' /\ phase = "ADVANCE" /\ UNCHANGED plan
    BY <1>6, TypesStep DEF RunBucket, AdvanceBucket, Next
  <2>2. phase' = "DONE" => Len(rows') = Horizon
    <3>1. /\ Week = Len(rows) + 1 /\ phase' = IF Week = Horizon THEN "DONE" ELSE "DECIDE"
          /\ \E row \in Row : rows' = Append(rows, row)
      BY <1>6, Advanced DEF RunBucket, AdvanceBucket
    <3> QED BY <3>1, AppendRow DEF Types, TypeOK
  <2> QED BY <1>6, <2>1, <2>2 DEF RunBucket
<1>7. CASE ReopenStock
  <2>1. Week \in Bucket /\ plan.stock \in Stock /\ pending \in Ledger
    BY <1>7, WeekType, PlanType DEF ReopenStock, AdvanceWrongly, Types, TypeOK, Ledger
  <2>2. DropSupply(pending, Week) \in Ledger
    BY <2>1, DropSupplyType
  <2> QED BY <1>7, <2>1, <2>2, WronglyAdvanced DEF ReopenStock
<1>8. CASE KeepSupply
  <2> DEFINE kept == [confirmed |-> Carried(pending.confirmed),
                      recommended |-> Carried(pending.recommended)]
  <2>1. AdvanceWrongly("SUPPLY_KEPT", Current, kept) /\ Week < Horizon
    BY <1>8 DEF KeepSupply
  <2>2. Week \in Bucket /\ Current \in Stock
    BY <2>1, WeekType, SeenType DEF AdvanceWrongly
  <2>3. ASSUME NEW f \in [Bucket -> Nat]
        PROVE  Carried(f) \in [Bucket -> Nat]
    <3>1. Week + 1 \in Bucket
      BY <2>1, <2>2, HorizonType DEF Bucket
    <3> HIDE DEF Bucket
    <3> QED BY <2>2, <3>1 DEF Carried
  <2>4. kept \in Ledger
    BY <2>3 DEF Types, TypeOK, Ledger
  <2> HIDE DEF kept
  <2> QED BY <2>1, <2>2, <2>4, WronglyAdvanced
<1>9. ASSUME phase = "DONE", NEW input \in Plans, NEW s,
             DOMAIN s = Bucket, \A b \in Bucket : s[b] \in Row
      PROVE  PsiRows(s, input) \in [Bucket -> SealedRow]
  <2>1. input \in Plan
    BY PlanAssumption
  <2> QED BY <1>9, <2>1, PsiRowsType
<1>10. ASSUME phase = "DONE"
       PROVE  PsiRows(baseline, plan) \in [Bucket -> SealedRow]
  <2>1. baseline \in Seq(Row) /\ Len(baseline) = Horizon /\ plan \in Plans
    BY <1>10 DEF Types, TypeOK, Progress
  <2>2. DOMAIN baseline = Bucket /\ \A b \in Bucket : baseline[b] \in Row
    BY <2>1 DEF Bucket
  <2> QED BY <1>9, <1>10, <2>1, <2>2
<1>11. CASE Seal
  <2>1. /\ phase = "DONE" /\ source' = plan /\ compared' = PsiRows(baseline, plan)
        /\ UNCHANGED <<vars, decisions>>
    BY <1>11 DEF Seal
  <2> QED BY <1>10, <2>1 DEF vars, Types, TypeOK, Progress
<1>12. ASSUME NEW other \in Plans, SealOther(other)
       PROVE  EvidenceTypes'
  <2>1. /\ phase = "DONE" /\ UNCHANGED <<vars, decisions>>
        /\ \/ source' = other /\ compared' = PsiRows(baseline, plan)
           \/ source' = plan /\ compared' = PsiRows(BaselineOf(other), other)
    BY <1>12 DEF SealOther
  <2>2. PsiRows(BaselineOf(other), other) \in [Bucket -> SealedRow]
    <3>1. other \in Plan
      BY PlanAssumption
    <3> QED BY <1>9, <2>1, <3>1, BaselineOfType
  <2>3. source' \in Plans /\ compared' \in [Bucket -> SealedRow]
    BY <1>10, <2>1, <2>2 DEF Types, TypeOK
  <2> QED BY <2>1, <2>3 DEF vars, Types, TypeOK, Progress
<1>13. CASE UNCHANGED evidenceVars
  BY <1>13 DEF evidenceVars, vars, Types, TypeOK, Progress
<1> QED BY <1>1, <1>2, <1>3, <1>4, <1>5, <1>6, <1>7, <1>8, <1>11, <1>12, <1>13
        DEF EvidenceNext

\* Whatever slips, the types hold in every reachable state.
THEOREM EvidenceTypesCorrect == EvidenceSpec => []EvidenceTypes
BY EvidenceInitTypes, EvidenceStepTypes, PTL DEF EvidenceSpec

\* The rows of a sealed child.
LEMMA SealedRows ==
  ASSUME EvidenceTypes, source # None
  PROVE  PsiRows(rows, plan) \in [Bucket -> SealedRow]
<1>1. plan \in Plan
  BY PlanAssumption DEF EvidenceTypes, Types, TypeOK
<1>2. rows \in Seq(Row) /\ Len(rows) = Horizon
  BY DEF EvidenceTypes, Types, TypeOK
<1>3. DOMAIN rows = Bucket /\ \A b \in Bucket : rows[b] \in Row
  BY <1>2 DEF Bucket
<1> QED BY <1>1, <1>3, PsiRowsType

\* With the same demand, more served in time is a higher service level.
LEMMA ServiceLevel ==
  ASSUME NEW d \in Nat, NEW x \in Int, NEW y \in Int, x <= y
  PROVE  y * d - x * d >= 0
<1>1. y - x \in Nat
  OBVIOUS
<1>2. (y - x) * d \in Nat
  BY <1>1
<1>3. (y - x) * d = y * d - x * d
  OBVIOUS
<1> QED BY <1>2, <1>3

\* Whatever slipped, and whatever was sealed in place of what was computed: a
\* comparison that compare_psi_children answers is never adverse.
THEOREM NoAdverseComparison == EvidenceSpec => []ComparisonNeverAdverse
<1>1. EvidenceTypes => ComparisonNeverAdverse
  <2> SUFFICES ASSUME EvidenceTypes, Comparable
               PROVE  /\ Comparison.service # None => Comparison.service >= 0
                      /\ Comparison.backorder <= 0
                      /\ Comparison.available >= 0
                      /\ Comparison.onHand = Comparison.available
    BY DEF ComparisonNeverAdverse
  <2> DEFINE psi == PsiRows(rows, plan)
             x == Summarize(compared)
             y == Summarize(psi)
  <2>1. compared \in [Bucket -> SealedRow] /\ psi \in [Bucket -> SealedRow]
    BY SealedRows DEF EvidenceTypes, Comparable
  <2>2. /\ RollsForward(compared) /\ RollsForward(psi) /\ SameOutside(compared, psi)
        /\ \A b \in Bucket : compared[b].recommended = 0
    BY <2>1 DEF Comparable, BaselineValid, ChildValid, BaselineChild, Child
  <2> HIDE DEF psi
  <2>3. /\ x.demand \in Nat /\ x.demand = y.demand
        /\ x.onTime \in Int /\ y.onTime \in Int /\ x.onTime <= y.onTime
        /\ x.backorder \in Int /\ y.backorder \in Int /\ y.backorder <= x.backorder
        /\ x.eoh \in Int /\ y.eoh \in Int /\ x.eoh <= y.eoh
        /\ x.onHand \in Int /\ y.onHand \in Int
        /\ y.onHand - x.onHand = y.eoh - x.eoh
    BY <2>1, <2>2, MetricsCompared
  <2> HIDE DEF x, y
  <2>4. Comparison = [service |-> IF x.demand = 0 \/ y.demand = 0 THEN None
                                  ELSE y.onTime * x.demand - x.onTime * y.demand,
                      backorder |-> y.backorder - x.backorder,
                      available |-> y.eoh - x.eoh, onHand |-> y.onHand - x.onHand]
    BY Zenon DEF Comparison, BaselineChild, Child, x, y, psi
  <2>5. y.onTime * x.demand - x.onTime * x.demand >= 0
    BY <2>3, ServiceLevel
  <2>6. Comparison.service # None => Comparison.service >= 0
    BY <2>3, <2>4, <2>5
  <2> QED BY <2>3, <2>4, <2>6
<1> QED BY <1>1, EvidenceTypesCorrect, PTL

-----------------------------------------------------------------------------
(* What passes the check was computed.                                      *)

\* The supply under way once a validation has been applied.
Supplied(l, v) == IF v.accepted > 0 THEN AddSupply(l, v.arrival, v.accepted) ELSE l

\* The receipts of an input, with nothing ordered.
Unordered(src) == [confirmed |-> src.receipt, recommended |-> [b \in Bucket |-> 0]]

\* One week of Computed.
Computing(src, p, before, w) ==
  LET o == [week |-> w, stock |-> before.stock, pending |-> before.pending]
      v == ValidateAction(src, o, p)
      supply == Supplied(before.pending, v)
      r == Advance(before.stock, src.demand[w], supply.confirmed[w], supply.recommended[w])
  IN [stock |-> [available |-> r.eoh, reserved |-> src.stock.reserved,
                 backorder |-> r.backorderClose],
      decisions |-> Append(before.decisions,
                      [observation |-> o, proposal |-> p, validation |-> v]),
      rows |-> Append(before.rows, r),
      pending |-> DropSupply(supply, w)]

\* The recursion of Computed exists.
LEMMA ComputedDef ==
  ASSUME NEW src, NEW proposals
  PROVE  \E run : /\ run[0] = [stock |-> src.stock, decisions |-> <<>>, rows |-> <<>>,
                              pending |-> Unordered(src)]
                  /\ \A w \in Bucket : run[w] = Computing(src, proposals[w], run[w - 1], w)
                  /\ Computed(src, proposals) = run[Horizon]
<1> DEFINE first == [stock |-> src.stock, decisions |-> <<>>, rows |-> <<>>,
                     pending |-> Unordered(src)]
           Body(t, w) == IF w = 0 THEN first
                         ELSE Computing(src, proposals[w], t[w - 1], w)
           S == {n \in Nat : \E t : t = [w \in 0..n |-> Body(t, w)]}
           run == CHOOSE t : t = [w \in 0..Horizon |-> Body(t, w)]
<1> HIDE DEF first
<1>1. 0 \in S
  <2> DEFINE t == [w \in 0..0 |-> first]
  <2>1. t = [w \in 0..0 |-> Body(t, w)]
    OBVIOUS
  <2> QED BY <2>1
<1>2. ASSUME NEW n \in Nat, n \in S
      PROVE  n + 1 \in S
  <2>1. PICK t : t = [w \in 0..n |-> Body(t, w)]
    BY <1>2
  <2> DEFINE u == [w \in 0..(n + 1) |->
                     IF w = n + 1 THEN Computing(src, proposals[n + 1], t[n], n + 1) ELSE t[w]]
  <2>2. ASSUME NEW w \in 0..(n + 1)
        PROVE  u[w] = Body(u, w)
    <3>1. CASE w = n + 1
      BY <3>1
    <3>2. CASE w # n + 1
      <4>1. w \in 0..n /\ (w # 0 => w - 1 \in 0..n /\ w - 1 # n + 1)
        BY <3>2
      <4>2. u[w] = t[w] /\ t[w] = Body(t, w)
        BY <2>1, <3>2, <4>1
      <4> QED BY <4>1, <4>2
    <3> QED BY <3>1, <3>2
  <2>3. u = [w \in 0..(n + 1) |-> Body(u, w)]
    BY <2>2
  <2>4. \E v : v = [w \in 0..(n + 1) |-> Body(v, w)]
    <3> HIDE DEF u
    <3> QED BY <2>3
  <2> QED BY <2>4
<1>3. Horizon \in S
  <2> HIDE DEF S
  <2> QED BY <1>1, <1>2, Induction, HorizonType
<1>4. run = [w \in 0..Horizon |-> Body(run, w)]
  BY <1>3
<1>5. Computed(src, proposals) = run[Horizon]
  BY Zenon DEF Computed, first, Computing, Supplied, Unordered
<1> HIDE DEF run
<1>6. run[0] = first /\ \A w \in Bucket : run[w] = Computing(src, proposals[w], run[w - 1], w)
  BY <1>4, HorizonType DEF Bucket
<1> QED BY <1>5, <1>6 DEF first

\* The ledger every observation was shown, week by week.
LEMMA LedgerReplayed ==
  ASSUME NEW ds, NEW src, LedgerReplays(ds, src)
  PROVE  /\ ds[1].observation.pending = Unordered(src)
         /\ \A w \in Bucket : w > 1 =>
              ds[w].observation.pending
                = DropSupply(Supplied(ds[w - 1].observation.pending, ds[w - 1].validation), w - 1)
<1> DEFINE Body(t, w) == IF w = 1 THEN Unordered(src)
                         ELSE DropSupply(Supplied(t[w - 1], ds[w - 1].validation), w - 1)
           S == {n \in Nat : \E t : t = [w \in 1..n |-> Body(t, w)]}
           ledger == CHOOSE t : t = [w \in Bucket |-> Body(t, w)]
<1>1. 0 \in S
  <2> DEFINE t == [w \in 1..0 |-> Unordered(src)]
  <2>1. t = [w \in 1..0 |-> Body(t, w)]
    OBVIOUS
  <2> QED BY <2>1
<1>2. ASSUME NEW n \in Nat, n \in S
      PROVE  n + 1 \in S
  <2>1. PICK t : t = [w \in 1..n |-> Body(t, w)]
    BY <1>2
  <2> DEFINE u == [w \in 1..(n + 1) |-> IF w = n + 1 THEN Body(t, n + 1) ELSE t[w]]
  <2>2. ASSUME NEW w \in 1..(n + 1)
        PROVE  u[w] = Body(u, w)
    <3>1. w # 1 => w - 1 \in 1..n /\ w - 1 # n + 1 /\ u[w - 1] = t[w - 1]
      OBVIOUS
    <3>2. u[w] = Body(t, w)
      BY <2>1
    <3> QED BY <3>1, <3>2
  <2>3. u = [w \in 1..(n + 1) |-> Body(u, w)]
    BY <2>2
  <2>4. \E v : v = [w \in 1..(n + 1) |-> Body(v, w)]
    <3> HIDE DEF u
    <3> QED BY <2>3
  <2> QED BY <2>4
<1>3. Horizon \in S
  <2> HIDE DEF S
  <2> QED BY <1>1, <1>2, Induction, HorizonType
<1>4. ledger = [w \in Bucket |-> Body(ledger, w)]
  BY <1>3 DEF Bucket
<1>5. \A w \in Bucket : ds[w].observation.pending = ledger[w]
  BY Zenon DEF LedgerReplays, Supplied, Unordered
<1> HIDE DEF ledger
<1>6. 1 \in Bucket /\ \A w \in Bucket : w > 1 => w - 1 \in Bucket /\ w # 1
  BY HorizonType DEF Bucket
<1> QED BY <1>4, <1>5, <1>6

\* How far a sealed row exceeds a cap.
Excess(row, cap) == IF cap = NoCap THEN 0 ELSE Most(0, row.available + row.reserved - cap)

\* A balanced row is the one advance_bucket makes of what it opened with and
\* received.
LEMMA BalancedIsAdvanced ==
  ASSUME NEW row \in SealedRow, Balanced(row), NEW s \in Stock, NEW d \in Demand, NEW cap,
         NEW i \in Nat, NEW q \in Nat,
         row.boh = s.available, row.reserved = s.reserved, row.backorderOpen = s.backorder,
         row.order = d.order, row.forecast = d.forecast,
         row.confirmed = i, row.recommended = q, row.excess = Excess(row, cap)
  PROVE  /\ PsiRow(Advance(s, d, i, q), d, s.reserved, cap) = row
         /\ Advance(s, d, i, q).eoh = row.eoh
         /\ Advance(s, d, i, q).backorderClose = row.backorderClose
<1> DEFINE r == Advance(s, d, i, q)
           open == r.backorderClose + r.fulfilledOrder - d.order
           forBacklog == Least(r.available, open)
<1>1. /\ row.boh \in Int /\ row.reserved \in Int /\ row.onHandOpen \in Int
      /\ row.available \in Int /\ row.backorderOpen \in Int /\ row.fulfilledBacklog \in Int
      /\ row.fulfilledOrder \in Int /\ row.fulfilledForecast \in Int /\ row.eoh \in Int
      /\ row.onHandClose \in Int /\ row.backorderClose \in Int /\ row.shortage \in Int
      /\ s.available \in Nat /\ s.reserved \in Nat /\ s.backorder \in Nat
      /\ d.order \in Nat /\ d.forecast \in Nat
  BY DEF SealedRow, Stock, Demand
<1>2. row.available = s.available + i + q
  BY DEF Balanced
<1>3. /\ row.fulfilledBacklog = Least(row.available, s.backorder)
      /\ row.fulfilledOrder = Least(row.available - row.fulfilledBacklog, d.order)
      /\ row.fulfilledForecast
           = Least(row.available - row.fulfilledBacklog - row.fulfilledOrder, d.forecast)
  BY DEF Balanced
<1>4. /\ row.eoh = row.available - row.fulfilledBacklog - row.fulfilledOrder
                                 - row.fulfilledForecast
      /\ row.backorderClose = s.backorder + d.order - row.fulfilledBacklog
                                          - row.fulfilledOrder
      /\ row.shortage = d.forecast - row.fulfilledForecast
  <2>1. /\ row.available = row.eoh + row.fulfilledBacklog + row.fulfilledOrder
                                  + row.fulfilledForecast
        /\ row.backorderOpen + row.order
             = row.backorderClose + row.fulfilledBacklog + row.fulfilledOrder
        /\ row.shortage = row.forecast - row.fulfilledForecast
    BY DEF Balanced
  <2>2. row.eoh = row.available - row.fulfilledBacklog - row.fulfilledOrder
                                - row.fulfilledForecast
    BY <1>1, <2>1
  <2>3. s.backorder + d.order
          = row.backorderClose + row.fulfilledBacklog + row.fulfilledOrder
    BY <2>1
  <2>4. row.backorderClose = s.backorder + d.order - row.fulfilledBacklog
                                         - row.fulfilledOrder
    BY <1>1, <2>3
  <2>5. row.shortage = d.forecast - row.fulfilledForecast
    BY <2>1
  <2> QED BY <2>2, <2>4, <2>5
<1>5. r = [boh |-> s.available, inbound |-> i, recommended |-> q,
           available |-> row.available,
           fulfilledOrder |-> row.fulfilledBacklog + row.fulfilledOrder,
           fulfilledForecast |-> row.fulfilledForecast, eoh |-> row.eoh,
           backorderClose |-> row.backorderClose, shortage |-> row.shortage]
  <2> DEFINE a == s.available + i + q
             b == Least(a, s.backorder)
             o == Least(a - b, d.order)
             f == Least(a - b - o, d.forecast)
  <2>1. r = [boh |-> s.available, inbound |-> i, recommended |-> q, available |-> a,
             fulfilledOrder |-> b + o, fulfilledForecast |-> f, eoh |-> a - b - o - f,
             backorderClose |-> s.backorder + d.order - b - o, shortage |-> d.forecast - f]
    BY Zenon DEF Advance
  <2>2. a = row.available /\ b = row.fulfilledBacklog
    BY <1>2, <1>3
  <2>3. o = row.fulfilledOrder
    BY <1>3, <2>2
  <2>4. f = row.fulfilledForecast
    BY <1>3, <2>2, <2>3
  <2> HIDE DEF a, b, o, f, r
  <2> QED BY <1>4, <2>1, <2>2, <2>3, <2>4
<1> HIDE DEF r
<1>6. open = s.backorder
  BY <1>1, <1>4, <1>5
<1>7. forBacklog = row.fulfilledBacklog
  BY <1>3, <1>5, <1>6
<1>8. r.fulfilledOrder - forBacklog = row.fulfilledOrder
  BY <1>1, <1>5, <1>7
<1>9. row.onHandOpen = s.available + s.reserved /\ row.onHandClose = row.eoh + s.reserved
  BY <1>1 DEF Balanced
<1>10. PsiRow(r, d, s.reserved, cap)
         = [boh |-> r.boh, reserved |-> s.reserved, onHandOpen |-> r.boh + s.reserved,
            confirmed |-> r.inbound, recommended |-> r.recommended,
            available |-> r.available, backorderOpen |-> open, order |-> d.order,
            forecast |-> d.forecast, fulfilledBacklog |-> forBacklog,
            fulfilledOrder |-> r.fulfilledOrder - forBacklog,
            fulfilledForecast |-> r.fulfilledForecast, eoh |-> r.eoh,
            onHandClose |-> r.eoh + s.reserved, backorderClose |-> r.backorderClose,
            shortage |-> r.shortage,
            excess |-> IF cap = NoCap THEN 0 ELSE Most(0, r.available + s.reserved - cap)]
  BY Zenon DEF PsiRow
<1>11. row.excess = IF cap = NoCap THEN 0 ELSE Most(0, r.available + s.reserved - cap)
  BY <1>5 DEF Excess
<1> HIDE DEF open, forBacklog
<1>12. row = [boh |-> row.boh, reserved |-> row.reserved, onHandOpen |-> row.onHandOpen,
              confirmed |-> row.confirmed, recommended |-> row.recommended,
              available |-> row.available, backorderOpen |-> row.backorderOpen,
              order |-> row.order, forecast |-> row.forecast,
              fulfilledBacklog |-> row.fulfilledBacklog,
              fulfilledOrder |-> row.fulfilledOrder,
              fulfilledForecast |-> row.fulfilledForecast, eoh |-> row.eoh,
              onHandClose |-> row.onHandClose, backorderClose |-> row.backorderClose,
              shortage |-> row.shortage, excess |-> row.excess]
  BY DEF SealedRow
<1>13. PsiRow(r, d, s.reserved, cap) = row
  BY <1>5, <1>6, <1>7, <1>8, <1>9, <1>10, <1>11, <1>12
<1> QED BY <1>5, <1>13 DEF r

\* A judgment is an observation, a proposal and what the guard made of them.
LEMMA JudgmentType ==
  ASSUME NEW input, NEW j \in Judgments(input)
  PROVE  /\ j.observation \in Observation /\ j.proposal \in Proposals
         /\ j.validation = ValidateAction(input, j.observation, j.proposal)
         /\ j = [observation |-> j.observation, proposal |-> j.proposal,
                 validation |-> j.validation]
BY DEF Judgments

\* An applied validation changes the ledger in the bucket it arrives in.
LEMMA SuppliedType ==
  ASSUME NEW l \in Ledger, NEW src \in Plan, NEW o \in Observation, NEW p \in Proposals,
         NEW v, v = ValidateAction(src, o, p)
  PROVE  /\ Supplied(l, v) \in Ledger
         /\ \A b \in Bucket :
              /\ Supplied(l, v).confirmed[b] = l.confirmed[b]
              /\ Supplied(l, v).recommended[b]
                   = l.recommended[b] + (IF v.arrival = b THEN v.accepted ELSE 0)
<1>1. v.accepted \in Nat /\ (v.accepted > 0 => v.arrival \in Bucket)
  BY ValidationPlaces
<1>2. CASE v.accepted > 0
  <2>1. /\ Supplied(l, v) = AddSupply(l, v.arrival, v.accepted)
        /\ AddSupply(l, v.arrival, v.accepted) \in Ledger
        /\ AddSupply(l, v.arrival, v.accepted).confirmed = l.confirmed
        /\ AddSupply(l, v.arrival, v.accepted).recommended
             = [l.recommended EXCEPT ![v.arrival] = l.recommended[v.arrival] + v.accepted]
    BY <1>1, <1>2, AddSupplyType DEF Supplied
  <2>2. l.recommended \in [Bucket -> Nat]
    BY DEF Ledger
  <2> QED BY <1>1, <1>2, <2>1, <2>2
<1>3. CASE ~ (v.accepted > 0)
  <2>1. v.accepted = 0 /\ Supplied(l, v) = l
    BY <1>1, <1>3 DEF Supplied
  <2>2. \A b \in Bucket : l.recommended[b] \in Nat
    BY DEF Ledger
  <2> QED BY <2>1, <2>2
<1> QED BY <1>2, <1>3

\* After a week of the replay its decision and its row are those sealed, and it
\* stands at what the next observation shows.
Proceeds(src, ds, psi, before, after, w) ==
  /\ after.decisions = Append(before.decisions, ds[w])
  /\ \E r \in Row :
       /\ after.rows = Append(before.rows, r)
       /\ PsiRow(r, src.demand[w], src.stock.reserved, src.policy[w].cap) = psi[w]
  /\ after.stock \in Stock /\ after.pending \in Ledger
  /\ after.stock.reserved = src.stock.reserved
  /\ w < Horizon => ds[w + 1].observation = [week |-> w + 1, stock |-> after.stock,
                                             pending |-> after.pending]

\* One week of the replay: shown what the projection stood at, it makes the
\* decision and the row that were sealed, and stands at what the next one shows.
LEMMA WeekIsComputed ==
  ASSUME NEW input, NEW src \in Plan, NEW ds \in Seq(Judgments(input)),
         NEW psi \in [Bucket -> SealedRow], RollsForward(psi), DecisionsHold(ds, psi, src),
         NEW w \in Bucket, NEW before,
         before.stock \in Stock, before.pending \in Ledger,
         before.stock.reserved = src.stock.reserved,
         ds[w].observation = [week |-> w, stock |-> before.stock, pending |-> before.pending]
  PROVE  Proceeds(src, ds, psi, before, Computing(src, ds[w].proposal, before, w), w)
<1> DEFINE o == [week |-> w, stock |-> before.stock, pending |-> before.pending]
           p == ds[w].proposal
           v == ValidateAction(src, o, p)
           supply == Supplied(before.pending, v)
           d == src.demand[w]
           r == Advance(before.stock, d, supply.confirmed[w], supply.recommended[w])
           after == Computing(src, p, before, w)
<1>1. Len(ds) = Horizon /\ \A u \in Bucket : DecisionHolds(ds[u], u, psi, src)
  BY DEF DecisionsHold
<1>2. \A u \in Bucket : ds[u] \in Judgments(input)
  <2> HIDE DEF Judgments
  <2> QED BY <1>1 DEF Bucket
<1>3. /\ ds[w].observation = o /\ o \in Observation /\ p \in Proposals
      /\ ds[w] = [observation |-> o, proposal |-> p, validation |-> ds[w].validation]
  BY <1>2, JudgmentType
<1>4. ds[w].validation = v
  BY <1>1, <1>3 DEF DecisionHolds
<1>5. /\ before.stock = [available |-> psi[w].boh, reserved |-> psi[w].reserved,
                         backorder |-> psi[w].backorderOpen]
      /\ psi[w].confirmed = before.pending.confirmed[w]
      /\ psi[w].recommended = before.pending.recommended[w]
                                + (IF v.arrival = w THEN v.accepted ELSE 0)
  <2>1. BoundToRow(ds[w], psi)
    BY <1>1 DEF DecisionHolds
  <2> HIDE DEF v
  <2> QED BY <1>3, <1>4, <2>1 DEF BoundToRow
<1>6. /\ supply \in Ledger
      /\ supply.confirmed[w] = psi[w].confirmed /\ supply.recommended[w] = psi[w].recommended
      /\ supply.confirmed[w] \in Nat /\ supply.recommended[w] \in Nat
  <2>1. /\ supply \in Ledger
        /\ supply.confirmed[w] = before.pending.confirmed[w]
        /\ supply.recommended[w] = before.pending.recommended[w]
                                     + (IF v.arrival = w THEN v.accepted ELSE 0)
    BY <1>3, SuppliedType
  <2> HIDE DEF v, supply
  <2>2. supply.confirmed[w] \in Nat /\ supply.recommended[w] \in Nat
    BY <2>1 DEF Ledger
  <2> QED BY <1>5, <2>1, <2>2
<1>7. d \in Demand /\ psi[w] \in SealedRow /\ Balanced(psi[w])
  BY RowsRollForward DEF Plan
<1>8. /\ psi[w].order = d.order /\ psi[w].forecast = d.forecast
      /\ psi[w].excess = Excess(psi[w], src.policy[w].cap)
  BY DEF DecisionsHold, BoundToSource, Excess
<1>9. /\ psi[w].boh = before.stock.available /\ psi[w].reserved = before.stock.reserved
      /\ psi[w].backorderOpen = before.stock.backorder
  BY <1>5
<1> HIDE DEF supply, d
<1>10. /\ r \in Row
       /\ PsiRow(r, d, before.stock.reserved, src.policy[w].cap) = psi[w]
       /\ r.eoh = psi[w].eoh /\ r.backorderClose = psi[w].backorderClose
  BY <1>6, <1>7, <1>8, <1>9, AdvanceType, BalancedIsAdvanced
<1>11. /\ after.stock = [available |-> r.eoh, reserved |-> src.stock.reserved,
                         backorder |-> r.backorderClose]
       /\ after.decisions = Append(before.decisions,
                               [observation |-> o, proposal |-> p, validation |-> v])
       /\ after.rows = Append(before.rows, r)
       /\ after.pending = DropSupply(supply, w)
  BY Zenon DEF Computing, supply, d
<1> HIDE DEF o, p, v, r, after
<1>12. after.stock \in Stock
  <2>1. r.eoh \in Nat /\ r.backorderClose \in Nat
    BY <1>10 DEF Row
  <2>2. src.stock.reserved \in Nat
    BY DEF Plan, Stock
  <2> QED BY <1>11, <2>1, <2>2 DEF Stock
<1>13. after.pending \in Ledger
  <2>1. supply \in Ledger
    BY <1>6
  <2>2. DropSupply(supply, w) \in Ledger
    BY <2>1, DropSupplyType
  <2> QED BY <1>11, <2>2
<1>14. after.decisions = Append(before.decisions, ds[w])
  BY <1>3, <1>4, <1>11
<1>15. ASSUME w < Horizon
       PROVE  ds[w + 1].observation
                = [week |-> w + 1, stock |-> after.stock, pending |-> after.pending]
  <2>1. w + 1 \in Bucket /\ w + 1 > 1 /\ (w + 1) - 1 = w
    BY <1>15, HorizonType DEF Bucket
  <2>2. ds[w + 1].observation \in Observation
    BY <1>2, <2>1, JudgmentType
  <2>3. /\ ds[w + 1].observation.week = w + 1
        /\ ds[w + 1].observation.stock
             = [available |-> psi[w + 1].boh, reserved |-> psi[w + 1].reserved,
                backorder |-> psi[w + 1].backorderOpen]
    <3> DEFINE next == ds[w + 1]
    <3>1. next.observation.week = w + 1 /\ BoundToRow(next, psi)
      BY <1>1, <2>1 DEF DecisionHolds
    <3> HIDE DEF next
    <3>2. next.observation.stock
            = [available |-> psi[w + 1].boh, reserved |-> psi[w + 1].reserved,
               backorder |-> psi[w + 1].backorderOpen]
      BY <3>1, Zenon DEF BoundToRow
    <3> QED BY <3>1, <3>2 DEF next
  <2>4. /\ psi[w + 1].boh = psi[w].eoh /\ psi[w + 1].backorderOpen = psi[w].backorderClose
        /\ psi[w + 1].reserved = psi[w].reserved
    BY <2>1, RowsRollForward
  <2>5. ds[w + 1].observation.stock = after.stock
    BY <1>9, <1>10, <1>11, <2>3, <2>4
  <2>6. ds[w + 1].observation.pending = after.pending
    <3>1. ds[w + 1].observation.pending
            = DropSupply(Supplied(ds[w].observation.pending, ds[w].validation), w)
      <4>1. LedgerReplays(ds, src)
        BY DEF DecisionsHold
      <4> QED BY <2>1, <4>1, LedgerReplayed
    <3>2. ds[w].observation.pending = before.pending
      BY <1>3 DEF o
    <3> QED BY <1>4, <1>11, <3>1, <3>2 DEF supply
  <2> QED BY <2>2, <2>3, <2>5, <2>6 DEF Observation
<1>16. after.stock.reserved = src.stock.reserved
  BY <1>11
<1>17. Proceeds(src, ds, psi, before, after, w)
  BY <1>10, <1>9, <1>11, <1>12, <1>13, <1>14, <1>15, <1>16 DEF Proceeds, d
<1> QED BY <1>17 DEF after, p

\* Week by week, the whole evidence is what Computed makes of the source and the
\* proposals.
LEMMA CheckedIsComputed ==
  ASSUME NEW input, NEW src \in Plan, NEW ds \in Seq(Judgments(input)),
         NEW psi \in [Bucket -> SealedRow], RollsForward(psi), DecisionsHold(ds, psi, src)
  PROVE  LET computed == Computed(src, [w \in Bucket |-> ds[w].proposal])
         IN psi = PsiRows(computed.rows, src) /\ ds = computed.decisions
<1> DEFINE proposals == [w \in Bucket |-> ds[w].proposal]
           Sealed(r, w) == PsiRow(r, src.demand[w], src.stock.reserved, src.policy[w].cap)
<1>1. PICK run :
        /\ run[0] = [stock |-> src.stock, decisions |-> <<>>, rows |-> <<>>,
                     pending |-> Unordered(src)]
        /\ \A w \in Bucket : run[w] = Computing(src, proposals[w], run[w - 1], w)
        /\ Computed(src, proposals) = run[Horizon]
  <2> HIDE DEF proposals
  <2> QED BY ComputedDef
<1>2. \A w \in Bucket : proposals[w] = ds[w].proposal
  OBVIOUS
<1> HIDE DEF proposals
<1> DEFINE Decided(s, n) == /\ s \in Seq(Judgments(input)) /\ Len(s) = n
                            /\ \A w \in 1..n : s[w] = ds[w]
           Rolled(s, n) == /\ s \in Seq(Row) /\ Len(s) = n
                           /\ \A w \in 1..n : Sealed(s[w], w) = psi[w]
           Stands(s, n) ==
             /\ s.stock \in Stock /\ s.pending \in Ledger
             /\ s.stock.reserved = src.stock.reserved
             /\ n < Horizon => ds[n + 1].observation = [week |-> n + 1, stock |-> s.stock,
                                                        pending |-> s.pending]
           S == {n \in Nat : n <= Horizon => /\ Decided(run[n].decisions, n)
                                             /\ Rolled(run[n].rows, n) /\ Stands(run[n], n)}
<1> HIDE DEF Sealed
<1>3. Len(ds) = Horizon /\ \A w \in Bucket : ds[w] \in Judgments(input)
  <2>1. Len(ds) = Horizon
    BY DEF DecisionsHold
  <2> HIDE DEF Judgments
  <2> QED BY <2>1 DEF Bucket
<1>4. 0 \in S
  <2>1. Decided(<<>>, 0) /\ Rolled(<<>>, 0)
    OBVIOUS
  <2>2. src.stock \in Stock /\ Unordered(src) \in Ledger
    BY DEF Plan, Unordered, Ledger
  <2>3. ds[1].observation = [week |-> 1, stock |-> src.stock, pending |-> Unordered(src)]
    <3>1. 1 \in Bucket
      BY HorizonType DEF Bucket
    <3>2. ds[1].observation \in Observation
      BY <1>3, <3>1, JudgmentType
    <3>3. DecisionHolds(ds[1], 1, psi, src) /\ LedgerReplays(ds, src) /\ BoundToSource(psi, src)
      BY <3>1 DEF DecisionsHold
    <3>4. ds[1].observation.week = 1 /\ BoundToRow(ds[1], psi)
      BY <3>3 DEF DecisionHolds
    <3>5. ds[1].observation.pending = Unordered(src)
      BY <3>3, LedgerReplayed
    <3>6. ds[1].observation.stock
            = [available |-> src.stock.available, reserved |-> src.stock.reserved,
               backorder |-> src.stock.backorder]
      <4> DEFINE first == ds[1]
      <4>1. first.observation.week = 1 /\ BoundToRow(first, psi)
        BY <3>4
      <4> HIDE DEF first
      <4>2. first.observation.stock = [available |-> psi[1].boh, reserved |-> psi[1].reserved,
                                       backorder |-> psi[1].backorderOpen]
        BY <4>1, Zenon DEF BoundToRow
      <4>3. /\ psi[1].boh = src.stock.available /\ psi[1].reserved = src.stock.reserved
            /\ psi[1].backorderOpen = src.stock.backorder
        BY <3>3 DEF BoundToSource
      <4> QED BY <4>2, <4>3 DEF first
    <3>7. ds[1].observation.stock = src.stock
      BY <2>2, <3>6 DEF Stock
    <3> QED BY <3>2, <3>4, <3>5, <3>7 DEF Observation
  <2>4. Stands(run[0], 0)
    BY <1>1, <2>2, <2>3
  <2> HIDE DEF Decided, Rolled, Stands
  <2>5. Decided(run[0].decisions, 0) /\ Rolled(run[0].rows, 0)
    BY <1>1, <2>1
  <2> QED BY <2>4, <2>5
<1>5. ASSUME NEW n \in Nat, n \in S
      PROVE  n + 1 \in S
  <2>1. CASE n + 1 <= Horizon
    <3> DEFINE w == n + 1
               after == run[w]
    <3>1. w \in Bucket /\ w - 1 = n /\ n <= Horizon /\ n < Horizon
      BY <2>1, HorizonType DEF Bucket
    <3>2. Decided(run[n].decisions, n) /\ Rolled(run[n].rows, n) /\ Stands(run[n], n)
      BY <1>5, <3>1
    <3>3. after = Computing(src, ds[w].proposal, run[n], w)
      BY <1>1, <1>2, <3>1
    <3>4. /\ run[n].stock \in Stock /\ run[n].pending \in Ledger
          /\ run[n].stock.reserved = src.stock.reserved
          /\ ds[w].observation = [week |-> w, stock |-> run[n].stock,
                                  pending |-> run[n].pending]
      BY <3>1, <3>2
    <3> HIDE DEF w, after
    <3>5. /\ after.decisions = Append(run[n].decisions, ds[w])
          /\ \E r \in Row : /\ after.rows = Append(run[n].rows, r)
                            /\ PsiRow(r, src.demand[w], src.stock.reserved, src.policy[w].cap)
                                 = psi[w]
          /\ after.stock \in Stock /\ after.pending \in Ledger
          /\ after.stock.reserved = src.stock.reserved
          /\ w < Horizon => ds[w + 1].observation = [week |-> w + 1, stock |-> after.stock,
                                                     pending |-> after.pending]
      <4> DEFINE before == run[n]
      <4>1. /\ before.stock \in Stock /\ before.pending \in Ledger
            /\ before.stock.reserved = src.stock.reserved
            /\ ds[w].observation = [week |-> w, stock |-> before.stock,
                                    pending |-> before.pending]
        BY <3>4
      <4>2. after = Computing(src, ds[w].proposal, before, w)
        BY <3>3
      <4> HIDE DEF before, Decided, Rolled, Stands, S
      <4>3. Proceeds(src, ds, psi, before, Computing(src, ds[w].proposal, before, w), w)
        BY <3>1, <4>1, WeekIsComputed
      <4> QED BY <4>2, <4>3 DEF before, Proceeds
    <3>6. Stands(after, w)
      BY <3>5, Zenon
    <3>7. Decided(after.decisions, w)
      <4> DEFINE s == run[n].decisions
                 t == Append(s, ds[w])
      <4> HIDE DEF Judgments
      <4>1. s \in Seq(Judgments(input)) /\ Len(s) = n /\ \A u \in 1..n : s[u] = ds[u]
        BY <3>2
      <4>2. ds[w] \in Judgments(input)
        BY <1>3, <3>1
      <4> HIDE DEF s
      <4>3. t \in Seq(Judgments(input)) /\ Len(t) = n + 1
            /\ t[n + 1] = ds[w] /\ \A u \in 1..n : t[u] = s[u]
        BY <4>1, <4>2
      <4>4. \A u \in 1..(n + 1) : t[u] = ds[u]
        BY <4>1, <4>3 DEF w
      <4> HIDE DEF t
      <4>5. after.decisions = t
        BY <3>5 DEF s, t
      <4> QED BY <4>3, <4>4, <4>5 DEF w
    <3>8. Rolled(after.rows, w)
      <4> DEFINE s == run[n].rows
      <4>1. PICK r \in Row : after.rows = Append(s, r) /\ Sealed(r, w) = psi[w]
        BY <3>5 DEF Sealed
      <4>2. s \in Seq(Row) /\ Len(s) = n /\ \A u \in 1..n : Sealed(s[u], u) = psi[u]
        BY <3>2
      <4> HIDE DEF s
      <4> DEFINE t == Append(s, r)
      <4>3. t \in Seq(Row) /\ Len(t) = n + 1
            /\ t[n + 1] = r /\ \A u \in 1..n : t[u] = s[u]
        BY <4>2, AppendRow
      <4>4. \A u \in 1..(n + 1) : Sealed(t[u], u) = psi[u]
        <5> HIDE DEF t
        <5>1. ASSUME NEW u \in 1..(n + 1)
              PROVE  Sealed(t[u], u) = psi[u]
          <6>1. u = n + 1 \/ u \in 1..n
            OBVIOUS
          <6> QED BY <4>1, <4>2, <4>3, <6>1 DEF w
        <5> QED BY <5>1
      <4> HIDE DEF t
      <4>5. after.rows = t
        BY <4>1 DEF t
      <4> QED BY <4>3, <4>4, <4>5 DEF w
    <3> HIDE DEF Decided, Rolled, Stands
    <3> QED BY <3>6, <3>7, <3>8 DEF w, after
  <2>2. CASE ~ (n + 1 <= Horizon)
    BY <2>2
  <2> QED BY <2>1, <2>2
<1>6. Horizon \in S
  <2> HIDE DEF S
  <2> QED BY <1>4, <1>5, Induction, HorizonType
<1> DEFINE computed == run[Horizon]
<1>7. Decided(computed.decisions, Horizon) /\ Rolled(computed.rows, Horizon)
  BY <1>6, HorizonType
<1> HIDE DEF computed, S, Stands
<1>8. ds = computed.decisions
  <2> HIDE DEF Judgments
  <2> QED BY <1>3, <1>7, HorizonType
<1>9. psi = PsiRows(computed.rows, src)
  <2>1. DOMAIN computed.rows = Bucket /\ \A w \in Bucket : Sealed(computed.rows[w], w) = psi[w]
    BY <1>7, HorizonType DEF Bucket
  <2> HIDE DEF Bucket
  <2> QED BY <2>1 DEF PsiRows, Sealed
<1>10. Computed(src, proposals) = computed
  BY <1>1 DEF computed
<1> QED BY <1>8, <1>9, <1>10 DEF proposals

\* What passes validate_psi_child_build, from the sealed source alone, is what
\* the program computes from that source: no slip gets through unless it made no
\* difference, for every calendar, input, strategy and horizon.
THEOREM EvidenceSound == EvidenceSpec => []AcceptedIsComputed
<1>1. EvidenceTypes => AcceptedIsComputed
  <2> SUFFICES ASSUME EvidenceTypes, source # None, ChildValid(Child)
               PROVE  LET computed == Computed(source, [w \in Bucket |-> decisions[w].proposal])
                      IN /\ Child.psi = PsiRows(computed.rows, source)
                         /\ decisions = computed.decisions
    BY Zenon DEF AcceptedIsComputed
  <2> DEFINE psi == PsiRows(rows, plan)
  <2>1. Child.psi = psi /\ Child.action.decisions = decisions /\ Child.action.source = source
    BY DEF Child, ActionArtifacts
  <2>2. psi \in [Bucket -> SealedRow]
    BY SealedRows
  <2>3. RollsForward(psi) /\ DecisionsHold(decisions, psi, source)
    BY <2>1 DEF ChildValid, ActionsHold
  <2>4. source \in Plan /\ decisions \in Seq(Judgments(plan))
    BY PlanAssumption DEF EvidenceTypes
  <2> HIDE DEF psi
  <2>5. LET computed == Computed(source, [w \in Bucket |-> decisions[w].proposal])
        IN psi = PsiRows(computed.rows, source) /\ decisions = computed.decisions
    BY <2>2, <2>3, <2>4, CheckedIsComputed
  <2> QED BY <2>1, <2>5
<1> QED BY <1>1, EvidenceTypesCorrect, PTL

-----------------------------------------------------------------------------
(* The guard of the projection and the guard of the evidence.               *)

\* Rounding a quantity down to lots.
LEMMA RoundsDown ==
  ASSUME NEW x \in Nat, NEW lot \in Nat \ {0}
  PROVE  /\ x \div lot \in Nat /\ (x \div lot) * lot <= x /\ x < (x \div lot + 1) * lot
BY SMTT(30)

\* A product with a natural keeps the order.
LEMMA ProductMonotone ==
  ASSUME NEW m \in Int, NEW n \in Int, NEW k \in Nat, m <= n
  PROVE  m * k <= n * k
BY SMTT(30)

\* So many lots are at least as many units.
LEMMA ProductAtLeast ==
  ASSUME NEW m \in Nat, NEW k \in Nat \ {0}
  PROVE  m <= m * k
BY SMTT(30)

\* So many lots fit, where they are no more than those of the quantity.
LEMMA LotsFit ==
  ASSUME NEW x \in Nat, NEW lot \in Nat \ {0}, NEW m \in Int
  PROVE  m * lot <= x <=> m <= x \div lot
<1> DEFINE k == x \div lot
<1>1. k \in Nat /\ k * lot <= x /\ x < (k + 1) * lot
  BY RoundsDown
<1> HIDE DEF k
<1>2. ASSUME m <= k
      PROVE  m * lot <= x
  <2>1. m * lot <= k * lot
    BY <1>1, <1>2, ProductMonotone
  <2>2. m * lot \in Int /\ k * lot \in Int
    BY <1>1
  <2> QED BY <1>1, <2>1, <2>2
<1>3. ASSUME ~ (m <= k)
      PROVE  ~ (m * lot <= x)
  <2>1. (k + 1) * lot <= m * lot
    <3>1. k + 1 \in Int /\ k + 1 <= m
      BY <1>1, <1>3
    <3> QED BY <3>1, ProductMonotone
  <2>2. m * lot \in Int /\ (k + 1) * lot \in Int
    BY <1>1
  <2> QED BY <1>1, <2>1, <2>2
<1> QED BY <1>2, <1>3 DEF k

\* So many lots are too few, where they are fewer than the quantity rounded up.
LEMMA LotsFallShort ==
  ASSUME NEW need \in Nat \ {0}, NEW lot \in Nat \ {0}, NEW m \in Int
  PROVE  /\ (need + lot - 1) \div lot \in Nat \ {0}
         /\ m * lot < need <=> m < (need + lot - 1) \div lot
<1> DEFINE x == need + lot - 1
           k == x \div lot
<1>1. x \in Nat /\ lot <= x
  OBVIOUS
<1> HIDE DEF x
<1>2. k \in Nat
  BY <1>1, RoundsDown
<1>3. 1 <= k
  <2>1. 1 * lot <= x
    BY <1>1
  <2> QED BY <1>1, <2>1, LotsFit
<1>4. (m + 1) * lot <= x <=> m + 1 <= k
  BY <1>1, LotsFit
<1>5. (m + 1) * lot = m * lot + lot /\ m * lot \in Int
  OBVIOUS
<1>6. (m + 1) * lot <= x <=> m * lot < need
  BY <1>5 DEF x
<1> HIDE DEF k
<1>7. m < k <=> m + 1 <= k
  BY <1>2
<1>8. k \in Nat \ {0} /\ (m * lot < need <=> m < k)
  BY <1>2, <1>3, <1>4, <1>6, <1>7
<1> QED BY <1>8 DEF k, x

\* The lots the projection looks for are the fewer of those needed and those that
\* fit: what guard.py computes by division.
LEMMA LotsChosen ==
  ASSUME NEW need \in Nat \ {0}, NEW lot \in Nat \ {0}, NEW limit \in Nat, NEW n \in Nat
  PROVE  LET c == (need + lot - 1) \div lot
             l == limit \div lot
         IN /\ Least(c, l) \in Nat
            /\ n = Least(c, l) <=> /\ n * lot <= limit
                                   /\ n > 0 => (n - 1) * lot < need
                                   /\ n * lot < need => ~ ((n + 1) * lot <= limit)
<1> DEFINE c == (need + lot - 1) \div lot
           l == limit \div lot
           fits == n * lot <= limit
           moreFit == (n + 1) * lot <= limit
           short == n * lot < need
           lessShort == (n - 1) * lot < need
<1>1. c \in Nat \ {0} /\ l \in Nat
  BY LotsFallShort, RoundsDown
<1>2. (fits <=> n <= l) /\ (moreFit <=> n + 1 <= l)
  BY LotsFit
<1>3. (short <=> n < c) /\ (lessShort <=> n - 1 < c)
  BY LotsFallShort
<1> HIDE DEF c, l, fits, moreFit, short, lessShort
<1>4. Least(c, l) \in Nat
  BY <1>1 DEF Least
<1>5. n = Least(c, l) <=> n <= l /\ n <= c /\ (n < c => ~ (n + 1 <= l))
  BY <1>1 DEF Least
<1>6. n = Least(c, l) <=> fits /\ (n > 0 => lessShort) /\ (short => ~ moreFit)
  BY <1>1, <1>2, <1>3, <1>5
<1> QED BY <1>4, <1>6 DEF c, l, fits, moreFit, short, lessShort

\* The lesser of two numbers of lots is the lesser quantity.
LEMMA LeastLots ==
  ASSUME NEW m \in Nat, NEW n \in Nat, NEW lot \in Nat
  PROVE  Least(m * lot, n * lot) = Least(m, n) * lot
<1> DEFINE x == m * lot
           y == n * lot
<1>1. x \in Int /\ y \in Int /\ (m <= n => x <= y) /\ (n <= m => y <= x)
  <2>1. x \in Int /\ y \in Int
    OBVIOUS
  <2>2. ASSUME m <= n
        PROVE  x <= y
    BY <2>2, ProductMonotone
  <2>3. ASSUME n <= m
        PROVE  y <= x
    BY <2>3, ProductMonotone
  <2> QED BY <2>1, <2>2, <2>3
<1>2. Least(m, n) * lot = IF m <= n THEN x ELSE y
  BY DEF Least
<1> HIDE DEF x, y
<1>3. Least(x, y) = IF m <= n THEN x ELSE y
  BY <1>1 DEF Least
<1> QED BY <1>2, <1>3 DEF x, y

\* Where the guard places an order, before it is sized.
Placeable(src, o, p) ==
  /\ p.action \in src.allowed
  /\ p.action = "ORDER_UP_TO" => p.quantity \in src.minTarget..src.maxTarget
  /\ Unplaced(o, p).raw > 0
  /\ o.week \in src.orderDates
  /\ Arrivals(src, o.week) # {}

\* The early returns of the guard.
LEMMA GuardCases ==
  ASSUME NEW src \in Plan, NEW o \in Observation, NEW p \in Proposals
  PROVE  /\ Placeable(src, o, p) =>
              ValidateAction(src, o, p)
                = Sized(src, o, Dated(src, o, p, Min(Arrivals(src, o.week))))
         /\ ~ Placeable(src, o, p) => ValidateAction(src, o, p).accepted = 0
<1> DEFINE v == Unplaced(o, p)
<1>1. v.raw \in Nat
  BY UnplacedType
<1>2. ASSUME Placeable(src, o, p)
      PROVE  ValidateAction(src, o, p)
               = Sized(src, o, Dated(src, o, p, Min(Arrivals(src, o.week))))
  <2>1. /\ ~ (p.action \notin src.allowed)
        /\ ~ (/\ p.action = "ORDER_UP_TO" /\ p.action \in src.allowed
              /\ p.quantity \notin src.minTarget..src.maxTarget)
        /\ v.raw # 0 /\ ~ (o.week \notin src.orderDates) /\ Arrivals(src, o.week) # {}
    BY <1>1, <1>2 DEF Placeable
  <2>2. Dated(src, o, p, Min(Arrivals(src, o.week)))
          = [[v EXCEPT !.due = Start[o.week] + src.policy[o.week].lead]
               EXCEPT !.arrival = Min(Arrivals(src, o.week))]
    BY DEF Dated
  <2> HIDE DEF v
  <2> QED BY <2>1, <2>2 DEF ValidateAction, v
<1>3. ASSUME ~ Placeable(src, o, p)
      PROVE  ValidateAction(src, o, p).accepted = 0
  BY <1>1, <1>3 DEF ValidateAction, Placeable, Rejected, Unplaced
<1> QED BY <1>2, <1>3

\* The parts of the sizing of an order that arrives in bucket a, counted in lots.
Need(src, o, p) == Most(src.policy[o.week].moq, Asked(o, p))
Lots(src, o, p, a) ==
  LET lot == src.policy[o.week].multiple
  IN Least((Need(src, o, p) + lot - 1) \div lot, Limit(src, o, a) \div lot)

\* What is asked is a quantity.
LEMMA AskedType ==
  ASSUME NEW o \in Observation, NEW p \in Proposals
  PROVE  Asked(o, p) \in Nat /\ Unplaced(o, p).raw = Asked(o, p)
<1>1. Unplaced(o, p).raw = Asked(o, p)
  BY UnplacedIsBlank DEF Blank
<1> QED BY <1>1, UnplacedType

\* What the guard accepts, counted in lots.
LEMMA SizedInLots ==
  ASSUME NEW src \in Plan, NEW o \in Observation, NEW p \in Proposals, NEW a \in Bucket,
         Unplaced(o, p).raw > 0
  PROVE  LET q == Lots(src, o, p, a) * src.policy[o.week].multiple
         IN /\ Need(src, o, p) \in Nat \ {0} /\ Limit(src, o, a) \in Nat
            /\ Sized(src, o, Dated(src, o, p, a)).accepted
                 = IF q <= 0 \/ q < src.policy[o.week].moq THEN 0 ELSE q
<1> DEFINE policy == src.policy[o.week]
           lot == policy.multiple
           raw == Asked(o, p)
           need == Need(src, o, p)
           limit == Limit(src, o, a)
           fitted == Fitted(src, o, raw, a)
           c == (need + lot - 1) \div lot
           l == limit \div lot
           q == Lots(src, o, p, a) * lot
           s == Sized(src, o, Dated(src, o, p, a))
<1>1. policy.moq \in Nat /\ lot \in Nat \ {0} /\ src.maxOrder \in Nat
  BY DEF Plan, Policy, Observation
<1>2. raw \in Nat \ {0}
  <2>1. raw \in Nat /\ raw > 0
    BY AskedType
  <2> HIDE DEF raw
  <2> QED BY <2>1
<1>3. need \in Nat \ {0}
  <2>1. need = Most(policy.moq, raw)
    BY Zenon DEF Need
  <2> HIDE DEF need, raw, policy
  <2> QED BY <1>1, <1>2, <2>1 DEF Most
<1>4. limit \in Nat
  BY <1>2, SizedQuantities
<1>5. fitted = q
  <2>1. c \in Nat /\ l \in Nat
    BY <1>1, <1>3, <1>4, LotsFallShort, RoundsDown
  <2>2. RoundedUp(src, o, raw) = c * lot
    BY Zenon DEF RoundedUp, Need
  <2>3. q = Least(c, l) * lot
    BY Zenon DEF Lots
  <2>4. fitted = Least(RoundedUp(src, o, raw), l * lot)
    BY Zenon DEF Fitted
  <2> HIDE DEF c, l, q, fitted, lot
  <2> QED BY <1>1, <2>1, <2>2, <2>3, <2>4, LeastLots
<1>6. s.accepted = IF TooLittle(src, o, raw, a) THEN 0 ELSE fitted
  <2>1. \/ /\ TooLittle(src, o, raw, a)
           /\ \E x, u, r, due, y, z : Reads(s, x, u, r, 0, u, due, a, y, None, "REJECTED", z)
        \/ /\ ~ TooLittle(src, o, raw, a)
           /\ \E x, u, r, v, due, y, tt, st, z :
                Reads(s, x, u, r, fitted, v, due, a, y, tt, st, z)
    BY SizedReads, Zenon
  <2> HIDE DEF s, raw, fitted
  <2> QED BY <2>1, Zenon DEF Reads
<1>7. TooLittle(src, o, raw, a) <=> fitted <= 0 \/ fitted < policy.moq
  BY Zenon DEF TooLittle
<1> HIDE DEF fitted, s, q, need, limit, raw
<1>8. s.accepted = IF q <= 0 \/ q < policy.moq THEN 0 ELSE q
  BY <1>5, <1>6, <1>7, Zenon
<1> QED BY <1>3, <1>4, <1>8, Zenon DEF s, q, need, limit

\* Both guards look for the first bucket that opens on or after the due date.
LEMMA ArrivalsAgree ==
  ASSUME Types, phase = "DECIDE"
  PROVE  /\ Arrivals(plan, Week) = ArrivalBuckets
         /\ Min(Arrivals(plan, Week)) = Arrival
<1>1. Week \in Bucket /\ plan.policy[Week].lead \in Nat
  BY WeekType, PlanType DEF Types, Policy
<1>2. ASSUME NEW b \in Bucket, Start[b] >= Start[Week] + plan.policy[Week].lead
      PROVE  b >= Week
  <2>1. Start[Week] \in Nat /\ Start[b] \in Nat
    BY <1>1, CalendarAssumption
  <2>2. b < Week => Start[b] < Start[Week]
    BY <1>1, CalendarOrdered
  <2>3. b \in Nat /\ Week \in Nat
    BY <1>1 DEF Bucket
  <2> QED BY <1>1, <1>2, <2>1, <2>2, <2>3
<1>3. \A b : b \in Week..Horizon <=> b \in Bucket /\ b >= Week
  BY <1>1, HorizonType DEF Bucket
<1>4. Arrivals(plan, Week) = ArrivalBuckets
  <2> HIDE DEF Week, Bucket
  <2> QED BY <1>2, <1>3 DEF Arrivals, ArrivalBuckets
<1>5. Min(Arrivals(plan, Week)) = Arrival
  BY <1>4 DEF Min, Arrival
<1> QED BY <1>4, <1>5

\* Both know the same position and the same commitments.
LEMMA CommitmentsAgree ==
  /\ Position(Seen) = InventoryPosition
  /\ \A b : Seen.stock.available + Seen.stock.reserved + DueBy(Seen, b) = Committed(b)
<1>1. \A b : DueBy(Seen, b) = PendingTo(b)
  BY Zenon DEF DueBy, PendingTo, Pending, Seen
<1>2. Seen.stock = Current
  BY DEF Seen
<1> QED BY <1>1, <1>2 DEF Position, InventoryPosition, Committed

\* Both ask for the same quantity.
LEMMA NeedsAgree ==
  ASSUME NEW p \in Proposals
  PROVE  Unplaced(Seen, p).raw = Raw(p)
BY CommitmentsAgree DEF Unplaced, Raw

\* The room one guard computes is what the other one asks of every cap.
LEMMA RoomsAgree ==
  ASSUME Types, phase = "DECIDE", Arrival \in Bucket, NEW q \in Nat \ {0}
  PROVE  FitsLimits(q) <=> q <= Limit(plan, Seen, Arrival)
<1> DEFINE a == Arrival
           capped == {b \in a..Horizon : plan.policy[b].cap # NoCap}
           rooms == {Most(0, plan.policy[b].cap - Committed(b)) : b \in capped}
           room == Headroom(plan, Seen, a)
<1>1. plan \in Plan /\ Seen \in Observation /\ plan.maxOrder \in Nat
  BY SeenType, PlanAssumption, PlanType DEF Types, TypeOK
<1>2. \A b \in a..Horizon : b \in Bucket
  BY HorizonType DEF Bucket
<1>3. room = IF capped = {} THEN None ELSE Min(rooms)
  BY CommitmentsAgree DEF Headroom
<1>4. ASSUME NEW b \in capped
      PROVE  /\ Committed(b) \in Nat /\ plan.policy[b].cap \in Nat
             /\ Most(0, plan.policy[b].cap - Committed(b)) \in Nat
             /\ Committed(b) + q <= plan.policy[b].cap
                  <=> q <= Most(0, plan.policy[b].cap - Committed(b))
  <2>1. b \in Bucket /\ plan.policy[b].cap \in Nat
    BY <1>1, <1>2 DEF Plan, Policy
  <2>2. Committed(b) \in Nat
    <3>1. DueBy(Seen, b) \in Nat /\ Seen.stock \in Stock
      BY <1>1, <2>1, DueByType DEF Observation
    <3>2. Seen.stock.available + Seen.stock.reserved + DueBy(Seen, b) = Committed(b)
      BY CommitmentsAgree
    <3> HIDE DEF Committed
    <3> QED BY <3>1, <3>2 DEF Stock
  <2> HIDE DEF Committed
  <2> QED BY <2>1, <2>2 DEF Most
<1>5. FitsCapacity(q) <=> \A b \in capped : Committed(b) + q <= plan.policy[b].cap
  BY DEF FitsCapacity
<1>6. FitsCapacity(q) <=> \A k \in rooms : q <= k
  <2> HIDE DEF capped
  <2> QED BY <1>4, <1>5
<1>7. CASE capped = {}
  <2>1. room = None /\ FitsCapacity(q)
    BY <1>3, <1>5, <1>7
  <2> QED BY <2>1 DEF FitsLimits, Limit
<1>8. CASE capped # {}
  <2>1. rooms \subseteq Nat /\ rooms # {} /\ room = Min(rooms)
    BY <1>3, <1>4, <1>8
  <2> HIDE DEF rooms, room
  <2>2. room \in Nat /\ room \in rooms /\ \A k \in rooms : room <= k
    BY <2>1, MinOf
  <2>3. FitsCapacity(q) <=> q <= room
    BY <1>6, <2>1, <2>2
  <2>4. Limit(plan, Seen, a) = Least(plan.maxOrder, room)
    BY <2>2, NoneAssumption DEF Limit, room
  <2>5. q <= Least(plan.maxOrder, room) <=> q <= plan.maxOrder /\ q <= room
    BY <1>1, <2>2 DEF Least
  <2> QED BY <2>3, <2>4, <2>5 DEF FitsLimits
<1> QED BY <1>7, <1>8

\* Where a proposal places an order for one of them, it does for the other.
LEMMA PlacesAgree ==
  ASSUME Types, phase = "DECIDE", NEW p \in Proposals
  PROVE  Placeable(plan, Seen, p) <=>
           /\ Approved(p) /\ Raw(p) > 0 /\ Week \in plan.orderDates /\ ArrivalBuckets # {}
<1>1. Seen.week = Week
  BY DEF Seen
<1> QED BY <1>1, NeedsAgree, ArrivalsAgree DEF Placeable, Approved

\* Which lots the projection accepts, in the words of the other guard.
LEMMA LotsAgree ==
  ASSUME Types, phase = "DECIDE", NEW p \in Proposals, Placeable(plan, Seen, p),
         NEW n \in Nat \ {0}
  PROVE  /\ Lots(plan, Seen, p, Arrival) \in Nat
         /\ LotsAccepted(p, n) <=> n = Lots(plan, Seen, p, Arrival)
<1> DEFINE lot == plan.policy[Week].multiple
           need == Need(plan, Seen, p)
           limit == Limit(plan, Seen, Arrival)
           c == (need + lot - 1) \div lot
           l == limit \div lot
<1>1. /\ plan \in Plan /\ Seen \in Observation /\ Seen.week = Week
      /\ lot \in Nat \ {0} /\ plan.policy[Week].moq \in Nat
  <2>1. plan \in Plan /\ Seen \in Observation /\ Week \in Bucket
    BY SeenType, WeekType, PlanAssumption DEF Types, TypeOK
  <2> QED BY <2>1, PlanType DEF Types, Policy, Seen
<1>2. Arrival \in Bucket
  <2>1. Arrival \in ArrivalBuckets
    BY PlacesAgree, ArrivalType
  <2> QED BY <2>1 DEF ArrivalBuckets
<1>3. need \in Nat \ {0} /\ limit \in Nat
  BY <1>1, <1>2, SizedInLots DEF Placeable
<1>4. Most(plan.policy[Week].moq, Raw(p)) = need
  BY <1>1, NeedsAgree, AskedType DEF Need
<1>5. \A m \in Nat \ {0} : FitsLimits(m * lot) <=> m * lot <= limit
  <2>1. \A m \in Nat \ {0} : m * lot \in Nat \ {0}
    BY <1>1, ProductPositive
  <2> QED BY <1>2, <2>1, RoomsAgree
<1>6. Lots(plan, Seen, p, Arrival) = Least(c, l)
  BY <1>1 DEF Lots
<1>7. LotsAccepted(p, n) <=> /\ FitsLimits(n * lot)
                             /\ (n - 1) * lot < need
                             /\ n * lot < need => ~ FitsLimits((n + 1) * lot)
  <2>1. LotsAccepted(p, n) <=>
          /\ FitsLimits(n * plan.policy[Week].multiple)
          /\ (n - 1) * plan.policy[Week].multiple < Most(plan.policy[Week].moq, Raw(p))
          /\ n * plan.policy[Week].multiple < Most(plan.policy[Week].moq, Raw(p)) =>
               ~ FitsLimits((n + 1) * plan.policy[Week].multiple)
    BY Zenon DEF LotsAccepted
  <2> DEFINE asked == Most(plan.policy[Week].moq, Raw(p))
  <2>2. asked = need
    BY <1>4
  <2>3. LotsAccepted(p, n) <=> /\ FitsLimits(n * lot)
                               /\ (n - 1) * lot < asked
                               /\ n * lot < asked => ~ FitsLimits((n + 1) * lot)
    BY <2>1
  <2> HIDE DEF asked, lot, need
  <2> QED BY <2>2, <2>3, Zenon
<1>10. c = (need + lot - 1) \div lot /\ l = limit \div lot
  OBVIOUS
<1> HIDE DEF lot, need, limit
<1>8. /\ Least(c, l) \in Nat
      /\ n = Least(c, l) <=> /\ n * lot <= limit
                             /\ n > 0 => (n - 1) * lot < need
                             /\ n * lot < need => ~ ((n + 1) * lot <= limit)
  BY <1>1, <1>3, <1>10, LotsChosen, Zenon
<1> HIDE DEF c, l
<1>9. n + 1 \in Nat \ {0} /\ n > 0
  OBVIOUS
<1>11. /\ FitsLimits(n * lot) <=> n * lot <= limit
       /\ FitsLimits((n + 1) * lot) <=> (n + 1) * lot <= limit
  BY <1>5, <1>9
<1>12. LotsAccepted(p, n) <=> n = Least(c, l)
  <2> DEFINE fits == n * lot <= limit
             moreFit == (n + 1) * lot <= limit
             short == n * lot < need
             lessShort == (n - 1) * lot < need
  <2>1. LotsAccepted(p, n) <=> fits /\ lessShort /\ (short => ~ moreFit)
    BY <1>7, <1>11
  <2>2. n = Least(c, l) <=> fits /\ (n > 0 => lessShort) /\ (short => ~ moreFit)
    BY <1>8
  <2> HIDE DEF fits, moreFit, short, lessShort
  <2> QED BY <1>9, <2>1, <2>2
<1> QED BY <1>6, <1>8, <1>12

\* "Fail closed" twice in the same way: the projection accepts the order the
\* guard of the evidence computes, and none where that accepts none.
THEOREM GuardsAgree ==
  ASSUME Types, phase = "DECIDE", NEW p \in Proposals, NEW v, v = ValidateAction(plan, Seen, p)
  PROVE  /\ v.accepted \in Nat
         /\ PlaceOrder(p) =>
              /\ v.accepted > 0
              /\ orders' = orders \cup {[placed |-> Week, arrival |-> v.arrival,
                                         quantity |-> v.accepted]}
              /\ pending' = AddSupply(pending, v.arrival, v.accepted)
         /\ OrderNothing(p) => v.accepted = 0
<1> DEFINE lot == plan.policy[Week].multiple
           lots == Lots(plan, Seen, p, Arrival)
           q == lots * lot
           placeable == Placeable(plan, Seen, p)
           s == Sized(plan, Seen, Dated(plan, Seen, p, Arrival))
<1>1. /\ plan \in Plan /\ Seen \in Observation /\ Seen.week = Week
      /\ lot \in Nat \ {0} /\ plan.policy[Week].moq \in Nat /\ plan.maxOrder \in Nat
  <2>1. plan \in Plan /\ Seen \in Observation /\ Week \in Bucket
    BY SeenType, WeekType, PlanAssumption DEF Types, TypeOK
  <2> QED BY <2>1, PlanType DEF Types, Policy, Seen
<1>2. v.accepted \in Nat /\ (~ placeable => v.accepted = 0)
  BY <1>1, ValidationPlaces, GuardCases
<1>3. \A n \in Nat \ {0} :
        Accepts(p, n) <=> placeable /\ LotsAccepted(p, n) /\ n * lot >= plan.policy[Week].moq
  <2> HIDE DEF placeable
  <2> QED BY PlacesAgree DEF Accepts, placeable
<1>4. ASSUME placeable
      PROVE  /\ Arrival \in Bucket /\ v = s /\ lots \in Nat
             /\ \A n \in Nat \ {0} : LotsAccepted(p, n) <=> n = lots
             /\ v.accepted = IF q <= 0 \/ q < plan.policy[Week].moq THEN 0 ELSE q
             /\ v.accepted > 0 => v.arrival = Arrival
             /\ lots > 0 => q <= plan.maxOrder
  <2>1. Arrival \in ArrivalBuckets
    BY <1>4, PlacesAgree, ArrivalType
  <2>2. Arrival \in Bucket
    BY <2>1 DEF ArrivalBuckets
  <2>3. v = s
    BY <1>1, <1>4, GuardCases, ArrivalsAgree
  <2>4. lots \in Nat /\ \A n \in Nat \ {0} : LotsAccepted(p, n) <=> n = lots
    <3>1. 1 \in Nat \ {0}
      OBVIOUS
    <3> QED BY <1>4, <3>1, LotsAgree
  <2>5. s.accepted = IF q <= 0 \/ q < plan.policy[Week].moq THEN 0 ELSE q
    BY <1>1, <1>4, <2>2, SizedInLots DEF Placeable
  <2>6. s.accepted > 0 => s.arrival = Arrival
    BY <1>1, <2>2, SizedPlaces
  <2>7. lots > 0 => q <= plan.maxOrder
    <3>1. lots > 0 => LotsAccepted(p, lots)
      BY <2>4
    <3> QED BY <3>1 DEF LotsAccepted, FitsLimits
  <2> HIDE DEF s, q, lots
  <2> QED BY <2>2, <2>3, <2>4, <2>5, <2>6, <2>7
<1> HIDE DEF s, placeable
<1>5. ASSUME PlaceOrder(p)
      PROVE  /\ v.accepted > 0
             /\ orders' = orders \cup {[placed |-> Week, arrival |-> v.arrival,
                                        quantity |-> v.accepted]}
             /\ pending' = AddSupply(pending, v.arrival, v.accepted)
  <2>1. PICK n \in 1..plan.maxOrder :
          /\ Accepts(p, n)
          /\ orders' = orders \cup {[placed |-> Week, arrival |-> Arrival,
                                     quantity |-> n * lot]}
          /\ pending' = AddSupply(pending, Arrival, n * lot)
    BY <1>5 DEF PlaceOrder
  <2>2. n \in Nat \ {0} /\ n * lot \in Nat \ {0}
    BY <1>1, ProductPositive
  <2>3. placeable /\ LotsAccepted(p, n) /\ n * lot >= plan.policy[Week].moq
    BY <1>3, <2>1, <2>2
  <2>4. n = lots
    BY <1>4, <2>2, <2>3
  <2>5. v.accepted = n * lot
    BY <1>1, <1>4, <2>2, <2>3, <2>4
  <2>6. v.accepted > 0 /\ v.arrival = Arrival
    BY <1>4, <2>2, <2>3, <2>5
  <2> QED BY <2>1, <2>5, <2>6
<1>6. ASSUME OrderNothing(p)
      PROVE  v.accepted = 0
  <2> SUFFICES ASSUME v.accepted # 0
               PROVE  FALSE
    OBVIOUS
  <2>1. placeable
    BY <1>2
  <2>2. q > 0 /\ q >= plan.policy[Week].moq
    <3>1. lots \in Nat
      BY <1>4, <2>1
    <3>2. q \in Nat
      BY <1>1, <3>1
    <3> HIDE DEF q
    <3> QED BY <1>1, <1>4, <2>1, <3>2
  <2>3. lots \in Nat \ {0}
    <3>1. lots \in Nat
      BY <1>4, <2>1
    <3> HIDE DEF lots
    <3>2. lots # 0
      BY <1>1, <2>2
    <3> QED BY <3>1, <3>2
  <2>4. lots \in 1..plan.maxOrder
    <3>1. q <= plan.maxOrder
      BY <1>4, <2>1, <2>3
    <3>2. lots <= q
      BY <1>1, <2>3, ProductAtLeast
    <3>3. q \in Int
      BY <1>1, <2>3
    <3> HIDE DEF lots, q
    <3> QED BY <1>1, <2>3, <3>1, <3>2, <3>3
  <2>5. Accepts(p, lots)
    BY <1>3, <1>4, <2>1, <2>2, <2>3
  <2> QED BY <1>6, <2>4, <2>5 DEF OrderNothing
<1> QED BY <1>2, <1>5, <1>6

-----------------------------------------------------------------------------
(* What the guard answers is possible on its face.                          *)

\* The early returns, field by field.
LEMMA BlankReads ==
  ASSUME NEW position, NEW raw, NEW target, NEW why, NEW due,
         NEW v, v = Blank(position, raw, target)
  PROVE  /\ Reads([v EXCEPT !.reasons = why],
                  position, raw, 0, 0, raw, None, None, None, target, "NO_ORDER", why)
         /\ Reads(Rejected(v, why),
                  position, raw, 0, 0, raw, None, None, None, None, "REJECTED", {why})
         /\ Reads(Rejected([v EXCEPT !.due = due], why),
                  position, raw, 0, 0, raw, due, None, None, None, "REJECTED", {why})
<1>1. Reads([v EXCEPT !.reasons = why],
            position, raw, 0, 0, raw, None, None, None, target, "NO_ORDER", why)
  BY DEF Blank, Reads
<1>2. Reads(Rejected(v, why),
            position, raw, 0, 0, raw, None, None, None, None, "REJECTED", {why})
  BY DEF Blank, Reads, Rejected
<1>3. Reads(Rejected([v EXCEPT !.due = due], why),
            position, raw, 0, 0, raw, due, None, None, None, "REJECTED", {why})
  BY DEF Blank, Reads, Rejected
<1> QED BY <1>1, <1>2, <1>3

\* Every answer of the guard, by the early return it comes from.
LEMMA ValidationReads ==
  ASSUME NEW src \in Plan, NEW o \in Observation, NEW p \in Proposals
  PROVE  LET v    == ValidateAction(src, o, p)
             at   == Position(o)
             raw  == Asked(o, p)
             due  == Start[o.week] + src.policy[o.week].lead
         IN \/ Reads(v, at, raw, 0, 0, raw, None, None, None, None,
                     "REJECTED", {"ACTION_NOT_APPROVED"})
            \/ /\ p.action = "ORDER_UP_TO"
               /\ Reads(v, at, raw, 0, 0, raw, None, None, None, None,
                        "REJECTED", {"TARGET_OUTSIDE_APPROVED_BOUNDS"})
            \/ /\ raw = 0
               /\ Reads(v, at, raw, 0, 0, raw, None, None, None, TargetOf(p), "NO_ORDER",
                        {IF p.action = "HOLD" THEN "HOLD" ELSE "NO_NET_REQUIREMENT"})
            \/ /\ raw # 0
               /\ Reads(v, at, raw, 0, 0, raw, None, None, None, None,
                        "REJECTED", {"ORDER_CALENDAR_CLOSED"})
            \/ /\ raw # 0
               /\ Reads(v, at, raw, 0, 0, raw, due, None, None, None,
                        "REJECTED", {"ARRIVAL_OUTSIDE_PLAN_HORIZON"})
            \/ /\ Placeable(src, o, p) /\ raw # 0
               /\ v = Sized(src, o, Dated(src, o, p, Min(Arrivals(src, o.week))))
<1> DEFINE v    == ValidateAction(src, o, p)
           at   == Position(o)
           raw  == Asked(o, p)
           due  == Start[o.week] + src.policy[o.week].lead
           u    == Unplaced(o, p)
           dated == [u EXCEPT !.due = due]
           outside == /\ p.action = "ORDER_UP_TO" /\ p.action \in src.allowed
                      /\ p.quantity \notin src.minTarget..src.maxTarget
           idle == {IF p.action = "HOLD" THEN "HOLD" ELSE "NO_NET_REQUIREMENT"}
<1>1. u = Blank(at, raw, TargetOf(p))
  BY UnplacedIsBlank
<1>2. raw \in Nat /\ u.raw = raw
  BY AskedType
<1>3. CASE p.action \notin src.allowed
  <2>1. v = Rejected(u, "ACTION_NOT_APPROVED")
    BY <1>3, Zenon DEF ValidateAction
  <2> HIDE DEF u, v, raw, at
  <2>2. Reads(v, at, raw, 0, 0, raw, None, None, None, None,
              "REJECTED", {"ACTION_NOT_APPROVED"})
    BY <1>1, <2>1, BlankReads
  <2> QED BY <2>2, Zenon DEF v, raw, at
<1>4. CASE outside
  <2>1. v = Rejected(u, "TARGET_OUTSIDE_APPROVED_BOUNDS")
    BY <1>4, Zenon DEF ValidateAction
  <2> HIDE DEF u, v, raw, at
  <2>2. Reads(v, at, raw, 0, 0, raw, None, None, None, None,
              "REJECTED", {"TARGET_OUTSIDE_APPROVED_BOUNDS"})
    BY <1>1, <2>1, BlankReads
  <2> QED BY <1>4, <2>2, Zenon DEF v, raw, at
<1>5. CASE ~ (p.action \notin src.allowed) /\ ~ outside
  <2>1. CASE u.raw = 0
    <3>1. v = [u EXCEPT !.reasons = idle]
      BY <1>5, <2>1 DEF ValidateAction
    <3> HIDE DEF u, v, raw, at, idle
    <3>2. Reads(v, at, raw, 0, 0, raw, None, None, None, TargetOf(p), "NO_ORDER", idle)
      BY <1>1, <3>1, BlankReads
    <3> QED BY <1>2, <2>1, <3>2, Zenon DEF v, raw, at, idle
  <2>2. CASE u.raw # 0 /\ o.week \notin src.orderDates
    <3>1. v = Rejected(u, "ORDER_CALENDAR_CLOSED")
      BY <1>5, <2>2 DEF ValidateAction
    <3> HIDE DEF u, v, raw, at
    <3>2. Reads(v, at, raw, 0, 0, raw, None, None, None, None,
                "REJECTED", {"ORDER_CALENDAR_CLOSED"})
      BY <1>1, <3>1, BlankReads
    <3> QED BY <1>2, <2>2, <3>2, Zenon DEF v, raw, at
  <2>3. CASE u.raw # 0 /\ o.week \in src.orderDates /\ Arrivals(src, o.week) = {}
    <3>1. v = Rejected(dated, "ARRIVAL_OUTSIDE_PLAN_HORIZON")
      BY <1>5, <2>3 DEF ValidateAction
    <3> HIDE DEF u, v, raw, at, due
    <3>2. Reads(v, at, raw, 0, 0, raw, due, None, None, None,
                "REJECTED", {"ARRIVAL_OUTSIDE_PLAN_HORIZON"})
      BY <1>1, <3>1, BlankReads
    <3> QED BY <1>2, <2>3, <3>2, Zenon DEF v, raw, at, due
  <2>4. CASE u.raw # 0 /\ o.week \in src.orderDates /\ Arrivals(src, o.week) # {}
    <3>1. Placeable(src, o, p)
      <4>1. u.raw > 0
        BY <1>2, <2>4
      <4> HIDE DEF u
      <4> QED BY <1>5, <2>4, <4>1 DEF Placeable, u
    <3> QED BY <1>2, <2>4, <3>1, GuardCases
  <2> QED BY <2>1, <2>2, <2>3, <2>4
<1> QED BY <1>3, <1>4, <1>5

\* The buckets an order may arrive in open on or after its due date.
LEMMA ArrivalsOpen ==
  ASSUME NEW src \in Plan, NEW o \in Observation, Arrivals(src, o.week) # {}
  PROVE  LET a   == Min(Arrivals(src, o.week))
             due == Start[o.week] + src.policy[o.week].lead
         IN /\ a \in Bucket /\ a >= o.week /\ due \in Nat /\ Start[a] \in Nat
            /\ Start[o.week] \in Nat /\ Start[o.week] <= due /\ due <= Start[a]
<1> DEFINE arrivals == Arrivals(src, o.week)
           a == Min(arrivals)
           due == Start[o.week] + src.policy[o.week].lead
<1>1. o.week \in Bucket /\ src.policy[o.week].lead \in Nat
  BY DEF Observation, Plan, Policy
<1>2. Start[o.week] \in Nat
  BY <1>1, CalendarAssumption
<1>3. \A b \in arrivals : b \in Bucket /\ b >= o.week /\ Start[b] >= due
  BY <1>1, HorizonType DEF Arrivals, Bucket
<1>4. arrivals \subseteq Nat
  BY <1>3 DEF Bucket
<1>5. a \in arrivals
  <2> HIDE DEF arrivals
  <2> QED BY <1>4, MinOf DEF arrivals
<1>6. a \in Bucket /\ a >= o.week /\ Start[a] >= due
  <2> HIDE DEF arrivals, a, due
  <2> QED BY <1>3, <1>5
<1>7. Start[a] \in Nat
  BY <1>6, CalendarAssumption
<1>8. due \in Nat /\ Start[o.week] <= due
  BY <1>1, <1>2
<1> HIDE DEF arrivals, a, due
<1> QED BY <1>2, <1>6, <1>7, <1>8 DEF arrivals, a, due

\* Rounding up never falls below what is asked, and fitting never exceeds the
\* room left.
LEMMA SizedBounds ==
  ASSUME NEW src \in Plan, NEW o \in Observation, NEW raw \in Nat \ {0}, NEW a \in Bucket
  PROVE  /\ RoundedUp(src, o, raw) \in Nat \ {0} /\ raw <= RoundedUp(src, o, raw)
         /\ Fitted(src, o, raw, a) \in Nat
         /\ Fitted(src, o, raw, a) <= RoundedUp(src, o, raw)
         /\ Headroom(src, o, a) # None => Fitted(src, o, raw, a) <= Headroom(src, o, a)
<1> DEFINE lot == src.policy[o.week].multiple
           need == Most(src.policy[o.week].moq, raw)
           c == (need + lot - 1) \div lot
           limit == Limit(src, o, a)
           l == limit \div lot
           room == Headroom(src, o, a)
<1>1. src.policy[o.week].moq \in Nat /\ lot \in Nat \ {0} /\ src.maxOrder \in Nat
  BY DEF Plan, Policy, Observation
<1>2. need \in Nat \ {0} /\ raw <= need
  BY <1>1 DEF Most
<1>3. limit \in Nat /\ room \in Nat \cup {None}
  BY SizedQuantities
<1>4. room # None => limit <= room
  BY <1>1, <1>3 DEF Limit, Least
<1>5. RoundedUp(src, o, raw) = c * lot
  BY Zenon DEF RoundedUp
<1>6. Fitted(src, o, raw, a) = Least(c * lot, l * lot)
  BY <1>5, Zenon DEF Fitted
<1> HIDE DEF need, limit, room, lot
<1>7. c \in Nat \ {0} /\ ~ (c * lot < need)
  <2>1. c \in Nat \ {0} /\ (c * lot < need <=> c < c)
    <3>1. (need + lot - 1) \div lot \in Int
      BY <1>1, <1>2, LotsFallShort
    <3> QED BY <1>1, <1>2, <3>1, LotsFallShort
  <2> HIDE DEF c
  <2> QED BY <2>1
<1>8. l \in Nat /\ l * lot <= limit
  BY <1>1, <1>3, RoundsDown
<1> HIDE DEF c, l
<1>9. c * lot \in Nat \ {0} /\ l * lot \in Nat
  <2>1. c * lot \in Nat \ {0}
    BY <1>1, <1>7, ProductPositive
  <2>2. l * lot \in Nat
    BY <1>1, <1>8
  <2> QED BY <2>1, <2>2
<1> DEFINE x == c * lot
           y == l * lot
<1>10. x \in Nat \ {0} /\ y \in Nat /\ need <= x /\ y <= limit
  BY <1>2, <1>7, <1>8, <1>9
<1> HIDE DEF x, y
<1>11. Least(x, y) \in Nat /\ Least(x, y) <= x /\ Least(x, y) <= y
  BY <1>10 DEF Least
<1>12. RoundedUp(src, o, raw) = x /\ Fitted(src, o, raw, a) = Least(x, y)
  BY <1>5, <1>6 DEF x, y
<1>13. Fitted(src, o, raw, a) \in Nat /\ Fitted(src, o, raw, a) <= x
       /\ Fitted(src, o, raw, a) <= limit
  BY <1>3, <1>10, <1>11, <1>12
<1>14. RoundedUp(src, o, raw) \in Nat \ {0} /\ raw <= RoundedUp(src, o, raw)
  BY <1>2, <1>10, <1>12
<1>15. room # None => Fitted(src, o, raw, a) <= room
  BY <1>3, <1>4, <1>13
<1> QED BY <1>12, <1>13, <1>14, <1>15 DEF room

\* What is asked, as the check computes it from the position of the validation.
LEMMA AskedOf ==
  ASSUME NEW o, NEW p
  PROVE  Asked(o, p) = IF p.action = "ORDER_UP_TO" THEN Most(0, p.quantity - Position(o))
                                                   ELSE p.quantity
BY DEF Asked

\* A validation that places nothing is consistent.
LEMMA EmptyConsistent ==
  ASSUME NEW p, NEW w \in Bucket, NEW at, NEW raw \in Nat, NEW due, NEW target, NEW status,
         NEW reasons, NEW v,
         Reads(v, at, raw, 0, 0, raw, due, None, None, target, status, reasons),
         raw = IF p.action = "ORDER_UP_TO" THEN Most(0, p.quantity - at) ELSE p.quantity,
         due # None => due \in Nat /\ Start[w] <= due,
         \/ /\ status = "NO_ORDER" /\ raw = 0 /\ due = None /\ target = TargetOf(p)
            /\ reasons = {IF p.action = "HOLD" THEN "HOLD" ELSE "NO_NET_REQUIREMENT"}
         \/ /\ status = "REJECTED" /\ target = None
            /\ \/ due = None /\ reasons = {"ACTION_NOT_APPROVED"}
               \/ due = None /\ raw # 0 /\ reasons = {"ORDER_CALENDAR_CLOSED"}
               \/ /\ due = None /\ reasons = {"TARGET_OUTSIDE_APPROVED_BOUNDS"}
                  /\ p.action = "ORDER_UP_TO"
               \/ due # None /\ raw # 0 /\ reasons = {"ARRIVAL_OUTSIDE_PLAN_HORIZON"}
  PROVE  StatusConsistent(v, p, w)
<1>1. /\ v.position = at /\ v.raw = raw /\ v.rounded = 0 /\ v.accepted = 0
      /\ v.uncovered = raw /\ v.due = due /\ v.arrival = None /\ v.headroom = None
      /\ v.target = target /\ v.status = status /\ v.reasons = reasons
  BY DEF Reads
<1>2. v.uncovered = Most(0, v.raw - v.accepted)
  <2>1. raw - 0 = raw /\ Most(0, raw) = raw
    BY DEF Most
  <2> QED BY <1>1, <2>1
<1>3. /\ v.raw = IF p.action = "ORDER_UP_TO" THEN Most(0, p.quantity - v.position)
                                             ELSE p.quantity
      /\ v.accepted <= v.rounded
      /\ v.headroom # None => v.accepted <= v.headroom
      /\ v.due # None => Start[w] <= v.due
      /\ v.arrival # None => v.due # None /\ v.due <= Start[v.arrival]
  BY <1>1
<1>4. CASE status = "NO_ORDER"
  <2>1. /\ v.status = "NO_ORDER"
        /\ v.raw = 0 /\ v.rounded = 0 /\ v.accepted = 0 /\ v.due = None /\ v.arrival = None
        /\ v.target = TargetOf(p)
        /\ v.reasons = {IF p.action = "HOLD" THEN "HOLD" ELSE "NO_NET_REQUIREMENT"}
    BY <1>1, <1>4
  <2> QED BY <1>2, <1>3, <2>1, Zenon DEF StatusConsistent, TargetOf
<1>5. CASE status = "REJECTED"
  <2>1. v.status = "REJECTED" /\ v.accepted = 0 /\ v.target = None
    BY <1>1, <1>5
  <2>2. \/ /\ v.reasons \in {{"ACTION_NOT_APPROVED"}, {"ORDER_CALENDAR_CLOSED"},
                             {"TARGET_OUTSIDE_APPROVED_BOUNDS"}}
           /\ v.rounded = 0 /\ v.due = None /\ v.arrival = None /\ v.headroom = None
           /\ "ORDER_CALENDAR_CLOSED" \in v.reasons => v.raw > 0
           /\ "TARGET_OUTSIDE_APPROVED_BOUNDS" \in v.reasons => p.action = "ORDER_UP_TO"
        \/ /\ v.reasons = {"ARRIVAL_OUTSIDE_PLAN_HORIZON"}
           /\ v.raw > 0 /\ v.rounded = 0
           /\ v.due # None /\ v.arrival = None /\ v.headroom = None
    BY <1>1, <1>5
  <2> QED BY <1>2, <1>3, <2>1, <2>2, Zenon DEF StatusConsistent
<1> QED BY <1>4, <1>5

\* The guard never contradicts the check of a validation.
THEOREM ValidationConsistent ==
  ASSUME NEW src \in Plan, NEW o \in Observation, NEW p \in Proposals
  PROVE  StatusConsistent(ValidateAction(src, o, p), p, o.week)
<1> DEFINE v    == ValidateAction(src, o, p)
           w    == o.week
           at   == Position(o)
           raw  == Asked(o, p)
           due  == Start[o.week] + src.policy[o.week].lead
           a    == Min(Arrivals(src, o.week))
           rounded == RoundedUp(src, o, raw)
           fitted  == Fitted(src, o, raw, a)
           room    == Headroom(src, o, a)
           why     == Adjustments(raw, rounded, fitted, due, Start[a])
<1>1. w \in Bucket /\ raw \in Nat
  BY AskedType DEF Observation
<1>2. raw = IF p.action = "ORDER_UP_TO" THEN Most(0, p.quantity - at) ELSE p.quantity
  BY AskedOf
<1>3. due \in Nat /\ Start[w] <= due /\ due # None
  <2>1. src.policy[w].lead \in Nat /\ Start[w] \in Nat
    BY <1>1, CalendarAssumption DEF Plan, Policy
  <2>2. due \in Nat /\ Start[w] <= due
    BY <2>1
  <2> QED BY <2>2, NoneAssumption
<1>4. CASE /\ Placeable(src, o, p) /\ raw # 0
           /\ v = Sized(src, o, Dated(src, o, p, a))
  <2>1. /\ a \in Bucket /\ Start[a] \in Nat /\ due <= Start[a] /\ a # None
    <3>1. a \in Bucket /\ Start[a] \in Nat /\ due <= Start[a]
      BY <1>4, ArrivalsOpen DEF Placeable
    <3>2. a \in Nat
      BY <3>1 DEF Bucket
    <3> QED BY <3>1, <3>2, NoneAssumption
  <2>2. /\ rounded \in Nat \ {0} /\ raw <= rounded /\ fitted \in Nat /\ fitted <= rounded
        /\ room # None => fitted <= room
        /\ room \in Nat \cup {None}
    <3>1. raw \in Nat \ {0}
      BY <1>1, <1>4
    <3> HIDE DEF raw, a
    <3>2. room \in Nat \cup {None}
      BY <2>1, <3>1, SizedQuantities
    <3> QED BY <2>1, <3>1, <3>2, SizedBounds
  <2>3. TooLittle(src, o, raw, a) <=> fitted <= 0 \/ fitted < src.policy[o.week].moq
    BY Zenon DEF TooLittle
  <2>4. \/ Reads(v, at, raw, rounded, 0, raw, due, a, room, None,
                 "REJECTED", {"NO_FEASIBLE_ORDER_QUANTITY"})
        \/ /\ ~ (fitted <= 0)
           /\ Reads(v, at, raw, rounded, fitted, Most(0, raw - fitted), due, a, room,
                    TargetOf(p), IF why = {} THEN "ACCEPTED" ELSE "ADJUSTED",
                    IF why = {} THEN {"CONSTRAINTS_PASSED"} ELSE why)
    BY <1>4, <2>3, SizedReads, Zenon
  <2> HIDE DEF v, w, at, raw, due, a, rounded, fitted, room
  <2>5. CASE Reads(v, at, raw, rounded, 0, raw, due, a, room, None,
                   "REJECTED", {"NO_FEASIBLE_ORDER_QUANTITY"})
    <3>1. /\ v.position = at /\ v.raw = raw /\ v.rounded = rounded /\ v.accepted = 0
          /\ v.uncovered = raw /\ v.due = due /\ v.arrival = a /\ v.headroom = room
          /\ v.target = None /\ v.status = "REJECTED"
          /\ v.reasons = {"NO_FEASIBLE_ORDER_QUANTITY"}
      BY <2>5 DEF Reads
    <3>2. v.uncovered = Most(0, v.raw - v.accepted)
      <4>1. raw - 0 = raw /\ Most(0, raw) = raw
        BY <1>1 DEF Most
      <4> QED BY <3>1, <4>1
    <3>3. /\ v.raw = IF p.action = "ORDER_UP_TO" THEN Most(0, p.quantity - v.position)
                                                 ELSE p.quantity
          /\ v.accepted <= v.rounded
          /\ v.headroom # None => v.accepted <= v.headroom
          /\ v.due # None => Start[w] <= v.due
          /\ v.arrival # None => v.due # None /\ v.due <= Start[v.arrival]
      BY <1>2, <1>3, <2>1, <2>2, <3>1
    <3>4. /\ v.raw > 0 /\ v.rounded >= v.raw /\ v.rounded > 0
          /\ v.due # None /\ v.arrival # None
      BY <1>1, <1>3, <1>4, <2>1, <2>2, <3>1
    <3>5. StatusConsistent(v, p, w)
      BY <3>1, <3>2, <3>3, <3>4, Zenon DEF StatusConsistent
    <3> QED BY <3>5 DEF v, w
  <2>6. CASE /\ ~ (fitted <= 0)
             /\ Reads(v, at, raw, rounded, fitted, Most(0, raw - fitted), due, a, room,
                      TargetOf(p), IF why = {} THEN "ACCEPTED" ELSE "ADJUSTED",
                      IF why = {} THEN {"CONSTRAINTS_PASSED"} ELSE why)
    <3>1. /\ v.position = at /\ v.raw = raw /\ v.rounded = rounded /\ v.accepted = fitted
          /\ v.uncovered = Most(0, raw - fitted)
          /\ v.due = due /\ v.arrival = a /\ v.headroom = room /\ v.target = TargetOf(p)
      BY <2>6, Zenon DEF Reads
    <3>2. /\ v.status = (IF why = {} THEN "ACCEPTED" ELSE "ADJUSTED")
          /\ v.reasons = (IF why = {} THEN {"CONSTRAINTS_PASSED"} ELSE why)
      BY <2>6, Zenon DEF Reads
    <3>3. v.uncovered = Most(0, v.raw - v.accepted)
      BY <3>1
    <3>4. /\ v.raw = IF p.action = "ORDER_UP_TO" THEN Most(0, p.quantity - v.position)
                                                 ELSE p.quantity
          /\ v.accepted <= v.rounded
          /\ v.headroom # None => v.accepted <= v.headroom
          /\ v.due # None => Start[w] <= v.due
          /\ v.arrival # None => v.due # None /\ v.due <= Start[v.arrival]
      BY <1>2, <1>3, <2>1, <2>2, <3>1
    <3>5. /\ v.accepted > 0 /\ v.rounded >= v.raw /\ v.rounded > 0
          /\ v.due # None /\ v.arrival # None
      BY <1>1, <1>3, <1>4, <2>1, <2>2, <2>6, <3>1
    <3>6. v.target = IF p.action = "ORDER_UP_TO" THEN p.quantity ELSE None
      BY <3>1 DEF TargetOf
    <3>7. why = {r \in {"ROUND_UP", "REDUCTION", "ROUNDED_FORWARD"} :
                   \/ r = "ROUND_UP" /\ v.rounded # v.raw
                   \/ r = "REDUCTION" /\ v.accepted # v.rounded
                   \/ r = "ROUNDED_FORWARD" /\ v.due # Start[v.arrival]}
      BY <3>1, Zenon DEF Adjustments
    <3> HIDE DEF why
    <3>8. /\ v.status \in {"ACCEPTED", "ADJUSTED"}
          /\ v.reasons = IF v.status = "ADJUSTED" THEN why
                         ELSE IF why = {} THEN {"CONSTRAINTS_PASSED"} ELSE {}
      BY <3>2
    <3>9. StatusConsistent(v, p, w)
      BY <3>3, <3>4, <3>5, <3>6, <3>7, <3>8, Zenon DEF StatusConsistent
    <3> QED BY <3>9 DEF v, w
  <2> QED BY <2>4, <2>5, <2>6
<1>5. CASE \/ Reads(v, at, raw, 0, 0, raw, None, None, None, None,
                    "REJECTED", {"ACTION_NOT_APPROVED"})
           \/ /\ p.action = "ORDER_UP_TO"
              /\ Reads(v, at, raw, 0, 0, raw, None, None, None, None,
                       "REJECTED", {"TARGET_OUTSIDE_APPROVED_BOUNDS"})
           \/ /\ raw = 0
              /\ Reads(v, at, raw, 0, 0, raw, None, None, None, TargetOf(p), "NO_ORDER",
                       {IF p.action = "HOLD" THEN "HOLD" ELSE "NO_NET_REQUIREMENT"})
           \/ /\ raw # 0
              /\ Reads(v, at, raw, 0, 0, raw, None, None, None, None,
                       "REJECTED", {"ORDER_CALENDAR_CLOSED"})
           \/ /\ raw # 0
              /\ Reads(v, at, raw, 0, 0, raw, due, None, None, None,
                       "REJECTED", {"ARRIVAL_OUTSIDE_PLAN_HORIZON"})
  <2> HIDE DEF v, w, at, raw, due
  <2>1. StatusConsistent(v, p, w)
    BY <1>1, <1>2, <1>3, <1>5, EmptyConsistent
  <2> QED BY <2>1 DEF v, w
<1> QED BY <1>4, <1>5, ValidationReads, Zenon

\* An accepted order arrives in a bucket of the plan, never before its week.
LEMMA ValidationArrives ==
  ASSUME NEW src \in Plan, NEW o \in Observation, NEW p \in Proposals
  PROVE  LET v == ValidateAction(src, o, p)
         IN /\ v.accepted \in Nat
            /\ v.accepted > 0 => v.arrival \in Bucket /\ v.arrival >= o.week
<1> DEFINE v == ValidateAction(src, o, p)
           a == Min(Arrivals(src, o.week))
<1>1. v.accepted \in Nat
  BY ValidationPlaces
<1>2. ASSUME v.accepted > 0
      PROVE  v.arrival \in Bucket /\ v.arrival >= o.week
  <2>1. Placeable(src, o, p) /\ v = Sized(src, o, Dated(src, o, p, a))
    BY <1>2, GuardCases
  <2>2. a \in Bucket /\ a >= o.week
    BY <2>1, ArrivalsOpen DEF Placeable
  <2> HIDE DEF a, v
  <2>3. v.arrival = a
    BY <1>2, <2>1, <2>2, SizedPlaces
  <2> QED BY <2>2, <2>3
<1> QED BY <1>1, <1>2

-----------------------------------------------------------------------------
(* What a run without a slip leaves.                                        *)

\* The stock the rows of a projection leave a week with.
OpenedOn(input, s, w) ==
  IF w = 1 THEN input.stock
  ELSE [available |-> s[w - 1].eoh, reserved |-> input.stock.reserved,
        backorder |-> s[w - 1].backorderClose]

\* The supply under way after the decision of a week, and before it.
UnderWay(ds, w) == Supplied(ds[w].observation.pending, ds[w].validation)
ShownBefore(input, ds, w) ==
  IF w = 1 THEN Unordered(input) ELSE DropSupply(UnderWay(ds, w - 1), w - 1)

\* A decision was made on what the rows and the decisions before it leave.
DecidedAs(input, ds, s, w) ==
  ds[w].observation = [week |-> w, stock |-> OpenedOn(input, s, w),
                       pending |-> ShownBefore(input, ds, w)]

\* A row is advanced from what the one before it leaves, and receives what the
\* decisions leave to receive.
RolledAs(input, ds, s, w) ==
  s[w] = Advance(OpenedOn(input, s, w), input.demand[w], UnderWay(ds, w).confirmed[w],
                 UnderWay(ds, w).recommended[w])

\* The orders decisions place.
OrdersOf(ds, S) ==
  {[placed |-> w, arrival |-> ds[w].validation.arrival,
    quantity |-> ds[w].validation.accepted] : w \in {w \in S : ds[w].validation.accepted > 0}}

\* A sealed row rolls forward from what its bucket opened on and received.
SealedFrom(r, row, t, d, i, q, cap) ==
  /\ row \in SealedRow /\ Balanced(row)
  /\ row.boh = t.available /\ row.reserved = t.reserved /\ row.backorderOpen = t.backorder
  /\ row.order = d.order /\ row.forecast = d.forecast
  /\ row.confirmed = i /\ row.recommended = q
  /\ row.eoh = r.eoh /\ row.backorderClose = r.backorderClose
  /\ row.excess = Excess(row, cap)

\* The sealed row of an advanced bucket does.
LEMMA AdvancedIsSealed ==
  ASSUME NEW t \in Stock, NEW d \in Demand, NEW i \in Nat, NEW q \in Nat,
         NEW cap \in Nat \cup {NoCap}
  PROVE  LET r == Advance(t, d, i, q)
         IN SealedFrom(r, PsiRow(r, d, t.reserved, cap), t, d, i, q, cap)
<1> DEFINE r == Advance(t, d, i, q)
           row == PsiRow(r, d, t.reserved, cap)
           open == r.backorderClose + r.fulfilledOrder - d.order
           forBacklog == Least(r.available, open)
           available == t.available + i + q
           b == ForBacklog(t, i, q)
           o == ForOrder(t, d, i, q)
           f == ForForecast(t, d, i, q)
<1>1. /\ r.boh = t.available /\ r.inbound = i /\ r.recommended = q /\ r.available = available
      /\ r.fulfilledOrder = b + o /\ r.fulfilledForecast = f
      /\ r.eoh = AfterOrder(t, d, i, q) - f
      /\ r.backorderClose = t.backorder + d.order - b - o
      /\ r.shortage = d.forecast - f
  BY AdvanceDef
<1>2. /\ available \in Nat /\ t.backorder \in Nat /\ d.order \in Nat /\ d.forecast \in Nat
      /\ b \in Nat /\ o \in Nat /\ f \in Nat
  BY AdvanceParts, Zenon
<1>3. /\ b = Least(available, t.backorder)
      /\ o = Least(available - b, d.order)
      /\ AfterOrder(t, d, i, q) = (available - b) - o
      /\ f = Least((available - b) - o, d.forecast)
  BY Zenon DEF ForBacklog, ForOrder, ForForecast, AfterBacklog, AfterOrder
<1>4. r \in Row
  BY AdvanceType
<1>5. t.available \in Nat /\ t.reserved \in Nat
  BY DEF Stock
<1>6. /\ row.boh = r.boh /\ row.reserved = t.reserved /\ row.onHandOpen = r.boh + t.reserved
      /\ row.confirmed = r.inbound /\ row.recommended = r.recommended
      /\ row.available = r.available /\ row.backorderOpen = open /\ row.order = d.order
      /\ row.forecast = d.forecast /\ row.fulfilledBacklog = forBacklog
      /\ row.fulfilledOrder = r.fulfilledOrder - forBacklog
      /\ row.fulfilledForecast = r.fulfilledForecast /\ row.eoh = r.eoh
      /\ row.onHandClose = r.eoh + t.reserved /\ row.backorderClose = r.backorderClose
      /\ row.shortage = r.shortage
      /\ row.excess = IF cap = NoCap THEN 0 ELSE Most(0, r.available + t.reserved - cap)
  BY DEF PsiRow
<1>7. row \in SealedRow
  BY <1>4, <1>5, PsiRowType
<1>8. available = r.boh + i + q
  BY <1>1
<1>9. row.excess = Excess(row, cap)
  BY <1>6 DEF Excess
<1> HIDE DEF r, row, available, b, o, f
<1>10. open = t.backorder
  BY <1>1, <1>2
<1>11. forBacklog = b
  BY <1>1, <1>3, <1>10
<1> HIDE DEF open, forBacklog
<1>12. row.fulfilledOrder = o
  BY <1>1, <1>2, <1>6, <1>11
<1>13. Balanced(row)
  <2>1. row.onHandOpen = row.boh + row.reserved /\ row.onHandClose = row.eoh + row.reserved
        /\ row.available = row.boh + row.confirmed + row.recommended
    BY <1>1, <1>6, <1>8
  <2>2. row.available = row.eoh + row.fulfilledBacklog + row.fulfilledOrder + row.fulfilledForecast
    BY <1>1, <1>2, <1>3, <1>6, <1>11, <1>12
  <2>3. row.backorderOpen + row.order
          = row.backorderClose + row.fulfilledBacklog + row.fulfilledOrder
    BY <1>1, <1>2, <1>6, <1>10, <1>11, <1>12
  <2>4. row.shortage = row.forecast - row.fulfilledForecast
    BY <1>1, <1>6
  <2>5. /\ row.fulfilledBacklog = Least(row.available, row.backorderOpen)
        /\ row.fulfilledOrder = Least(row.available - row.fulfilledBacklog, row.order)
        /\ row.fulfilledForecast
             = Least(row.available - row.fulfilledBacklog - row.fulfilledOrder, row.forecast)
    BY <1>1, <1>3, <1>6, <1>10, <1>11, <1>12
  <2> QED BY <2>1, <2>2, <2>3, <2>4, <2>5, Zenon DEF Balanced
<1>14. SealedFrom(r, row, t, d, i, q, cap)
  BY <1>1, <1>6, <1>7, <1>9, <1>10, <1>13 DEF SealedFrom
<1> QED BY <1>14 DEF r, row

\* What the rows leave a week with is a stock.
LEMMA OpenedOnType ==
  ASSUME NEW input \in Plan, NEW s \in Seq(Row), NEW w \in 1..(Len(s) + 1)
  PROVE  /\ OpenedOn(input, s, w) \in Stock
         /\ OpenedOn(input, s, w).reserved = input.stock.reserved
<1>1. input.stock \in Stock
  BY DEF Plan
<1>2. ASSUME w # 1
      PROVE  s[w - 1] \in Row
  BY <1>2
<1>3. w # 1 => s[w - 1].eoh \in Nat /\ s[w - 1].backorderClose \in Nat
  BY <1>2 DEF Row
<1> QED BY <1>1, <1>3 DEF OpenedOn, Stock

\* A projection whose every row is advanced from what the one before it leaves
\* rolls forward, and shows what it opened on and received.
LEMMA ProjectionRolls ==
  ASSUME NEW input \in Plan, NEW s \in Seq(Row), Len(s) = Horizon,
         NEW i \in [Bucket -> Nat], NEW q \in [Bucket -> Nat],
         \A w \in Bucket : s[w] = Advance(OpenedOn(input, s, w), input.demand[w], i[w], q[w])
  PROVE  LET psi == PsiRows(s, input)
         IN /\ psi \in [Bucket -> SealedRow] /\ RollsForward(psi)
            /\ \A w \in Bucket :
                 /\ OpenedOn(input, s, w) = [available |-> psi[w].boh, reserved |-> psi[w].reserved,
                                             backorder |-> psi[w].backorderOpen]
                 /\ psi[w].order = input.demand[w].order
                 /\ psi[w].forecast = input.demand[w].forecast
                 /\ psi[w].confirmed = i[w] /\ psi[w].recommended = q[w]
                 /\ psi[w].excess = Excess(psi[w], input.policy[w].cap)
            /\ psi[1].boh = input.stock.available /\ psi[1].reserved = input.stock.reserved
            /\ psi[1].onHandOpen = input.stock.available + input.stock.reserved
            /\ psi[1].backorderOpen = input.stock.backorder
<1> DEFINE psi == PsiRows(s, input)
           Opens(w) == OpenedOn(input, s, w)
<1>1. DOMAIN s = Bucket /\ 1 \in Bucket
  BY HorizonType DEF Bucket
<1>2. ASSUME NEW w \in Bucket
      PROVE  /\ psi[w] \in SealedRow /\ Balanced(psi[w])
             /\ psi[w].boh = Opens(w).available /\ psi[w].reserved = Opens(w).reserved
             /\ psi[w].backorderOpen = Opens(w).backorder
             /\ psi[w].order = input.demand[w].order
             /\ psi[w].forecast = input.demand[w].forecast
             /\ psi[w].confirmed = i[w] /\ psi[w].recommended = q[w]
             /\ psi[w].eoh = s[w].eoh /\ psi[w].backorderClose = s[w].backorderClose
             /\ psi[w].excess = Excess(psi[w], input.policy[w].cap)
             /\ Opens(w) \in Stock /\ Opens(w).reserved = input.stock.reserved
  <2> DEFINE t == Opens(w)
             d == input.demand[w]
             cap == input.policy[w].cap
  <2>1. w \in 1..(Len(s) + 1)
    BY HorizonType DEF Bucket
  <2>2. t \in Stock /\ t.reserved = input.stock.reserved
    BY <2>1, OpenedOnType
  <2>3. d \in Demand /\ cap \in Nat \cup {NoCap}
    BY DEF Plan, Policy
  <2>4. psi[w] = PsiRow(s[w], d, t.reserved, cap)
    BY <1>1, <2>2 DEF PsiRows
  <2>5. s[w] = Advance(t, d, i[w], q[w]) /\ i[w] \in Nat /\ q[w] \in Nat
    OBVIOUS
  <2>6. SealedFrom(s[w], psi[w], t, d, i[w], q[w], cap)
    BY <2>2, <2>3, <2>4, <2>5, AdvancedIsSealed
  <2> QED BY <2>2, <2>6, Zenon DEF SealedFrom, t, d, cap
<1>3. psi \in [Bucket -> SealedRow]
  <2>1. psi = [w \in Bucket |-> psi[w]]
    BY <1>1 DEF PsiRows
  <2> HIDE DEF psi
  <2> QED BY <1>2, <2>1
<1>4. ASSUME NEW w \in Bucket
      PROVE  Opens(w) = [available |-> psi[w].boh, reserved |-> psi[w].reserved,
                         backorder |-> psi[w].backorderOpen]
  <2> HIDE DEF psi, Opens
  <2> QED BY <1>2 DEF Stock
<1>5. ASSUME NEW w \in Bucket, w > 1
      PROVE  /\ psi[w].boh = psi[w - 1].eoh
             /\ psi[w].backorderOpen = psi[w - 1].backorderClose
             /\ psi[w].reserved = psi[w - 1].reserved
  <2>1. w - 1 \in Bucket /\ w # 1
    BY <1>5, HorizonType DEF Bucket
  <2>2. Opens(w).available = s[w - 1].eoh /\ Opens(w).backorder = s[w - 1].backorderClose
    BY <2>1 DEF OpenedOn
  <2> HIDE DEF psi, Opens
  <2> QED BY <1>2, <2>1, <2>2
<1>6. RollsForward(psi)
  <2> HIDE DEF psi
  <2> QED BY <1>2, <1>3, <1>5 DEF RollsForward, Balanced
<1>7. /\ psi[1].boh = input.stock.available /\ psi[1].reserved = input.stock.reserved
      /\ psi[1].onHandOpen = input.stock.available + input.stock.reserved
      /\ psi[1].backorderOpen = input.stock.backorder
  <2>1. Opens(1) = input.stock
    BY DEF OpenedOn
  <2> HIDE DEF psi, Opens
  <2>2. psi[1].onHandOpen = psi[1].boh + psi[1].reserved
    BY <1>1, <1>2 DEF Balanced
  <2> QED BY <1>1, <1>2, <2>1, <2>2
<1> HIDE DEF psi, Opens
<1> QED BY <1>2, <1>3, <1>4, <1>6, <1>7 DEF psi, Opens

\* Totals stop growing where nothing is added.
LEMMA RunningTotalStays ==
  ASSUME NEW f \in [Bucket -> Nat], NEW a \in 0..Horizon, \A b \in Bucket : b > a => f[b] = 0
  PROVE  RunningTotal(f)[Horizon] = RunningTotal(f)[a]
<1> DEFINE S == {n \in Nat : a + n <= Horizon => RunningTotal(f)[a + n] = RunningTotal(f)[a]}
<1>1. 0 \in S
  OBVIOUS
<1>2. ASSUME NEW n \in Nat, n \in S
      PROVE  n + 1 \in S
  <2>1. CASE a + (n + 1) <= Horizon
    <3> DEFINE b == a + (n + 1)
    <3>1. b \in Bucket /\ b - 1 = a + n /\ b > a /\ a + n <= Horizon /\ a + n \in 0..Horizon
      BY <2>1, HorizonType DEF Bucket
    <3>2. RunningTotal(f)[b] = RunningTotal(f)[a + n] + 0
      BY <3>1, RunningTotalDef
    <3>3. RunningTotal(f)[a + n] = RunningTotal(f)[a] /\ RunningTotal(f)[a + n] \in Nat
      BY <1>2, <3>1, RunningTotalType
    <3> QED BY <3>2, <3>3
  <2>2. CASE ~ (a + (n + 1) <= Horizon)
    BY <2>2
  <2> QED BY <2>1, <2>2
<1>3. Nat \subseteq S
  <2> HIDE DEF S
  <2> QED BY <1>1, <1>2, Induction
<1>4. Horizon - a \in Nat /\ a + (Horizon - a) = Horizon /\ Horizon - a \in S
  BY <1>3, HorizonType
<1> QED BY <1>4

\* A whole projection without a slip: every decision and every row.
WholeRun(input, ds, s) ==
  /\ ds \in Seq(Judgments(input)) /\ Len(ds) = Horizon
  /\ s \in Seq(Row) /\ Len(s) = Horizon
  /\ \A w \in Bucket : DecidedAs(input, ds, s, w) /\ RolledAs(input, ds, s, w)

\* What the decisions of each week send to a bucket.
Arriving(ds, b) ==
  [w \in Bucket |-> IF ds[w].validation.arrival = b THEN ds[w].validation.accepted ELSE 0]

\* A decision of the guard: what it was shown, what it accepts and when that arrives.
LEMMA JudgmentReads ==
  ASSUME NEW input \in Plan, NEW d \in Judgments(input)
  PROVE  /\ d.observation.week \in Bucket /\ d.observation.pending \in Ledger
         /\ d.validation.accepted \in Nat
         /\ d.validation.accepted > 0 => /\ d.validation.arrival \in Bucket
                                         /\ d.validation.arrival >= d.observation.week
         /\ Supplied(d.observation.pending, d.validation) \in Ledger
         /\ \A b \in Bucket :
              LET l == d.observation.pending
                  u == Supplied(l, d.validation)
              IN /\ u.confirmed[b] = l.confirmed[b]
                 /\ u.recommended[b] = l.recommended[b]
                      + (IF d.validation.arrival = b THEN d.validation.accepted ELSE 0)
<1> DEFINE o == d.observation
           p == d.proposal
           v == d.validation
           l == o.pending
<1>1. o \in Observation /\ p \in Proposals /\ v = ValidateAction(input, o, p)
  BY JudgmentType
<1>2. o.week \in Bucket /\ l \in Ledger
  BY <1>1 DEF Observation
<1> HIDE DEF o, p, v, l
<1>3. v.accepted \in Nat /\ (v.accepted > 0 => v.arrival \in Bucket /\ v.arrival >= o.week)
  BY <1>1, ValidationArrives
<1>4. /\ Supplied(l, v) \in Ledger
      /\ \A b \in Bucket :
           /\ Supplied(l, v).confirmed[b] = l.confirmed[b]
           /\ Supplied(l, v).recommended[b]
                = l.recommended[b] + (IF v.arrival = b THEN v.accepted ELSE 0)
  BY <1>1, <1>2, SuppliedType
<1> QED BY <1>2, <1>3, <1>4, Zenon DEF o, v, l

\* The same of a decision of a whole projection.
LEMMA DecisionReads ==
  ASSUME NEW input \in Plan, NEW ds, NEW s, WholeRun(input, ds, s), NEW w \in Bucket
  PROVE  LET l == ds[w].observation.pending
             v == ds[w].validation
         IN /\ ds[w] \in Judgments(input)
            /\ ds[w].observation.week = w /\ ds[w].observation.stock = OpenedOn(input, s, w)
            /\ l = ShownBefore(input, ds, w)
            /\ l \in Ledger /\ UnderWay(ds, w) \in Ledger
            /\ v.accepted \in Nat
            /\ v.accepted > 0 => v.arrival \in Bucket /\ v.arrival >= w
            /\ \A b \in Bucket : Arriving(ds, b)[w] \in Nat
            /\ \A b \in Bucket :
                 /\ UnderWay(ds, w).confirmed[b] = l.confirmed[b]
                 /\ UnderWay(ds, w).recommended[b] = l.recommended[b] + Arriving(ds, b)[w]
<1> DEFINE d == ds[w]
           l == d.observation.pending
           v == d.validation
<1>1. d \in Judgments(input)
  <2> HIDE DEF Judgments
  <2> QED BY DEF WholeRun, Bucket
<1>2. d.observation = [week |-> w, stock |-> OpenedOn(input, s, w),
                       pending |-> ShownBefore(input, ds, w)]
  BY DEF WholeRun, DecidedAs
<1>3. d.observation.week = w /\ d.observation.stock = OpenedOn(input, s, w)
      /\ l = ShownBefore(input, ds, w)
  <2> HIDE DEF d
  <2> QED BY <1>2
<1>4. UnderWay(ds, w) = Supplied(l, v)
  BY Zenon DEF UnderWay
<1>5. \A b \in Bucket : Arriving(ds, b)[w] = IF v.arrival = b THEN v.accepted ELSE 0
  BY DEF Arriving
<1> HIDE DEF d
<1>6. /\ l \in Ledger /\ v.accepted \in Nat
      /\ v.accepted > 0 => v.arrival \in Bucket /\ v.arrival >= d.observation.week
      /\ Supplied(l, v) \in Ledger
      /\ \A b \in Bucket :
           /\ Supplied(l, v).confirmed[b] = l.confirmed[b]
           /\ Supplied(l, v).recommended[b]
                = l.recommended[b] + (IF v.arrival = b THEN v.accepted ELSE 0)
  BY <1>1, JudgmentReads, Zenon
<1>7. \A b \in Bucket : Arriving(ds, b)[w] \in Nat
  BY <1>5, <1>6
<1> HIDE DEF l, v
<1>8. /\ l \in Ledger /\ UnderWay(ds, w) \in Ledger
      /\ \A b \in Bucket :
           /\ UnderWay(ds, w).confirmed[b] = l.confirmed[b]
           /\ UnderWay(ds, w).recommended[b] = l.recommended[b] + Arriving(ds, b)[w]
  BY <1>4, <1>5, <1>6
<1>9. v.accepted \in Nat /\ (v.accepted > 0 => v.arrival \in Bucket /\ v.arrival >= w)
  BY <1>3, <1>6
<1> QED BY <1>1, <1>3, <1>7, <1>8, <1>9, Zenon DEF d, l, v

\* What is shown as due in a bucket to come: the receipt of the input, and what
\* the decisions before sent there.
LEMMA ShownIsArriving ==
  ASSUME NEW input \in Plan, NEW ds, NEW s, WholeRun(input, ds, s), NEW w \in Bucket,
         NEW b \in w..Horizon
  PROVE  /\ ds[w].observation.pending.confirmed[b] = input.receipt[b]
         /\ ds[w].observation.pending.recommended[b] = RunningTotal(Arriving(ds, b))[w - 1]
<1> DEFINE Shown(u) == ds[u].observation.pending
           Fits(u) == /\ Shown(u).confirmed[b] = input.receipt[b]
                      /\ Shown(u).recommended[b] = RunningTotal(Arriving(ds, b))[u - 1]
           S == {n \in Nat : n + 1 <= b => Fits(n + 1)}
<1>1. b \in Bucket /\ w \in Nat /\ b \in Nat /\ b <= Horizon
  BY HorizonType DEF Bucket
<1>2. ASSUME NEW u \in Bucket
      PROVE  Shown(u) = ShownBefore(input, ds, u)
  BY DecisionReads
<1>3. 0 \in S
  <2>1. 0 + 1 \in Bucket /\ 0 + 1 = 1 /\ 1 - 1 = 0
    BY HorizonType DEF Bucket
  <2>2. Shown(1) = Unordered(input)
    BY <1>2, <2>1 DEF ShownBefore
  <2>3. RunningTotal(Arriving(ds, b))[0] = 0
    BY RunningTotalDef
  <2> HIDE DEF Shown
  <2>4. Fits(1)
    BY <1>1, <2>1, <2>2, <2>3 DEF Unordered
  <2> HIDE DEF Fits
  <2> QED BY <2>1, <2>4
<1>4. ASSUME NEW n \in Nat, n \in S
      PROVE  n + 1 \in S
  <2>1. CASE (n + 1) + 1 <= b
    <3> DEFINE u == n + 1
    <3>1. u \in Bucket /\ u + 1 \in Bucket /\ u + 1 # 1 /\ (u + 1) - 1 = u /\ u # b /\ u <= b
          /\ u - 1 = n
      BY <1>1, <2>1, HorizonType DEF Bucket
    <3>2. Fits(u)
      <4> HIDE DEF Fits
      <4> QED BY <1>4, <3>1
    <3> HIDE DEF u
    <3>3. Shown(u + 1) = DropSupply(UnderWay(ds, u), u)
      BY <1>2, <3>1 DEF ShownBefore
    <3>4. /\ Shown(u) \in Ledger /\ UnderWay(ds, u) \in Ledger
          /\ UnderWay(ds, u).confirmed[b] = Shown(u).confirmed[b]
          /\ UnderWay(ds, u).recommended[b] = Shown(u).recommended[b] + Arriving(ds, b)[u]
      BY <1>1, <3>1, DecisionReads
    <3> DEFINE under == UnderWay(ds, u)
               dropped == DropSupply(under, u)
    <3>5. /\ dropped.confirmed = [under.confirmed EXCEPT ![u] = 0]
          /\ dropped.recommended = [under.recommended EXCEPT ![u] = 0]
      BY <3>1, <3>4, DropSupplyType
    <3>6. RunningTotal(Arriving(ds, b))[u]
            = RunningTotal(Arriving(ds, b))[u - 1] + Arriving(ds, b)[u]
      BY <3>1, RunningTotalDef
    <3> HIDE DEF under, dropped
    <3>7. /\ dropped.confirmed[b] = under.confirmed[b]
          /\ dropped.recommended[b] = under.recommended[b]
      <4>1. under.confirmed \in [Bucket -> Nat] /\ under.recommended \in [Bucket -> Nat]
        BY <3>4 DEF Ledger, under
      <4> QED BY <1>1, <3>1, <3>5, <4>1
    <3>8. Shown(u + 1) = dropped
      BY <3>3 DEF dropped, under
    <3> HIDE DEF Shown
    <3> DEFINE next == u + 1
               total == RunningTotal(Arriving(ds, b))
    <3>9. next - 1 = u /\ Shown(next) = dropped
      BY <3>1, <3>8
    <3>10. /\ dropped.confirmed[b] = input.receipt[b]
           /\ dropped.recommended[b] = total[u]
      <4>1. /\ dropped.confirmed[b] = Shown(u).confirmed[b]
            /\ dropped.recommended[b] = Shown(u).recommended[b] + Arriving(ds, b)[u]
        BY <3>4, <3>7 DEF under
      <4> QED BY <3>2, <3>6, <4>1
    <3> HIDE DEF next, total
    <3>11. Fits(next)
      BY <3>9, <3>10 DEF total
    <3> HIDE DEF Fits
    <3> QED BY <3>11 DEF u, next
  <2>2. CASE ~ ((n + 1) + 1 <= b)
    BY <2>2
  <2> QED BY <2>1, <2>2
<1>5. Nat \subseteq S
  <2> HIDE DEF S
  <2> QED BY <1>3, <1>4, Induction
<1>6. w - 1 \in Nat /\ (w - 1) + 1 = w /\ w <= b
  BY <1>1 DEF Bucket
<1>7. Fits(w)
  <2> HIDE DEF Fits
  <2> QED BY <1>5, <1>6
<1> QED BY <1>7

\* The replay of the check comes to what every observation was shown.
LEMMA RunReplays ==
  ASSUME NEW input \in Plan, NEW ds, NEW s, WholeRun(input, ds, s)
  PROVE  LedgerReplays(ds, input)
<1> DEFINE Body(t, w) == IF w = 1 THEN Unordered(input)
                         ELSE DropSupply(Supplied(t[w - 1], ds[w - 1].validation), w - 1)
           shown == [w \in Bucket |-> ds[w].observation.pending]
           ledger == CHOOSE t : t = [w \in Bucket |-> Body(t, w)]
           S == {n \in Nat : n + 1 <= Horizon => shown[n + 1] = ledger[n + 1]}
<1>1. ASSUME NEW w \in Bucket
      PROVE  shown[w] = Body(shown, w)
  <2>1. shown[w] = ShownBefore(input, ds, w)
    BY DecisionReads
  <2>2. ASSUME w # 1
        PROVE  w - 1 \in Bucket
    BY <2>2, HorizonType DEF Bucket
  <2>3. w # 1 => shown[w - 1] = ds[w - 1].observation.pending
    BY <2>2
  <2> HIDE DEF shown
  <2> QED BY <2>1, <2>3 DEF ShownBefore, UnderWay
<1>2. shown = [w \in Bucket |-> Body(shown, w)]
  <2>1. shown = [w \in Bucket |-> shown[w]]
    OBVIOUS
  <2> HIDE DEF shown
  <2> QED BY <1>1, <2>1
<1>3. \E t : t = [w \in Bucket |-> Body(t, w)]
  <2> HIDE DEF shown
  <2> QED BY <1>2
<1>4. ledger = [w \in Bucket |-> Body(ledger, w)]
  BY <1>3
<1> HIDE DEF shown, ledger
<1>5. 0 \in S
  <2>1. 0 + 1 \in Bucket /\ 0 + 1 = 1
    BY HorizonType DEF Bucket
  <2>2. shown[1] = Unordered(input)
    BY <1>1, <2>1
  <2>3. ledger[1] = Unordered(input)
    BY <1>4, <2>1
  <2> QED BY <2>1, <2>2, <2>3
<1>6. ASSUME NEW n \in Nat, n \in S
      PROVE  n + 1 \in S
  <2>1. CASE (n + 1) + 1 <= Horizon
    <3> DEFINE w == (n + 1) + 1
    <3>1. w \in Bucket /\ w # 1 /\ w - 1 = n + 1 /\ n + 1 <= Horizon
      BY <2>1, HorizonType DEF Bucket
    <3>2. shown[n + 1] = ledger[n + 1]
      BY <1>6, <3>1
    <3> HIDE DEF w
    <3>3. shown[w] = DropSupply(Supplied(shown[w - 1], ds[w - 1].validation), w - 1)
      BY <1>1, <3>1
    <3>4. ledger[w] = Body(ledger, w)
      BY <1>4, <3>1
    <3>5. shown[w] = ledger[w]
      BY <3>1, <3>2, <3>3, <3>4
    <3> QED BY <3>5 DEF w
  <2>2. CASE ~ ((n + 1) + 1 <= Horizon)
    BY <2>2
  <2> QED BY <2>1, <2>2
<1>7. Nat \subseteq S
  <2> HIDE DEF S
  <2> QED BY <1>5, <1>6, Induction
<1>8. \A w \in Bucket : ds[w].observation.pending = ledger[w]
  <2>1. ASSUME NEW w \in Bucket
        PROVE  ds[w].observation.pending = ledger[w]
    <3>1. w - 1 \in Nat /\ (w - 1) + 1 = w /\ w <= Horizon
      BY HorizonType DEF Bucket
    <3>2. shown[w] = ledger[w]
      BY <1>7, <3>1
    <3> QED BY <3>2 DEF shown
  <2> QED BY <2>1
<1> QED BY <1>8, Zenon DEF LedgerReplays, ledger, Supplied, Unordered

\* A bucket receives what is shown as due in it, and what its own decision adds:
\* in all, what the decisions of every week send there.
LEMMA RunReceives ==
  ASSUME NEW input \in Plan, NEW ds, NEW s, WholeRun(input, ds, s), NEW b \in Bucket
  PROVE  /\ UnderWay(ds, b).confirmed[b] = input.receipt[b]
         /\ UnderWay(ds, b).recommended[b] = RunningTotal(Arriving(ds, b))[Horizon]
         /\ UnderWay(ds, b).confirmed[b] \in Nat /\ UnderWay(ds, b).recommended[b] \in Nat
<1> DEFINE f == Arriving(ds, b)
           l == ds[b].observation.pending
           u == UnderWay(ds, b)
<1>1. b \in b..Horizon /\ b \in 0..Horizon /\ b \in Nat
  BY HorizonType DEF Bucket
<1>2. l.confirmed[b] = input.receipt[b] /\ l.recommended[b] = RunningTotal(f)[b - 1]
  BY <1>1, ShownIsArriving
<1>3. /\ u \in Ledger /\ u.confirmed[b] = l.confirmed[b]
      /\ u.recommended[b] = l.recommended[b] + f[b]
  BY DecisionReads
<1>4. f \in [Bucket -> Nat]
  <2>1. \A w \in Bucket : f[w] \in Nat
    BY DecisionReads
  <2>2. f = [w \in Bucket |-> f[w]]
    BY DEF Arriving
  <2> HIDE DEF f
  <2> QED BY <2>1, <2>2
<1>5. ASSUME NEW w \in Bucket, w > b
      PROVE  f[w] = 0
  <2> DEFINE v == ds[w].validation
  <2>1. v.accepted \in Nat /\ (v.accepted > 0 => v.arrival >= w)
    BY DecisionReads
  <2>2. f[w] = IF v.arrival = b THEN v.accepted ELSE 0
    BY DEF Arriving
  <2>3. w \in Nat
    BY DEF Bucket
  <2> HIDE DEF f, v
  <2> QED BY <1>1, <1>5, <2>1, <2>2, <2>3
<1>6. RunningTotal(f)[b] = RunningTotal(f)[b - 1] + f[b]
  BY RunningTotalDef
<1> HIDE DEF f, l, u
<1>7. RunningTotal(f)[Horizon] = RunningTotal(f)[b]
  BY <1>1, <1>4, <1>5, RunningTotalStays
<1>8. u.confirmed[b] \in Nat /\ u.recommended[b] \in Nat
  BY <1>3 DEF Ledger
<1>9. u.confirmed[b] = input.receipt[b] /\ u.recommended[b] = RunningTotal(f)[Horizon]
  BY <1>2, <1>3, <1>6, <1>7
<1> QED BY <1>8, <1>9 DEF f, u

\* The sealed rows of a whole projection.
LEMMA RunRolls ==
  ASSUME NEW input \in Plan, NEW ds, NEW s, WholeRun(input, ds, s)
  PROVE  LET psi == PsiRows(s, input)
         IN /\ psi \in [Bucket -> SealedRow] /\ RollsForward(psi) /\ BoundToSource(psi, input)
            /\ \A w \in Bucket :
                 /\ OpenedOn(input, s, w) = [available |-> psi[w].boh, reserved |-> psi[w].reserved,
                                             backorder |-> psi[w].backorderOpen]
                 /\ psi[w].confirmed = UnderWay(ds, w).confirmed[w]
                 /\ psi[w].recommended = UnderWay(ds, w).recommended[w]
<1> DEFINE psi == PsiRows(s, input)
           i == [w \in Bucket |-> UnderWay(ds, w).confirmed[w]]
           q == [w \in Bucket |-> UnderWay(ds, w).recommended[w]]
<1>1. i \in [Bucket -> Nat] /\ q \in [Bucket -> Nat] /\ \A w \in Bucket : i[w] = input.receipt[w]
  BY RunReceives
<1>2. \A w \in Bucket : i[w] = UnderWay(ds, w).confirmed[w] /\ q[w] = UnderWay(ds, w).recommended[w]
  OBVIOUS
<1>3. s \in Seq(Row) /\ Len(s) = Horizon
  BY DEF WholeRun
<1> HIDE DEF i, q
<1>4. \A w \in Bucket : s[w] = Advance(OpenedOn(input, s, w), input.demand[w], i[w], q[w])
  BY <1>2 DEF WholeRun, RolledAs
<1>5. /\ psi \in [Bucket -> SealedRow] /\ RollsForward(psi)
      /\ \A w \in Bucket :
           /\ OpenedOn(input, s, w) = [available |-> psi[w].boh, reserved |-> psi[w].reserved,
                                       backorder |-> psi[w].backorderOpen]
           /\ psi[w].order = input.demand[w].order
           /\ psi[w].forecast = input.demand[w].forecast
           /\ psi[w].confirmed = i[w] /\ psi[w].recommended = q[w]
           /\ psi[w].excess = Excess(psi[w], input.policy[w].cap)
      /\ psi[1].boh = input.stock.available /\ psi[1].reserved = input.stock.reserved
      /\ psi[1].onHandOpen = input.stock.available + input.stock.reserved
      /\ psi[1].backorderOpen = input.stock.backorder
  BY <1>1, <1>3, <1>4, ProjectionRolls
<1> HIDE DEF psi
<1>6. BoundToSource(psi, input)
  BY <1>1, <1>5 DEF BoundToSource, Excess
<1> QED BY <1>2, <1>5, <1>6 DEF psi

\* The evidence of a whole projection passes the check against its own input.
LEMMA RunHolds ==
  ASSUME NEW input \in Plan, NEW ds, NEW s, WholeRun(input, ds, s)
  PROVE  DecisionsHold(ds, PsiRows(s, input), input)
<1> DEFINE psi == PsiRows(s, input)
<1>1. /\ BoundToSource(psi, input)
      /\ \A w \in Bucket :
           /\ OpenedOn(input, s, w) = [available |-> psi[w].boh, reserved |-> psi[w].reserved,
                                       backorder |-> psi[w].backorderOpen]
           /\ psi[w].confirmed = UnderWay(ds, w).confirmed[w]
           /\ psi[w].recommended = UnderWay(ds, w).recommended[w]
  BY RunRolls
<1> HIDE DEF psi
<1>2. ASSUME NEW w \in Bucket
      PROVE  DecisionHolds(ds[w], w, psi, input)
  <2> DEFINE d == ds[w]
             o == d.observation
             v == d.validation
  <2>1. /\ d \in Judgments(input) /\ o.week = w /\ o.stock = OpenedOn(input, s, w)
        /\ UnderWay(ds, w).confirmed[w] = o.pending.confirmed[w]
        /\ UnderWay(ds, w).recommended[w] = o.pending.recommended[w] + Arriving(ds, w)[w]
    BY DecisionReads
  <2>2. Arriving(ds, w)[w] = IF v.arrival = w THEN v.accepted ELSE 0
    BY DEF Arriving
  <2> HIDE DEF d
  <2>3. o \in Observation /\ d.proposal \in Proposals /\ v = ValidateAction(input, o, d.proposal)
    BY <2>1, JudgmentType
  <2>4. StatusConsistent(v, d.proposal, w)
    BY <2>1, <2>3, ValidationConsistent
  <2>5. /\ o.stock = [available |-> psi[w].boh, reserved |-> psi[w].reserved,
                      backorder |-> psi[w].backorderOpen]
        /\ psi[w].confirmed = o.pending.confirmed[w]
        /\ psi[w].recommended = o.pending.recommended[w]
                                  + (IF v.arrival = w THEN v.accepted ELSE 0)
    BY <1>1, <2>1, <2>2
  <2>6. BoundToRow(d, psi)
    BY <2>1, <2>5, Zenon DEF BoundToRow
  <2>7. DecisionHolds(d, w, psi, input)
    BY <2>1, <2>3, <2>4, <2>6, Zenon DEF DecisionHolds
  <2> QED BY <2>7 DEF d
<1>3. ReceiptsReconcile(ds, psi)
  <2>1. \A b \in Bucket : psi[b].recommended = RunningTotal(Arriving(ds, b))[Horizon]
    BY <1>1, RunReceives
  <2> QED BY <2>1, Zenon DEF ReceiptsReconcile, Arriving
<1>4. Len(ds) = Horizon /\ LedgerReplays(ds, input)
  BY RunReplays DEF WholeRun
<1> QED BY <1>1, <1>2, <1>3, <1>4, Zenon DEF DecisionsHold, psi

\* A projection that has not slipped so far.
Honest ==
  slip = "NONE" /\ phase # "FAILED" =>
    /\ Len(decisions) = Len(rows) + (IF phase = "ADVANCE" THEN 1 ELSE 0)
    /\ \A w \in 1..Len(decisions) : DecidedAs(plan, decisions, rows, w)
    /\ \A w \in 1..Len(rows) : RolledAs(plan, decisions, rows, w)
    /\ pending = IF phase = "ADVANCE" THEN UnderWay(decisions, Len(decisions))
                 ELSE ShownBefore(plan, decisions, Len(decisions) + 1)
    /\ orders = OrdersOf(decisions, 1..Len(decisions))
    /\ source # None => source = plan /\ compared = PsiRows(baseline, plan)

HonestTypes == EvidenceTypes /\ BaselineExplained /\ Honest

\* A row more changes no opening of the weeks before, and opens the next.
LEMMA OpenedOnAppend ==
  ASSUME NEW input, NEW s \in Seq(Row), NEW r \in Row, NEW w \in 1..(Len(s) + 1)
  PROVE  OpenedOn(input, Append(s, r), w) = OpenedOn(input, s, w)
<1>1. w # 1 => w - 1 \in 1..Len(s)
  OBVIOUS
<1>2. w # 1 => Append(s, r)[w - 1] = s[w - 1]
  BY <1>1, AppendRow
<1> QED BY <1>2, Zenon DEF OpenedOn

\* A decision more changes nothing of those before, and adds its own supply.
LEMMA ShownAppend ==
  ASSUME NEW J, NEW ds \in Seq(J), NEW d \in J, NEW input
  PROVE  LET more == Append(ds, d)
         IN /\ more \in Seq(J) /\ Len(more) = Len(ds) + 1
            /\ more[Len(ds) + 1] = d
            /\ \A w \in 1..Len(ds) : more[w] = ds[w] /\ UnderWay(more, w) = UnderWay(ds, w)
            /\ UnderWay(more, Len(ds) + 1) = Supplied(d.observation.pending, d.validation)
            /\ \A w \in 1..(Len(ds) + 1) : ShownBefore(input, more, w) = ShownBefore(input, ds, w)
<1> DEFINE more == Append(ds, d)
<1>1. /\ more \in Seq(J) /\ Len(more) = Len(ds) + 1 /\ more[Len(ds) + 1] = d
      /\ \A w \in 1..Len(ds) : more[w] = ds[w]
  OBVIOUS
<1> HIDE DEF more
<1>2. \A w \in 1..Len(ds) : UnderWay(more, w) = UnderWay(ds, w)
  BY <1>1, Zenon DEF UnderWay
<1>3. UnderWay(more, Len(ds) + 1) = Supplied(d.observation.pending, d.validation)
  BY <1>1, Zenon DEF UnderWay
<1>4. ASSUME NEW w \in 1..(Len(ds) + 1)
      PROVE  ShownBefore(input, more, w) = ShownBefore(input, ds, w)
  <2>1. w # 1 => w - 1 \in 1..Len(ds)
    OBVIOUS
  <2>2. w # 1 => UnderWay(more, w - 1) = UnderWay(ds, w - 1)
    BY <1>2, <2>1
  <2> QED BY <2>2, Zenon DEF ShownBefore
<1> QED BY <1>1, <1>2, <1>3, <1>4 DEF more

\* A decision that is a judgment, with its parts.
LEMMA DecisionParts ==
  ASSUME NEW o, NEW p
  PROVE  /\ Decision(o, p).observation = o
         /\ Decision(o, p).validation = ValidateAction(plan, o, p)
<1> DEFINE v == ValidateAction(plan, o, p)
<1>1. Decision(o, p) = [observation |-> o, proposal |-> p, validation |-> v]
  BY Zenon DEF Decision
<1> HIDE DEF v
<1> QED BY <1>1 DEF v

\* An order more where the decision places one.
LEMMA OrdersAppend ==
  ASSUME NEW J, NEW ds \in Seq(J), NEW d \in J
  PROVE  LET n == Len(ds) + 1
         IN OrdersOf(Append(ds, d), 1..Len(Append(ds, d)))
              = OrdersOf(ds, 1..Len(ds))
                  \cup (IF d.validation.accepted > 0
                        THEN {[placed |-> n, arrival |-> d.validation.arrival,
                               quantity |-> d.validation.accepted]}
                        ELSE {})
<1> DEFINE more == Append(ds, d)
           n == Len(ds) + 1
<1>1. /\ Len(more) = n /\ more[n] = d /\ \A w \in 1..Len(ds) : more[w] = ds[w]
      /\ \A w : w \in 1..n <=> w \in 1..Len(ds) \/ w = n
  OBVIOUS
<1> HIDE DEF more, n
<1> DEFINE Placing(x, w) == [placed |-> w, arrival |-> x[w].validation.arrival,
                             quantity |-> x[w].validation.accepted]
           Ordering(x, w) == x[w].validation.accepted > 0
<1>2. \A w \in 1..Len(ds) :
        Placing(more, w) = Placing(ds, w) /\ (Ordering(more, w) <=> Ordering(ds, w))
  BY <1>1
<1>3. /\ Placing(more, n) = [placed |-> n, arrival |-> d.validation.arrival,
                             quantity |-> d.validation.accepted]
      /\ Ordering(more, n) <=> d.validation.accepted > 0
  BY <1>1
<1>4. \A x, S : OrdersOf(x, S) = {Placing(x, w) : w \in {w \in S : Ordering(x, w)}}
  BY Zenon DEF OrdersOf
<1> DEFINE new == [placed |-> n, arrival |-> d.validation.arrival,
                   quantity |-> d.validation.accepted]
           ordered == d.validation.accepted > 0
<1>5. Placing(more, n) = new /\ (Ordering(more, n) <=> ordered)
  BY <1>3
<1> HIDE DEF Placing, Ordering, new, ordered
<1>6. OrdersOf(more, 1..n) = OrdersOf(ds, 1..Len(ds)) \cup (IF ordered THEN {new} ELSE {})
  <2>1. ASSUME NEW x
        PROVE  x \in OrdersOf(more, 1..n)
                 <=> x \in OrdersOf(ds, 1..Len(ds)) \/ (ordered /\ x = new)
    <3>1. x \in OrdersOf(more, 1..n) <=> \E w \in 1..n : Ordering(more, w) /\ x = Placing(more, w)
      BY <1>4
    <3>2. x \in OrdersOf(ds, 1..Len(ds))
            <=> \E w \in 1..Len(ds) : Ordering(ds, w) /\ x = Placing(ds, w)
      BY <1>4
    <3> QED BY <1>1, <1>2, <1>5, <3>1, <3>2, Zenon
  <2> QED BY <2>1
<1> QED BY <1>1, <1>6, Zenon DEF more, n, new, ordered

\* A projection starts honest.
LEMMA HonestInit == EvidenceInit => HonestTypes
<1> SUFFICES ASSUME EvidenceInit
             PROVE  HonestTypes
  OBVIOUS
<1>1. /\ phase = "BASELINE" /\ baseline = <<>> /\ rows = <<>> /\ decisions = <<>>
      /\ pending = Unordered(plan) /\ orders = {} /\ source = None
  BY DEF EvidenceInit, Init, Unordered
<1>2. EvidenceTypes
  BY EvidenceInitTypes
<1>3. Len(rows) = 0 /\ Len(decisions) = 0 /\ Len(baseline) = 0
  BY <1>1
<1>4. BaselineExplained
  BY <1>3 DEF BaselineExplained
<1>5. orders = OrdersOf(decisions, 1..Len(decisions))
  BY <1>1, <1>3 DEF OrdersOf
<1>6. pending = ShownBefore(plan, decisions, Len(decisions) + 1)
  BY <1>1, <1>3 DEF ShownBefore
<1> QED BY <1>1, <1>2, <1>3, <1>4, <1>5, <1>6 DEF HonestTypes, Honest

\* The stock a bucket opens on, in both readings.
LEMMA CurrentOpens ==
  ASSUME Types
  PROVE  Current = OpenedOn(plan, rows, Len(rows) + 1)
<1>1. rows \in Seq(Row)
  BY DEF Types, TypeOK
<1>2. Len(rows) \in Nat /\ (rows = <<>> <=> Len(rows) = 0) /\ (Len(rows) + 1) - 1 = Len(rows)
  BY <1>1
<1>3. Len(rows) + 1 = 1 <=> Len(rows) = 0
  BY <1>2
<1> QED BY <1>2, <1>3 DEF Current, StockAfter, OpenedOn

\* A decision keeps the projection honest: what the guard of the projection does
\* is what the evidence records.
LEMMA HonestDecide ==
  ASSUME EvidenceTypes, Honest, NEW p \in Proposals, Decide(p)
  PROVE  Honest'
<1> DEFINE d == Decision(Seen, p)
           v == ValidateAction(plan, Seen, p)
           n == Len(decisions) + 1
<1>1. /\ phase = "DECIDE" /\ phase' = "ADVANCE"
      /\ decisions' = Append(decisions, d)
      /\ UNCHANGED <<plan, baseline, rows, slip, source, compared>>
  BY DEF Decide, PlaceOrder, OrderNothing
<1>2. SUFFICES ASSUME slip = "NONE"
               PROVE  Honest'
  BY <1>1 DEF Honest
<1>3. /\ Len(decisions) = Len(rows) + 0
      /\ \A w \in 1..Len(decisions) : DecidedAs(plan, decisions, rows, w)
      /\ \A w \in 1..Len(rows) : RolledAs(plan, decisions, rows, w)
      /\ pending = ShownBefore(plan, decisions, n)
      /\ orders = OrdersOf(decisions, 1..Len(decisions))
  BY <1>1, <1>2 DEF Honest
<1>4. /\ Types /\ source = None /\ rows \in Seq(Row) /\ Len(rows) \in Nat
      /\ decisions \in Seq(Judgments(plan))
  BY <1>1 DEF EvidenceTypes, Types, TypeOK
<1>5. Len(decisions) = Len(rows) /\ n = Len(rows) + 1 /\ n = Week /\ Week \in Bucket
  BY <1>1, <1>3, <1>4, WeekType
<1>6. Seen \in Observation /\ d \in Judgments(plan)
  <2>1. Seen \in Observation
    BY <1>1, <1>4, SeenType
  <2>2. \E x \in Observation, y \in Proposals :
          Decision(Seen, p) = [observation |-> x, proposal |-> y,
                               validation |-> ValidateAction(plan, x, y)]
    BY <2>1, Zenon DEF Decision
  <2> HIDE DEF d
  <2> QED BY <2>1, <2>2, SMT DEF Judgments, d
<1>7. d.observation = Seen /\ d.validation = v
  BY DecisionParts
<1>8. Seen = [week |-> n, stock |-> OpenedOn(plan, rows, n), pending |-> pending]
  <2>1. Current = OpenedOn(plan, rows, n)
    BY <1>4, <1>5, CurrentOpens
  <2> HIDE DEF n
  <2> QED BY <1>5, <2>1, Zenon DEF Seen
<1> HIDE DEF d, v
<1>9. /\ Len(decisions') = n /\ decisions'[n] = d
      /\ \A w \in 1..Len(decisions) :
           decisions'[w] = decisions[w] /\ UnderWay(decisions', w) = UnderWay(decisions, w)
      /\ UnderWay(decisions', n) = Supplied(d.observation.pending, d.validation)
      /\ \A w \in 1..n : ShownBefore(plan, decisions', w) = ShownBefore(plan, decisions, w)
  <2> DEFINE J == Judgments(plan)
             more == Append(decisions, d)
  <2>1. decisions \in Seq(J) /\ d \in J
    BY <1>4, <1>6
  <2> HIDE DEF J
  <2>2. /\ Len(more) = n /\ more[n] = d
        /\ \A w \in 1..Len(decisions) :
             more[w] = decisions[w] /\ UnderWay(more, w) = UnderWay(decisions, w)
        /\ UnderWay(more, n) = Supplied(d.observation.pending, d.validation)
        /\ \A w \in 1..n : ShownBefore(plan, more, w) = ShownBefore(plan, decisions, w)
    BY <2>1, ShownAppend
  <2>3. decisions' = more
    BY <1>1
  <2> HIDE DEF more, n
  <2> QED BY <2>2, <2>3
<1>10. ASSUME NEW w \in 1..n
       PROVE  DecidedAs(plan, decisions', rows, w)
  <2>1. CASE w = n
    <3>1. decisions'[n].observation = [week |-> n, stock |-> OpenedOn(plan, rows, n),
                                       pending |-> ShownBefore(plan, decisions', n)]
      <4>1. ShownBefore(plan, decisions', n) = pending
        BY <1>3, <1>4, <1>9
      <4> QED BY <1>7, <1>8, <1>9, <4>1
    <3> QED BY <2>1, <3>1 DEF DecidedAs
  <2>2. CASE w # n
    <3>1. w \in 1..Len(decisions)
      BY <1>4, <1>5, <2>2
    <3>2. DecidedAs(plan, decisions, rows, w)
      BY <1>3, <3>1
    <3>3. /\ decisions'[w] = decisions[w]
          /\ ShownBefore(plan, decisions', w) = ShownBefore(plan, decisions, w)
      BY <1>9, <3>1
    <3> HIDE DEF n
    <3> QED BY <3>2, <3>3, Zenon DEF DecidedAs
  <2> QED BY <2>1, <2>2
<1>11. ASSUME NEW w \in 1..Len(rows)
       PROVE  RolledAs(plan, decisions', rows, w)
  <2>1. RolledAs(plan, decisions, rows, w) /\ UnderWay(decisions', w) = UnderWay(decisions, w)
    BY <1>3, <1>5, <1>9
  <2> QED BY <2>1, Zenon DEF RolledAs
<1>12. UnderWay(decisions', n) = Supplied(pending, v)
  <2>1. d.observation.pending = pending
    BY <1>7, <1>8
  <2> QED BY <1>7, <1>9, <2>1
<1>13. /\ v.accepted \in Nat
       /\ PlaceOrder(p) =>
            /\ v.accepted > 0
            /\ orders' = orders \cup {[placed |-> Week, arrival |-> v.arrival,
                                       quantity |-> v.accepted]}
            /\ pending' = AddSupply(pending, v.arrival, v.accepted)
       /\ OrderNothing(p) => v.accepted = 0
  BY <1>1, <1>4, GuardsAgree, Zenon DEF v
<1>14. pending' = Supplied(pending, v)
       /\ orders' = orders \cup (IF v.accepted > 0
                                 THEN {[placed |-> n, arrival |-> v.arrival,
                                        quantity |-> v.accepted]}
                                 ELSE {})
  <2>1. CASE PlaceOrder(p)
    <3> HIDE DEF n
    <3> QED BY <1>5, <1>13, <2>1, Zenon DEF Supplied
  <2>2. CASE OrderNothing(p)
    <3>1. ~ (v.accepted > 0)
      BY <1>13, <2>2
    <3>2. pending' = pending /\ orders' = orders
      BY <2>2 DEF OrderNothing
    <3>3. Supplied(pending, v) = pending
      BY <3>1, Zenon DEF Supplied
    <3> QED BY <3>1, <3>2, <3>3
  <2> QED BY <2>1, <2>2 DEF Decide
<1>15. orders' = OrdersOf(decisions', 1..Len(decisions'))
  <2> DEFINE new == IF v.accepted > 0
                    THEN {[placed |-> n, arrival |-> v.arrival, quantity |-> v.accepted]}
                    ELSE {}
  <2>1. OrdersOf(decisions', 1..Len(decisions')) = OrdersOf(decisions, 1..Len(decisions)) \cup new
    <3> HIDE DEF Judgments
    <3> QED BY <1>1, <1>4, <1>6, <1>7, OrdersAppend, Zenon
  <2>2. orders' = orders \cup new
    BY <1>14
  <2> HIDE DEF new
  <2> QED BY <1>3, <2>1, <2>2
<1>16. source' = None
  BY <1>1, <1>4
<1> HIDE DEF n
<1>17. /\ Len(decisions') = Len(rows') + (IF phase' = "ADVANCE" THEN 1 ELSE 0)
       /\ \A w \in 1..Len(decisions') : DecidedAs(plan', decisions', rows', w)
       /\ \A w \in 1..Len(rows') : RolledAs(plan', decisions', rows', w)
       /\ pending' = UnderWay(decisions', Len(decisions'))
  BY <1>1, <1>5, <1>9, <1>10, <1>11, <1>12, <1>14
<1> QED BY <1>1, <1>15, <1>16, <1>17 DEF Honest

\* An advance keeps the projection honest: it receives what the decisions left to
\* receive.
LEMMA HonestBucket ==
  ASSUME EvidenceTypes, Honest, RunBucket
  PROVE  Honest'
<1> DEFINE n == Len(rows) + 1
           row == Advance(Current, plan.demand[n], pending.confirmed[n], pending.recommended[n])
<1>1. /\ phase = "ADVANCE" /\ phase' \in {"DECIDE", "DONE"}
      /\ pending' = DropSupply(pending, Week)
      /\ UNCHANGED <<plan, baseline, orders, decisions, slip, source, compared>>
  BY DEF RunBucket, AdvanceBucket
<1>2. SUFFICES ASSUME slip = "NONE"
               PROVE  Honest'
  BY <1>1 DEF Honest
<1>3. /\ Len(decisions) = Len(rows) + 1
      /\ \A w \in 1..Len(decisions) : DecidedAs(plan, decisions, rows, w)
      /\ \A w \in 1..Len(rows) : RolledAs(plan, decisions, rows, w)
      /\ pending = UnderWay(decisions, Len(decisions))
      /\ orders = OrdersOf(decisions, 1..Len(decisions))
  BY <1>1, <1>2 DEF Honest
<1>4. /\ Types /\ source = None /\ rows \in Seq(Row) /\ Len(rows) \in Nat
  BY <1>1 DEF EvidenceTypes, Types, TypeOK
<1>5. Week = n /\ n \in Bucket /\ row \in Row /\ rows' = Append(rows, row)
  <2>1. /\ Week \in Bucket /\ Week = n
        /\ LET r == Advance(Current, plan.demand[Week], pending.confirmed[Week],
                            pending.recommended[Week])
           IN r \in Row /\ rows' = Append(rows, r)
    BY <1>4, Advanced DEF RunBucket
  <2> HIDE DEF Week, n
  <2> QED BY <2>1
<1>6. row = Advance(OpenedOn(plan, rows, n), plan.demand[n], UnderWay(decisions, n).confirmed[n],
                    UnderWay(decisions, n).recommended[n])
  <2>1. Current = OpenedOn(plan, rows, n)
    BY <1>4, CurrentOpens
  <2>2. pending = UnderWay(decisions, n)
    BY <1>3
  <2> HIDE DEF n
  <2> QED BY <2>1, <2>2
<1> HIDE DEF row
<1>7. /\ Len(rows') = n /\ rows'[n] = row
      /\ \A w \in 1..Len(rows) : rows'[w] = rows[w]
  BY <1>4, <1>5, AppendRow
<1>8. \A w \in 1..n : OpenedOn(plan, rows', w) = OpenedOn(plan, rows, w)
  BY <1>4, <1>5, OpenedOnAppend
<1>9. ASSUME NEW w \in 1..Len(decisions)
      PROVE  DecidedAs(plan, decisions, rows', w)
  <2>1. DecidedAs(plan, decisions, rows, w) /\ OpenedOn(plan, rows', w) = OpenedOn(plan, rows, w)
    BY <1>3, <1>8
  <2> QED BY <2>1, Zenon DEF DecidedAs
<1>10. ASSUME NEW w \in 1..n
       PROVE  RolledAs(plan, decisions, rows', w)
  <2>1. OpenedOn(plan, rows', w) = OpenedOn(plan, rows, w)
    BY <1>8
  <2>2. CASE w = n
    <3> HIDE DEF n
    <3> QED BY <1>6, <1>7, <2>1, <2>2 DEF RolledAs
  <2>3. CASE w # n
    <3>1. w \in 1..Len(rows)
      BY <1>4, <2>3
    <3>2. RolledAs(plan, decisions, rows, w) /\ rows'[w] = rows[w]
      BY <1>3, <1>7, <3>1
    <3> QED BY <2>1, <3>2, Zenon DEF RolledAs
  <2> QED BY <2>2, <2>3
<1>11. pending' = ShownBefore(plan, decisions, Len(decisions) + 1)
  <2>1. n + 1 # 1 /\ (n + 1) - 1 = n /\ Len(decisions) = n
    BY <1>3, <1>4
  <2> HIDE DEF n
  <2> QED BY <1>1, <1>3, <1>5, <2>1 DEF ShownBefore
<1>12. Len(decisions) = n
  BY <1>3
<1> HIDE DEF n
<1>13. /\ Len(decisions') = Len(rows') + 0
       /\ \A w \in 1..Len(decisions') : DecidedAs(plan', decisions', rows', w)
       /\ \A w \in 1..Len(rows') : RolledAs(plan', decisions', rows', w)
       /\ pending' = ShownBefore(plan', decisions', Len(decisions') + 1)
       /\ orders' = OrdersOf(decisions', 1..Len(decisions'))
       /\ source' = None
  <2>1. Len(rows') + 0 = Len(rows')
    BY <1>5, <1>7 DEF Bucket
  <2> QED BY <1>1, <1>3, <1>4, <1>7, <1>9, <1>10, <1>11, <1>12, <2>1
<1> QED BY <1>1, <1>13 DEF Honest

\* Every step keeps a projection that has not slipped honest.
LEMMA HonestStep == HonestTypes /\ [EvidenceNext]_evidenceVars => HonestTypes'
<1> SUFFICES ASSUME HonestTypes, [EvidenceNext]_evidenceVars
             PROVE  HonestTypes'
  OBVIOUS
<1>1. EvidenceTypes /\ BaselineExplained /\ Honest /\ EvidenceTypes'
  BY EvidenceStepTypes DEF HonestTypes
<1>2. Types
  BY <1>1 DEF EvidenceTypes
<1>3. CASE RunBaseline
  <2>1. /\ phase = "BASELINE" /\ phase' \in {"BASELINE", "DECIDE"}
        /\ UNCHANGED <<plan, rows, pending, orders, decisions, slip, source, compared>>
    BY <1>3 DEF RunBaseline, BaselineBucket
  <2>2. source = None
    BY <1>1, <2>1 DEF EvidenceTypes
  <2>3. BaselineExplained'
    BY <1>1, <1>2, <1>3, BaselineStep DEF RunBaseline, Next
  <2>4. Honest'
    BY <1>1, <2>1, <2>2 DEF Honest
  <2> QED BY <1>1, <2>3, <2>4 DEF HonestTypes
<1>4. ASSUME UNCHANGED <<plan, baseline>>
      PROVE  BaselineExplained'
  BY <1>1, <1>4 DEF BaselineExplained, BaselineOpening
<1>5. ASSUME NEW p \in Proposals, Decide(p)
      PROVE  HonestTypes'
  <2>1. UNCHANGED <<plan, baseline>>
    BY <1>5 DEF Decide, PlaceOrder, OrderNothing
  <2>2. Honest'
    BY <1>1, <1>5, HonestDecide
  <2> QED BY <1>1, <1>4, <2>1, <2>2 DEF HonestTypes
<1>6. CASE RunBucket
  <2>1. UNCHANGED <<plan, baseline>>
    BY <1>6 DEF RunBucket, AdvanceBucket
  <2>2. Honest'
    BY <1>1, <1>6, HonestBucket
  <2> QED BY <1>1, <1>4, <2>1, <2>2 DEF HonestTypes
<1>7. CASE Seal
  <2>1. /\ phase = "DONE" /\ source' = plan /\ compared' = PsiRows(baseline, plan)
        /\ UNCHANGED <<plan, phase, baseline, rows, pending, orders, decisions, slip>>
    BY <1>7 DEF Seal, vars
  <2>2. Honest'
    BY <1>1, <2>1 DEF Honest
  <2> QED BY <1>1, <1>4, <2>1, <2>2 DEF HonestTypes
<1>8. ASSUME UNCHANGED <<plan, baseline>>, slip' # "NONE" \/ phase' = "FAILED"
      PROVE  HonestTypes'
  <2>1. Honest'
    BY <1>8 DEF Honest
  <2> QED BY <1>1, <1>4, <1>8, <2>1 DEF HonestTypes
<1>9. ASSUME NEW p \in Proposals, LoseOrder(p) \/ DecideOnStaleView(p)
      PROVE  HonestTypes'
  BY <1>8, <1>9 DEF LoseOrder, DecideOnStaleView
<1>10. CASE RunFails \/ ReopenStock \/ KeepSupply
  <2>1. UNCHANGED <<plan, baseline>> /\ (slip' # "NONE" \/ phase' = "FAILED")
    BY <1>10 DEF RunFails, StrategyFails, ReopenStock, KeepSupply, AdvanceWrongly
  <2> QED BY <1>8, <2>1
<1>11. ASSUME NEW other \in Plans, SealOther(other)
       PROVE  HonestTypes'
  BY <1>8, <1>11 DEF SealOther, vars
<1>12. CASE UNCHANGED evidenceVars
  <2>1. /\ UNCHANGED <<plan, phase, baseline, rows, pending, orders>>
        /\ UNCHANGED <<decisions, slip, source, compared>>
    BY <1>12 DEF evidenceVars, vars
  <2>2. Honest'
    BY <1>1, <2>1 DEF Honest
  <2> QED BY <1>1, <1>4, <2>1, <2>2 DEF HonestTypes
<1> QED BY <1>3, <1>5, <1>6, <1>7, <1>9, <1>10, <1>11, <1>12 DEF EvidenceNext

\* The baseline of the same run rolls forward too, and orders nothing.
LEMMA BaselineRolls ==
  ASSUME EvidenceTypes, BaselineExplained, phase = "DONE"
  PROVE  LET base == PsiRows(baseline, plan)
         IN /\ base \in [Bucket -> SealedRow] /\ RollsForward(base) /\ BoundToSource(base, plan)
            /\ \A b \in Bucket : base[b].recommended = 0
<1> DEFINE base == PsiRows(baseline, plan)
           none == [b \in Bucket |-> 0]
           receipt == plan.receipt
<1>1. /\ plan \in Plan /\ baseline \in Seq(Row) /\ Len(baseline) = Horizon
      /\ receipt \in [Bucket -> Nat]
  BY PlanAssumption, PlanType DEF EvidenceTypes, Types, TypeOK, Progress
<1>2. none \in [Bucket -> Nat] /\ \A b \in Bucket : none[b] = 0
  OBVIOUS
<1>3. \A b \in Bucket :
        baseline[b] = Advance(OpenedOn(plan, baseline, b), plan.demand[b], receipt[b], none[b])
  BY <1>1, <1>2, Zenon DEF BaselineExplained, BaselineOpening, OpenedOn, Bucket
<1> HIDE DEF none, receipt
<1>4. /\ base \in [Bucket -> SealedRow] /\ RollsForward(base)
      /\ \A b \in Bucket :
           /\ OpenedOn(plan, baseline, b)
                = [available |-> base[b].boh, reserved |-> base[b].reserved,
                   backorder |-> base[b].backorderOpen]
           /\ base[b].order = plan.demand[b].order
           /\ base[b].forecast = plan.demand[b].forecast
           /\ base[b].confirmed = receipt[b] /\ base[b].recommended = none[b]
           /\ base[b].excess = Excess(base[b], plan.policy[b].cap)
      /\ base[1].boh = plan.stock.available /\ base[1].reserved = plan.stock.reserved
      /\ base[1].onHandOpen = plan.stock.available + plan.stock.reserved
      /\ base[1].backorderOpen = plan.stock.backorder
  BY <1>1, <1>2, <1>3, ProjectionRolls, Zenon
<1> HIDE DEF base
<1>5. BoundToSource(base, plan)
  BY <1>4 DEF BoundToSource, Excess, receipt
<1> QED BY <1>2, <1>4, <1>5 DEF base

\* Children of the same source share what is outside the strategy.
LEMMA BoundAlike ==
  ASSUME NEW base, NEW psi, NEW src, BoundToSource(base, src), BoundToSource(psi, src)
  PROVE  SameOutside(base, psi)
BY DEF BoundToSource, SameOutside

\* Two programs written apart agree, for every calendar, input, strategy and
\* horizon: the evidence of a projection that ran without a slip passes
\* _validate_successful_build, compares with its baseline, and names exactly the
\* orders that were placed.
THEOREM HonestSound == EvidenceSpec => []HonestIsSealed
<1>1. HonestTypes => HonestIsSealed
  <2> SUFFICES ASSUME HonestTypes, source # None, slip = "NONE"
               PROVE  /\ Comparable
                      /\ orders = {[placed |-> w, arrival |-> decisions[w].validation.arrival,
                                    quantity |-> decisions[w].validation.accepted] :
                                     w \in {w \in Bucket : decisions[w].validation.accepted > 0}}
    BY Zenon DEF HonestIsSealed
  <2> DEFINE psi == PsiRows(rows, plan)
             base == PsiRows(baseline, plan)
  <2>1. EvidenceTypes /\ BaselineExplained /\ Honest /\ phase = "DONE"
    BY DEF HonestTypes, EvidenceTypes
  <2>2. /\ Len(decisions) = Len(rows) + 0 /\ Len(rows) = Horizon
        /\ \A w \in 1..Len(decisions) : DecidedAs(plan, decisions, rows, w)
        /\ \A w \in 1..Len(rows) : RolledAs(plan, decisions, rows, w)
        /\ orders = OrdersOf(decisions, 1..Len(decisions))
        /\ source = plan /\ compared = base
    BY <2>1 DEF Honest, EvidenceTypes
  <2>3. Len(decisions) = Horizon /\ plan \in Plan /\ WholeRun(plan, decisions, rows)
    <3>1. /\ plan \in Plan /\ rows \in Seq(Row) /\ decisions \in Seq(Judgments(plan))
      BY <2>1, PlanAssumption DEF EvidenceTypes, Types, TypeOK
    <3>2. Len(decisions) = Horizon
      BY <2>2, HorizonType
    <3> HIDE DEF Judgments
    <3> QED BY <2>2, <3>1, <3>2 DEF WholeRun, Bucket
  <2>4. orders = {[placed |-> w, arrival |-> decisions[w].validation.arrival,
                   quantity |-> decisions[w].validation.accepted] :
                     w \in {w \in Bucket : decisions[w].validation.accepted > 0}}
    BY <2>2, <2>3, Zenon DEF OrdersOf, Bucket
  <2>5. /\ RollsForward(base) /\ BoundToSource(base, plan)
        /\ base \in [Bucket -> SealedRow] /\ \A b \in Bucket : base[b].recommended = 0
    BY <2>1, BaselineRolls
  <2>6. RollsForward(psi) /\ BoundToSource(psi, plan) /\ DecisionsHold(decisions, psi, plan)
    BY <2>3, RunRolls, RunHolds
  <2> HIDE DEF psi, base
  <2>7. BaselineChild.psi = base /\ BaselineChild.metrics = Summarize(base)
    BY <2>2 DEF BaselineChild
  <2>8. BaselineValid(BaselineChild)
    BY <2>5, <2>7 DEF BaselineValid
  <2>9. /\ Child.psi = psi /\ Child.metrics = Summarize(psi)
        /\ Child.action.decisions = decisions /\ Child.action.source = plan
    BY <2>2 DEF Child, ActionArtifacts, psi
  <2>10. ChildValid(Child)
    BY <2>6, <2>9 DEF ChildValid, ActionsHold
  <2>11. SameOutside(BaselineChild.psi, Child.psi)
    BY <2>5, <2>6, <2>7, <2>9, BoundAlike
  <2>12. Comparable
    BY <2>8, <2>10, <2>11 DEF Comparable
  <2> QED BY <2>4, <2>12
<1>2. EvidenceSpec => []HonestTypes
  BY HonestInit, HonestStep, PTL DEF EvidenceSpec
<1> QED BY <1>1, <1>2, PTL

-----------------------------------------------------------------------------
(* What a shipment costs rests on what was known.                           *)

\* For a judgment, a revision holds all that another one does of what was known.
Foresees(q, r, judgment) ==
  /\ q.valuation = r.valuation
  /\ \A d, c, k : (\A x \in InEffect(r, d, c, k) : Known(x, r, judgment))
                    => InEffect(q, d, c, k) = InEffect(r, d, c, k)

\* What was known and in force is enough.
LEMMA ForeseenForesees ==
  ASSUME NEW content, NEW day, NEW judgment, NEW env
  PROVE  Foresees([content |-> Foreseen(content, day, judgment), valuation |-> day,
                   environment |-> env],
                  [content |-> content, valuation |-> day, environment |-> env], judgment)
BY DEF Foresees, InEffect, Known, Foreseen

\* Two revisions read alike for a shipment.
ReadsAlike(q, r, s) ==
  /\ q.valuation = r.valuation
  /\ Fx(q, s) = Fx(r, s) /\ Taxes(q, s) = Taxes(r, s) /\ Lanes(q, s) = Lanes(r, s)
  /\ \A l \in DOMAIN s.lines : /\ Classes(q, s, s.lines[l]) = Classes(r, s, s.lines[l])
                               /\ Origins(q, s.lines[l]) = Origins(r, s.lines[l])
                               /\ Tariffs(q, s, s.lines[l]) = Tariffs(r, s, s.lines[l])

\* The tariffs are those of the classes.
LEMMA TariffsForeseen ==
  ASSUME NEW q, NEW r, NEW s, NEW line, Foresees(q, r, s.judgment),
         \A x \in Tariffs(r, s, line) : Known(x, r, s.judgment),
         Classes(q, s, line) = Classes(r, s, line), Origins(q, line) = Origins(r, line)
  PROVE  Tariffs(q, s, line) = Tariffs(r, s, line)
<1>1. CASE Origins(r, line) = {}
  BY <1>1, Zenon DEF Tariffs
<1>2. CASE Origins(r, line) # {}
  <2> DEFINE of(v) == {InEffect(v, "CUSTOMS_TARIFF", s.country, c.value.code) :
                         c \in Classes(r, s, line)}
  <2>1. Tariffs(r, s, line) = UNION of(r) /\ Tariffs(q, s, line) = UNION of(q)
    BY <1>2, Zenon DEF Tariffs
  <2>2. ASSUME NEW c \in Classes(r, s, line)
        PROVE  InEffect(q, "CUSTOMS_TARIFF", s.country, c.value.code)
                 = InEffect(r, "CUSTOMS_TARIFF", s.country, c.value.code)
    <3>1. \A x \in InEffect(r, "CUSTOMS_TARIFF", s.country, c.value.code) : x \in Tariffs(r, s, line)
      BY <2>1
    <3> QED BY <3>1, Zenon DEF Foresees
  <2>3. of(q) = of(r)
    BY <2>2
  <2> QED BY <2>1, <2>3
<1> QED BY <1>1, <1>2

\* What a shipment that is not refused consults was known.
LEMMA ConsultedAlike ==
  ASSUME NEW q, NEW r, NEW s, Foresees(q, r, s.judgment), ~SourcesRefused(r, s)
  PROVE  ReadsAlike(q, r, s)
<1>1. /\ \A x \in Fx(r, s) : Known(x, r, s.judgment)
      /\ \A x \in Taxes(r, s) : Known(x, r, s.judgment)
      /\ \A x \in Lanes(r, s) : Known(x, r, s.judgment)
  BY Zenon DEF SourcesRefused
<1>2. Fx(q, s) = Fx(r, s) /\ Taxes(q, s) = Taxes(r, s) /\ Lanes(q, s) = Lanes(r, s)
  BY <1>1, Zenon DEF Foresees, Fx, Taxes, Lanes
<1>3. ASSUME NEW l \in DOMAIN s.lines
      PROVE  /\ Classes(q, s, s.lines[l]) = Classes(r, s, s.lines[l])
             /\ Origins(q, s.lines[l]) = Origins(r, s.lines[l])
             /\ Tariffs(q, s, s.lines[l]) = Tariffs(r, s, s.lines[l])
  <2> DEFINE line == s.lines[l]
             all == Classes(r, s, line) \cup Origins(r, line) \cup Tariffs(r, s, line)
  <2>1. \A x \in all : Known(x, r, s.judgment)
    BY <1>3, Zenon DEF SourcesRefused
  <2>2. /\ \A x \in Classes(r, s, line) : Known(x, r, s.judgment)
        /\ \A x \in Origins(r, line) : Known(x, r, s.judgment)
        /\ \A x \in Tariffs(r, s, line) : Known(x, r, s.judgment)
    BY <2>1
  <2>3. Classes(q, s, line) = Classes(r, s, line) /\ Origins(q, line) = Origins(r, line)
    BY <2>2, Zenon DEF Foresees, Classes, Origins
  <2> QED BY <2>2, <2>3, TariffsForeseen
<1> QED BY <1>2, <1>3, Zenon DEF ReadsAlike, Foresees

\* Then they convert alike.
LEMMA ConvertedAlike ==
  ASSUME NEW q, NEW r, NEW s, ReadsAlike(q, r, s)
  PROVE  /\ \A c : Rate(q, s, c) = Rate(r, s, c)
         /\ \A a, c : Converted(q, s, a, c) = Converted(r, s, a, c)
<1>1. Fx(q, s) = Fx(r, s)
  BY Zenon DEF ReadsAlike
<1>2. Quotes(q, s) = Quotes(r, s)
  BY <1>1, Zenon DEF Quotes
<1>3. ASSUME NEW c
      PROVE  Rate(q, s, c) = Rate(r, s, c)
  BY <1>2, Zenon DEF Rate
<1>4. ASSUME NEW a, NEW c
      PROVE  Converted(q, s, a, c) = Converted(r, s, a, c)
  BY <1>3, Zenon DEF Converted
<1> QED BY <1>3, <1>4

\* The same rules apply to a line.
LEMMA RulesAlike ==
  ASSUME NEW q, NEW r, NEW s, ReadsAlike(q, r, s), NEW l \in DOMAIN s.lines
  PROVE  Rules(q, s, s.lines[l]) = Rules(r, s, s.lines[l])
<1>1. /\ Origins(q, s.lines[l]) = Origins(r, s.lines[l])
      /\ Tariffs(q, s, s.lines[l]) = Tariffs(r, s, s.lines[l])
  BY Zenon DEF ReadsAlike
<1> QED BY <1>1, Zenon DEF Rules

\* And assess a line alike, whatever it is charged.
LEMMA AssessedAlike ==
  ASSUME NEW q, NEW r, NEW s, ReadsAlike(q, r, s), NEW l \in DOMAIN s.lines, NEW charges
  PROVE  /\ BlockingStatus(q, s, s.lines[l], charges) = BlockingStatus(r, s, s.lines[l], charges)
         /\ Assess(q, s, s.lines[l], charges) = Assess(r, s, s.lines[l], charges)
<1> DEFINE line == s.lines[l]
<1>1. /\ Taxes(q, s) = Taxes(r, s)
      /\ Classes(q, s, line) = Classes(r, s, line) /\ Origins(q, line) = Origins(r, line)
      /\ Tariffs(q, s, line) = Tariffs(r, s, line)
  BY Zenon DEF ReadsAlike
<1>2. /\ \A c : Rate(q, s, c) = Rate(r, s, c)
      /\ \A a, c : Converted(q, s, a, c) = Converted(r, s, a, c)
  BY ConvertedAlike
<1> HIDE DEF line
<1>3. Rules(q, s, line) = Rules(r, s, line)
  BY RulesAlike DEF line
<1>4. BlockingStatus(q, s, line, charges) = BlockingStatus(r, s, line, charges)
  BY <1>1, <1>2, <1>3, Zenon DEF BlockingStatus
<1>5. Goods(q, s, line) = Goods(r, s, line)
  BY <1>2, Zenon DEF Goods
<1>6. Charged(q, s, charges) = Charged(r, s, charges)
  <2>1. \A c \in charges : Part(c.type, Converted(q, s, c.amount, c.currency), c.customs, c.gross,
                                c.recoverable)
                           = Part(c.type, Converted(r, s, c.amount, c.currency), c.customs, c.gross,
                                  c.recoverable)
    BY <1>2, Zenon
  <2> QED BY <2>1 DEF Charged
<1>7. \A bears : Calculated(q, s, line, bears) = Calculated(r, s, line, bears)
  BY <1>1, <1>3, Zenon DEF Calculated
<1>8. Converted(q, s, line.value, line.currency) = Converted(r, s, line.value, line.currency)
  BY <1>2
<1>9. Assess(q, s, line, charges) = Assess(r, s, line, charges)
  BY <1>1, <1>3, <1>4, <1>5, <1>6, <1>7, <1>8, Zenon DEF Assess
<1> QED BY <1>4, <1>9 DEF line

\* A judgment on a document depends on the day alone.
LEMMA KnownAlike ==
  ASSUME NEW q, NEW r, NEW judgment, q.valuation = r.valuation
  PROVE  \A x : Known(x, q, judgment) = Known(x, r, judgment)
BY Zenon DEF Known

\* So the shipment is refused alike.
LEMMA RefusedAlike ==
  ASSUME NEW q, NEW r, NEW s, ReadsAlike(q, r, s)
  PROVE  /\ SourcesRefused(q, s) = SourcesRefused(r, s)
         /\ Missing(q, s) = Missing(r, s)
<1>1. \A x : Known(x, q, s.judgment) = Known(x, r, s.judgment)
  BY KnownAlike DEF ReadsAlike
<1>2. Fx(q, s) = Fx(r, s) /\ Taxes(q, s) = Taxes(r, s) /\ Lanes(q, s) = Lanes(r, s)
  BY Zenon DEF ReadsAlike
<1>3. \A l \in DOMAIN s.lines : /\ Classes(q, s, s.lines[l]) = Classes(r, s, s.lines[l])
                                /\ Origins(q, s.lines[l]) = Origins(r, s.lines[l])
                                /\ Tariffs(q, s, s.lines[l]) = Tariffs(r, s, s.lines[l])
                                /\ Rules(q, s, s.lines[l]) = Rules(r, s, s.lines[l])
  <2>1. \A l \in DOMAIN s.lines : Rules(q, s, s.lines[l]) = Rules(r, s, s.lines[l])
    BY RulesAlike
  <2> QED BY <2>1, Zenon DEF ReadsAlike
<1>4. ASSUME NEW l \in DOMAIN s.lines
      PROVE  BlockingStatus(q, s, s.lines[l], s.lines[l].charges)
               = BlockingStatus(r, s, s.lines[l], s.lines[l].charges)
  BY AssessedAlike
<1>5. SourcesRefused(q, s) = SourcesRefused(r, s)
  BY <1>1, <1>2, <1>3 DEF SourcesRefused
<1>6. Missing(q, s) = Missing(r, s)
  BY <1>2, <1>4 DEF Missing
<1> QED BY <1>5, <1>6

\* Where physical attributes are consulted, they were known too.
LEMMA AllocatedAlike ==
  ASSUME NEW q, NEW r, NEW s, ReadsAlike(q, r, s), Foresees(q, r, s.judgment),
         ~AllocationRefused(r, s)
  PROVE  /\ ~AllocationRefused(q, s)
         /\ \A l \in DOMAIN s.lines : ChargesOf(q, s, l) = ChargesOf(r, s, l)
<1>1. ASSUME NEW l \in DOMAIN s.lines
      PROVE  /\ Physicals(q, s.lines[l]) = Physicals(r, s.lines[l])
             /\ Factor(q, s, l) = Factor(r, s, l)
  <2>1. \A x \in Physicals(r, s.lines[l]) : Known(x, r, s.judgment)
    BY <1>1, Zenon DEF AllocationRefused
  <2>2. Physicals(q, s.lines[l]) = Physicals(r, s.lines[l])
    BY <2>1, Zenon DEF Foresees, Physicals
  <2>3. Assess(q, s, s.lines[l], s.lines[l].charges) = Assess(r, s, s.lines[l], s.lines[l].charges)
    BY <1>1, AssessedAlike
  <2> QED BY <2>2, <2>3, Zenon DEF Factor
<1>2. /\ \A c : Rate(q, s, c) = Rate(r, s, c)
      /\ \A a, c : Converted(q, s, a, c) = Converted(r, s, a, c)
  BY ConvertedAlike
<1>3. Lanes(q, s) = Lanes(r, s) /\ \A x : Known(x, q, s.judgment) = Known(x, r, s.judgment)
  BY KnownAlike DEF ReadsAlike
<1>4. ~AllocationRefused(q, s)
  BY <1>1, <1>2, <1>3 DEF AllocationRefused
<1>5. \A lane : LaneTotal(q, s, lane) = LaneTotal(r, s, lane)
  BY <1>2, Zenon DEF LaneTotal
<1>6. [k \in DOMAIN s.lines |-> Factor(q, s, k)] = [k \in DOMAIN s.lines |-> Factor(r, s, k)]
  BY <1>1
<1>7. ASSUME NEW l \in DOMAIN s.lines
      PROVE  ChargesOf(q, s, l) = ChargesOf(r, s, l)
  <2> DEFINE factor(v) == [k \in DOMAIN s.lines |-> Factor(v, s, k)]
             borne(v, x) == [type |-> x.value.type, currency |-> s.currency,
                             customs |-> x.value.customs, gross |-> TRUE, recoverable |-> FALSE,
                             amount |-> Allocate(LaneTotal(v, s, x.value), factor(v))[l]]
  <2>1. \A v : ChargesOf(v, s, l) = s.lines[l].charges \cup {borne(v, x) : x \in Lanes(v, s)}
    BY Zenon DEF ChargesOf
  <2>2. factor(q) = factor(r)
    BY <1>6
  <2> HIDE DEF factor
  <2>3. \A x : borne(q, x) = borne(r, x)
    BY <1>5, <2>2, Zenon
  <2> HIDE DEF borne
  <2>4. {borne(q, x) : x \in Lanes(q, s)} = {borne(r, x) : x \in Lanes(r, s)}
    BY <1>3, <2>3
  <2> QED BY <2>1, <2>4, Zenon
<1> QED BY <1>4, <1>7

\* A price that is not refused rests on nothing but what was known and in force.
LEMMA PricedAlike ==
  ASSUME NEW q, NEW r, NEW s, Foresees(q, r, s.judgment),
         PriceShipment(r, s).status # "REFUSED"
  PROVE  PriceShipment(q, s) = PriceShipment(r, s)
<1> DEFINE first(v) == [l \in DOMAIN s.lines |-> Assess(v, s, s.lines[l], s.lines[l].charges)]
           last(v)  == [l \in DOMAIN s.lines |-> Assess(v, s, s.lines[l], ChargesOf(v, s, l))]
           blocked(a) == Unpriced(IF a.status = "CALCULABLE" THEN "NOT_CALCULABLE" ELSE a.status)
           refused(v) == \/ ~ShipmentValid(s) \/ SourcesRefused(v, s)
                         \/ \E l \in DOMAIN first(v) : first(v)[l].status = "REFUSED"
                         \/ s.exempt \cap {x.value.type : x \in Lanes(v, s)} # {}
<1>1. ASSUME NEW v
      PROVE  PriceShipment(v, s) =
               IF refused(v) THEN Refusal
               ELSE IF Missing(v, s) # {}
               THEN [status |-> "NOT_CALCULABLE", why |-> Missing(v, s), net |-> None,
                     rows |-> [l \in DOMAIN first(v) |-> blocked(first(v)[l])]]
               ELSE IF AllocationRefused(v, s) THEN Refusal
               ELSE [status |-> "CALCULABLE", why |-> {}, rows |-> last(v), net |-> NetOf(last(v))]
  BY Zenon DEF PriceShipment, Outcome
<1> DEFINE one == first(r)
<1>2. Refusal.status = "REFUSED"
  BY DEF Refusal
<1>3. ~refused(r)
  <2> HIDE DEF first, last, blocked, refused
  <2> QED BY <1>1, <1>2
<1>4. ReadsAlike(q, r, s)
  BY <1>3, ConsultedAlike
<1>5. /\ SourcesRefused(q, s) = SourcesRefused(r, s) /\ Missing(q, s) = Missing(r, s)
      /\ Lanes(q, s) = Lanes(r, s)
  BY <1>4, RefusedAlike DEF ReadsAlike
<1>6. first(q) = first(r)
  BY <1>4, AssessedAlike
<1>7. refused(q) = refused(r)
  <2> HIDE DEF first
  <2> QED BY <1>5, <1>6
<1> HIDE DEF refused, blocked
<1>8. CASE Missing(r, s) # {}
  <2> HIDE DEF first, last
  <2> QED BY <1>1, <1>3, <1>5, <1>6, <1>7, <1>8, Zenon
<1>9. CASE Missing(r, s) = {}
  <2>1. ~AllocationRefused(r, s)
    <3> HIDE DEF first, last
    <3> QED BY <1>1, <1>2, <1>3, <1>9
  <2>2. /\ ~AllocationRefused(q, s)
        /\ \A l \in DOMAIN s.lines : ChargesOf(q, s, l) = ChargesOf(r, s, l)
    BY <1>4, <2>1, AllocatedAlike
  <2>3. ASSUME NEW l \in DOMAIN s.lines
        PROVE  Assess(q, s, s.lines[l], ChargesOf(q, s, l))
                 = Assess(r, s, s.lines[l], ChargesOf(r, s, l))
    BY <1>4, <2>2, AssessedAlike
  <2>4. last(q) = last(r)
    BY <2>3
  <2> HIDE DEF first, last
  <2> QED BY <1>1, <1>3, <1>5, <1>7, <1>9, <2>1, <2>2, <2>4, Zenon
<1> QED BY <1>8, <1>9

-----------------------------------------------------------------------------
(* What a Run seals about costs.                                            *)

\* The documents of one shipment.
DocumentsOfShipment(docs, run, r, s, key, by, price) ==
  /\ DOMAIN docs = {"SHIPMENT", "PROJECTION", "CHILD"} \X {key}
  /\ docs[<<"SHIPMENT", key>>] = [run |-> run, body |-> s]
  /\ docs[<<"PROJECTION", key>>] = [run |-> "ANY", body |-> r]
  /\ docs[<<"CHILD", key>>] = [run |-> run, by |-> by, price |-> price]

LEMMA ShipmentDocumentsAre ==
  ASSUME NEW run, NEW r, NEW s, NEW key, NEW by, NEW price
  PROVE  DocumentsOfShipment(ShipmentDocuments(run, r, s, key, by, price),
                             run, r, s, key, by, price)
BY DEF ShipmentDocuments, DocumentsOfShipment

\* The shipment of the order of a week.
OrderShipment(results, input, w) ==
  Shipment(input.template, results.recommended.action.decisions[w].validation.accepted)

\* What the documents of a Run say of its sources, its orders and their prices.
NamesSources(docs, results, input, r, profile, prices) ==
  /\ DOMAIN docs = Sources \cup ({"SHIPMENT", "PROJECTION", "CHILD"} \X DOMAIN prices)
  /\ docs[<<"MANIFEST", 0>>].metrics = Metrics(results, prices, profile)
  /\ docs[<<"MANIFEST", 0>>].comparisons["recommended"]
       = CostDelta(Metrics(results, prices, profile).baseline,
                   Metrics(results, prices, profile).recommended)
  /\ docs[<<"INPUT", 0>>].body = input
  /\ docs[<<"PROFILE", 0>>].body = profile
  /\ docs[<<"PROJECTION", 0>>].body = r
  /\ \A w \in DOMAIN prices : /\ docs[<<"PROJECTION", w>>].body = r
                               /\ docs[<<"SHIPMENT", w>>].body = OrderShipment(results, input, w)
                               /\ docs[<<"CHILD", w>>].price = prices[w]

\* The evidence of a Run names what it was calculated from.
LEMMA CostEvidenceIs ==
  ASSUME NEW run, NEW results, NEW input, NEW r, NEW profile, NEW by, NEW prices,
         0 \notin DOMAIN prices
  PROVE  NamesSources(CostEvidence(run, results, input, r, profile, by, prices),
                      results, input, r, profile, prices)
<1> DEFINE shipped == {"SHIPMENT", "PROJECTION", "CHILD"} \X DOMAIN prices
           child == results.recommended
           metrics == Metrics(results, prices, profile)
           of(w) == ShipmentDocuments(
                      run, r, Shipment(input.template, child.action.decisions[w].validation.accepted),
                      w, by, prices[w])
           deltas == [c \in {"recommended", "challenger"} |->
                          CostDelta(metrics.baseline, metrics[c])]
           manifest == [run |-> run, input |-> input, projection |-> r, profile |-> profile,
                        psi |-> child,
                        children |-> [w \in DOMAIN prices |-> of(w)[<<"CHILD", w>>]],
                        metrics |-> metrics, comparisons |-> deltas]
           own == [MANIFEST |-> manifest, INPUT |-> [run |-> "ANY", body |-> input],
                   PROJECTION |-> [run |-> "ANY", body |-> r],
                   PROFILE |-> [run |-> "ANY", body |-> profile]]
           docs == [ref \in Sources \cup shipped |->
                      IF ref \in Sources THEN own[ref[1]] ELSE of(ref[2])[ref]]
<1>1. CostEvidence(run, results, input, r, profile, by, prices) = docs
  BY Zenon DEF CostEvidence
<1>2. /\ own.MANIFEST.metrics = metrics /\ own.INPUT.body = input
      /\ own.MANIFEST.comparisons = deltas
      /\ own.PROFILE.body = profile /\ own.PROJECTION.body = r
  <2> HIDE DEF metrics, of, deltas
  <2> QED OBVIOUS
<1>3. deltas["recommended"] = CostDelta(metrics.baseline, metrics.recommended)
  <2> HIDE DEF metrics
  <2> QED OBVIOUS
<1> HIDE DEF own, of, metrics, deltas
<1>4. /\ docs[<<"MANIFEST", 0>>] = own.MANIFEST /\ docs[<<"INPUT", 0>>] = own.INPUT
      /\ docs[<<"PROFILE", 0>>] = own.PROFILE /\ docs[<<"PROJECTION", 0>>] = own.PROJECTION
  BY DEF Sources
<1>5. ASSUME NEW w \in DOMAIN prices
      PROVE  /\ docs[<<"PROJECTION", w>>].body = r
             /\ docs[<<"SHIPMENT", w>>].body = OrderShipment(results, input, w)
             /\ docs[<<"CHILD", w>>].price = prices[w]
  <2> DEFINE kinds == {"SHIPMENT", "PROJECTION", "CHILD"}
             shipment == of(w)
             s == OrderShipment(results, input, w)
             price == prices[w]
  <2>1. \A k \in kinds : <<k, w>> \in shipped /\ <<k, w>> \notin Sources
    BY <1>5 DEF Sources
  <2>2. \A k \in kinds : docs[<<k, w>>] = shipment[<<k, w>>]
    BY <2>1
  <2>3. shipment = ShipmentDocuments(run, r, s, w, by, price)
    BY DEF of, OrderShipment
  <2> HIDE DEF shipment, s, price
  <2>4. /\ shipment[<<"PROJECTION", w>>] = [run |-> "ANY", body |-> r]
        /\ shipment[<<"SHIPMENT", w>>] = [run |-> run, body |-> s]
        /\ shipment[<<"CHILD", w>>] = [run |-> run, by |-> by, price |-> price]
    BY <2>3 DEF ShipmentDocuments
  <2>5. /\ shipment[<<"PROJECTION", w>>].body = r /\ shipment[<<"SHIPMENT", w>>].body = s
        /\ shipment[<<"CHILD", w>>].price = price
    BY <2>4
  <2> HIDE DEF docs
  <2>6. /\ docs[<<"PROJECTION", w>>] = shipment[<<"PROJECTION", w>>]
        /\ docs[<<"SHIPMENT", w>>] = shipment[<<"SHIPMENT", w>>]
        /\ docs[<<"CHILD", w>>] = shipment[<<"CHILD", w>>]
    BY <2>2
  <2> QED BY <2>5, <2>6 DEF s, price
<1>6. DOMAIN docs = Sources \cup shipped
  OBVIOUS
<1> HIDE DEF docs
<1> QED BY <1>1, <1>2, <1>4, <1>5, <1>6, <1>3 DEF metrics, NamesSources

\* The orders of a child are placed in weeks, which are never 0.
LEMMA PricesOfWeeks ==
  ASSUME EvidenceTypes, NEW input, NEW r
  PROVE  0 \notin DOMAIN Prices(input, r, decisions)
<1>1. 0 \notin DOMAIN decisions
  <2>1. decisions \in Seq(Judgments(plan))
    BY DEF EvidenceTypes
  <2> HIDE DEF Judgments
  <2> QED BY <2>1
<1>2. Accepted(decisions) \subseteq DOMAIN decisions
  BY DEF Accepted
<1> HIDE DEF EvidenceTypes
<1>3. DOMAIN Prices(input, r, decisions) \subseteq Accepted(decisions)
  BY DEF Prices
<1> QED BY <1>1, <1>2, <1>3

IsRevision(r) == r = [content |-> r.content, valuation |-> r.valuation,
                      environment |-> r.environment]

\* Every projection among the documents is that of a revision.
Legible(documents) ==
  \A ref \in DOMAIN documents : ref[1] = "PROJECTION" => IsRevision(documents[ref].body)

\* The Run resolved what its claim pins.
InputPinned ==
  /\ claim \in Claims /\ InputFits(claim)
  /\ RevisionFits(claim, revision) /\ IsRevision(revision)

\* The evidence of a Run, and that of a shipment on its own.
SealedByRun ==
  /\ InputPinned
  /\ ~BuildRefused(Prices(claim.input, revision, decisions))
  /\ evidence = CostEvidence("THIS", Results, claim.input, revision, claim.profile, 1,
                             Prices(claim.input, revision, decisions))
SealedAlone ==
  /\ claim \in Consignments
  /\ evidence = ShipmentDocuments("THIS", claim.revision, claim.shipment, 0, 1,
                                  PriceShipment(claim.revision, claim.shipment))

\* What is stored differs from what was sealed: another document of the same kind
\* in the place of one, or one less.
Harmed ==
  /\ calculator = 1
  /\ claim \in Claims => Legible(store)
  /\ claim \in Consignments => ~(DOMAIN evidence \subseteq DOMAIN store)

CostInv ==
  /\ stage \in {"IDLE", "RESOLVED", "BUILT"} => calculator = 1
  /\ stage = "RESOLVED" => InputPinned
  /\ stage = "BUILT" => SealedByRun
  /\ stage \in {"STORED", "ANSWERED", "REFUSED"} => SealedByRun \/ SealedAlone
  /\ stage = "STORED" => store = evidence \/ Harmed
  /\ CostReadIsCostSealed

\* A Run is claimed or a shipment is, and the documents tell.
LEMMA ClaimKinds ==
  /\ \A c \in Claims : c \notin Consignments /\ "input" \in DOMAIN c /\ "shipment" \notin DOMAIN c
  /\ \A c \in Consignments : "shipment" \in DOMAIN c /\ "input" \notin DOMAIN c
BY ClaimAssumption

\* Revisions of the same content, day and environment are the same.
LEMMA RevisionIsPinned ==
  ASSUME NEW c, NEW q, NEW r, IsRevision(q), IsRevision(r), RevisionFits(c, q), RevisionFits(c, r)
  PROVE  q = r
BY DEF IsRevision, RevisionFits

\* The evidence of a Run is legible.
LEMMA EvidenceLegible ==
  ASSUME NEW run, NEW results, NEW input, NEW r, NEW profile, NEW by, NEW prices,
         0 \notin DOMAIN prices, IsRevision(r)
  PROVE  Legible(CostEvidence(run, results, input, r, profile, by, prices))
<1> DEFINE docs == CostEvidence(run, results, input, r, profile, by, prices)
<1> HIDE DEF docs
<1>1. /\ DOMAIN docs = Sources \cup ({"SHIPMENT", "PROJECTION", "CHILD"} \X DOMAIN prices)
      /\ docs[<<"PROJECTION", 0>>].body = r
      /\ \A w \in DOMAIN prices : docs[<<"PROJECTION", w>>].body = r
  <2>1. NamesSources(docs, results, input, r, profile, prices)
    BY CostEvidenceIs, Zenon DEF docs
  <2> QED BY <2>1 DEF NamesSources
<1>2. ASSUME NEW ref \in DOMAIN docs, ref[1] = "PROJECTION"
      PROVE  docs[ref].body = r
  <2>1. ref = <<"PROJECTION", 0>> \/ \E w \in DOMAIN prices : ref = <<"PROJECTION", w>>
    BY <1>1, <1>2 DEF Sources
  <2> QED BY <1>1, <2>1
<1> QED BY <1>2 DEF Legible, docs

\* What a Run sealed passes its own verification, by the same calculator.
LEMMA RunVerifiesItself ==
  ASSUME EvidenceTypes, SealedByRun
  PROVE  Verified(claim, evidence, 1)
<1> DEFINE prices == Prices(claim.input, revision, decisions)
<1>1. 0 \notin DOMAIN prices
  BY PricesOfWeeks
<1>2. /\ ~BuildRefused(prices) /\ InputFits(claim) /\ RevisionFits(claim, revision)
      /\ evidence = CostEvidence("THIS", Results, claim.input, revision, claim.profile, 1, prices)
  BY DEF SealedByRun, InputPinned
<1>3. /\ Sources \subseteq DOMAIN evidence
      /\ evidence[<<"INPUT", 0>>].body = claim.input
      /\ evidence[<<"PROFILE", 0>>].body = claim.profile
      /\ evidence[<<"PROJECTION", 0>>].body = revision
  <2> HIDE DEF prices
  <2>1. NamesSources(evidence, Results, claim.input, revision, claim.profile, prices)
    BY <1>1, <1>2, CostEvidenceIs, Zenon
  <2> QED BY <2>1 DEF NamesSources
<1>4. AllAmong(evidence, evidence)
  BY DEF AllAmong
<1> QED BY <1>2, <1>3, <1>4, Zenon DEF Verified

\* A shipment on its own does so too.
LEMMA ShipmentVerifiesItself ==
  ASSUME SealedAlone
  PROVE  ShipmentVerified(claim, evidence, 1)
<1> DEFINE price == PriceShipment(claim.revision, claim.shipment)
<1>1. /\ DOMAIN evidence = {"SHIPMENT", "PROJECTION", "CHILD"} \X {0}
      /\ evidence[<<"SHIPMENT", 0>>] = [run |-> "THIS", body |-> claim.shipment]
      /\ evidence[<<"PROJECTION", 0>>] = [run |-> "ANY", body |-> claim.revision]
      /\ evidence[<<"CHILD", 0>>] = [run |-> "THIS", by |-> 1, price |-> price]
  <2>1. evidence = ShipmentDocuments("THIS", claim.revision, claim.shipment, 0, 1, price)
    BY Zenon DEF SealedAlone
  <2> HIDE DEF price
  <2>2. DocumentsOfShipment(evidence, "THIS", claim.revision, claim.shipment, 0, 1, price)
    BY <2>1, ShipmentDocumentsAre, Zenon
  <2> QED BY <2>2 DEF DocumentsOfShipment
<1>2. /\ evidence[<<"SHIPMENT", 0>>].run = "THIS"
      /\ evidence[<<"SHIPMENT", 0>>].body = claim.shipment
      /\ evidence[<<"PROJECTION", 0>>].body = claim.revision
  <2> HIDE DEF price
  <2> QED BY <1>1
<1> QED BY <1>1, <1>2, Zenon DEF ShipmentVerified

\* What another verification accepts is what was sealed: each input of the
\* calculation is pinned, and each of its documents is calculated again.
LEMMA VerifiedIsSealed ==
  ASSUME SealedByRun, Legible(store), Verified(claim, store, 1)
  PROVE  AllAmong(evidence, store)
<1> DEFINE r == store[<<"PROJECTION", 0>>].body
<1>1. <<"PROJECTION", 0>> \in DOMAIN store
  BY DEF Verified, Sources
<1>2. IsRevision(r)
  BY <1>1 DEF Legible
<1>3. /\ store[<<"INPUT", 0>>].body = claim.input /\ store[<<"PROFILE", 0>>].body = claim.profile
      /\ RevisionFits(claim, r)
      /\ AllAmong(CostEvidence("THIS", Results, claim.input, r, claim.profile, 1,
                               Prices(claim.input, r, decisions)), store)
  BY Zenon DEF Verified
<1>4. r = revision
  BY <1>2, <1>3, RevisionIsPinned DEF SealedByRun, InputPinned
<1> QED BY <1>3, <1>4, Zenon DEF SealedByRun

\* What the projections came to, and what their orders cost, changes with them.
LEMMA ResultsKept ==
  ASSUME UNCHANGED evidenceVars
  PROVE  Results' = Results /\ decisions' = decisions
BY DEF Results, BaselineChild, Child, ActionArtifacts, evidenceVars, vars

\* What is sealed stays sealed.
LEMMA SealedKept ==
  ASSUME UNCHANGED <<evidenceVars, claim, revision, evidence>>
  PROVE  /\ InputPinned' = InputPinned
         /\ SealedByRun' = SealedByRun
         /\ SealedAlone' = SealedAlone
<1>1. Results' = Results /\ decisions' = decisions
  BY ResultsKept
<1>2. UNCHANGED <<claim, revision, evidence>>
  OBVIOUS
<1>3. InputPinned' = InputPinned
  BY <1>2 DEF InputPinned
<1>4. SealedByRun' = SealedByRun
  BY <1>1, <1>2, <1>3 DEF SealedByRun
<1>5. SealedAlone' = SealedAlone
  BY <1>2 DEF SealedAlone
<1> QED BY <1>3, <1>4, <1>5

\* The seals are kinds apart.
LEMMA SealKinds ==
  /\ SealedByRun => claim \in Claims /\ claim \notin Consignments
                    /\ "input" \in DOMAIN claim /\ "shipment" \notin DOMAIN claim
  /\ SealedAlone => claim \in Consignments /\ claim \notin Claims
                    /\ "shipment" \in DOMAIN claim /\ "input" \notin DOMAIN claim
BY ClaimKinds DEF SealedByRun, SealedAlone, InputPinned

\* The inputs are resolved, or the Run fails.
LEMMA ResolveKeeps ==
  ASSUME CostInv, NEW c \in Claims, NEW r \in Offers(c), Resolve(c, r)
  PROVE  CostInv'
<1>1. /\ stage = "IDLE" /\ claim' = c /\ calculator' = calculator
      /\ stage' = "FAILED" \/ (/\ stage' = "RESOLVED" /\ revision' = r
                               /\ InputFits(c) /\ RevisionFits(c, r))
  BY DEF Resolve
<1>2. IsRevision(r)
  BY ClaimAssumption DEF Offers, IsRevision
<1>3. stage' = "RESOLVED" => InputPinned'
  BY <1>1, <1>2 DEF InputPinned
<1> QED BY <1>1, <1>3 DEF CostInv, CostReadIsCostSealed

\* The evidence is built with the calculator that is installed, the first.
LEMMA BuildKeeps ==
  ASSUME CostInv, BuildEvidence
  PROVE  CostInv'
<1>1. /\ stage = "RESOLVED" /\ calculator = 1 /\ calculator' = 1 /\ InputPinned
      /\ UNCHANGED <<evidenceVars, claim, revision>>
  BY DEF CostInv, BuildEvidence
<1>2. Results' = Results /\ decisions' = decisions
  BY <1>1, ResultsKept
<1>3. InputPinned'
  BY <1>1 DEF InputPinned
<1>4. CASE stage' = "FAILED"
  BY <1>4 DEF CostInv, CostReadIsCostSealed
<1>5. CASE stage' = "BUILT"
  <2>1. /\ ~BuildRefused(Prices(claim.input, revision, decisions))
        /\ evidence' = CostEvidence("THIS", Results, claim.input, revision, claim.profile, 1,
                                    Prices(claim.input, revision, decisions))
    BY <1>1, <1>5 DEF BuildEvidence
  <2>2. SealedByRun'
    BY <1>1, <1>2, <1>3, <2>1 DEF SealedByRun
  <2> QED BY <1>1, <1>5, <2>2 DEF CostInv, CostReadIsCostSealed
<1> QED BY <1>1, <1>4, <1>5 DEF BuildEvidence

\* The commit stores what was sealed.
LEMMA CommitKeeps ==
  ASSUME CostInv, CommitEvidence
  PROVE  CostInv'
<1>1. /\ stage = "BUILT" /\ SealedByRun
      /\ stage' = "FAILED" \/ (stage' = "STORED" /\ store' = evidence /\ evidence' = evidence)
      /\ UNCHANGED <<evidenceVars, claim, revision, evidence>>
  BY DEF CostInv, CommitEvidence
<1>2. SealedByRun'
  BY <1>1, SealedKept
<1> QED BY <1>1, <1>2 DEF CostInv, CostReadIsCostSealed

\* So does a shipment that is persisted on its own.
LEMMA PersistKeeps ==
  ASSUME CostInv, NEW c \in Consignments, PersistShipment(c)
  PROVE  CostInv'
<1> DEFINE built == ShipmentDocuments("THIS", c.revision, c.shipment, 0, 1,
                                      PriceShipment(c.revision, c.shipment))
<1>1. /\ stage = "IDLE" /\ calculator = 1 /\ claim' = c
      /\ stage' = "FAILED" \/ (stage' = "STORED" /\ evidence' = built /\ store' = built)
  BY DEF CostInv, PersistShipment
<1>2. stage' = "STORED" => SealedAlone' /\ store' = evidence'
  BY <1>1 DEF SealedAlone
<1> QED BY <1>1, <1>2 DEF CostInv, CostReadIsCostSealed

\* A read answers what was sealed, or refuses what is not.
LEMMA ReadKeeps ==
  ASSUME EvidenceTypes, CostInv, Read
  PROVE  CostInv'
<1>1. /\ stage = "STORED" /\ stage' \in {"ANSWERED", "REFUSED"}
      /\ UNCHANGED <<evidenceVars, claim, revision, evidence, store, calculator>>
      /\ SealedByRun \/ SealedAlone
      /\ store = evidence \/ Harmed
  BY DEF CostInv, Read
<1>2. SealedByRun' \/ SealedAlone'
  BY <1>1, SealedKept
<1>3. ASSUME stage' = "ANSWERED"
      PROVE  AllAmong(evidence, answer')
  <2>1. answer' = store
    BY <1>3 DEF Read
  <2>2. CASE store = evidence
    BY <2>1, <2>2 DEF AllAmong
  <2>3. CASE Harmed /\ SealedByRun
    <3>1. Verified(claim, store, calculator)
      BY <1>3, <2>3, SealKinds DEF Read
    <3> QED BY <2>1, <2>3, <3>1, SealKinds, VerifiedIsSealed DEF Harmed
  <2>4. CASE Harmed /\ SealedAlone
    <3>1. ShipmentVerified(claim, store, calculator)
      BY <1>3, <2>4, SealKinds DEF Read
    <3>2. {"SHIPMENT", "PROJECTION", "CHILD"} \X {0} \subseteq DOMAIN store
      BY <3>1, Zenon DEF ShipmentVerified
    <3>3. DOMAIN evidence = {"SHIPMENT", "PROJECTION", "CHILD"} \X {0}
      BY <2>4 DEF SealedAlone, ShipmentDocuments
    <3> QED BY <2>4, <3>2, <3>3, SealKinds DEF Harmed
  <2> QED BY <1>1, <2>2, <2>3, <2>4
<1>4. ASSUME stage' = "REFUSED", store = evidence, calculator = 1
      PROVE  FALSE
  <2>1. CASE SealedByRun
    BY <1>4, <2>1, SealKinds, RunVerifiesItself DEF Read
  <2>2. CASE SealedAlone
    BY <1>4, <2>2, SealKinds, ShipmentVerifiesItself DEF Read
  <2> QED BY <1>1, <2>1, <2>2
<1>5. CostReadIsCostSealed'
  BY <1>1, <1>3, <1>4 DEF CostReadIsCostSealed, AllAmong
<1> QED BY <1>1, <1>2, <1>5 DEF CostInv

\* A step that harms a document leaves the evidence, and harms it as Harmed says.
LEMMA DamageKeeps ==
  ASSUME CostInv, NEW documents, Damage(documents),
         claim \in Claims => Legible(documents),
         claim \in Consignments => ~(DOMAIN evidence \subseteq DOMAIN documents)
  PROVE  CostInv'
<1>1. /\ stage = "STORED" /\ stage' = "STORED" /\ calculator = 1 /\ calculator' = 1
      /\ UNCHANGED <<evidenceVars, claim, revision, evidence>> /\ store' = documents
      /\ SealedByRun \/ SealedAlone
  BY DEF CostInv, Damage
<1>2. SealedByRun' \/ SealedAlone'
  BY <1>1, SealedKept
<1>3. Legible(documents) => Legible(store')
  BY <1>1
<1>4. Harmed'
  BY <1>1, <1>3 DEF Harmed, Legible
<1> QED BY <1>1, <1>2, <1>4 DEF CostInv, CostReadIsCostSealed

\* The evidence of a Run that may be harmed.
LEMMA StoredLegible ==
  ASSUME EvidenceTypes, SealedByRun
  PROVE  Legible(evidence)
BY PricesOfWeeks, EvidenceLegible, Zenon DEF SealedByRun, InputPinned

\* A document is lost.
LEMMA LossKeeps ==
  ASSUME EvidenceTypes, CostInv, NEW ref \in DOMAIN store,
         Damage(Restrict(store, DOMAIN store \ {ref}))
  PROVE  CostInv'
<1> DEFINE documents == Restrict(store, DOMAIN store \ {ref})
<1>1. /\ store = evidence /\ stage = "STORED"
      /\ SealedByRun \/ SealedAlone
  BY DEF CostInv, Damage
<1>2. /\ DOMAIN documents = DOMAIN store \ {ref}
      /\ \A x \in DOMAIN documents : documents[x] = store[x]
  BY DEF Restrict
<1>3. Damage(documents)
  OBVIOUS
<1> HIDE DEF documents
<1>4. claim \in Claims => Legible(documents)
  <2> SUFFICES ASSUME claim \in Claims
               PROVE  Legible(documents)
    OBVIOUS
  <2>1. Legible(store)
    BY <1>1, SealKinds, StoredLegible
  <2> QED BY <1>2, <2>1 DEF Legible
<1>5. ~(DOMAIN evidence \subseteq DOMAIN documents)
  BY <1>1, <1>2
<1> QED BY <1>3, <1>4, <1>5, DamageKeeps

\* A document is in the place of another of its kind; of a shipment there is no other.
LEMMA MisplacementKeeps ==
  ASSUME EvidenceTypes, CostInv, NEW ref \in DOMAIN store, NEW other \in DOMAIN store,
         ref # other, ref[1] = other[1], Damage([store EXCEPT ![ref] = store[other]])
  PROVE  CostInv'
<1> DEFINE documents == [store EXCEPT ![ref] = store[other]]
<1>1. /\ store = evidence /\ stage = "STORED"
      /\ SealedByRun \/ SealedAlone
  BY DEF CostInv, Damage
<1>2. CASE SealedByRun
  <2>1. Legible(store)
    BY <1>1, <1>2, StoredLegible
  <2>2. \A x \in DOMAIN documents : documents[x] = IF x = ref THEN store[other] ELSE store[x]
    OBVIOUS
  <2>3. Legible(documents)
    BY <2>1, <2>2 DEF Legible
  <2> HIDE DEF documents
  <2> QED BY <1>2, <2>3, SealKinds, DamageKeeps DEF documents
<1>3. CASE SealedAlone
  <2>1. DOMAIN store = {"SHIPMENT", "PROJECTION", "CHILD"} \X {0}
    BY <1>1, <1>3 DEF SealedAlone, ShipmentDocuments
  <2> QED BY <2>1
<1> QED BY <1>1, <1>2, <1>3

\* A document is that of a Run with another claim.
LEMMA ForeignKeeps ==
  ASSUME EvidenceTypes, CostInv, NEW c \in OtherClaims, ForeignDocument(c)
  PROVE  CostInv'
<1> DEFINE r == [content |-> c.content, valuation |-> c.asOf, environment |-> "DEVELOPMENT"]
           foreign == CostEvidence("OTHER", Results, c.input, r, c.profile, calculator,
                                   Prices(c.input, r, decisions))
<1>1. "input" \in DOMAIN claim
  BY DEF ForeignDocument
<1>2. PICK ref \in DOMAIN store \cap DOMAIN foreign :
        Damage([store EXCEPT ![ref] = foreign[ref]])
  BY Zenon DEF ForeignDocument
<1>3. /\ store = evidence
      /\ SealedByRun \/ SealedAlone
  BY <1>2 DEF CostInv, Damage
<1>4. SealedByRun
  BY <1>1, <1>3, SealKinds
<1>5. Legible(store)
  BY <1>3, <1>4, StoredLegible
<1>6. Legible(foreign)
  <2>1. IsRevision(r)
    BY DEF IsRevision
  <2> HIDE DEF r
  <2> QED BY <2>1, PricesOfWeeks, EvidenceLegible, Zenon
<1> HIDE DEF foreign
<1> DEFINE documents == [store EXCEPT ![ref] = foreign[ref]]
<1>7. /\ DOMAIN documents = DOMAIN store
      /\ \A x \in DOMAIN documents : documents[x] = IF x = ref THEN foreign[ref] ELSE store[x]
  OBVIOUS
<1>8. Damage(documents)
  BY <1>2
<1> HIDE DEF documents
<1>9. Legible(documents)
  BY <1>5, <1>6, <1>7 DEF Legible
<1> QED BY <1>4, <1>8, <1>9, SealKinds, DamageKeeps

\* A new calculator is installed while the store is as it was sealed.
LEMMA UpgradeKeeps ==
  ASSUME CostInv, Upgrade
  PROVE  CostInv'
<1>1. /\ stage = "STORED" /\ stage' = "STORED" /\ store' = evidence'
      /\ UNCHANGED <<evidenceVars, claim, revision, evidence>>
      /\ SealedByRun \/ SealedAlone
  BY DEF CostInv, Upgrade
<1>2. SealedByRun' \/ SealedAlone'
  BY <1>1, SealedKept
<1> QED BY <1>1, <1>2 DEF CostInv, CostReadIsCostSealed

\* The steps about costs are none of the projection.
LEMMA CostStep ==
  ASSUME [CostNext]_runVars
  PROVE  [EvidenceNext]_evidenceVars
<1>1. CASE Project
  BY <1>1 DEF Project
<1>2. CASE UNCHANGED runVars
  BY <1>2 DEF runVars
<1>3. ASSUME NEW c, NEW r, Resolve(c, r)
      PROVE  UNCHANGED evidenceVars
  BY <1>3 DEF Resolve
<1>4. CASE BuildEvidence
  BY <1>4 DEF BuildEvidence
<1>5. CASE CommitEvidence
  BY <1>5 DEF CommitEvidence
<1>6. ASSUME NEW c, PersistShipment(c)
      PROVE  UNCHANGED evidenceVars
  BY <1>6 DEF PersistShipment
<1>7. CASE Read
  BY <1>7 DEF Read
<1>8. ASSUME NEW documents, Damage(documents)
      PROVE  UNCHANGED evidenceVars
  BY <1>8 DEF Damage
<1>9. CASE LoseDocument
  BY <1>8, <1>9, Zenon DEF LoseDocument
<1>10. CASE MisplaceDocument
  BY <1>8, <1>10, Zenon DEF MisplaceDocument
<1>11. ASSUME NEW c, ForeignDocument(c)
       PROVE  UNCHANGED evidenceVars
  BY <1>8, <1>11, Zenon DEF ForeignDocument
<1>12. CASE Upgrade
  BY <1>12 DEF Upgrade
<1> QED BY <1>1, <1>2, <1>3, <1>4, <1>5, <1>6, <1>7, <1>9, <1>10, <1>11, <1>12 DEF CostNext

\* What is sealed about costs stays what the Run calculated, and is harmed as
\* Harmed says only.
LEMMA CostStepKeeps ==
  ASSUME EvidenceTypes, CostInv, [CostNext]_runVars
  PROVE  CostInv'
<1>1. CASE Project
  BY <1>1 DEF Project, costVars, CostInv, CostReadIsCostSealed
<1>2. CASE UNCHANGED runVars
  <2>1. UNCHANGED <<evidenceVars, claim, revision, evidence>>
        /\ UNCHANGED <<stage, store, calculator, answer>>
    BY <1>2 DEF runVars, costVars
  <2>2. /\ InputPinned' = InputPinned /\ SealedByRun' = SealedByRun /\ SealedAlone' = SealedAlone
        /\ Harmed' = Harmed /\ CostReadIsCostSealed' = CostReadIsCostSealed
    BY <2>1, SealedKept DEF Harmed, Legible, CostReadIsCostSealed
  <2> QED BY <2>1, <2>2 DEF CostInv
<1>3. CASE \E c \in Claims : \E r \in Offers(c) : Resolve(c, r)
  BY <1>3, ResolveKeeps
<1>4. CASE BuildEvidence
  BY <1>4, BuildKeeps
<1>5. CASE CommitEvidence
  BY <1>5, CommitKeeps
<1>6. CASE \E c \in Consignments : PersistShipment(c)
  BY <1>6, PersistKeeps
<1>7. CASE Read
  BY <1>7, ReadKeeps
<1>8. CASE LoseDocument
  BY <1>8, LossKeeps DEF LoseDocument
<1>9. CASE MisplaceDocument
  BY <1>9, MisplacementKeeps DEF MisplaceDocument
<1>10. CASE \E c \in OtherClaims : ForeignDocument(c)
  BY <1>10, ForeignKeeps
<1>11. CASE Upgrade
  BY <1>11, UpgradeKeeps
<1> QED BY <1>1, <1>2, <1>3, <1>4, <1>5, <1>6, <1>7, <1>8, <1>9, <1>10, <1>11 DEF CostNext

\* The run of a projection whose orders are priced is one of PsiEvidence: what is
\* proved of its evidence holds here.
THEOREM CostImplementsEvidence == CostSpec => EvidenceSpec
<1>1. CostInit => EvidenceInit
  BY DEF CostInit
<1> QED BY <1>1, CostStep, PTL DEF CostSpec, EvidenceSpec

\* For every claim, revision, order and harm: what is sealed about costs is what
\* the claimed inputs and the decisions of the Run come to.
LEMMA CostInvariant == CostSpec => [](EvidenceTypes /\ CostInv)
<1>1. CostInit => EvidenceTypes /\ CostInv
  BY EvidenceInitTypes DEF CostInit, CostInv, CostReadIsCostSealed
<1>2. EvidenceTypes /\ CostInv /\ [CostNext]_runVars => (EvidenceTypes /\ CostInv)'
  BY CostStep, EvidenceStepTypes, CostStepKeeps
<1> QED BY <1>1, <1>2, PTL DEF CostSpec

\* What a later read answers is what was sealed, and it is refused only if a
\* document was harmed or another calculator is installed.
THEOREM CostReadSound == CostSpec => []CostReadIsCostSealed
BY CostInvariant, PTL DEF CostInv

\* The prices of the orders rest on nothing but what the claim allows to be known.
LEMMA PricesForeseen ==
  ASSUME SealedByRun, claim.input.template # None
  PROVE  LET q == [content |-> Foreseen(claim.content, claim.asOf, claim.input.judgment),
                   valuation |-> claim.asOf, environment |-> "DEVELOPMENT"]
         IN Prices(claim.input, revision, decisions) = Prices(claim.input, q, decisions)
<1> DEFINE q == [content |-> Foreseen(claim.content, claim.asOf, claim.input.judgment),
                 valuation |-> claim.asOf, environment |-> "DEVELOPMENT"]
           template == claim.input.template
           shipment(w) == Shipment(template, decisions[w].validation.accepted)
<1>1. /\ claim \in Claims /\ InputFits(claim) /\ RevisionFits(claim, revision)
      /\ IsRevision(revision) /\ ~BuildRefused(Prices(claim.input, revision, decisions))
  BY DEF SealedByRun, InputPinned
<1>2. revision = [content |-> claim.content, valuation |-> claim.asOf,
                  environment |-> "DEVELOPMENT"]
  BY <1>1 DEF RevisionFits, IsRevision
<1>3. ASSUME NEW w
      PROVE  Foresees(q, revision, shipment(w).judgment)
  <2>1. "judgment" \in DOMAIN template /\ template.judgment = claim.input.judgment
    BY <1>1, ClaimAssumption DEF InputFits
  <2>2. shipment(w).judgment = template.judgment
    BY <2>1 DEF Shipment
  <2>3. shipment(w).judgment = claim.input.judgment
    BY <2>1, <2>2
  <2> QED BY <1>2, <2>3, ForeseenForesees, Zenon
<1> DEFINE weeks == Accepted(decisions)
<1>4. \A v : Prices(claim.input, v, decisions) = [w \in weeks |-> PriceShipment(v, shipment(w))]
  BY DEF Prices
<1> HIDE DEF q, shipment, weeks
<1>5. ASSUME NEW w \in weeks
      PROVE  PriceShipment(revision, shipment(w)).status # "REFUSED"
  BY <1>1, <1>4, <1>5 DEF BuildRefused
<1>6. \A w \in weeks : PriceShipment(q, shipment(w)) = PriceShipment(revision, shipment(w))
  BY <1>3, <1>5, PricedAlike
<1>7. Prices(claim.input, revision, decisions) = Prices(claim.input, q, decisions)
  BY <1>4, <1>6
<1> QED BY <1>7 DEF q

\* No hindsight, for every claim, every answer of the Platform and every strategy:
\* a sealed cost follows from what was known and in force.
THEOREM PricedWithoutHindsight == CostSpec => []PricedAsClaimed
<1>1. EvidenceTypes /\ CostInv => PricedAsClaimed
  <2> SUFFICES ASSUME EvidenceTypes, CostInv, OfRun, claim.input.template # None
               PROVE  Manifest.metrics =
                        Metrics(Results,
                                Prices(claim.input,
                                       [content |-> Foreseen(claim.content, claim.asOf,
                                                             claim.input.judgment),
                                        valuation |-> claim.asOf, environment |-> "DEVELOPMENT"],
                                       decisions),
                                claim.profile)
    BY Zenon DEF PricedAsClaimed
  <2>1. SealedByRun
    BY SealKinds DEF CostInv, OfRun, Costed
  <2> DEFINE prices == Prices(claim.input, revision, decisions)
  <2>2. 0 \notin DOMAIN prices
    BY PricesOfWeeks
  <2>3. Manifest.metrics = Metrics(Results, prices, claim.profile)
    <3>1. evidence = CostEvidence("THIS", Results, claim.input, revision, claim.profile, 1, prices)
      BY <2>1 DEF SealedByRun
    <3> HIDE DEF prices
    <3>2. NamesSources(evidence, Results, claim.input, revision, claim.profile, prices)
      BY <2>2, <3>1, CostEvidenceIs, Zenon
    <3> QED BY <3>2 DEF NamesSources, Manifest
  <2> QED BY <2>1, <2>3, PricesForeseen, Zenon
<1> QED BY <1>1, CostInvariant, PTL

-----------------------------------------------------------------------------
(* An amount that is divided over lines.                                    *)

-----------------------------------------------------------------------------
(* Ranks, and the division of an amount by largest remainder.               *)

\* An image of a finite set is finite.
LEMMA FiniteImage ==
  ASSUME NEW S, IsFiniteSet(S), NEW f
  PROVE  IsFiniteSet({f[x] : x \in S})
<1> DEFINE T == {f[x] : x \in S}
           g == [x \in S |-> f[x]]
<1>1. g \in Surjection(S, T)
  BY DEF Surjection
<1> QED BY <1>1, FS_Surjection

\* A strict order of S that compares any two, as the set of those ahead of each.
Orders(ahead, S) ==
  /\ ahead \in [S -> SUBSET S]
  /\ \A k \in S : k \notin ahead[k]
  /\ \A k, l \in S : k \in ahead[l] => ahead[k] \subseteq ahead[l]
  /\ \A k, l \in S : k # l => k \in ahead[l] \/ l \in ahead[k]

\* Whoever is ahead has fewer ahead of it.
LEMMA RankStrict ==
  ASSUME NEW S, IsFiniteSet(S), NEW ahead, Orders(ahead, S), NEW l \in S
  PROVE  /\ Cardinality(ahead[l]) \in Nat
         /\ \A k \in ahead[l] : k \in S /\ Cardinality(ahead[k]) < Cardinality(ahead[l])
<1>1. ahead[l] \subseteq S /\ IsFiniteSet(ahead[l])
  BY FS_Subset DEF Orders
<1>2. ASSUME NEW k \in ahead[l]
      PROVE  Cardinality(ahead[k]) < Cardinality(ahead[l])
  <2>1. k \in S /\ ahead[k] \subseteq ahead[l] /\ k \notin ahead[k]
    BY <1>1 DEF Orders
  <2>2. /\ IsFiniteSet(ahead[k]) /\ Cardinality(ahead[k]) <= Cardinality(ahead[l])
        /\ Cardinality(ahead[k]) # Cardinality(ahead[l])
    BY <1>1, <2>1, FS_Subset
  <2> QED BY <1>1, <2>2, FS_CardinalityType
<1> QED BY <1>1, <1>2, FS_CardinalityType

\* As many have a rank below m as m says.
LEMMA RankCount ==
  ASSUME NEW S, IsFiniteSet(S), NEW ahead, Orders(ahead, S)
  PROVE  \A m \in Nat : m <= Cardinality(S) =>
           /\ IsFiniteSet({l \in S : Cardinality(ahead[l]) < m})
           /\ Cardinality({l \in S : Cardinality(ahead[l]) < m}) = m
<1> DEFINE rank(l) == Cardinality(ahead[l])
           top(m) == {l \in S : rank(l) < m}
           P == {m \in Nat : m <= Cardinality(S) => Cardinality(top(m)) = m}
<1>1. \A l \in S : rank(l) \in Nat /\ \A k \in ahead[l] : k \in S /\ rank(k) < rank(l)
  BY RankStrict
<1>2. \A m : IsFiniteSet(top(m)) /\ Cardinality(top(m)) \in Nat
  BY FS_Subset, FS_CardinalityType
<1>c. Cardinality(S) \in Nat
  BY FS_CardinalityType
<1> HIDE DEF rank
<1>3. 0 \in P
  <2>1. top(0) = {}
    BY <1>1
  <2> QED BY <2>1, FS_EmptySet
<1>4. ASSUME NEW m \in Nat, m \in P
      PROVE  m + 1 \in P
  <2> SUFFICES ASSUME m + 1 <= Cardinality(S)
               PROVE  Cardinality(top(m + 1)) = m + 1
    OBVIOUS
  <2>1. Cardinality(top(m)) = m
    BY <1>4, <1>c
  <2> DEFINE rest == S \ top(m)
             ranks == {rank(l) : l \in rest}
  <2>2. rest # {}
    <3>1. top(m) # S
      BY <2>1, <1>c
    <3> QED BY <3>1
  <2>3. ranks \subseteq Nat /\ ranks # {}
    BY <1>1, <2>2
  <2>4. PICK l \in rest : \A k \in rest : rank(l) <= rank(k)
    <3>1. PICK least \in ranks : \A r \in ranks : least <= r
      <4> HIDE DEF ranks
      <4> QED BY <2>3, LeastElement
    <3> QED BY <3>1
  <2>5. ahead[l] = top(m)
    <3>1. ASSUME NEW k \in ahead[l]
          PROVE  k \in top(m)
      <4>1. k \in S /\ rank(k) < rank(l) /\ rank(k) \in Nat /\ rank(l) \in Nat
        BY <1>1
      <4> QED BY <2>4, <4>1
    <3>2. ASSUME NEW k \in top(m)
          PROVE  k \in ahead[l]
      <4>1. k \in S /\ rank(k) < m /\ ~(rank(l) < m) /\ rank(k) \in Nat /\ rank(l) \in Nat
        BY <1>1, <2>4
      <4>2. k # l /\ ~(rank(l) < rank(k))
        BY <4>1
      <4>3. l \notin ahead[k]
        BY <1>1, <4>1, <4>2
      <4> QED BY <2>4, <4>1, <4>2, <4>3 DEF Orders
    <3>3. ahead[l] \subseteq S
      BY <2>4 DEF Orders
    <3> QED BY <3>1, <3>2
  <2>6. rank(l) = m
    BY <2>1, <2>5 DEF rank
  <2>7. top(m + 1) = top(m) \cup {l}
    <3>1. l \in top(m + 1) /\ top(m) \subseteq top(m + 1)
      BY <1>1, <2>4, <2>6
    <3>2. ASSUME NEW k \in top(m + 1), k \notin top(m), k # l
          PROVE  FALSE
      <4>1. k \in S /\ rank(k) = m /\ l \in S
        BY <1>1, <2>4, <3>2
      <4>2. k \in ahead[l] \/ l \in ahead[k]
        BY <3>2, <4>1 DEF Orders
      <4>3. m < m
        BY <1>1, <2>6, <4>1, <4>2
      <4> QED BY <4>3
    <3> QED BY <3>1, <3>2
  <2>8. l \notin top(m)
    BY <2>4
  <2> HIDE DEF top
  <2> QED BY <1>2, <2>1, <2>7, <2>8, FS_AddElement
<1>5. Nat \subseteq P
  <2> HIDE DEF P
  <2> QED BY <1>3, <1>4, Induction
<1>6. \A m \in Nat : m <= Cardinality(S) => Cardinality(top(m)) = m
  BY <1>5
<1> QED BY <1>2, <1>6 DEF rank

\* A sum of naturals is one.
LEMMA TotalNat ==
  ASSUME NEW S, IsFiniteSet(S), NEW f, \A x \in S : f[x] \in Nat
  PROVE  Total(f, S) \in Nat
<1> DEFINE P == {T \in SUBSET S : Total(f, T) \in Nat}
<1>1. ASSUME NEW T \in SUBSET S, \A x \in T : T \ {x} \in P
      PROVE  T \in P
  <2>1. IsFiniteSet(T) /\ \A x \in T : f[x] \in Int
    BY FS_Subset
  <2>2. CASE T = {}
    BY <2>2, TotalEmpty
  <2>3. CASE T # {}
    <3>1. PICK x \in T : TRUE
      BY <2>3
    <3>2. Total(f, T) = f[x] + Total(f, T \ {x})
      BY <2>1, TotalTake
    <3> QED BY <1>1, <3>1, <3>2
  <2> QED BY <2>2, <2>3
<1>2. S \in P
  <2> HIDE DEF P
  <2> QED BY <1>1, SubsetInduction
<1> QED BY <1>2

\* The members of a set are counted by a sum.
LEMMA TotalCounts ==
  ASSUME NEW S, IsFiniteSet(S), NEW A, A \subseteq S, NEW f,
         \A x \in S : f[x] = IF x \in A THEN 1 ELSE 0
  PROVE  Total(f, S) = Cardinality(A)
<1> DEFINE P == {T \in SUBSET S : Total(f, T) = Cardinality(T \cap A)}
<1>1. ASSUME NEW T \in SUBSET S, \A x \in T : T \ {x} \in P
      PROVE  T \in P
  <2>1. IsFiniteSet(T)
    BY FS_Subset
  <2>2. CASE T = {}
    BY <2>2, TotalEmpty, FS_EmptySet
  <2>3. CASE T # {}
    <3>1. PICK x \in T : TRUE
      BY <2>3
    <3>2. Total(f, T) = f[x] + Total(f, T \ {x})
      BY <2>1, <3>1, TotalTake
    <3>3. Total(f, T \ {x}) = Cardinality((T \ {x}) \cap A)
      BY <1>1, <3>1
    <3>4. /\ IsFiniteSet((T \ {x}) \cap A)
          /\ Cardinality((T \ {x}) \cap A) \in Nat
      BY <2>1, FS_Subset, FS_CardinalityType
    <3>5. CASE x \in A
      <4>1. T \cap A = ((T \ {x}) \cap A) \cup {x} /\ x \notin (T \ {x}) \cap A
        BY <3>1, <3>5
      <4>2. Cardinality(T \cap A) = Cardinality((T \ {x}) \cap A) + 1
        BY <3>4, <4>1, FS_AddElement
      <4> QED BY <3>1, <3>2, <3>3, <3>4, <3>5, <4>2
    <3>6. CASE x \notin A
      <4>1. T \cap A = (T \ {x}) \cap A
        BY <3>6
      <4> QED BY <3>1, <3>2, <3>3, <3>4, <3>6, <4>1
    <3> QED BY <3>5, <3>6
  <2> QED BY <2>2, <2>3
<1>2. S \in P
  <2> HIDE DEF P
  <2> QED BY <1>1, SubsetInduction
<1>3. S \cap A = A
  OBVIOUS
<1> QED BY <1>2, <1>3

\* What is left when a natural is divided.
LEMMA Divides ==
  ASSUME NEW x \in Nat, NEW w \in Nat \ {0}
  PROVE  /\ x \div w \in Nat /\ x % w \in Nat /\ x % w < w
         /\ x = w * (x \div w) + (x % w)
BY SMTT(30)

\* A product of numbers is one.
LEMMA ProductNat ==
  ASSUME NEW m \in Nat, NEW k \in Nat
  PROVE  m * k \in Nat
BY SMTT(30)

\* Proportions of a total, rounded down, and the fractions that are lost by it.
RoundedShares(down, fraction, total, factor, D) ==
  /\ IsFiniteSet(D) /\ total \in Nat /\ Total(factor, D) \in Nat \ {0}
  /\ \A l \in D : /\ factor[l] \in Nat /\ down[l] \in Nat /\ fraction[l] \in Nat
                  /\ fraction[l] < Total(factor, D)
                  /\ total * factor[l] = Total(factor, D) * down[l] + fraction[l]

\* The units that are left over are the sum of the fractions.
LEMMA LeftOver ==
  ASSUME NEW D, NEW factor, NEW down, NEW fraction, NEW total,
         RoundedShares(down, fraction, total, factor, D)
  PROVE  /\ total - Total(down, D) \in Int /\ Total(fraction, D) \in Nat
         /\ (total - Total(down, D)) * Total(factor, D) = Total(fraction, D)
<1> DEFINE whole == Total(factor, D)
           times == [l \in D |-> total * factor[l]]
           taken == [l \in D |-> whole * down[l]]
<1>1. IsFiniteSet(D) /\ total \in Nat /\ whole \in Nat \ {0}
  BY DEF RoundedShares
<1>2. \A l \in D : factor[l] \in Nat /\ down[l] \in Nat /\ fraction[l] \in Nat
  BY Zenon DEF RoundedShares
<1>3. ASSUME NEW l \in D
      PROVE  times[l] = taken[l] + fraction[l] /\ taken[l] \in Int
  <2>1. total * factor[l] = whole * down[l] + fraction[l]
    BY DEF RoundedShares
  <2>2. whole * down[l] \in Nat
    BY <1>1, <1>2, ProductNat
  <2>3. times[l] = total * factor[l] /\ taken[l] = whole * down[l]
    OBVIOUS
  <2> HIDE DEF times, taken, whole
  <2> QED BY <2>1, <2>2, <2>3
<1>4. \A l \in D : factor[l] \in Int /\ times[l] = total * factor[l]
  BY <1>2
<1>5. \A l \in D : down[l] \in Int /\ taken[l] = whole * down[l]
  BY <1>2
<1>6. \A l \in D : taken[l] \in Int /\ fraction[l] \in Int /\ times[l] = taken[l] + fraction[l]
  BY <1>2, <1>3
<1> HIDE DEF times, taken, whole
<1>7. Total(times, D) = total * whole
  <2>1. Total(times, D) = total * Total(factor, D)
    BY <1>1, <1>4, TotalTimes
  <2> QED BY <2>1 DEF whole
<1>8. Total(taken, D) = whole * Total(down, D)
  BY <1>1, <1>5, TotalTimes
<1>9. Total(times, D) = Total(taken, D) + Total(fraction, D)
  BY <1>1, <1>6, TotalPlus
<1>10. Total(down, D) \in Int /\ Total(fraction, D) \in Nat
  BY <1>1, <1>2, <1>5, TotalInt, TotalNat
<1> DEFINE t == Total(down, D)
           f == Total(fraction, D)
<1>11. t \in Int /\ f \in Nat /\ total * whole = whole * t + f
  BY <1>7, <1>8, <1>9, <1>10
<1> HIDE DEF t, f
<1>12. (total - t) * whole = f
  BY <1>1, <1>11, SMTT(30)
<1> QED BY <1>1, <1>10, <1>12 DEF t, f, whole

\* They are fewer than the lines that have a fraction.
LEMMA LeftOverBound ==
  ASSUME NEW D, NEW factor, NEW down, NEW fraction, NEW total,
         RoundedShares(down, fraction, total, factor, D),
         NEW left, left = total - Total(down, D),
         NEW Some, Some = {l \in D : fraction[l] # 0}
  PROVE  /\ left \in Nat /\ Cardinality(Some) \in Nat
         /\ left <= Cardinality(Some) /\ Cardinality(Some) <= Cardinality(D)
         /\ left > 0 => left < Cardinality(Some)
<1> DEFINE whole == Total(factor, D)
           one == [l \in D |-> IF l \in Some THEN 1 ELSE 0]
           most == [l \in D |-> (whole - 1) * one[l]]
           c == Cardinality(Some)
           f == Total(fraction, D)
<1>1. IsFiniteSet(D) /\ whole \in Nat \ {0}
  BY DEF RoundedShares
<1>2. left \in Int /\ f \in Nat /\ left * whole = f
  BY LeftOver
<1>3. c \in Nat /\ c <= Cardinality(D)
  BY <1>1, FS_Subset, FS_CardinalityType
<1>4. Total(one, D) = c
  <2>1. \A l \in D : one[l] = IF l \in Some THEN 1 ELSE 0
    OBVIOUS
  <2> HIDE DEF one
  <2> QED BY <1>1, <2>1, TotalCounts
<1>5. \A l \in D : one[l] \in Int /\ most[l] = (whole - 1) * one[l]
  OBVIOUS
<1>6. ASSUME NEW l \in D
      PROVE  fraction[l] \in Int /\ most[l] \in Int /\ fraction[l] <= most[l]
  <2>1. fraction[l] \in Nat /\ fraction[l] < whole
    BY DEF RoundedShares
  <2>2. most[l] = IF l \in Some THEN whole - 1 ELSE 0
    <3>1. one[l] = (IF l \in Some THEN 1 ELSE 0) /\ most[l] = (whole - 1) * one[l]
      OBVIOUS
    <3> HIDE DEF one, most, whole
    <3> QED BY <1>1, <3>1
  <2> HIDE DEF most, whole
  <2> QED BY <1>1, <2>1, <2>2
<1>7. Total(most, D) = (whole - 1) * c
  <2>1. whole - 1 \in Int
    BY <1>1
  <2> HIDE DEF one, most, whole
  <2> QED BY <1>1, <1>4, <1>5, <2>1, TotalTimes
<1>8. f <= Total(most, D)
  <2> HIDE DEF most
  <2> QED BY <1>1, <1>6, TotalMonotone
<1> HIDE DEF whole, one, most, c, f
<1>9. left * whole <= (whole - 1) * c /\ 0 <= left * whole
  BY <1>2, <1>7, <1>8
<1>10. c * whole = (whole - 1) * c + c /\ (whole - 1) * c \in Int
  BY <1>1, <1>3, SMTT(30)
<1>11. 0 <= left
  BY <1>1, <1>2, <1>9, SMTT(30)
<1>12. ~(c < left)
  <2> SUFFICES ASSUME c < left PROVE FALSE
    OBVIOUS
  <2>1. (c + 1) * whole <= left * whole
    BY <1>1, <1>2, <1>3, ProductMonotone
  <2>2. (c + 1) * whole = c * whole + whole
    BY <1>1, <1>3, SMTT(30)
  <2>3. left * whole \in Int /\ c * whole \in Int
    BY <1>1, <1>2, <1>3, SMTT(30)
  <2> QED BY <1>1, <1>3, <1>9, <1>10, <2>1, <2>2, <2>3
<1>13. left > 0 => left # c
  <2> SUFFICES ASSUME left > 0, left = c PROVE FALSE
    OBVIOUS
  <2>1. c * whole <= (whole - 1) * c
    BY <1>9
  <2> QED BY <1>3, <1>10, <2>1
<1> QED BY <1>2, <1>3, <1>11, <1>12, <1>13 DEF c

\* Shares of a total that add up to it, none a unit away from its proportion.
DividesWhole(a, total, factor, D) ==
  /\ a \in [D -> Nat]
  /\ Total(a, D) = total
  /\ \A l \in D : /\ a[l] * Total(factor, D) < total * factor[l] + Total(factor, D)
                  /\ total * factor[l] < a[l] * Total(factor, D) + Total(factor, D)

\* So they do when each unit left over goes to another line that has a fraction.
LEMMA UnitsGiven ==
  ASSUME NEW D, NEW factor, NEW down, NEW fraction, NEW total,
         RoundedShares(down, fraction, total, factor, D),
         NEW top \in SUBSET D, Cardinality(top) = total - Total(down, D),
         \A l \in top : fraction[l] # 0,
         NEW a, a = [l \in D |-> IF l \in top THEN down[l] + 1 ELSE down[l]]
  PROVE  DividesWhole(a, total, factor, D)
<1> DEFINE whole == Total(factor, D)
           extra == [l \in D |-> IF l \in top THEN 1 ELSE 0]
<1>1. IsFiniteSet(D) /\ total \in Nat /\ whole \in Nat \ {0}
  BY DEF RoundedShares
<1>2. \A l \in D : down[l] \in Nat /\ fraction[l] \in Nat
  BY Zenon DEF RoundedShares
<1>3. a \in [D -> Nat]
  BY <1>2
<1>4. Total(a, D) = total
  <2>1. Total(extra, D) = Cardinality(top)
    <3>1. \A l \in D : extra[l] = IF l \in top THEN 1 ELSE 0
      OBVIOUS
    <3> HIDE DEF extra
    <3> QED BY <1>1, <3>1, TotalCounts
  <2>2. \A l \in D : down[l] \in Int /\ extra[l] \in Int /\ a[l] = down[l] + extra[l]
    BY <1>2
  <2> HIDE DEF extra
  <2>3. Total(a, D) = Total(down, D) + Total(extra, D)
    BY <1>1, <2>2, TotalPlus
  <2>4. Total(down, D) \in Int
    BY <1>1, <2>2, TotalInt
  <2> QED BY <1>1, <2>1, <2>3, <2>4
<1>5. ASSUME NEW l \in D
      PROVE  a[l] * whole < total * factor[l] + whole /\ total * factor[l] < a[l] * whole + whole
  <2> DEFINE x == down[l]
             y == fraction[l]
             z == total * factor[l]
  <2>1. x \in Nat /\ y \in Nat /\ y < whole /\ z = whole * x + y
    BY <1>2 DEF RoundedShares
  <2>2. a[l] = (IF l \in top THEN x + 1 ELSE x) /\ (l \in top => y # 0)
    OBVIOUS
  <2> HIDE DEF x, y, z, whole
  <2>3. whole * x = x * whole /\ (x + 1) * whole = x * whole + whole /\ x * whole \in Nat
    BY <1>1, <2>1, SMTT(30)
  <2>4. CASE l \in top
    <3>1. a[l] * whole = x * whole + whole
      BY <2>2, <2>3, <2>4
    <3>2. y # 0
      BY <2>2, <2>4
    <3> QED BY <1>1, <2>1, <2>3, <3>1, <3>2 DEF z
  <2>5. CASE l \notin top
    <3>1. a[l] * whole = x * whole
      BY <2>2, <2>5
    <3> QED BY <1>1, <2>1, <2>3, <3>1 DEF z
  <2> QED BY <2>4, <2>5
<1> QED BY <1>3, <1>4, <1>5 DEF DividesWhole

\* The larger fraction, and of equal ones the earlier line, is an order.
LEMMA FractionsOrder ==
  ASSUME NEW n \in Nat, NEW fraction, \A l \in 1..n : fraction[l] \in Nat,
         NEW ahead,
         ahead = [l \in 1..n |-> {k \in 1..n : \/ fraction[k] > fraction[l]
                                              \/ (fraction[k] = fraction[l] /\ k < l)}]
  PROVE  Orders(ahead, 1..n)
<1>1. \A k, l \in 1..n :
        k \in ahead[l] <=> fraction[k] > fraction[l] \/ (fraction[k] = fraction[l] /\ k < l)
  OBVIOUS
<1>2. ahead \in [1..n -> SUBSET (1..n)]
  OBVIOUS
<1>3. 1..n \subseteq Int
  OBVIOUS
<1>4. \A k \in 1..n : k \notin ahead[k]
  BY <1>1, <1>3
<1>5. \A k, l \in 1..n : k # l => k \in ahead[l] \/ l \in ahead[k]
  BY <1>1, <1>3
<1>6. ASSUME NEW k \in 1..n, NEW l \in 1..n, k \in ahead[l], NEW j \in ahead[k]
      PROVE  j \in ahead[l]
  <2>1. j \in 1..n
    BY <1>2
  <2>2. fraction[j] > fraction[k] \/ (fraction[j] = fraction[k] /\ j < k)
    BY <1>1, <2>1
  <2>3. fraction[k] > fraction[l] \/ (fraction[k] = fraction[l] /\ k < l)
    BY <1>1, <1>6
  <2>4. fraction[j] > fraction[l] \/ (fraction[j] = fraction[l] /\ j < l)
    BY <1>3, <2>1, <2>2, <2>3
  <2> QED BY <1>1, <2>1, <2>4
<1> QED BY <1>2, <1>4, <1>5, <1>6 DEF Orders

\* A charge is divided by largest remainder into shares that add up to it, none a
\* unit away from its proportion.
THEOREM AllocateWhole ==
  ASSUME NEW n \in Nat, NEW factor \in [1..n -> Nat], NEW total \in Nat,
         \E l \in 1..n : factor[l] # 0
  PROVE  DividesWhole(Allocate(total, factor), total, factor, 1..n)
<1> DEFINE D == 1..n
           whole == Total(factor, D)
           down == [l \in D |-> (total * factor[l]) \div whole]
           fraction == [l \in D |-> (total * factor[l]) % whole]
           ahead == [l \in D |-> {k \in D : \/ fraction[k] > fraction[l]
                                           \/ (fraction[k] = fraction[l] /\ k < l)}]
           left == total - Total(down, D)
           top == {l \in D : Cardinality(ahead[l]) < left}
           some == {l \in D : fraction[l] # 0}
           a == [l \in D |-> IF l \in top THEN down[l] + 1 ELSE down[l]]
<1>1. IsFiniteSet(D)
  BY FS_Interval
<1>2. \A l \in D : factor[l] \in Nat /\ factor[l] \in Int
  OBVIOUS
<1>3. whole \in Nat \ {0}
  <2>1. Total(factor, D) \in Nat
    BY <1>1, <1>2, TotalNat
  <2>2. PICK l \in D : factor[l] # 0
    OBVIOUS
  <2>3. Total(factor, D) = factor[l] + Total(factor, D \ {l})
    BY <1>1, <1>2, <2>2, TotalTake
  <2>4. Total(factor, D \ {l}) \in Nat
    BY <1>1, <1>2, FS_Subset, TotalNat
  <2> HIDE DEF D
  <2> QED BY <1>2, <2>1, <2>2, <2>3, <2>4
<1>4. RoundedShares(down, fraction, total, factor, D)
  <2> HIDE DEF whole, D
  <2>1. ASSUME NEW l \in D
        PROVE  /\ factor[l] \in Nat /\ down[l] \in Nat /\ fraction[l] \in Nat
               /\ fraction[l] < whole
               /\ total * factor[l] = whole * down[l] + fraction[l]
    <3> DEFINE x == total * factor[l]
    <3>1. factor[l] \in Nat /\ x \in Nat
      BY <1>2, ProductNat
    <3>2. down[l] = x \div whole /\ fraction[l] = x % whole
      OBVIOUS
    <3>3. /\ x \div whole \in Nat /\ x % whole \in Nat /\ x % whole < whole
          /\ x = whole * (x \div whole) + (x % whole)
      <4> HIDE DEF x
      <4> QED BY <1>3, <3>1, Divides
    <3> HIDE DEF down, fraction
    <3> QED BY <3>1, <3>2, <3>3
  <2> HIDE DEF down, fraction
  <2> QED BY <1>1, <1>3, <2>1 DEF RoundedShares, whole
<1>5. Allocate(total, factor) = a
  <2>1. DOMAIN factor = D /\ DOMAIN down = D
    OBVIOUS
  <2>2. SumFunction(factor) = whole /\ SumFunction(down) = Total(down, D)
    BY <2>1, Zenon DEF SumFunction, Total
  <2>3. \A l \in D : ahead[l] = {k \in DOMAIN factor :
                       \/ (total * factor[k]) % whole > (total * factor[l]) % whole
                       \/ ((total * factor[k]) % whole = (total * factor[l]) % whole /\ k < l)}
    BY <2>1
  <2> QED BY <2>1, <2>2, <2>3 DEF Allocate
<1>6. Orders(ahead, D)
  <2>1. \A l \in D : fraction[l] \in Nat
    BY <1>4, Zenon DEF RoundedShares
  <2> HIDE DEF fraction
  <2> QED BY <2>1, FractionsOrder
<1> HIDE DEF whole, down, fraction, ahead
<1>7. /\ left \in Nat /\ Cardinality(some) \in Nat
      /\ left <= Cardinality(some) /\ Cardinality(some) <= Cardinality(D)
      /\ left > 0 => left < Cardinality(some)
  <2> HIDE DEF D
  <2> QED BY <1>4, LeftOverBound
<1>8. Cardinality(top) = left
  <2>1. left \in Nat /\ left <= Cardinality(D)
    <3>1. Cardinality(D) \in Nat
      BY <1>1, FS_CardinalityType
    <3> HIDE DEF left, some, D
    <3> QED BY <1>7, <3>1
  <2> HIDE DEF left, D, top
  <2>2. Cardinality({l \in D : Cardinality(ahead[l]) < left}) = left
    BY <1>1, <1>6, <2>1, RankCount
  <2> QED BY <2>2 DEF top
<1>9. ASSUME NEW l \in top, fraction[l] = 0
      PROVE  FALSE
  <2>1. l \in D /\ Cardinality(ahead[l]) < left /\ IsFiniteSet(ahead[l])
        /\ Cardinality(ahead[l]) \in Nat
    <3>1. l \in D
      OBVIOUS
    <3>2. ahead[l] \subseteq D
      BY <1>6, <3>1 DEF Orders
    <3> QED BY <1>1, <3>1, <3>2, FS_Subset, FS_CardinalityType
  <2>2. some \subseteq ahead[l]
    <3>1. ASSUME NEW k \in some
          PROVE  k \in ahead[l]
      <4>1. k \in D /\ fraction[k] # 0 /\ fraction[k] \in Nat
        BY <1>4, Zenon DEF RoundedShares
      <4>2. fraction[k] > fraction[l]
        BY <1>9, <4>1
      <4> QED BY <2>1, <4>1, <4>2 DEF ahead
    <3> QED BY <3>1
  <2>3. Cardinality(some) <= Cardinality(ahead[l])
    BY <2>1, <2>2, FS_Subset
  <2> HIDE DEF left, some
  <2> QED BY <1>7, <2>1, <2>3
<1> HIDE DEF D
<1>10. DividesWhole(a, total, factor, D)
  <2>1. Cardinality(top) = total - Total(down, D) /\ top \in SUBSET D
    BY <1>8
  <2>2. \A l \in top : fraction[l] # 0
    BY <1>9
  <2> HIDE DEF top
  <2> QED BY <1>4, <2>1, <2>2, UnitsGiven
<1> QED BY <1>5, <1>10 DEF D

-----------------------------------------------------------------------------
(* A shipment is priced whole or not at all.                                *)

-----------------------------------------------------------------------------
(* The amounts of a price are naturals.                                     *)

\* The library's maximum and minimum of two naturals.
LEMMA MaxMinNat ==
  ASSUME NEW a \in Nat, NEW b \in Nat
  PROVE  Max({a, b}) \in Nat /\ Min({a, b}) \in Nat
<1>1. Min({a, b}) \in Nat
  BY MinOf
<1>2. \E x \in {a, b} : \A y \in {a, b} : x >= y
  <2>1. a >= b \/ b >= a
    OBVIOUS
  <2> QED BY <2>1
<1>3. Max({a, b}) \in {a, b}
  BY <1>2, Zenon DEF Max
<1> QED BY <1>1, <1>3

\* How a shipment may say to round.
RoundingModes == {"HALF_UP", "HALF_EVEN", "DOWN", "UP"}

\* What is rounded is a number.
LEMMA RoundNat ==
  ASSUME NEW n \in Nat, NEW d \in Nat \ {0}, NEW mode \in RoundingModes
  PROVE  Round(n, d, mode) \in Nat
<1>1. n \div d \in Nat
  BY Divides
<1>2. Round(n, d, mode) \in {n \div d, (n \div d) + 1}
  BY DEF Round, RoundingModes
<1> QED BY <1>1, <1>2

\* What is whole is not rounded.
LEMMA RoundExact ==
  ASSUME NEW a \in Nat, NEW mode \in RoundingModes
  PROVE  Round(a * 100, 100, mode) = a
<1>1. (a * 100) \div 100 = a /\ (a * 100) % 100 = 0
  BY SMTT(30)
<1> QED BY <1>1 DEF Round, RoundingModes

\* Records are of the revision and of their domain.
LEMMA InEffectOf ==
  ASSUME NEW r, NEW domain, NEW country, NEW key, NEW x \in InEffect(r, domain, country, key)
  PROVE  x \in r.content /\ x.domain = domain
BY DEF InEffect

\* The one record of a source is one of it.
LEMMA SingleIs ==
  ASSUME NEW S, S # {}
  PROVE  \E x \in S : Single(S) = x.value
BY Zenon DEF Single

\* A rate that is given is a natural.
LEMMA RateNat ==
  ASSUME NEW r, SourceNumbers(r.content), NEW s, NEW c, Rate(r, s, c) # None
  PROVE  Rate(r, s, c) \in Nat
<1>1. CASE c = s.currency
  BY <1>1 DEF Rate
<1>2. CASE c # s.currency
  <2> DEFINE quoted == {q \in Quotes(r, s) : q.value.of = c}
  <2>1. quoted # {} /\ Rate(r, s, c) = Single(quoted).rate
    BY <1>2, Zenon DEF Rate
  <2>2. PICK q \in quoted : Single(quoted) = q.value
    BY <2>1, SingleIs, Zenon
  <2>3. q \in r.content /\ q.domain = "CUSTOMS_FX"
    BY <2>2, InEffectOf DEF Quotes, Fx
  <2>4. q.value.rate \in Nat
    BY <2>3, Zenon DEF SourceNumbers
  <2> QED BY <2>1, <2>2, <2>4
<1> QED BY <1>1, <1>2

\* A converted amount is a number.
LEMMA ConvertedNat ==
  ASSUME NEW r, SourceNumbers(r.content), NEW s, s.rounding \in RoundingModes,
         NEW a \in Nat, NEW c, Rate(r, s, c) # None
  PROVE  Converted(r, s, a, c) \in Nat
<1> DEFINE rate == Rate(r, s, c)
           mode == s.rounding
<1>1. rate \in Nat /\ mode \in RoundingModes
  BY RateNat
<1>2. Converted(r, s, a, c) = Round(a * rate, 100, mode)
  BY DEF Converted
<1> HIDE DEF rate, mode
<1>3. a * rate \in Nat /\ 100 \in Nat \ {0}
  BY <1>1, ProductNat
<1> HIDE DEF RoundingModes
<1> QED BY <1>1, <1>2, <1>3, RoundNat

\* The currency of the shipment is not converted.
LEMMA ConvertedOwn ==
  ASSUME NEW r, NEW s, s.rounding \in RoundingModes, NEW a \in Nat
  PROVE  Rate(r, s, s.currency) = 100 /\ Converted(r, s, a, s.currency) = a
<1>1. Rate(r, s, s.currency) = 100
  BY DEF Rate
<1>2. Converted(r, s, a, s.currency) = Round(a * 100, 100, s.rounding)
  BY <1>1 DEF Converted
<1> QED BY <1>1, <1>2, RoundExact

\* A finite set of parts.
Parts(parts) == IsFiniteSet(parts) /\ \A p \in parts : p.amount \in Nat

\* Parts add up to a number.
LEMMA AmountsNat ==
  ASSUME NEW parts, Parts(parts)
  PROVE  Amounts(parts) \in Nat
<1> DEFINE f == [p \in parts |-> p.amount]
<1>1. Amounts(parts) = Total(f, parts)
  BY Zenon DEF Amounts, SumFunction, Total
<1>2. \A p \in parts : f[p] \in Nat
  BY DEF Parts
<1> HIDE DEF f
<1> QED BY <1>1, <1>2, TotalNat DEF Parts

\* Some parts of what a line bears are parts.
LEMMA SomeParts ==
  ASSUME NEW parts, Parts(parts), NEW some, some \subseteq parts
  PROVE  Parts(some)
BY FS_Subset DEF Parts

\* What a lane charges is a natural.
LEMMA LaneTotalNat ==
  ASSUME NEW r, SourceNumbers(r.content), NEW s, s.rounding \in RoundingModes,
         NEW lane, lane.amount \in Nat, {lane.least, lane.most} \subseteq Nat \cup {None},
         Rate(r, s, lane.currency) # None
  PROVE  LaneTotal(r, s, lane) \in Nat
<1> DEFINE worth(a) == Converted(r, s, a, lane.currency)
           floored == IF lane.least = None THEN worth(lane.amount)
                      ELSE Max({worth(lane.amount), worth(lane.least)})
<1>1. \A a \in Nat : worth(a) \in Nat
  BY ConvertedNat
<1> HIDE DEF worth
<1>2. floored \in Nat
  BY <1>1, MaxMinNat
<1> HIDE DEF floored
<1>3. (IF lane.most = None THEN floored ELSE Min({floored, worth(lane.most)})) \in Nat
  BY <1>1, <1>2, MaxMinNat
<1> QED BY <1>3 DEF LaneTotal, worth, floored

\* What a line that can be priced has, whatever it is charged.
Priceable(r, s, line) ==
  /\ Classes(r, s, line) # {} /\ Origins(r, line) # {}
  /\ Single(Taxes(r, s)) # None /\ Single(Taxes(r, s)).recovery # "UNVERIFIED"
  /\ Rules(r, s, line) # {}

\* A line that nothing blocks can be priced.
LEMMA NothingBlocks ==
  ASSUME NEW r, NEW s, NEW line, NEW charges
  PROVE  BlockingStatus(r, s, line, charges) = "CALCULABLE"
           <=> /\ Priceable(r, s, line)
               /\ \A c \in {line.currency} \cup {x.currency : x \in charges} : Rate(r, s, c) # None
BY Zenon DEF BlockingStatus, Priceable

\* The value of a line and its charges, in the currency of the shipment.
Borne(r, s, line, charges) == {Goods(r, s, line)} \cup Charged(r, s, charges)

\* Charges of known amounts.
ChargesRead(charges) == IsFiniteSet(charges) /\ \A c \in charges : c.amount \in Nat

\* What a line bears are parts, if nothing blocks it.
LEMMA BorneParts ==
  ASSUME NEW r, SourceNumbers(r.content), NEW s, s.rounding \in RoundingModes,
         NEW line, line.value \in Nat, NEW charges, ChargesRead(charges),
         BlockingStatus(r, s, line, charges) = "CALCULABLE"
  PROVE  Parts(Borne(r, s, line, charges))
<1>1. \A c \in {line.currency} \cup {x.currency : x \in charges} : Rate(r, s, c) # None
  BY NothingBlocks
<1> DEFINE f == [c \in charges |-> Part(c.type, Converted(r, s, c.amount, c.currency),
                                        c.customs, c.gross, c.recoverable)]
<1>2. Charged(r, s, charges) = {f[c] : c \in charges}
  BY DEF Charged
<1>3. IsFiniteSet({f[c] : c \in charges})
  <2> HIDE DEF f
  <2> QED BY FiniteImage DEF ChargesRead
<1>4. IsFiniteSet(Borne(r, s, line, charges))
  BY <1>2, <1>3, FS_Singleton, FS_Union DEF Borne
<1>5. Goods(r, s, line).amount \in Nat
  <2>1. Converted(r, s, line.value, line.currency) \in Nat
    BY <1>1, ConvertedNat
  <2> QED BY <2>1 DEF Goods, Part
<1>6. ASSUME NEW c \in charges
      PROVE  f[c].amount \in Nat
  <2>1. Converted(r, s, c.amount, c.currency) \in Nat
    BY <1>1, ConvertedNat DEF ChargesRead
  <2>2. f[c].amount = Converted(r, s, c.amount, c.currency)
    BY DEF Part
  <2> QED BY <2>1, <2>2
<1> HIDE DEF f
<1>7. \A p \in Borne(r, s, line, charges) : p.amount \in Nat
  BY <1>2, <1>5, <1>6 DEF Borne
<1> QED BY <1>4, <1>7 DEF Parts

\* A line that is not refused and is not blocked is calculated.
LEMMA AssessedIs ==
  ASSUME NEW r, NEW s, NEW line, NEW charges,
         BlockingStatus(r, s, line, charges) = "CALCULABLE",
         Converted(r, s, line.value, line.currency) # 0,
         RuleValid(Single(Rules(r, s, line))), ~(Single(Taxes(r, s)).rate > 100)
  PROVE  Assess(r, s, line, charges) = Calculated(r, s, line, Borne(r, s, line, charges))
BY Zenon DEF Assess, Borne

\* And what is not refused is valid.
LEMMA AssessedValid ==
  ASSUME NEW r, NEW s, NEW line, NEW charges,
         BlockingStatus(r, s, line, charges) = "CALCULABLE",
         Assess(r, s, line, charges).status # "REFUSED"
  PROVE  /\ Converted(r, s, line.value, line.currency) # 0
         /\ RuleValid(Single(Rules(r, s, line)))
         /\ ~(Single(Taxes(r, s)).rate > 100)
<1>1. Unpriced("REFUSED").status = "REFUSED"
  BY DEF Unpriced
<1> QED BY <1>1, Zenon DEF Assess

\* Its parts are those it bears and the levies.
LevyTypes == {"CUSTOMS_DUTY", "IMPORT_VAT"}

\* The parts of a line are what it bears and what is levied on it.
LEMMA CalculatedParts ==
  ASSUME NEW r, NEW s, NEW line, NEW bears
  PROVE  LET row == Calculated(r, s, line, bears)
         IN /\ row.status = "CALCULABLE"
            /\ row.customs = Amounts({p \in bears : p.customs})
            /\ bears \subseteq row.parts
            /\ \A p \in row.parts : p \in bears \/ p.type \in LevyTypes
<1> DEFINE customs == Amounts({p \in bears : p.customs})
           tax == Single(Taxes(r, s))
           duty == Duty(Single(Rules(r, s, line)), customs, line.quantity, s.rounding)
           levies == Levies(customs, duty, tax, s.rounding)
           row == Assessed(customs, bears \cup levies)
<1>1. Calculated(r, s, line, bears) = row
  BY Zenon DEF Calculated, Levied
<1>2. \A p \in levies : p.type \in LevyTypes
  BY DEF Levies, Part, LevyTypes
<1> HIDE DEF levies, customs
<1>3. row.status = "CALCULABLE" /\ row.customs = customs /\ row.parts = bears \cup levies
  BY DEF Assessed
<1> HIDE DEF row
<1> QED BY <1>1, <1>2, <1>3 DEF customs

\* The customs value of a line that nothing blocks is a number.
LEMMA CustomsNat ==
  ASSUME NEW r, SourceNumbers(r.content), NEW s, s.rounding \in RoundingModes,
         NEW line, line.value \in Nat, NEW charges, ChargesRead(charges),
         BlockingStatus(r, s, line, charges) = "CALCULABLE",
         Assess(r, s, line, charges).status # "REFUSED"
  PROVE  Assess(r, s, line, charges).customs \in Nat
<1> DEFINE bears == Borne(r, s, line, charges)
<1>1. Parts(bears)
  BY BorneParts
<1>2. Assess(r, s, line, charges) = Calculated(r, s, line, bears)
  BY AssessedIs, AssessedValid
<1> HIDE DEF bears
<1>3. Assess(r, s, line, charges).customs = Amounts({p \in bears : p.customs})
  BY <1>2, CalculatedParts
<1> QED BY <1>1, <1>3, SomeParts, AmountsNat

\* The lines of a shipment.
LEMMA LinesRead ==
  ASSUME NEW s, ShipmentRead(s)
  PROVE  /\ Len(s.lines) \in Nat /\ DOMAIN s.lines = 1..Len(s.lines)
         /\ s.rounding \in RoundingModes /\ s.basis \in {"CUSTOMS_VALUE", "QUANTITY", "WEIGHT"}
         /\ \A l \in DOMAIN s.lines :
              /\ s.lines[l].quantity \in Nat /\ s.lines[l].value \in Nat
              /\ ChargesRead(s.lines[l].charges)
<1>1. s.lines \in Seq({s.lines[l] : l \in DOMAIN s.lines})
  BY Zenon DEF ShipmentRead
<1>2. Len(s.lines) \in Nat /\ DOMAIN s.lines = 1..Len(s.lines)
  <2> DEFINE q == s.lines
             T == {s.lines[l] : l \in DOMAIN s.lines}
  <2>1. q \in Seq(T)
    BY <1>1
  <2> HIDE DEF q, T
  <2>2. Len(q) \in Nat /\ DOMAIN q = 1..Len(q)
    BY <2>1
  <2> QED BY <2>2 DEF q
<1>3. \A l \in DOMAIN s.lines :
        /\ s.lines[l].quantity \in Nat /\ s.lines[l].value \in Nat
        /\ ChargesRead(s.lines[l].charges)
  BY Zenon DEF ShipmentRead, ChargesRead
<1> QED BY <1>2, <1>3, Zenon DEF ShipmentRead, RoundingModes

\* A shipment whose price states an amount: nothing is missing, nothing is refused.
Clear(r, s) ==
  /\ SourceNumbers(r.content) /\ ShipmentRead(s)
  /\ ShipmentValid(s) /\ ~SourcesRefused(r, s) /\ Missing(r, s) = {} /\ ~AllocationRefused(r, s)
  /\ \A l \in DOMAIN s.lines : Assess(r, s, s.lines[l], s.lines[l].charges).status # "REFUSED"

\* Its lines are priceable, and their charges all have a type of their own.
LEMMA ClearLines ==
  ASSUME NEW r, NEW s, Clear(r, s)
  PROVE  \A l \in DOMAIN s.lines :
           /\ BlockingStatus(r, s, s.lines[l], s.lines[l].charges) = "CALCULABLE"
           /\ {x.value.type : x \in Lanes(r, s)} \subseteq ChargeTypes
           /\ {c.type : c \in s.lines[l].charges} \subseteq ChargeTypes
<1> DEFINE lanes == {x.value.type : x \in Lanes(r, s)}
           own(l) == {c.type : c \in s.lines[l].charges}
<1>1. Missing(r, s) = {}
  BY DEF Clear
<1>2. \A l \in DOMAIN s.lines : BlockingStatus(r, s, s.lines[l], s.lines[l].charges) = "CALCULABLE"
  <2>1. "SHIPMENT_ALLOCATION_INPUT_INCOMPLETE" \notin Missing(r, s)
    BY <1>1
  <2> QED BY <2>1 DEF Missing
<1>3. \A l \in DOMAIN s.lines : lanes \cup own(l) \cup s.exempt = ChargeTypes
  <2>1. "CHARGE_COVERAGE_INCOMPLETE" \notin Missing(r, s)
    BY <1>1
  <2> QED BY <2>1 DEF Missing
<1> HIDE DEF lanes, own
<1>4. \A l \in DOMAIN s.lines : lanes \subseteq ChargeTypes /\ own(l) \subseteq ChargeTypes
  BY <1>3
<1> QED BY <1>2, <1>4 DEF lanes, own

\* A lane has its charge, in natural amounts, and a currency that has a rate.
LEMMA ClearLanes ==
  ASSUME NEW r, NEW s, Clear(r, s), NEW lane \in Lanes(r, s)
  PROVE  LaneTotal(r, s, lane.value) \in Nat
<1>1. lane \in r.content /\ lane.domain = "LANE_CHARGE"
  BY InEffectOf DEF Lanes
<1>2. /\ lane.value.amount \in Nat
      /\ {lane.value.least, lane.value.most} \subseteq Nat \cup {None}
  BY <1>1, Zenon DEF Clear, SourceNumbers
<1>3. Rate(r, s, lane.value.currency) # None
  BY Zenon DEF Clear, AllocationRefused
<1>4. SourceNumbers(r.content) /\ s.rounding \in RoundingModes
  BY LinesRead DEF Clear
<1> QED BY <1>2, <1>3, <1>4, LaneTotalNat

\* The factors are naturals, and one of them is not zero.
LEMMA ClearFactors ==
  ASSUME NEW r, NEW s, Clear(r, s)
  PROVE  /\ \A l \in DOMAIN s.lines : Factor(r, s, l) \in Nat
         /\ \E l \in DOMAIN s.lines : Factor(r, s, l) # 0
<1>1. \E l \in DOMAIN s.lines : Factor(r, s, l) # 0
  BY Zenon DEF Clear, AllocationRefused
<1>2. ASSUME NEW l \in DOMAIN s.lines
      PROVE  Factor(r, s, l) \in Nat
  <2> DEFINE line == s.lines[l]
  <2>1. /\ SourceNumbers(r.content) /\ s.rounding \in RoundingModes
        /\ s.basis \in {"CUSTOMS_VALUE", "QUANTITY", "WEIGHT"}
        /\ line.quantity \in Nat /\ line.value \in Nat /\ ChargesRead(line.charges)
    BY LinesRead, Zenon DEF Clear
  <2>2. /\ BlockingStatus(r, s, line, line.charges) = "CALCULABLE"
        /\ Assess(r, s, line, line.charges).status # "REFUSED"
    BY ClearLines, Zenon DEF Clear
  <2>3. Assess(r, s, line, line.charges).customs \in Nat
    <3> HIDE DEF line
    <3> QED BY <2>1, <2>2, CustomsNat
  <2>4. s.basis = "WEIGHT" => Single(Physicals(r, line)).weight \in Nat
    <3> SUFFICES ASSUME s.basis = "WEIGHT"
                 PROVE  Single(Physicals(r, line)).weight \in Nat
      OBVIOUS
    <3>1. Physicals(r, line) # {}
      BY Zenon DEF Clear, AllocationRefused
    <3> HIDE DEF line
    <3>2. PICK x \in Physicals(r, line) : Single(Physicals(r, line)) = x.value
      BY <3>1, SingleIs, Zenon
    <3>3. x \in r.content /\ x.domain = "ITEM_PHYSICAL_ATTRIBUTE"
      BY <3>2, InEffectOf DEF Physicals
    <3> QED BY <2>1, <3>2, <3>3, Zenon DEF SourceNumbers
  <2> DEFINE customs == Assess(r, s, line, line.charges).customs
             weight == Single(Physicals(r, line)).weight
             quantity == line.quantity
  <2>5. s.basis = "WEIGHT" => quantity * weight \in Nat
    <3> HIDE DEF weight, quantity
    <3> QED BY <2>1, <2>4, ProductNat DEF weight, quantity
  <2>6. \/ s.basis = "CUSTOMS_VALUE" /\ Factor(r, s, l) = customs
        \/ s.basis = "QUANTITY" /\ Factor(r, s, l) = quantity
        \/ s.basis = "WEIGHT" /\ Factor(r, s, l) = quantity * weight
    <3> HIDE DEF customs, weight, quantity
    <3>1. \/ s.basis = "CUSTOMS_VALUE" /\ Factor(r, s, l) = Assess(r, s, s.lines[l], s.lines[l].charges).customs
          \/ s.basis = "QUANTITY" /\ Factor(r, s, l) = s.lines[l].quantity
          \/ s.basis = "WEIGHT" /\ Factor(r, s, l) = s.lines[l].quantity * Single(Physicals(r, s.lines[l])).weight
      BY <2>1, Zenon DEF Factor
    <3> QED BY <3>1, Zenon DEF customs, weight, quantity
  <2> QED BY <2>1, <2>3, <2>5, <2>6
<1> QED BY <1>1, <1>2

\* The share of a lane that a line is charged.
Share(r, s, lane, l) ==
  [type |-> lane.value.type, currency |-> s.currency, customs |-> lane.value.customs,
   gross |-> TRUE, recoverable |-> FALSE,
   amount |-> Allocate(LaneTotal(r, s, lane.value),
                       [k \in DOMAIN s.lines |-> Factor(r, s, k)])[l]]

\* The charges of a line are its own and its share of every lane.
LEMMA ChargesAre ==
  ASSUME NEW r, NEW s, NEW l
  PROVE  ChargesOf(r, s, l) = s.lines[l].charges \cup {Share(r, s, lane, l) : lane \in Lanes(r, s)}
BY Zenon DEF ChargesOf, Share

\* The shares of a lane add up to its charge.
LEMMA SharesWhole ==
  ASSUME NEW r, NEW s, Clear(r, s), NEW lane \in Lanes(r, s),
         NEW factor, factor = [k \in DOMAIN s.lines |-> Factor(r, s, k)]
  PROVE  DividesWhole(Allocate(LaneTotal(r, s, lane.value), factor), LaneTotal(r, s, lane.value),
                      factor, DOMAIN s.lines)
<1>1. LaneTotal(r, s, lane.value) \in Nat
  BY ClearLanes
<1> DEFINE n == Len(s.lines)
<1>2. n \in Nat /\ DOMAIN s.lines = 1..n
  BY LinesRead DEF Clear
<1>3. factor \in [1..n -> Nat] /\ \E l \in 1..n : factor[l] # 0
  BY <1>2, ClearFactors
<1> HIDE DEF n
<1> QED BY <1>1, <1>2, <1>3, AllocateWhole

\* With its shares a line is priceable still, for they are in its own currency.
LEMMA LastRow ==
  ASSUME NEW r, NEW s, Clear(r, s), NEW l \in DOMAIN s.lines
  PROVE  LET line == s.lines[l]
             charges == ChargesOf(r, s, l)
         IN /\ ChargesRead(charges)
            /\ BlockingStatus(r, s, line, charges) = "CALCULABLE"
            /\ Assess(r, s, line, charges) = Calculated(r, s, line, Borne(r, s, line, charges))
<1> DEFINE line == s.lines[l]
           charges == ChargesOf(r, s, l)
           own == line.charges
           f == [lane \in Lanes(r, s) |-> Share(r, s, lane, l)]
           shares == {f[lane] : lane \in Lanes(r, s)}
<1>1. /\ SourceNumbers(r.content) /\ s.rounding \in RoundingModes /\ ChargesRead(own)
  BY LinesRead, Zenon DEF Clear
<1>2. /\ BlockingStatus(r, s, line, own) = "CALCULABLE"
      /\ Assess(r, s, line, own).status # "REFUSED"
  BY ClearLines, Zenon DEF Clear
<1>3. charges = own \cup shares
  BY ChargesAre
<1>4. ASSUME NEW lane \in Lanes(r, s)
      PROVE  f[lane].currency = s.currency /\ f[lane].amount \in Nat
  <2> DEFINE factor == [k \in DOMAIN s.lines |-> Factor(r, s, k)]
             a == Allocate(LaneTotal(r, s, lane.value), factor)
  <2>1. a \in [DOMAIN s.lines -> Nat]
    <3>1. DividesWhole(a, LaneTotal(r, s, lane.value), factor, DOMAIN s.lines)
      BY SharesWhole
    <3> QED BY <3>1 DEF DividesWhole
  <2>2. f[lane].currency = s.currency /\ f[lane].amount = a[l]
    BY DEF Share
  <2> HIDE DEF a
  <2> QED BY <2>1, <2>2
<1>5. IsFiniteSet(Lanes(r, s))
  <2>1. Lanes(r, s) \subseteq r.content
    BY InEffectOf DEF Lanes
  <2> QED BY <1>1, <2>1, FS_Subset DEF SourceNumbers
<1> HIDE DEF f
<1>6. IsFiniteSet(shares)
  BY <1>5, FiniteImage
<1>7. ChargesRead(charges)
  <2>1. IsFiniteSet(own \cup shares)
    BY <1>1, <1>6, FS_Union DEF ChargesRead
  <2>2. \A c \in own \cup shares : c.amount \in Nat
    BY <1>1, <1>4 DEF ChargesRead
  <2> QED BY <1>3, <2>1, <2>2 DEF ChargesRead
<1>8. Rate(r, s, s.currency) # None
  <2>1. Rate(r, s, s.currency) = 100
    BY DEF Rate
  <2> QED BY <2>1, NoneAssumption
<1>9. BlockingStatus(r, s, line, charges) = "CALCULABLE"
  <2>1. /\ Priceable(r, s, line)
        /\ \A c \in {line.currency} \cup {x.currency : x \in own} : Rate(r, s, c) # None
    BY <1>2, NothingBlocks
  <2>2. \A c \in {line.currency} \cup {x.currency : x \in charges} : Rate(r, s, c) # None
    BY <1>3, <1>4, <1>8, <2>1
  <2> QED BY <2>1, <2>2, NothingBlocks
<1> HIDE DEF charges, line
<1>10. Assess(r, s, line, charges) = Calculated(r, s, line, Borne(r, s, line, charges))
  BY <1>2, <1>9, AssessedValid, AssessedIs
<1> QED BY <1>7, <1>9, <1>10 DEF charges, line

\* No other part of a line has the type of a lane, and its amount is the share.
LEMMA ShareOf ==
  ASSUME NEW r, NEW s, Clear(r, s), NEW l \in DOMAIN s.lines, NEW lane \in Lanes(r, s),
         NEW parts, parts = Assess(r, s, s.lines[l], ChargesOf(r, s, l)).parts
  PROVE  (CHOOSE p \in parts : p.type = lane.value.type).amount = Share(r, s, lane, l).amount
<1> DEFINE line == s.lines[l]
           charges == ChargesOf(r, s, l)
           bears == Borne(r, s, line, charges)
           type == lane.value.type
           of(c) == Part(c.type, Converted(r, s, c.amount, c.currency), c.customs, c.gross,
                         c.recoverable)
           share == Share(r, s, lane, l)
<1>1. bears \subseteq parts /\ \A p \in parts : p \in bears \/ p.type \in LevyTypes
  <2> DEFINE row == Calculated(r, s, line, bears)
  <2>1. Assess(r, s, line, charges) = row
    BY LastRow
  <2>2. parts = row.parts
    BY <2>1
  <2> HIDE DEF bears
  <2>3. bears \subseteq row.parts /\ \A p \in row.parts : p \in bears \/ p.type \in LevyTypes
    BY CalculatedParts
  <2> HIDE DEF row
  <2> QED BY <2>2, <2>3
<1>2. bears = {Goods(r, s, line)} \cup {of(c) : c \in charges}
  BY Zenon DEF Borne, Charged
<1>3. Goods(r, s, line).type = "TRANSACTION_VALUE"
  BY DEF Goods, Part
<1>4. \A c \in charges : of(c).type = c.type
  BY DEF Part
<1>5. type \in ChargeTypes /\ type \notin LevyTypes /\ type # "TRANSACTION_VALUE"
  <2>1. type \in ChargeTypes
    BY ClearLines
  <2> QED BY <2>1, NumberAssumption DEF LevyTypes
<1>6. ASSUME NEW c \in charges, c.type = type
      PROVE  c = share
  <2>1. c \in line.charges \/ \E x \in Lanes(r, s) : c = Share(r, s, x, l)
    BY ChargesAre
  <2>2. c \notin line.charges
    <3>1. type \notin UNION {{d.type : d \in s.lines[k].charges} : k \in DOMAIN s.lines}
      BY Zenon DEF Clear, SourcesRefused
    <3> QED BY <1>6, <3>1
  <2>3. PICK x \in Lanes(r, s) : c = Share(r, s, x, l)
    BY <2>1, <2>2
  <2>4. x.value.type = lane.value.type
    BY <1>6, <2>3 DEF Share
  <2>5. x = lane
    BY <2>4, Zenon DEF Clear, SourcesRefused
  <2> QED BY <2>3, <2>5
<1>7. share \in charges /\ share.type = type
  <2>1. share \in charges
    BY ChargesAre
  <2> QED BY <2>1 DEF Share
<1> HIDE DEF charges, type, share, line, of
<1>8. \A p \in bears : p.type = type => p = of(share)
  BY <1>2, <1>3, <1>4, <1>5, <1>6
<1>9. of(share) \in parts /\ of(share).type = type
  BY <1>1, <1>2, <1>4, <1>7
<1> HIDE DEF bears
<1>10. \A p \in parts : p.type = type => p = of(share)
  BY <1>1, <1>5, <1>8
<1>11. (CHOOSE p \in parts : p.type = type) = of(share)
  BY <1>9, <1>10
<1>12. of(share).amount = share.amount
  <2>1. share.amount \in Nat /\ share.currency = s.currency
    <3> DEFINE factor == [k \in DOMAIN s.lines |-> Factor(r, s, k)]
               a == Allocate(LaneTotal(r, s, lane.value), factor)
    <3>1. a \in [DOMAIN s.lines -> Nat]
      <4>1. DividesWhole(a, LaneTotal(r, s, lane.value), factor, DOMAIN s.lines)
        BY SharesWhole
      <4> QED BY <4>1 DEF DividesWhole
    <3>2. share.currency = s.currency /\ share.amount = a[l]
      BY DEF Share, share
    <3> HIDE DEF a
    <3> QED BY <3>1, <3>2
  <2>2. s.rounding \in RoundingModes
    BY LinesRead DEF Clear
  <2>3. Converted(r, s, share.amount, share.currency) = share.amount
    BY <2>1, <2>2, ConvertedOwn
  <2> QED BY <2>3 DEF of, Part
<1> QED BY <1>11, <1>12 DEF type, share

\* A price is refused, states what is missing, or is that of a clear shipment.
LEMMA PriceIs ==
  ASSUME NEW r, NEW s, SourceNumbers(r.content), ShipmentRead(s),
         NEW price, price = PriceShipment(r, s)
  PROVE  \/ /\ price.status # "CALCULABLE" /\ price.net = None
            /\ \A l \in DOMAIN price.rows : price.rows[l].parts = {}
         \/ /\ price.status = "CALCULABLE" /\ Clear(r, s)
            /\ DOMAIN price.rows = DOMAIN s.lines
            /\ \A l \in DOMAIN s.lines :
                 price.rows[l] = Assess(r, s, s.lines[l], ChargesOf(r, s, l))
            /\ price.net = Total([l \in DOMAIN s.lines |-> price.rows[l].net], DOMAIN s.lines)
<1> DEFINE first == [l \in DOMAIN s.lines |-> Assess(r, s, s.lines[l], s.lines[l].charges)]
           last  == [l \in DOMAIN s.lines |-> Assess(r, s, s.lines[l], ChargesOf(r, s, l))]
           blocked(a) == Unpriced(IF a.status = "CALCULABLE" THEN "NOT_CALCULABLE" ELSE a.status)
           refused == \/ ~ShipmentValid(s) \/ SourcesRefused(r, s)
                      \/ \E l \in DOMAIN first : first[l].status = "REFUSED"
                      \/ s.exempt \cap {x.value.type : x \in Lanes(r, s)} # {}
           missing == [status |-> "NOT_CALCULABLE", why |-> Missing(r, s), net |-> None,
                       rows |-> [l \in DOMAIN first |-> blocked(first[l])]]
           priced == [status |-> "CALCULABLE", why |-> {}, rows |-> last, net |-> NetOf(last)]
<1>1. price = IF refused THEN Refusal
              ELSE IF Missing(r, s) # {} THEN missing
              ELSE IF AllocationRefused(r, s) THEN Refusal ELSE priced
  BY Zenon DEF PriceShipment, Outcome
<1>2. Refusal.status # "CALCULABLE" /\ Refusal.net = None /\ DOMAIN Refusal.rows = {}
  BY DEF Refusal
<1>3. missing.status # "CALCULABLE" /\ missing.net = None
      /\ \A l \in DOMAIN missing.rows : missing.rows[l].parts = {}
  <2> HIDE DEF first
  <2> QED BY DEF Unpriced
<1>4. /\ priced.status = "CALCULABLE" /\ priced.rows = last /\ priced.net = NetOf(last)
  <2> HIDE DEF last
  <2> QED OBVIOUS
<1>5. NetOf(last) = Total([l \in DOMAIN s.lines |-> last[l].net], DOMAIN s.lines)
  <2>1. DOMAIN last = DOMAIN s.lines
    OBVIOUS
  <2> HIDE DEF last
  <2>2. NetOf(last) = Total([l \in DOMAIN last |-> last[l].net], DOMAIN last)
    BY Zenon DEF NetOf, SumFunction, Total
  <2> QED BY <2>1, <2>2
<1>6. ASSUME ~refused, Missing(r, s) = {}, ~AllocationRefused(r, s)
      PROVE  Clear(r, s)
  <2>1. /\ ShipmentValid(s) /\ ~SourcesRefused(r, s)
        /\ \A l \in DOMAIN first : first[l].status # "REFUSED"
    BY <1>6
  <2>2. \A l \in DOMAIN s.lines : Assess(r, s, s.lines[l], s.lines[l].charges).status # "REFUSED"
    BY <2>1
  <2> QED BY <1>6, <2>1, <2>2, Zenon DEF Clear
<1>7. /\ DOMAIN last = DOMAIN s.lines
      /\ \A l \in DOMAIN s.lines : last[l] = Assess(r, s, s.lines[l], ChargesOf(r, s, l))
  OBVIOUS
<1> HIDE DEF refused, missing, priced, first, last
<1>8. CASE refused \/ (Missing(r, s) = {} /\ AllocationRefused(r, s))
  <2>1. price = Refusal
    BY <1>1, <1>8
  <2> QED BY <1>2, <2>1
<1>9. CASE ~refused /\ Missing(r, s) # {}
  <2>1. price = missing
    BY <1>1, <1>9
  <2> QED BY <1>3, <2>1
<1>10. CASE ~refused /\ Missing(r, s) = {} /\ ~AllocationRefused(r, s)
  <2>1. price = priced
    BY <1>1, <1>10
  <2>2. price.status = "CALCULABLE" /\ price.rows = last /\ price.net = NetOf(last)
    BY <1>4, <2>1
  <2> QED BY <1>5, <1>6, <1>7, <1>10, <2>2
<1> QED BY <1>8, <1>9, <1>10

\* What a share divides, it pays once.
LEMMA DividedIsPaid ==
  ASSUME NEW a, NEW paid, NEW factor, NEW D, D = DOMAIN factor, DividesWhole(a, paid, factor, D)
  PROVE  PaidOnce(a, paid, factor)
BY DEF PaidOnce, DividesWhole

\* A price is whole or nothing.
LEMMA PriceIsWhole ==
  ASSUME NEW r, NEW s, SourceNumbers(r.content), ShipmentRead(s),
         NEW price, price = PriceShipment(r, s)
  PROVE  WholeOrNothing(price, r, s)
<1>1. CASE price.status # "CALCULABLE"
  BY <1>1, PriceIs DEF WholeOrNothing
<1>2. CASE price.status = "CALCULABLE"
  <2>1. /\ Clear(r, s)
        /\ \A l \in DOMAIN s.lines : price.rows[l] = Assess(r, s, s.lines[l], ChargesOf(r, s, l))
        /\ price.net = Total([l \in DOMAIN s.lines |-> price.rows[l].net], DOMAIN s.lines)
    BY <1>2, PriceIs
  <2>2. ASSUME NEW lane \in Lanes(r, s)
        PROVE  PaidOnce([l \in DOMAIN s.lines |-> Bears(price, l, lane.value.type)],
                        LaneTotal(r, s, lane.value), [l \in DOMAIN s.lines |-> Factor(r, s, l)])
    <3> DEFINE factor == [k \in DOMAIN s.lines |-> Factor(r, s, k)]
               paid == LaneTotal(r, s, lane.value)
               a == Allocate(paid, factor)
               bears == [l \in DOMAIN s.lines |-> Bears(price, l, lane.value.type)]
    <3>1. DividesWhole(a, paid, factor, DOMAIN s.lines)
      BY <2>1, SharesWhole
    <3>2. ASSUME NEW l \in DOMAIN s.lines
          PROVE  bears[l] = a[l]
      <4> DEFINE parts == price.rows[l].parts
      <4>1. parts = Assess(r, s, s.lines[l], ChargesOf(r, s, l)).parts
        BY <2>1
      <4> HIDE DEF parts
      <4>2. (CHOOSE p \in parts : p.type = lane.value.type).amount = Share(r, s, lane, l).amount
        BY <2>1, <4>1, ShareOf
      <4>3. Share(r, s, lane, l).amount = a[l]
        BY DEF Share
      <4>4. bears[l] = (CHOOSE p \in parts : p.type = lane.value.type).amount
        BY DEF Bears, parts
      <4> QED BY <4>2, <4>3, <4>4
    <3>3. a \in [DOMAIN s.lines -> Nat] /\ DOMAIN factor = DOMAIN s.lines
      BY <3>1 DEF DividesWhole
    <3> HIDE DEF a, factor, paid
    <3>4. bears = a
      BY <3>2, <3>3
    <3>5. PaidOnce(a, paid, factor)
      BY <3>1, <3>3, DividedIsPaid
    <3> QED BY <3>4, <3>5 DEF factor, paid
  <2> QED BY <1>2, <2>1, <2>2, Zenon DEF WholeOrNothing
<1> QED BY <1>1, <1>2

\* The shipment of an order is read as its template is.
LEMMA ShipmentIs ==
  ASSUME NEW t, ShipmentRead(t), Len(t.lines) = 1, NEW q \in Nat,
         NEW s, s = Shipment(t, q)
  PROVE  ShipmentRead(s) /\ DOMAIN s.lines = {1} /\ s.lines[1].quantity = q
<1> DEFINE unit == t.lines[1]
           times(c) == [c EXCEPT !.amount = @ * q]
           f == [c \in unit.charges |-> times(c)]
           line == LineOf(unit, q)
<1>1. s = [t EXCEPT !.lines = <<line>>]
  BY DEF Shipment
<1>2. /\ 1 \in DOMAIN t.lines /\ unit.quantity \in Nat /\ unit.value \in Nat
      /\ IsFiniteSet(unit.charges) /\ \A c \in unit.charges : "amount" \in DOMAIN c /\ c.amount \in Nat
      /\ {"quantity", "value", "charges"} \subseteq DOMAIN unit
  <2>1. 1 \in DOMAIN t.lines
    BY LinesRead
  <2> QED BY <2>1, Zenon DEF ShipmentRead
<1>3. /\ line.quantity = q /\ line.value = unit.value * q
      /\ line.charges = {f[c] : c \in unit.charges} /\ DOMAIN line = DOMAIN unit
  <2>1. {[c EXCEPT !.amount = @ * q] : c \in unit.charges} = {f[c] : c \in unit.charges}
    OBVIOUS
  <2> HIDE DEF f, unit
  <2> QED BY <1>2, <2>1 DEF LineOf
<1>4. ASSUME NEW c \in unit.charges
      PROVE  "amount" \in DOMAIN f[c] /\ f[c].amount \in Nat
  <2>1. f[c] = times(c)
    OBVIOUS
  <2>2. times(c).amount = c.amount * q /\ DOMAIN times(c) = DOMAIN c
    BY <1>2
  <2>3. c.amount \in Nat /\ c.amount * q \in Nat
    BY <1>2, ProductNat
  <2> QED BY <1>2, <2>1, <2>2, <2>3
<1>5. unit.value * q \in Nat
  BY <1>2, ProductNat
<1> HIDE DEF f
<1>6. /\ {"quantity", "value", "charges"} \subseteq DOMAIN line
      /\ line.quantity \in Nat /\ line.value \in Nat /\ IsFiniteSet(line.charges)
      /\ \A c \in line.charges : "amount" \in DOMAIN c /\ c.amount \in Nat
  <2>1. IsFiniteSet({f[c] : c \in unit.charges})
    BY <1>2, FiniteImage
  <2> HIDE DEF line, unit
  <2> QED BY <1>2, <1>3, <1>4, <1>5, <2>1
<1> HIDE DEF line, unit
<1>7. {"lines", "rounding", "basis"} \subseteq DOMAIN t
  BY Zenon DEF ShipmentRead
<1>8. /\ s.lines = <<line>> /\ s.rounding = t.rounding /\ s.basis = t.basis /\ DOMAIN s = DOMAIN t
  BY <1>1, <1>7
<1>9. DOMAIN s.lines = {1} /\ s.lines[1] = line
  BY <1>8
<1>10. s.lines \in Seq({s.lines[l] : l \in DOMAIN s.lines})
  <2>1. {s.lines[l] : l \in DOMAIN s.lines} = {line}
    BY <1>9
  <2>2. <<line>> \in Seq({line})
    OBVIOUS
  <2> QED BY <1>8, <2>1, <2>2
<1>11. /\ t.rounding \in {"HALF_UP", "HALF_EVEN", "DOWN", "UP"}
       /\ t.basis \in {"CUSTOMS_VALUE", "QUANTITY", "WEIGHT"}
  BY Zenon DEF ShipmentRead
<1>12. \A l \in DOMAIN s.lines :
        /\ {"quantity", "value", "charges"} \subseteq DOMAIN s.lines[l]
        /\ s.lines[l].quantity \in Nat /\ s.lines[l].value \in Nat /\ IsFiniteSet(s.lines[l].charges)
        /\ \A c \in s.lines[l].charges : "amount" \in DOMAIN c /\ c.amount \in Nat
  BY <1>6, <1>9
<1>13. ShipmentRead(s)
  BY <1>7, <1>8, <1>10, <1>11, <1>12, Zenon DEF ShipmentRead
<1> QED BY <1>3, <1>9, <1>13

\* An order of a week, and what it accepted.
LEMMA OrderAccepts ==
  ASSUME EvidenceTypes, NEW w \in DOMAIN decisions
  PROVE  /\ decisions[w].validation.accepted \in Nat
         /\ Results.recommended.action.decisions = decisions
<1>1. decisions \in Seq(Judgments(plan)) /\ plan \in Plan
  <2>1. decisions \in Seq(Judgments(plan)) /\ plan \in Plans
    BY Zenon DEF EvidenceTypes, Types, TypeOK
  <2> QED BY <2>1, PlanAssumption, Zenon
<1>2. decisions[w] \in Judgments(plan)
  <2> HIDE DEF Judgments
  <2> QED BY <1>1, ElementOfSeq
<1>3. decisions[w].validation.accepted \in Nat
  <2> DEFINE d == decisions[w]
  <2> HIDE DEF d
  <2>1. d \in Judgments(plan)
    BY <1>2 DEF d
  <2>2. d.validation.accepted \in Nat
    BY <1>1, <2>1, JudgmentReads
  <2> QED BY <2>2 DEF d
<1>4. Results.recommended.action.decisions = decisions
  BY DEF Results, Child, ActionArtifacts
<1> QED BY <1>3, <1>4

\* Each child of a Run is the price of the shipment of its week, of numbers that
\* were read.
ChildOf(ref, r, s) ==
  /\ SourceNumbers(r.content) /\ ShipmentRead(s)
  /\ evidence[<<"PROJECTION", ref[2]>>].body = r
  /\ evidence[<<"SHIPMENT", ref[2]>>].body = s
  /\ evidence[ref].price = PriceShipment(r, s)

\* The children of a Run are such prices.
LEMMA RunChildren ==
  ASSUME EvidenceTypes, SealedByRun, NEW ref \in DOMAIN evidence, ref[1] = "CHILD"
  PROVE  \E r, s : ChildOf(ref, r, s)
<1> DEFINE prices == Prices(claim.input, revision, decisions)
           template == claim.input.template
           w == ref[2]
           q == decisions[w].validation.accepted
           s == Shipment(template, q)
<1>1. NamesSources(evidence, Results, claim.input, revision, claim.profile, prices)
  <2>1. 0 \notin DOMAIN prices
    BY PricesOfWeeks
  <2>2. evidence = CostEvidence("THIS", Results, claim.input, revision, claim.profile, 1, prices)
    BY DEF SealedByRun
  <2> HIDE DEF prices
  <2> QED BY <2>1, <2>2, CostEvidenceIs, Zenon
<1>2. ref = <<"CHILD", w>> /\ w \in DOMAIN prices
  <2> HIDE DEF prices
  <2>1. ref \in Sources \cup ({"SHIPMENT", "PROJECTION", "CHILD"} \X DOMAIN prices)
    BY <1>1 DEF NamesSources
  <2> QED BY <2>1 DEF Sources
<1>3. /\ template # None /\ w \in DOMAIN decisions
      /\ prices[w] = PriceShipment(revision, s)
  <2>1. DOMAIN prices = IF template = None THEN {} ELSE Accepted(decisions)
    BY Zenon DEF Prices
  <2>2. w \in DOMAIN decisions
    BY <1>2, <2>1 DEF Accepted
  <2> QED BY <1>2, <2>1, <2>2 DEF Prices
<1>4. q \in Nat /\ Results.recommended.action.decisions = decisions
  BY <1>3, OrderAccepts
<1>5. /\ claim \in Claims /\ InputFits(claim) /\ RevisionFits(claim, revision)
  BY DEF SealedByRun, InputPinned
<1>6. SourceNumbers(revision.content) /\ ShipmentRead(template) /\ Len(template.lines) = 1
  <2>1. SourceNumbers(claim.content) /\ ShipmentRead(template)
    BY <1>3, <1>5, NumberAssumption
  <2>2. Len(template.lines) = 1 /\ revision.content = claim.content
    BY <1>3, <1>5, Zenon DEF InputFits, RevisionFits
  <2> QED BY <2>1, <2>2
<1>7. ShipmentRead(s)
  BY <1>4, <1>6, ShipmentIs
<1>8. /\ evidence[<<"PROJECTION", w>>].body = revision
      /\ evidence[<<"SHIPMENT", w>>].body = s
      /\ evidence[<<"CHILD", w>>].price = prices[w]
  <2> HIDE DEF prices
  <2>1. /\ evidence[<<"PROJECTION", w>>].body = revision
        /\ evidence[<<"SHIPMENT", w>>].body = OrderShipment(Results, claim.input, w)
        /\ evidence[<<"CHILD", w>>].price = prices[w]
    BY <1>1, <1>2 DEF NamesSources
  <2> QED BY <1>4, <2>1 DEF OrderShipment
<1>9. ChildOf(ref, revision, s)
  <2> HIDE DEF prices, s, w
  <2> QED BY <1>2, <1>3, <1>6, <1>7, <1>8, Zenon DEF ChildOf, w
<1> QED BY <1>9

\* So is that of a shipment on its own.
LEMMA LoneChild ==
  ASSUME SealedAlone, NEW ref \in DOMAIN evidence, ref[1] = "CHILD"
  PROVE  \E r, s : ChildOf(ref, r, s)
<1> DEFINE price == PriceShipment(claim.revision, claim.shipment)
<1>1. /\ DOMAIN evidence = {"SHIPMENT", "PROJECTION", "CHILD"} \X {0}
      /\ evidence[<<"SHIPMENT", 0>>] = [run |-> "THIS", body |-> claim.shipment]
      /\ evidence[<<"PROJECTION", 0>>] = [run |-> "ANY", body |-> claim.revision]
      /\ evidence[<<"CHILD", 0>>] = [run |-> "THIS", by |-> 1, price |-> price]
  <2>1. evidence = ShipmentDocuments("THIS", claim.revision, claim.shipment, 0, 1, price)
    BY Zenon DEF SealedAlone
  <2> HIDE DEF price
  <2>2. DocumentsOfShipment(evidence, "THIS", claim.revision, claim.shipment, 0, 1, price)
    BY <2>1, ShipmentDocumentsAre, Zenon
  <2> QED BY <2>2 DEF DocumentsOfShipment
<1>2. SourceNumbers(claim.revision.content) /\ ShipmentRead(claim.shipment)
  BY NumberAssumption DEF SealedAlone
<1>3. ref = <<"CHILD", 0>> /\ ref[2] = 0
  BY <1>1
<1> HIDE DEF price
<1>4. /\ evidence[<<"SHIPMENT", 0>>].body = claim.shipment
      /\ evidence[<<"PROJECTION", 0>>].body = claim.revision
      /\ evidence[<<"CHILD", 0>>].price = price
  BY <1>1
<1>5. ChildOf(ref, claim.revision, claim.shipment)
  BY <1>2, <1>3, <1>4, Zenon DEF ChildOf, price
<1> QED BY <1>5

\* For every shipment, revision and rounding: a shipment is priced whole or not at
\* all, and what its lane charges is divided over its lines to the last unit.
THEOREM ShipmentsPricedWhole == CostSpec => []ShipmentIsWhole
<1>1. EvidenceTypes /\ CostInv => ShipmentIsWhole
  <2> SUFFICES ASSUME EvidenceTypes, CostInv, Costed,
                      NEW ref \in DOMAIN evidence, ref[1] = "CHILD"
               PROVE  WholeOrNothing(evidence[ref].price, evidence[<<"PROJECTION", ref[2]>>].body,
                                     evidence[<<"SHIPMENT", ref[2]>>].body)
    BY Zenon DEF ShipmentIsWhole
  <2>1. SealedByRun \/ SealedAlone
    BY DEF CostInv, Costed
  <2>2. PICK r, s : ChildOf(ref, r, s)
    BY <2>1, RunChildren, LoneChild
  <2>3. WholeOrNothing(evidence[ref].price, r, s)
    BY <2>2, PriceIsWhole DEF ChildOf
  <2> QED BY <2>2, <2>3, Zenon DEF ChildOf
<1> QED BY <1>1, CostInvariant, PTL

-----------------------------------------------------------------------------
(* What a recommendation saves.                                             *)

\* What is not counted adds nothing.
LEMMA TotalZeros ==
  ASSUME NEW S, IsFiniteSet(S), NEW A \in SUBSET S, NEW f, \A x \in S : f[x] \in Int,
         \A x \in S \ A : f[x] = 0
  PROVE  Total(f, S) = Total(f, A)
<1> DEFINE P == {T \in SUBSET S : Total(f, T) = Total(f, T \cap A)}
<1>1. ASSUME NEW T \in SUBSET S, \A x \in T : T \ {x} \in P
      PROVE  T \in P
  <2>1. IsFiniteSet(T) /\ IsFiniteSet(T \cap A) /\ \A x \in T : f[x] \in Int
    BY FS_Subset
  <2>2. CASE T \subseteq A
    <3>1. T \cap A = T
      BY <2>2
    <3> QED BY <3>1
  <2>3. CASE ~(T \subseteq A)
    <3>1. PICK x \in T : x \notin A
      BY <2>3
    <3>2. Total(f, T) = f[x] + Total(f, T \ {x}) /\ f[x] = 0
      BY <2>1, <3>1, TotalTake
    <3>3. Total(f, T \ {x}) = Total(f, (T \ {x}) \cap A) /\ (T \ {x}) \cap A = T \cap A
      BY <1>1, <3>1
    <3>4. Total(f, T \cap A) \in Int
      BY <2>1, TotalInt
    <3>5. Total(f, T \ {x}) = Total(f, T \cap A)
      BY <3>3
    <3>6. Total(f, T) = Total(f, T \cap A)
      BY <3>2, <3>4, <3>5
    <3> QED BY <3>6
  <2> QED BY <2>2, <2>3
<1>2. S \in P
  <2> HIDE DEF P
  <2> QED BY <1>1, SubsetInduction
<1>3. S \cap A = A
  OBVIOUS
<1> QED BY <1>2, <1>3

\* The numbers of a tariff.
RuleRead(rule) ==
  {rule.rate, rule.specific, rule.least, rule.most} \subseteq Nat \cup {None}

\* The duty of a line is a number.
LEMMA DutyNat ==
  ASSUME NEW rule, RuleRead(rule), NEW customs \in Nat, NEW quantity \in Nat,
         NEW mode \in RoundingModes
  PROVE  Duty(rule, customs, quantity, mode) \in Nat
<1> DEFINE byValue == IF rule.rate = None THEN 0 ELSE customs * rule.rate
           byQuantity == IF rule.specific = None THEN 0 ELSE quantity * rule.specific * 100
           raw == byValue + byQuantity
           floored == IF rule.least = None THEN raw ELSE Max({raw, rule.least * 100})
           capped == IF rule.most = None THEN floored ELSE Min({floored, rule.most * 100})
<1>1. byValue \in Nat
  BY ProductNat DEF RuleRead
<1>2. byQuantity \in Nat
  <2>1. rule.specific # None => quantity * rule.specific \in Nat
    BY ProductNat DEF RuleRead
  <2>2. rule.specific # None => quantity * rule.specific * 100 \in Nat
    BY <2>1, ProductNat
  <2> QED BY <2>2
<1>3. raw \in Nat
  <2> HIDE DEF byValue, byQuantity
  <2> QED BY <1>1, <1>2
<1> HIDE DEF raw
<1>4. floored \in Nat
  BY <1>3, MaxMinNat DEF RuleRead
<1>5. capped \in Nat
  <2> DEFINE most == rule.most * 100
  <2>1. rule.most # None => most \in Nat
    BY DEF RuleRead
  <2> HIDE DEF floored, most
  <2>2. rule.most # None => Min({floored, most}) \in Nat
    BY <1>4, <2>1, MaxMinNat
  <2> QED BY <1>4, <2>2 DEF most
<1>6. Duty(rule, customs, quantity, mode) = Round(capped, 100, mode)
  BY Zenon DEF Duty, capped, floored, raw
<1> HIDE DEF capped, RoundingModes
<1> QED BY <1>5, <1>6, RoundNat

\* What is levied are parts.
LEMMA LeviesParts ==
  ASSUME NEW customs \in Nat, NEW duty \in Nat, NEW tax, tax.rate \in Nat,
         NEW mode \in RoundingModes
  PROVE  Parts(Levies(customs, duty, tax, mode))
<1> DEFINE base == IF tax.onDuty THEN customs + duty ELSE customs
           vat == Round(base * tax.rate, 100, mode)
           levies == {Part("CUSTOMS_DUTY", duty, FALSE, TRUE, FALSE),
                      Part("IMPORT_VAT", vat, FALSE, TRUE, tax.recovery = "VERIFIED_RECOVERABLE")}
<1>1. base \in Nat
  OBVIOUS
<1>2. vat \in Nat
  <2>1. base * tax.rate \in Nat
    <3> HIDE DEF base
    <3> QED BY <1>1, ProductNat
  <2> HIDE DEF base, RoundingModes
  <2> QED BY <2>1, RoundNat
<1> HIDE DEF vat
<1>3. Parts(levies)
  <2>1. IsFiniteSet({Part("CUSTOMS_DUTY", duty, FALSE, TRUE, FALSE)} \cup
                     {Part("IMPORT_VAT", vat, FALSE, TRUE, tax.recovery = "VERIFIED_RECOVERABLE")})
    BY FS_Singleton, FS_Union
  <2>2. \A p \in levies : p.amount \in Nat
    BY <1>2 DEF Part
  <2> QED BY <2>1, <2>2 DEF Parts
<1>4. Levies(customs, duty, tax, mode) = {p \in levies : p.amount > 0}
  BY Zenon DEF Levies, vat
<1> HIDE DEF levies
<1> QED BY <1>3, <1>4, SomeParts

\* What a line comes to is a number.
LEMMA NetInt ==
  ASSUME NEW r, SourceNumbers(r.content), NEW s, s.rounding \in RoundingModes,
         NEW line, line.value \in Nat, line.quantity \in Nat, NEW charges, ChargesRead(charges),
         BlockingStatus(r, s, line, charges) = "CALCULABLE"
  PROVE  Calculated(r, s, line, Borne(r, s, line, charges)).net \in Int
<1> DEFINE bears == Borne(r, s, line, charges)
           customs == Amounts({p \in bears : p.customs})
           tax == Single(Taxes(r, s))
           rule == Single(Rules(r, s, line))
           duty == Duty(rule, customs, line.quantity, s.rounding)
           levies == Levies(customs, duty, tax, s.rounding)
           parts == bears \cup levies
<1>1. Parts(bears)
  BY BorneParts
<1>2. Priceable(r, s, line)
  BY NothingBlocks
<1> HIDE DEF bears
<1>3. customs \in Nat
  BY <1>1, SomeParts, AmountsNat
<1>4. tax.rate \in Nat
  <2>1. Taxes(r, s) # {}
    BY <1>2, Zenon DEF Priceable, Single
  <2>2. PICK x \in Taxes(r, s) : Single(Taxes(r, s)) = x.value
    BY <2>1, SingleIs, Zenon
  <2>3. x \in r.content /\ x.domain = "IMPORT_TAX_PROFILE"
    BY <2>2, InEffectOf DEF Taxes
  <2> QED BY <2>2, <2>3, Zenon DEF SourceNumbers
<1>5. RuleRead(rule)
  <2>1. Rules(r, s, line) # {}
    BY <1>2 DEF Priceable
  <2>2. PICK x \in Rules(r, s, line) : Single(Rules(r, s, line)) = x.value
    BY <2>1, SingleIs, Zenon
  <2>3. x \in Tariffs(r, s, line)
    BY <2>2 DEF Rules
  <2>4. PICK key : x \in InEffect(r, "CUSTOMS_TARIFF", s.country, key)
    BY <2>3 DEF Tariffs
  <2>5. x \in r.content /\ x.domain = "CUSTOMS_TARIFF"
    BY <2>4, InEffectOf
  <2> QED BY <2>2, <2>5, Zenon DEF SourceNumbers, RuleRead
<1> HIDE DEF customs, tax, rule
<1>6. duty \in Nat
  <2> HIDE DEF RoundingModes
  <2> QED BY <1>3, <1>5, DutyNat
<1> HIDE DEF duty
<1>7. Parts(levies)
  <2> HIDE DEF RoundingModes
  <2> QED BY <1>3, <1>4, <1>6, LeviesParts
<1> HIDE DEF levies
<1>8. Parts(parts)
  BY <1>1, <1>7, FS_Union DEF Parts
<1>9. Calculated(r, s, line, bears) = Assessed(customs, parts)
  BY Zenon DEF Calculated, Levied, customs, tax, rule, duty, levies
<1> HIDE DEF parts
<1> DEFINE gross == Amounts({p \in parts : p.gross})
           back == Amounts({p \in parts : p.recoverable})
<1>10. gross \in Nat /\ back \in Nat
  BY <1>8, SomeParts, AmountsNat
<1>11. Assessed(customs, parts).net = gross - back
  BY DEF Assessed
<1> HIDE DEF gross, back
<1> QED BY <1>9, <1>10, <1>11 DEF bears

\* A price that is stated is a number.
LEMMA PriceNetInt ==
  ASSUME NEW r, NEW s, SourceNumbers(r.content), ShipmentRead(s),
         NEW price, price = PriceShipment(r, s), price.status = "CALCULABLE"
  PROVE  price.net \in Int
<1> DEFINE net == [l \in DOMAIN s.lines |-> price.rows[l].net]
<1>1. /\ Clear(r, s)
      /\ \A l \in DOMAIN s.lines : price.rows[l] = Assess(r, s, s.lines[l], ChargesOf(r, s, l))
      /\ price.net = Total(net, DOMAIN s.lines)
  BY PriceIs
<1>2. ASSUME NEW l \in DOMAIN s.lines
      PROVE  net[l] \in Int
  <2> DEFINE line == s.lines[l]
             charges == ChargesOf(r, s, l)
             row == Calculated(r, s, line, Borne(r, s, line, charges))
  <2>1. /\ ChargesRead(charges) /\ BlockingStatus(r, s, line, charges) = "CALCULABLE"
        /\ Assess(r, s, line, charges) = row
    BY <1>1, LastRow
  <2>2. /\ SourceNumbers(r.content) /\ s.rounding \in RoundingModes
        /\ line.value \in Nat /\ line.quantity \in Nat
    BY <1>1, LinesRead, Zenon DEF Clear
  <2>3. row.net \in Int
    <3> HIDE DEF line, charges, RoundingModes
    <3> QED BY <2>1, <2>2, NetInt
  <2>4. net[l] = Assess(r, s, line, charges).net
    BY <1>1
  <2> HIDE DEF row
  <2> QED BY <2>1, <2>3, <2>4
<1>3. IsFiniteSet(DOMAIN s.lines)
  <2>1. DOMAIN s.lines = 1..Len(s.lines) /\ Len(s.lines) \in Nat
    BY <1>1, LinesRead DEF Clear
  <2> QED BY <2>1, PositionsFinite, Zenon
<1> HIDE DEF net
<1> QED BY <1>1, <1>2, <1>3, TotalInt

\* The orders are one for each decision that accepts something.
LEMMA OrdersImage ==
  ASSUME NEW J, NEW ds \in Seq(J), NEW f, NEW g,
         \A w \in Accepted(ds) :
           /\ f[w] \in Int
           /\ g[[placed |-> w, arrival |-> ds[w].validation.arrival,
                 quantity |-> ds[w].validation.accepted]] = f[w]
  PROVE  /\ IsFiniteSet(Accepted(ds)) /\ Cardinality(Accepted(ds)) \in Nat
         /\ Cardinality(OrdersOf(ds, 1..Len(ds))) = Cardinality(Accepted(ds))
         /\ Total(g, OrdersOf(ds, 1..Len(ds))) = Total(f, Accepted(ds))
<1> DEFINE W == Accepted(ds)
           m == [w \in W |-> [placed |-> w, arrival |-> ds[w].validation.arrival,
                              quantity |-> ds[w].validation.accepted]]
<1>1. DOMAIN ds = 1..Len(ds) /\ Len(ds) \in Nat
  OBVIOUS
<1>2. IsFiniteSet(W) /\ Cardinality(W) \in Nat
  <2>1. W \subseteq 1..Len(ds)
    BY <1>1 DEF Accepted
  <2>2. IsFiniteSet(1..Len(ds))
    BY <1>1, PositionsFinite, Zenon
  <2> HIDE DEF W
  <2>3. IsFiniteSet(W)
    BY <2>1, <2>2, FS_Subset
  <2> QED BY <2>3, FS_CardinalityType
<1>3. OrdersOf(ds, 1..Len(ds)) = {m[w] : w \in W}
  BY <1>1 DEF OrdersOf, Accepted
<1>4. \A w \in W : m[w].placed = w
  OBVIOUS
<1>5. \A w \in W : f[w] \in Int /\ g[m[w]] = f[w]
  OBVIOUS
<1> HIDE DEF m, W
<1>6. \A x \in W : \A y \in W : m[x] = m[y] => x = y
  BY <1>4
<1>7. /\ Cardinality({m[w] : w \in W}) = Cardinality(W) /\ Total(g, {m[w] : w \in W}) = Total(f, W)
  BY <1>2, <1>5, <1>6, TotalImage
<1> QED BY <1>2, <1>3, <1>7 DEF W

\* The stock that the rows of a child hold, and the orders they owe.
Held(psi) == Total([b \in DOMAIN psi |-> psi[b].onHandClose], DOMAIN psi)
Owed(psi) == Total([b \in DOMAIN psi |-> psi[b].backorderClose], DOMAIN psi)

\* What the rows of a projection hold and owe is what it sealed.
LEMMA SealedSums ==
  ASSUME NEW input \in Plan, NEW s \in Seq(Row)
  PROVE  LET psi == PsiRows(s, input)
         IN /\ Held(psi) = Total([b \in DOMAIN s |-> s[b].eoh + input.stock.reserved], DOMAIN s)
            /\ Owed(psi) = Total([b \in DOMAIN s |-> s[b].backorderClose], DOMAIN s)
            /\ Held(psi) \in Int /\ Owed(psi) \in Int
<1> DEFINE psi == PsiRows(s, input)
           D == DOMAIN s
           held == [b \in D |-> s[b].eoh + input.stock.reserved]
           owed == [b \in D |-> s[b].backorderClose]
<1>1. DOMAIN psi = D /\ \A b \in D : /\ psi[b].onHandClose = s[b].eoh + input.stock.reserved
                                     /\ psi[b].backorderClose = s[b].backorderClose
  BY DEF PsiRows, PsiRow
<1>2. IsFiniteSet(D) /\ \A b \in D : s[b] \in Row
  <2>1. D = 1..Len(s) /\ Len(s) \in Nat
    OBVIOUS
  <2> QED BY <2>1, FS_Interval, ElementOfSeq
<1>3. input.stock.reserved \in Nat
  BY DEF Plan, Stock
<1>4. \A b \in D : held[b] \in Int /\ owed[b] \in Int
  <2>1. \A b \in D : s[b].eoh \in Nat /\ s[b].backorderClose \in Nat
    BY <1>2 DEF Row
  <2> QED BY <2>1, <1>3
<1>5. [b \in DOMAIN psi |-> psi[b].onHandClose] = held
      /\ [b \in DOMAIN psi |-> psi[b].backorderClose] = owed
  BY <1>1
<1>6. Held(psi) = Total(held, D) /\ Owed(psi) = Total(owed, D)
  BY <1>1, <1>5, Zenon DEF Held, Owed
<1>7. Total(held, D) \in Int /\ Total(owed, D) \in Int
  <2> HIDE DEF held, owed, D
  <2> QED BY <1>2, <1>4, TotalInt
<1> QED BY <1>6, <1>7

\* Costs that are proportional to their sums.
LEMMA CostsAdd ==
  ASSUME NEW h \in Nat, NEW o \in Nat, NEW f \in Nat, NEW v \in Nat,
         NEW x \in Int, NEW y \in Int, NEW x0 \in Int, NEW y0 \in Int,
         NEW c \in Int, NEW q \in Int, NEW n \in Int
  PROVE  (h * x + o * y + f * c + v * q + n) - (h * x0 + o * y0 + f * 0 + v * 0 + 0)
           = h * (x - x0) + o * (y - y0) + f * c + (v * q + n)
<1>1. h * (x - x0) = h * x - h * x0 /\ o * (y - y0) = o * y - o * y0
  BY SMTT(30)
<1>2. /\ h * x \in Int /\ h * x0 \in Int /\ o * y \in Int /\ o * y0 \in Int /\ f * c \in Int
      /\ v * q \in Int /\ f * 0 = 0 /\ v * 0 = 0
  BY SMTT(30)
<1> DEFINE a1 == h * x
           a2 == h * x0
           a3 == o * y
           a4 == o * y0
           a5 == f * c
           a6 == v * q
<1> HIDE DEF a1, a2, a3, a4, a5, a6
<1>3. (a1 + a3 + a5 + a6 + n) - (a2 + a4 + 0 + 0 + 0) = (a1 - a2) + (a3 - a4) + a5 + (a6 + n)
  BY <1>2 DEF a1, a2, a3, a4, a5, a6
<1> QED BY <1>1, <1>2, <1>3 DEF a1, a2, a3, a4, a5, a6

\* Orders by their weeks.
Named(W, q) == {[placed |-> w, quantity |-> q[w]] : w \in W}

\* Orders that are told apart by their weeks are the same when the weeks are.
LEMMA NamedByWeek ==
  ASSUME NEW A, NEW P \in SUBSET A, NEW q
  PROVE  Named(P, q) = Named(A, q) <=> P = A
<1> DEFINE name(w) == [placed |-> w, quantity |-> q[w]]
<1>1. \A w : name(w).placed = w
  OBVIOUS
<1>2. \A W : Named(W, q) = {name(w) : w \in W}
  BY DEF Named
<1> HIDE DEF name
<1>3. ASSUME Named(P, q) = Named(A, q), NEW w \in A
      PROVE  w \in P
  <2>1. name(w) \in {name(v) : v \in P}
    BY <1>2, <1>3
  <2>2. PICK v \in P : name(w) = name(v)
    BY <2>1
  <2> QED BY <1>1, <2>2
<1> QED BY <1>3

\* Every order of a child has its price.
AllPriced(prices, ds) ==
  \A w \in Accepted(ds) : w \in DOMAIN prices /\ prices[w].status = "CALCULABLE"

\* The prices of the orders of a child.
NetsOf(prices, ds) == [w \in Accepted(ds) |-> prices[w].net]

\* What a child comes to when every order of it has a price.
LEMMA MetricOf ==
  ASSUME NEW prices, NEW psi, NEW ds, NEW profile
  PROVE  IF AllPriced(prices, ds)
         THEN /\ Metric(prices, psi, ds, profile).status = "AVAILABLE"
              /\ Metric(prices, psi, ds, profile).total
                   = OperatingCost(psi, ds, profile) + Total(NetsOf(prices, ds), Accepted(ds))
         ELSE Metric(prices, psi, ds, profile).status = "NOT_AVAILABLE"
<1> DEFINE k == Cardinality(Accepted(ds))
           total == OperatingCost(psi, ds, profile) + Total(NetsOf(prices, ds), Accepted(ds))
           yes == [status |-> "AVAILABLE", why |-> "", orders |-> k, total |-> total]
           no == Unavailable(ds, "LANDED_COST_NOT_CALCULABLE_OR_TEMPLATE_MISSING")
<1>1. Metric(prices, psi, ds, profile) = IF AllPriced(prices, ds) THEN yes ELSE no
  BY Zenon DEF Metric, AllPriced, NetsOf
<1>2. no.status = "NOT_AVAILABLE"
  BY DEF Unavailable
<1> HIDE DEF k, total, no
<1>3. yes.status = "AVAILABLE" /\ yes.total = total
  OBVIOUS
<1> HIDE DEF yes
<1> QED BY <1>1, <1>2, <1>3, Zenon DEF total

\* The rates of a profile.
ProfileType == [holding : Nat, backorder : Nat, fixed : Nat, variable : Nat]

\* The baseline orders nothing: it holds and owes.
LEMMA BaselineMetric ==
  ASSUME NEW psi, NEW profile \in ProfileType,
         NEW metric, metric = Metric(<<>>, psi, <<>>, profile)
  PROVE  /\ metric.status = "AVAILABLE"
         /\ metric.total = (profile.holding * Held(psi) + profile.backorder * Owed(psi)
                             + profile.fixed * 0 + profile.variable * 0) + 0
<1> DEFINE none == <<>>
           x == OperatingCost(psi, none, profile)
           n == Total(NetsOf(none, none), Accepted(none))
<1>1. Accepted(none) = {} /\ DOMAIN none = {}
  BY DEF Accepted
<1>2. metric = Metric(none, psi, none, profile)
  OBVIOUS
<1> HIDE DEF none
<1>3. n = 0 /\ Cardinality(Accepted(none)) = 0
  BY <1>1, TotalEmpty, FS_EmptySet
<1>4. Total([w \in DOMAIN none |-> none[w].validation.accepted], DOMAIN none) = 0
  BY <1>1, TotalEmpty
<1>5. x = profile.holding * Held(psi) + profile.backorder * Owed(psi)
            + profile.fixed * 0 + profile.variable * 0
  BY <1>3, <1>4, Zenon DEF OperatingCost, Held, Owed
<1>6. AllPriced(none, none)
  BY <1>1 DEF AllPriced
<1>7. metric.status = "AVAILABLE" /\ metric.total = x + n
  BY <1>2, <1>6, MetricOf, Zenon
<1> HIDE DEF x, n
<1> QED BY <1>3, <1>5, <1>7

\* What the orders of a child add to its cost.
LEMMA OrdersCost ==
  ASSUME NEW A, IsFiniteSet(A), NEW v \in Nat, NEW acc, NEW net, NEW f,
         \A w \in A : acc[w] \in Int /\ net[w] \in Int /\ f[w] = v * acc[w] + net[w]
  PROVE  /\ Total(f, A) = v * Total(acc, A) + Total(net, A)
         /\ Total(acc, A) \in Int /\ Total(net, A) \in Int
<1> DEFINE times == [w \in A |-> v * acc[w]]
<1>1. \A w \in A : times[w] = v * acc[w] /\ times[w] \in Int
  OBVIOUS
<1> HIDE DEF times
<1>2. Total(times, A) = v * Total(acc, A)
  <2>1. v \in Int /\ \A w \in A : acc[w] \in Int /\ times[w] = v * acc[w]
    BY <1>1
  <2> QED BY <2>1, TotalTimes
<1>3. Total(f, A) = Total(times, A) + Total(net, A)
  <2>1. \A w \in A : times[w] \in Int /\ net[w] \in Int /\ f[w] = times[w] + net[w]
    BY <1>1
  <2> QED BY <2>1, TotalPlus
<1>4. Total(acc, A) \in Int /\ Total(net, A) \in Int
  BY TotalInt
<1> QED BY <1>2, <1>3, <1>4

\* What is accepted in all, over the weeks that accept something or over every week.
LEMMA AcceptedSum ==
  ASSUME NEW J, NEW ds \in Seq(J), \A w \in DOMAIN ds : ds[w].validation.accepted \in Nat
  PROVE  LET acc == [w \in DOMAIN ds |-> ds[w].validation.accepted]
         IN /\ IsFiniteSet(Accepted(ds)) /\ Accepted(ds) \subseteq DOMAIN ds
            /\ Total(acc, DOMAIN ds) = Total(acc, Accepted(ds))
<1> DEFINE acc == [w \in DOMAIN ds |-> ds[w].validation.accepted]
           D == DOMAIN ds
<1>1. D = 1..Len(ds) /\ Len(ds) \in Nat
  OBVIOUS
<1>2. Accepted(ds) \subseteq D /\ \A w \in D \ Accepted(ds) : acc[w] = 0
  BY DEF Accepted
<1>3. \A w \in D : acc[w] \in Int
  OBVIOUS
<1>4. IsFiniteSet(D)
  BY <1>1, FS_Interval
<1> HIDE DEF acc, D
<1>5. IsFiniteSet(Accepted(ds))
  BY <1>2, <1>4, FS_Subset
<1>6. Total(acc, D) = Total(acc, Accepted(ds))
  BY <1>2, <1>3, <1>4, TotalZeros
<1> QED BY <1>2, <1>5, <1>6 DEF acc, D

\* A saving as the stocks, the debts and the orders make it up.
Saved(profile, held, owed, placed, ordered) ==
  profile.holding * held + profile.backorder * owed + profile.fixed * placed + ordered

\* A difference is stated between totals that are.
LEMMA DeltaIs ==
  ASSUME NEW old, NEW new
  PROVE  IF old.status = "AVAILABLE" /\ new.status = "AVAILABLE"
         THEN /\ CostDelta(old, new).status = "AVAILABLE"
              /\ CostDelta(old, new).delta = new.total - old.total
         ELSE CostDelta(old, new).status = "NOT_AVAILABLE"
<1> DEFINE d == new.total - old.total
           why == IF new.why = "" THEN old.why ELSE new.why
           yes == [status |-> "AVAILABLE", delta |-> d, why |-> ""]
           no == [status |-> "NOT_AVAILABLE", delta |-> None, why |-> why]
<1>1. CostDelta(old, new) = IF old.status = "AVAILABLE" /\ new.status = "AVAILABLE" THEN yes ELSE no
  BY Zenon DEF CostDelta
<1> HIDE DEF d, why
<1>2. yes.status = "AVAILABLE" /\ yes.delta = d /\ no.status = "NOT_AVAILABLE"
  OBVIOUS
<1> HIDE DEF yes, no
<1> QED BY <1>1, <1>2, Zenon DEF d

\* The saving of a child over a baseline that orders nothing: there is one if
\* every order has its price, and it is made up of what the two differ in.
LEMMA SavingIs ==
  ASSUME NEW profile \in ProfileType, NEW input \in Plan, NEW base \in Seq(Row), NEW s \in Seq(Row),
         NEW J, NEW ds \in Seq(J), NEW prices, NEW f,
         \A w \in DOMAIN ds : ds[w].validation.accepted \in Nat,
         \A w \in Accepted(ds) :
           /\ w \in DOMAIN prices /\ prices[w].status = "CALCULABLE" => prices[w].net \in Int
           /\ f[w] = profile.variable * ds[w].validation.accepted + prices[w].net,
         NEW old, old = Metric(<<>>, PsiRows(base, input), <<>>, profile),
         NEW new, new = Metric(prices, PsiRows(s, input), ds, profile),
         NEW saving, saving = CostDelta(old, new)
  PROVE  IF AllPriced(prices, ds)
         THEN /\ saving.status = "AVAILABLE"
              /\ saving.delta = Saved(profile,
                                      Held(PsiRows(s, input)) - Held(PsiRows(base, input)),
                                      Owed(PsiRows(s, input)) - Owed(PsiRows(base, input)),
                                      Cardinality(Accepted(ds)), Total(f, Accepted(ds)))
              /\ \A w \in Accepted(ds) : f[w] \in Int
         ELSE saving.status = "NOT_AVAILABLE"
<1> DEFINE A == Accepted(ds)
           all == AllPriced(prices, ds)
           psi == PsiRows(s, input)
           psi0 == PsiRows(base, input)
           acc == [w \in DOMAIN ds |-> ds[w].validation.accepted]
           net == NetsOf(prices, ds)
           x == OperatingCost(psi, ds, profile)
           n == Total(net, A)
           q == Total(acc, A)
           k == Cardinality(A)
           h1 == Held(psi)
           o1 == Owed(psi)
           h0 == Held(psi0)
           o0 == Owed(psi0)
<1>1. /\ profile.holding \in Nat /\ profile.backorder \in Nat
      /\ profile.fixed \in Nat /\ profile.variable \in Nat
  BY DEF ProfileType
<1>2. h1 \in Int /\ o1 \in Int /\ h0 \in Int /\ o0 \in Int
  BY SealedSums
<1>3. IsFiniteSet(A) /\ A \subseteq DOMAIN ds /\ Total(acc, DOMAIN ds) = q
  BY AcceptedSum
<1>4. /\ old.status = "AVAILABLE"
      /\ old.total = (profile.holding * h0 + profile.backorder * o0
                       + profile.fixed * 0 + profile.variable * 0) + 0
  <2> HIDE DEF psi0
  <2>1. old = Metric(<<>>, psi0, <<>>, profile)
    BY DEF psi0
  <2> QED BY <2>1, BaselineMetric
<1>5. x = profile.holding * h1 + profile.backorder * o1 + profile.fixed * k + profile.variable * q
  <2>1. x = profile.holding * h1 + profile.backorder * o1 + profile.fixed * k
              + profile.variable * Total(acc, DOMAIN ds)
    BY Zenon DEF OperatingCost, Held, Owed
  <2> HIDE DEF x, h1, o1, k, q, acc
  <2> QED BY <1>3, <2>1
<1>6. IF all THEN new.status = "AVAILABLE" /\ new.total = x + n ELSE new.status = "NOT_AVAILABLE"
  <2>1. new = Metric(prices, psi, ds, profile)
    OBVIOUS
  <2> HIDE DEF psi
  <2> QED BY <2>1, MetricOf, Zenon
<1>7. k \in Nat
  BY <1>3, FS_CardinalityType
<1>8. ASSUME all
      PROVE  /\ \A w \in A : acc[w] \in Int /\ net[w] \in Int
                             /\ f[w] = profile.variable * acc[w] + net[w]
             /\ \A w \in A : f[w] \in Int
  <2>1. \A w \in A : prices[w].net \in Int /\ acc[w] = ds[w].validation.accepted
    BY <1>3, <1>8 DEF AllPriced
  <2>2. \A w \in A : acc[w] \in Int
    BY <1>3
  <2>3. \A w \in A : net[w] = prices[w].net
    BY DEF NetsOf
  <2> HIDE DEF acc, net
  <2>4. \A w \in A : acc[w] \in Int /\ net[w] \in Int
                     /\ f[w] = profile.variable * acc[w] + net[w]
    BY <2>1, <2>2, <2>3
  <2> QED BY <1>1, <2>4
<1>9. CASE all
  <2> DEFINE t == Total(f, A)
  <2>1. t = profile.variable * q + n /\ q \in Int /\ n \in Int
    <3> DEFINE v == profile.variable
    <3>1. v \in Nat
      BY <1>1
    <3> HIDE DEF acc, net, A, all, v
    <3>2. \A w \in A : acc[w] \in Int /\ net[w] \in Int /\ f[w] = v * acc[w] + net[w]
      BY <1>8, <1>9 DEF v
    <3>3. /\ Total(f, A) = v * Total(acc, A) + Total(net, A)
          /\ Total(acc, A) \in Int /\ Total(net, A) \in Int
      BY <1>3, <3>1, <3>2, OrdersCost
    <3> QED BY <3>3 DEF v
  <2>2. saving.status = "AVAILABLE" /\ saving.delta = new.total - old.total
    <3> DEFINE d == new.total - old.total
    <3> HIDE DEF d, all, x, n
    <3>1. new.status = "AVAILABLE"
      BY <1>6, <1>9
    <3> QED BY <1>4, <3>1, DeltaIs, Zenon DEF d
  <2> HIDE DEF t, q, n, k, h1, o1, h0, o0, x, all
  <2>3. new.total - old.total
          = profile.holding * (h1 - h0) + profile.backorder * (o1 - o0) + profile.fixed * k
             + (profile.variable * q + n)
    <3>1. new.total = profile.holding * h1 + profile.backorder * o1 + profile.fixed * k
                       + profile.variable * q + n
      BY <1>5, <1>6, <1>9
    <3>2. k \in Int
      BY <1>7
    <3> DEFINE h == profile.holding
               o == profile.backorder
               c == profile.fixed
               v == profile.variable
    <3>3. h \in Nat /\ o \in Nat /\ c \in Nat /\ v \in Nat
      BY <1>1
    <3> HIDE DEF h, o, c, v
    <3>4. (h * h1 + o * o1 + c * k + v * q + n) - (h * h0 + o * o0 + c * 0 + v * 0 + 0)
            = h * (h1 - h0) + o * (o1 - o0) + c * k + (v * q + n)
      BY <1>2, <2>1, <3>2, <3>3, CostsAdd
    <3>5. /\ new.total = h * h1 + o * o1 + c * k + v * q + n
          /\ old.total = (h * h0 + o * o0 + c * 0 + v * 0) + 0
      BY <1>4, <3>1, Zenon DEF h, o, c, v
    <3> QED BY <3>4, <3>5, Zenon DEF h, o, c, v
  <2>4. saving.delta = Saved(profile, h1 - h0, o1 - o0, k, t)
    BY <2>1, <2>2, <2>3 DEF Saved
  <2> QED BY <1>8, <1>9, <2>2, <2>4 DEF all, t, k, h1, o1, h0, o0
<1>10. CASE ~all
  <2> HIDE DEF all, x, n
  <2>1. new.status = "NOT_AVAILABLE"
    BY <1>6, <1>10
  <2>2. new.status # "AVAILABLE"
    BY <2>1
  <2>3. saving.status = "NOT_AVAILABLE"
    BY <2>2, DeltaIs, Zenon
  <2> QED BY <1>10, <2>3 DEF all
<1> QED BY <1>9, <1>10

\* The costs of a Run are those of a projection that ran without a slip.
HonestRun == stage # "IDLE" /\ claim \in Claims => source # None /\ slip = "NONE"

\* It stays so: what is priced is projected no further.
LEMMA HonestRunStep == HonestRun /\ [CostNext]_runVars => HonestRun'
<1> SUFFICES ASSUME HonestRun, [CostNext]_runVars
             PROVE  HonestRun'
  OBVIOUS
<1>1. ASSUME stage # "IDLE", UNCHANGED <<claim, source, slip>>
      PROVE  HonestRun'
  BY <1>1 DEF HonestRun
<1>2. CASE Project
  BY <1>2 DEF Project, costVars, HonestRun
<1>3. CASE UNCHANGED runVars
  BY <1>3 DEF runVars, costVars, evidenceVars, HonestRun
<1>4. ASSUME NEW c \in Claims, NEW r \in Offers(c), Resolve(c, r)
      PROVE  HonestRun'
  BY <1>4 DEF Resolve, evidenceVars, HonestRun
<1>5. CASE BuildEvidence
  BY <1>1, <1>5 DEF BuildEvidence, evidenceVars
<1>6. CASE CommitEvidence
  BY <1>1, <1>6 DEF CommitEvidence, evidenceVars
<1>7. ASSUME NEW c \in Consignments, PersistShipment(c)
      PROVE  HonestRun'
  BY <1>7, ClaimKinds DEF PersistShipment, HonestRun
<1>8. CASE Read
  BY <1>1, <1>8 DEF Read, evidenceVars
<1>9. ASSUME NEW documents, Damage(documents)
      PROVE  HonestRun'
  BY <1>1, <1>9 DEF Damage, evidenceVars
<1>10. CASE LoseDocument
  BY <1>9, <1>10, Zenon DEF LoseDocument
<1>11. CASE MisplaceDocument
  BY <1>9, <1>11, Zenon DEF MisplaceDocument
<1>12. ASSUME NEW c, ForeignDocument(c)
       PROVE  HonestRun'
  BY <1>9, <1>12, Zenon DEF ForeignDocument
<1>13. CASE Upgrade
  BY <1>1, <1>13 DEF Upgrade, evidenceVars
<1> QED BY <1>2, <1>3, <1>4, <1>5, <1>6, <1>7, <1>8, <1>10, <1>11, <1>12, <1>13 DEF CostNext

\* For every claim: a Run prices an honest projection.
LEMMA HonestRunInvariant == CostSpec => [](HonestTypes /\ HonestRun)
<1>1. CostInit => HonestRun
  BY DEF CostInit, HonestRun
<1>2. EvidenceSpec => []HonestTypes
  BY HonestInit, HonestStep, PTL DEF EvidenceSpec
<1> QED BY <1>1, <1>2, HonestRunStep, CostImplementsEvidence, PTL DEF CostSpec

\* The rows and the orders of a projection that ran without a slip.
LEMMA HonestFacts ==
  ASSUME HonestTypes, source # None, slip = "NONE"
  PROVE  /\ plan \in Plan /\ rows \in Seq(Row) /\ baseline \in Seq(Row)
         /\ decisions \in Seq(Judgments(plan))
         /\ orders = OrdersOf(decisions, 1..Len(decisions))
         /\ BaselineChild.psi = PsiRows(baseline, plan) /\ Child.psi = PsiRows(rows, plan)
         /\ Child.action.decisions = decisions
<1>1. EvidenceTypes /\ Honest /\ phase = "DONE"
  BY DEF HonestTypes, EvidenceTypes
<1>2. orders = OrdersOf(decisions, 1..Len(decisions)) /\ compared = PsiRows(baseline, plan)
  BY <1>1 DEF Honest
<1>3. /\ plan \in Plan /\ rows \in Seq(Row) /\ baseline \in Seq(Row)
      /\ decisions \in Seq(Judgments(plan))
  BY <1>1, PlanAssumption DEF EvidenceTypes, Types, TypeOK
<1>4. /\ BaselineChild.psi = PsiRows(baseline, plan) /\ Child.psi = PsiRows(rows, plan)
      /\ Child.action.decisions = decisions
  BY <1>2 DEF BaselineChild, Child, ActionArtifacts
<1> QED BY <1>2, <1>3, <1>4

\* What the evidence of a Run says of an order.
OrderSealed(w, prices) ==
  /\ evidence[<<"CHILD", w>>].price = prices[w]
  /\ evidence[<<"SHIPMENT", w>>].body.lines[1].quantity = decisions[w].validation.accepted
  /\ prices[w].status = "CALCULABLE" => prices[w].net \in Int

\* The evidence of a Run is that of its orders.
LEMMA RunSeals ==
  ASSUME EvidenceTypes, SealedByRun, NEW prices, prices = Prices(claim.input, revision, decisions)
  PROVE  /\ DOMAIN prices \subseteq Accepted(decisions)
         /\ DOMAIN evidence = Sources \cup ({"SHIPMENT", "PROJECTION", "CHILD"} \X DOMAIN prices)
         /\ Manifest.comparisons["recommended"]
              = CostDelta(Metrics(Results, prices, claim.profile).baseline,
                          Metrics(Results, prices, claim.profile).recommended)
         /\ claim.profile \in ProfileType
         /\ \A w \in DOMAIN prices : OrderSealed(w, prices)
<1> DEFINE template == claim.input.template
<1>1. NamesSources(evidence, Results, claim.input, revision, claim.profile, prices)
  <2>1. 0 \notin DOMAIN prices
    BY PricesOfWeeks
  <2>2. evidence = CostEvidence("THIS", Results, claim.input, revision, claim.profile, 1, prices)
    BY DEF SealedByRun
  <2> QED BY <2>1, <2>2, CostEvidenceIs, Zenon
<1>2. DOMAIN prices = IF template = None THEN {} ELSE Accepted(decisions)
  BY Zenon DEF Prices
<1>3. claim \in Claims /\ InputFits(claim) /\ RevisionFits(claim, revision)
  BY DEF SealedByRun, InputPinned
<1>4. claim.profile \in ProfileType
  BY <1>3, NumberAssumption DEF ProfileType
<1>5. ASSUME NEW w \in DOMAIN prices
      PROVE  OrderSealed(w, prices)
  <2> DEFINE q == decisions[w].validation.accepted
             s == Shipment(template, q)
  <2>1. template # None /\ w \in DOMAIN decisions
    BY <1>2, <1>5 DEF Accepted
  <2>2. prices[w] = PriceShipment(revision, s)
    BY <1>2, <1>5, <2>1 DEF Prices
  <2>3. q \in Nat /\ Results.recommended.action.decisions = decisions
    BY <2>1, OrderAccepts
  <2>4. SourceNumbers(revision.content) /\ ShipmentRead(template) /\ Len(template.lines) = 1
    <3>1. SourceNumbers(claim.content) /\ ShipmentRead(template)
      BY <1>3, <2>1, NumberAssumption
    <3>2. Len(template.lines) = 1 /\ revision.content = claim.content
      BY <1>3, <2>1, Zenon DEF InputFits, RevisionFits
    <3> QED BY <3>1, <3>2
  <2>5. ShipmentRead(s) /\ s.lines[1].quantity = q
    BY <2>3, <2>4, ShipmentIs
  <2>6. /\ evidence[<<"CHILD", w>>].price = prices[w]
        /\ evidence[<<"SHIPMENT", w>>].body = OrderShipment(Results, claim.input, w)
    BY <1>1, <1>5 DEF NamesSources
  <2>7. evidence[<<"SHIPMENT", w>>].body = s
    BY <2>3, <2>6 DEF OrderShipment
  <2> HIDE DEF s
  <2>8. prices[w].status = "CALCULABLE" => prices[w].net \in Int
    BY <2>2, <2>4, <2>5, PriceNetInt
  <2> QED BY <2>5, <2>6, <2>7, <2>8 DEF OrderSealed
<1>6. DOMAIN prices \subseteq Accepted(decisions)
  BY <1>2
<1>7. /\ DOMAIN evidence = Sources \cup ({"SHIPMENT", "PROJECTION", "CHILD"} \X DOMAIN prices)
      /\ Manifest.comparisons["recommended"]
              = CostDelta(Metrics(Results, prices, claim.profile).baseline,
                          Metrics(Results, prices, claim.profile).recommended)
  BY <1>1, Zenon DEF NamesSources, Manifest
<1> QED BY <1>4, <1>5, <1>6, <1>7

\* The weeks whose order has a price, by the evidence.
Priced == {ref[2] : ref \in {ref \in DOMAIN evidence :
             ref[1] = "CHILD" /\ evidence[ref].price.status = "CALCULABLE"}}

\* The orders that have a price are those that were placed just if each has one.
LEMMA NamedArePlaced ==
  ASSUME EvidenceTypes, SealedByRun, NEW prices, prices = Prices(claim.input, revision, decisions),
         orders = OrdersOf(decisions, 1..Len(decisions))
  PROVE  ({[placed |-> w, quantity |-> evidence[<<"SHIPMENT", w>>].body.lines[1].quantity] :
             w \in Priced}
          = {[placed |-> o.placed, quantity |-> o.quantity] : o \in orders})
           <=> AllPriced(prices, decisions)
<1> DEFINE A == Accepted(decisions)
           P == {w \in DOMAIN prices : prices[w].status = "CALCULABLE"}
           q == [w \in A |-> decisions[w].validation.accepted]
           named == {[placed |-> w, quantity |-> evidence[<<"SHIPMENT", w>>].body.lines[1].quantity] :
                       w \in Priced}
           placed == {[placed |-> o.placed, quantity |-> o.quantity] : o \in orders}
<1>1. /\ DOMAIN prices \subseteq A
      /\ DOMAIN evidence = Sources \cup ({"SHIPMENT", "PROJECTION", "CHILD"} \X DOMAIN prices)
      /\ \A w \in DOMAIN prices : OrderSealed(w, prices)
  BY RunSeals
<1>2. Priced = P
  <2>1. ASSUME NEW ref \in DOMAIN evidence, ref[1] = "CHILD"
        PROVE  ref[2] \in DOMAIN prices /\ ref = <<"CHILD", ref[2]>>
    BY <1>1, <2>1 DEF Sources
  <2>2. ASSUME NEW w \in DOMAIN prices
        PROVE  /\ <<"CHILD", w>> \in DOMAIN evidence
               /\ evidence[<<"CHILD", w>>].price = prices[w]
    BY <1>1, <2>2 DEF OrderSealed
  <2>3. ASSUME NEW w \in Priced
        PROVE  w \in P
    <3>1. PICK ref \in DOMAIN evidence :
            ref[1] = "CHILD" /\ evidence[ref].price.status = "CALCULABLE" /\ w = ref[2]
      BY <2>3 DEF Priced
    <3>2. w \in DOMAIN prices /\ ref = <<"CHILD", w>>
      BY <2>1, <3>1
    <3>3. evidence[ref].price = prices[w]
      BY <2>2, <3>2
    <3> QED BY <3>1, <3>2, <3>3
  <2>4. ASSUME NEW w \in P
        PROVE  w \in Priced
    <3> DEFINE ref == <<"CHILD", w>>
    <3>1. ref[1] = "CHILD" /\ ref[2] = w
      OBVIOUS
    <3>2. ref \in DOMAIN evidence /\ evidence[ref].price.status = "CALCULABLE"
      BY <2>2, <2>4
    <3> HIDE DEF ref
    <3> QED BY <3>1, <3>2 DEF Priced
  <2> HIDE DEF P
  <2> QED BY <2>3, <2>4
<1>3. DOMAIN decisions = 1..Len(decisions)
  <2>1. decisions \in Seq(Judgments(plan))
    BY Zenon DEF EvidenceTypes
  <2> HIDE DEF Judgments
  <2> QED BY <2>1
<1>4. A = {w \in 1..Len(decisions) : decisions[w].validation.accepted > 0}
  BY <1>3 DEF Accepted
<1>5. \A w \in P : evidence[<<"SHIPMENT", w>>].body.lines[1].quantity = q[w]
  BY <1>1 DEF OrderSealed
<1>6. \A w \in A : q[w] = decisions[w].validation.accepted
  OBVIOUS
<1> HIDE DEF q, P
<1>7. named = Named(P, q)
  BY <1>2, <1>5 DEF Named
<1>8. placed = Named(A, q)
  <2> DEFINE order(w) == [placed |-> w, arrival |-> decisions[w].validation.arrival,
                          quantity |-> decisions[w].validation.accepted]
  <2>1. orders = {order(w) : w \in A}
    BY <1>4, Zenon DEF OrdersOf
  <2>2. \A w : order(w).placed = w /\ order(w).quantity = decisions[w].validation.accepted
    OBVIOUS
  <2> HIDE DEF order, A
  <2> QED BY <1>6, <2>1, <2>2 DEF Named
<1>9. P \in SUBSET A
  BY <1>1 DEF P
<1>10. P = A <=> AllPriced(prices, decisions)
  BY <1>1 DEF P, AllPriced
<1> HIDE DEF A, named, placed
<1>11. named = placed <=> P = A
  BY <1>7, <1>8, <1>9, NamedByWeek
<1> QED BY <1>10, <1>11 DEF named, placed

\* What the orders of a Run add to its cost, order by order or week by week.
LEMMA OrdersPriced ==
  ASSUME EvidenceTypes, SealedByRun, NEW prices, prices = Prices(claim.input, revision, decisions),
         orders = OrdersOf(decisions, 1..Len(decisions)), AllPriced(prices, decisions),
         NEW f, \A w \in Accepted(decisions) :
                  /\ f[w] = claim.profile.variable * decisions[w].validation.accepted + prices[w].net
                  /\ f[w] \in Int
  PROVE  /\ Cardinality(orders) = Cardinality(Accepted(decisions))
         /\ Total([o \in orders |-> claim.profile.variable * o.quantity
                                    + evidence[<<"CHILD", o.placed>>].price.net], orders)
              = Total(f, Accepted(decisions))
<1> DEFINE A == Accepted(decisions)
           order(w) == [placed |-> w, arrival |-> decisions[w].validation.arrival,
                        quantity |-> decisions[w].validation.accepted]
           g == [o \in orders |-> claim.profile.variable * o.quantity
                                    + evidence[<<"CHILD", o.placed>>].price.net]
<1>1. decisions \in Seq(Judgments(plan))
  BY Zenon DEF EvidenceTypes
<1>2. A = {w \in 1..Len(decisions) : decisions[w].validation.accepted > 0}
  <2>1. DOMAIN decisions = 1..Len(decisions)
    <3> HIDE DEF Judgments
    <3> QED BY <1>1
  <2> QED BY <2>1 DEF Accepted
<1>3. orders = {order(w) : w \in A}
  BY <1>2, Zenon DEF OrdersOf
<1>4. \A w : order(w).placed = w /\ order(w).quantity = decisions[w].validation.accepted
  OBVIOUS
<1>5. \A w \in A : evidence[<<"CHILD", w>>].price = prices[w]
  <2>1. \A w \in DOMAIN prices : OrderSealed(w, prices)
    BY RunSeals
  <2> QED BY <2>1 DEF OrderSealed, AllPriced
<1> HIDE DEF order, A
<1>6. ASSUME NEW w \in A
      PROVE  g[order(w)] = f[w] /\ f[w] \in Int
  <2>1. order(w) \in orders
    BY <1>3
  <2>2. g[order(w)] = claim.profile.variable * order(w).quantity
                       + evidence[<<"CHILD", order(w).placed>>].price.net
    BY <2>1
  <2> HIDE DEF g
  <2>3. f[w] = claim.profile.variable * decisions[w].validation.accepted + prices[w].net
        /\ f[w] \in Int
    BY DEF A
  <2> QED BY <1>4, <1>5, <2>2, <2>3
<1> HIDE DEF g
<1>7. /\ Cardinality(OrdersOf(decisions, 1..Len(decisions))) = Cardinality(A)
      /\ Total(g, OrdersOf(decisions, 1..Len(decisions))) = Total(f, A)
  <2>1. \A w \in Accepted(decisions) :
          /\ f[w] \in Int
          /\ g[[placed |-> w, arrival |-> decisions[w].validation.arrival,
                quantity |-> decisions[w].validation.accepted]] = f[w]
    BY <1>6, Zenon DEF A, order
  <2> HIDE DEF Judgments
  <2> QED BY <1>1, <2>1, OrdersImage DEF A
<1> QED BY <1>7, Zenon DEF g, A

\* Whatever the Run orders and whatever its orders cost, the saving of its
\* recommendation is about what it does.
THEOREM SavingsAccountForOrders == CostSpec => []SavingAccountsForOrders
<1>1. EvidenceTypes /\ CostInv /\ HonestTypes /\ HonestRun => SavingAccountsForOrders
  <2> DEFINE saving == Manifest.comparisons["recommended"]
             prices == Prices(claim.input, revision, decisions)
             named == {[placed |-> w, quantity |-> evidence[<<"SHIPMENT", w>>].body.lines[1].quantity] :
                         w \in Priced}
             placed == {[placed |-> o.placed, quantity |-> o.quantity] : o \in orders}
             held(s) == Total([b \in DOMAIN s |-> s[b].eoh + plan.stock.reserved], DOMAIN s)
             owed(s) == Total([b \in DOMAIN s |-> s[b].backorderClose], DOMAIN s)
             added == Total([o \in orders |-> claim.profile.variable * o.quantity
                                              + evidence[<<"CHILD", o.placed>>].price.net], orders)
  <2> SUFFICES ASSUME EvidenceTypes, CostInv, HonestTypes, HonestRun, OfRun
               PROVE  /\ (saving.status = "AVAILABLE") = (named = placed)
                      /\ saving.status = "AVAILABLE" =>
                           saving.delta = Saved(claim.profile, held(rows) - held(baseline),
                                                owed(rows) - owed(baseline), Cardinality(orders), added)
    BY Zenon DEF SavingAccountsForOrders, Saved, Priced
  <2>1. SealedByRun /\ claim \in Claims
    BY SealKinds DEF CostInv, OfRun, Costed
  <2>2. source # None /\ slip = "NONE"
    BY <2>1 DEF HonestRun, OfRun, Costed
  <2>3. /\ plan \in Plan /\ rows \in Seq(Row) /\ baseline \in Seq(Row)
        /\ decisions \in Seq(Judgments(plan))
        /\ orders = OrdersOf(decisions, 1..Len(decisions))
        /\ BaselineChild.psi = PsiRows(baseline, plan) /\ Child.psi = PsiRows(rows, plan)
        /\ Child.action.decisions = decisions
    BY <2>2, HonestFacts
  <2> DEFINE f == [w \in Accepted(decisions) |->
                     claim.profile.variable * decisions[w].validation.accepted + prices[w].net]
             old == Metric(<<>>, PsiRows(baseline, plan), <<>>, claim.profile)
             new == Metric(prices, PsiRows(rows, plan), decisions, claim.profile)
  <2>4. /\ DOMAIN prices \subseteq Accepted(decisions)
        /\ saving = CostDelta(Metrics(Results, prices, claim.profile).baseline,
                              Metrics(Results, prices, claim.profile).recommended)
        /\ claim.profile \in ProfileType
        /\ \A w \in DOMAIN prices : OrderSealed(w, prices)
    BY <2>1, RunSeals
  <2>5. saving = CostDelta(old, new)
    <3>1. Results.baseline = BaselineChild /\ Results.recommended = Child
      BY DEF Results
    <3>2. /\ Metrics(Results, prices, claim.profile).baseline = old
          /\ Metrics(Results, prices, claim.profile).recommended = new
      BY <2>3, <3>1 DEF Metrics
    <3> QED BY <2>4, <3>2, Zenon
  <2>6. \A w \in DOMAIN decisions : decisions[w].validation.accepted \in Nat
    BY OrderAccepts
  <2>7. \A w \in Accepted(decisions) :
          /\ f[w] = claim.profile.variable * decisions[w].validation.accepted + prices[w].net
          /\ w \in DOMAIN prices /\ prices[w].status = "CALCULABLE" => prices[w].net \in Int
    BY <2>4 DEF OrderSealed
  <2>8. named = placed <=> AllPriced(prices, decisions)
    <3> HIDE DEF prices
    <3>1. prices = Prices(claim.input, revision, decisions)
      BY DEF prices
    <3> QED BY <2>1, <2>3, <3>1, NamedArePlaced, Zenon DEF named, placed
  <2> HIDE DEF saving, prices, f, old, new, named, placed
  <2>9. IF AllPriced(prices, decisions)
        THEN /\ saving.status = "AVAILABLE"
             /\ saving.delta = Saved(claim.profile,
                                     Held(PsiRows(rows, plan)) - Held(PsiRows(baseline, plan)),
                                     Owed(PsiRows(rows, plan)) - Owed(PsiRows(baseline, plan)),
                                     Cardinality(Accepted(decisions)), Total(f, Accepted(decisions)))
             /\ \A w \in Accepted(decisions) : f[w] \in Int
        ELSE saving.status = "NOT_AVAILABLE"
    <3> DEFINE J == Judgments(plan)
               profile == claim.profile
    <3>1. decisions \in Seq(J) /\ profile \in ProfileType
      BY <2>3, <2>4
    <3>2. /\ old = Metric(<<>>, PsiRows(baseline, plan), <<>>, profile)
          /\ new = Metric(prices, PsiRows(rows, plan), decisions, profile)
          /\ \A w \in Accepted(decisions) :
               /\ w \in DOMAIN prices /\ prices[w].status = "CALCULABLE" => prices[w].net \in Int
               /\ f[w] = profile.variable * decisions[w].validation.accepted + prices[w].net
      BY <2>7 DEF old, new
    <3> HIDE DEF J, profile
    <3>3. IF AllPriced(prices, decisions)
          THEN /\ saving.status = "AVAILABLE"
               /\ saving.delta = Saved(profile,
                                       Held(PsiRows(rows, plan)) - Held(PsiRows(baseline, plan)),
                                       Owed(PsiRows(rows, plan)) - Owed(PsiRows(baseline, plan)),
                                       Cardinality(Accepted(decisions)),
                                       Total(f, Accepted(decisions)))
               /\ \A w \in Accepted(decisions) : f[w] \in Int
          ELSE saving.status = "NOT_AVAILABLE"
      BY <2>3, <2>5, <2>6, <3>1, <3>2, SavingIs
    <3> QED BY <3>3, Zenon DEF profile
  <2>10. CASE AllPriced(prices, decisions)
    <3>1. /\ Held(PsiRows(rows, plan)) = held(rows) /\ Owed(PsiRows(rows, plan)) = owed(rows)
          /\ Held(PsiRows(baseline, plan)) = held(baseline)
          /\ Owed(PsiRows(baseline, plan)) = owed(baseline)
      BY <2>3, SealedSums
    <3>2. Cardinality(orders) = Cardinality(Accepted(decisions)) /\ added = Total(f, Accepted(decisions))
      <4>1. prices = Prices(claim.input, revision, decisions)
        BY DEF prices
      <4>2. \A w \in Accepted(decisions) :
              /\ f[w] = claim.profile.variable * decisions[w].validation.accepted + prices[w].net
              /\ f[w] \in Int
        BY <2>7, <2>9, <2>10
      <4> QED BY <2>1, <2>3, <2>10, <4>1, <4>2, OrdersPriced
    <3> HIDE DEF held, owed, added
    <3>3. saving.status = "AVAILABLE" /\ named = placed
      BY <2>8, <2>9, <2>10
    <3>4. saving.delta = Saved(claim.profile, held(rows) - held(baseline),
                               owed(rows) - owed(baseline), Cardinality(orders), added)
      BY <2>9, <2>10, <3>1, <3>2
    <3> QED BY <3>3, <3>4
  <2>11. CASE ~AllPriced(prices, decisions)
    <3>1. saving.status # "AVAILABLE" /\ named # placed
      BY <2>8, <2>9, <2>11
    <3> QED BY <3>1
  <2> QED BY <2>10, <2>11
<1> QED BY <1>1, CostInvariant, HonestRunInvariant, PTL
=============================================================================
