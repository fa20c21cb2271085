------------------------------ MODULE MCRunCost ------------------------------
(* Instances of RunCost for TLC: the plans of MCPsiEvidence, two of them     *)
(* priced.  A unit of the item costs 7 dollars, a dollar up to 150 yen.      *)
EXTENDS RunCost

MCStart == <<0, 7, 10>>

Steady == <<[order |-> 1, forecast |-> 1], [order |-> 2, forecast |-> 0],
            [order |-> 1, forecast |-> 2]>>
Idle   == [b \in Bucket |-> [order |-> 0, forecast |-> 0]]

PlanOf(s, d, r, a, l, m, c) ==
  [stock |-> s, demand |-> d, receipt |-> r, maxOrder |-> 4,
   orderDates |-> IF l[1] = 0 THEN Bucket ELSE {1, 3},
   minTarget |-> 1, maxTarget |-> 4, allowed |-> a,
   policy |-> [b \in Bucket |-> [lead |-> l[b], multiple |-> m[1], moq |-> m[2],
                                 cap |-> c[b]]]]

Low  == [available |-> 1, reserved |-> 1, backorder |-> 3]
Some == [available |-> 2, reserved |-> 1, backorder |-> 0]

\* Lots of two only where there is demand, and not for Low under a limit.
MCPlans ==
  {p \in {PlanOf(s, d, r, a, l, m, c) :
            s \in {Some, Low}, d \in {Steady, Idle},
            r \in {<<0, 0, 0>>, <<0, 2, 0>>},
            a \in {{"HOLD", "ORDER_UP_TO"}, {"HOLD", "ORDER_QTY"}},
            l \in {<<0, 0, 0>>, <<8, 3, 0>>},
            m \in {<<1, 0>>, <<2, 3>>},
            c \in {<<NoCap, NoCap, NoCap>>, <<6, 6, 4>>}} :
     p.policy[1].multiple = 2 => p.demand = Steady /\ (p.stock = Low => p.policy[1].cap = NoCap)}

MCCostPlans ==
  {PlanOf(Low, Steady, <<0, 2, 0>>, {"HOLD", "ORDER_QTY"}, <<0, 0, 0>>, <<1, 0>>,
          <<NoCap, NoCap, NoCap>>)}

MCProposals ==
  {[action |-> "HOLD", quantity |-> 0],
   [action |-> "ORDER_UP_TO", quantity |-> 4], [action |-> "ORDER_UP_TO", quantity |-> 5],
   [action |-> "ORDER_QTY", quantity |-> 1], [action |-> "ORDER_QTY", quantity |-> 3]}

Hold == [action |-> "HOLD", quantity |-> 0]
Order(q) == [action |-> "ORDER_QTY", quantity |-> q]
MCCostProposals == <<{Hold, Order(1)}, {Hold}, {Hold, Order(1), Order(3)}>>

MCChargeTypes == {"FREIGHT", "INSURANCE", "STORAGE"}

\* The day of the plan is 10, the cost is judged on day 12.
Today == 10
Judgment == 12
Document(collected) == [collected |-> collected, published |-> None, from |-> 0, to |-> None]

Record(domain, country, key, from, value) ==
  [domain |-> domain, country |-> country, key |-> key, from |-> from, to |-> None,
   doc |-> Document(1), value |-> value]

Dollar(from, rate) == Record("CUSTOMS_FX", "JP", "JPY", from, [of |-> "USD", rate |-> rate])
TaxOf(rate, recovery) == Record("IMPORT_TAX_PROFILE", "JP", "V101", 0,
                                [rate |-> rate, recovery |-> recovery, onDuty |-> TRUE])
Tax(recovery) == TaxOf(10, recovery)
Freight(amount, currency, least, most) ==
  Record("LANE_CHARGE", "JP", "SEA", 0,
         [type |-> "FREIGHT", basis |-> "SHIPMENT", amount |-> amount, currency |-> currency,
          least |-> least, most |-> most, customs |-> TRUE])
Class(item) == Record("ITEM_CLASSIFICATION", "JP", item, 0, [code |-> "HS1"])
Origin(item) == Record("ITEM_ORIGIN", "KR", item, 0, [country |-> "KR"])
Weight(item, kg) == Record("ITEM_PHYSICAL_ATTRIBUTE", "KR", item, 0, [weight |-> kg, uom |-> "KG"])
ByValue(origin, rate) ==
  Record("CUSTOMS_TARIFF", "JP", "HS1", 0,
         [origin |-> origin, method |-> "AD_VALOREM", rate |-> rate, specific |-> None,
          least |-> None, most |-> None, currency |-> "JPY", rounding |-> "HALF_UP"])
ByQuantity ==
  Record("CUSTOMS_TARIFF", "JP", "HS1", 0,
         [origin |-> "KR", method |-> "COMPOUND", rate |-> 5, specific |-> 2,
          least |-> 2, most |-> 6, currency |-> "JPY", rounding |-> "HALF_UP"])

Items == {"A", "B", "C"}
Base ==
  {Dollar(0, 120), Dollar(5, 150), Dollar(20, 90), Tax("VERIFIED_RECOVERABLE"),
   Freight(5, "USD", None, None), ByValue(None, 8)}
  \cup {Class(i) : i \in Items} \cup {Origin(i) : i \in Items}
  \cup {Weight("A", 1), Weight("B", 3), Weight("C", 0)}

Later(r) == [r EXCEPT !.doc = Document(13)]
Without(domain) == {r \in Base : r.domain # domain}

\* What a revision may look like.
Contents ==
  {Base,
   Without("IMPORT_TAX_PROFILE") \cup {Tax("UNVERIFIED")},
   Without("IMPORT_TAX_PROFILE") \cup {Tax("VERIFIED_NONRECOVERABLE")},
   Without("IMPORT_TAX_PROFILE") \cup {TaxOf(101, "VERIFIED_RECOVERABLE")},
   Without("CUSTOMS_FX"), Without("LANE_CHARGE"), Without("ITEM_ORIGIN"),
   Base \ {Class("B")},
   Without("CUSTOMS_TARIFF") \cup {ByQuantity},
   Base \cup {ByQuantity},
   Without("CUSTOMS_TARIFF") \cup {Later(ByValue(None, 8))},
   Base \cup {Later(Dollar(8, 130))},
   Base \cup {[Dollar(5, 130) EXCEPT !.doc = None]},
   Without("LANE_CHARGE") \cup {Freight(9, "JPY", None, 8)},
   Without("LANE_CHARGE") \cup {Freight(1, "JPY", 4, None)},
   Without("LANE_CHARGE") \cup {Freight(5, "EUR", None, None)}}

Insured(amount) == [type |-> "INSURANCE", amount |-> amount, currency |-> "JPY", customs |-> FALSE,
                    gross |-> TRUE, recoverable |-> FALSE]
Line(item, quantity, value, charges) ==
  [item |-> item, quantity |-> quantity, value |-> value, currency |-> "USD", charges |-> charges]
ShipmentOf(lines, basis, rounding) ==
  [lines |-> lines, site |-> "V101", country |-> "JP", lane |-> "SEA", currency |-> "JPY",
   basis |-> basis, rounding |-> rounding, exempt |-> {"STORAGE"}, judgment |-> Judgment]

UnitTemplate(value) == ShipmentOf(<<Line("A", 1, value, {Insured(1)})>>, "QUANTITY", "HALF_UP")
Rates == [holding |-> 1, backorder |-> 5, fixed |-> 2, variable |-> 1]

ClaimOf(content, template, profile) ==
  [input |-> [template |-> template, content |-> content, valuation |-> Today,
              judgment |-> Judgment, currency |-> "JPY", profile |-> Rates],
   content |-> content, asOf |-> Today, profile |-> profile]

MCClaims ==
  {ClaimOf(c, UnitTemplate(7), Rates) : c \in Contents}
  \cup {ClaimOf(Base, None, Rates), ClaimOf(Base, UnitTemplate(7), [Rates EXCEPT !.holding = 2])}

\* Of the same revision with another unit value, and of another revision.
MCOtherClaims ==
  {ClaimOf(Base, UnitTemplate(6), Rates),
   ClaimOf(Without("LANE_CHARGE") \cup {Freight(1, "JPY", 4, None)}, UnitTemplate(7), Rates)}

\* The revision of another day, and another revision.
MCRevisions ==
  {[content |-> Base, valuation |-> 3, environment |-> "DEVELOPMENT"],
   [content |-> Base, valuation |-> Today, environment |-> "PRODUCTION"]}

\* Two items, three, none that weighs anything, and no charge of its own.
Consigned(content, lines, basis, mode) ==
  [revision |-> [content |-> content, valuation |-> Today, environment |-> "DEVELOPMENT"],
   shipment |-> ShipmentOf(lines, basis, mode)]
Two == <<Line("A", 1, 7, {Insured(1)}), Line("B", 2, 5, {Insured(0)})>>
Three == <<Line("A", 2, 3, {Insured(1)}), Line("B", 1, 3, {Insured(2)}),
           Line("C", 2, 4, {Insured(1)})>>
Weightless == <<Line("C", 1, 1, {Insured(1)}), Line("C", 3, 2, {Insured(1)})>>
Bare == <<Line("A", 1, 4, {})>>

MCConsignments ==
  {Consigned(Base, lines, basis, mode) :
     lines \in {Two, Three, Weightless, Bare},
     basis \in {"CUSTOMS_VALUE", "QUANTITY", "WEIGHT"}, mode \in {"HALF_UP", "DOWN"}}
  \cup {Consigned(c, Two, "QUANTITY", "HALF_UP") : c \in Contents}
=============================================================================
