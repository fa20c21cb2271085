-------------------------- MODULE ItemClassification --------------------------
(***************************************************************************)
(* The classification algorithms: ABC by revenue and XYZ by demand          *)
(* variability over one portfolio (classify_inventory/abc_xyz.py), the five *)
(* optional axes of one item (inventory_contracts/seven_axis.py) and their  *)
(* assembly (_apply_seven_axis_results).                                    *)
(*                                                                          *)
(* A portfolio is a function from items to metrics.  Items are numbers, in  *)
(* the order of their identifiers.  Shares, ratios and rates are percents,  *)
(* weeks are numbers, and NoWeek stands for a date that is not given.       *)
(***************************************************************************)
EXTENDS Integers, Sequences, FiniteSets, FiniteSetsExt, Functions

None   == "NONE"
NoWeek == 0

AxisOrder    == <<"ABC", "XYZ", "VED", "FSN", "SDE", "HML", "PLC">>
Axes         == {AxisOrder[k] : k \in DOMAIN AxisOrder}
AxisClasses  ==
  [ABC |-> {"A", "B", "C"}, XYZ |-> {"X", "Y", "Z"}, VED |-> {"V", "E", "D"},
   FSN |-> {"F", "S", "N"}, SDE |-> {"S", "D", "E"}, HML |-> {"H", "M", "L"},
   PLC |-> {"PRE_LAUNCH", "INTRODUCTION", "GROWTH", "MATURE", "DECLINE",
            "SERVICE_ONLY", "DISCONTINUED"}]
Segments == AxisClasses.ABC \X AxisClasses.XYZ

\* A chain of early returns: the outcome of the first condition that holds.
Otherwise == TRUE
First(rows) ==
  LET hits == {k \in DOMAIN rows : rows[k][1]}
  IN IF hits = {} THEN None ELSE rows[Min(hits)][2]

-----------------------------------------------------------------------------
(* ABC and XYZ.  "rows" stands for the rows and the weeks they are from.     *)

AbcReason(m) ==
  First(<< <<m.abc.invalid > 0,  "INVALID_ABC_SOURCE_RECORD">>,
           <<m.abc.rows = 0,     "INSUFFICIENT_ABC_HISTORY">>,
           <<m.abc.revenue <= 0, "MISSING_REVENUE">> >>)

XyzReason(m) ==
  First(<< <<m.xyz.invalid > 0, "INVALID_XYZ_SOURCE_RECORD">>,
           <<m.xyz.rows = 0,    "INSUFFICIENT_XYZ_HISTORY">>,
           <<m.xyz.demand <= 0, "ZERO_MEAN_DEMAND">> >>)

CombinedReason(abc, xyz) ==
  First(<< <<<<abc, xyz>> = <<"INVALID_ABC_SOURCE_RECORD", "INVALID_XYZ_SOURCE_RECORD">>,
             "INVALID_SOURCE_RECORD">>,
           <<<<abc, xyz>> = <<"INSUFFICIENT_ABC_HISTORY", "INSUFFICIENT_XYZ_HISTORY">>,
             "INSUFFICIENT_DEMAND_HISTORY">>,
           <<abc # None, abc>>, <<Otherwise, xyz>> >>)

\* The items that carry revenue evidence, and those ranked before one of them.
Candidates(p) == {i \in DOMAIN p : AbcReason(p[i]) = None}
RankedBefore(p, i) ==
  {j \in Candidates(p) : \/ p[j].abc.revenue > p[i].abc.revenue
                         \/ p[j].abc.revenue = p[i].abc.revenue /\ j < i}
Revenue(p, items) == SumFunction([i \in items |-> p[i].abc.revenue])

\* The class of a candidate by the share of revenue ranked before it.
AbcClass(p, rules, i) ==
  LET before == 100 * Revenue(p, RankedBefore(p, i))
      total  == Revenue(p, Candidates(p))
  IN First(<< <<before < rules.a * total, "A">>, <<before < rules.b * total, "B">>,
              <<Otherwise, "C">> >>)

\* The class by the squared coefficient of variation: variance over mean square,
\* both multiplied by the square of the lookback.
XyzClass(m, rules) ==
  LET square   == m.xyz.demand * m.xyz.demand
      variance == Max({0, m.xyz.squares * rules.lookback - square})
  IN First(<< <<100 * variance <= rules.x * square, "X">>,
              <<100 * variance <= rules.y * square, "Y">>, <<Otherwise, "Z">> >>)

VedResult(ved, i) ==
  IF ~ved.enabled THEN [class |-> None, from |-> "DISABLED"]
  ELSE IF i \in DOMAIN ved.assigned
       THEN [class |-> ved.assigned[i], from |-> "ASSIGNMENT_SNAPSHOT"]
       ELSE [class |-> ved.default, from |-> "DEFAULT_CLASS"]

\* The result of one item; it is CLASSIFIED when both axes are.
ClassifiedItem(p, rules, i) ==
  LET abcReason == AbcReason(p[i])
      xyzReason == XyzReason(p[i])
      abc == IF abcReason = None THEN AbcClass(p, rules.abc, i) ELSE None
      xyz == IF xyzReason = None THEN XyzClass(p[i], rules.xyz) ELSE None
      whole == abcReason = None /\ xyzReason = None
  IN [status |-> IF whole THEN "CLASSIFIED" ELSE "UNCLASSIFIED",
      abc |-> abc, xyz |-> xyz, abcReason |-> abcReason, xyzReason |-> xyzReason,
      segment |-> IF whole THEN <<abc, xyz>> ELSE <<>>,
      reason  |-> IF whole THEN None ELSE CombinedReason(abcReason, xyzReason),
      ved |-> VedResult(rules.ved, i), revenue |-> p[i].abc.revenue]

\* Why the algorithm refuses a portfolio as a whole.
Refusal(p, rules) ==
  First(<< <<DOMAIN p = {}, "CLASSIFICATION_SOURCE_EMPTY">>,
           <<~(DOMAIN rules.ved.assigned \subseteq DOMAIN p),
             "CLASSIFICATION_VED_ORPHAN_ITEM">>,
           <<Candidates(p) = {}, "CLASSIFICATION_REVENUE_EMPTY">> >>)

-----------------------------------------------------------------------------
(* The optional axes.                                                       *)

AxisResult(status, class, mode, reason) ==
  [status |-> status, class |-> class, mode |-> mode, reason |-> reason, days |-> <<>>]
Classified(class, rules) == AxisResult("CLASSIFIED", class, rules.mode, None)
Unverified(rules, reason) ==
  AxisResult(IF reason = "SYNTHETIC_SOURCE_NOT_OPERATIONAL" THEN "SYNTHETIC"
             ELSE "UNVERIFIED", None, rules.mode, reason)
NotApplicable == AxisResult("NOT_APPLICABLE", None, "SHADOW", "AXIS_DISABLED")

\* The shape of every optional axis: disabled, without evidence, or classified.
Graded(rules, reason, class) ==
  IF ~rules.enabled THEN NotApplicable
  ELSE IF reason # None THEN Unverified(rules, reason) ELSE Classified(class, rules)

\* Movement: not moving first, then fast, else slow.
ClassifyFsn(m, week, rules) ==
  LET f     == m.fsn
      since == IF f.last = NoWeek THEN rules.lookback ELSE week - f.last
  IN Graded(rules,
            First(<< <<f.status = "SYNTHETIC",  "SYNTHETIC_SOURCE_NOT_OPERATIONAL">>,
                     <<f.status # "VERIFIED" \/ f.rows = 0, "MOVEMENT_EVIDENCE_INCOMPLETE">>,
                     <<f.invalid > 0,           "MOVEMENT_EVIDENCE_INVALID">> >>),
            First(<< <<since >= rules.nonMoving, "N">>,
                     <<100 * f.positive >= rules.fast * rules.lookback, "F">>,
                     <<Otherwise, "S">> >>))

\* Supply: the evidence must be complete, and the worst of its parts decides.
SupplyComplete(s, rules) ==
  /\ s.status = "VERIFIED"
  /\ s.suppliers >= 1
  /\ s.lead >= 0
  /\ s.p50 >= 0 /\ s.p90 >= s.p50
  /\ s.onTime \in 0..100
  /\ s.samples >= rules.minSamples

ClassifySde(m, rules) ==
  LET s         == m.sde
      scarce    == \/ s.suppliers <= rules.scarceSuppliers
                   \/ s.lead >= rules.scarceLead
                   \/ s.onTime <= rules.scarceRate
      difficult == s.lead >= rules.difficultLead \/ s.onTime <= rules.difficultRate
      result    == Graded(rules,
                     First(<< <<s.status = "SYNTHETIC", "SYNTHETIC_SOURCE_NOT_OPERATIONAL">>,
                              <<~SupplyComplete(s, rules),
                                "SUPPLIER_LEAD_TIME_EVIDENCE_INCOMPLETE">> >>),
                     First(<< <<scarce, "S">>, <<difficult, "D">>, <<Otherwise, "E">> >>))
  IN IF result.status = "CLASSIFIED" THEN [result EXCEPT !.days = <<s.p50, s.p90>>]
     ELSE result

\* Unit cost: it is dated, and of use while it is not older than the rules say.
CostAge(m, week) == week - m.hml.asOf
Fresh(m, week, rules) == m.hml.asOf # NoWeek /\ CostAge(m, week) \in 0..rules.maxAge
VerifiedCost(m) == m.hml.status = "VERIFIED" /\ m.hml.cost > 0 /\ m.hml.currency

\* Defect: the thresholds are made from every verified cost, however old.
CostBasisAnyAge(p, week, rules) == {i \in DOMAIN p : VerifiedCost(p[i])}

\* The items whose costs make the thresholds, and the cost of a nearest rank.
CostBasis(p, week, rules) ==
  {i \in DOMAIN p : VerifiedCost(p[i]) /\ Fresh(p[i], week, rules)}
NearestRank(p, basis, percentile) ==
  LET rank    == Max({1, (percentile * Cardinality(basis) + 99) \div 100})
      cost(i) == p[i].hml.cost
  IN CHOOSE v \in {cost(i) : i \in basis} :
       /\ Cardinality({i \in basis : cost(i) < v}) < rank
       /\ rank <= Cardinality({i \in basis : cost(i) <= v})
Thresholds(p, week, rules) ==
  LET basis == CostBasis(p, week, rules)
  IN IF basis = {} THEN <<>>
     ELSE <<NearestRank(p, basis, rules.medium), NearestRank(p, basis, rules.high)>>

ClassifyHml(m, week, thresholds, rules) ==
  LET c == m.hml
      reason ==
        First(<< <<c.status = "SYNTHETIC",         "SYNTHETIC_SOURCE_NOT_OPERATIONAL">>,
                 <<c.asOf = NoWeek,                "INVENTORY_UNIT_COST_AS_OF_MISSING">>,
                 <<CostAge(m, week) < 0,           "INVENTORY_UNIT_COST_FROM_FUTURE">>,
                 <<CostAge(m, week) > rules.maxAge, "INVENTORY_UNIT_COST_STALE">>,
                 <<~VerifiedCost(m) \/ thresholds = <<>>,
                   "INVENTORY_UNIT_COST_EVIDENCE_INCOMPLETE">> >>)
  IN Graded(rules, reason,
            IF reason # None THEN None
            ELSE First(<< <<c.cost >= thresholds[2], "H">>,
                          <<c.cost >= thresholds[1], "M">>, <<Otherwise, "L">> >>))

\* Lifecycle: the later stage wins where dates and status disagree.
LifecycleStage(l, week, rules) ==
  LET ending == l.productionEnd # NoWeek
      age    == week - l.introduced
  IN First(<< <<l.code = "DISCONTINUED" \/ week >= l.serviceEnd, "DISCONTINUED">>,
              <<l.code = "SERVICE_ONLY" \/ (ending /\ week >= l.productionEnd),
                "SERVICE_ONLY">>,
              <<age < 0, "PRE_LAUNCH">>,
              <<age < rules.introduction, "INTRODUCTION">>,
              <<age < rules.growth, "GROWTH">>,
              <<ending /\ l.productionEnd - week <= rules.declineHorizon, "DECLINE">>,
              <<Otherwise, "MATURE">> >>)

ClassifyPlc(m, week, rules) ==
  LET l == m.plc
      chronological == /\ l.serviceEnd >= l.introduced
                       /\ l.productionEnd # NoWeek
                            => l.productionEnd \in l.introduced .. l.serviceEnd
      stage  == LifecycleStage(l, week, rules)
      result == Graded(rules,
        First(<< <<l.status = "UNVERIFIED" \/ NoWeek \in {l.introduced, l.serviceEnd},
                   "LIFECYCLE_EVIDENCE_INCOMPLETE">>,
                 <<~chronological, "LIFECYCLE_CHRONOLOGY_INVALID">>,
                 <<l.code \notin {"ACTIVE", "SERVICE_ONLY", "DISCONTINUED"},
                   "LIFECYCLE_STATUS_UNSUPPORTED">> >>), stage)
  IN IF result.status = "CLASSIFIED" /\ l.status = "SYNTHETIC"
     THEN AxisResult("SYNTHETIC", stage, rules.mode, "SYNTHETIC_SOURCE_SHADOW_ONLY")
     ELSE result

-----------------------------------------------------------------------------
(* The seven results of one item.                                           *)

BaseAxis(class, reason) ==
  IF class # None THEN AxisResult("CLASSIFIED", class, "OPERATIONAL", None)
  ELSE AxisResult("UNCLASSIFIED", None, "OPERATIONAL", reason)

AxisResults(p, item, i, week, rules) ==
  [ABC |-> BaseAxis(item.abc, item.abcReason),
   XYZ |-> BaseAxis(item.xyz, item.xyzReason),
   VED |-> IF rules.ved.enabled THEN BaseAxis(item.ved.class, None) ELSE NotApplicable,
   FSN |-> ClassifyFsn(p[i], week, rules.fsn),
   SDE |-> ClassifySde(p[i], rules.sde),
   HML |-> ClassifyHml(p[i], week, Thresholds(p, week, rules.hml), rules.hml),
   PLC |-> ClassifyPlc(p[i], week, rules.plc)]

Operational(axes) == {a \in Axes : axes[a].mode = "OPERATIONAL"}
\* Defect: a classified axis is effective in either mode.
EffectiveAxesAnyMode(axes) == {a \in Axes : axes[a].status = "CLASSIFIED"}

\* An axis acts on the policy when it is operational and classified.
EffectiveAxes(axes) == {a \in Operational(axes) : axes[a].status = "CLASSIFIED"}

=============================================================================
