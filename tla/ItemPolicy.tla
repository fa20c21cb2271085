------------------------------ MODULE ItemPolicy ------------------------------
(***************************************************************************)
(* The effective policy of one item: derived from its classification and    *)
(* the configuration (inventory_contracts/effective_policy_v2.py, and       *)
(* classification.py for the contract 1.0.0), validated again wherever it   *)
(* is read, and admitted for one strategy (application/effective_policy.py).*)
(*                                                                          *)
(* A hash stands for what it is taken of: PolicyHash, and a configuration's *)
(* name, which the module that enumerates configurations makes unique.      *)
(* Service levels are in hundredths of a percent.                           *)
(***************************************************************************)
EXTENDS ItemClassification

Strategies   == {"MATHEMATICAL", "PREDICTIVE_ML", "DEEP_RL"}
OrderActions == {"ALLOW", "REVIEW", "BLOCK"}
Levels       == 5000..9999
SampleCounts == 1..10000

-----------------------------------------------------------------------------
(* The configuration (validate_config).                                     *)

SwitchValid(axis) ==
  /\ axis.mode \in {"SHADOW", "OPERATIONAL"}
  /\ axis.enabled \/ axis.mode = "SHADOW"

RulesValid(c) ==
  /\ c.abc.lookback \in 13..156 /\ {c.abc.a, c.abc.b} \subseteq 1..99 /\ c.abc.a < c.abc.b
  /\ c.xyz.lookback \in 13..156 /\ 0 <= c.xyz.x /\ c.xyz.x < c.xyz.y
  /\ c.ved.default \in AxisClasses.VED

MatrixValid(c) ==
  /\ \A s \in Segments : /\ c.cells[s].level \in Levels
                         /\ c.cells[s].review \in 1..13
                         /\ c.cells[s].strategy \in Strategies
  /\ \A g \in AxisClasses.VED : c.floor[g] \in Levels
  /\ c.floor["V"] >= c.floor["E"] /\ c.floor["E"] >= c.floor["D"]

V1ConfigValid(c) == RulesValid(c) /\ MatrixValid(c)

OverlaysValid(o) ==
  /\ o.fsn \in [AxisClasses.FSN -> OrderActions]
  /\ o.sde \in [AxisClasses.SDE -> {"P50", "P90"}]
  /\ o.hml \in [AxisClasses.HML -> {"AUTO", "STANDARD", "HIGH_VALUE"}]
  /\ o.plc \in [AxisClasses.PLC -> OrderActions]

FsnRulesValid(fsn) ==
  /\ SwitchValid(fsn)
  /\ fsn.lookback \in 13..156 /\ fsn.fast \in 1..100 /\ fsn.nonMoving \in 4..fsn.lookback

SdeRulesValid(sde) ==
  /\ SwitchValid(sde)
  /\ 0 <= sde.difficultLead /\ sde.difficultLead < sde.scarceLead
  /\ sde.scarceSuppliers \in 1..100
  /\ 0 <= sde.scarceRate /\ sde.scarceRate < sde.difficultRate /\ sde.difficultRate <= 100
  /\ sde.minSamples \in SampleCounts

HmlRulesValid(hml) ==
  /\ SwitchValid(hml)
  /\ 0 < hml.medium /\ hml.medium < hml.high /\ hml.high < 100 /\ hml.maxAge \in 1..156

PlcRulesValid(plc) ==
  /\ SwitchValid(plc) /\ plc.mode = "SHADOW"
  /\ plc.introduction \in 1..52 /\ plc.growth \in plc.introduction + 1 .. 156
  /\ plc.declineHorizon \in 1..104

V2ConfigValid(c) ==
  /\ V1ConfigValid(c)
  /\ FsnRulesValid(c.fsn) /\ SdeRulesValid(c.sde)
  /\ HmlRulesValid(c.hml) /\ PlcRulesValid(c.plc)
  /\ OverlaysValid(c.overlays)

ConfigValid(c) ==
  \/ c.type = "ABC_XYZ" /\ V1ConfigValid(c)
  \/ c.type = "SEVEN_AXIS" /\ V2ConfigValid(c)

-----------------------------------------------------------------------------
(* Derivation.                                                              *)

\* The level, cycle and strategy of the item's cell, with the floor of its VED class.
BasePolicy(item, vedClass, c) ==
  IF item.status = "UNCLASSIFIED"
  THEN [level |-> 0, review |-> 0, strategy |-> None, source |-> "UNCLASSIFIED"]
  ELSE LET cell   == c.cells[item.segment]
           raised == vedClass # None /\ c.floor[vedClass] > cell.level
       IN [level |-> IF raised THEN c.floor[vedClass] ELSE cell.level,
           review |-> cell.review, strategy |-> cell.strategy,
           source |-> IF raised THEN "ABC_XYZ_POLICY_MATRIX_WITH_VED_FLOOR"
                                ELSE "ABC_XYZ_POLICY_MATRIX"]

DeriveV1(item, c) ==
  LET base == BasePolicy(item, item.ved.class, c)
  IN [version |-> "1.0.0", config |-> c.name, base |-> base,
      eligible |-> base.strategy = "MATHEMATICAL"]

\* What each effective axis puts into the policy; ABC, XYZ and VED act before.
Effect(axis, result, overlays) ==
  CASE axis \in {"ABC", "XYZ", "VED"} -> <<>>
    [] axis = "FSN" -> <<overlays.fsn[result.class]>>
    [] axis = "PLC" -> <<overlays.plc[result.class]>>
    [] axis = "SDE" -> <<overlays.sde[result.class],
                         IF overlays.sde[result.class] = "P50" THEN result.days[1]
                                                               ELSE result.days[2]>>
    [] axis = "HML" -> <<overlays.hml[result.class]>>

Projection(axes, overlays) ==
  [a \in EffectiveAxes(axes) |->
     [class |-> axes[a].class, effect |-> Effect(a, axes[a], overlays)]]

\* The strictest of the actions that the projected movement and lifecycle name.
StrictestAction(projection) ==
  LET named == {projection[a].effect[1] : a \in DOMAIN projection \cap {"FSN", "PLC"}}
  IN IF "BLOCK" \in named THEN "BLOCK"
     ELSE IF "REVIEW" \in named THEN "REVIEW" ELSE "ALLOW"

InOrder(names) ==
  LET named(k) == IF AxisOrder[k] \in names THEN <<AxisOrder[k]>> ELSE <<>>
  IN named(1) \o named(2) \o named(3) \o named(4) \o named(5) \o named(6) \o named(7)

AdjustmentReasons(projection, source) ==
  LET adjusting == InOrder(DOMAIN projection \ {"ABC", "XYZ", "VED"})
  IN (IF source = "ABC_XYZ_POLICY_MATRIX_WITH_VED_FLOOR"
      THEN << <<"VED_SERVICE_LEVEL_FLOOR_APPLIED">> >> ELSE <<>>)
     \o [k \in DOMAIN adjusting |-> <<adjusting[k], projection[adjusting[k]].effect[1]>>]

\* The reasons that do not come from an unavailable axis.
PolicyGates(source, strategy, action, approval) ==
  (IF source = "UNCLASSIFIED" THEN << <<"BASE_CLASSIFICATION_UNCLASSIFIED">> >> ELSE <<>>)
  \o (IF strategy \notin {None, "MATHEMATICAL"} THEN << <<"STRATEGY", strategy>> >> ELSE <<>>)
  \o (IF action # "ALLOW" THEN << <<"ORDER_ACTION", action>> >> ELSE <<>>)
  \o (IF approval \in {"STANDARD", "HIGH_VALUE"} THEN << <<"HML_APPROVAL", approval>> >>
      ELSE <<>>)

ApprovalOf(projection) ==
  IF "HML" \in DOMAIN projection THEN projection["HML"].effect[1] ELSE None
LeadTimeOf(projection) ==
  IF "SDE" \in DOMAIN projection THEN projection["SDE"].effect ELSE <<>>

\* Defect: an operational axis without evidence does not stop the item.
EligibleUnverified(item, axes, strategy) ==
  item.status = "CLASSIFIED" /\ strategy = "MATHEMATICAL"

\* Automatic use asks for every operational axis to be classified.
Eligible(item, axes, strategy) ==
  /\ item.status = "CLASSIFIED"
  /\ Operational(axes) \subseteq EffectiveAxes(axes)
  /\ strategy = "MATHEMATICAL"

DeriveV2(item, axes, c) ==
  LET projection  == Projection(axes, c.overlays)
      ved         == IF "VED" \in DOMAIN projection THEN projection["VED"].class ELSE None
      base        == BasePolicy(item, ved, c)
      eligible    == Eligible(item, axes, base.strategy)
      action      == IF eligible THEN StrictestAction(projection) ELSE "BLOCK"
      approval    == ApprovalOf(projection)
      publish     == eligible /\ action = "ALLOW"
      order       == publish /\ approval \in {None, "AUTO"}
      unavailable == InOrder(Operational(axes) \ EffectiveAxes(axes))
  IN [version |-> "2.0.0", config |-> c.name, base |-> base, eligible |-> eligible,
      calculation |-> eligible /\ action # "BLOCK", action |-> action,
      execution |-> order, noOrder |-> action = "BLOCK", leadTime |-> LeadTimeOf(projection),
      approval |-> approval, publish |-> publish, order |-> order,
      projection |-> projection, adjustments |-> AdjustmentReasons(projection, base.source),
      gates |-> [k \in DOMAIN unavailable |->
                   <<"OPERATIONAL", unavailable[k], axes[unavailable[k]].status>>]
                \o PolicyGates(base.source, base.strategy, action, approval)]

\* What effective_policy_hash seals: everything but the configuration it came from.
PolicyHash(policy) == [policy EXCEPT !.config = None]

-----------------------------------------------------------------------------
(* Validation, from the policy alone.                                       *)

BaseValid(base) ==
  IF base.source = "UNCLASSIFIED"
  THEN base.level = 0 /\ base.review = 0 /\ base.strategy = None
  ELSE base.level \in Levels /\ base.review \in 1..13 /\ base.strategy # None

ValidV1(policy) ==
  /\ BaseValid(policy.base)
  /\ policy.eligible = (policy.base.strategy = "MATHEMATICAL")

\* The gates of unavailable axes come first: as many of them as there are.
ValidV2(policy) ==
  LET expected == IF policy.eligible THEN StrictestAction(policy.projection) ELSE "BLOCK"
      ofAxes   == {k \in DOMAIN policy.gates : policy.gates[k][1] = "OPERATIONAL"}
      fromAxes == SubSeq(policy.gates, 1, Cardinality(ofAxes))
      place(a) == CHOOSE k \in DOMAIN AxisOrder : AxisOrder[k] = a
  IN /\ BaseValid(policy.base)
     /\ policy.base.source = "UNCLASSIFIED" => ~policy.eligible
     /\ policy.action = expected
     /\ policy.calculation = (policy.eligible /\ expected # "BLOCK")
     /\ policy.noOrder = (expected = "BLOCK")
     /\ policy.publish = (policy.eligible /\ expected = "ALLOW")
     /\ policy.order = (policy.publish /\ policy.approval \in {None, "AUTO"})
     /\ policy.execution = policy.order
     /\ policy.leadTime = LeadTimeOf(policy.projection)
     /\ policy.approval = ApprovalOf(policy.projection)
     /\ policy.adjustments = AdjustmentReasons(policy.projection, policy.base.source)
     /\ policy.gates = fromAxes \o PolicyGates(policy.base.source, policy.base.strategy,
                                               expected, policy.approval)
     /\ \A j, k \in DOMAIN fromAxes : j < k => place(fromAxes[j][2]) <= place(fromAxes[k][2])
     /\ \/ policy.eligible \/ fromAxes # <<>> \/ policy.base.source = "UNCLASSIFIED"
        \/ policy.base.strategy \notin {None, "MATHEMATICAL"}

Valid(policy) == IF policy.version = "2.0.0" THEN ValidV2(policy) ELSE ValidV1(policy)

-----------------------------------------------------------------------------
(* Admission for a run under configuration c.                               *)

Rejection(policy, c, purpose, strategy, approved) ==
  LET v2 == policy.version = "2.0.0"
  IN First(<< <<~Valid(policy), "ITEM_POLICY_SEMANTICS_INVALID">>,
       <<policy.config # c.name, "ITEM_POLICY_CONFIG_HASH_MISMATCH">>,
       <<policy.base.strategy = None, "ITEM_POLICY_UNCLASSIFIED">>,
       <<policy.base.strategy # strategy
           /\ ~(v2 /\ purpose = "SHADOW" /\ strategy = "DEEP_RL"),
         "ITEM_POLICY_STRATEGY_MISMATCH">>,
       <<purpose = "OPERATIONAL" /\ ~policy.eligible,
         "ITEM_POLICY_NOT_OPERATIONALLY_ELIGIBLE">>,
       <<purpose = "OPERATIONAL" /\ strategy # "MATHEMATICAL",
         "ITEM_POLICY_OPERATIONAL_STRATEGY_BLOCKED">>,
       <<approved /\ strategy = "MATHEMATICAL", "ITEM_POLICY_UNEXPECTED_MODEL_APPROVAL">>,
       <<~approved /\ strategy # "MATHEMATICAL",
         "ITEM_POLICY_SHADOW_MODEL_APPROVAL_REQUIRED">>,
       <<purpose = "OPERATIONAL" /\ v2 /\ ~policy.calculation,
         "ITEM_POLICY_RECOMMENDATION_CALCULATION_BLOCKED">> >>)

\* What the run is given; the contract 1.0.0 says nothing of gates, of lead times or
\* of automatic steps.
Admitted(policy, purpose, strategy) ==
  LET v2 == policy.version = "2.0.0"
  IN [purpose |-> purpose, strategy |-> strategy, base |-> policy.base,
      version |-> policy.version, config |-> policy.config, hash |-> PolicyHash(policy),
      action |-> IF v2 THEN policy.action ELSE None,
      approval |-> IF v2 THEN policy.approval ELSE None,
      leadTime |-> IF v2 THEN policy.leadTime ELSE <<>>,
      calculation |-> v2 /\ policy.calculation,
      noOrder |-> v2 /\ policy.noOrder,
      publish |-> v2 /\ purpose = "OPERATIONAL" /\ policy.publish,
      order   |-> v2 /\ purpose = "OPERATIONAL" /\ policy.order]

=============================================================================
