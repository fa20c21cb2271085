------------------------ MODULE ClassificationSnapshot ------------------------
(***************************************************************************)
(* The life of a classification: the source loads what the closed weeks     *)
(* hold (PostgresClassificationSource), build_snapshot classifies it and    *)
(* derives every item's policy, the publisher validates the document again  *)
(* before it writes (_validate_publishable_snapshot; the writing itself is  *)
(* ClassificationStage), and a run admits one item's policy.  In between,   *)
(* evidence, weeks and configuration move on.                               *)
(*                                                                          *)
(* The source fills ABC, XYZ, FSN and PLC.  It has no table for SDE and HML *)
(* yet: their evidence is what the metric contract admits.  The documents   *)
(* are not edited on their way, so seals and ids are left out.  A window is  *)
(* a number of weeks that ends with the last closed one.                     *)
(***************************************************************************)
EXTENDS ItemPolicy, Functions

CONSTANTS
  Portfolios,     \* the portfolios a site starts with
  Revisions,      \* [axis, value]: the evidence an item's axis can change to
  Configs,        \* the published configurations
  FirstWeek,      \* the week closed at first
  MaxWeek,        \* bound: the last week that is closed
  Reopened,       \* weeks of the past that a correction can reopen
  MaxChanges,     \* bound: changes of the world, all kinds together
  Null,           \* bound: a number no row holds, for a column that is NULL
  Nothing         \* no snapshot, no admission

ASSUME ConfigsAssumption ==
  /\ \A c \in Configs : /\ ConfigValid(c)
                        /\ c.ved.assigned \in [DOMAIN c.ved.assigned -> AxisClasses.VED]
  /\ \A c, d \in Configs : c.name = d.name => c = d

\* What the source tables can hold of an item: closed rows, and the evidence of the
\* axes that have one.
AxisEvidence ==
  [demand |-> {rows \in SUBSET [weeks : SUBSET Nat, qty : Int, price : Int] : IsFiniteSet(rows)},
   sde |-> [status : STRING, suppliers : Int, lead : Int, p50 : Int, p90 : Int, onTime : Int,
            samples : Int],
   hml |-> [status : STRING, cost : Int, currency : BOOLEAN, asOf : Int],
   plc |-> [status : STRING, profile : BOOLEAN, introduced : Int, productionEnd : Int,
            serviceEnd : Int, code : STRING]]
EvidenceSound(e) ==
  /\ DOMAIN e = DOMAIN AxisEvidence
  /\ e = [a \in DOMAIN e |-> e[a]]
  /\ \A a \in DOMAIN AxisEvidence : e[a] \in AxisEvidence[a]

\* Items are numbers, as are weeks; a revision is evidence of its axis.
ASSUME EvidenceAssumption ==
  /\ \A p \in Portfolios : /\ IsFiniteSet(DOMAIN p) /\ DOMAIN p \subseteq Int
                           /\ p = [i \in DOMAIN p |-> p[i]]
                           /\ \A i \in DOMAIN p : EvidenceSound(p[i])
  /\ \A r \in Revisions : r.axis \in DOMAIN AxisEvidence /\ r.value \in AxisEvidence[r.axis]
  /\ {FirstWeek, MaxWeek} \subseteq Nat

VARIABLES
  evidence,       \* what the source tables hold of each active item
  week,           \* the latest week with a close
  open,           \* closed weeks that a correction has reopened
  config,         \* the active configuration of the site
  approved,       \* the VED assignments the configurations name are approved
  changes,        \* changes of the world so far
  snapshot,       \* the last document built, Nothing before or after a refusal
  verdict,        \* what the publisher said of it, None before
  admission       \* the item admitted in the last step, if it was an admission

world == <<evidence, week, open, config, approved, changes>>
snapshotVars == <<world, snapshot, verdict, admission>>

-----------------------------------------------------------------------------
(* Loading.                                                                 *)

Window(lookback) == week - lookback + 1 .. week
Sealed(lookback) == Window(lookback) \cap open = {}
FsnSealed        == config.fsn.enabled /\ Sealed(config.fsn.lookback)

\* The assignments are read under the hash the configuration names.
VedBinding ==
  <<config.ved.enabled /\ ~approved, "CLASSIFICATION_VED_SNAPSHOT_MISMATCH">>

LoadRefusal ==
  First(<< <<week \in open, "CLASSIFICATION_ACTUAL_CLOSE_NOT_TERMINAL">>,
           <<\/ ~Sealed(config.abc.lookback) \/ ~Sealed(config.xyz.lookback)
             \/ config.fsn.enabled /\ config.fsn.mode = "OPERATIONAL" /\ ~FsnSealed,
             "CLASSIFICATION_ACTUAL_LOOKBACK_NOT_FULLY_SEALED">>,
           VedBinding >>)

\* The weeks whose closes the document is bound to: a movement window that is not
\* sealed is not among them.
SourceLineage ==
  Max({config.abc.lookback, config.xyz.lookback}
      \cup (IF FsnSealed THEN {config.fsn.lookback} ELSE {}))

\* What ITEM_METRICS_SQL makes of the closed rows of one item in a window.  A
\* row is one quantity and price in each of its weeks; Null counts as zero.
Given(x)            == IF x = Null THEN 0 ELSE x
Refused(x)          == x = Null \/ x < 0
RowCount(rows, over) == SumFunction([r \in rows |-> Cardinality(r.weeks \cap over)])
WeekDemand(rows, w)  ==
  SumFunction([r \in {x \in rows : w \in x.weeks} |-> Given(r.qty)])
ObservedWeeks(rows, over) == over \cap UNION {r.weeks : r \in rows}

AbcEvidence(rows, over) ==
  [rows |-> RowCount(rows, over),
   invalid |-> RowCount({r \in rows : Refused(r.qty) \/ Refused(r.price)}, over),
   revenue |-> SumFunction([r \in rows |-> Cardinality(r.weeks \cap over)
                                            * Given(r.qty) * Given(r.price)])]
XyzEvidence(rows, over) ==
  [rows |-> RowCount(rows, over),
   invalid |-> RowCount({r \in rows : Refused(r.qty)}, over),
   demand  |-> SumFunction([w \in ObservedWeeks(rows, over) |-> WeekDemand(rows, w)]),
   squares |-> SumFunction([w \in ObservedWeeks(rows, over) |->
                              WeekDemand(rows, w) * WeekDemand(rows, w)])]
FsnEvidence(rows, over) ==
  LET positive == {w \in ObservedWeeks(rows, over) : WeekDemand(rows, w) > 0}
      invalid  == RowCount({r \in rows : Refused(r.qty)}, over)
      verified == FsnSealed /\ RowCount(rows, over) > 0 /\ invalid = 0
  IN [rows |-> RowCount(rows, over), invalid |-> invalid, positive |-> Cardinality(positive),
      last |-> IF positive = {} THEN NoWeek ELSE Max(positive),
      status |-> IF verified THEN "VERIFIED" ELSE "UNVERIFIED"]

FsnLookback ==
  IF "lookback" \in DOMAIN config.fsn THEN config.fsn.lookback
  ELSE Max({config.abc.lookback, config.xyz.lookback})

\* The metric of one item; a lifecycle is synthetic when its profile is stated.
Loaded(e) ==
  [abc |-> AbcEvidence(e.demand, Window(config.abc.lookback)),
   xyz |-> XyzEvidence(e.demand, Window(config.xyz.lookback)),
   fsn |-> FsnEvidence(e.demand, Window(FsnLookback)),
   sde |-> e.sde, hml |-> e.hml,
   plc |-> [e.plc EXCEPT !.status = IF e.plc.profile THEN "SYNTHETIC" ELSE "UNVERIFIED"]]

Metrics == [i \in DOMAIN evidence |-> Loaded(evidence[i])]

-----------------------------------------------------------------------------
(* build_snapshot.                                                          *)

\* Every axis states one of three kinds of evidence, a synthetic lifecycle its profile.
MetricsAdmitted(p) ==
  \A i \in DOMAIN p :
    /\ {p[i].fsn.status, p[i].sde.status, p[i].hml.status, p[i].plc.status}
         \subseteq {"VERIFIED", "UNVERIFIED", "SYNTHETIC"}
    /\ p[i].plc.status = "SYNTHETIC" => p[i].plc.profile

\* The lineage the document must have: the source decides by the seal, the builder
\* by whether the movement of any item is verified.
LineageOf(p, c) ==
  Max({c.abc.lookback, c.xyz.lookback}
      \cup (IF /\ c.fsn.enabled
               /\ \/ c.fsn.mode = "OPERATIONAL"
                  \/ \E i \in DOMAIN p : p[i].fsn.status = "VERIFIED"
            THEN {c.fsn.lookback} ELSE {}))

BuildRefusal(p, c) ==
  LET seven == c.type = "SEVEN_AXIS"
  IN First(<< <<seven /\ ~MetricsAdmitted(p), "CLASSIFICATION_V2_AXIS_SOURCE_STATUS_INVALID">>,
              <<seven /\ SourceLineage # LineageOf(p, c),
                "CLASSIFICATION_ACTUAL_LOOKBACK_LINEAGE_MISMATCH">>,
              <<Otherwise, Refusal(p, c)>> >>)

\* The widest window of the closes that any enabled axis reads.
DemandWindow(c) ==
  Max({c.abc.lookback, c.xyz.lookback}
      \cup (IF c.fsn.enabled THEN {c.fsn.lookback} ELSE {}))

\* The weeks the document names: its window and the history it was built from.
Header(c, decided) ==
  [decided |-> decided, history |-> week, lineage |-> week - SourceLineage + 1,
   start |-> week - DemandWindow(c) + 1, end |-> week + 1]

Aggregates(items) ==
  LET of(s)   == {i \in DOMAIN items : items[i].segment = s}
      reasons == {items[i].reason : i \in DOMAIN items} \ {None}
  IN [segments |-> [s \in Segments |->
                      [count |-> Cardinality(of(s)),
                       revenue |-> SumFunction([i \in of(s) |-> items[i].revenue])]],
      reasons  |-> [r \in reasons |-> Cardinality({i \in DOMAIN items : items[i].reason = r})]]

\* Defect: the windows of disabled axes are listed too.
WindowsOfAll(c) ==
  [ABC |-> c.abc.lookback, XYZ |-> c.xyz.lookback, FSN |-> c.fsn.lookback,
   SDE |-> c.sde.lookback]

\* The lookbacks of the enabled axes that have one.
Windows(c) ==
  [a \in {"ABC", "XYZ"} \cup (IF c.fsn.enabled THEN {"FSN"} ELSE {})
                        \cup (IF c.sde.enabled THEN {"SDE"} ELSE {}) |->
     CASE a = "ABC" -> c.abc.lookback [] a = "XYZ" -> c.xyz.lookback
       [] a = "FSN" -> c.fsn.lookback [] a = "SDE" -> c.sde.lookback]

\* The document of classified items: their policies, what they come to and the windows.
DocumentOf(p, c, decided, asOf, items, axes) ==
  LET seven == c.type = "SEVEN_AXIS"
  IN [type |-> c.type, config |-> c, metrics |-> p, asOf |-> asOf, sealed |-> FsnSealed,
      header |-> Header(c, decided),
      items |-> items,
      axes  |-> IF seven THEN axes ELSE <<>>,
      policies |-> [i \in DOMAIN p |-> IF seven THEN DeriveV2(items[i], axes[i], c)
                                                ELSE DeriveV1(items[i], c)],
      aggregates |-> Aggregates(items),
      windows |-> IF seven THEN Windows(c) ELSE <<>>]

\* The snapshot of metrics p: with a decision, as of the week after the history.
SnapshotOf(p, c, decided) ==
  LET asOf  == IF decided THEN week + 1 ELSE week
      items == [i \in DOMAIN p |-> ClassifiedItem(p, c, i)]
  IN DocumentOf(p, c, decided, asOf, items,
                [i \in DOMAIN p |-> AxisResults(p, items[i], i, asOf, c)])

-----------------------------------------------------------------------------
(* The publisher's validation.                                              *)

\* A document for a decision names the week before it as the end of its history.
RevisionMatches(s) ==
  s.header.decided => /\ s.header.history + 1 = s.header.end
                      /\ s.header.history + 1 = s.asOf

HeaderValid(s) ==
  /\ RevisionMatches(s)
  /\ s.header.start < s.header.end
  /\ s.asOf = IF s.header.decided THEN s.header.end ELSE s.header.end - 1
  /\ {s.config.abc.lookback, s.config.xyz.lookback} \subseteq 13..156
  /\ s.header.lineage \in s.header.start .. s.header.end - 1

AxisValid(a, r) ==
  /\ ~(r.status \in {"SYNTHETIC", "NOT_APPLICABLE"} /\ r.mode # "SHADOW")
  /\ a \in {"ABC", "XYZ"} => r.mode = "OPERATIONAL"
  /\ a = "PLC" => r.mode = "SHADOW"
  /\ \/ r.status = "CLASSIFIED" /\ r.class \in AxisClasses[a] /\ r.reason = None
     \/ /\ r.status = "SYNTHETIC" /\ r.reason # None
        /\ IF a = "PLC" THEN r.class \in AxisClasses[a] ELSE r.class = None
     \/ /\ r.status \in {"UNCLASSIFIED", "UNVERIFIED", "NOT_APPLICABLE"}
        /\ r.class = None /\ r.reason # None

\* The projection names exactly the effective axes, with their classes.
ProjectionMatches(policy, axes) ==
  /\ DOMAIN policy.projection = EffectiveAxes(axes)
  /\ \A a \in EffectiveAxes(axes) : policy.projection[a].class = axes[a].class

BaseMatches(item, axes) ==
  LET whole == axes["ABC"].status = "CLASSIFIED" /\ axes["XYZ"].status = "CLASSIFIED"
  IN /\ item.abc = axes["ABC"].class /\ item.abcReason = axes["ABC"].reason
     /\ item.xyz = axes["XYZ"].class /\ item.xyzReason = axes["XYZ"].reason
     /\ item.ved.class = IF axes["VED"].status = "CLASSIFIED" THEN axes["VED"].class ELSE None
     /\ item.status = IF whole THEN "CLASSIFIED" ELSE "UNCLASSIFIED"
     /\ item.reason = IF whole THEN None
                      ELSE CombinedReason(axes["ABC"].reason, axes["XYZ"].reason)
     /\ item.segment = IF whole THEN <<item.abc, item.xyz>> ELSE <<>>
     /\ (item.ved.from = "DISABLED") = (axes["VED"].status = "NOT_APPLICABLE")

RevenueStated(item) == item.revenue >= 0

\* An axis is on or off, and in one mode, for the whole site.
AxisUniform(s, a) ==
  /\ Cardinality({s.axes[i][a].mode : i \in DOMAIN s.axes}) = 1
  /\ \/ \A i \in DOMAIN s.axes : s.axes[i][a].status = "NOT_APPLICABLE"
     \/ \A i \in DOMAIN s.axes : s.axes[i][a].status # "NOT_APPLICABLE"

WindowsMatch(s) ==
  \A a \in {"FSN", "SDE"} :
    (a \in DOMAIN s.windows) = \E i \in DOMAIN s.axes : s.axes[i][a].status # "NOT_APPLICABLE"

\* Counts and sums of segments and reasons are made again from the items.
AggregatesMatch(s) == s.aggregates = Aggregates(s.items)

V2ItemRefusal(s, i) ==
  First(<< <<~ValidV2(s.policies[i]), "ITEM_POLICY_SEMANTICS_INVALID">>,
           <<s.policies[i].config # s.config.name, "CLASSIFICATION_V2_POLICY_BINDING_MISMATCH">>,
           <<\E a \in Axes : ~AxisValid(a, s.axes[i][a]), "CLASSIFICATION_V2_AXIS_RESULTS_INVALID">>,
           <<~ProjectionMatches(s.policies[i], s.axes[i]),
             "CLASSIFICATION_V2_AXIS_PROJECTION_MISMATCH">>,
           <<~BaseMatches(s.items[i], s.axes[i]),
             "CLASSIFICATION_V2_BASE_CLASSIFICATION_MISMATCH">>,
           <<~RevenueStated(s.items[i]), "CLASSIFICATION_SNAPSHOT_REVENUE_INVALID">> >>)

\* The header, then the first item that is refused, then the document as a whole.
V2Refusal(s) ==
  LET refused == {i \in DOMAIN s.items : V2ItemRefusal(s, i) # None}
  IN IF ~HeaderValid(s) THEN "CLASSIFICATION_V2_HEADER_INVALID"
     ELSE IF refused # {} THEN V2ItemRefusal(s, Min(refused))
     ELSE First(<< <<\E a \in Axes : ~AxisUniform(s, a), "CLASSIFICATION_V2_AXIS_RESULTS_INVALID">>,
                   <<~AggregatesMatch(s), "CLASSIFICATION_SNAPSHOT_AGGREGATE_MISMATCH">>,
                   <<~WindowsMatch(s), "CLASSIFICATION_V2_AXIS_WINDOWS_INVALID">> >>)

\* The contract 1.0.0 looks at the revenue of classified items only.
V1Refusal(s) ==
  First(<< <<\E i \in DOMAIN s.items : \/ ~ValidV1(s.policies[i])
                                       \/ s.policies[i].config # s.config.name,
             "ITEM_POLICY_SEMANTICS_INVALID">>,
           <<\E i \in DOMAIN s.items : s.items[i].status = "CLASSIFIED" /\ ~RevenueStated(s.items[i]),
             "CLASSIFICATION_SNAPSHOT_REVENUE_INVALID">>,
           <<~AggregatesMatch(s), "CLASSIFICATION_SNAPSHOT_AGGREGATE_MISMATCH">> >>)

PublisherRefusal(s) == IF s.type = "SEVEN_AXIS" THEN V2Refusal(s) ELSE V1Refusal(s)

-----------------------------------------------------------------------------
(* The environment and the steps.                                           *)

SnapshotInit ==
  /\ evidence \in Portfolios
  /\ config \in Configs
  /\ week = FirstWeek /\ open = {} /\ approved = TRUE /\ changes = 0
  /\ snapshot = Nothing /\ verdict = None /\ admission = Nothing

Changed == changes < MaxChanges /\ changes' = changes + 1
            /\ admission' = Nothing /\ UNCHANGED <<snapshot, verdict>>

Revise ==
  /\ Changed
  /\ \E i \in DOMAIN evidence, r \in Revisions :
       evidence' = [evidence EXCEPT ![i] = [@ EXCEPT ![r.axis] = r.value]]
  /\ UNCHANGED <<week, open, config, approved>>

Retire ==
  /\ Changed
  /\ \E i \in DOMAIN evidence : evidence' = Restrict(evidence, DOMAIN evidence \ {i})
  /\ UNCHANGED <<week, open, config, approved>>

Reconfigure ==
  /\ Changed
  /\ config' \in Configs \ {config}
  /\ UNCHANGED <<evidence, week, open, approved>>

CloseWeek ==
  /\ Changed
  /\ week < MaxWeek
  /\ week' = week + 1
  /\ UNCHANGED <<evidence, open, config, approved>>

Correct ==
  /\ Changed
  /\ \E w \in Reopened : open' = IF w \in open THEN open \ {w} ELSE open \cup {w}
  /\ UNCHANGED <<evidence, week, config, approved>>

\* The assignments are superseded: the configuration still names them.
Withdraw ==
  /\ Changed
  /\ approved /\ approved' = FALSE
  /\ UNCHANGED <<evidence, week, open, config>>

\* A decision week is given to a seven axis classification only.
Build ==
  /\ \E decided \in {d \in BOOLEAN : d => config.type = "SEVEN_AXIS"} :
       snapshot' = IF LoadRefusal = None /\ BuildRefusal(Metrics, config) = None
                   THEN SnapshotOf(Metrics, config, decided) ELSE Nothing
  /\ verdict' = None /\ admission' = Nothing
  /\ UNCHANGED world

Publish ==
  /\ snapshot # Nothing /\ verdict = None
  /\ verdict' = IF PublisherRefusal(snapshot) = None THEN "PUBLISHED"
                ELSE PublisherRefusal(snapshot)
  /\ UNCHANGED <<snapshot, admission>> /\ UNCHANGED world

\* A run pins a published snapshot and the configuration that is active then.
Admit ==
  /\ verdict = "PUBLISHED"
  /\ \E i \in DOMAIN snapshot.policies, purpose \in {"OPERATIONAL", "SHADOW"},
        strategy \in Strategies, model \in BOOLEAN :
       /\ Rejection(snapshot.policies[i], config, purpose, strategy, model) = None
       /\ admission' = [item |-> i, config |-> config,
                         given |-> Admitted(snapshot.policies[i], purpose, strategy)]
  /\ UNCHANGED <<snapshot, verdict>> /\ UNCHANGED world

SnapshotNext ==
  \/ Revise \/ Retire \/ Reconfigure \/ CloseWeek \/ Correct \/ Withdraw
  \/ Build \/ Publish \/ Admit

SnapshotSpec == SnapshotInit /\ [][SnapshotNext]_snapshotVars

-----------------------------------------------------------------------------
(* Properties.                                                              *)

\* What the evidence must be for an order without a person, read from the metrics.
DemandStated(m) ==
  m.abc.invalid = 0 /\ m.xyz.invalid = 0 /\ m.abc.revenue > 0 /\ m.xyz.demand > 0
MovementStated(s, m, c) ==
  /\ s.sealed /\ m.fsn.rows > 0 /\ m.fsn.invalid = 0
  /\ c.overlays.fsn["N"] # "ALLOW" => s.asOf - m.fsn.last < c.fsn.nonMoving
CostStated(s, m, c) ==
  m.hml.status = "VERIFIED" /\ m.hml.cost > 0 /\ s.asOf - m.hml.asOf \in 0..c.hml.maxAge

\* An order that needs no person is only allowed for an item whose demand is
\* whole and, on every axis the run's configuration makes operational, whose
\* evidence is verified, complete and recent: from the close of the weeks, over
\* classification, policy, publication and admission, whatever changed between.
NoOrderOnDoubt ==
  admission # Nothing /\ admission.given.order =>
    LET m == snapshot.metrics[admission.item]
        c == admission.config
    IN /\ DemandStated(m)
       /\ c.fsn.mode = "OPERATIONAL" => MovementStated(snapshot, m, c)
       /\ c.sde.mode = "OPERATIONAL" => SupplyComplete(m.sde, c.sde)
       /\ c.hml.mode = "OPERATIONAL" => CostStated(snapshot, m, c)

\* An item that an axis could not classify has no say in the class of another:
\* without it the other items have the same ABC class and the same HML grade.
UnusableHasNoSay ==
  snapshot # Nothing =>
    \A i \in DOMAIN snapshot.metrics :
      LET rest == Restrict(snapshot.metrics, DOMAIN snapshot.metrics \ {i})
          c    == snapshot.config
      IN /\ snapshot.items[i].abc = None =>
              \A j \in DOMAIN rest : snapshot.items[j].abc # None =>
                AbcClass(rest, c.abc, j) = snapshot.items[j].abc
         /\ snapshot.axes # <<>> /\ snapshot.axes[i]["HML"].status # "CLASSIFIED" =>
              \A j \in DOMAIN rest :
                ClassifyHml(rest[j], snapshot.asOf,
                            Thresholds(rest, snapshot.asOf, c.hml), c.hml)
                  = snapshot.axes[j]["HML"]

\* The A items, and the A and B items, are the shortest head of the revenue
\* ranking that carries its configured share, whichever items have no revenue.
HeadsCarryTheirShare ==
  snapshot # Nothing =>
    LET p     == snapshot.metrics
        of(g) == {i \in DOMAIN p : snapshot.items[i].abc \in g}
        total == Revenue(p, of({"A", "B", "C"}))
        IsHead(items, share) ==
          LET least == Min({p[i].abc.revenue : i \in items})
          IN /\ items # {}
             /\ \A i \in items, j \in of({"A", "B", "C"}) \ items :
                  p[i].abc.revenue >= p[j].abc.revenue
             /\ 100 * Revenue(p, items) >= share * total
             /\ 100 * (Revenue(p, items) - least) < share * total
    IN /\ IsHead(of({"A"}), snapshot.config.abc.a)
       /\ IsHead(of({"A", "B"}), snapshot.config.abc.b)

\* The publisher refuses what build_snapshot built for two reasons only: a
\* revenue that is negative, and synthetic evidence on an operational axis.
RefusalExplained ==
  verdict # None =>
    ((verdict # "PUBLISHED") <=>
       /\ snapshot.type = "SEVEN_AXIS"
       /\ \E i \in DOMAIN snapshot.metrics :
            \/ snapshot.metrics[i].abc.revenue < 0
            \/ \E a \in Operational(snapshot.axes[i]) :
                 snapshot.axes[i][a].status = "SYNTHETIC")

\* What the items of a site do to each other: by their share of the revenue, by
\* nothing when they are not classified, and by one negative revenue all of it.
ItemsInfluence ==
  /\ HeadsCarryTheirShare
  /\ UnusableHasNoSay
  /\ RefusalExplained

\* The inputs that may move a policy: demand, and the axes that are operational.
OperationalInputs(s) ==
  LET on(axis)  == s.config[axis].mode = "OPERATIONAL"
      part(axis, x) == IF on(axis) THEN <<x>> ELSE <<>>
      c         == s.config
  IN [demand |-> [i \in DOMAIN s.metrics |-> <<s.metrics[i].abc, s.metrics[i].xyz>>],
      axes   |-> [i \in DOMAIN s.metrics |->
                    <<part("fsn", s.metrics[i].fsn), part("sde", s.metrics[i].sde),
                      part("hml", s.metrics[i].hml)>>],
      rules  |-> <<c.abc, c.xyz, c.ved, c.cells, c.floor,
                   part("fsn", <<c.fsn, c.overlays.fsn>>), part("sde", <<c.sde, c.overlays.sde>>),
                   part("hml", <<c.hml, c.overlays.hml>>)>>,
      asOf   |-> IF on("fsn") \/ on("hml") THEN <<s.asOf>> ELSE <<>>]

\* A revision of shadow evidence, of a shadow rule or of the lifecycle, or a week
\* that only shadow axes see, leaves every effective policy hash as it was.
ShadowNeverMovesPolicy ==
  [][(/\ snapshot # Nothing /\ snapshot' # Nothing
      /\ snapshot.type = "SEVEN_AXIS" /\ (snapshot.type)' = "SEVEN_AXIS"
      /\ OperationalInputs(snapshot) = (OperationalInputs(snapshot))')
     => \A i \in DOMAIN snapshot.policies :
          (PolicyHash(snapshot.policies[i]))' = PolicyHash(snapshot.policies[i])]_snapshotVars

=============================================================================
