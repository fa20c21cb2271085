--------------------------- MODULE InputPreparation ---------------------------
(***************************************************************************)
(* From the sealed documents of the source systems to the input of a Run:   *)
(* PrepareSourceInputUseCase reads eight pinned documents one after the     *)
(* other and maps them to canonical snapshots, PrepareInventoryInputUseCase *)
(* admits the set, LocalCanonicalSnapshotPublisher writes the snapshots of  *)
(* the site once, and a Run admits the set for its claim                    *)
(* (validate_canonical_runtime_binding).                                    *)
(*                                                                          *)
(* A hash stands for what it is taken of.  Days count from the first day of *)
(* the plan, instants of the stock from its first moment; quantities are    *)
(* naturals in the smallest unit of the item, so that their precision is    *)
(* left out.  The rows of a document have its scope.  Refusals have no      *)
(* reason here.                                                             *)
(***************************************************************************)
EXTENDS StockStep, Sequences, FiniteSets, FiniteSetsExt, TLC

CONSTANTS
  World,      \* requests with the documents, the claim and the facts behind them
  Nothing     \* no value: an absent field

Order == <<"calendar", "master", "prior_inventory", "forecast", "customer_orders",
           "receipts", "policies", "inventory">>
Kinds == {Order[n] : n \in DOMAIN Order}

\* What the publisher writes, in this order; the other three belong to Demand.
SiteOrder   == <<"inventory", "prior_inventory", "policies", "receipts", "customer_orders">>
SharedKinds == {"calendar", "master", "forecast"}

VARIABLES
  given,      \* the request at hand
  desk,       \* by kind, the document its identifier is answered with now
  composed,   \* by kind, the canonical snapshots made so far
  producer,   \* READING, PREPARED, PUBLISHED, CLAIMED, REFUSED or CONFLICT
  catalog,    \* by identifier, the snapshot files
  crashed     \* the producer was started again

inputVars == <<given, desk, composed, producer, catalog, crashed>>

Request    == given.request
Context    == Request.context
Deployment == given.deployment

\* No two members agree on what the key is.
Unique(rows, key(_)) == \A r, q \in rows : key(r) = key(q) => r = q

ByItem(r) == r.item

\* A function with one more argument, which it had no value for.
With(f, k, e) == [x \in DOMAIN f \cup {k} |-> IF x \in DOMAIN f THEN f[x] ELSE e]

-----------------------------------------------------------------------------
(* One source document.                                                     *)

Synthetic(d) == d.meta.position = "SYNTHETIC_BOH"

\* The document is the one the request pins, state and all.
Pinned(kind, d) == d.kind = kind /\ d = Request.sources[kind]

\* It may be used for this plan.
SourceAdmitted(kind, d) ==
  /\ Pinned(kind, d)
  /\ d.status = "SEALED"
  /\ d.meta.scope = Context.scope
  /\ d.origin # "UNKNOWN_SOURCE"
  /\ Deployment.environment = "DEVELOPMENT" \/ d.origin = "ACTUAL_SOURCE"
  /\ kind \in {"master", "policies"} => d.asOf = Context.masterAsOf
  /\ kind = "inventory" => d.asOf = Context.start
  /\ kind = "prior_inventory" => d.asOf = d.meta.asOf
  /\ kind \in {"inventory", "prior_inventory"} =>
       \/ Synthetic(d) <=> d.origin = "SYNTHETIC_SOURCE"
       \/ d.origin = "DEVELOPMENT_FIXTURE"

Eligible(master) == {r.item : r \in {q \in master : q.active /\ q.stocked}}
UomOf(i, master) == (CHOOSE r \in master : r.item = i).uom

KnownItems(rows, master) == {r.item : r \in rows} \subseteq {r.item : r \in master}

\* The forecast rows are of the run, the plan and the series their terms select, of
\* finished models, and of items that are planned.
ForecastMappable(d, master) ==
  LET s == d.terms.selector
  IN /\ s.scope = Context.scope /\ s.run = Context.demandRun /\ s.plan = Context.plan
     /\ s.week = Context.week /\ s.from = Context.week
     /\ d.meta.run = s.run
     /\ Eligible(master) # {}
     /\ {r.item : r \in d.rows} \subseteq Eligible(master)
     /\ \A r \in d.rows : r.series = s.series /\ r.model = "SUCCEEDED"

\* Every adapter but the two that bring their own items asks the master for the unit.
Mappable(d, master) ==
  CASE d.adapter \in {"CANONICAL_V1", "DSDM_MASTER_V1"} -> d.terms = Nothing
    [] d.adapter = "DSDM_FORECAST_V1"     -> ForecastMappable(d, master)
    [] d.adapter = "UNVERIFIED_DUE_IN_V1" -> d.terms = Nothing /\ KnownItems(d.rows, master)
    [] d.adapter = "ERP_POSITION_V1"      -> d.terms.basis = "ON_HAND" /\ KnownItems(d.rows, master)
    [] d.adapter = "SOURCE_POLICY_V1"     -> KnownItems(d.rows, master)

LeadDays(lead, unit) == IF unit = "WEEK" THEN lead * 7 ELSE lead

\* max_qty means a target here, never the physical capacity.
MappedRows(d, master) ==
  CASE d.adapter = "CANONICAL_V1" -> d.rows
    [] d.adapter = "DSDM_MASTER_V1" ->
         {[item |-> r.item, uom |-> "EA", active |-> r.use, stocked |-> r.stock] : r \in d.rows}
    [] d.adapter = "DSDM_FORECAST_V1" ->
         {[item |-> r.item, uom |-> UomOf(r.item, master), week |-> r.week, qty |-> r.qty,
           mode |-> "SAME_BUCKET_CONSUMPTION", gross |-> Nothing, consumed |-> Nothing] :
            r \in d.rows}
    [] d.adapter = "ERP_POSITION_V1" ->
         {[item |-> r.item, uom |-> UomOf(r.item, master), date |-> r.date, onHand |-> r.boh,
           reserved |-> r.reserved, available |-> r.available, backorder |-> r.backorder] :
            r \in d.rows}
    [] d.adapter = "UNVERIFIED_DUE_IN_V1" ->
         {[id |-> r.id, item |-> r.item, uom |-> UomOf(r.item, master), due |-> r.due,
           qty |-> r.qty, status |-> "UNVERIFIED_DUE_IN", type |-> "PURCHASE_ORDER"] :
            r \in d.rows}
    [] d.adapter = "SOURCE_POLICY_V1" ->
         {[item |-> r.item, uom |-> UomOf(r.item, master), policy |-> r.policy, from |-> r.from,
           to |-> r.to, lead |-> LeadDays(r.lead, d.terms.lead), moq |-> r.moq,
           multiple |-> r.lot, cap |-> r.capacity, level |-> r.level,
           type |-> "SOURCE_MASTER"] : r \in d.rows}

\* The documents a document was made against, by the hash of the source, are the pinned
\* ones; the snapshot names their canonical form instead.
Parents(kind) ==
  CASE kind = "forecast"  -> {"calendar", "master"}
    [] kind = "inventory" -> {"prior_inventory"}
    [] OTHER              -> {}
ParentsPinned(kind, d) == \A p \in Parents(kind) : d.meta.parents[p] = Request.sources[p]

\* The items known so far.
MasterRead == IF "master" \in DOMAIN composed THEN composed["master"].rows ELSE {}

Snapshot(kind, d) ==
  [id |-> d.id, status |-> d.status,
   rows |-> MappedRows(d, MasterRead),
   meta |-> IF Parents(kind) = {} THEN d.meta
            ELSE [d.meta EXCEPT !.parents = [p \in Parents(kind) |-> composed[p]]]]

-----------------------------------------------------------------------------
(* Admission of the whole set (PrepareInventoryInputUseCase).               *)

SnapshotsVerified(c) ==
  LET s == c.snapshots
  IN /\ c.context.scope.company = Deployment.company
     /\ \A k \in Kinds : s[k].status = "SEALED" /\ s[k].meta.scope = c.context.scope
     /\ Cardinality({s[k].id : k \in Kinds}) = Cardinality(Kinds)
     /\ s["master"].meta.revision = c.context.revision
     /\ s["forecast"].meta.run = c.context.demandRun
     /\ s["forecast"].meta.runStatus = "SUCCEEDED" /\ s["forecast"].meta.evidence = "VERIFIED"
     /\ s["forecast"].meta.revision = c.context.revision
     /\ \A p \in {"calendar", "master"} : s["forecast"].meta.parents[p] = s[p]
     /\ \A k \in {"customer_orders", "receipts"} : s[k].meta.coverage = "COMPLETE"

\* Buckets of at most a week that follow each other and fill the plan.
CalendarValid(c) ==
  LET rows == c.snapshots["calendar"].rows
  IN /\ Len(rows) \in 1..520
     /\ \A m, n \in DOMAIN rows : rows[m].week = rows[n].week => m = n
     /\ rows[1].start = c.context.start /\ rows[Len(rows)].end = c.context.end
     /\ rows[1].week = c.context.week
     /\ \A n \in DOMAIN rows : rows[n].end - rows[n].start \in 0..6
     /\ \A n \in 1..(Len(rows) - 1) : rows[n + 1].start = rows[n].end + 1

\* Pieces are counted exactly.
RulesValid(c) ==
  DOMAIN c.rules # {} /\ ("EA" \in DOMAIN c.rules => c.rules["EA"].tolerance = 0)

Weeks(c) == {c.snapshots["calendar"].rows[n].week : n \in DOMAIN c.snapshots["calendar"].rows}

\* The site's copy of the forecast is named after the one of Demand, and after the
\* choice of items where the classification took part in it.
CopyName(id, u) ==
  id \o (IF u.classified THEN <<"canonical", u.included>> ELSE <<"canonical">>)

\* A development calculation may leave items out, for a reason each: it names the
\* documents of Demand it was made from.
UniverseChosen(c, eligible) ==
  LET u == c.universe
      out == {x.item : x \in u.excluded}
      copies == [c.upstream EXCEPT !["forecast"].id = CopyName(@, u)]
  IN /\ Deployment.environment = "DEVELOPMENT"
     /\ u.included # {} /\ Unique(u.excluded, ByItem) /\ u.included \cap out = {}
     /\ \A x \in u.excluded : x.reason = "EXCLUDED_ENDED_DEMAND_WINDOW" => x.ends <= u.week
     /\ \A k \in SharedKinds : c.snapshots[k].id = copies[k].id
     /\ u.run = c.context.demandRun /\ u.week = c.context.week
     /\ u.master = c.upstream["master"] /\ u.forecast = c.upstream["forecast"]
     /\ u.included \cup out = eligible
     /\ {r.item : r \in c.snapshots["forecast"].rows} = u.included

\* The items of the plan.
Universe(c) ==
  IF c.universe = Nothing THEN Eligible(c.snapshots["master"].rows) ELSE c.universe.included

Measured(row, c) ==
  LET master == {r \in c.snapshots["master"].rows : r.item = row.item}
  IN /\ row.item \in Universe(c)
     /\ row.uom = (CHOOSE r \in master : TRUE).uom
     /\ row.uom \in DOMAIN c.rules

PolicyAt(rows, i, day) == {r \in rows : r.item = i /\ r.from <= day /\ day < r.to}

\* One policy is in effect on the first day of every bucket.
PoliciesValid(c) ==
  LET rows == c.snapshots["policies"].rows
      calendar == c.snapshots["calendar"].rows
  IN /\ Unique(rows, LAMBDA r : <<r.item, r.policy, r.from>>)
     /\ \A r \in rows : /\ r.from < r.to /\ r.multiple > 0 /\ r.level \in 1..99
                        /\ \/ Deployment.environment = "DEVELOPMENT"
                           \/ r.type # "SYNTHETIC_POLICY"
     /\ \A r, q \in rows : r # q /\ r.item = q.item => r.to <= q.from \/ q.to <= r.from
     /\ \A i \in Universe(c), n \in DOMAIN calendar :
          Cardinality(PolicyAt(rows, i, calendar[n].start)) = 1

\* Every planned item has a position, a closing stock, a forecast of every week and its
\* policies, in its own unit; nothing is there for other items or weeks.
UniverseValid(c) ==
  LET rows(k) == c.snapshots[k].rows
      keys(k) == {<<r.item, r.week>> : r \in rows(k)}
  IN /\ RulesValid(c)
     /\ Unique(rows("master"), ByItem)
     /\ c.universe # Nothing => UniverseChosen(c, Eligible(rows("master")))
     /\ Universe(c) # {}
     /\ \A k \in Kinds \ {"calendar", "master"} : \A r \in rows(k) : Measured(r, c)
     /\ \A k \in {"forecast", "customer_orders"} : /\ \A r \in rows(k) : r.week \in Weeks(c)
                                                   /\ Unique(rows(k), LAMBDA r : <<r.item, r.week>>)
     /\ \A k \in {"inventory", "prior_inventory"} : /\ Unique(rows(k), ByItem)
                                                    /\ {r.item : r \in rows(k)} = Universe(c)
     /\ keys("forecast") = Universe(c) \X Weeks(c)
     /\ Unique(rows("receipts"), LAMBDA r : r.id)
     /\ PoliciesValid(c)

-----------------------------------------------------------------------------
(* The closing of the stock (verify_cutoff).                                *)

\* Defect: only what reached the source after the extraction is late.
LatePostingsUnseen(meta) ==
  {e \in meta.events : e.at <= meta.cut /\ e.posted > meta.extracted}

\* Movements of before the cutoff that were booked after it: the position lacks them.
LatePostings(meta) == {e \in meta.events : e.at <= meta.cut /\ e.posted > meta.cut}

EventsValid(meta, c) ==
  /\ Unique(meta.events, LAMBDA e : e.id)
  /\ \A e \in meta.events : Measured(e, c) /\ e.at <= e.posted /\ e.posted <= e.ingested
                            /\ e.ingested <= meta.extracted
  /\ LatePostings(meta) = {}

Generated(meta) == meta.generator # Nothing

\* Only a development deployment plans on generated stock, all of it of one generation.
LineageValid(meta, prior) ==
  /\ prior.position = meta.position /\ meta.position # "POLICY_PROXY"
  /\ meta.position = "SYNTHETIC_BOH" =>
       /\ Deployment.environment = "DEVELOPMENT" /\ Generated(meta)
       /\ prior.generator = meta.generator /\ meta.events = {}
  /\ meta.position # "SYNTHETIC_BOH" => ~Generated(meta) /\ ~Generated(prior)

\* The position was read when the source was complete for it, before the plan opens.
TimelineValid(meta) ==
  /\ meta.cut <= meta.complete /\ meta.cut <= 0
  /\ meta.complete <= meta.extracted /\ meta.extracted <= meta.sealed

Adjusted(meta, i) == MapThenSumSet(LAMBDA a : a.qty, {a \in meta.adjustments : a.item = i})

Distance(a, b) == IF a >= b THEN a - b ELSE b - a

\* The position continues the closing stock of the day before, corrections included.
Continues(row, c) ==
  LET closing  == CHOOSE p \in c.snapshots["prior_inventory"].rows : p.item = row.item
      expected == closing.eoh + Adjusted(c.snapshots["inventory"].meta, row.item)
  IN expected >= 0 /\ Distance(row.onHand, expected) <= c.rules[row.uom].tolerance

CutoffVerified(c) ==
  LET inventory == c.snapshots["inventory"]
      prior     == c.snapshots["prior_inventory"]
      meta      == inventory.meta
  IN /\ meta.parents["prior_inventory"] = prior
     /\ prior.meta.asOf = c.context.start - 1
     /\ meta.cut = c.context.cut /\ meta.watermark = c.context.watermark
     /\ LineageValid(meta, prior.meta)
     /\ TimelineValid(meta)
     /\ EventsValid(meta, c)
     /\ Unique(meta.adjustments, LAMBDA a : a.id)
     /\ \A a \in meta.adjustments : Measured(a, c) /\ a.approved <= meta.sealed
     /\ \A r \in inventory.rows :
          /\ r.date = c.context.start
          /\ r.onHand - r.reserved = r.available
          /\ r.reserved = 0 \/ meta.treatment = "UNAVAILABLE_EXCLUDED"
          /\ Continues(r, c)

-----------------------------------------------------------------------------
(* Demand and receipts.                                                     *)

Ordered(c, i, week) ==
  MapThenSumSet(LAMBDA r : r.qty,
                {r \in c.snapshots["customer_orders"].rows : r.item = i /\ r.week = week})

\* A forecast is consumed by the orders of its week, here or in Demand.
NettingValid(r) ==
  IF r.mode = "SAME_BUCKET_CONSUMPTION" THEN r.gross = Nothing /\ r.consumed = Nothing
  ELSE /\ r.gross = Nothing <=> r.consumed = Nothing
       /\ r.gross # Nothing => r.gross >= r.consumed /\ r.gross - r.consumed = r.qty

NetForecast(r, confirmed) ==
  IF r.mode = "SAME_BUCKET_CONSUMPTION" THEN r.qty - Least(r.qty, confirmed) ELSE r.qty

DemandOf(c, i, week) ==
  LET confirmed == Ordered(c, i, week)
      r == CHOOSE q \in c.snapshots["forecast"].rows : q.item = i /\ q.week = week
  IN [order |-> confirmed, forecast |-> NetForecast(r, confirmed)]

\* Supply a vendor stands for; what was received is part of the position.
CommittedStatus == {"CONFIRMED", "IN_TRANSIT"}

\* Committed supply that is overdue has no day to be expected on; generated supply goes
\* with stock of the same generation.
ReceiptsValid(c) ==
  LET stock == c.snapshots["inventory"].meta
  IN \A r \in c.snapshots["receipts"].rows :
       /\ r.type = "SYNTHETIC_PURCHASE_ORDER" =>
            /\ Deployment.environment = "DEVELOPMENT" /\ stock.position = "SYNTHETIC_BOH"
            /\ c.snapshots["receipts"].meta.generator = stock.generator
       /\ r.status \in CommittedStatus => r.due >= c.context.start

\* What is expected between two days; supply after the plan is left out.
Expected(c, i, first, last) ==
  MapThenSumSet(LAMBDA r : r.qty,
    {r \in c.snapshots["receipts"].rows : /\ r.item = i /\ r.status \in CommittedStatus
                                          /\ first <= r.due /\ r.due <= last})

Admitted(c) ==
  /\ SnapshotsVerified(c) /\ CalendarValid(c) /\ UniverseValid(c) /\ CutoffVerified(c)
  /\ \A r \in c.snapshots["forecast"].rows : NettingValid(r)
  /\ ReceiptsValid(c)

-----------------------------------------------------------------------------
(* The claim of a Run.                                                      *)

ContextBinding(c) ==
  [f \in {"planType", "week", "start", "end", "masterAsOf", "revision", "cut", "watermark"} |->
     c.context[f]] @@ [rules |-> c.rules]

\* Demand knows its documents by their source, the site its own by their canonical form.
ClaimableInput(c, kind) ==
  IF kind \in SharedKinds /\ c.upstream # Nothing THEN c.upstream[kind] ELSE c.snapshots[kind]

PlanKey(claim) == <<claim.cycle, claim.plan, claim.scope>>
Classified(claim) == claim.classification # Nothing

\* What the site was bound to: the trade costs alone are not part of it.
SiteIdentity(claim) ==
  <<claim.scope, claim.inputs, claim.policy, claim.classification>>
    \o (IF Classified(claim) THEN <<claim.context, claim.gates, claim.strategy>> ELSE <<>>)

\* The policy is the configuration's, in the version that a classification asks for.
PolicyPinned(claim) ==
  claim.policy = [revision |-> claim.config, hash |-> claim.configHash,
                  version |-> IF Classified(claim) THEN "2.0.0" ELSE "1.0.0"]

\* A plan that is priced is priced with the pinned trade costs, at its destination and
\* on the day of its masters.
CostPinned(claim, cost) ==
  /\ claim.trade = [id |-> cost.set, hash |-> cost.hash]
  /\ claim.scope.subs = "C100" /\ claim.scope.site = cost.destination
  /\ claim.context.masterAsOf = cost.valued

\* The strategies of the Run are planned for its configuration and its policies.
StrategyPinned(claim, s) ==
  /\ s.config = claim.configHash /\ s.policies = claim.classification.hash
  /\ s.analysis # Nothing =>
       s.analysis = [config |-> claim.configId, revision |-> claim.config,
                     snapshot |-> claim.classification.id]
  /\ s.cost # Nothing => CostPinned(claim, s.cost)

\* Nothing is ordered automatically that is not published automatically.
GatesSealed(gates) ==
  /\ gates # Nothing /\ {gates.publish, gates.order} \subseteq BOOLEAN
  /\ gates.order => gates.publish

ContextValid(context) == context.start <= context.end

\* With a classification a claim has a context, gates and a strategy plan, without it
\* none of them.
ClaimAdmitted(claim) ==
  /\ claim.planKey = PlanKey(claim)
  /\ Kinds \subseteq DOMAIN claim.inputs
  /\ PolicyPinned(claim)
  /\ \/ /\ ~Classified(claim)
        /\ {claim.context, claim.gates, claim.strategy} = {Nothing}
     \/ /\ Classified(claim) /\ Nothing \notin {claim.context, claim.strategy}
        /\ ContextValid(claim.context) /\ GatesSealed(claim.gates)
        /\ StrategyPinned(claim, claim.strategy)

\* The policies the strategies are run with are those the claim pins.
PolicyBinding(claim, policies) ==
  /\ Classified(claim)
  /\ policies.snapshot = claim.classification.id
  /\ policies.hash = claim.classification.hash
  /\ policies.config = claim.configHash

\* The set is the one the Platform claimed the Run for.
RunBinding(claim, c) ==
  /\ claim.run = c.context.run /\ claim.cycle = c.context.cycle
  /\ claim.demandRun = c.context.demandRun
  /\ claim.demandRun = c.snapshots["forecast"].meta.run
  /\ claim.plan = c.context.plan
  /\ claim.scope = c.context.scope /\ claim.plant = c.context.scope.site
  /\ claim.config = c.context.config
  /\ claim.context = ContextBinding(c)
  /\ claim.planKey = PlanKey(claim)
  /\ \A k \in Kinds : claim.inputs[k] = ClaimableInput(c, k)
  /\ claim.identity = SiteIdentity(claim)

RunAdmitted(claim, policies, c) ==
  ClaimAdmitted(claim) /\ RunBinding(claim, c) /\ PolicyBinding(claim, policies)

-----------------------------------------------------------------------------
(* The producer (SourceToCanonicalSnapshotProducer).                        *)

\* Eight documents of eight names, for the company this deployment serves.
RequestAdmitted ==
  /\ Context.scope.company = Deployment.company
  /\ Cardinality({Request.sources[k].id : k \in Kinds}) = Cardinality(Kinds)

NextKind == Order[Cardinality(DOMAIN composed) + 1]

Usable(kind, d) ==
  /\ RequestAdmitted /\ SourceAdmitted(kind, d)
  /\ Mappable(d, MasterRead)
  /\ ParentsPinned(kind, d)
  /\ kind = "master" => Unique(MappedRows(d, MasterRead), ByItem)

\* The next document is read as it is answered now.
ReadSource ==
  /\ producer = "READING" /\ DOMAIN composed # Kinds
  /\ LET d == desk[NextKind]
     IN \/ /\ Usable(NextKind, d)
           /\ composed' = With(composed, NextKind, Snapshot(NextKind, d))
           /\ UNCHANGED producer
        \/ /\ ~Usable(NextKind, d)
           /\ producer' = "REFUSED"
           /\ UNCHANGED composed
  /\ UNCHANGED <<given, desk, catalog, crashed>>

Canonical ==
  [context |-> Context, rules |-> Request.rules, universe |-> Request.universe,
   upstream |-> Request.upstream, snapshots |-> composed]

PrepareInput ==
  /\ producer = "READING" /\ DOMAIN composed = Kinds
  /\ producer' = IF Admitted(Canonical) THEN "PREPARED" ELSE "REFUSED"
  /\ UNCHANGED <<given, desk, composed, catalog, crashed>>

Stored(kind) ==
  LET s == composed[kind] IN s.id \in DOMAIN catalog /\ catalog[s.id] = s

\* The files of the site are written in order, each once; one that is there with the
\* same content stands, one with another content ends the publication.
PublishNext ==
  /\ producer = "PREPARED" /\ Deployment.environment = "DEVELOPMENT"
  /\ \/ /\ \A n \in DOMAIN SiteOrder : Stored(SiteOrder[n])
        /\ producer' = "PUBLISHED"
        /\ UNCHANGED catalog
     \/ \E n \in DOMAIN SiteOrder :
          LET s == composed[SiteOrder[n]]
          IN /\ ~Stored(SiteOrder[n]) /\ \A m \in 1..(n - 1) : Stored(SiteOrder[m])
             /\ IF s.id \in DOMAIN catalog
                THEN producer' = "CONFLICT" /\ UNCHANGED catalog
                ELSE catalog' = With(catalog, s.id, s) /\ UNCHANGED producer
  /\ UNCHANGED <<given, desk, composed, crashed>>

\* The producer dies and is started again on the same request.
CrashProducer ==
  /\ producer \in {"READING", "PREPARED"} /\ ~crashed
  /\ crashed' = TRUE
  /\ producer' = "READING"
  /\ composed' = <<>>
  /\ UNCHANGED <<given, desk, catalog>>

\* The source system answers an identifier with another document from now on.
Recollect ==
  /\ producer = "READING"
  /\ \E d \in given.late : desk' = [desk EXCEPT ![d.kind] = d]
  /\ desk' # desk
  /\ UNCHANGED <<given, composed, producer, catalog, crashed>>

=============================================================================
