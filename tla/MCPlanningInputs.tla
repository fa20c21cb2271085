--------------------------- MODULE MCPlanningInputs ---------------------------
(* The requests of PreparedPlanning for TLC: one site, two items, four weeks. *)
EXTENDS PreparedPlanning

MCStart == <<0, 7, 14, 17>>
MCEnd   == <<6, 13, 16, 20>>

Items == {"a", "b"}
Here  == [company |-> "C", subs |-> "C100", site |-> "S"]
There == [Here EXCEPT !.site = "T"]

MCContext ==
  [run |-> "run", cycle |-> "cycle", plan |-> "plan", planType |-> "POSM", week |-> 1,
   start |-> 0, end |-> 20, masterAsOf |-> 0, revision |-> "rev", demandRun |-> "demand",
   config |-> "config", cut |-> 0, watermark |-> "mark", scope |-> Here]

MCControls == [orderDates |-> {1, 2}, maxOrder |-> 4, minTarget |-> 1, maxTarget |-> 4,
               allowed |-> {"HOLD", "ORDER_UP_TO"}]

-----------------------------------------------------------------------------
(* What happened: at most two movements, around the closing of the books at  *)
(* -2, the cutoff at -1 or 0 and the extraction at 1.                        *)

Closed    == -2
Extracted == 1

Times == {<<-3, -3>>, <<-3, -1>>, <<-3, 0>>, <<-3, 1>>, <<-3, 2>>, <<-1, -1>>, <<-1, 0>>,
          <<-1, 1>>, <<-1, 2>>, <<0, 0>>, <<0, 1>>, <<1, 1>>}

\* The purchase p2 comes in, a unit goes out, or the stock is corrected.
Movement(t, kind) ==
  [id |-> kind, item |-> "a", at |-> t[1], posted |-> t[2], kind |-> kind,
   qty |-> IF kind = "ISSUE" THEN -1 ELSE 1]

Moves ==
  {{}} \cup {{Movement(t, kind)} : t \in Times, kind \in {"p2", "ISSUE", "CORRECTION"}}
       \cup {{Movement(<<-3, -1>>, "CORRECTION"), Movement(t, "ISSUE")} : t \in Times}

Purchase(id, i, due, qty, promised, moves) ==
  LET in == {m \in moves : m.kind = id}
  IN [id |-> id, item |-> i, due |-> due, qty |-> qty, promised |-> promised,
      arrived |-> IF in = {} THEN 99 ELSE (CHOOSE m \in in : TRUE).at,
      booked  |-> IF in = {} THEN 99 ELSE (CHOOSE m \in in : TRUE).posted]

FactsOf(moves, cut) ==
  [items |-> Items, cut |-> cut, moves |-> moves,
   base |-> [a |-> 3, b |-> 1], reserved |-> [a |-> 1, b |-> 0],
   backorder |-> [a |-> 0, b |-> 2], end |-> 20,
   purchases |-> {Purchase("p1", "a", 8, 2, TRUE, moves), Purchase("p2", "a", 3, 1, TRUE, moves),
                  Purchase("p3", "b", 14, 2, FALSE, moves), Purchase("p4", "b", 40, 1, TRUE, moves)},
   outlook |-> [a |-> 2, b |-> 1],
   sold |-> {[item |-> "a", week |-> 1, qty |-> 1], [item |-> "b", week |-> 3, qty |-> 2]},
   terms |-> [a |-> [b \in Bucket |-> [lead |-> IF b < 3 THEN 7 ELSE 14, multiple |-> 1,
                                       moq |-> 0, cap |-> NoCap]],
              b |-> [b \in Bucket |-> [lead |-> 7, multiple |-> 2, moq |-> 3, cap |-> 6]]]]

Clean == FactsOf({}, 0)

-----------------------------------------------------------------------------
(* What honest sources say of it.                                            *)

Doc(kind, adapter, meta, terms, lines) ==
  [kind |-> kind, id |-> <<kind>>, adapter |-> adapter, origin |-> "ACTUAL_SOURCE",
   status |-> "SEALED", asOf |-> 0, meta |-> meta @@ [scope |-> Here], terms |-> terms,
   rows |-> lines]
Plain(kind, meta, lines) == Doc(kind, "CANONICAL_V1", meta, Nothing, lines)

Uom(unit, i) == IF i = "a" THEN unit ELSE "EA"

BookedBy(f, i, t) ==
  f.base[i] + MapThenSumSet(LAMBDA m : m.qty, {m \in f.moves : m.item = i /\ m.posted <= t})

CalendarDoc == Plain("calendar", <<>>, [b \in Bucket |-> [week |-> b, start |-> MCStart[b], end |-> MCEnd[b]]])

MasterDoc(unit) ==
  Plain("master", [revision |-> "rev"],
        {[item |-> i, uom |-> Uom(unit, i), active |-> TRUE, stocked |-> TRUE] : i \in Items}
          \cup {[item |-> "old", uom |-> "EA", active |-> FALSE, stocked |-> TRUE]})

PriorDoc(f, unit) ==
  [Plain("prior_inventory",
         [asOf |-> -1, position |-> "ACTUAL_BOH", generator |-> Nothing],
         {[item |-> i, uom |-> Uom(unit, i), eoh |-> BookedBy(f, i, Closed)] : i \in Items})
   EXCEPT !.asOf = -1]

Forecast(i, b, unit, f) ==
  [item |-> i, uom |-> Uom(unit, i), week |-> b, qty |-> f.outlook[i],
   mode |-> "SAME_BUCKET_CONSUMPTION", gross |-> Nothing, consumed |-> Nothing]

ForecastDoc(f, unit, calendar, master) ==
  Plain("forecast",
        [run |-> "demand", runStatus |-> "SUCCEEDED", evidence |-> "VERIFIED", revision |-> "rev",
         parents |-> [calendar |-> calendar, master |-> master]],
        {Forecast(i, b, unit, f) : i \in Items, b \in Bucket})

OrdersDoc(f, unit) ==
  Plain("customer_orders", [coverage |-> "COMPLETE"],
        {[item |-> o.item, uom |-> Uom(unit, o.item), week |-> o.week, qty |-> o.qty] : o \in f.sold})

Status(p, cut) == IF ~p.promised THEN "ORDERED" ELSE
                  IF p.booked <= cut THEN "RECEIVED" ELSE "CONFIRMED"

ReceiptsDoc(f, unit) ==
  Plain("receipts", [coverage |-> "COMPLETE", generator |-> Nothing],
        {[id |-> p.id, item |-> p.item, uom |-> Uom(unit, p.item), due |-> p.due, qty |-> p.qty,
          status |-> Status(p, f.cut), type |-> "PURCHASE_ORDER"] : p \in f.purchases})

PolicyRow(f, unit, i, b, from, to) ==
  f.terms[i][b] @@ [item |-> i, uom |-> Uom(unit, i), policy |-> "P", from |-> from, to |-> to,
                    level |-> 95, type |-> "SOURCE_MASTER"]

PoliciesDoc(f, unit) ==
  Plain("policies", <<>>, {PolicyRow(f, unit, "a", 1, -9, 14), PolicyRow(f, unit, "a", 3, 14, 30),
                           PolicyRow(f, unit, "b", 1, -9, 30)})

\* What is booked by the extraction is reported; the source says how far it is complete.
InventoryDoc(f, unit, prior) ==
  Plain("inventory",
        [position |-> "ACTUAL_BOH", generator |-> Nothing, cut |-> f.cut, watermark |-> "mark",
         complete |-> Max({t \in -5..Extracted :
                             \A m \in f.moves : m.at <= t => m.posted <= Extracted}),
         extracted |-> Extracted, sealed |-> Extracted, treatment |-> "UNAVAILABLE_EXCLUDED",
         parents |-> [prior_inventory |-> prior],
         events |-> {[id |-> m.id, item |-> m.item, uom |-> Uom(unit, m.item), at |-> m.at,
                      posted |-> m.posted, ingested |-> m.posted] :
                       m \in {n \in f.moves : n.posted <= Extracted}},
         adjustments |-> {[id |-> m.id, item |-> m.item, uom |-> Uom(unit, m.item), qty |-> m.qty,
                           approved |-> m.posted] :
                            m \in {n \in f.moves : /\ n.kind = "CORRECTION"
                                                   /\ n.posted \in (Closed + 1)..f.cut}}],
        {[item |-> i, uom |-> Uom(unit, i), date |-> 0, onHand |-> BookedBy(f, i, f.cut),
          reserved |-> f.reserved[i], available |-> BookedBy(f, i, f.cut) - f.reserved[i],
          backorder |-> f.backorder[i]] : i \in Items})

Docs(f, unit) ==
  LET master == MasterDoc(unit)
      prior  == PriorDoc(f, unit)
  IN [calendar |-> CalendarDoc, master |-> master, prior_inventory |-> prior,
      forecast |-> ForecastDoc(f, unit, CalendarDoc, master),
      customer_orders |-> OrdersDoc(f, unit), receipts |-> ReceiptsDoc(f, unit),
      policies |-> PoliciesDoc(f, unit), inventory |-> InventoryDoc(f, unit, prior)]

-----------------------------------------------------------------------------
(* The request for a set of documents, and the claim the Platform makes.     *)

CanonicalDocs(docs) ==
  LET known == IF docs["master"].adapter = "CANONICAL_V1" THEN docs["master"].rows
               ELSE MappedRows(docs["master"], {})
      own(k) == [id |-> docs[k].id, status |-> docs[k].status,
                 rows |-> MappedRows(docs[k], known), meta |-> docs[k].meta]
  IN [k \in Kinds |->
        IF Parents(k) = {} THEN own(k)
        ELSE [own(k) EXCEPT !.meta.parents = [p \in Parents(k) |-> own(p)]]]

Bound(claim) == claim @@ [planKey |-> PlanKey(claim), identity |-> SiteIdentity(claim)]

World1(docs, f, context, environment, universe, upstream) ==
  LET rules == [EA |-> [tolerance |-> 0], KG |-> [tolerance |-> 1]]
      c == [context |-> context, rules |-> rules, universe |-> universe,
            upstream |-> upstream, snapshots |-> CanonicalDocs(docs)]
      claim == [run |-> "run", cycle |-> "cycle", demandRun |-> "demand", plan |-> "plan",
                scope |-> Here, plant |-> "S", configId |-> "site", config |-> "config",
                configHash |-> "rules", context |-> ContextBinding(c),
                policy |-> [revision |-> "config", hash |-> "rules", version |-> "2.0.0"],
                classification |-> [id |-> "snapshot", hash |-> "policies"],
                trade |-> Nothing, gates |-> [publish |-> TRUE, order |-> FALSE],
                strategy |-> [config |-> "rules", policies |-> "policies",
                              analysis |-> Nothing, cost |-> Nothing],
                inputs |-> [k \in Kinds |-> ClaimableInput(c, k)]]
  IN [request |-> [context |-> context, rules |-> rules, universe |-> universe,
                   upstream |-> upstream, sources |-> docs, controls |-> MCControls],
      deployment |-> [company |-> "C", environment |-> environment],
      desk |-> docs, late |-> {}, catalog |-> <<>>, facts |-> f,
      policies |-> [snapshot |-> "snapshot", hash |-> "policies", config |-> "rules"],
      claim |-> Bound(claim)]

Usual(docs, f) == World1(docs, f, [MCContext EXCEPT !.cut = f.cut], "PRODUCTION", Nothing, Nothing)

Histories == {Usual(Docs(f, unit), f) : f \in {FactsOf(m, cut) : m \in Moves, cut \in {-1, 0}},
                                        unit \in {"EA", "KG"}}

-----------------------------------------------------------------------------
(* Documents that are wrong in one way, pinned as they are.                  *)

Good == Docs(Clean, "EA")

\* What was made against a document follows it.
Followed(docs) ==
  [docs EXCEPT !["forecast"].meta.parents = [calendar |-> docs["calendar"], master |-> docs["master"]],
               !["inventory"].meta.parents = [prior_inventory |-> docs["prior_inventory"]]]

\* The row of item a of a document, changed.
RowA(kind, change(_)) ==
  {IF r.item = "a" THEN change(r) ELSE r : r \in Good[kind].rows}
Edited(kind, changed) == Followed([Good EXCEPT ![kind] = changed])
EditedRows(kind, change(_)) == Edited(kind, [Good[kind] EXCEPT !.rows = RowA(kind, change)])
EditedMeta(kind, field, value) == Edited(kind, [Good[kind] EXCEPT !.meta[field] = value])
Without(kind, out(_)) == Edited(kind, [Good[kind] EXCEPT !.rows = {r \in @ : ~out(r)}])

\* The position, its unit, its date and its reservation.
WrongStock ==
  {EditedRows("inventory", LAMBDA r : [r EXCEPT !.onHand = 4, !.available = 3]),
   EditedRows("inventory", LAMBDA r : [r EXCEPT !.available = 3]),
   EditedRows("inventory", LAMBDA r : [r EXCEPT !.uom = "BOX"]),
   EditedRows("inventory", LAMBDA r : [r EXCEPT !.date = 7]),
   EditedRows("prior_inventory", LAMBDA r : [r EXCEPT !.eoh = 2]),
   EditedMeta("inventory", "treatment", "UNKNOWN"),
   EditedMeta("inventory", "watermark", "other"),
   EditedMeta("inventory", "position", "POLICY_PROXY"),
   Edited("inventory", [Good["inventory"] EXCEPT !.asOf = 7]),
   Edited("prior_inventory", [Good["prior_inventory"] EXCEPT !.asOf = -2, !.meta.asOf = -2]),
   Edited("prior_inventory", [Good["prior_inventory"] EXCEPT !.asOf = -2]),
   [Good EXCEPT !["inventory"].meta.parents = [prior_inventory |-> PriorDoc(Clean, "KG")]],
   Without("inventory", LAMBDA r : r.item = "a")}

\* The plan, its items and its demand.
WrongDemand ==
  {Edited("calendar", [CalendarDoc EXCEPT !.rows[2].end = 12]),
   Edited("calendar", [CalendarDoc EXCEPT !.rows[4].end = 19]),
   EditedMeta("master", "revision", "old"),
   Edited("master", [Good["master"] EXCEPT !.asOf = 7]),
   Edited("master", [Good["master"] EXCEPT !.rows = @ \cup {[item |-> "a", uom |-> "KG", active |-> TRUE, stocked |-> TRUE]}]),
   EditedRows("master", LAMBDA r : [r EXCEPT !.active = FALSE]),
   [Good EXCEPT !["forecast"].meta.parents = [calendar |-> CalendarDoc, master |-> MasterDoc("KG")]],
   EditedMeta("forecast", "run", "before"),
   EditedMeta("forecast", "runStatus", "RUNNING"),
   EditedMeta("forecast", "scope", There),
   Without("forecast", LAMBDA r : r.item = "a" /\ r.week = 2),
   EditedRows("forecast", LAMBDA r : [r EXCEPT !.mode = "UPSTREAM_NETTED", !.gross = 2, !.consumed = 1]),
   EditedRows("customer_orders", LAMBDA r : [r EXCEPT !.week = 9]),
   EditedMeta("customer_orders", "coverage", "UNAVAILABLE"),
   Edited("customer_orders", [Good["customer_orders"] EXCEPT !.status = "COLLECTING"])}

\* The supply and its terms.
WrongSupply ==
  {EditedMeta("receipts", "coverage", "UNAVAILABLE"),
   Edited("receipts", [Good["receipts"] EXCEPT !.origin = "UNKNOWN_SOURCE"]),
   Edited("receipts", [Good["receipts"] EXCEPT !.origin = "SYNTHETIC_SOURCE"]),
   EditedRows("receipts", LAMBDA r : [r EXCEPT !.due = -2]),
   EditedRows("receipts", LAMBDA r : [r EXCEPT !.type = "SYNTHETIC_PURCHASE_ORDER"]),
   EditedRows("receipts", LAMBDA r : [r EXCEPT !.id = "p3"]),
   Without("policies", LAMBDA r : r.from = 14),
   Edited("policies", [Good["policies"] EXCEPT !.rows = @ \cup {PolicyRow(Clean, "EA", "b", 1, 0, 7)}]),
   EditedRows("policies", LAMBDA r : [r EXCEPT !.multiple = 0])}

Irregular == {Usual(docs, Clean) : docs \in WrongStock \cup WrongDemand \cup WrongSupply}
               \cup {Usual([Good EXCEPT !["receipts"].id = <<"policies">>], Clean)}

-----------------------------------------------------------------------------
(* Documents in the forms of the source systems.                             *)

InForm(kind, adapter, terms, row(_)) ==
  [Good[kind] EXCEPT !.adapter = adapter, !.terms = terms, !.rows = {row(r) : r \in @}]

Selector(site, run) ==
  [scope |-> site, run |-> run, plan |-> "plan", week |-> 1, from |-> 1, series |-> "F"]

SystemForms(site, model, lead, code) ==
  Followed(
   [Good EXCEPT
    !["master"]    = InForm("master", "DSDM_MASTER_V1", Nothing,
                       LAMBDA r : [item |-> r.item, use |-> r.active, stock |-> r.stocked]),
    !["forecast"]  = InForm("forecast", "DSDM_FORECAST_V1", [selector |-> Selector(site, "demand")],
                       LAMBDA r : [item |-> r.item, week |-> r.week, qty |-> r.qty,
                                   series |-> "F", model |-> model]),
    !["inventory"] = InForm("inventory", "ERP_POSITION_V1", [basis |-> "ON_HAND"],
                       LAMBDA r : [item |-> IF r.item = "a" THEN code ELSE r.item, date |-> r.date,
                                   boh |-> r.onHand, reserved |-> r.reserved,
                                   available |-> r.available, backorder |-> r.backorder]),
    !["policies"]  = InForm("policies", "SOURCE_POLICY_V1", [lead |-> lead],
                       LAMBDA r : [item |-> r.item, policy |-> r.policy, from |-> r.from, to |-> r.to,
                                   lead |-> IF lead = "WEEK" THEN r.lead \div 7 ELSE r.lead,
                                   moq |-> r.moq, lot |-> r.multiple, capacity |-> r.cap,
                                   level |-> r.level])])

DueInForm(docs) ==
  [docs EXCEPT !["receipts"] =
     InForm("receipts", "UNVERIFIED_DUE_IN_V1", Nothing,
            LAMBDA r : [id |-> r.id, item |-> r.item, due |-> r.due, qty |-> r.qty])]

Unpromised == [Clean EXCEPT !.purchases = {[p EXCEPT !.promised = FALSE] : p \in @}]

Forms ==
  {Usual(SystemForms(Here, "SUCCEEDED", lead, "a"), Clean) : lead \in {"WEEK", "DAY"}}
    \cup {Usual(DueInForm(SystemForms(Here, "SUCCEEDED", "WEEK", "a")), Unpromised),
          Usual(SystemForms(There, "SUCCEEDED", "WEEK", "a"), Clean),
          Usual(SystemForms(Here, "FAILED", "WEEK", "a"), Clean)}

-----------------------------------------------------------------------------
(* Development: chosen items, generated stock, publication.                  *)

Develop(docs, universe, upstream) ==
  World1(docs, Clean, MCContext, "DEVELOPMENT", universe, upstream)

Upstream == [calendar |-> CalendarDoc, master |-> MasterDoc("EA"), forecast |-> Good["forecast"]]

Chosen(classified, reason, ends) ==
  [classified |-> classified, included |-> {"a"}, week |-> 1, run |-> "demand",
   excluded |-> {[item |-> "b", reason |-> reason, ends |-> ends]},
   master |-> MasterDoc("EA"), forecast |-> Good["forecast"]]

\* The site's documents hold the chosen items alone.
ChosenDocs(u) ==
  LET kept == [k \in Kinds |->
                 IF k \in {"calendar", "master"} THEN Good[k]
                 ELSE [Good[k] EXCEPT !.rows = {r \in @ : r.item = "a"}]]
  IN Followed([kept EXCEPT !["forecast"].id = CopyName(<<"forecast">>, u)])

Universes ==
  {Chosen(FALSE, "EXCLUDED_ENDED_DEMAND_WINDOW", 1), Chosen(FALSE, "EXCLUDED_ENDED_DEMAND_WINDOW", 2),
   Chosen(TRUE, "EXCLUDED_DEVELOPMENT_SAMPLE", 0),
   [Chosen(TRUE, "EXCLUDED_DEVELOPMENT_SAMPLE", 0) EXCEPT !.master = MasterDoc("KG")],
   [Chosen(TRUE, "EXCLUDED_DEVELOPMENT_SAMPLE", 0) EXCEPT !.excluded = {}]}

Generator(docs, stock, supply) ==
  LET made(k) == [docs[k] EXCEPT !.origin = "SYNTHETIC_SOURCE", !.meta.position = "SYNTHETIC_BOH",
                                 !.meta.generator = stock]
      bought == {[r EXCEPT !.type = "SYNTHETIC_PURCHASE_ORDER"] : r \in docs["receipts"].rows}
  IN Followed([docs EXCEPT !["inventory"] = made("inventory"),
                           !["prior_inventory"] = made("prior_inventory"),
                           !["receipts"].rows = bought, !["receipts"].meta.generator = supply])

\* The stock of another day under the name of the pinned document.
Other == FactsOf({Movement(<<-3, -3>>, "ISSUE")}, 0)
LateDocs == {Docs(Other, "EA")[k] : k \in {"inventory", "prior_inventory"}}

Development ==
  {Develop(ChosenDocs(u), u, Upstream) : u \in Universes}
    \cup {Develop(Generator(Good, "g1", g), Nothing, Nothing) : g \in {"g1", "g2"}}
    \cup {World1(Generator(Good, "g1", "g1"), Clean, MCContext, "PRODUCTION", Nothing, Nothing)}
    \cup {[Develop(Good, Nothing, Nothing) EXCEPT !.late = LateDocs],
          [Develop(Good, Nothing, Nothing) EXCEPT !.catalog = <<"receipts">> :> Other],
          [Develop(Good, Nothing, Nothing) EXCEPT
             !.catalog = <<"inventory">> :> CanonicalDocs(Good)["inventory"]]}

-----------------------------------------------------------------------------
(* Claims for something else.                                                *)

Mine == Usual(Good, Clean)
Rebound(claim) ==
  [Mine EXCEPT !.claim = [claim EXCEPT !.planKey = PlanKey(claim), !.identity = SiteIdentity(claim)]]

\* Priced and analysed, and what such a claim can have wrong.
Costs    == [set |-> "trade", hash |-> "costs", destination |-> "S", valued |-> 0]
Analysis == [config |-> "site", revision |-> "config", snapshot |-> "snapshot"]
Priced(trade, cost, analysis) ==
  Rebound([Mine.claim EXCEPT !.trade = trade, !.strategy.cost = cost, !.strategy.analysis = analysis])
Traded == [id |-> "trade", hash |-> "costs"]
Pricings ==
  {Priced(Traded, Costs, Analysis), Priced(Nothing, Costs, Nothing),
   Priced(Traded, [Costs EXCEPT !.hash = "old"], Nothing),
   Priced(Traded, [Costs EXCEPT !.destination = "T"], Nothing),
   Priced(Traded, [Costs EXCEPT !.valued = 7], Nothing),
   Priced(Nothing, Nothing, [Analysis EXCEPT !.snapshot = "before"])}

\* Gates, strategies and policies of another configuration or version.
Unfit ==
  {Rebound([Mine.claim EXCEPT !.gates = [publish |-> FALSE, order |-> TRUE]]),
   Rebound([Mine.claim EXCEPT !.strategy.config = "old"]),
   Rebound([Mine.claim EXCEPT !.strategy.policies = "old"]),
   Rebound([Mine.claim EXCEPT !.policy.version = "1.0.0"]),
   Rebound([Mine.claim EXCEPT !.classification = Nothing]),
   Rebound([Mine.claim EXCEPT !.classification = Nothing, !.policy.version = "1.0.0",
                              !.context = Nothing, !.gates = Nothing, !.strategy = Nothing]),
   [Mine EXCEPT !.policies.snapshot = "before"], [Mine EXCEPT !.policies.config = "old"]}

Claims == Pricings \cup Unfit \cup
  {[Mine EXCEPT !.claim.run = "before"], [Mine EXCEPT !.claim.demandRun = "before"],
   [Mine EXCEPT !.claim.context = [@ EXCEPT !.cut = -1]],
   [Mine EXCEPT !.claim.identity = <<>>],
   [Mine EXCEPT !.claim = Usual(Docs(Other, "EA"), Other).claim, !.facts = Other],
   [Usual(Docs(Other, "EA"), Other) EXCEPT !.claim = Mine.claim, !.facts = Clean]}

MCWorld == Histories \cup Irregular \cup Forms \cup Development \cup Claims
=============================================================================
