---------------------------- MODULE MCPolicyChain ----------------------------
(* Two items of a site, plans of two and four weeks, a holdout path, studies of two *)
(* periods and experiments of four or five, for TLC.                                *)
EXTENDS PolicySegmentation

MCFactor == [k \in Levels |-> IF k < 9000 THEN 84 ELSE 164]
MCCase   == {"short", "long", "holdout"}

\* The name of a configuration is its hash, a sequence as that of a rebuilt one.
Rule(name, search, ml) ==
  [name |-> <<name>>, type |-> "SEVEN_AXIS", search |-> search,
   ved |-> [enabled |-> TRUE, default |-> "D", assigned |-> [i \in {} |-> "V"]],
   cells |-> [s \in Segments |-> [level |-> 8000, review |-> 1,
                strategy |-> IF ml /\ s = <<"B", "Y">> THEN "PREDICTIVE_ML" ELSE "MATHEMATICAL"]],
   floor |-> [V |-> 9700, E |-> 9000, D |-> 7000],
   overlays |-> [fsn |-> [F |-> "ALLOW", S |-> "REVIEW", N |-> "BLOCK"],
                 sde |-> [S |-> "P90", D |-> "P90", E |-> "P50"],
                 hml |-> [H |-> "HIGH_VALUE", M |-> "STANDARD", L |-> "AUTO"],
                 plc |-> [g \in AxisClasses.PLC |-> "ALLOW"]]]

Profile(kinds, rmos, emos, levels, reviews) ==
  [kinds |-> kinds, rmos |-> rmos, emos |-> emos, levels |-> levels, reviews |-> reviews]
SearchOf(cost, minFill, groups) ==
  [enabled |-> TRUE, lookback |-> 13, limit |-> 8, minFill |-> minFill, groups |-> groups,
   overrides |-> [i \in {} |-> Nothing], cost |-> cost]

Off == [status |-> "NOT_APPLICABLE", class |-> None, mode |-> "SHADOW", reason |-> None,
        days |-> <<>>]
On(class) == [Off EXCEPT !.status = "CLASSIFIED", !.class = class, !.mode = "OPERATIONAL"]
AxesOf(segment, moving, days) ==
  [a \in Axes |->
     CASE a = "ABC" -> On(segment[1]) [] a = "XYZ" -> On(segment[2]) [] a = "VED" -> On("D")
       [] a = "FSN" /\ moving # None -> On(moving)
       [] a = "SDE" /\ days # <<>> -> [On("D") EXCEPT !.days = days]
       [] OTHER -> Off]

ItemOf(config, status, segment, moving, days) ==
  [status |-> status, segment |-> segment, ved |-> "D",
   policy |-> DeriveV2([status |-> status, segment |-> segment,
                        ved |-> [class |-> "D"]], AxesOf(segment, moving, days), config)]

SnapshotWith(config, first, second) ==
  [config |-> config.name, revision |-> 1, scope |-> "site", windowEnd |-> 0, items |-> <<first, second>>]

PlanOf(weeks, stock, demand, receipt, lead, most) ==
  [weeks |-> weeks, stock |-> [available |-> stock, reserved |-> 0, backorder |-> 0],
   demand |-> [w \in 1..weeks |-> [order |-> demand[w], forecast |-> 1]],
   receipt |-> [w \in 1..weeks |-> receipt[w]],
   policy |-> [w \in 1..weeks |-> [lead |-> lead, multiple |-> 2, moq |-> 0, cap |-> Nothing]],
   control |-> [orderDates |-> 1..weeks, maxOrder |-> 40, minTarget |-> 0, maxTarget |-> most],
   allowed |-> {"HOLD", "ORDER_QTY", "ORDER_UP_TO"}]

History(mean) == [mean |-> mean, dev |-> 1, missing |-> FALSE]

RequestOf(name, contract, snapshot, plans, second) ==
  [name |-> name, mode |-> "LOCAL_SHADOW", contract |-> contract, weeks |-> plans[1].weeks,
   lookback |-> 13, revision |-> 1, scope |-> "site", start |-> 1,
   binding |-> IF contract = "2.0.0" THEN [snapshot |-> snapshot, config |-> snapshot.config]
                                     ELSE Nothing,
   bound |-> [i \in DOMAIN plans |-> PolicyHash(snapshot.items[i].policy)],
   plans |-> plans, history |-> <<History(3), second>>, pinned |-> {}]

\* Demand grows in the holdout; the last week confirms a late receipt.
Usual   == <<2, 3, 2, 3>>
Growing == <<3, 4, 4, 5>>
NoLate  == <<0, 0, 0, 0>>
Late    == <<0, 0, 0, 6>>

WorldOf(config, snapshot, contract, second, late, lead, most) ==
  LET plans(weeks, demand) ==
        <<PlanOf(weeks, 6, demand, late, lead, most), PlanOf(weeks, 9, demand, NoLate, 7, 40)>>
      case(name, weeks, demand, trace, split, seed) ==
        [request |-> RequestOf(name, contract, snapshot, plans(weeks, demand), second),
         catalog |-> Nothing, trace |-> trace, split |-> split, seed |-> seed]
  IN [config |-> config, snapshot |-> snapshot, study |-> Nothing, experiment |-> Nothing,
      cases |-> [c \in MCCase |->
        CASE c = "short" -> case(c, 2, Usual, "usual", "VALIDATION", 1)
          [] c = "long" -> case(c, 4, Usual, "usual", "VALIDATION", 1)
          [] c = "holdout" -> case(c, 4, Growing, "growing", "HOLDOUT", 2)],
      costs |-> [own |-> config.search.cost,
                 dear |-> [holding |-> 9, backlog |-> 1, fixed |-> 1, variable |-> 0]],
      reference |-> "long", cost |-> "own", pairs |-> {<<"short", "long">>}]

Cheap == [holding |-> 1, backlog |-> 8, fixed |-> 5, variable |-> 1]
Free  == [holding |-> 0, backlog |-> 0, fixed |-> 0, variable |-> 0]
Two   == Profile({"ROP_FIXED_Q"}, {100}, {50, 100}, {8000}, {1})
Four  == Profile(Kinds, {50}, {50}, {8000}, {1, 2})
Group(p) == [s \in {<<"A", "X">>, <<"B", "Y">>} |-> p]

C1 == Rule("plain", SearchOf(Cheap, 60, Group(Four)), FALSE)
C2 == Rule("free", SearchOf(Free, 0, Group(Two)), FALSE)
C3 == Rule("unpriced", SearchOf(Nothing, 60, <<"A", "X">> :> Four), FALSE)
C4 == Rule("learned", SearchOf(Cheap, 60, Group(Two)), TRUE)

A(config, moving, days)  == ItemOf(config, "CLASSIFIED", <<"A", "X">>, moving, days)
B(config, moving) == ItemOf(config, "CLASSIFIED", <<"B", "Y">>, moving, <<>>)
Unclassified(config) == ItemOf(config, "UNCLASSIFIED", <<"A", "X">>, None, <<>>)

-----------------------------------------------------------------------------
(* Catalogs and studies.                                                    *)

MCRange(rmos) == Profile({"ROP_FIXED_Q"}, rmos, {50}, {9500}, {1})
MCRanges == [SMALL |-> MCRange({0, 50}), MEDIUM |-> MCRange({50, 100}),
             LARGE |-> MCRange({100, 150})]

Strict == [SearchOf(Cheap, 95, Group(Two)) EXCEPT !.lookback = 26]
C5     == Rule("strict", Strict, FALSE)
Served(segment) == ItemOf(C5, "CLASSIFIED", segment, None, <<>>)
S5     == SnapshotWith(C5, Served(<<"A", "Z">>), Served(<<"B", "Y">>))

\* The first item is steady and the second one erratic, with the longer lead time.
Steady  == [mean |-> 3, dev |-> 1, missing |-> FALSE]
Erratic == [mean |-> 1, dev |-> 2, missing |-> FALSE]
Lead    == <<7, 14>>

\* One unit of every week is ordered, the rest is forecast or realised.
Forecast(stock, demand, lead) ==
  [PlanOf(4, stock, demand, NoLate, lead, 40) EXCEPT
     !.demand = [w \in 1..4 |-> [order |-> 1, forecast |-> demand[w]]]]

StudyRequest(snapshot, name, week, first, second) ==
  [RequestOf(name, "2.0.0", snapshot,
     <<Forecast(4, first, Lead[1]), Forecast(6, second, Lead[2])>>,
     Erratic) EXCEPT !.lookback = 26, !.start = week, !.history = <<Steady, Erratic>>]

Source(week, unit, rows) ==
  [scope |-> "site", week |-> week, kind |-> "OBSERVED_PINNED", generated |-> FALSE,
   available |-> 0, unit |-> unit, rows |-> rows]
Recorded26(week, stats) == [weeks |-> Window(week), numbers |-> TRUE, stats |-> stats]
PriceOf(cost) == [cost |-> cost, currency |-> "USD", asOf |-> 0]

\* price has no row for an item whose cost is not known.
Features(snapshot, week, price, exceptions) ==
  [context |-> [scope |-> "site", week |-> week, day |-> 7, master |-> 7, cutoff |-> 0,
                config |-> C5.name, snapshot |-> snapshot],
   uom |-> <<"EA", "EA">>, calendar |-> Window(week),
   abc |-> [i \in 1..2 |-> [segment |-> snapshot.items[i].segment, assigned |-> TRUE]],
   exceptions |-> exceptions,
   sources |-> [history |-> [semantics |-> "UNCENSORED_DEMAND", closed |-> Window(week)]
                              @@ Source(week, "EA", <<Recorded26(week, Steady),
                                                      Recorded26(week, Erratic)>>),
                lead |-> Source(week, "DAY", Lead), price |-> Source(week, "EA", price)]]

Period(snapshot, name, week, first, realized, price) ==
  [name |-> name, split |-> "HOLDOUT", synthetic |-> TRUE,
   plan |-> StudyRequest(snapshot, name, week, first, <<1, 1, 1, 1>>),
   replay |-> StudyRequest(snapshot, name, week, realized, <<1, 2, 1, 2>>),
   feature |-> Features(snapshot, week, price, {})]

StudyOf(cases) ==
  [protocol |-> [minFill |-> 95, lookback |-> 26, allowed |-> {}, weeks |-> 4,
                 items |-> {1, 2}, periods |-> [spring |-> 1, autumn |-> 5],
                 used |-> {<<20, 30>>}, cost |-> Cheap],
   cases |-> cases]

NoCases == [c \in {} |-> Nothing]
StudyWorld(snapshot, s) ==
  [config |-> C5, snapshot |-> snapshot, study |-> s, experiment |-> Nothing, cases |-> NoCases,
   costs |-> [own |-> Cheap], reference |-> "short", cost |-> "own", pairs |-> {}]

Honest(snapshot) ==
  StudyOf(<<Period(snapshot, "spring", 1, Usual, Growing, <<PriceOf(5), PriceOf(5)>>),
            Period(snapshot, "autumn", 5, Growing, Usual, <<PriceOf(120)>>)>>)

ByHand == [scope |-> "site", item |-> 1, profile |-> "MEDIUM", from |-> 7, to |-> 14]
CatalogWorld(snapshot, honest, mode) ==
  [StudyWorld(snapshot, Nothing) EXCEPT !.cases =
     "short" :> [request |-> honest.cases[1].plan,
                 catalog |-> [mode |-> mode,
                              feature |-> [honest.cases[1].feature EXCEPT !.exceptions = {ByHand}]],
                 trace |-> "usual", split |-> "VALIDATION", seed |-> 1]]

StudyWorlds(snapshot, honest) ==
  <<StudyWorld(snapshot, honest),
    StudyWorld(snapshot, [honest EXCEPT !.protocol.periods.autumn = 4]),
    StudyWorld(snapshot, [honest EXCEPT !.cases[2].feature.calendar = Window(4)]),
    StudyWorld(snapshot, [honest EXCEPT !.cases[1].feature.sources["lead"].rows = <<7, 7>>]),
    CatalogWorld(snapshot, honest, "LEGACY_STYLE"),
    CatalogWorld(snapshot, honest, "ABC_XYZ_SHARED_BUDGET"),
    CatalogWorld(snapshot, honest, Wide)>>

-----------------------------------------------------------------------------
(* Experiments: what an item is routed to depends on how erratic it is.     *)

MCProfiles == [p \in 1..3 |->
  Profile({"ROP_FIXED_Q"}, CASE p = 1 -> {0} [] p = 2 -> {50, 100} [] p = 3 -> {150}, {50},
          {8000}, {1})]

C6 == Rule("trial", [SearchOf(Cheap, 80, Group(Two)) EXCEPT !.lookback = 26], FALSE)
S6 == SnapshotWith(C6, ItemOf(C6, "CLASSIFIED", <<"A", "X">>, None, <<>>),
                       ItemOf(C6, "CLASSIFIED", <<"B", "Z">>, None, <<>>))

TrialRequest(contract, snapshot, name, week, first, second, histories) ==
  [RequestOf(name, contract, snapshot,
     <<Forecast(4, first, Lead[1]), Forecast(6, second, Lead[2])>>,
     Erratic) EXCEPT !.lookback = 26, !.start = week, !.history = histories]

TrialCase(contract, snapshot, name, split, week, first, realized, histories) ==
  [name |-> name, split |-> split, synthetic |-> TRUE,
   plan |-> TrialRequest(contract, snapshot, name, week, first, <<1, 1, 1, 1>>, histories),
   replay |-> TrialRequest(contract, snapshot, name, week, realized, <<1, 2, 1, 2>>, histories)]

Calm  == <<Steady, Erratic>>
Rough == <<[Steady EXCEPT !.dev = 3], [Erratic EXCEPT !.mean = 2]>>
Sharp == <<3, 6, 6, 6>>
\* With contract 1.1.0 a request may be searched under any configuration; one of
\* contract 2.0.0 is bound to the configuration its items were classified under.
MCTrialCases(snapshot, contract) ==
  <<TrialCase(contract, snapshot, "t1", "TRAIN", 1, Usual, Usual, Calm),
    TrialCase(contract, snapshot, "t2", "TRAIN", 5, Usual, Sharp, Rough),
    TrialCase(contract, snapshot, "v1", "VALIDATION", 9, Growing, Sharp, Rough),
    TrialCase(contract, snapshot, "h1", "HOLDOUT", 13, Usual, Growing, Calm),
    TrialCase(contract, snapshot, "h2", "HOLDOUT", 17, Growing, Sharp, Rough)>>

TrialOf(cases) ==
  [cases |-> cases, profiles |-> MCProfiles,
   fixed |-> [s \in Segments |-> IF s[2] = "Z" THEN 3 ELSE 2]]

TrialWorld(snapshot, cases) ==
  [StudyWorld(snapshot, Nothing) EXCEPT !.config = C6, !.experiment = TrialOf(cases)]

TrialWorlds(snapshot, cases) ==
  <<TrialWorld(snapshot, cases), TrialWorld(snapshot, Reverse(cases)),
    TrialWorld(snapshot, SubSeq(cases, 1, 3)),
    TrialWorld(snapshot, [cases EXCEPT ![3].plan.start = 7, ![3].replay.start = 7])>>

MCWorld ==
  <<WorldOf(C1, SnapshotWith(C1, A(C1, "F", <<>>), B(C1, "N")), "2.0.0", History(2), NoLate, 7, 40),
   WorldOf(C2, SnapshotWith(C2, A(C2, "S", <<7, 14>>), B(C2, None)), "1.1.0", History(2), Late,
           8, 40),
   WorldOf(C2, SnapshotWith(C2, A(C2, None, <<>>), B(C2, None)), "2.0.0", History(0), NoLate,
           14, 20),
   WorldOf(C3, SnapshotWith(C3, A(C3, None, <<>>), B(C3, None)), "2.0.0", History(2), NoLate,
           0, 40),
   WorldOf(C1, SnapshotWith(C1, A(C1, None, <<>>), Unclassified(C1)), "1.1.0", History(2), Late,
           0, 40),
   WorldOf(C1, SnapshotWith(C1, A(C1, None, <<>>), Unclassified(C1)), "2.0.0", History(2),
           NoLate, 0, 40),
   WorldOf(C4, SnapshotWith(C4, A(C4, None, <<>>), B(C4, None)), "1.1.0", History(2), NoLate,
           0, 40)>>
  \o StudyWorlds(S5, Honest(S5)) \o TrialWorlds(S6, MCTrialCases(S6, "1.1.0"))
  \o <<TrialWorld(S6, MCTrialCases(S6, "2.0.0"))>>

ASSUME \A w \in DOMAIN MCWorld : SearchConfigValid(MCWorld[w].config.search)
=============================================================================
