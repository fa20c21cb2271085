--------------------------- MODULE CandidateCatalog ---------------------------
(***************************************************************************)
(* The catalog of candidates of a plan and the search and selection that    *)
(* use it (classify_inventory/candidate_catalog.py,                         *)
(* recommend_replenishment/application/catalog_search.py and                *)
(* catalog_selection.py).  Three modes answer the same question with other  *)
(* ranges: by class of demand variability, by the three factors, and by the *)
(* union of all ranges, which the other two are measured against.           *)
(*                                                                          *)
(* First the segmentation by three factors (legacy_features.py,             *)
(* legacy_style.py): the cover of the reorder point, the physical lead time *)
(* and the unit cost.  A feature request is [context, uom, calendar, abc,   *)
(* exceptions, sources]: the context of a plan, the unit of each item, the  *)
(* weeks of history, the classification it goes with, the ranges set by     *)
(* hand, and three sources, each Nothing or a pinned record whose rows are  *)
(* functions over items.  Weeks are numbered as those of a plan, days as    *)
(* the calendar has them; a history row holds the weeks it covers, whether  *)
(* its numbers can be read and the statistics they have.                    *)
(*                                                                          *)
(* A catalog is identified by what it was made of; a hash stands for the    *)
(* value it is taken of, so that a catalog is verified by making it again.  *)
(***************************************************************************)
EXTENDS PolicySelection

CONSTANTS
  Ranges,     \* the range of each profile: kinds, rmos, emos, levels and reviews
  RangeSize,  \* candidates of a range, 32 in the code
  UnionSize   \* candidates of the union of the ranges, 88 in the code

Domains  == {"history", "lead", "price"}
Window(week) == (week - 26)..(week - 1)
Present(f)   == {d \in Domains : f.sources[d] # Nothing}

-----------------------------------------------------------------------------
(* What a request must be before any feature is computed.                   *)

PinRefusal(f, d) ==
  LET source == f.sources[d]
  IN First(<<
       <<source.scope # f.context.scope \/ source.week # f.context.week,
         "LS_SCOPE_OR_W0_MISMATCH">>,
       <<~(DOMAIN source.rows \subseteq DOMAIN f.uom), "LS_ORPHAN_ITEM">>,
       <<d = "history" /\ ~((UNION {source.rows[i].weeks : i \in DOMAIN source.rows}
                               \cup source.closed) \subseteq f.calendar),
         "LS_SCOPE_OR_W0_MISMATCH">> >>)

ExceptionValid(f, e) ==
  /\ e.scope = f.context.scope /\ e.item \in DOMAIN f.uom
  /\ e.profile \in {"SMALL", "MEDIUM", "LARGE"} /\ e.from < e.to

Overlap(d, e) == d # e /\ d.item = e.item /\ d.from < e.to /\ e.from < d.to

FeatureRefusal(f) ==
  LET bad == {d \in Present(f) : PinRefusal(f, d) # None}
  IN First(<<
       <<f.context.master > f.context.day, "LS_SCOPE_OR_W0_MISMATCH">>,
       <<DOMAIN f.uom = {}, "LS_SOURCE_BINDING_MISMATCH">>,
       <<f.calendar # Window(f.context.week), "LS_SCOPE_OR_W0_MISMATCH">>,
       <<DOMAIN f.abc # DOMAIN f.uom, "LS_SOURCE_BINDING_MISMATCH">>,
       <<bad # {}, IF bad = {} THEN None ELSE PinRefusal(f, CHOOSE d \in bad : TRUE)>>,
       <<\E e \in f.exceptions : ~ExceptionValid(f, e), "LS_OVERRIDE_INVALID">>,
       <<\E d, e \in f.exceptions : Overlap(d, e), "LS_OVERRIDE_DUPLICATE">> >>)

-----------------------------------------------------------------------------
(* Why an item has no features.  Nothing that is missing is filled in.      *)

ReasonOrder ==
  <<"LS_INVALID_FEATURE_VALUE", "LS_MISSING_REQUIRED_FACTOR", "LS_HISTORY_INCOMPLETE",
    "LS_SOURCE_UNVERIFIED", "LS_UNSUPPORTED_UOM", "LS_CURRENCY_MISMATCH",
    "LS_FUTURE_OR_STALE_FEATURE", "LS_NON_POSITIVE_UNIT_COST", "LS_ZERO_MEAN_DEMAND">>

When(condition, reason) == IF condition THEN {reason} ELSE {}

Verified(source) ==
  \/ source.kind = "OBSERVED_PINNED"
  \/ source.kind = "SYNTHETIC_PINNED" /\ source.generated

SourceReasons(source, cutoff) ==
  IF source = Nothing THEN {"LS_MISSING_REQUIRED_FACTOR"}
  ELSE When(~Verified(source), "LS_SOURCE_UNVERIFIED")
         \cup When(source.available > cutoff, "LS_FUTURE_OR_STALE_FEATURE")

\* One source that cannot be used leaves every item without features.
CommonReasons(f) ==
  UNION {SourceReasons(f.sources[d], f.context.cutoff) : d \in Domains}
    \cup When(\E d \in Present(f) : f.sources[d].unit # (IF d = "lead" THEN "DAY" ELSE "EA"),
              "LS_UNSUPPORTED_UOM")
    \cup When("history" \in Present(f) /\ f.sources["history"].semantics # "UNCENSORED_DEMAND",
              "LS_SOURCE_UNVERIFIED")
    \cup When("history" \in Present(f) /\ f.sources["history"].closed # f.calendar,
              "LS_HISTORY_INCOMPLETE")

RowOf(f, d, i) ==
  IF d \in Present(f) /\ i \in DOMAIN f.sources[d].rows THEN f.sources[d].rows[i] ELSE Nothing

HistoryReasons(f, row) ==
  IF row = Nothing THEN {"LS_HISTORY_INCOMPLETE"}
  ELSE When(row.weeks # f.calendar, "LS_HISTORY_INCOMPLETE")
         \cup When(~row.numbers, "LS_INVALID_FEATURE_VALUE")
         \cup When(row.weeks = f.calendar /\ row.numbers /\ row.stats.mean = 0,
                   "LS_ZERO_MEAN_DEMAND")

LeadReasons(lead) ==
  IF lead = Nothing THEN {"LS_MISSING_REQUIRED_FACTOR"}
  ELSE When(lead \notin 0..3660, "LS_INVALID_FEATURE_VALUE")

PriceReasons(f, price) ==
  IF price = Nothing THEN {"LS_MISSING_REQUIRED_FACTOR"}
  ELSE When(price.cost <= 0, "LS_NON_POSITIVE_UNIT_COST")
         \cup When(price.currency # "USD", "LS_CURRENCY_MISMATCH")
         \cup When(f.context.master - price.asOf \notin 0..91, "LS_FUTURE_OR_STALE_FEATURE")

FeatureReasons(f, i) ==
  CommonReasons(f) \cup When(f.uom[i] # "EA", "LS_UNSUPPORTED_UOM")
    \cup HistoryReasons(f, RowOf(f, "history", i))
    \cup LeadReasons(RowOf(f, "lead", i)) \cup PriceReasons(f, RowOf(f, "price", i))

PrimaryReason(reasons) ==
  IF reasons = {} THEN None
  ELSE ReasonOrder[Min({k \in DOMAIN ReasonOrder : ReasonOrder[k] \in reasons})]

-----------------------------------------------------------------------------
(* Routing: the ranks of the three factors, lower bounds included.          *)

\* The reference reorder point over the monthly demand, by cross multiplication: half a
\* month and a month and a half.
CoverRank(h, lead) ==
  Cardinality({halves \in {1, 3} : 6 * ReorderPoint(h, 9500, lead) >= halves * 13 * h.mean})

RanksOf(f, i) ==
  LET lead == RowOf(f, "lead", i)
  IN <<CoverRank(RowOf(f, "history", i).stats, lead),
       Cardinality({cut \in {14, 42} : lead >= cut}),
       Cardinality({cut \in {10, 100} : RowOf(f, "price", i).cost >= cut})>>

ProfileByScore(score) ==
  IF score <= 0 THEN "SMALL" ELSE IF score <= 2 THEN "MEDIUM" ELSE "LARGE"

FactorGroup(ranks) ==
  <<"LS1", <<"R1", "R2", "R3">>[ranks[1] + 1], <<"L1", "L2", "L3">>[ranks[2] + 1],
    <<"P1", "P2", "P3">>[ranks[3] + 1]>>

\* The range set by hand for the week of the decision; it is no eligibility of its own.
ExceptionOf(f, i) ==
  {e \in f.exceptions : e.item = i /\ e.from <= f.context.day /\ f.context.day < e.to}

\* The assignment of an item whose factors are known, or the first reason it has none.
Routed(f, i, ranks, exception) ==
  [reason |-> None, factors |-> FactorGroup(ranks),
   profile |-> IF exception # {} THEN (CHOOSE e \in exception : TRUE).profile
               ELSE ProfileByScore(ranks[1] + ranks[2] - ranks[3]),
   group |-> IF exception # {} THEN <<"LS1", "ITEM">> ELSE FactorGroup(ranks),
   range |-> IF exception # {} THEN "ITEM_OVERRIDE" ELSE "GROUP_PROFILE"]

Unrouted(reasons) ==
  [reason |-> PrimaryReason(reasons), factors |-> Nothing, profile |-> Nothing,
   group |-> Nothing, range |-> Nothing]

AssignmentOf(f, i, reasons) ==
  IF reasons # {} THEN Unrouted(reasons)
  ELSE Routed(f, i, RanksOf(f, i), IF f.abc[i].assigned THEN ExceptionOf(f, i) ELSE {})

FactorAssignments(f) == [i \in DOMAIN f.uom |-> AssignmentOf(f, i, FeatureReasons(f, i))]

-----------------------------------------------------------------------------
(* The catalogs.                                                            *)

Modes == <<"ABC_XYZ_SHARED_BUDGET", "LEGACY_STYLE", "WIDE_REFERENCE">>
Wide  == "WIDE_REFERENCE"

ByVariability == [X |-> "SMALL", Y |-> "MEDIUM", Z |-> "LARGE"]

-----------------------------------------------------------------------------
(* The candidates of an item.                                               *)

Expanded(name) ==
  Ranges[name].kinds \X Ranges[name].rmos \X Ranges[name].emos \X Ranges[name].levels
    \X Ranges[name].reviews

\* The union of the ranges, not the product of the unions of their columns.
UnionOfRanges == UNION {Expanded(name) : name \in DOMAIN Ranges}

CatalogReason(f, i, row) ==
  IF row.reason # None THEN row.reason
  ELSE IF ~f.abc[i].assigned THEN "POLICY_SEARCH_ITEM_UNCLASSIFIED" ELSE None

\* A range set by hand stands in both narrow modes.
ProfileIn(mode, f, i, row) ==
  IF mode = "ABC_XYZ_SHARED_BUDGET" /\ row.range # "ITEM_OVERRIDE"
  THEN ByVariability[f.abc[i].segment[2]] ELSE row.profile

CatalogCandidates(mode, f, i, row) ==
  LET wide == mode = Wide
      abc  == mode = "ABC_XYZ_SHARED_BUDGET"
  IN {[item |-> i, kind |-> v[1], rmos |-> v[2], emos |-> v[3], level |-> v[4],
       review |-> v[5],
       segment |-> IF wide THEN <<"WIDE">> ELSE IF abc THEN <<"ABC">> \o f.abc[i].segment
                   ELSE row.group,
       range |-> IF wide THEN "EXACT_SHARED_UNION" ELSE row.range] :
        v \in IF wide THEN UnionOfRanges ELSE Expanded(ProfileIn(mode, f, i, row))}

MakeCatalog(mode, f, rows, reasons) ==
  [status |-> "MADE", mode |-> mode, request |-> f, rows |-> rows, reasons |-> reasons,
   limit |-> IF mode = Wide THEN UnionSize ELSE RangeSize, refusal |-> None,
   candidates |-> [i \in DOMAIN rows |->
     IF reasons[i] # None THEN {} ELSE CatalogCandidates(mode, f, i, rows[i])]]

CatalogOfRows(mode, f, rows) ==
  MakeCatalog(mode, f, rows, [i \in DOMAIN rows |-> CatalogReason(f, i, rows[i])])

LibraryRefusal ==
  IF (\E name \in DOMAIN Ranges : Cardinality(Expanded(name)) # RangeSize)
       \/ Cardinality(UnionOfRanges) # UnionSize
  THEN "CATALOG_CANDIDATE_COUNT_MISMATCH" ELSE None

ProduceCatalog(mode, f) ==
  Unless(First(<<Check(FeatureRefusal(f)), Check(LibraryRefusal)>>),
         CatalogOfRows(mode, f, FactorAssignments(f)))

-----------------------------------------------------------------------------
(* What binds a catalog to the inputs of a search.                          *)

\* No row of history that can be read is another one in the plan; an item with
\* candidates has the very same rows.
HistoryBound(f, r, i, ready) ==
  LET row == RowOf(f, "history", i)
  IN IF row = Nothing THEN ~ready
     ELSE /\ row.numbers => row.stats = r.history[i]
          /\ ready => ~r.history[i].missing

InputsRefusal(catalog, r, config, snapshot) ==
  LET f     == catalog.request
      s     == config.search
      items == DOMAIN r.plans
      ready == {i \in items : i \in DOMAIN catalog.reasons /\ catalog.reasons[i] = None}
      known == {i \in items : i \in DOMAIN catalog.rows /\ catalog.rows[i].reason = None}
      both  == items \cap DOMAIN f.abc \cap DOMAIN snapshot.items
  IN First(<<
       <<f.context.scope # r.scope \/ f.context.week # r.start,
         "CATALOG_CONTEXT_BINDING_MISMATCH">>,
       <<f.context.config # config.name \/ f.context.snapshot # snapshot,
         "CATALOG_CLASSIFICATION_BINDING_MISMATCH">>,
       <<DOMAIN f.uom # items, "CATALOG_UNIVERSE_MISMATCH">>,
       <<\E i \in both :
           \/ f.abc[i].segment # snapshot.items[i].segment
           \/ f.abc[i].assigned # (snapshot.items[i].status = "CLASSIFIED"),
         "CATALOG_ABC_RESULT_MISMATCH">>,
       <<r.lookback # 26, "CATALOG_HISTORY_LOOKBACK_MISMATCH">>,
       <<f.sources["history"] # Nothing
           /\ \E i \in both : ~HistoryBound(f, r, i, i \in ready),
         "CATALOG_HISTORY_BINDING_MISMATCH">>,
       <<\E i \in known : r.plans[i].policy[1].lead # RowOf(f, "lead", i),
         "CATALOG_LEAD_TIME_BINDING_MISMATCH">>,
       <<DOMAIN s.overrides # {}, "CATALOG_CONFIG_RANGE_OVERRIDE_UNSUPPORTED">>,
       <<s.minFill # 95, "CATALOG_SERVICE_RULE_MISMATCH">>,
       <<catalog.limit > s.limit, "POLICY_SEARCH_CANDIDATE_LIMIT">> >>)

\* A catalog verified for one search; the reason of an item is asked for after its class.
Bound(catalog, r, config, snapshot) ==
  [catalog EXCEPT !.refusal = InputsRefusal(catalog, r, config, snapshot)]

\* A search without a catalog uses the configured profiles.
SearchBound(r, config, snapshot, catalog) ==
  IF catalog # Nothing /\ catalog.status = "REFUSED" THEN catalog
  ELSE SearchWith(r, config, snapshot,
                  IF catalog = Nothing THEN Nothing ELSE Bound(catalog, r, config, snapshot))

RunCatalogSearch(r, config, snapshot, mode, f) ==
  SearchBound(r, config, snapshot, ProduceCatalog(mode, f))

-----------------------------------------------------------------------------
(* The selection: the whole source is made again before anything is ranked. *)

\* Differences to doing nothing, as far as the costs are known.
BaselineComparison(metrics, base) ==
  [fulfilled |-> metrics.fulfilled - base.fulfilled, holding |-> metrics.holding - base.holding,
   backlog |-> metrics.backlog - base.backlog, count |-> metrics.count - base.count,
   endBacklog |-> metrics.endBacklog - base.endBacklog, ordered |-> metrics.ordered - base.ordered,
   cost |-> IF metrics.cost = Nothing THEN Nothing ELSE metrics.cost - base.cost]

BaselineMetrics(source, i) ==
  EvaluatedRows(source.baselines[i], <<>>, {}, source.search.cost, source.search.minFill)

WithBaseline(assessment, child, base) ==
  [assessment |-> assessment, metrics |-> child.metrics,
   comparison |-> IF child.status = "FAILED" THEN Nothing
                  ELSE BaselineComparison(child.metrics, base)]

CatalogItem(source, children, i, base) ==
  [chosen |-> RankedItem(source, i, [k \in DOMAIN children |->
                Assessed(children[k], children[k].metrics, source.search.minFill)]),
   baseline |-> base,
   compared |-> [k \in DOMAIN children |-> WithBaseline(children[k].candidate, children[k], base)]]

\* verify_catalog_selection_result: service, score and comparison agree with the metrics.
MetricsSound(metrics, minFill) ==
  /\ metrics.fulfilled <= metrics.demand
  /\ metrics.feasible <=> /\ metrics.demand > 0 /\ metrics.endBacklog = 0
                          /\ 100 * metrics.fulfilled >= minFill * metrics.demand

CatalogSelectionValid(items, minFill) ==
  /\ SelectionValid([i \in DOMAIN items |-> items[i].chosen])
  /\ \A i \in DOMAIN items :
       /\ MetricsSound(items[i].baseline, minFill)
       /\ items[i].chosen.candidate # Nothing => items[i].chosen.exclusion = None
       /\ \A k \in DOMAIN items[i].compared :
            LET metrics  == items[i].compared[k].metrics
                decision == items[i].chosen.decisions[k]
            IN decision.status # "FAILED" =>
                 /\ MetricsSound(metrics, minFill)
                 /\ decision.score # Nothing =>
                      /\ metrics.feasible /\ metrics.cost # Nothing
                      /\ decision.score.cost = metrics.cost
                      /\ decision.score.count = metrics.count

CatalogSelectionOf(source, items) ==
  IF ~CatalogSelectionValid(items, source.search.minFill)
  THEN [status |-> "REFUSED", reason |-> "CATALOG_SELECTION_CONTRACT_INVALID"]
  ELSE [status |-> "COMPUTED", parent |-> source,
        items |-> [i \in DOMAIN items |-> items[i].chosen], compared |-> items]

ChildRefusal(source, child) ==
  IF child.status = "FAILED" THEN None
  ELSE CandidateRefusal(child, source.baselines[child.candidate.item], source)

\* rebuilt is the search made again from the inputs the selection is given.
SourceRefusalFor(source, rebuilt) ==
  IF source.status # "CATALOG_EVALUATED" THEN "CATALOG_SELECTION_SOURCE_CONTRACT_INVALID"
  ELSE IF rebuilt.status = "REFUSED" THEN rebuilt.reason
  ELSE IF source # rebuilt THEN "CATALOG_PSI_REPLAY_MISMATCH" ELSE None

ReplayRefusal(source) ==
  FirstRefusal([k \in DOMAIN source.children |-> ChildRefusal(source, source.children[k])])

SelectFrom(source) ==
  Unless(ReplayRefusal(source),
         CatalogSelectionOf(source, [i \in DOMAIN source.baselines |->
           CatalogItem(source, ChildrenOfItem(source, i), i, BaselineMetrics(source, i))]))

SelectionAgainst(source, rebuilt) ==
  Unless(SourceRefusalFor(source, rebuilt), SelectFrom(source))
=============================================================================
