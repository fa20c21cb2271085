--------------------------- MODULE ProjectionRows ---------------------------
(***************************************************************************)
(* The relational rows of a sealed result (inventory_evidence/             *)
(* projection_source.py and target_result_projection.py).  The projector   *)
(* reads the verified bundle, its optional policy analysis and the         *)
(* optional target result, and emits the rows of nineteen tables that      *)
(* refer to each other by foreign keys declared in the physical contract.  *)
(* No key is looked up: each is composed again wherever a row refers to    *)
(* another, so what is emitted in one branch must be emitted with the same *)
(* key in the other.                                                       *)
(*                                                                         *)
(* A sealed result is a record:                                            *)
(*   items, weeks     the calculated universe of the prepared input        *)
(*   claim            [publish, order], the gates the claim expects open   *)
(*   header           "SOURCE", "ANALYSIS" or "NONE": where the            *)
(*                    classification header was sealed                     *)
(*   facts            the rows of the canonical snapshots, each            *)
(*                    [kind, item, week, id]                               *)
(*   children         the children of the bundle                           *)
(*   analysis         the sealed searches, selection and sensitivity       *)
(*   target           the search and selection of the target calculation   *)
(*   costs            landed-cost children, each with its number of rows   *)
(* A row is [table, key, refs, open, by]: refs are the <<table, key>> it   *)
(* refers to, open the automatic actions it permits, by the emission that  *)
(* wrote it, so that two emissions of one key stay two rows.               *)
(***************************************************************************)
EXTENDS Integers, FiniteSets

Row(table, key, refs, by) ==
    [table |-> table, key |-> key, refs |-> refs, open |-> {}, by |-> by]

\* A row may narrow the permission of its item, never widen the claim's; an
\* order is automatic only where its publication is.
GatesOf(claim, publish, order) ==
    (IF publish /\ claim.publish THEN {"PUBLISH"} ELSE {})
      \cup (IF publish /\ claim.publish /\ order /\ claim.order THEN {"ORDER"} ELSE {})

\* What the projector wrote before the claim was taken into account.
UngatedOf(claim, publish, order) ==
    (IF publish THEN {"PUBLISH"} ELSE {}) \cup (IF order THEN {"ORDER"} ELSE {})

OpenedBy(gated, claim, publish, order) ==
    IF gated THEN GatesOf(claim, publish, order) ELSE UngatedOf(claim, publish, order)

Buffer(item) == <<"buffer", <<item>>>>
Week(week)   == <<"calendar_bucket", <<week>>>>
Snapshot(t)  == <<"snapshot_manifest", <<t>>>>
Child(id)    == <<"result_child", <<id>>>>
Context      == <<"plan_context", <<>>>>

-----------------------------------------------------------------------------
(* The inputs of the run.                                                  *)

SnapshotTypes ==
    { "CALENDAR", "MASTER", "DEMAND_FORECAST", "CUSTOMER_ORDERS", "INVENTORY_POSITION",
      "PRIOR_INVENTORY", "SUPPLY_RECEIPTS", "REPLENISHMENT_POLICY" }

FactTable ==
    [ forecast  |-> [table |-> "demand", source |-> "DEMAND_FORECAST"],
      orders    |-> [table |-> "demand", source |-> "CUSTOMER_ORDERS"],
      current   |-> [table |-> "inventory_position", source |-> "INVENTORY_POSITION"],
      prior     |-> [table |-> "inventory_position", source |-> "PRIOR_INVENTORY"],
      receipt   |-> [table |-> "scheduled_receipt", source |-> "SUPPLY_RECEIPTS"],
      policy    |-> [table |-> "inventory_policy", source |-> "REPLENISHMENT_POLICY"] ]

FactKey(fact) ==
    CASE fact.kind \in {"forecast", "orders"} -> <<fact.item, fact.week, fact.kind>>
      [] fact.kind \in {"current", "prior"}   -> <<fact.item, fact.kind>>
      [] fact.kind = "receipt"                -> <<fact.id>>
      [] fact.kind = "policy"                 -> <<fact.item, fact.id>>

FactRows(w) ==
    { Row(FactTable[fact.kind].table, FactKey(fact),
          { Buffer(fact.item), Snapshot(FactTable[fact.kind].source) }
            \cup (IF fact.kind \in {"forecast", "orders"} THEN { Week(fact.week) } ELSE {}),
          <<"facts", fact>>) : fact \in { f \in w.facts : f.kind \in DOMAIN FactTable } }

\* A cut-off reconciliation belongs to the site, a stock continuity to an item.
ReconciliationRows(w) ==
    { Row("inventory_reconciliation", <<fact.id>>,
          { Context } \cup (IF fact.item \in w.items THEN { Buffer(fact.item) } ELSE {}),
          <<"recon", fact>>) : fact \in { f \in w.facts : f.kind = "reconciliation" } }

InputRows(w) ==
    { Row("plan_context", <<>>, {}, <<"context">>) }
      \cup { Row("snapshot_manifest", <<t>>, { Context }, <<"snapshots">>) : t \in SnapshotTypes }
      \cup { Row("snapshot_manifest", <<"INVENTORY_CLASSIFICATION">>, { Context }, <<"header">>) :
                 x \in { w.header } \ {"NONE"} }
      \cup { Row("calendar_bucket", <<week>>, { Snapshot("CALENDAR") }, <<"calendar">>) : week \in w.weeks }
      \cup { Row("location", <<>>, { Snapshot("MASTER") }, <<"site">>) }
      \cup { Row("item", <<item>>, { Snapshot("MASTER") }, <<"master">>) : item \in w.items }
      \cup { Row("buffer", <<item>>, { <<"item", <<item>>>>, <<"location", <<>>>> }, <<"master">>) :
                 item \in w.items }
      \cup FactRows(w) \cup ReconciliationRows(w)

-----------------------------------------------------------------------------
(* States, proposals and the policies they were calculated with.           *)

PsiKey(child, item, simulation, week) == <<child, item, simulation, week>>

\* The states of one simulation, each with the candidate it was evaluated for.
PsiRows(child, states, simulation, candidate) ==
    { Row("psi_bucket", PsiKey(child, at[1], simulation, at[2]),
          { Child(child), Buffer(at[1]), Week(at[2]) }
            \cup { <<"policy_candidate", <<child, at[1], c>>>> : c \in candidate },
          <<"psi", child, simulation>>) : at \in states }

\* A decision's identity is the run's; a simulation beside the base one
\* composes its own from it.
ProposalId(simulation, decision) ==
    IF simulation = "BASE" THEN <<decision.item, decision.week>>
    ELSE <<simulation, decision.item, decision.week>>

\* A decision becomes a proposal, the policy it was calculated with and one
\* diagnostic for each reason code.  Only an admitted decision of the operational child
\* that the guard kept may open a gate.
ActionRows(claim, child, decisions, role, simulation, gated) ==
    UNION { LET at   == PsiKey(child, d.item, simulation, d.week)
                auto == d.admitted /\ role = "OPERATIONAL" /\ d.verdict \in {"ACCEPTED", "ADJUSTED"}
            IN  { [Row("replenishment_proposal", <<child, ProposalId(simulation, d)>>,
                       { <<"psi_bucket", at>> }, <<"actions", child, simulation>>)
                   EXCEPT !.open = OpenedBy(gated, claim, auto /\ d.publish, auto /\ d.order)],
                  Row("policy_result", at, { <<"psi_bucket", at>> }, <<"actions", child, simulation>>) }
                \cup { Row("replenishment_diagnostic", <<child, simulation, d.item, d.week, n>>,
                           { Context, Child(child), Buffer(d.item), Week(d.week) },
                           <<"actions", child, simulation>>) : n \in 1 .. d.reasons } :
            d \in decisions }

\* The bundle, an analysis and a cost calculation each register their children.
ResultChild(id) == <<"RESULT", id>>

BundleRows(w) ==
    { Row("result_bundle", <<>>, { Context, Child(ResultChild(w.effective)) }, <<"bundle">>) }

\* Every child is registered; a child that succeeded carries its states, and
\* unless it is the baseline its proposals.
ChildRows(w, gated) ==
    UNION { { Row("result_child", <<ResultChild(c.id)>>, { <<"result_bundle", <<>>>> }, <<"children", ResultChild(c.id)>>) }
            \cup (IF c.status = "SUCCEEDED"
                    THEN PsiRows(ResultChild(c.id), c.states, "BASE", {}) ELSE {})
            \cup (IF c.status = "SUCCEEDED" /\ c.strategy # "NONE"
                    THEN ActionRows(w.claim, ResultChild(c.id), c.decisions, c.role, "BASE", gated) ELSE {}) :
            c \in w.children }

-----------------------------------------------------------------------------
(* The policy analysis: searches, selections and sensitivity.  The child   *)
(* of an analysis document is identified by the document's own hash.       *)

AnalysisChild(hash) == <<"AN", hash>>

Registered(id, by) == { Row("result_child", <<id>>, { <<"result_bundle", <<>>>> }, by) }

Succeeded(search) == { c \in search.candidates : c.status = "SUCCEEDED" }

\* The evaluation of one candidate in one context: its search may be another
\* child than the one that evaluates it.
EvaluationId(child, searchChild, item, candidate, context) ==
    <<child, searchChild, item, candidate, context>>

EvaluationRow(child, searchChild, item, candidate, context) ==
    Row("policy_evaluation", EvaluationId(child, searchChild, item, candidate, context),
        { Child(child), <<"policy_candidate", <<searchChild, item, candidate>>>> },
        <<"evaluation", child, searchChild>>)

\* The states and decisions of a candidate are rows only in the search of the run.
CandidateDetail(claim, search, role, c, gated) ==
    LET child == AnalysisChild(search.hash) IN
    IF role = "SEARCH"
    THEN PsiRows(child, c.states, c.id, {c.id})
         \cup ActionRows(claim, child, c.decisions, "EVIDENCE_ONLY", c.id, gated)
    ELSE {}

\* A search registers its child and all its candidates, the failed ones too.
SearchRows(claim, search, role, gated) ==
    LET child == AnalysisChild(search.hash)
        by    == <<"search", role, search.hash>>
    IN  Registered(child, by)
        \cup { Row("policy_candidate", <<child, c.item, c.id>>, { Child(child), Buffer(c.item) }, by) :
                c \in search.candidates }
        \cup UNION { CandidateDetail(claim, search, role, c, gated)
                       \cup { EvaluationRow(child, child, c.item, c.id, <<"CTX", search.hash>>) } :
                     c \in Succeeded(search) }

\* What was chosen for each item points at the evaluation in the first search.
SelectionRows(selection, first) ==
    LET child  == AnalysisChild(selection.hash)
        source == AnalysisChild(first.hash)
    IN  Registered(child, <<"selection">>)
        \cup { Row("policy_selection", <<child, item>>,
                   { Child(child), Buffer(item) }
                     \cup { <<"policy_evaluation",
                               EvaluationId(source, source, item, c, <<"CTX", first.hash>>)>> :
                             c \in selection.choice[item] },
                   <<"selection">>) : item \in DOMAIN selection.choice }

\* The defect in which the candidates of a case are sought in the sensitivity itself.
SensitivityOfItself(evaluation) ==
    LET child == AnalysisChild(evaluation.hash) IN
    Registered(child, <<"sensitivity">>)
      \cup { EvaluationRow(child, child, m.item, m.candidate,
                           <<"CTX", evaluation.hash, m.case, m.profile>>) :
              m \in { x \in evaluation.matrix : x.metrics } }

\* Each case of a sensitivity evaluates the candidates of its own search at
\* each cost profile; a candidate without metrics has no row.
SensitivityRows(evaluation) ==
    LET child == AnalysisChild(evaluation.hash) IN
    Registered(child, <<"sensitivity">>)
      \cup { EvaluationRow(child, AnalysisChild(m.search), m.item, m.candidate,
                           <<"CTX", evaluation.hash, m.case, m.profile>>) :
              m \in { x \in evaluation.matrix : x.metrics } }

\* The search of the run may be the reference case of a sensitivity: it is a
\* document of its own, not also a source of the evaluation.
EvaluationSources(analysis) == { s \in analysis.cases : s.hash # analysis.search.hash }

AnalysisRows(claim, search, sources, selection, evaluations, gated) ==
    SearchRows(claim, search, "SEARCH", gated)
      \cup (UNION { SearchRows(claim, s, "EVALUATION_SOURCE", gated) : s \in sources })
      \cup SelectionRows(selection, search)
      \cup UNION { SensitivityRows(e) : e \in evaluations }

AnalysisOf(w, gated) ==
    IF w.analysis.bound
    THEN AnalysisRows(w.claim, w.analysis.search, EvaluationSources(w.analysis),
                      w.analysis.selection, w.analysis.evaluations, gated)
    ELSE {}

-----------------------------------------------------------------------------
(* The target result.                                                      *)

SelectedSimulation == "SELECTED_ORDER_PLAN"

\* The plan of the selected policies repeats the decisions of each selected
\* candidate and keeps the baseline of every other item, so its states cover
\* the universe and its decisions only the selected items.
PlanDecisions(target) ==
    UNION { c.decisions : c \in { x \in target.search.candidates :
                                     x.id \in target.selection.choice[x.item] } }

\* A target search the analysis already holds is not registered again.
SharesSearch(w) == w.analysis.bound /\ w.target.search.hash = w.analysis.search.hash
SharesSelection(w) == w.analysis.bound /\ w.target.selection.hash = w.analysis.selection.hash

TargetRows(w, gated) ==
    LET target == w.target
        plan   == AnalysisChild(target.selection.hash)
        source == AnalysisChild(target.search.hash)
    IN  (IF SharesSearch(w) THEN {}
         ELSE AnalysisRows(w.claim, target.search, {}, target.selection, {}, gated))
        \cup PsiRows(plan, w.items \X w.weeks, SelectedSimulation, {})
        \cup ActionRows(w.claim, plan, PlanDecisions(target), "EVIDENCE_ONLY", SelectedSimulation, gated)
        \cup { Row("replenishment_diagnostic", <<target.search.hash, c.id, "FAILED">>,
                   { Context, Child(source), Buffer(c.item) }, <<"failed candidates">>) :
                c \in { x \in target.search.candidates : x.status = "FAILED" } }

CostRows(w) == UNION { Registered(<<"COST", c.id>>, <<"costs">>) : c \in w.costs }

-----------------------------------------------------------------------------
(* The projection.  linked says that the reader of the target result is    *)
(* wired to the projector.                                                 *)

Tables(w, linked, gated) ==
    InputRows(w) \cup BundleRows(w) \cup ChildRows(w, gated) \cup AnalysisOf(w, gated)
      \cup (IF linked THEN TargetRows(w, gated) ELSE {}) \cup CostRows(w)

SearchesOf(w, linked) ==
    (IF w.analysis.bound THEN {w.analysis.search} \cup EvaluationSources(w.analysis) ELSE {})
      \cup (IF linked /\ ~SharesSearch(w) THEN {w.target.search} ELSE {})

\* The searches whose candidates are written with their states.
DetailedSearches(w, linked) ==
    (IF w.analysis.bound THEN {w.analysis.search} ELSE {})
      \cup (IF linked /\ ~SharesSearch(w) THEN {w.target.search} ELSE {})

CoverageBreached(w, linked) ==
    \/ \E c \in w.children : c.status = "SUCCEEDED" /\ c.states # w.items \X w.weeks
    \/ \E s \in DetailedSearches(w, linked) : \E c \in Succeeded(s) : c.states # {c.item} \X w.weeks

DuplicateKey(rows) ==
    \E r, q \in rows : r # q /\ r.table = q.table /\ r.key = q.key

\* The first reason the projector refuses a result for, or "NONE".
Refusal(w, linked) ==
    CASE w.classified /\ w.header = "NONE" -> "PROJECTION_CLASSIFICATION_HEADER_REQUIRED"
      [] CoverageBreached(w, linked) -> "PROJECTION_PSI_COVERAGE_MISMATCH"
      [] \E s \in SearchesOf(w, linked) : s.baseline # w.items ->
             "PROJECTION_SEARCH_ITEM_COVERAGE_MISMATCH"
      [] linked /\ SharesSearch(w) # SharesSelection(w) -> "TARGET_LINK_ANALYSIS_SELECTION_CONFLICT"
      [] \E c \in w.costs : c.rows = 0 -> "PROJECTION_EMPTY_SUCCESS_CHILD"
      [] DuplicateKey(Tables(w, linked, TRUE)) -> "PROJECTION_DUPLICATE_PK"
      [] OTHER -> "NONE"

Keys(rows) == { <<r.table, r.key>> : r \in rows }

\* Every row refers to rows that are there.
Referential(rows) == \A r \in rows : r.refs \subseteq Keys(rows)
-----------------------------------------------------------------------------
(* What the sealed documents guarantee of each other: a search, a          *)
(* selection, an evaluation and a target result are made again from their  *)
(* own inputs before they are sealed and whenever they are read.           *)

FactsSound(w) ==
    \A fact \in w.facts : fact.kind \in DOMAIN FactTable =>
        /\ fact.item \in w.items
        /\ fact.kind \in {"forecast", "orders"} => fact.week \in w.weeks

\* The candidates of a search are of the items of the run, each decision of its
\* own candidate and of a week of the horizon.
SearchSound(w, search) ==
    \A c \in search.candidates :
        /\ c.item \in w.items
        /\ \A d \in c.decisions : d.item = c.item /\ d.week \in w.weeks

\* What is selected for an item is a candidate of it that succeeded.
SelectionSound(w, selection, search) ==
    \A item \in DOMAIN selection.choice :
        /\ item \in w.items
        /\ \A id \in selection.choice[item] :
              \E c \in Succeeded(search) : c.item = item /\ c.id = id

\* What a case of an evaluation measures is a candidate of the search of the case.
SensitivitySound(evaluation, searches) ==
    \A m \in evaluation.matrix : m.metrics =>
        \E s \in searches : /\ s.hash = m.search
                            /\ \E c \in s.candidates : c.item = m.item /\ c.id = m.candidate

\* Documents of one hash are one document.
AnalysisSound(w, analysis) ==
    LET searches == {analysis.search} \cup analysis.cases IN
    /\ \A s \in searches :
          SearchSound(w, s) /\ (s.hash = analysis.search.hash => s = analysis.search)
    /\ SelectionSound(w, analysis.selection, analysis.search)
    /\ \A e \in analysis.evaluations : SensitivitySound(e, searches)

Sound(w) ==
    /\ FactsSound(w)
    /\ \E c \in w.children : c.id = w.effective
    /\ \A c \in w.children : \A d \in c.decisions : d.item \in w.items /\ d.week \in w.weeks
    /\ w.analysis.bound => AnalysisSound(w, w.analysis)
    /\ SearchSound(w, w.target.search)
    /\ SelectionSound(w, w.target.selection, w.target.search)

=============================================================================
