----------------------------- MODULE PolicyChain -----------------------------
(***************************************************************************)
(* The development chain from a prepared input to a compared policy: three  *)
(* entry points (policy_search, policy_selection, policy_sensitivity) that  *)
(* meet only in files and in one append-only directory of sealed artifacts, *)
(* whose name is the hash of its content.                                   *)
(*                                                                          *)
(* A world is what the inputs of a run of the chain are: a configuration, a *)
(* classification snapshot, the requests of the cases and the evaluation    *)
(* asked for.  A file is a record that a later step reads; between two      *)
(* steps it may be edited and sealed again.                                 *)
(***************************************************************************)
EXTENDS PolicySensitivity, CandidateCatalog

CONSTANTS
  World,   \* the sequence of what may be given
  Case     \* the names of the cases

Edits == {"METRICS", "ELIGIBLE", "ROW", "ORDER", "DUPLICATE", "POP", "GATE_VERSION"}

VARIABLES
  world,      \* what is given, which no step changes
  results,    \* the search result file of each case, when there is one
  edited,     \* the case whose file was edited, when one was
  store,      \* the artifacts of the directory
  outcome     \* what selecting or comparing came to, and how far it was written

vars == <<world, results, edited, store, outcome>>

Init ==
  /\ \E w \in DOMAIN World : world = World[w]
  /\ results = [c \in Case |-> Nothing]
  /\ edited = Nothing
  /\ store = {}
  /\ outcome = Nothing

Given == world

\* Artifacts of three contracts, each named by its content.
SearchArtifact(result) == [kind |-> "PSR", value |-> result]
ResultArtifact(kind, value) == [kind |-> kind, value |-> value]
Evaluable(result) == result # Nothing /\ result.status \in {"EVALUATED", "CATALOG_EVALUATED"}
GivenCases == DOMAIN Given.cases

-----------------------------------------------------------------------------
(* Edits, as the tests make them.                                           *)

OnFirst(result, change(_)) ==
  LET good == {k \in DOMAIN result.children : result.children[k].status = "SUCCEEDED"}
  IN IF good = {} THEN result ELSE [result EXCEPT !.children[Min(good)] = change(@)]

AmendedResult(result, e) ==
  LET last == Len(result.children)
  IN CASE e = "METRICS" -> OnFirst(result, LAMBDA c : [c EXCEPT !.metrics.cost = 0])
       [] e = "ELIGIBLE" -> OnFirst(result, LAMBDA c : [c EXCEPT !.eligible = ~@])
       [] e = "ROW" -> OnFirst(result, LAMBDA c : [c EXCEPT !.rows[1].psi.eoh = @ + 9])
       [] e = "ORDER" -> OnFirst(result, LAMBDA c : [c EXCEPT !.orders = {}])
       [] e = "GATE_VERSION" ->
            OnFirst(result, LAMBDA c : [c EXCEPT !.decisions[1].admission.version = "1.0.0"])
       [] e = "POP" /\ last > 0 -> [result EXCEPT !.children = SubSeq(@, 1, last - 1)]
       [] e = "DUPLICATE" /\ last > 0 -> [result EXCEPT !.children = Append(@, @[1])]
       [] OTHER -> result

-----------------------------------------------------------------------------
(* The entry points.  Bounds of the model: a file is edited once every case *)
(* was searched, and one selection or one comparison is made.               *)

\* A case is searched with the configured profiles or with the catalog it names.
CatalogOf(case) ==
  IF case.catalog = Nothing THEN Nothing
  ELSE ProduceCatalog(case.catalog.mode, case.catalog.feature)

Searched(case) == SearchBound(case.request, Given.config, Given.snapshot, CatalogOf(case))

Search(c) ==
  /\ c \in GivenCases /\ results[c] = Nothing /\ outcome = Nothing
  /\ results' = [results EXCEPT ![c] = Searched(Given.cases[c])]
  /\ store' = store \cup (IF Evaluable(results'[c]) THEN {SearchArtifact(results'[c])} ELSE {})
  /\ UNCHANGED <<world, edited, outcome>>

Amend(c, e) ==
  /\ c \in GivenCases /\ edited = Nothing /\ outcome = Nothing
  /\ \A d \in GivenCases : Evaluable(results[d])
  /\ results' = [results EXCEPT ![c] = AmendedResult(@, e)]
  /\ results' # results
  /\ edited' = c
  /\ UNCHANGED <<world, store, outcome>>

OutcomeOf(kind, value, cases, sound) ==
  [kind |-> kind, value |-> value, cases |-> cases,
   stage |-> IF value.status = sound THEN "COMPUTED" ELSE "REFUSED"]

Selected(source, case) ==
  IF case.catalog = Nothing THEN RunPolicySelection(source)
  ELSE SelectionAgainst(source, Searched(case))

\* Nothing is written before the whole file was replayed and ranked.
Select(c) ==
  /\ outcome = Nothing /\ Evaluable(results[c])
  /\ outcome' = OutcomeOf("PSEL", Selected(results[c], Given.cases[c]), {c}, "COMPUTED")
  /\ UNCHANGED <<world, results, edited, store>>

EvaluationRequest(cases) ==
  [cases |-> [c \in cases |-> [source |-> results[c], trace |-> Given.cases[c].trace,
                               split |-> Given.cases[c].split, seed |-> Given.cases[c].seed]],
   costs |-> Given.costs, reference |-> Given.reference, cost |-> Given.cost,
   pairs |-> {pair \in Given.pairs : {pair[1], pair[2]} \subseteq cases}]

Evaluate(cases) ==
  /\ outcome = Nothing /\ \A c \in cases : Evaluable(results[c])
  /\ outcome' = OutcomeOf("PSENS", RunPolicySensitivity(EvaluationRequest(cases)), cases,
                          "EVALUATED")
  /\ UNCHANGED <<world, results, edited, store>>

\* The sources are published first, one after the other.
WriteParent(c) ==
  /\ outcome # Nothing /\ outcome.stage = "COMPUTED" /\ c \in outcome.cases
  /\ SearchArtifact(results[c]) \notin store
  /\ store' = store \cup {SearchArtifact(results[c])}
  /\ UNCHANGED <<world, results, edited, outcome>>

\* The store replays an artifact from its stored sources before it keeps it.
WriteOutcome ==
  /\ outcome # Nothing /\ outcome.stage = "COMPUTED"
  /\ \A c \in outcome.cases : SearchArtifact(results[c]) \in store
  /\ store' = store \cup {ResultArtifact(outcome.kind, outcome.value)}
  /\ outcome' = [outcome EXCEPT !.stage = "WRITTEN"]
  /\ UNCHANGED <<world, results, edited>>

Next ==
  \/ \E c \in Case : Search(c) \/ Select(c) \/ WriteParent(c) \/ \E e \in Edits : Amend(c, e)
  \/ \E cases \in SUBSET Case : Given.reference \in cases /\ Evaluate(cases)
  \/ WriteOutcome

Spec == Init /\ [][Next]_vars

-----------------------------------------------------------------------------
(* Properties.                                                              *)

\* A selection was made in this step; a comparison was, and it was not refused.
Chosen(kind) == outcome = Nothing /\ outcome' # Nothing /\ outcome'.kind = kind
Compared     == Chosen("PSENS") /\ outcome'.stage = "COMPUTED"

\* What the inputs of case c make of a candidate, with the same arithmetic and from the
\* request alone: its metrics when it may be chosen, else nothing.
Able(metrics, gate) ==
  IF metrics.feasible /\ ~gate /\ metrics.cost # Nothing THEN metrics ELSE Nothing

Prospect(run, search, a) ==
  IF run = Nothing THEN Nothing
  ELSE Able(EvaluatedRows(run.rows, run.decisions, run.orders, search.cost, search.minFill),
            OrderGate(a))

\* The best candidates: none that may be chosen has a smaller key.
BestAmong(prospect) ==
  LET able   == {x \in DOMAIN prospect : prospect[x] # Nothing}
      key(x) == <<prospect[x].cost, prospect[x].holding, prospect[x].count>> \o CandidateKey(x)
  IN {x \in able : ~\E y \in able : Before(key(y), key(x))}

\* The candidates that the profiles or the catalog of a case have for an item.
OfferedTo(w, c, i) ==
  CandidatesFor(w.config.search, i, w.snapshot.items[i], CatalogOf(w.cases[c]))

BestOf(w, c, i, a) ==
  LET r    == w.cases[c].request
      item == w.snapshot.items[i]
  IN BestAmong([x \in OfferedTo(w, c, i) |->
       Prospect(Simulated(r.plans[i], x, r.history[i], a, LevelFloor(w.config, item)),
                w.config.search, a)])

\* A selection that is computed rests on what the inputs really give: for every item
\* that was searched it names the candidate that is cheapest, then leanest, then with
\* fewest orders, among those that really meet the service level and are not held back
\* by the item's policy, and no candidate when there is none; an edited file is refused
\* or leads to the very same choice (policy_selection.py:164-318, 431-584).
SelectionIsTrue ==
  [][Chosen("PSEL") =>
       LET c     == CHOOSE x \in Case : outcome'.cases = {x}
           value == outcome'.value
       IN /\ edited # c => value.status = "COMPUTED"
          /\ value.status = "COMPUTED" =>
               \A i \in DOMAIN value.items :
                 IF i \in DOMAIN results[c].excluded THEN value.items[i].candidate = Nothing
                 ELSE BestOf(Given, c, i, AdmissionOf(Given.snapshot.items[i]))
                        = {value.items[i].candidate} \ {Nothing}]_vars

\* Repricing a validation case with the costs it was searched with leads to the choice
\* the selection makes from the same file, with the same reasons, and to the same
\* candidates left out (policy_sensitivity.py:80-111, 239-288).
Confirms(row, chosen) ==
  \A i \in DOMAIN row : /\ row[i].candidate = chosen[i].candidate
                        /\ row[i].assessments = chosen[i].decisions

RepricingConfirmsSelection ==
  [][Compared =>
       \A c \in OfSplit(outcome'.value.request.cases, "VALIDATION"),
          p \in DOMAIN Given.costs :
         Given.costs[p] = results[c].search.cost =>
           Confirms(outcome'.value.matrix[c][p], RunPolicySelection(results[c]).items)]_vars

\* The longer of two plans decides as the shorter one does until an order could not
\* arrive within the shorter plan or supply is confirmed for after it: the first action
\* in which they differ has one of these two reasons (policy_sensitivity.py:334-410).
HorizonEffectsExplained ==
  [][Compared =>
       LET q == outcome'.value.request
       IN \A pair \in q.pairs :
            \A c \in DOMAIN outcome'.value.terminal[pair] :
              LET t     == outcome'.value.terminal[pair][c]
                  child == CHOOSE d \in ToSet(q.cases[pair[1]].source.children) :
                             d.candidate = c
                  later == q.cases[pair[2]].source.baselines[c.item]
              IN t.status = "COMPARED" /\ t.changed # {} =>
                   \/ "ARRIVAL_OUTSIDE_PLAN_HORIZON"
                        \in child.decisions[Min(t.changed)].validation.reasons
                   \/ \E w \in t.weeks + 1 .. Len(later) : later[w].receipt > 0]_vars

\* Holdout cases judge and never choose: without them the locked policy, the choices of
\* every validation case and what changed are the same, and every holdout row states the
\* locked policy (policy_sensitivity.py:269-333).
SameChoices(e, alone) ==
  /\ alone.status = "EVALUATED" /\ e.locked = alone.locked /\ e.changes = alone.changes

HoldoutNeverChooses ==
  [][Compared =>
       LET e == outcome'.value
       IN /\ SameChoices(e, RunPolicySensitivity(
                              EvaluationRequest(OfSplit(e.request.cases, "VALIDATION"))))
          /\ \A i \in DOMAIN e.locked :
               e.locked[i] = e.matrix[Given.reference][Given.cost][i].candidate
          /\ \A x \in DOMAIN e.holdout, p \in DOMAIN Given.costs :
               \A i \in DOMAIN e.holdout[x][p] :
                 /\ e.holdout[x][p][i].candidate = e.locked[i]
                 /\ e.matrix[x][p][i].candidate = Nothing]_vars

\* What a comparison may conclude: no more about the horizon than what has a
\* cause in it, nothing from the holdout, and of the costs searched with what the
\* selection concludes.
ComparisonSound ==
  HorizonEffectsExplained /\ HoldoutNeverChooses /\ RepricingConfirmsSelection
=============================================================================
