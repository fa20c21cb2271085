--------------------------- MODULE ResultAssemblyProofs ---------------------------
(***************************************************************************)
(* What TLAPS proves of ResultAssembly for every set of processes, results, *)
(* claims, packages and chunk sizes, and every bound.                       *)
(***************************************************************************)
EXTENDS ResultAssembly, TLAPS

-----------------------------------------------------------------------------
(* The inductive invariant.                                                 *)

-----------------------------------------------------------------------------
(* The rows refer to each other.                                           *)

\* Rows that refer only to these keys.
Refer(rows, keys) == \A r \in rows : r.refs \subseteq keys

\* The fields of a row.
LEMMA RowIs ==
    ASSUME NEW table, NEW key, NEW refs, NEW by
    PROVE  /\ Row(table, key, refs, by).table = table /\ Row(table, key, refs, by).key = key
           /\ Row(table, key, refs, by).refs = refs
    BY DEF Row

\* An emitted row can be referred to.
LEMMA RowHasKey ==
    ASSUME NEW rows, NEW table, NEW key, NEW refs, NEW by, Row(table, key, refs, by) \in rows
    PROVE  <<table, key>> \in Keys(rows)
    BY RowIs DEF Keys

\* More rows have more keys.
LEMMA MoreKeys ==
    ASSUME NEW rows, NEW more, rows \subseteq more
    PROVE  Keys(rows) \subseteq Keys(more)
    BY DEF Keys

\* The universe of a run: what every emission may refer to.
Universe(w, keys) ==
    /\ Context \in keys /\ <<"result_bundle", <<>>>> \in keys
    /\ \A item \in w.items : Buffer(item) \in keys
    /\ \A week \in w.weeks : Week(week) \in keys

\* The states of a simulation need their child, their items and weeks, and the
\* candidates they were evaluated for.
LEMMA PsiRowsRefer ==
    ASSUME NEW keys, NEW child, NEW states, NEW simulation, NEW candidate,
           Child(child) \in keys,
           \A at \in states : Buffer(at[1]) \in keys /\ Week(at[2]) \in keys,
           \A at \in states : \A c \in candidate :
               <<"policy_candidate", <<child, at[1], c>>>> \in keys
    PROVE  Refer(PsiRows(child, states, simulation, candidate), keys)
<1> SUFFICES ASSUME NEW at \in states
             PROVE  Row("psi_bucket", PsiKey(child, at[1], simulation, at[2]),
                        { Child(child), Buffer(at[1]), Week(at[2]) }
                          \cup { <<"policy_candidate", <<child, at[1], c>>>> : c \in candidate },
                        <<"psi", child, simulation>>).refs \subseteq keys
    BY DEF Refer, PsiRows
<1>1. { Child(child), Buffer(at[1]), Week(at[2]) }
        \cup { <<"policy_candidate", <<child, at[1], c>>>> : c \in candidate } \subseteq keys
    OBVIOUS
<1>2. QED
    BY <1>1, RowIs

\* The bucket of every state of a child is among the keys of its PSI rows.
LEMMA PsiRowsKeys ==
    ASSUME NEW child, NEW states, NEW simulation, NEW candidate, NEW at \in states
    PROVE  <<"psi_bucket", PsiKey(child, at[1], simulation, at[2])>>
               \in Keys(PsiRows(child, states, simulation, candidate))
    BY RowHasKey DEF PsiRows

\* A proposal and its policy need the state they were decided at; a diagnostic
\* its child, item and week.
LEMMA ActionRowsRefer ==
    ASSUME NEW keys, NEW claim, NEW child, NEW decisions, NEW role, NEW simulation, NEW gated,
           Context \in keys, Child(child) \in keys,
           \A d \in decisions :
               /\ Buffer(d.item) \in keys /\ Week(d.week) \in keys
               /\ <<"psi_bucket", PsiKey(child, d.item, simulation, d.week)>> \in keys
    PROVE  Refer(ActionRows(claim, child, decisions, role, simulation, gated), keys)
<1> SUFFICES ASSUME NEW r \in ActionRows(claim, child, decisions, role, simulation, gated)
             PROVE  r.refs \subseteq keys
    BY DEF Refer
<1> DEFINE at(d) == PsiKey(child, d.item, simulation, d.week)
<1>1. PICK d \in decisions :
          \/ \E open : r = [Row("replenishment_proposal", <<child, ProposalId(simulation, d)>>,
                                { <<"psi_bucket", at(d)>> }, <<"actions", child, simulation>>)
                            EXCEPT !.open = open]
          \/ r = Row("policy_result", at(d), { <<"psi_bucket", at(d)>> },
                     <<"actions", child, simulation>>)
          \/ \E n \in 1 .. d.reasons :
                r = Row("replenishment_diagnostic", <<child, simulation, d.item, d.week, n>>,
                        { Context, Child(child), Buffer(d.item), Week(d.week) },
                        <<"actions", child, simulation>>)
    BY ZenonT(60) DEF ActionRows
<1>2. r.refs = { <<"psi_bucket", at(d)>> }
          \/ r.refs = { Context, Child(child), Buffer(d.item), Week(d.week) }
    BY <1>1 DEF Row
<1>3. /\ { <<"psi_bucket", at(d)>> } \subseteq keys
      /\ { Context, Child(child), Buffer(d.item), Week(d.week) } \subseteq keys
    OBVIOUS
<1>4. QED
    BY <1>2, <1>3

\* A registered child refers to the result bundle, and its own key is written with it.
LEMMA RegisteredRefers ==
    ASSUME NEW keys, NEW child, NEW by, <<"result_bundle", <<>>>> \in keys
    PROVE  Refer(Registered(child, by), keys) /\ Child(child) \in Keys(Registered(child, by))
<1>1. Registered(child, by) = {Row("result_child", <<child>>, { <<"result_bundle", <<>>>> }, by)}
    BY DEF Registered
<1>2. QED
    BY <1>1, RowIs, RowHasKey DEF Refer, Child

\* A search needs the universe; what it registers is its child, its candidates
\* and the evaluation of those that succeeded.
LEMMA SearchRowsKeys ==
    ASSUME NEW claim, NEW search, NEW role, NEW gated
    PROVE  LET keys  == Keys(SearchRows(claim, search, role, gated))
               child == AnalysisChild(search.hash)
           IN  /\ Child(child) \in keys
               /\ \A c \in search.candidates :
                     <<"policy_candidate", <<child, c.item, c.id>>>> \in keys
               /\ \A c \in Succeeded(search) :
                     <<"policy_evaluation",
                       EvaluationId(child, child, c.item, c.id, <<"CTX", search.hash>>)>> \in keys
<1> DEFINE rows  == SearchRows(claim, search, role, gated)
<1> DEFINE child == AnalysisChild(search.hash)
<1> DEFINE by    == <<"search", role, search.hash>>
<1>1. Row("result_child", <<child>>, { <<"result_bundle", <<>>>> }, by) \in rows
    BY DEF SearchRows, Registered
<1>2. ASSUME NEW c \in search.candidates
      PROVE  Row("policy_candidate", <<child, c.item, c.id>>, { Child(child), Buffer(c.item) }, by)
                 \in rows
    BY DEF SearchRows
<1>3. ASSUME NEW c \in Succeeded(search)
      PROVE  EvaluationRow(child, child, c.item, c.id, <<"CTX", search.hash>>) \in rows
    BY DEF SearchRows
<1> HIDE DEF rows, child, by
<1>4. Child(child) \in Keys(rows)
    BY <1>1, RowHasKey DEF Child
<1>5. \A c \in search.candidates : <<"policy_candidate", <<child, c.item, c.id>>>> \in Keys(rows)
    BY <1>2, RowHasKey
<1>6. \A c \in Succeeded(search) :
          <<"policy_evaluation",
            EvaluationId(child, child, c.item, c.id, <<"CTX", search.hash>>)>> \in Keys(rows)
    BY <1>3, RowHasKey DEF EvaluationRow
<1>7. QED
    BY <1>4, <1>5, <1>6 DEF rows, child

\* An evaluation refers to its child and to the candidate it evaluates.
LEMMA EvaluationRefers ==
    ASSUME NEW keys, NEW child, NEW source, NEW item, NEW candidate, NEW context,
           Child(child) \in keys, <<"policy_candidate", <<source, item, candidate>>>> \in keys
    PROVE  EvaluationRow(child, source, item, candidate, context).refs \subseteq keys
    BY RowIs DEF EvaluationRow

\* The states of a candidate are the states of its item, all of them.
StatesHold(w, search) == \A c \in Succeeded(search) : c.states = {c.item} \X w.weeks

\* The rows of a search whose states and candidates are rows refer to rows.
LEMMA SearchRowsRefer ==
    ASSUME NEW keys, NEW w, NEW claim, NEW search, NEW role, NEW gated,
           Universe(w, keys), SearchSound(w, search),
           role = "SEARCH" => StatesHold(w, search),
           Keys(SearchRows(claim, search, role, gated)) \subseteq keys
    PROVE  Refer(SearchRows(claim, search, role, gated), keys)
<1> DEFINE child == AnalysisChild(search.hash)
<1> DEFINE by == <<"search", role, search.hash>>
<1>1. /\ Child(child) \in keys
      /\ \A c \in search.candidates : <<"policy_candidate", <<child, c.item, c.id>>>> \in keys
    BY SearchRowsKeys
<1>2. Refer(Registered(child, by), keys)
    BY RegisteredRefers DEF Universe
<1>3. ASSUME NEW c \in search.candidates
      PROVE  Row("policy_candidate", <<child, c.item, c.id>>,
                 { Child(child), Buffer(c.item) }, by).refs \subseteq keys
    BY <1>1, RowIs DEF Universe, SearchSound
<1>4. ASSUME NEW c \in Succeeded(search)
      PROVE  EvaluationRow(child, child, c.item, c.id, <<"CTX", search.hash>>).refs \subseteq keys
    BY <1>1, EvaluationRefers DEF Succeeded
<1>5. ASSUME NEW c \in Succeeded(search)
      PROVE  Refer(CandidateDetail(claim, search, role, c, gated), keys)
    <2>1. CASE role # "SEARCH"
        BY <2>1 DEF CandidateDetail, Refer
    <2>2. CASE role = "SEARCH"
        <3>1. /\ c \in search.candidates /\ c.item \in w.items /\ c.states = {c.item} \X w.weeks
              /\ \A d \in c.decisions : d.item = c.item /\ d.week \in w.weeks
            BY <2>2 DEF Succeeded, SearchSound, StatesHold
        <3>2. ASSUME NEW at \in c.states PROVE at[1] = c.item /\ at[2] \in w.weeks
            BY <3>1
        <3>3. /\ \A at \in c.states : Buffer(at[1]) \in keys /\ Week(at[2]) \in keys
              /\ \A at \in c.states : \A id \in {c.id} :
                    <<"policy_candidate", <<child, at[1], id>>>> \in keys
            BY <1>1, <3>1, <3>2 DEF Universe
        <3>4. Refer(PsiRows(child, c.states, c.id, {c.id}), keys)
            BY <1>1, <3>3, PsiRowsRefer
        <3>5. PsiRows(child, c.states, c.id, {c.id}) \subseteq SearchRows(claim, search, role, gated)
            <4>1. PsiRows(child, c.states, c.id, {c.id})
                      \subseteq CandidateDetail(claim, search, role, c, gated)
                BY <2>2 DEF CandidateDetail
            <4>2. CandidateDetail(claim, search, role, c, gated)
                      \subseteq SearchRows(claim, search, role, gated)
                BY DEF SearchRows
            <4>3. QED
                BY <4>1, <4>2
        <3>6. ASSUME NEW d \in c.decisions
              PROVE  /\ Buffer(d.item) \in keys /\ Week(d.week) \in keys
                     /\ <<"psi_bucket", PsiKey(child, d.item, c.id, d.week)>> \in keys
            <4>1. <<d.item, d.week>> \in c.states
                BY <3>1
            <4>2. <<"psi_bucket", PsiKey(child, d.item, c.id, d.week)>>
                      \in Keys(PsiRows(child, c.states, c.id, {c.id}))
                BY <4>1, PsiRowsKeys
            <4>3. QED
                BY <3>1, <3>5, <4>2, MoreKeys DEF Universe
        <3>7. Refer(ActionRows(claim, child, c.decisions, "EVIDENCE_ONLY", c.id, gated), keys)
            BY <1>1, <3>6, ActionRowsRefer DEF Universe
        <3>8. QED
            BY <2>2, <3>4, <3>7 DEF CandidateDetail, Refer
    <2>3. QED
        BY <2>1, <2>2
<1>6. ASSUME NEW r \in SearchRows(claim, search, role, gated)
      PROVE  r.refs \subseteq keys
    <2>1. \/ r \in Registered(child, by)
          \/ \E c \in search.candidates :
                r = Row("policy_candidate", <<child, c.item, c.id>>,
                        { Child(child), Buffer(c.item) }, by)
          \/ \E c \in Succeeded(search) : r \in CandidateDetail(claim, search, role, c, gated)
          \/ \E c \in Succeeded(search) :
                r = EvaluationRow(child, child, c.item, c.id, <<"CTX", search.hash>>)
        BY DEF SearchRows
    <2>2. QED
        BY <1>2, <1>3, <1>4, <1>5, <2>1 DEF Refer
<1>7. QED
    BY <1>6 DEF Refer

\* A selection needs the evaluations of the search it was made from.
LEMMA SelectionRowsRefer ==
    ASSUME NEW keys, NEW w, NEW selection, NEW search,
           Universe(w, keys), SelectionSound(w, selection, search),
           Keys(SelectionRows(selection, search)) \subseteq keys,
           \A c \in Succeeded(search) :
               <<"policy_evaluation",
                 EvaluationId(AnalysisChild(search.hash), AnalysisChild(search.hash), c.item, c.id,
                              <<"CTX", search.hash>>)>> \in keys
    PROVE  /\ Refer(SelectionRows(selection, search), keys)
           /\ Child(AnalysisChild(selection.hash)) \in keys
<1> DEFINE child  == AnalysisChild(selection.hash)
<1> DEFINE source == AnalysisChild(search.hash)
<1> DEFINE chosen(item) ==
        { <<"policy_evaluation", EvaluationId(source, source, item, c, <<"CTX", search.hash>>)>> :
              c \in selection.choice[item] }
<1>1. Registered(child, <<"selection">>) \subseteq SelectionRows(selection, search)
    BY DEF SelectionRows
<1>2. Child(child) \in keys
    BY <1>1, RegisteredRefers, MoreKeys DEF Universe
<1>3. Refer(Registered(child, <<"selection">>), keys)
    BY RegisteredRefers DEF Universe
<1>4. ASSUME NEW item \in DOMAIN selection.choice
      PROVE  Row("policy_selection", <<child, item>>, { Child(child), Buffer(item) } \cup chosen(item),
                 <<"selection">>).refs \subseteq keys
    <2>1. chosen(item) \subseteq keys
        BY DEF SelectionSound
    <2>2. { Child(child), Buffer(item) } \subseteq keys
        BY <1>2 DEF SelectionSound, Universe
    <2>3. QED
        BY <2>1, <2>2, RowIs
<1>5. ASSUME NEW r \in SelectionRows(selection, search)
      PROVE  r.refs \subseteq keys
    <2>1. \/ r \in Registered(child, <<"selection">>)
          \/ \E item \in DOMAIN selection.choice :
                r = Row("policy_selection", <<child, item>>,
                        { Child(child), Buffer(item) } \cup chosen(item), <<"selection">>)
        BY DEF SelectionRows
    <2>2. QED
        BY <1>3, <1>4, <2>1 DEF Refer
<1>6. QED
    BY <1>2, <1>5 DEF Refer

\* A case of a sensitivity needs the candidates of the search it was made in.
LEMMA SensitivityRowsRefer ==
    ASSUME NEW keys, NEW evaluation, NEW searches,
           <<"result_bundle", <<>>>> \in keys, SensitivitySound(evaluation, searches),
           Keys(SensitivityRows(evaluation)) \subseteq keys,
           \A s \in searches : \A c \in s.candidates :
               <<"policy_candidate", <<AnalysisChild(s.hash), c.item, c.id>>>> \in keys
    PROVE  Refer(SensitivityRows(evaluation), keys)
<1> DEFINE child == AnalysisChild(evaluation.hash)
<1>1. Registered(child, <<"sensitivity">>) \subseteq SensitivityRows(evaluation)
    BY DEF SensitivityRows
<1>2. Child(child) \in keys /\ Refer(Registered(child, <<"sensitivity">>), keys)
    BY <1>1, RegisteredRefers, MoreKeys
<1>3. ASSUME NEW m \in evaluation.matrix, m.metrics
      PROVE  EvaluationRow(child, AnalysisChild(m.search), m.item, m.candidate,
                           <<"CTX", evaluation.hash, m.case, m.profile>>).refs \subseteq keys
    <2>1. <<"policy_candidate", <<AnalysisChild(m.search), m.item, m.candidate>>>> \in keys
        BY <1>3 DEF SensitivitySound
    <2>2. QED
        BY <1>2, <2>1, EvaluationRefers
<1>4. ASSUME NEW r \in SensitivityRows(evaluation)
      PROVE  r.refs \subseteq keys
    <2>1. \/ r \in Registered(child, <<"sensitivity">>)
          \/ \E m \in evaluation.matrix :
                m.metrics /\ r = EvaluationRow(child, AnalysisChild(m.search), m.item, m.candidate,
                                               <<"CTX", evaluation.hash, m.case, m.profile>>)
        BY DEF SensitivityRows
    <2>2. QED
        BY <1>2, <1>3, <2>1 DEF Refer
<1>5. QED
    BY <1>4 DEF Refer

\* The analysis of a bundle, and a target search that is none of it, are whole.
LEMMA AnalysisRowsRefer ==
    ASSUME NEW keys, NEW w, NEW claim, NEW search, NEW sources, NEW selection, NEW evaluations,
           NEW gated, Universe(w, keys),
           \A s \in {search} \cup sources : SearchSound(w, s), StatesHold(w, search),
           SelectionSound(w, selection, search),
           \A e \in evaluations : SensitivitySound(e, {search} \cup sources),
           Keys(AnalysisRows(claim, search, sources, selection, evaluations, gated)) \subseteq keys
    PROVE  /\ Refer(AnalysisRows(claim, search, sources, selection, evaluations, gated), keys)
           /\ Child(AnalysisChild(search.hash)) \in keys
           /\ Child(AnalysisChild(selection.hash)) \in keys
<1> DEFINE rows == AnalysisRows(claim, search, sources, selection, evaluations, gated)
<1> DEFINE further(s) == SearchRows(claim, s, "EVALUATION_SOURCE", gated)
<1> DEFINE others == UNION { further(s) : s \in sources }
<1> DEFINE cases  == UNION { SensitivityRows(e) : e \in evaluations }
<1>0. rows = SearchRows(claim, search, "SEARCH", gated) \cup others
               \cup SelectionRows(selection, search) \cup cases
    BY DEF AnalysisRows
<1> HIDE DEF rows, further
<1>1. /\ SearchRows(claim, search, "SEARCH", gated) \subseteq rows
      /\ SelectionRows(selection, search) \subseteq rows
      /\ \A s \in sources : further(s) \subseteq rows
      /\ \A e \in evaluations : SensitivityRows(e) \subseteq rows
    <2>1. /\ \A s \in sources : further(s) \subseteq others
          /\ \A e \in evaluations : SensitivityRows(e) \subseteq cases
        OBVIOUS
    <2> HIDE DEF others, cases
    <2>2. QED
        BY <1>0, <2>1
<1>2. ASSUME NEW r \in rows
      PROVE  \/ r \in SearchRows(claim, search, "SEARCH", gated)
             \/ r \in SelectionRows(selection, search)
             \/ \E s \in sources : r \in further(s)
             \/ \E e \in evaluations : r \in SensitivityRows(e)
    <2>1. /\ r \in others => \E s \in sources : r \in further(s)
          /\ r \in cases => \E e \in evaluations : r \in SensitivityRows(e)
        OBVIOUS
    <2> HIDE DEF others, cases
    <2>2. QED
        BY <1>0, <2>1
<1>3. /\ Keys(SearchRows(claim, search, "SEARCH", gated)) \subseteq keys
      /\ Keys(SelectionRows(selection, search)) \subseteq keys
      /\ \A s \in sources : Keys(further(s)) \subseteq keys
      /\ \A e \in evaluations : Keys(SensitivityRows(e)) \subseteq keys
    BY <1>1, MoreKeys DEF rows
<1>4. /\ Child(AnalysisChild(search.hash)) \in keys
      /\ \A c \in Succeeded(search) :
             <<"policy_evaluation",
               EvaluationId(AnalysisChild(search.hash), AnalysisChild(search.hash), c.item, c.id,
                            <<"CTX", search.hash>>)>> \in keys
    BY <1>3, SearchRowsKeys
<1>5. \A s \in {search} \cup sources : \A c \in s.candidates :
          <<"policy_candidate", <<AnalysisChild(s.hash), c.item, c.id>>>> \in keys
    BY <1>3, SearchRowsKeys DEF further
<1>6. /\ Refer(SearchRows(claim, search, "SEARCH", gated), keys)
      /\ \A s \in sources : Refer(further(s), keys)
    <2>1. Refer(SearchRows(claim, search, "SEARCH", gated), keys)
        BY <1>3, SearchRowsRefer
    <2>2. ASSUME NEW s \in sources
          PROVE  Refer(SearchRows(claim, s, "EVALUATION_SOURCE", gated), keys)
        <3>1. Keys(SearchRows(claim, s, "EVALUATION_SOURCE", gated)) \subseteq keys
            BY <1>3 DEF further
        <3>2. SearchSound(w, s)
            OBVIOUS
        <3>3. QED
            BY <3>1, <3>2, SearchRowsRefer
    <2>3. QED
        BY <2>1, <2>2 DEF further
<1>7. /\ Refer(SelectionRows(selection, search), keys)
      /\ Child(AnalysisChild(selection.hash)) \in keys
    BY <1>3, <1>4, SelectionRowsRefer
<1>8. \A e \in evaluations : Refer(SensitivityRows(e), keys)
    BY <1>3, <1>5, SensitivityRowsRefer DEF Universe
<1>9. Refer(rows, keys)
    BY <1>2, <1>6, <1>7, <1>8 DEF Refer
<1>10. QED
    BY <1>4, <1>7, <1>9 DEF rows

\* What the inputs of a run register.
LEMMA InputRowsKeys ==
    ASSUME NEW w
    PROVE  LET keys == Keys(InputRows(w)) IN
           /\ Context \in keys
           /\ \A t \in SnapshotTypes : Snapshot(t) \in keys
           /\ <<"location", <<>>>> \in keys
           /\ \A week \in w.weeks : Week(week) \in keys
           /\ \A item \in w.items : <<"item", <<item>>>> \in keys /\ Buffer(item) \in keys
<1> DEFINE rows == InputRows(w)
<1>1. /\ Row("plan_context", <<>>, {}, <<"context">>) \in rows
      /\ \A t \in SnapshotTypes :
            Row("snapshot_manifest", <<t>>, { Context }, <<"snapshots">>) \in rows
      /\ Row("location", <<>>, { Snapshot("MASTER") }, <<"site">>) \in rows
    BY DEF InputRows
<1>2. /\ \A week \in w.weeks :
            Row("calendar_bucket", <<week>>, { Snapshot("CALENDAR") }, <<"calendar">>) \in rows
      /\ \A item \in w.items :
            Row("item", <<item>>, { Snapshot("MASTER") }, <<"master">>) \in rows
      /\ \A item \in w.items :
            Row("buffer", <<item>>, { <<"item", <<item>>>>, <<"location", <<>>>> }, <<"master">>)
                \in rows
    BY DEF InputRows
<1> HIDE DEF rows
<1>3. /\ Context \in Keys(rows) /\ \A t \in SnapshotTypes : Snapshot(t) \in Keys(rows)
      /\ <<"location", <<>>>> \in Keys(rows)
    BY <1>1, RowHasKey DEF Context, Snapshot
<1>4. /\ \A week \in w.weeks : Week(week) \in Keys(rows)
      /\ \A item \in w.items : <<"item", <<item>>>> \in Keys(rows) /\ Buffer(item) \in Keys(rows)
    BY <1>2, RowHasKey DEF Week, Buffer
<1>5. QED
    BY <1>3, <1>4 DEF rows

\* Every kind of fact comes from a snapshot of the run.
LEMMA FactSources ==
    \A kind \in DOMAIN FactTable : FactTable[kind].source \in SnapshotTypes
    BY DEF FactTable, SnapshotTypes

\* The rows of the facts the input sealed refer to rows.
LEMMA InputRowsRefer ==
    ASSUME NEW keys, NEW w, FactsSound(w), Universe(w, keys),
           Keys(InputRows(w)) \subseteq keys
    PROVE  Refer(InputRows(w), keys)
<1>1. /\ Context \in keys /\ <<"location", <<>>>> \in keys
      /\ \A t \in SnapshotTypes : Snapshot(t) \in keys
      /\ \A week \in w.weeks : Week(week) \in keys
      /\ \A item \in w.items : <<"item", <<item>>>> \in keys /\ Buffer(item) \in keys
    BY InputRowsKeys
<1>2. Snapshot("MASTER") \in keys /\ Snapshot("CALENDAR") \in keys
    BY <1>1 DEF SnapshotTypes
<1>3. ASSUME NEW r \in FactRows(w) PROVE r.refs \subseteq keys
    <2>1. PICK fact \in w.facts :
            /\ fact.kind \in DOMAIN FactTable
            /\ r = Row(FactTable[fact.kind].table, FactKey(fact),
                       { Buffer(fact.item), Snapshot(FactTable[fact.kind].source) }
                         \cup (IF fact.kind \in {"forecast", "orders"}
                               THEN { Week(fact.week) } ELSE {}),
                       <<"facts", fact>>)
        BY DEF FactRows
    <2>2. Snapshot(FactTable[fact.kind].source) \in keys /\ Buffer(fact.item) \in keys
        BY <1>1, <2>1, FactSources DEF FactsSound
    <2>3. fact.kind \in {"forecast", "orders"} => Week(fact.week) \in keys
        BY <1>1, <2>1 DEF FactsSound
    <2>4. r.refs = { Buffer(fact.item), Snapshot(FactTable[fact.kind].source) }
                     \cup (IF fact.kind \in {"forecast", "orders"} THEN { Week(fact.week) } ELSE {})
        BY <2>1, RowIs
    <2>5. QED
        BY <2>2, <2>3, <2>4
<1>4. ASSUME NEW r \in ReconciliationRows(w) PROVE r.refs \subseteq keys
    <2>1. PICK fact \in w.facts :
            r = Row("inventory_reconciliation", <<fact.id>>,
                    { Context } \cup (IF fact.item \in w.items THEN { Buffer(fact.item) } ELSE {}),
                    <<"recon", fact>>)
        BY DEF ReconciliationRows
    <2>2. r.refs = { Context } \cup (IF fact.item \in w.items THEN { Buffer(fact.item) } ELSE {})
        BY <2>1, RowIs
    <2>3. QED
        BY <1>1, <2>2
<1>5. ASSUME NEW r \in InputRows(w) PROVE r.refs \subseteq keys
    <2>1. \/ r \in FactRows(w) \/ r \in ReconciliationRows(w)
          \/ r = Row("plan_context", <<>>, {}, <<"context">>)
          \/ \E t : r = Row("snapshot_manifest", <<t>>, { Context }, <<"snapshots">>)
          \/ \E t : r = Row("snapshot_manifest", <<t>>, { Context }, <<"header">>)
          \/ \E week : r = Row("calendar_bucket", <<week>>, { Snapshot("CALENDAR") }, <<"calendar">>)
          \/ r = Row("location", <<>>, { Snapshot("MASTER") }, <<"site">>)
          \/ \E item : r = Row("item", <<item>>, { Snapshot("MASTER") }, <<"master">>)
          \/ \E item \in w.items :
                r = Row("buffer", <<item>>, { <<"item", <<item>>>>, <<"location", <<>>>> },
                        <<"master">>)
        BY DEF InputRows
    <2>2. CASE r \in FactRows(w) \/ r \in ReconciliationRows(w)
        BY <1>3, <1>4, <2>2
    <2>3. CASE r = Row("plan_context", <<>>, {}, <<"context">>)
        BY <2>3, RowIs
    <2>4. CASE \/ \E t : r = Row("snapshot_manifest", <<t>>, { Context }, <<"snapshots">>)
               \/ \E t : r = Row("snapshot_manifest", <<t>>, { Context }, <<"header">>)
        <3>1. r.refs = { Context }
            BY <2>4 DEF Row
        <3>2. QED
            BY <1>1, <3>1
    <2>5. CASE \E week :
              r = Row("calendar_bucket", <<week>>, { Snapshot("CALENDAR") }, <<"calendar">>)
        BY <1>2, <2>5, RowIs
    <2>6. CASE \/ r = Row("location", <<>>, { Snapshot("MASTER") }, <<"site">>)
               \/ \E item : r = Row("item", <<item>>, { Snapshot("MASTER") }, <<"master">>)
        <3>1. r.refs = { Snapshot("MASTER") }
            BY <2>6 DEF Row
        <3>2. QED
            BY <1>2, <3>1
    <2>7. CASE \E item \in w.items :
              r = Row("buffer", <<item>>, { <<"item", <<item>>>>, <<"location", <<>>>> },
                      <<"master">>)
        BY <1>1, <2>7, RowIs
    <2>8. QED
        BY <2>1, <2>2, <2>3, <2>4, <2>5, <2>6, <2>7
<1>6. QED
    BY <1>5 DEF Refer

\* The children of a bundle and the states and proposals of those that succeeded.
LEMMA ChildRowsRefer ==
    ASSUME NEW keys, NEW w, NEW gated, Universe(w, keys),
           \A c \in w.children : c.status = "SUCCEEDED" => c.states = w.items \X w.weeks,
           \A c \in w.children : \A d \in c.decisions : d.item \in w.items /\ d.week \in w.weeks,
           Keys(ChildRows(w, gated)) \subseteq keys
    PROVE  /\ Refer(ChildRows(w, gated), keys)
           /\ \A c \in w.children : Child(ResultChild(c.id)) \in keys
<1> DEFINE rows == ChildRows(w, gated)
<1> DEFINE own(c) ==
        Row("result_child", <<ResultChild(c.id)>>, { <<"result_bundle", <<>>>> },
            <<"children", ResultChild(c.id)>>)
<1> DEFINE states(c) == PsiRows(ResultChild(c.id), c.states, "BASE", {})
<1> DEFINE actions(c) ==
        ActionRows(w.claim, ResultChild(c.id), c.decisions, c.role, "BASE", gated)
<1>1. ASSUME NEW c \in w.children
      PROVE  own(c) \in rows /\ (c.status = "SUCCEEDED" => states(c) \subseteq rows)
    <2> DEFINE part(x) ==
            {own(x)} \cup (IF x.status = "SUCCEEDED" THEN states(x) ELSE {})
              \cup (IF x.status = "SUCCEEDED" /\ x.strategy # "NONE" THEN actions(x) ELSE {})
    <2>1. rows = UNION { part(x) : x \in w.children }
        BY DEF ChildRows
    <2>2. own(c) \in part(c) /\ (c.status = "SUCCEEDED" => states(c) \subseteq part(c))
        OBVIOUS
    <2> HIDE DEF own, states, actions, part, rows
    <2>3. QED
        BY <2>1, <2>2
<1>2. ASSUME NEW r \in rows
      PROVE  \E c \in w.children : \/ r = own(c)
                                   \/ c.status = "SUCCEEDED" /\ r \in states(c)
                                   \/ c.status = "SUCCEEDED" /\ r \in actions(c)
    BY DEF ChildRows
<1> HIDE DEF rows
<1>3. ASSUME NEW c \in w.children PROVE Child(ResultChild(c.id)) \in keys
    BY <1>1, RowHasKey DEF Child, rows
<1>4. ASSUME NEW c \in w.children, c.status = "SUCCEEDED"
      PROVE  Refer(states(c), keys) /\ Refer(actions(c), keys)
    <2>1. \A at \in c.states : Buffer(at[1]) \in keys /\ Week(at[2]) \in keys
        BY <1>4 DEF Universe
    <2>2. Refer(states(c), keys)
        BY <1>3, <2>1, PsiRowsRefer
    <2>3. ASSUME NEW d \in c.decisions
          PROVE  /\ Buffer(d.item) \in keys /\ Week(d.week) \in keys
                 /\ <<"psi_bucket", PsiKey(ResultChild(c.id), d.item, "BASE", d.week)>> \in keys
        <3>1. <<d.item, d.week>> \in c.states
            BY <1>4
        <3>2. <<"psi_bucket", PsiKey(ResultChild(c.id), d.item, "BASE", d.week)>> \in Keys(states(c))
            BY <3>1, PsiRowsKeys
        <3>3. Keys(states(c)) \subseteq keys
            BY <1>1, <1>4, MoreKeys DEF rows
        <3>4. QED
            BY <3>2, <3>3 DEF Universe
    <2>4. Refer(actions(c), keys)
        BY <1>3, <2>3, ActionRowsRefer DEF Universe
    <2>5. QED
        BY <2>2, <2>4
<1>5. ASSUME NEW c \in w.children PROVE own(c).refs \subseteq keys
    BY RowIs DEF Universe
<1> HIDE DEF own, states, actions
<1>6. Refer(rows, keys)
    BY <1>2, <1>4, <1>5 DEF Refer
<1>7. QED
    BY <1>3, <1>6 DEF rows

\* The target plan: its states cover the universe, its decisions are those of
\* the candidates that were chosen.
LEMMA TargetRowsRefer ==
    ASSUME NEW keys, NEW w, NEW gated, Universe(w, keys),
           SearchSound(w, w.target.search), SelectionSound(w, w.target.selection, w.target.search),
           ~SharesSearch(w) => StatesHold(w, w.target.search),
           SharesSearch(w) => /\ Child(AnalysisChild(w.target.search.hash)) \in keys
                              /\ Child(AnalysisChild(w.target.selection.hash)) \in keys,
           Keys(TargetRows(w, gated)) \subseteq keys
    PROVE  Refer(TargetRows(w, gated), keys)
<1> DEFINE target == w.target
<1> DEFINE plan   == AnalysisChild(target.selection.hash)
<1> DEFINE source == AnalysisChild(target.search.hash)
<1> DEFINE rows   == TargetRows(w, gated)
<1> DEFINE found  == AnalysisRows(w.claim, target.search, {}, target.selection, {}, gated)
<1> DEFINE states == PsiRows(plan, w.items \X w.weeks, SelectedSimulation, {})
<1> DEFINE actions ==
        ActionRows(w.claim, plan, PlanDecisions(target), "EVIDENCE_ONLY", SelectedSimulation, gated)
<1>1. states \subseteq rows /\ (~SharesSearch(w) => found \subseteq rows)
    BY DEF TargetRows
<1>2. ASSUME NEW r \in rows
      PROVE  \/ ~SharesSearch(w) /\ r \in found
             \/ r \in states \/ r \in actions
             \/ \E c \in target.search.candidates :
                   r = Row("replenishment_diagnostic", <<target.search.hash, c.id, "FAILED">>,
                           { Context, Child(source), Buffer(c.item) }, <<"failed candidates">>)
    BY DEF TargetRows
<1> HIDE DEF rows
<1>3. ~SharesSearch(w) => /\ Refer(found, keys)
                          /\ Child(source) \in keys /\ Child(plan) \in keys
    <2> SUFFICES ASSUME ~SharesSearch(w)
                 PROVE  Refer(found, keys) /\ Child(source) \in keys /\ Child(plan) \in keys
        OBVIOUS
    <2>1. Keys(found) \subseteq keys
        BY <1>1, MoreKeys DEF rows
    <2>2. /\ \A s \in {target.search} \cup {} : SearchSound(w, s)
          /\ StatesHold(w, target.search)
          /\ SelectionSound(w, target.selection, target.search)
          /\ \A e \in {} : SensitivitySound(e, {target.search} \cup {})
        OBVIOUS
    <2>3. PICK claim, search, selection, none :
              claim = w.claim /\ search = target.search /\ selection = target.selection /\ none = {}
        OBVIOUS
    <2>4. /\ Keys(AnalysisRows(claim, search, none, selection, none, gated)) \subseteq keys
          /\ \A s \in {search} \cup none : SearchSound(w, s)
          /\ StatesHold(w, search)
          /\ SelectionSound(w, selection, search)
          /\ \A e \in none : SensitivitySound(e, {search} \cup none)
        BY <2>1, <2>2, <2>3, Zenon
    <2>5. /\ Refer(AnalysisRows(claim, search, none, selection, none, gated), keys)
          /\ Child(AnalysisChild(search.hash)) \in keys
          /\ Child(AnalysisChild(selection.hash)) \in keys
        BY <2>4, AnalysisRowsRefer, Zenon
    <2>6. QED
        BY <2>3, <2>5, Zenon
<1>4. Child(source) \in keys /\ Child(plan) \in keys
    BY <1>3
<1>5. Refer(states, keys)
    <2>1. \A at \in w.items \X w.weeks : Buffer(at[1]) \in keys /\ Week(at[2]) \in keys
        BY DEF Universe
    <2>2. QED
        BY <1>4, <2>1, PsiRowsRefer
<1>6. Refer(actions, keys)
    <2>1. ASSUME NEW d \in PlanDecisions(target)
          PROVE  /\ Buffer(d.item) \in keys /\ Week(d.week) \in keys
                 /\ <<"psi_bucket", PsiKey(plan, d.item, SelectedSimulation, d.week)>> \in keys
        <3>1. d.item \in w.items /\ d.week \in w.weeks
            BY DEF PlanDecisions, SearchSound
        <3>2. <<"psi_bucket", PsiKey(plan, d.item, SelectedSimulation, d.week)>> \in Keys(states)
            <4>1. <<d.item, d.week>> \in w.items \X w.weeks
                BY <3>1
            <4>2. QED
                BY <4>1, PsiRowsKeys
        <3>3. Keys(states) \subseteq keys
            BY <1>1, MoreKeys DEF rows
        <3>4. QED
            BY <3>1, <3>2, <3>3 DEF Universe
    <2>2. QED
        BY <1>4, <2>1, ActionRowsRefer DEF Universe
<1>7. ASSUME NEW c \in target.search.candidates
      PROVE  Row("replenishment_diagnostic", <<target.search.hash, c.id, "FAILED">>,
                 { Context, Child(source), Buffer(c.item) },
                 <<"failed candidates">>).refs \subseteq keys
    <2>1. { Context, Child(source), Buffer(c.item) } \subseteq keys
        BY <1>4 DEF SearchSound, Universe
    <2>2. Row("replenishment_diagnostic", <<target.search.hash, c.id, "FAILED">>,
              { Context, Child(source), Buffer(c.item) }, <<"failed candidates">>).refs
              = { Context, Child(source), Buffer(c.item) }
        BY DEF Row
    <2>3. QED
        BY <2>1, <2>2
<1> HIDE DEF found, states, actions
<1>8. Refer(rows, keys)
    BY <1>2, <1>3, <1>5, <1>6, <1>7 DEF Refer
<1>9. QED
    BY <1>8 DEF rows

\* What is not refused covers its states and shares both documents or none.
LEMMA NotRefused ==
    ASSUME NEW w, NEW linked, Refusal(w, linked) = "NONE"
    PROVE  ~CoverageBreached(w, linked) /\ ~(linked /\ SharesSearch(w) # SharesSelection(w))
    BY DEF Refusal

\* Whatever the projector does not refuse it writes whole: every row refers to
\* rows of the same projection, with the result of the target calculation or
\* without, gated or not.
THEOREM RowsReferToRows ==
    ASSUME NEW w, NEW linked \in BOOLEAN, NEW gated, Sound(w), Refusal(w, linked) = "NONE"
    PROVE  Referential(Tables(w, linked, gated))
<1> DEFINE rows == Tables(w, linked, gated)
<1> DEFINE keys == Keys(rows)
<1> DEFINE target == IF linked THEN TargetRows(w, gated) ELSE {}
<1>1. /\ rows = InputRows(w) \cup BundleRows(w) \cup ChildRows(w, gated) \cup AnalysisOf(w, gated)
                  \cup target \cup CostRows(w)
    BY DEF Tables
<1> HIDE DEF rows, target
<1>2. /\ Keys(InputRows(w)) \subseteq keys /\ Keys(BundleRows(w)) \subseteq keys
      /\ Keys(ChildRows(w, gated)) \subseteq keys /\ Keys(AnalysisOf(w, gated)) \subseteq keys
      /\ Keys(target) \subseteq keys
    BY <1>1, MoreKeys
<1>3. Universe(w, keys)
    <2>1. <<"result_bundle", <<>>>> \in keys
        BY <1>2, RowHasKey DEF BundleRows
    <2>2. QED
        BY <1>2, <2>1, InputRowsKeys DEF Universe
<1>4. FactsSound(w) /\ Refer(InputRows(w), keys)
    BY <1>2, <1>3, InputRowsRefer DEF Sound, FactsSound
<1>5. ~CoverageBreached(w, linked)
    BY NotRefused
<1>6. /\ Refer(ChildRows(w, gated), keys)
      /\ \A c \in w.children : Child(ResultChild(c.id)) \in keys
    <2>1. /\ \A c \in w.children : c.status = "SUCCEEDED" => c.states = w.items \X w.weeks
          /\ \A c \in w.children : \A d \in c.decisions : d.item \in w.items /\ d.week \in w.weeks
        BY <1>5 DEF CoverageBreached, Sound
    <2>2. QED
        BY <1>2, <1>3, <2>1, ChildRowsRefer
<1>7. Refer(BundleRows(w), keys)
    <2>1. Context \in keys /\ Child(ResultChild(w.effective)) \in keys
        BY <1>3, <1>6 DEF Universe, Sound
    <2>2. QED
        BY <2>1, RowIs DEF BundleRows, Refer
<1>8. \A s \in DetailedSearches(w, linked) : StatesHold(w, s)
    BY <1>5 DEF CoverageBreached, StatesHold
<1>9. w.analysis.bound =>
          /\ Refer(AnalysisOf(w, gated), keys)
          /\ Child(AnalysisChild(w.analysis.search.hash)) \in keys
          /\ Child(AnalysisChild(w.analysis.selection.hash)) \in keys
    <2> SUFFICES ASSUME w.analysis.bound
                 PROVE  /\ Refer(AnalysisOf(w, gated), keys)
                        /\ Child(AnalysisChild(w.analysis.search.hash)) \in keys
                        /\ Child(AnalysisChild(w.analysis.selection.hash)) \in keys
        OBVIOUS
    <2> DEFINE search  == w.analysis.search
    <2> DEFINE sources == EvaluationSources(w.analysis)
    <2>1. AnalysisOf(w, gated) = AnalysisRows(w.claim, search, sources, w.analysis.selection,
                                              w.analysis.evaluations, gated)
        BY DEF AnalysisOf
    <2>2. {search} \cup w.analysis.cases = {search} \cup sources
        BY DEF Sound, AnalysisSound, EvaluationSources
    <2>3. \A s \in {search} \cup sources : SearchSound(w, s)
        BY <2>2 DEF Sound, AnalysisSound
    <2>4. StatesHold(w, search)
        BY <1>8 DEF DetailedSearches
    <2>5. /\ SelectionSound(w, w.analysis.selection, search)
          /\ \A e \in w.analysis.evaluations : SensitivitySound(e, {search} \cup sources)
        BY <2>2 DEF Sound, AnalysisSound
    <2>6. Keys(AnalysisRows(w.claim, search, sources, w.analysis.selection,
                            w.analysis.evaluations, gated)) \subseteq keys
        BY <1>2, <2>1
    <2> HIDE DEF search, sources
    <2>7. /\ Refer(AnalysisRows(w.claim, search, sources, w.analysis.selection,
                                w.analysis.evaluations, gated), keys)
          /\ Child(AnalysisChild(search.hash)) \in keys
          /\ Child(AnalysisChild(w.analysis.selection.hash)) \in keys
        BY <1>3, <2>3, <2>4, <2>5, <2>6, AnalysisRowsRefer
    <2>8. QED
        BY <2>1, <2>7 DEF search
<1>10. Refer(AnalysisOf(w, gated), keys)
    BY <1>9 DEF AnalysisOf, Refer
<1>11. Refer(target, keys)
    <2>1. CASE ~linked
        BY <2>1 DEF target, Refer
    <2>2. CASE linked
        <3>1. target = TargetRows(w, gated)
            BY <2>2 DEF target
        <3>2. SharesSearch(w) => /\ Child(AnalysisChild(w.target.search.hash)) \in keys
                                 /\ Child(AnalysisChild(w.target.selection.hash)) \in keys
            BY <1>9, <2>2, NotRefused DEF SharesSearch, SharesSelection
        <3>3. ~SharesSearch(w) => StatesHold(w, w.target.search)
            BY <1>8, <2>2 DEF DetailedSearches
        <3>4. /\ SearchSound(w, w.target.search)
              /\ SelectionSound(w, w.target.selection, w.target.search)
            BY DEF Sound
        <3>5. QED
            BY <1>2, <1>3, <3>1, <3>2, <3>3, <3>4, TargetRowsRefer
    <2>3. QED
        BY <2>1, <2>2
<1>12. Refer(CostRows(w), keys)
    <2>1. ASSUME NEW r \in CostRows(w) PROVE r.refs \subseteq keys
        <3>1. PICK c \in w.costs : r \in Registered(<<"COST", c.id>>, <<"costs">>)
            BY DEF CostRows
        <3>2. QED
            BY <1>3, <3>1, RegisteredRefers DEF Universe, Refer
    <2>2. QED
        BY <2>1 DEF Refer
<1>13. QED
    BY <1>1, <1>4, <1>6, <1>7, <1>10, <1>11, <1>12 DEF Refer, Referential, rows

\* What is done, whatever the process is.
Shaped(r) ==
    r = Idle \/ r = [at |-> r.at, op |-> r.op, build |-> r.build, request |-> r.request,
                     input |-> r.input, manifest |-> r.manifest, part |-> r.part,
                     projection |-> r.projection, source |-> r.source]

Shapes ==
    /\ world \in Worlds /\ build \in Builds
    /\ disk = [objects |-> disk.objects, harmed |-> disk.harmed, slots |-> disk.slots]
    /\ disk.slots = [f \in Phases |-> disk.slots[f]]
    /\ budget = [operations |-> budget.operations, mishaps |-> budget.mishaps,
                 lost |-> budget.lost]
    /\ budget.lost \in BOOLEAN
    /\ proc = [p \in Procs |-> proc[p]]
    /\ \A p \in Procs : Shaped(proc[p])

\* The operation, the place in it and the claim of a process agree.
Control(r) ==
    /\ r.at \in {"put input", "bind input"} => r.op \in {"seal", "calculate"}
    /\ r.at \in {"parts", "manifest", "complete"} => r.op \in {"calculate", "execute", "recover"}
    /\ r.at \in {"request", "saved", "resolve", "commit", "target", "link", "project", "answer"} =>
           r.op \in {"execute", "recover"}
    /\ r.at = "pipeline" => r.op \in {"execute", "recover", "source"}
    /\ r.at \in {"seal source", "commit source", "verify source"} => r.op = "source"
    /\ r.at \in {"repair", "commit repair"} => r.op = "repair"
    /\ r.at = "read" => r.op = "read"
    /\ r.at \in {"check", "transaction", "commit rows"} => r.op = "write"
    /\ r.at # "idle" =>
           /\ r.op \in {"seal", "calculate"} \/ \E a \in Attempts : r.request = Request(a)
           /\ r.op \in {"source", "repair", "write"} \/ r.input \in Inputs
           /\ \E b \in Builds : r.build = b /\ r.op \in Operations[b]

\* Whoever publishes a result publishes that of the input the run is bound to.
HoldsInput(r) ==
    r.at \in {"parts", "manifest", "complete"} /\ ~budget.lost =>
        disk.slots["INPUT"] = Input(r.input)

\* Past its checkpoint an execution goes on with what the checkpoint says.
Checkpointed(r) ==
    /\ r.at \in {"pipeline", "target", "parts", "manifest", "complete", "link", "project", "answer"}
           /\ r.op \in {"execute", "recover"} => Checkpoint(r) \in store
    /\ r.at \in {"commit", "pipeline", "target", "parts", "manifest", "complete", "link",
                 "project", "answer"} /\ r.op \in {"execute", "recover"} =>
           r.manifest = r.request.manifest /\ SourceOf[r.input] = r.manifest

\* A projection fit for the tables: of the claim that owns the run and, when
\* its writer knows the gates, within them.
Fit(r) ==
    /\ r.projection \in Projections /\ r.projection.doc.attempt = W.authority
    /\ r.build \in Gated => r.projection.doc.gated

\* The writer holds a verified projection, and in its transaction the lock.
HoldsRows(p) ==
    /\ proc[p].at = "transaction" => Fit(proc[p])
    /\ proc[p].at = "commit rows" =>
           /\ Fit(proc[p]) /\ writer = p /\ receipt = None /\ tables = {}
           /\ proc[p].source \in store
           /\ \E at \in Times : proc[p].source = ReceiptArtifact(proc[p].projection, at)

Working(p) ==
    /\ Control(proc[p]) /\ HoldsInput(proc[p]) /\ Checkpointed(proc[p]) /\ HoldsRows(p)

\* The projector refuses some results; a stored projection is of one it admits.
Admits(linked) == RefusalOf[world][linked] = "NONE"

ProjectionsAdmitted ==
    \A a \in store : a.ref[1] = "projection" => a \in Projections /\ Admits(a.doc.linked)

\* No artifact is stored over another; a receipt is named by what it says.
WriteOnce ==
    /\ \A a, b \in store : a.ref = b.ref => a = b
    /\ \A a \in store : a.ref[1] = "receipt" => a = ReceiptArtifact(a.ref[2], a.ref[3])

AnswersShaped ==
    \A a \in answers : a.kind \in {"target", "read"} =>
        a = [kind |-> a.kind, request |-> a.request, input |-> a.input,
             projection |-> a.projection]

\* The tables are written once, by whoever holds their lock.
TablesHeld ==
    /\ writer # None => writer \in Procs /\ proc[writer].at = "commit rows"
    /\ receipt \in Receipts \cup {None}
    /\ receipt # None /\ (\A b \in Builds : "write" \in Operations[b] => b \in Gated) =>
           receipt.content.gated

IInv ==
    /\ Shapes /\ \A p \in Procs : Working(p)
    /\ CompleteIsWhole /\ CheckpointGoverns /\ ReceiptNamesRows
    /\ ProjectionsAdmitted /\ WriteOnce /\ AnswersShaped /\ TablesHeld

-----------------------------------------------------------------------------
(* Names and steps.                                                         *)

\* Two references are of one input only if their inputs are the same.
LEMMA References ==
    /\ \A i, j : Input(i) = Input(j) => i = j
    /\ \A i, j : Manifest(i) = Manifest(j) => i = j
    /\ \A i, j : Input(i) # Manifest(j)
    /\ \A i \in Inputs : Input(i) # None /\ Manifest(i) # None
    BY NoneAssumption DEF Input, Manifest

\* The same operation, whatever place it is at.
Same(r, s) ==
    /\ r.op = s.op /\ r.build = s.build /\ r.request = s.request /\ r.input = s.input
    /\ r.manifest = s.manifest /\ r.part = s.part
    /\ r.projection = s.projection /\ r.source = s.source

Moved(p, at) == proc'[p].at = at /\ Same(proc'[p], proc[p])

OthersStay(p) ==
    /\ proc' = [q \in Procs |-> proc'[q]]
    /\ \A q \in Procs : q # p => proc'[q] = proc[q]

\* A process that only moves on keeps everything it knows, and its place among the others.
LEMMA GotoMoves ==
    ASSUME Shapes, NEW p \in Procs, NEW at, Goto(p, at), proc[p].at # "idle"
    PROVE  Moved(p, at) /\ OthersStay(p) /\ Shaped(proc'[p])
<1>1. proc' = [proc EXCEPT ![p] = [proc[p] EXCEPT !.at = at]]
    BY DEF Goto
<1>2. proc = [q \in Procs |-> proc[q]] /\ Shaped(proc[p]) /\ proc[p] # Idle
    BY DEF Shapes, Idle
<1>3. proc'[p] = [proc[p] EXCEPT !.at = at] /\ OthersStay(p)
    BY <1>1, <1>2 DEF OthersStay
<1>4. Moved(p, at)
    BY <1>2, <1>3 DEF Shaped, Moved, Same
<1>5. Shaped(proc'[p])
    BY <1>2, <1>3 DEF Shaped
<1>6. QED
    BY <1>3, <1>4, <1>5

\* A process that stops is idle again and disturbs nobody.
LEMMA StopMoves ==
    ASSUME Shapes, NEW p \in Procs, Stop(p)
    PROVE  proc'[p] = Idle /\ proc'[p].at = "idle" /\ OthersStay(p) /\ Shaped(proc'[p])
<1>1. proc = [q \in Procs |-> proc[q]]
    BY DEF Shapes
<1>2. proc'[p] = Idle /\ OthersStay(p)
    BY <1>1 DEF Stop, OthersStay
<1>3. QED
    BY <1>2 DEF Idle, Shaped

\* What is on disk stays there, and a bound slot bound.
DiskGrows ==
    /\ disk' = [objects |-> disk'.objects, harmed |-> disk'.harmed, slots |-> disk'.slots]
    /\ disk'.slots = [f \in Phases |-> disk'.slots[f]]
    /\ disk.objects \subseteq disk'.objects
    /\ disk.slots["INPUT"] # None => disk'.slots["INPUT"] = disk.slots["INPUT"]
    /\ disk.slots["COMPLETE"] # None => disk'.slots["COMPLETE"] = disk.slots["COMPLETE"]

\* A step that leaves the tables, the world and the budget alone.
Quiet == UNCHANGED <<world, build, tables, receipt, writer, budget>> /\ store \subseteq store'

\* What other processes hold stays true.
LEMMA OthersKeep ==
    ASSUME Shapes, NEW q \in Procs, Working(q), proc'[q] = proc[q], world' = world,
           store \subseteq store', budget'.lost = budget.lost, DiskGrows,
           proc[q].at = "commit rows" => UNCHANGED <<writer, receipt, tables>>
    PROVE  Working(q)'
<1>1. Control(proc[q])'
    BY DEF Working, Control, Request, W
<1>2. HoldsInput(proc[q])'
    <2> SUFFICES ASSUME proc[q].at \in {"parts", "manifest", "complete"}, ~budget.lost
                 PROVE  disk'.slots["INPUT"] = Input(proc[q].input)
        BY DEF HoldsInput
    <2>1. disk.slots["INPUT"] = Input(proc[q].input) /\ proc[q].input \in Inputs
        BY DEF Working, HoldsInput, Control
    <2>2. QED
        BY <2>1, References DEF DiskGrows
<1>3. Checkpointed(proc[q])'
    BY DEF Working, Checkpointed, Checkpoint
<1>4. HoldsRows(q)'
    BY DEF Working, HoldsRows, Fit, W
<1>5. QED
    BY <1>1, <1>2, <1>3, <1>4 DEF Working

-----------------------------------------------------------------------------
(* What each action does.                                                  *)

\* A step that touches only what it must, and leaves its process in order.
Orderly(p) ==
    /\ Quiet /\ DiskGrows /\ OthersStay(p) /\ Shaped(proc'[p]) /\ Working(p)'

\* Files that are left alone are all still there.
LEMMA DiskStays ==
    ASSUME Shapes, disk' = disk PROVE DiskGrows
    BY DEF Shapes, DiskGrows

\* An error ends the operation.
LEMMA StopIsOrderly ==
    ASSUME Shapes, NEW p \in Procs, Stop(p), Quiet, DiskGrows
    PROVE  Orderly(p)
<1>1. proc'[p].at = "idle" /\ OthersStay(p) /\ Shaped(proc'[p])
    BY StopMoves
<1>2. Working(p)'
    BY <1>1 DEF Working, Control, HoldsInput, Checkpointed, HoldsRows
<1>3. QED
    BY <1>1, <1>2 DEF Orderly

\* A step to a place for which the process holds what it must.
LEMMA GotoIsOrderly ==
    ASSUME Shapes, NEW p \in Procs, Working(p), NEW at, Goto(p, at), proc[p].at # "idle",
           Quiet, DiskGrows,
           \A r : r.at = at /\ Same(r, proc[p]) =>
                     Control(r) /\ HoldsInput(r)' /\ Checkpointed(r)',
           at \notin {"transaction", "commit rows"}
    PROVE  Orderly(p)
<1>1. proc'[p].at = at /\ Same(proc'[p], proc[p]) /\ OthersStay(p) /\ Shaped(proc'[p])
    BY GotoMoves DEF Moved
<1>2. PICK r : r = proc'[p]
    OBVIOUS
<1>3. Control(r) /\ HoldsInput(r)' /\ Checkpointed(r)'
    BY <1>1, <1>2
<1>4. Control(proc[p])' /\ HoldsInput(proc[p])' /\ Checkpointed(proc[p])'
    BY <1>2, <1>3 DEF Control, Request, W, Quiet, HoldsInput, Checkpointed, Checkpoint
<1>5. HoldsRows(p)'
    BY <1>1 DEF HoldsRows
<1>6. QED
    BY <1>1, <1>4, <1>5 DEF Orderly, Working

\* Writing an object adds it and rebinds nothing.
LEMMA PutGrows ==
    ASSUME Shapes, NEW object, disk' = Put(disk, object)
    PROVE  DiskGrows /\ disk'.slots = disk.slots /\ disk'.objects = disk.objects \cup {object}
    BY DEF Put, Shapes, DiskGrows

\* Binding a slot is allowed when it was free or held the same reference already.
LEMMA BindGrows ==
    ASSUME Shapes, NEW phase \in Phases, NEW ref, CanBind(disk, phase, ref),
           disk' = Bind(disk, phase, ref)
    PROVE  /\ DiskGrows /\ disk'.slots[phase] = ref /\ disk.slots[phase] \in {None, ref}
           /\ \A f \in Phases : f # phase => disk'.slots[f] = disk.slots[f]
<1>1. /\ disk'.slots = [disk.slots EXCEPT ![phase] = ref]
      /\ disk'.objects = disk.objects \cup {Slot(phase, ref)}
      /\ disk' = [objects |-> disk'.objects, harmed |-> disk'.harmed, slots |-> disk'.slots]
    BY DEF Bind, Put, Shapes
<1>2. disk.slots = [f \in Phases |-> disk.slots[f]] /\ disk.slots[phase] \in {None, ref}
    BY DEF Shapes, CanBind
<1>3. QED
    BY <1>1, <1>2 DEF DiskGrows

\* The input is put and bound; the first one that is bound stays.
LEMMA PutInputIsOrderly ==
    ASSUME Shapes, NEW p \in Procs, Working(p), PutInput(p)
    PROVE  Orderly(p)
<1> DEFINE object == Input(proc[p].input)
<1>1. proc[p].at = "put input" /\ Quiet
    BY DEF PutInput, Elsewhere, Quiet
<1>2. CASE CanPut(disk, object)
    <2>1. Goto(p, "bind input") /\ DiskGrows
        BY <1>2, PutGrows DEF PutInput
    <2>2. ASSUME NEW r, r.at = "bind input", Same(r, proc[p])
          PROVE  Control(r) /\ HoldsInput(r)' /\ Checkpointed(r)'
        BY <1>1, <2>2 DEF Working, Control, HoldsInput, Checkpointed, Same
    <2>3. QED
        BY <1>1, <2>1, <2>2, GotoIsOrderly
<1>3. CASE ~CanPut(disk, object)
    BY <1>1, <1>3, DiskStays, StopIsOrderly DEF PutInput
<1>4. QED
    BY <1>2, <1>3

\* Each action moves its own process and leaves it in order: binding the input slot,
LEMMA BindInputIsOrderly ==
    ASSUME Shapes, NEW p \in Procs, Working(p), BindInput(p)
    PROVE  Orderly(p)
<1> DEFINE ref == Input(proc[p].input)
<1>1. proc[p].at = "bind input" /\ Quiet
    BY DEF BindInput, Elsewhere, Quiet
<1>2. CASE CanBind(disk, "INPUT", ref)
    <2>1. DiskGrows /\ disk'.slots["INPUT"] = ref
        BY <1>2, BindGrows DEF BindInput, Phases
    <2>2. CASE proc[p].op = "seal"
        BY <1>1, <1>2, <2>1, <2>2, StopIsOrderly DEF BindInput
    <2>3. CASE proc[p].op # "seal"
        <3>1. Goto(p, "parts")
            BY <1>2, <2>3 DEF BindInput
        <3>2. ASSUME NEW r, r.at = "parts", Same(r, proc[p])
              PROVE  Control(r) /\ HoldsInput(r)' /\ Checkpointed(r)'
            BY <1>1, <2>1, <2>3, <3>2 DEF Working, Control, HoldsInput, Checkpointed, Same
        <3>3. QED
            BY <1>1, <2>1, <3>1, <3>2, GotoIsOrderly
    <2>4. QED
        BY <2>2, <2>3
<1>3. CASE ~CanBind(disk, "INPUT", ref)
    BY <1>1, <1>3, DiskStays, StopIsOrderly DEF BindInput
<1>4. QED
    BY <1>2, <1>3

\* What a process holds while the parts are published one by one.
LEMMA GoesOn ==
    ASSUME Shapes, NEW p \in Procs, Working(p), DiskGrows, Quiet,
           proc[p].at \in {"parts", "manifest", "complete"},
           NEW r, r.at \in {"parts", "manifest", "complete"},
           r.op = proc[p].op, r.build = proc[p].build, r.request = proc[p].request,
           r.input = proc[p].input, r.manifest = proc[p].manifest
    PROVE  Control(r) /\ HoldsInput(r)' /\ Checkpointed(r)'
<1>1. Control(r)
    BY DEF Working, Control
<1>2. HoldsInput(r)'
    <2>1. ~budget.lost => disk.slots["INPUT"] = Input(r.input) /\ r.input \in Inputs
        BY DEF Working, HoldsInput, Control
    <2>2. QED
        BY <2>1, References DEF HoldsInput, DiskGrows, Quiet
<1>3. Checkpointed(r)'
    BY DEF Working, Checkpointed, Quiet, Checkpoint
<1>4. QED
    BY <1>1, <1>2, <1>3

\* writing a part of the target result,
LEMMA PutPartIsOrderly ==
    ASSUME Shapes, NEW p \in Procs, Working(p), PutPart(p)
    PROVE  Orderly(p)
<1> DEFINE part == Part(proc[p].input, proc[p].part)
<1>1. proc[p].at = "parts" /\ Quiet
    BY DEF PutPart, Elsewhere, Quiet
<1>2. CASE CanPut(disk, part)
    <2>1. DiskGrows
        BY <1>2, PutGrows DEF PutPart
    <2>2. CASE proc[p].part = NParts
        <3>1. Goto(p, "manifest")
            BY <1>2, <2>2 DEF PutPart
        <3>2. ASSUME NEW r, r.at = "manifest", Same(r, proc[p])
              PROVE  Control(r) /\ HoldsInput(r)' /\ Checkpointed(r)'
            BY <1>1, <2>1, <3>2, GoesOn DEF Same
        <3>3. QED
            BY <1>1, <2>1, <3>1, <3>2, GotoIsOrderly
    <2>3. CASE proc[p].part # NParts
        <3>1. proc' = [proc EXCEPT ![p] = [proc[p] EXCEPT !.part = proc[p].part + 1]]
            BY <1>2, <2>3 DEF PutPart
        <3>2. proc = [q \in Procs |-> proc[q]] /\ Shaped(proc[p]) /\ proc[p] # Idle
            BY <1>1 DEF Shapes, Idle
        <3>3. proc'[p] = [proc[p] EXCEPT !.part = proc[p].part + 1] /\ OthersStay(p)
            BY <3>1, <3>2 DEF OthersStay
        <3>4. PICK r : r = proc'[p]
            OBVIOUS
        <3>5. /\ r.at = "parts" /\ r.op = proc[p].op /\ r.build = proc[p].build
              /\ r.request = proc[p].request /\ r.input = proc[p].input
              /\ r.manifest = proc[p].manifest /\ Shaped(r)
            BY <1>1, <3>2, <3>3, <3>4 DEF Shaped
        <3>6. Control(r) /\ HoldsInput(r)' /\ Checkpointed(r)'
            BY <1>1, <2>1, <3>5, GoesOn
        <3>7. Working(p)'
            BY <1>1, <3>4, <3>5, <3>6 DEF Working, HoldsRows, Control, Request, W, Quiet,
                HoldsInput, Checkpointed, Checkpoint
        <3>8. QED
            BY <1>1, <2>1, <3>3, <3>4, <3>5, <3>7 DEF Orderly
    <2>4. QED
        BY <2>2, <2>3
<1>3. CASE ~CanPut(disk, part)
    BY <1>1, <1>3, DiskStays, StopIsOrderly DEF PutPart
<1>4. QED
    BY <1>2, <1>3

\* writing its manifest,
LEMMA PutManifestIsOrderly ==
    ASSUME Shapes, NEW p \in Procs, Working(p), PutManifest(p)
    PROVE  Orderly(p)
<1> DEFINE object == Manifest(proc[p].input)
<1>1. proc[p].at = "manifest" /\ Quiet
    BY DEF PutManifest, Elsewhere, Quiet
<1>2. CASE CanPut(disk, object)
    <2>1. Goto(p, "complete") /\ DiskGrows
        BY <1>2, PutGrows DEF PutManifest
    <2>2. ASSUME NEW r, r.at = "complete", Same(r, proc[p])
          PROVE  Control(r) /\ HoldsInput(r)' /\ Checkpointed(r)'
        BY <1>1, <2>1, <2>2, GoesOn DEF Same
    <2>3. QED
        BY <1>1, <2>1, <2>2, GotoIsOrderly
<1>3. CASE ~CanPut(disk, object)
    BY <1>1, <1>3, DiskStays, StopIsOrderly DEF PutManifest
<1>4. QED
    BY <1>2, <1>3

\* and making it visible as complete.
LEMMA BindCompleteIsOrderly ==
    ASSUME Shapes, NEW p \in Procs, Working(p), BindComplete(p)
    PROVE  Orderly(p)
<1> DEFINE i == proc[p].input
<1> DEFINE can == PackageWhole(disk, i) /\ CanBind(disk, "COMPLETE", Manifest(i))
<1>1. proc[p].at = "complete" /\ Quiet
    BY DEF BindComplete, Elsewhere, Quiet
<1>2. CASE can
    <2>1. DiskGrows
        BY <1>2, BindGrows DEF BindComplete, Phases
    <2>2. CASE proc[p].op = "calculate"
        BY <1>1, <1>2, <2>1, <2>2, StopIsOrderly DEF BindComplete
    <2>3. CASE proc[p].op # "calculate"
        <3>1. Goto(p, "link")
            BY <1>2, <2>3 DEF BindComplete
        <3>2. ASSUME NEW r, r.at = "link", Same(r, proc[p])
              PROVE  Control(r) /\ HoldsInput(r)' /\ Checkpointed(r)'
            BY <1>1, <2>1, <2>3, <3>2 DEF Working, Control, HoldsInput, Checkpointed, Same,
                Checkpoint, Quiet
        <3>3. QED
            BY <1>1, <2>1, <3>1, <3>2, GotoIsOrderly
    <2>4. QED
        BY <2>2, <2>3
<1>3. CASE ~can
    BY <1>1, <1>3, DiskStays, StopIsOrderly DEF BindComplete
<1>4. QED
    BY <1>2, <1>3

-----------------------------------------------------------------------------
(* The initial target execution.                                           *)

\* A step whose only alternatives are to go on to a place and to stop.
LEMMA InitialRequestIsOrderly ==
    ASSUME Shapes, NEW p \in Procs, Working(p), InitialRequest(p)
    PROVE  Orderly(p)
<1>1. proc[p].at = "request" /\ Quiet /\ DiskGrows
    BY DiskStays DEF InitialRequest, Elsewhere, Quiet
<1>2. CASE Goto(p, "saved")
    <2>1. ASSUME NEW r, r.at = "saved", Same(r, proc[p])
          PROVE  Control(r) /\ HoldsInput(r)' /\ Checkpointed(r)'
        BY <1>1, <2>1 DEF Working, Control, HoldsInput, Checkpointed, Same
    <2>2. QED
        BY <1>1, <1>2, <2>1, GotoIsOrderly
<1>3. CASE Stop(p)
    BY <1>1, <1>3, StopIsOrderly
<1>4. QED
    BY <1>2, <1>3 DEF InitialRequest

\* The same operation with another manifest.
SetsManifest(p, at, manifest) == proc' = [proc EXCEPT ![p].at = at, ![p].manifest = manifest]

\* A process that has learned its manifest and moves on is otherwise as it was.
LEMMA WithManifest ==
    ASSUME Shapes, NEW p \in Procs, proc[p].at # "idle", NEW at, NEW manifest,
           SetsManifest(p, at, manifest)
    PROVE  /\ OthersStay(p) /\ Shaped(proc'[p]) /\ proc'[p].at = at
           /\ proc'[p].op = proc[p].op /\ proc'[p].build = proc[p].build
           /\ proc'[p].request = proc[p].request /\ proc'[p].input = proc[p].input
           /\ proc'[p].manifest = manifest
<1>1. proc = [q \in Procs |-> proc[q]] /\ Shaped(proc[p]) /\ proc[p] # Idle
    BY DEF Shapes, Idle
<1>2. proc'[p] = [proc[p] EXCEPT !.at = at, !.manifest = manifest] /\ OthersStay(p)
    BY <1>1 DEF OthersStay, SetsManifest
<1>3. QED
    BY <1>1, <1>2 DEF Shaped

\* A saved checkpoint is the one of this very operation.
LEMMA CheckpointIs ==
    ASSUME Shapes, NEW p \in Procs, proc[p].at # "idle", NEW manifest,
           CheckpointHolds(proc[p], manifest)
    PROVE  /\ Artifact(<<"checkpoint">>,
                       [request |-> proc[p].request, build |-> proc[p].build,
                        manifest |-> manifest, input |-> proc[p].input]) \in store
           /\ manifest = proc[p].request.manifest /\ SourceOf[proc[p].input] = manifest
<1>1. Shaped(proc[p]) /\ proc[p] # Idle
    BY DEF Shapes, Idle
<1> DEFINE r == [proc[p] EXCEPT !.manifest = manifest]
<1>2. /\ r.request = proc[p].request /\ r.build = proc[p].build /\ r.manifest = manifest
      /\ r.input = proc[p].input
    BY <1>1 DEF Shaped
<1>3. /\ Checkpoint(r) \in Sealed(<<"checkpoint">>)
      /\ manifest = proc[p].request.manifest /\ SourceOf[proc[p].input] = manifest
    BY DEF CheckpointHolds, Pinned, SourcesAgree
<1> HIDE DEF r
<1>4. Checkpoint(r) \in store
    BY <1>3 DEF Sealed
<1>5. QED
    BY <1>2, <1>3, <1>4 DEF Checkpoint

\* A saved checkpoint is continued only by the process it was saved for.
LEMMA ReadCheckpointIsOrderly ==
    ASSUME Shapes, NEW p \in Procs, Working(p), ReadCheckpoint(p)
    PROVE  Orderly(p)
<1> DEFINE saved == Sealed(<<"checkpoint">>)
<1> DEFINE manifest == (CHOOSE a \in saved : TRUE).doc.manifest
<1>1. proc[p].at = "saved" /\ Quiet /\ DiskGrows /\ store' = store
    BY DiskStays DEF ReadCheckpoint, Elsewhere, Quiet
<1>2. \/ Stop(p)
      \/ Goto(p, "resolve")
      \/ CheckpointHolds(proc[p], manifest) /\ SetsManifest(p, "pipeline", manifest)
    BY <1>1 DEF ReadCheckpoint, Working, Control, SetsManifest
<1> HIDE DEF manifest
<1>3. CASE Goto(p, "resolve")
    <2>1. ASSUME NEW r, r.at = "resolve", Same(r, proc[p])
          PROVE  Control(r) /\ HoldsInput(r)' /\ Checkpointed(r)'
        BY <1>1, <2>1 DEF Working, Control, HoldsInput, Checkpointed, Same
    <2>2. QED
        BY <1>1, <1>3, <2>1, GotoIsOrderly
<1>4. CASE CheckpointHolds(proc[p], manifest) /\ SetsManifest(p, "pipeline", manifest)
    <2>1. /\ OthersStay(p) /\ Shaped(proc'[p]) /\ proc'[p].at = "pipeline"
          /\ proc'[p].op = proc[p].op /\ proc'[p].build = proc[p].build
          /\ proc'[p].request = proc[p].request /\ proc'[p].input = proc[p].input
          /\ proc'[p].manifest = manifest
        BY <1>1, <1>4, WithManifest
    <2>2. Control(proc[p])'
        BY <1>1, <2>1 DEF Working, Control, Request, W, Quiet
    <2>3. HoldsInput(proc[p])' /\ HoldsRows(p)'
        BY <2>1 DEF HoldsInput, HoldsRows
    <2>4. Checkpointed(proc[p])'
        <3>1. proc[p].at # "idle" /\ CheckpointHolds(proc[p], manifest)
            BY <1>1, <1>4
        <3>2. /\ Artifact(<<"checkpoint">>,
                          [request |-> proc[p].request, build |-> proc[p].build,
                           manifest |-> manifest, input |-> proc[p].input]) \in store
              /\ manifest = proc[p].request.manifest /\ SourceOf[proc[p].input] = manifest
            BY <3>1, CheckpointIs
        <3>3. QED
            BY <1>1, <2>1, <3>2 DEF Checkpointed, Checkpoint
    <2>5. QED
        BY <1>1, <2>1, <2>2, <2>3, <2>4 DEF Orderly, Working
<1>5. QED
    BY <1>1, <1>2, <1>3, <1>4, StopIsOrderly

\* A process that has resolved its source knows the manifest it resolved.
LEMMA ResolveSourceIsOrderly ==
    ASSUME Shapes, NEW p \in Procs, Working(p), ResolveSource(p)
    PROVE  Orderly(p)
<1>1. proc[p].at = "resolve" /\ Quiet /\ DiskGrows
    BY DiskStays DEF ResolveSource, Elsewhere, Quiet
<1>2. PICK m \in Manifests :
        \/ Stop(p)
        \/ /\ Pinned(proc[p], m) /\ SourcesAgree(proc[p], m)
           /\ SetsManifest(p, "commit", m)
    BY DEF ResolveSource, SetsManifest
<1>3. CASE Pinned(proc[p], m) /\ SourcesAgree(proc[p], m) /\ SetsManifest(p, "commit", m)
    <2>1. /\ OthersStay(p) /\ Shaped(proc'[p]) /\ proc'[p].at = "commit"
          /\ proc'[p].op = proc[p].op /\ proc'[p].build = proc[p].build
          /\ proc'[p].request = proc[p].request /\ proc'[p].input = proc[p].input
          /\ proc'[p].manifest = m
        BY <1>1, <1>3, WithManifest
    <2>2. Control(proc[p])'
        BY <1>1, <2>1 DEF Working, Control, Request, W, Quiet
    <2>3. HoldsInput(proc[p])' /\ HoldsRows(p)'
        BY <2>1 DEF HoldsInput, HoldsRows
    <2>4. Checkpointed(proc[p])'
        BY <1>3, <2>1 DEF Checkpointed, Pinned, SourcesAgree
    <2>5. QED
        BY <1>1, <2>1, <2>2, <2>3, <2>4 DEF Orderly, Working
<1>4. QED
    BY <1>1, <1>2, <1>3, StopIsOrderly

\* A process past the checkpoint is past a checkpoint of its own request.
LEMMA CommitCheckpointIsOrderly ==
    ASSUME Shapes, NEW p \in Procs, Working(p), CommitCheckpoint(p)
    PROVE  Orderly(p)
<1>1. proc[p].at = "commit" /\ Quiet /\ DiskGrows
    BY DiskStays DEF CommitCheckpoint, Commit, Elsewhere, Quiet
<1>2. CASE CanCommit({Checkpoint(proc[p])})
    <2>1. Goto(p, "pipeline") /\ Checkpoint(proc[p]) \in store'
        BY <1>2 DEF CommitCheckpoint, Commit
    <2>2. ASSUME NEW r, r.at = "pipeline", Same(r, proc[p])
          PROVE  Control(r) /\ HoldsInput(r)' /\ Checkpointed(r)'
        BY <1>1, <2>1, <2>2 DEF Working, Control, HoldsInput, Checkpointed, Same, Checkpoint
    <2>3. QED
        BY <1>1, <2>1, <2>2, GotoIsOrderly
<1>3. CASE ~CanCommit({Checkpoint(proc[p])})
    BY <1>1, <1>3, StopIsOrderly DEF CommitCheckpoint
<1>4. QED
    BY <1>2, <1>3

\* The bundle is there or calculated: an execution goes on to its target, a source
\* execution to its projection.
LEMMA PipelineIsOrderly ==
    ASSUME Shapes, NEW p \in Procs, Working(p), Pipeline(p)
    PROVE  Orderly(p)
<1>1. proc[p].at = "pipeline" /\ Quiet /\ DiskGrows
    BY DiskStays DEF Pipeline, Commit, Elsewhere, Quiet
<1>2. \/ Stop(p)
      \/ proc[p].op = "source" /\ Goto(p, "seal source")
      \/ proc[p].op # "source" /\ Goto(p, "target")
    BY DEF Pipeline
<1>3. CASE proc[p].op = "source" /\ Goto(p, "seal source")
    <2>1. ASSUME NEW r, r.at = "seal source", Same(r, proc[p])
          PROVE  Control(r) /\ HoldsInput(r)' /\ Checkpointed(r)'
        BY <1>1, <1>3, <2>1 DEF Working, Control, HoldsInput, Checkpointed, Same
    <2>2. QED
        BY <1>1, <1>3, <2>1, GotoIsOrderly
<1>4. CASE proc[p].op # "source" /\ Goto(p, "target")
    <2>1. ASSUME NEW r, r.at = "target", Same(r, proc[p])
          PROVE  Control(r) /\ HoldsInput(r)' /\ Checkpointed(r)'
        BY <1>1, <1>4, <2>1 DEF Working, Control, HoldsInput, Checkpointed, Same, Checkpoint, Quiet
    <2>2. QED
        BY <1>1, <1>4, <2>1, GotoIsOrderly
<1>5. QED
    BY <1>1, <1>2, <1>3, <1>4, StopIsOrderly

\* An incomplete target result is calculated again from the bound input.
LEMMA RecoverTargetIsOrderly ==
    ASSUME Shapes, NEW p \in Procs, Working(p), RecoverTarget(p)
    PROVE  Orderly(p)
<1>1. proc[p].at = "target" /\ Quiet /\ DiskGrows /\ disk' = disk
    BY DiskStays DEF RecoverTarget, Elsewhere, Quiet
<1>2. \/ Stop(p)
      \/ InputHolds(proc[p]) /\ Goto(p, "parts")
      \/ Goto(p, "link")
    BY DEF RecoverTarget
<1>3. CASE InputHolds(proc[p]) /\ Goto(p, "parts")
    <2>1. disk.slots["INPUT"] = Input(proc[p].input)
        BY <1>3 DEF InputHolds, InputReadable, Holds
    <2>2. ASSUME NEW r, r.at = "parts", Same(r, proc[p])
          PROVE  Control(r) /\ HoldsInput(r)' /\ Checkpointed(r)'
        BY <1>1, <2>1, <2>2 DEF Working, Control, HoldsInput, Checkpointed, Same, Checkpoint, Quiet
    <2>3. QED
        BY <1>1, <1>3, <2>2, GotoIsOrderly
<1>4. CASE Goto(p, "link")
    <2>1. ASSUME NEW r, r.at = "link", Same(r, proc[p])
          PROVE  Control(r) /\ HoldsInput(r)' /\ Checkpointed(r)'
        BY <1>1, <2>1 DEF Working, Control, HoldsInput, Checkpointed, Same, Checkpoint, Quiet
    <2>2. QED
        BY <1>1, <1>4, <2>1, GotoIsOrderly
<1>5. QED
    BY <1>1, <1>2, <1>3, <1>4, StopIsOrderly

\* Sealing the link moves one process and adds to the store only.
LEMMA CommitLinkIsOrderly ==
    ASSUME Shapes, NEW p \in Procs, Working(p), CommitLink(p)
    PROVE  Orderly(p)
<1>1. proc[p].at = "link" /\ Quiet /\ DiskGrows
    BY DiskStays DEF CommitLink, Commit, Elsewhere, Quiet
<1>2. Stop(p) \/ Goto(p, "project")
    BY DEF CommitLink
<1>3. CASE Goto(p, "project")
    <2>1. ASSUME NEW r, r.at = "project", Same(r, proc[p])
          PROVE  Control(r) /\ HoldsInput(r)' /\ Checkpointed(r)'
        BY <1>1, <2>1 DEF Working, Control, HoldsInput, Checkpointed, Same, Checkpoint, Quiet
    <2>2. QED
        BY <1>1, <1>3, <2>1, GotoIsOrderly
<1>4. QED
    BY <1>1, <1>2, <1>3, StopIsOrderly

\* The same operation with a projection.
SetsProjection(p, at, projection) ==
    proc' = [proc EXCEPT ![p].at = at, ![p].projection = projection]

\* A process that has its projection and moves on is otherwise as it was.
LEMMA WithProjection ==
    ASSUME Shapes, NEW p \in Procs, proc[p].at # "idle", NEW at, NEW projection,
           SetsProjection(p, at, projection)
    PROVE  /\ OthersStay(p) /\ Shaped(proc'[p]) /\ proc'[p].at = at
           /\ proc'[p].op = proc[p].op /\ proc'[p].build = proc[p].build
           /\ proc'[p].request = proc[p].request /\ proc'[p].input = proc[p].input
           /\ proc'[p].manifest = proc[p].manifest /\ proc'[p].projection = projection
<1>1. proc = [q \in Procs |-> proc[q]] /\ Shaped(proc[p]) /\ proc[p] # Idle
    BY DEF Shapes, Idle
<1>2. proc'[p] = [proc[p] EXCEPT !.at = at, !.projection = projection] /\ OthersStay(p)
    BY <1>1 DEF OthersStay, SetsProjection
<1>3. QED
    BY <1>1, <1>2 DEF Shaped

\* A process past the projection has one that is stored.
LEMMA CommitProjectionIsOrderly ==
    ASSUME Shapes, NEW p \in Procs, Working(p), CommitProjection(p)
    PROVE  Orderly(p)
<1> DEFINE projection ==
        Projection(Content(proc[p].request, TRUE, proc[p].build \in Gated), "fixed")
<1>1. proc[p].at = "project" /\ Quiet /\ DiskGrows
    BY DiskStays DEF CommitProjection, Commit, Elsewhere, Quiet
<1>2. \/ Stop(p)
      \/ SetsProjection(p, "answer", projection)
    BY DEF CommitProjection, SetsProjection
<1> HIDE DEF projection
<1>3. CASE SetsProjection(p, "answer", projection)
    <2>1. /\ OthersStay(p) /\ Shaped(proc'[p]) /\ proc'[p].at = "answer"
          /\ proc'[p].op = proc[p].op /\ proc'[p].build = proc[p].build
          /\ proc'[p].request = proc[p].request /\ proc'[p].input = proc[p].input
          /\ proc'[p].manifest = proc[p].manifest
        BY <1>1, <1>3, WithProjection
    <2>2. Control(proc[p])'
        BY <1>1, <2>1 DEF Working, Control, Request, W, Quiet
    <2>3. HoldsInput(proc[p])' /\ HoldsRows(p)'
        BY <2>1 DEF HoldsInput, HoldsRows
    <2>4. Checkpointed(proc[p])'
        BY <1>1, <2>1 DEF Working, Control, Checkpointed, Checkpoint, Quiet
    <2>5. QED
        BY <1>1, <2>1, <2>2, <2>3, <2>4 DEF Orderly, Working
<1>4. QED
    BY <1>1, <1>2, <1>3, StopIsOrderly

\* Answers end the operation.
LEMMA AnswersAreOrderly ==
    ASSUME Shapes, NEW p \in Procs, Working(p),
           Answer(p) \/ Read(p) \/ VerifySource(p) \/ CommitRepair(p)
    PROVE  Orderly(p)
<1>1. Quiet /\ DiskGrows /\ Stop(p)
    BY DiskStays DEF Answer, Read, VerifySource, CommitRepair, Commit, Elsewhere, Quiet
<1>2. QED
    BY <1>1, StopIsOrderly

-----------------------------------------------------------------------------
(* The source execution, the repair and the writer.                        *)

\* A source execution that is already sealed is answered, or a new one is begun.
LEMMA SealSourceIsOrderly ==
    ASSUME Shapes, NEW p \in Procs, Working(p), SealSource(p)
    PROVE  Orderly(p)
<1>1. proc[p].at = "seal source" /\ Quiet /\ DiskGrows
    BY DiskStays DEF SealSource, Commit, Elsewhere, Quiet
<1>2. \/ Stop(p)
      \/ \E projection :
            SetsProjection(p, "commit source", projection)
    BY DEF SealSource, SetsProjection
<1>3. ASSUME NEW projection, SetsProjection(p, "commit source", projection)
      PROVE  Orderly(p)
    <2>1. /\ OthersStay(p) /\ Shaped(proc'[p]) /\ proc'[p].at = "commit source"
          /\ proc'[p].op = proc[p].op /\ proc'[p].build = proc[p].build
          /\ proc'[p].request = proc[p].request /\ proc'[p].input = proc[p].input
        BY <1>1, <1>3, WithProjection
    <2>2. Control(proc[p])'
        BY <1>1, <2>1 DEF Working, Control, Request, W, Quiet
    <2>3. HoldsInput(proc[p])' /\ HoldsRows(p)' /\ Checkpointed(proc[p])'
        BY <2>1 DEF HoldsInput, HoldsRows, Checkpointed
    <2>4. QED
        BY <1>1, <2>1, <2>2, <2>3 DEF Orderly, Working
<1>4. QED
    BY <1>1, <1>2, <1>3, StopIsOrderly

\* Sealing a source execution moves one process and adds to the store only.
LEMMA CommitSourceIsOrderly ==
    ASSUME Shapes, NEW p \in Procs, Working(p), CommitSource(p)
    PROVE  Orderly(p)
<1>1. proc[p].at = "commit source" /\ Quiet /\ DiskGrows
    BY DiskStays DEF CommitSource, Commit, Elsewhere, Quiet
<1>2. Stop(p) \/ Goto(p, "verify source")
    BY DEF CommitSource
<1>3. CASE Goto(p, "verify source")
    <2>1. ASSUME NEW r, r.at = "verify source", Same(r, proc[p])
          PROVE  Control(r) /\ HoldsInput(r)' /\ Checkpointed(r)'
        BY <1>1, <2>1 DEF Working, Control, HoldsInput, Checkpointed, Same
    <2>2. QED
        BY <1>1, <1>3, <2>1, GotoIsOrderly
<1>4. QED
    BY <1>1, <1>2, <1>3, StopIsOrderly

\* The same operation with a source and a projection.
LEMMA WithSource ==
    ASSUME Shapes, NEW p \in Procs, proc[p].at # "idle", NEW at, NEW source, NEW projection,
           proc' = [proc EXCEPT ![p].at = at, ![p].source = source,
                                ![p].projection = projection]
    PROVE  /\ OthersStay(p) /\ Shaped(proc'[p]) /\ proc'[p].at = at
           /\ proc'[p].op = proc[p].op /\ proc'[p].build = proc[p].build
           /\ proc'[p].request = proc[p].request /\ proc'[p].input = proc[p].input
<1>1. proc = [q \in Procs |-> proc[q]] /\ Shaped(proc[p]) /\ proc[p] # Idle
    BY DEF Shapes, Idle
<1>2. /\ proc'[p] = [proc[p] EXCEPT !.at = at, !.source = source, !.projection = projection]
      /\ OthersStay(p)
    BY <1>1 DEF OthersStay
<1>3. QED
    BY <1>1, <1>2 DEF Shaped

\* Repairing a projection moves one process and adds to the store only.
LEMMA RepairProjectionIsOrderly ==
    ASSUME Shapes, NEW p \in Procs, Working(p), RepairProjection(p)
    PROVE  Orderly(p)
<1>1. proc[p].at = "repair" /\ Quiet /\ DiskGrows
    BY DiskStays DEF RepairProjection, Commit, Elsewhere, Quiet
<1>2. \/ Stop(p)
      \/ \E source, projection :
            proc' = [proc EXCEPT ![p].at = "commit repair", ![p].source = source,
                                 ![p].projection = projection]
    BY DEF RepairProjection
<1>3. ASSUME NEW source, NEW projection,
             proc' = [proc EXCEPT ![p].at = "commit repair", ![p].source = source,
                                  ![p].projection = projection]
      PROVE  Orderly(p)
    <2>1. /\ OthersStay(p) /\ Shaped(proc'[p]) /\ proc'[p].at = "commit repair"
          /\ proc'[p].op = proc[p].op /\ proc'[p].build = proc[p].build
          /\ proc'[p].request = proc[p].request /\ proc'[p].input = proc[p].input
        BY <1>1, <1>3, WithSource
    <2>2. Control(proc[p])'
        BY <1>1, <2>1 DEF Working, Control, Request, W, Quiet
    <2>3. HoldsInput(proc[p])' /\ HoldsRows(p)' /\ Checkpointed(proc[p])'
        BY <2>1 DEF HoldsInput, HoldsRows, Checkpointed
    <2>4. QED
        BY <1>1, <2>1, <2>2, <2>3 DEF Orderly, Working
<1>4. QED
    BY <1>1, <1>2, <1>3, StopIsOrderly

\* What the writer verified is of the claim that owns the run, and gated when
\* the package of the writer knows the gates.
LEMMA CheckWriteIsOrderly ==
    ASSUME Shapes, NEW p \in Procs, Working(p), CheckWrite(p), ProjectionsAdmitted
    PROVE  Orderly(p)
<1>1. proc[p].at = "check" /\ Quiet /\ DiskGrows
    BY DiskStays DEF CheckWrite, Elsewhere, Quiet
<1>2. \/ Stop(p)
      \/ \E projection \in store :
            /\ projection.ref[1] = "projection" /\ proc[p].request.attempt = W.authority
            /\ ProjectionHolds(proc[p], projection, projection.doc.linked)
            /\ SetsProjection(p, "transaction", projection)
    BY DEF CheckWrite, SetsProjection
<1>3. ASSUME NEW projection \in store,
             projection.ref[1] = "projection", proc[p].request.attempt = W.authority,
             ProjectionHolds(proc[p], projection, projection.doc.linked),
             SetsProjection(p, "transaction", projection)
      PROVE  Orderly(p)
    <2>1. /\ OthersStay(p) /\ Shaped(proc'[p]) /\ proc'[p].at = "transaction"
          /\ proc'[p].op = proc[p].op /\ proc'[p].build = proc[p].build
          /\ proc'[p].request = proc[p].request /\ proc'[p].input = proc[p].input
          /\ proc'[p].projection = projection
        BY <1>1, <1>3, WithProjection
    <2>2. Control(proc[p])'
        BY <1>1, <2>1 DEF Working, Control, Request, W, Quiet
    <2>3. HoldsInput(proc[p])' /\ Checkpointed(proc[p])'
        BY <2>1 DEF HoldsInput, Checkpointed
    <2>4. /\ projection \in Projections /\ projection.doc.attempt = W.authority
          /\ proc[p].build \in Gated => projection.doc.gated
        <3>1. projection \in Projections
            BY <1>3 DEF ProjectionsAdmitted
        <3>2. projection.doc = Content(proc[p].request, projection.doc.linked, proc[p].build \in Gated)
            BY <1>3 DEF ProjectionHolds
        <3>3. /\ projection.doc.attempt = proc[p].request.attempt
              /\ projection.doc.gated = (proc[p].build \in Gated \/ world \in ClaimKept)
            BY <3>2 DEF Content
        <3>4. QED
            BY <1>3, <3>1, <3>3, Zenon
    <2>5. HoldsRows(p)'
        BY <1>1, <2>1, <2>4 DEF HoldsRows, Fit, W, Quiet
    <2>6. QED
        BY <1>1, <2>1, <2>2, <2>3, <2>5 DEF Orderly, Working
<1>4. QED
    BY <1>1, <1>2, <1>3, StopIsOrderly


\* Nobody else is in the write transaction of the tables.
Alone(p) == \A q \in Procs : q # p => proc[q].at # "commit rows"

\* The same operation with the receipt it has sealed.
SetsSource(p, at, source) == proc' = [proc EXCEPT ![p].at = at, ![p].source = source]

\* A writer that has its source execution and moves on is otherwise as it was.
LEMMA WithReceipt ==
    ASSUME Shapes, NEW p \in Procs, proc[p].at # "idle", NEW at, NEW source,
           SetsSource(p, at, source)
    PROVE  /\ OthersStay(p) /\ Shaped(proc'[p]) /\ proc'[p].at = at
           /\ proc'[p].op = proc[p].op /\ proc'[p].build = proc[p].build
           /\ proc'[p].request = proc[p].request /\ proc'[p].input = proc[p].input
           /\ proc'[p].projection = proc[p].projection /\ proc'[p].source = source
<1>1. proc = [q \in Procs |-> proc[q]] /\ Shaped(proc[p]) /\ proc[p] # Idle
    BY DEF Shapes, Idle
<1>2. proc'[p] = [proc[p] EXCEPT !.at = at, !.source = source] /\ OthersStay(p)
    BY <1>1 DEF OthersStay, SetsSource
<1>3. QED
    BY <1>1, <1>2 DEF Shaped

\* The writer that finds no rows seals a receipt for the projection it verified
\* and takes the lock of the tables, one time.
Seals(p) ==
    /\ proc[p].at = "transaction" /\ writer = None /\ receipt = None /\ tables = {}
    /\ \E at \in Times :
          /\ store' = store \cup {ReceiptArtifact(proc[p].projection, at)}
          /\ SetsSource(p, "commit rows", ReceiptArtifact(proc[p].projection, at))
    /\ writer' = p
    /\ UNCHANGED <<world, build, disk, tables, receipt, answers, budget>>

\* What a writer that goes no further leaves.
Leaves(p) ==
    /\ proc[p].at = "transaction" /\ Stop(p)
    /\ UNCHANGED <<world, build, disk, store, tables, receipt, writer, budget>>
    /\ \/ UNCHANGED answers
       \/ /\ receipt # None
          /\ answers' = answers \cup {[kind |-> "receipt", request |-> proc[p].request,
                                       source |-> receipt.artifact]}

\* A write transaction that begins has a receipt to seal, or leaves the tables as they are.
LEMMA BeginWriteIs ==
    ASSUME NEW p \in Procs, BeginWrite(p)
    PROVE  Seals(p) \/ Leaves(p)
<1>1. CASE writer # None /\ proc[p].at = "transaction" /\ Refuse(p)
    BY <1>1 DEF Refuse, Leaves
<1>2. CASE writer = None /\ StageRows(p)
    <2>1. CASE receipt # None
        BY <1>2, <2>1 DEF StageRows, Leaves
    <2>2. CASE receipt = None /\ tables # {}
        BY <1>2, <2>2 DEF StageRows, Leaves
    <2>3. CASE receipt = None /\ tables = {}
        BY <1>2, <2>3 DEF StageRows, Seals, SetsSource, Commit
    <2>4. QED
        BY <2>1, <2>2, <2>3
<1>3. QED
    BY <1>1, <1>2 DEF BeginWrite

\* A writer that leaves the tables as they are is out of its transaction.
LEMMA LeavesIsOrderly ==
    ASSUME Shapes, NEW p \in Procs, Leaves(p)
    PROVE  Orderly(p)
<1>1. Quiet /\ DiskGrows /\ Stop(p)
    BY DiskStays DEF Leaves, Quiet
<1>2. QED
    BY <1>1, StopIsOrderly

\* A writer that seals its receipt holds the rows it is about to commit.
LEMMA SealsWorks ==
    ASSUME Shapes, NEW p \in Procs, Working(p), Seals(p)
    PROVE  OthersStay(p) /\ Shaped(proc'[p]) /\ Working(p)'
<1>1. /\ proc[p].at = "transaction" /\ receipt = None /\ tables = {} /\ writer' = p
      /\ UNCHANGED <<world, build, disk, tables, receipt, answers, budget>>
    BY DEF Seals
<1>2. PICK at \in Times :
          /\ store' = store \cup {ReceiptArtifact(proc[p].projection, at)}
          /\ SetsSource(p, "commit rows", ReceiptArtifact(proc[p].projection, at))
    BY DEF Seals
<1>3. /\ OthersStay(p) /\ Shaped(proc'[p]) /\ proc'[p].at = "commit rows"
      /\ proc'[p].op = proc[p].op /\ proc'[p].build = proc[p].build
      /\ proc'[p].request = proc[p].request /\ proc'[p].input = proc[p].input
      /\ proc'[p].projection = proc[p].projection
      /\ proc'[p].source = ReceiptArtifact(proc[p].projection, at)
    BY <1>1, <1>2, WithReceipt
<1>4. Control(proc[p])'
    BY <1>1, <1>3 DEF Working, Control, Request, W
<1>5. HoldsInput(proc[p])' /\ Checkpointed(proc[p])'
    <2>1. proc'[p].op = "write"
        BY <1>1, <1>3 DEF Working, Control
    <2>2. QED
        BY <1>3, <2>1 DEF HoldsInput, Checkpointed
<1>6. Fit(proc[p])'
    BY <1>1, <1>3 DEF Working, HoldsRows, Fit, W
<1>7. HoldsRows(p)'
    BY <1>1, <1>2, <1>3, <1>6 DEF HoldsRows
<1>8. QED
    BY <1>3, <1>4, <1>5, <1>7 DEF Working

\* A process takes an operation its package is used for, on a claim of the plan.
LEMMA StartWorks ==
    ASSUME Shapes, NEW p \in Procs, NEW op, NEW attempt \in Attempts, NEW i \in Inputs,
           Start(p, op, Request(attempt), i)
    PROVE  OthersStay(p) /\ Shaped(proc'[p]) /\ Working(p)'
<1> DEFINE s == [at |-> First(op), op |-> op, build |-> build,
                 request |-> IF op \in {"seal", "calculate"} THEN None ELSE Request(attempt),
                 input |-> IF op \in {"source", "repair", "write"} THEN None ELSE i,
                 manifest |-> None, part |-> 1, projection |-> None, source |-> None]
<1>1. /\ proc' = [proc EXCEPT ![p] = s] /\ op \in Operations[build]
      /\ UNCHANGED <<world, build, disk, store, tables, receipt, writer, answers>>
    BY DEF Start
<1>2. proc'[p] = s /\ OthersStay(p)
    BY <1>1 DEF Shapes, OthersStay
<1>3. build \in Builds /\ op \in Operations[build]
    BY <1>1 DEF Shapes
<1>4. op \in {"seal", "calculate", "execute", "recover", "read", "source", "repair", "write"}
    BY <1>3, AssemblyAssumption
<1>5. s.at = First(op) /\ s.op = op /\ s.build = build
      /\ (op \notin {"seal", "calculate"} => s.request = Request(attempt))
      /\ (op \notin {"source", "repair", "write"} => s.input \in Inputs)
      /\ Shaped(s)
    BY DEF Shaped
<1> HIDE DEF s
<1>6. s.at = First(s.op)
    BY <1>5
<1>7. /\ s.op \in {"seal", "calculate"} => s.at = "put input"
      /\ s.op \in {"execute", "recover"} => s.at = "request"
      /\ s.op = "source" => s.at = "pipeline"
      /\ s.op = "read" => s.at = "read"
      /\ s.op = "repair" => s.at = "repair"
      /\ s.op = "write" => s.at = "check"
    BY <1>4, <1>5, <1>6 DEF First
<1>8. Control(s)
    BY <1>3, <1>4, <1>5, <1>7 DEF Control
<1>9. Control(proc[p])'
    BY <1>1, <1>2, <1>8 DEF Control, Request, W
<1>10. HoldsInput(proc[p])' /\ Checkpointed(proc[p])' /\ HoldsRows(p)'
    BY <1>2, <1>4, <1>5, <1>7 DEF HoldsInput, Checkpointed, HoldsRows
<1>11. QED
    BY <1>2, <1>5, <1>9, <1>10 DEF Working

-----------------------------------------------------------------------------
(* Every step keeps what the processes hold.                               *)

\* The steps that leave the tables alone, one after the other.
LEMMA StepIsOrderly ==
    ASSUME Shapes, ProjectionsAdmitted, NEW p \in Procs, Working(p), Step(p),
           ~Seals(p), ~CommitWrite(p)
    PROVE  Orderly(p)
<1>1. CASE PutInput(p) \/ BindInput(p) \/ PutPart(p) \/ PutManifest(p) \/ BindComplete(p)
    BY <1>1, PutInputIsOrderly, BindInputIsOrderly, PutPartIsOrderly, PutManifestIsOrderly,
       BindCompleteIsOrderly
<1>2. CASE InitialRequest(p) \/ ReadCheckpoint(p) \/ ResolveSource(p) \/ CommitCheckpoint(p)
    BY <1>2, InitialRequestIsOrderly, ReadCheckpointIsOrderly, ResolveSourceIsOrderly,
       CommitCheckpointIsOrderly
<1>3. CASE Pipeline(p) \/ RecoverTarget(p) \/ CommitLink(p) \/ CommitProjection(p)
    BY <1>3, PipelineIsOrderly, RecoverTargetIsOrderly, CommitLinkIsOrderly,
       CommitProjectionIsOrderly
<1>4. CASE Answer(p) \/ Read(p) \/ VerifySource(p) \/ CommitRepair(p)
    BY <1>4, AnswersAreOrderly
<1>5. CASE SealSource(p) \/ CommitSource(p) \/ RepairProjection(p) \/ CheckWrite(p)
    BY <1>5, SealSourceIsOrderly, CommitSourceIsOrderly, RepairProjectionIsOrderly,
       CheckWriteIsOrderly
<1>6. CASE BeginWrite(p)
    BY <1>6, BeginWriteIs, LeavesIsOrderly
<1>7. QED
    BY <1>1, <1>2, <1>3, <1>4, <1>5, <1>6 DEF Step

\* The holder of the tables is one process.
LEMMA OneHolder ==
    ASSUME NEW p \in Procs, \A q \in Procs : Working(q),
           writer = None \/ writer = p
    PROVE  Alone(p)
    BY AssemblyAssumption DEF Working, HoldsRows, Alone

\* Every step of a process leaves the state well formed and every process knowing what
\* its place in the code says it has stored.
LEMMA StepKeeps ==
    ASSUME IInv, NEW p \in Procs, Step(p)
    PROVE  Shapes' /\ (\A q \in Procs : Working(q)')
<1>0. Shapes /\ ProjectionsAdmitted /\ \A q \in Procs : Working(q)
    BY DEF IInv
<1>1. CASE Seals(p)
    <2>1. /\ UNCHANGED <<world, build, disk, tables, receipt, budget>> /\ writer = None
          /\ store \subseteq store' /\ DiskGrows
        BY <1>0, <1>1, DiskStays DEF Seals
    <2>2. OthersStay(p) /\ Shaped(proc'[p]) /\ Working(p)' /\ Alone(p)
        BY <1>0, <1>1, <2>1, SealsWorks, OneHolder
    <2>3. ASSUME NEW q \in Procs, q # p PROVE Working(q)'
        BY <1>0, <2>1, <2>2, <2>3, OthersKeep DEF OthersStay, Alone
    <2>4. Shapes'
        BY <1>0, <2>1, <2>2 DEF Shapes, OthersStay
    <2>5. QED
        BY <2>2, <2>3, <2>4
<1>2. CASE CommitWrite(p)
    <2>1. /\ UNCHANGED <<world, build, disk, store, budget>> /\ DiskGrows /\ Stop(p)
          /\ proc[p].at = "commit rows"
        BY <1>0, <1>2, DiskStays DEF CommitWrite
    <2>2. proc'[p].at = "idle" /\ OthersStay(p) /\ Shaped(proc'[p])
        BY <1>0, <2>1, StopMoves
    <2>3. writer = p
        BY <1>0, <2>1 DEF Working, HoldsRows
    <2>4. Working(p)'
        BY <2>2 DEF Working, Control, HoldsInput, Checkpointed, HoldsRows
    <2>5. ASSUME NEW q \in Procs, q # p PROVE Working(q)'
        BY <1>0, <2>1, <2>2, <2>3, <2>5, OneHolder, OthersKeep DEF OthersStay, Alone
    <2>6. Shapes'
        BY <1>0, <2>1, <2>2 DEF Shapes, OthersStay
    <2>7. QED
        BY <2>4, <2>5, <2>6
<1>3. CASE ~Seals(p) /\ ~CommitWrite(p)
    <2>1. Quiet /\ DiskGrows /\ OthersStay(p) /\ Shaped(proc'[p]) /\ Working(p)'
        BY <1>0, <1>3, StepIsOrderly DEF Orderly
    <2>2. ASSUME NEW q \in Procs, q # p PROVE Working(q)'
        BY <1>0, <2>1, <2>2, OthersKeep DEF OthersStay, Quiet
    <2>3. Shapes'
        BY <1>0, <2>1 DEF Shapes, OthersStay, Quiet, DiskGrows
    <2>4. QED
        BY <2>1, <2>2, <2>3
<1>4. QED
    BY <1>1, <1>2, <1>3

\* So does the start of an operation.
LEMMA StartKeeps ==
    ASSUME IInv, NEW p \in Procs, NEW op, NEW attempt \in Attempts, NEW i \in Inputs,
           Start(p, op, Request(attempt), i)
    PROVE  Shapes' /\ (\A q \in Procs : Working(q)')
<1>1. Shapes /\ \A q \in Procs : Working(q)
    BY DEF IInv
<1>2. /\ UNCHANGED <<world, build, disk, store, tables, receipt, writer, answers>>
      /\ budget' = [budget EXCEPT !.operations = @ - 1]
    BY DEF Start
<1>3. OthersStay(p) /\ Shaped(proc'[p]) /\ Working(p)' /\ DiskGrows
    BY <1>1, <1>2, StartWorks, DiskStays
<1>4. /\ budget'.lost = budget.lost
      /\ budget' = [operations |-> budget'.operations, mishaps |-> budget'.mishaps,
                    lost |-> budget'.lost]
    BY <1>1, <1>2 DEF Shapes
<1>5. ASSUME NEW q \in Procs, q # p PROVE Working(q)'
    BY <1>1, <1>2, <1>3, <1>4, <1>5, OthersKeep DEF OthersStay
<1>6. Shapes'
    BY <1>1, <1>2, <1>3, <1>4 DEF Shapes, OthersStay
<1>7. QED
    BY <1>3, <1>5, <1>6

\* A process that dies releases the tables only if it holds them.
LEMMA CrashKeeps ==
    ASSUME IInv, NEW p \in Procs, Crash(p)
    PROVE  Shapes' /\ (\A q \in Procs : Working(q)')
<1>1. Shapes /\ \A q \in Procs : Working(q)
    BY DEF IInv
<1>2. /\ UNCHANGED <<world, build, disk, store, tables, receipt, answers>> /\ Stop(p)
      /\ budget' = [budget EXCEPT !.mishaps = @ - 1]
      /\ writer' = IF writer = p THEN None ELSE writer
    BY DEF Crash
<1>3. proc'[p].at = "idle" /\ OthersStay(p) /\ Shaped(proc'[p]) /\ DiskGrows
    BY <1>1, <1>2, StopMoves, DiskStays
<1>4. /\ budget'.lost = budget.lost
      /\ budget' = [operations |-> budget'.operations, mishaps |-> budget'.mishaps,
                    lost |-> budget'.lost]
    BY <1>1, <1>2 DEF Shapes
<1>5. Working(p)'
    BY <1>3 DEF Working, Control, HoldsInput, Checkpointed, HoldsRows
<1>6. ASSUME NEW q \in Procs, q # p PROVE Working(q)'
    <2>1. proc[q].at = "commit rows" => UNCHANGED <<writer, receipt, tables>>
        BY <1>1, <1>2, <1>6 DEF Working, HoldsRows
    <2>2. QED
        BY <1>1, <1>2, <1>3, <1>4, <1>6, <2>1, OthersKeep DEF OthersStay
<1>7. Shapes'
    BY <1>1, <1>2, <1>3, <1>4 DEF Shapes, OthersStay
<1>8. QED
    BY <1>5, <1>6, <1>7

\* Files are lost and harmed under everybody.
LEMMA FaultKeeps ==
    ASSUME IInv, Fault
    PROVE  Shapes' /\ (\A q \in Procs : Working(q)') /\ budget'.lost
<1>1. Shapes /\ \A q \in Procs : Working(q)
    BY DEF IInv
<1>2. /\ UNCHANGED <<world, build, store, tables, receipt, writer, proc, answers>>
      /\ budget' = [budget EXCEPT !.mishaps = @ - 1, !.lost = TRUE]
    BY DEF Fault
<1>3. /\ budget'.lost = TRUE
      /\ budget' = [operations |-> budget'.operations, mishaps |-> budget'.mishaps,
                    lost |-> budget'.lost]
    BY <1>1, <1>2 DEF Shapes
<1>4. /\ disk' = [objects |-> disk'.objects, harmed |-> disk'.harmed, slots |-> disk'.slots]
      /\ disk'.slots = [f \in Phases |-> disk'.slots[f]]
    <2>1. CASE \E object \in disk.objects : disk' = LoseObject(disk, object)
        BY <1>1, <2>1 DEF LoseObject, Shapes
    <2>2. CASE \E object \in disk.objects \ disk.harmed : disk' = HarmObject(disk, object)
        BY <1>1, <2>2 DEF HarmObject, Shapes
    <2>3. CASE \E phase \in { f \in Phases : disk.slots[f] # None } :
                   disk' = LoseSlot(disk, phase)
        BY <1>1, <2>3 DEF LoseSlot, Shapes
    <2>4. QED
        BY <2>1, <2>2, <2>3 DEF Fault
<1>5. ASSUME NEW q \in Procs PROVE Working(q)'
    <2>1. Control(proc[q])' /\ Checkpointed(proc[q])' /\ HoldsRows(q)'
        BY <1>1, <1>2 DEF Working, Control, Request, W, Checkpointed, Checkpoint, HoldsRows, Fit
    <2>2. HoldsInput(proc[q])'
        BY <1>3 DEF HoldsInput
    <2>3. QED
        BY <2>1, <2>2 DEF Working
<1>6. Shapes'
    BY <1>1, <1>2, <1>3, <1>4 DEF Shapes
<1>7. QED
    BY <1>3, <1>5, <1>6

\* A new package is installed under everybody.
LEMMA UpgradeKeeps ==
    ASSUME IInv, Upgrade
    PROVE  Shapes' /\ (\A q \in Procs : Working(q)')
<1>1. Shapes /\ \A q \in Procs : Working(q)
    BY DEF IInv
<1>2. /\ UNCHANGED <<world, disk, store, tables, receipt, writer, proc, answers, budget>>
      /\ build' \in Builds
    BY DEF Upgrade
<1>3. ASSUME NEW q \in Procs PROVE Working(q)'
    BY <1>1, <1>2 DEF Working, Control, Request, W, HoldsInput, Checkpointed, Checkpoint,
        HoldsRows, Fit
<1>4. Shapes'
    BY <1>1, <1>2 DEF Shapes
<1>5. QED
    BY <1>3, <1>4

-----------------------------------------------------------------------------
(* What is complete is whole.                                              *)

\* Nothing a step adds to the disk takes anything from a complete result.
LEMMA ObjectsGrow ==
    ASSUME CompleteIsWhole, budget'.lost = budget.lost, disk.objects \subseteq disk'.objects,
           disk'.slots = disk.slots
    PROVE  CompleteIsWhole'
    BY DEF CompleteIsWhole

\* The input slot is bound before any part of the result, so nothing complete is disturbed.
LEMMA BindInputWhole ==
    ASSUME Shapes, CompleteIsWhole, NEW p \in Procs, Working(p), BindInput(p)
    PROVE  CompleteIsWhole'
<1> DEFINE ref == Input(proc[p].input)
<1>1. proc[p].input \in Inputs /\ budget' = budget
    BY DEF BindInput, Elsewhere, Working, Control
<1>2. CASE CanBind(disk, "INPUT", ref)
    <2>1. /\ DiskGrows /\ disk.slots["INPUT"] \in {None, ref} /\ disk'.slots["INPUT"] = ref
          /\ disk'.slots["COMPLETE"] = disk.slots["COMPLETE"]
        BY <1>2, BindGrows DEF BindInput, Phases
    <2>2. QED
        BY <1>1, <2>1, References DEF CompleteIsWhole, DiskGrows
<1>3. CASE ~CanBind(disk, "INPUT", ref)
    BY <1>1, <1>3, ObjectsGrow DEF BindInput
<1>4. QED
    BY <1>2, <1>3

\* The set becomes complete only when its input is the bound one and its parts
\* are there.
LEMMA BindCompleteWhole ==
    ASSUME Shapes, CompleteIsWhole, NEW p \in Procs, Working(p), BindComplete(p)
    PROVE  CompleteIsWhole'
<1> DEFINE i == proc[p].input
<1> DEFINE can == PackageWhole(disk, i) /\ CanBind(disk, "COMPLETE", Manifest(i))
<1>1. i \in Inputs /\ budget' = budget /\ proc[p].at = "complete"
    BY DEF BindComplete, Elsewhere, Working, Control
<1>2. CASE can
    <2>1. disk' = Bind(disk, "COMPLETE", Manifest(i))
        BY <1>2 DEF BindComplete
    <2>2. /\ DiskGrows /\ disk'.slots["INPUT"] = disk.slots["INPUT"]
          /\ disk'.slots["COMPLETE"] = Manifest(i)
        BY <1>2, <2>1, BindGrows DEF Phases
    <2>3. ~budget.lost => disk.slots["INPUT"] = Input(i)
        BY <1>1 DEF Working, HoldsInput
    <2>4. {Input(i), Manifest(i)} \cup ResultParts(i) \subseteq disk.objects
        BY <1>2 DEF PackageWhole, Readable
    <2>5. ASSUME NEW j \in Inputs, Manifest(j) = Manifest(i) PROVE j = i
        BY <2>5, References
    <2>6. QED
        BY <1>1, <2>2, <2>3, <2>4, <2>5 DEF CompleteIsWhole, DiskGrows
<1>3. CASE ~can
    BY <1>1, <1>3, ObjectsGrow DEF BindComplete
<1>4. QED
    BY <1>2, <1>3

\* No step of a process makes a target result complete that is not whole.
LEMMA StepWhole ==
    ASSUME IInv, NEW p \in Procs, Step(p)
    PROVE  CompleteIsWhole'
<1>0. Shapes /\ CompleteIsWhole /\ Working(p)
    BY DEF IInv
<1>1. CASE PutInput(p)
    <2>1. /\ disk.objects \subseteq disk'.objects /\ disk'.slots = disk.slots
          /\ budget' = budget
        BY <1>0, <1>1, PutGrows DEF PutInput, Elsewhere
    <2>2. QED
        BY <1>0, <2>1, ObjectsGrow
<1>2. CASE PutPart(p)
    <2>1. /\ disk.objects \subseteq disk'.objects /\ disk'.slots = disk.slots
          /\ budget' = budget
        BY <1>0, <1>2, PutGrows DEF PutPart, Elsewhere
    <2>2. QED
        BY <1>0, <2>1, ObjectsGrow
<1>3. CASE PutManifest(p)
    <2>1. /\ disk.objects \subseteq disk'.objects /\ disk'.slots = disk.slots
          /\ budget' = budget
        BY <1>0, <1>3, PutGrows DEF PutManifest, Elsewhere
    <2>2. QED
        BY <1>0, <2>1, ObjectsGrow
<1>4. CASE BindInput(p) \/ BindComplete(p)
    BY <1>0, <1>4, BindInputWhole, BindCompleteWhole
<1>5. CASE \/ InitialRequest(p) \/ ReadCheckpoint(p) \/ ResolveSource(p) \/ CommitCheckpoint(p)
           \/ Pipeline(p) \/ RecoverTarget(p) \/ CommitLink(p) \/ CommitProjection(p)
    <2>1. disk' = disk /\ budget' = budget
        BY <1>5 DEF InitialRequest, ReadCheckpoint, ResolveSource, CommitCheckpoint, Pipeline,
            RecoverTarget, CommitLink, CommitProjection, Elsewhere
    <2>2. QED
        BY <1>0, <2>1, ObjectsGrow
<1>6. CASE \/ Answer(p) \/ Read(p) \/ VerifySource(p) \/ CommitRepair(p) \/ SealSource(p)
           \/ CommitSource(p) \/ RepairProjection(p) \/ CheckWrite(p)
    <2>1. disk' = disk /\ budget' = budget
        BY <1>6 DEF Answer, Read, VerifySource, CommitRepair, SealSource, CommitSource,
            RepairProjection, CheckWrite, Elsewhere
    <2>2. QED
        BY <1>0, <2>1, ObjectsGrow
<1>7. CASE BeginWrite(p) \/ CommitWrite(p)
    <2>1. disk' = disk /\ budget' = budget
        BY <1>7, BeginWriteIs DEF Seals, Leaves, CommitWrite
    <2>2. QED
        BY <1>0, <2>1, ObjectsGrow
<1>8. QED
    BY <1>1, <1>2, <1>3, <1>4, <1>5, <1>6, <1>7 DEF Step

-----------------------------------------------------------------------------
(* What is answered is of the checkpoint.                                  *)

\* A checkpoint that is sealed stays the checkpoint of what was answered.
LEMMA AnswersStay ==
    ASSUME CheckpointGoverns, AnswersShaped, store \subseteq store', 
           \A a \in answers' : a \in answers \/ a.kind \notin {"target", "read"}
    PROVE  CheckpointGoverns' /\ AnswersShaped'
<1>1. ASSUME NEW a \in answers', a.kind \in {"target", "read"} PROVE a \in answers
    BY <1>1
<1>2. AnswersShaped'
    BY <1>1 DEF AnswersShaped
<1>3. ASSUME NEW a \in answers', a.kind \in {"target", "read"}
      PROVE  \E saved \in Sealed(<<"checkpoint">>)' :
                /\ saved.doc.request = a.request /\ saved.doc.input = a.input
                /\ saved.doc.manifest = a.request.manifest
                /\ SourceOf[a.input] = saved.doc.manifest
    <2>1. PICK saved \in Sealed(<<"checkpoint">>) :
                /\ saved.doc.request = a.request /\ saved.doc.input = a.input
                /\ saved.doc.manifest = a.request.manifest
                /\ SourceOf[a.input] = saved.doc.manifest
        BY <1>1, <1>3 DEF CheckpointGoverns
    <2>2. saved \in Sealed(<<"checkpoint">>)'
        BY DEF Sealed
    <2>3. QED
        BY <2>1, <2>2
<1>4. QED
    BY <1>2, <1>3 DEF CheckpointGoverns

\* One answer more, of what the checkpoint says.
LEMMA OneMoreAnswer ==
    ASSUME CheckpointGoverns, AnswersShaped, store' = store,
           NEW kind \in {"target", "read"}, NEW request, NEW package, NEW input, NEW projection,
           answers' = answers \cup {[kind |-> kind, request |-> request, input |-> input,
                                     projection |-> projection]},
           Artifact(<<"checkpoint">>, [request |-> request, build |-> package,
                                       manifest |-> request.manifest, input |-> input]) \in store,
           SourceOf[input] = request.manifest
    PROVE  CheckpointGoverns' /\ AnswersShaped'
<1> DEFINE new == [kind |-> kind, request |-> request, input |-> input,
                   projection |-> projection]
<1> DEFINE saved == Artifact(<<"checkpoint">>, [request |-> request, build |-> package,
                                               manifest |-> request.manifest, input |-> input])
<1>1. saved \in Sealed(<<"checkpoint">>)'
    BY DEF Sealed, Artifact
<1>2. /\ saved.doc.request = new.request /\ saved.doc.input = new.input
      /\ saved.doc.manifest = new.request.manifest /\ SourceOf[new.input] = saved.doc.manifest
    BY DEF Artifact
<1>3. new = [kind |-> new.kind, request |-> new.request, input |-> new.input,
             projection |-> new.projection]
    OBVIOUS
<1> HIDE DEF new, saved
<1>4. answers' = answers \cup {new}
    BY DEF new
<1>5. AnswersShaped'
    BY <1>3, <1>4 DEF AnswersShaped
<1>6. CheckpointGoverns'
    BY <1>1, <1>2, <1>4 DEF CheckpointGoverns, Sealed
<1>7. QED
    BY <1>5, <1>6

\* What is answered at the end of an operation is what the checkpoint names.
LEMMA AnswerGoverned ==
    ASSUME Shapes, CheckpointGoverns, AnswersShaped, NEW p \in Procs, Working(p), Answer(p)
    PROVE  CheckpointGoverns' /\ AnswersShaped'
<1> DEFINE r == proc[p]
<1>1. r.at = "answer" /\ store' = store
    BY DEF Answer
<1>2. r.op \in {"execute", "recover"}
    BY <1>1 DEF Working, Control
<1>3. /\ Checkpoint(r) \in store /\ r.manifest = r.request.manifest
      /\ SourceOf[r.input] = r.manifest
    BY <1>1, <1>2 DEF Working, Checkpointed
<1>4. Artifact(<<"checkpoint">>, [request |-> r.request, build |-> r.build,
                                  manifest |-> r.request.manifest, input |-> r.input]) \in store
    BY <1>3 DEF Checkpoint
<1>5. \/ answers' = answers
      \/ answers' = answers \cup {[kind |-> "target", request |-> r.request, input |-> r.input,
                                   projection |-> r.projection]}
    BY DEF Answer
<1> HIDE DEF r
<1>6. QED
    BY <1>1, <1>3, <1>4, <1>5, AnswersStay, OneMoreAnswer

\* What a later read answers is what the checkpoint names.
LEMMA ReadGoverned ==
    ASSUME Shapes, CheckpointGoverns, AnswersShaped, NEW p \in Procs, Read(p)
    PROVE  CheckpointGoverns' /\ AnswersShaped'
<1>1. proc[p].at = "read" /\ store' = store
    BY DEF Read
<1>2. PICK pointer \in { a \in answers : a.kind = "target" /\ a.request = proc[p].request } :
         answers' = IF /\ proc[p].input = pointer.input /\ InputHolds(proc[p])
                       /\ CheckpointHolds(proc[p], proc[p].request.manifest)
                       /\ ResultHolds(proc[p], pointer)
                    THEN answers \cup {[pointer EXCEPT !.kind = "read"]} ELSE answers
    BY DEF Read
<1>3. CASE answers' = answers
    BY <1>1, <1>3, AnswersStay
<1>4. CASE answers' # answers
    <2>1. /\ proc[p].input = pointer.input /\ pointer.request = proc[p].request
          /\ CheckpointHolds(proc[p], proc[p].request.manifest)
          /\ answers' = answers \cup {[pointer EXCEPT !.kind = "read"]}
        BY <1>2, <1>4
    <2>2. [pointer EXCEPT !.kind = "read"] =
              [kind |-> "read", request |-> pointer.request, input |-> pointer.input,
               projection |-> pointer.projection]
        BY DEF AnswersShaped
    <2>3. /\ Artifact(<<"checkpoint">>,
                      [request |-> pointer.request, build |-> proc[p].build,
                       manifest |-> pointer.request.manifest, input |-> pointer.input]) \in store
          /\ SourceOf[pointer.input] = pointer.request.manifest
        BY <1>1, <2>1, CheckpointIs
    <2>4. answers' = answers \cup {[kind |-> "read", request |-> pointer.request,
                                    input |-> pointer.input, projection |-> pointer.projection]}
        BY <2>1, <2>2
    <2>5. QED
        BY <1>1, <2>3, <2>4, OneMoreAnswer
<1>5. QED
    BY <1>3, <1>4

\* No step answers anything else.
LEMMA StepAnswers ==
    ASSUME IInv, NEW p \in Procs, Step(p)
    PROVE  CheckpointGoverns' /\ AnswersShaped'
<1>0. Shapes /\ CheckpointGoverns /\ AnswersShaped /\ Working(p)
    BY DEF IInv
<1>1. CASE Answer(p) \/ Read(p)
    BY <1>0, <1>1, AnswerGoverned, ReadGoverned
<1>2. CASE \/ PutInput(p) \/ BindInput(p) \/ PutPart(p) \/ PutManifest(p) \/ BindComplete(p)
           \/ InitialRequest(p) \/ ReadCheckpoint(p) \/ ResolveSource(p) \/ CommitCheckpoint(p)
           \/ Pipeline(p) \/ RecoverTarget(p) \/ CommitLink(p) \/ CommitProjection(p)
           \/ CommitSource(p) \/ RepairProjection(p) \/ CheckWrite(p)
    <2>1. answers' = answers /\ store \subseteq store'
        BY <1>2 DEF PutInput, BindInput, PutPart, PutManifest, BindComplete, InitialRequest,
            ReadCheckpoint, ResolveSource, CommitCheckpoint, Pipeline, RecoverTarget, CommitLink,
            CommitProjection, CommitSource, RepairProjection, CheckWrite, Commit
    <2>2. QED
        BY <1>0, <2>1, AnswersStay
<1>3. CASE SealSource(p)
    <2>1. store \subseteq store'
        BY <1>3 DEF SealSource, Commit
    <2>2. \/ answers' = answers
          \/ \E found : answers' = answers \cup
                 { [kind |-> "source", request |-> proc[p].request, source |-> a] : a \in found }
        BY <1>3 DEF SealSource
    <2>3. QED
        BY <1>0, <2>1, <2>2, AnswersStay
<1>4. CASE VerifySource(p)
    <2>1. store \subseteq store'
        BY <1>4 DEF VerifySource
    <2>2. \/ answers' = answers
          \/ \E sealed : answers' = answers \cup
                 {[kind |-> "source", request |-> proc[p].request, source |-> sealed]}
        BY <1>4 DEF VerifySource
    <2>3. QED
        BY <1>0, <2>1, <2>2, AnswersStay
<1>5. CASE CommitRepair(p)
    <2>1. store \subseteq store'
        BY <1>5 DEF CommitRepair, Commit
    <2>2. \/ answers' = answers
          \/ \E sealed : answers' = answers \cup
                 {[kind |-> "repair", request |-> proc[p].request, source |-> sealed]}
        BY <1>5 DEF CommitRepair
    <2>3. QED
        BY <1>0, <2>1, <2>2, AnswersStay
<1>6. CASE BeginWrite(p) \/ CommitWrite(p)
    <2>1. store \subseteq store'
        BY <1>6, BeginWriteIs DEF Seals, Leaves, CommitWrite
    <2>2. \/ answers' = answers
          \/ \E sealed : answers' = answers \cup
                 {[kind |-> "receipt", request |-> proc[p].request, source |-> sealed]}
        BY <1>6, BeginWriteIs DEF Seals, Leaves, CommitWrite
    <2>3. QED
        BY <1>0, <2>1, <2>2, AnswersStay
<1>7. QED
    BY <1>1, <1>2, <1>3, <1>4, <1>5, <1>6 DEF Step

-----------------------------------------------------------------------------
(* What is projected was admitted.                                         *)

\* The artifacts of an execution, of a repair and of the tables are none of
\* the projections.
LEMMA Named ==
    /\ \A p : Checkpoint(p).ref[1] # "projection"
    /\ \A request : Bundle(request).ref[1] # "projection"
    /\ \A request, i : Link(request, i).ref[1] # "projection"
    /\ \A i : \A a \in LinkSources(i) : a.ref[1] # "projection"
    /\ \A request, b, projection : SourceExecution(request, b, projection).ref[1] # "projection"
    /\ \A request, source, projection, b :
          Repair(request, source, projection, b).ref[1] # "projection"
    /\ \A projection, at : ReceiptArtifact(projection, at).ref[1] # "projection"
<1>1. \A p : Checkpoint(p).ref[1] # "projection"
    BY DEF Checkpoint, Artifact
<1>2. \A request : Bundle(request).ref[1] # "projection"
    BY DEF Bundle, Artifact
<1>3. \A request, i : Link(request, i).ref[1] # "projection"
    BY DEF Link, Artifact
<1>4. ASSUME NEW i, NEW a \in LinkSources(i) PROVE a.ref[1] # "projection"
    BY DEF LinkSources, Artifact
<1>5. \A request, b, projection : SourceExecution(request, b, projection).ref[1] # "projection"
    BY DEF SourceExecution, Artifact
<1>6. \A request, source, projection, b :
          Repair(request, source, projection, b).ref[1] # "projection"
    BY DEF Repair, Artifact
<1>7. \A projection, at : ReceiptArtifact(projection, at).ref[1] # "projection"
    BY DEF ReceiptArtifact, Artifact
<1>8. QED
    BY <1>1, <1>2, <1>3, <1>4, <1>5, <1>6, <1>7

\* A projection of a claim of the run is one of those there can be.
LEMMA ProjectionIs ==
    ASSUME NEW attempt \in Attempts, NEW linked \in BOOLEAN, NEW gated \in BOOLEAN,
           NEW chunk \in Chunks \cup {"fixed"}
    PROVE  /\ Projection(Content(Request(attempt), linked, gated), chunk) \in Projections
           /\ Projection(Content(Request(attempt), linked, gated), chunk).doc.linked = linked
<1> DEFINE open == gated \/ world \in ClaimKept
<1>1. open \in BOOLEAN
    OBVIOUS
<1>2. Content(Request(attempt), linked, gated) =
          [attempt |-> attempt, linked |-> linked, gated |-> open]
    BY DEF Content, Request
<1> HIDE DEF open
<1>3. Projection([attempt |-> attempt, linked |-> linked, gated |-> open], chunk) \in Projections
    BY <1>1 DEF Projections
<1>4. Projection([attempt |-> attempt, linked |-> linked, gated |-> open], chunk).doc.linked
          = linked
    BY DEF Projection, Artifact
<1>5. QED
    BY <1>2, <1>3, <1>4

\* Other artifacts change no projection.
LEMMA OtherArtifacts ==
    ASSUME ProjectionsAdmitted, world' = world,
           \A a \in store' : a \in store \/ a.ref[1] # "projection"
    PROVE  ProjectionsAdmitted'
<1>1. \A q : Admits(q)' = Admits(q)
    BY DEF Admits, RefusalOf
<1>2. QED
    BY <1>1 DEF ProjectionsAdmitted

\* A projection that is committed was admitted by the packages of its claim.
LEMMA OneProjection ==
    ASSUME ProjectionsAdmitted, world' = world, NEW p \in Procs, Working(p), proc[p].at # "idle",
           proc[p].op \notin {"seal", "calculate"}, NEW linked \in BOOLEAN,
           NEW chunk \in Chunks \cup {"fixed"}, Projects(proc[p].request, linked),
           Commit({Projection(Content(proc[p].request, linked, proc[p].build \in Gated), chunk)})
    PROVE  ProjectionsAdmitted'
<1> DEFINE new == Projection(Content(proc[p].request, linked, proc[p].build \in Gated), chunk)
<1>1. PICK attempt \in Attempts : proc[p].request = Request(attempt)
    BY DEF Working, Control
<1>2. PICK gated \in BOOLEAN : gated = (proc[p].build \in Gated)
    <2>1. (proc[p].build \in Gated) \in BOOLEAN
        OBVIOUS
    <2>2. QED
        BY <2>1, Zenon
<1>3. new \in Projections /\ new.doc.linked = linked
    <2>1. /\ Projection(Content(Request(attempt), linked, gated), chunk) \in Projections
          /\ Projection(Content(Request(attempt), linked, gated), chunk).doc.linked = linked
        BY ProjectionIs
    <2>2. new = Projection(Content(Request(attempt), linked, gated), chunk)
        BY <1>1, <1>2, Zenon
    <2>3. QED
        BY <2>1, <2>2, Zenon
<1>4. Admits(linked)
    BY DEF Projects, Admits
<1>5. store' = store \cup {new}
    BY DEF Commit
<1> HIDE DEF new
<1>6. \A q : Admits(q)' = Admits(q)
    BY DEF Admits, RefusalOf
<1>7. QED
    BY <1>3, <1>4, <1>5, <1>6 DEF ProjectionsAdmitted

\* No step stores a projection that was refused.
LEMMA StepAdmits ==
    ASSUME IInv, NEW p \in Procs, Step(p)
    PROVE  ProjectionsAdmitted'
<1>0. ProjectionsAdmitted /\ Working(p)
    BY DEF IInv
<1>1. CASE \/ PutInput(p) \/ BindInput(p) \/ PutPart(p) \/ PutManifest(p) \/ BindComplete(p)
           \/ InitialRequest(p) \/ ReadCheckpoint(p) \/ ResolveSource(p) \/ RecoverTarget(p)
           \/ Answer(p) \/ Read(p) \/ VerifySource(p) \/ CheckWrite(p) \/ CommitWrite(p)
    <2>1. world' = world /\ store' = store
        BY <1>1 DEF PutInput, BindInput, PutPart, PutManifest, BindComplete, InitialRequest,
            ReadCheckpoint, ResolveSource, RecoverTarget, Answer, Read, VerifySource, CheckWrite,
            CommitWrite, Elsewhere
    <2>2. QED
        BY <1>0, <2>1, OtherArtifacts
<1>2. CASE CommitCheckpoint(p)
    <2>1. world' = world /\ (store' = store \/ store' = store \cup {Checkpoint(proc[p])})
        BY <1>2 DEF CommitCheckpoint, Commit, Elsewhere
    <2>2. QED
        BY <1>0, <2>1, Named, OtherArtifacts
<1>3. CASE Pipeline(p)
    <2>1. world' = world /\ (store' = store \/ store' = store \cup {Bundle(proc[p].request)})
        BY <1>3 DEF Pipeline, Commit, Elsewhere
    <2>2. QED
        BY <1>0, <2>1, Named, OtherArtifacts
<1>4. CASE CommitLink(p)
    <2>1. /\ world' = world
          /\ \/ store' = store
             \/ store' = store \cup (LinkSources(proc[p].input)
                                       \cup {Link(proc[p].request, proc[p].input)})
        BY <1>4 DEF CommitLink, Commit, Elsewhere
    <2>2. QED
        BY <1>0, <2>1, Named, OtherArtifacts
<1>5. CASE CommitProjection(p)
    <2>1. world' = world /\ proc[p].at # "idle" /\ proc[p].op \notin {"seal", "calculate"}
        BY <1>0, <1>5 DEF CommitProjection, Elsewhere, Working, Control
    <2>2. CASE Projects(proc[p].request, TRUE)
        <3>1. Commit({Projection(Content(proc[p].request, TRUE, proc[p].build \in Gated), "fixed")})
            BY <1>5, <2>2 DEF CommitProjection
        <3>2. QED
            BY <1>0, <2>1, <2>2, <3>1, OneProjection
    <2>3. CASE ~Projects(proc[p].request, TRUE)
        <3>1. store' = store
            BY <1>5, <2>3 DEF CommitProjection
        <3>2. QED
            BY <1>0, <2>1, <3>1, OtherArtifacts
    <2>4. QED
        BY <2>2, <2>3
<1>6. CASE SealSource(p)
    <2>1. world' = world /\ proc[p].at # "idle" /\ proc[p].op \notin {"seal", "calculate"}
        BY <1>0, <1>6 DEF SealSource, Elsewhere, Working, Control
    <2>2. \/ store' = store
          \/ \E chunk \in Chunks :
                /\ Projects(proc[p].request, FALSE)
                /\ Commit({Projection(Content(proc[p].request, FALSE, proc[p].build \in Gated),
                                      chunk)})
        BY <1>6 DEF SealSource
    <2>3. CASE store' = store
        BY <1>0, <2>1, <2>3, OtherArtifacts
    <2>4. QED
        BY <1>0, <2>1, <2>2, <2>3, OneProjection
<1>7. CASE RepairProjection(p)
    <2>1. world' = world /\ proc[p].at # "idle" /\ proc[p].op \notin {"seal", "calculate"}
        BY <1>0, <1>7 DEF RepairProjection, Elsewhere, Working, Control
    <2>2. \/ store' = store
          \/ \E chunk \in Chunks :
                /\ Projects(proc[p].request, FALSE)
                /\ Commit({Projection(Content(proc[p].request, FALSE, proc[p].build \in Gated),
                                      chunk)})
        BY <1>7 DEF RepairProjection
    <2>3. CASE store' = store
        BY <1>0, <2>1, <2>3, OtherArtifacts
    <2>4. QED
        BY <1>0, <2>1, <2>2, <2>3, OneProjection
<1>8. CASE CommitSource(p)
    <2>1. world' = world /\ (store' = store \/ store' = store \cup {SourceDoc(proc[p])})
        BY <1>8 DEF CommitSource, Commit, Elsewhere
    <2>2. SourceDoc(proc[p]).ref[1] # "projection"
        BY Named DEF SourceDoc
    <2>3. QED
        BY <1>0, <2>1, <2>2, OtherArtifacts
<1>9. CASE CommitRepair(p)
    <2>1. /\ world' = world
          /\ \/ store' = store
             \/ store' = store \cup {Repair(proc[p].request, proc[p].source, proc[p].projection,
                                            proc[p].build)}
        BY <1>9 DEF CommitRepair, Commit, Elsewhere
    <2>2. QED
        BY <1>0, <2>1, Named, OtherArtifacts
<1>10. CASE BeginWrite(p)
    <2>1. /\ world' = world
          /\ store' = store \/ \E at \in Times :
                store' = store \cup {ReceiptArtifact(proc[p].projection, at)}
        BY <1>10, BeginWriteIs DEF Seals, Leaves
    <2>2. QED
        BY <1>0, <2>1, Named, OtherArtifacts
<1>11. QED
    BY <1>1, <1>2, <1>3, <1>4, <1>5, <1>6, <1>7, <1>8, <1>9, <1>10 DEF Step

-----------------------------------------------------------------------------
(* The tables.                                                             *)

\* Nothing but the writer's transaction touches the tables, and no other
\* answer is a receipt.
LEMMA TablesStay ==
    ASSUME ReceiptNamesRows, TablesHeld, store \subseteq store',
           UNCHANGED <<world, tables, receipt, writer>>,
           \A a \in answers' : a \in answers \/ a.kind # "receipt"
                                 \/ (receipt # None /\ a.source = receipt.artifact),
           writer # None => proc'[writer] = proc[writer]
    PROVE  ReceiptNamesRows' /\ TablesHeld'
<1>1. ReceiptNamesRows'
    BY DEF ReceiptNamesRows, W
<1>2. TablesHeld'
    BY DEF TablesHeld
<1>3. QED
    BY <1>1, <1>2

\* The rows and their receipt become visible together.
LEMMA CommitWriteNames ==
    ASSUME IInv, NEW p \in Procs, CommitWrite(p)
    PROVE  ReceiptNamesRows' /\ TablesHeld'
<1> DEFINE projection == proc[p].projection
<1> DEFINE new == [content |-> projection.doc, artifact |-> proc[p].source]
<1>1. Working(p) /\ ReceiptNamesRows /\ TablesHeld /\ proc[p].at = "commit rows"
    BY DEF IInv, CommitWrite
<1>2. /\ Fit(proc[p]) /\ receipt = None /\ proc[p].source \in store
      /\ \E at \in Times : proc[p].source = ReceiptArtifact(projection, at)
    BY <1>1 DEF Working, HoldsRows
<1>3. /\ tables' = {projection.doc} /\ receipt' = new /\ writer' = None
      /\ UNCHANGED <<world, store>>
      /\ answers' = answers \cup {[kind |-> "receipt", request |-> proc[p].request,
                                   source |-> proc[p].source]}
    BY DEF CommitWrite
<1>4. new \in Receipts
    BY <1>2 DEF Fit, Receipts
<1>5. new.content = projection.doc /\ new.artifact = proc[p].source
    OBVIOUS
<1>6. new # None
    BY <1>4, AssemblyAssumption
<1>7. projection.doc.attempt = W.authority
    BY <1>2 DEF Fit
<1>8. (\A b \in Builds : "write" \in Operations[b] => b \in Gated) => projection.doc.gated
    <2>1. proc[p].op = "write" /\ proc[p].build \in Builds /\ proc[p].op \in Operations[proc[p].build]
        BY <1>1 DEF Working, Control
    <2>2. QED
        BY <1>2, <2>1 DEF Fit
<1> HIDE DEF new, projection
<1>9. ReceiptNamesRows'
    <2>1. tables' = {receipt'.content} /\ receipt' # None /\ receipt'.artifact \in store'
          /\ receipt'.content.attempt = W.authority
        BY <1>2, <1>3, <1>5, <1>6, <1>7
    <2>2. ASSUME NEW a \in answers', a.kind = "receipt" PROVE a.source = receipt'.artifact
        <3>1. a \notin answers
            BY <1>1, <1>2, <2>2 DEF ReceiptNamesRows
        <3>2. a = [kind |-> "receipt", request |-> proc[p].request, source |-> proc[p].source]
            BY <1>3, <3>1
        <3>3. QED
            BY <1>3, <1>5, <3>2
    <2>3. QED
        BY <1>3, <2>1, <2>2 DEF ReceiptNamesRows, W
<1>10. TablesHeld'
    BY <1>3, <1>4, <1>5, <1>8 DEF TablesHeld
<1>11. QED
    BY <1>9, <1>10

\* A sealed receipt is not yet visible in the tables.
LEMMA SealsNames ==
    ASSUME IInv, NEW p \in Procs, Seals(p)
    PROVE  ReceiptNamesRows' /\ TablesHeld'
<1>1. Shapes /\ ReceiptNamesRows /\ TablesHeld /\ Working(p)
    BY DEF IInv
<1>2. /\ UNCHANGED <<world, tables, receipt, answers>> /\ store \subseteq store'
      /\ writer' = p /\ receipt = None
    BY DEF Seals
<1>3. proc'[p].at = "commit rows"
    <2>1. PICK at \in Times : SetsSource(p, "commit rows", ReceiptArtifact(proc[p].projection, at))
        BY DEF Seals
    <2>2. proc[p].at # "idle"
        BY DEF Seals
    <2>3. QED
        BY <1>1, <2>1, <2>2, WithReceipt
<1>4. ReceiptNamesRows'
    BY <1>1, <1>2 DEF ReceiptNamesRows, W
<1>5. TablesHeld'
    BY <1>1, <1>2, <1>3 DEF TablesHeld
<1>6. QED
    BY <1>4, <1>5

\* No step parts the rows of the run from the receipt beside them.
LEMMA StepTables ==
    ASSUME IInv, NEW p \in Procs, Step(p)
    PROVE  ReceiptNamesRows' /\ TablesHeld'
<1>0. Shapes /\ ReceiptNamesRows /\ TablesHeld /\ ProjectionsAdmitted /\ Working(p)
    BY DEF IInv
<1>1. CASE CommitWrite(p)
    BY <1>1, CommitWriteNames
<1>2. CASE Seals(p)
    BY <1>2, SealsNames
<1>3. CASE ~CommitWrite(p) /\ ~Seals(p)
    <2>1. Quiet /\ OthersStay(p)
        BY <1>0, <1>3, StepIsOrderly DEF Orderly
    <2>2. proc[p].at # "commit rows"
        BY <1>3, BeginWriteIs DEF Step, PutInput, BindInput, PutPart, PutManifest, BindComplete,
            InitialRequest, ReadCheckpoint, ResolveSource, CommitCheckpoint, Pipeline,
            RecoverTarget, CommitLink, CommitProjection, Answer, Read, SealSource, CommitSource,
            VerifySource, RepairProjection, CommitRepair, CheckWrite, Leaves
    <2>3. writer # None => proc'[writer] = proc[writer]
        BY <1>0, <2>1, <2>2 DEF TablesHeld, OthersStay
    <2>4. \A a \in answers' : a \in answers \/ a.kind # "receipt"
                                \/ (receipt # None /\ a.source = receipt.artifact)
        <3>1. CASE Answer(p)
            BY <3>1 DEF Answer
        <3>2. CASE Read(p)
            <4>1. \/ answers' = answers
                  \/ \E pointer \in answers : pointer.kind = "target"
                        /\ answers' = answers \cup {[pointer EXCEPT !.kind = "read"]}
                BY <3>2 DEF Read
            <4>2. \A pointer \in answers : pointer.kind = "target" =>
                        [pointer EXCEPT !.kind = "read"].kind # "receipt"
                BY DEF IInv, AnswersShaped
            <4>3. QED
                BY <4>1, <4>2
        <3>3. CASE VerifySource(p)
            <4>1. \/ answers' = answers
                  \/ \E sealed : answers' = answers \cup
                         {[kind |-> "source", request |-> proc[p].request, source |-> sealed]}
                BY <3>3 DEF VerifySource
            <4>2. QED
                BY <4>1
        <3>4. CASE SealSource(p)
            <4>1. \/ answers' = answers
                  \/ \E found : answers' = answers \cup
                         { [kind |-> "source", request |-> proc[p].request, source |-> a] :
                               a \in found }
                BY <3>4 DEF SealSource
            <4>2. QED
                BY <4>1
        <3>5. CASE CommitRepair(p)
            <4>1. \/ answers' = answers
                  \/ \E sealed : answers' = answers \cup
                         {[kind |-> "repair", request |-> proc[p].request, source |-> sealed]}
                BY <3>5 DEF CommitRepair
            <4>2. QED
                BY <4>1
        <3>6. CASE Leaves(p)
            BY <3>6 DEF Leaves
        <3>7. CASE answers' = answers
            BY <3>7
        <3>8. QED
            BY <1>3, <3>1, <3>2, <3>3, <3>4, <3>5, <3>6, <3>7, BeginWriteIs DEF Step, PutInput,
                BindInput, PutPart, PutManifest, BindComplete, InitialRequest, ReadCheckpoint,
                ResolveSource, CommitCheckpoint, Pipeline, RecoverTarget, CommitLink,
                CommitProjection, CommitSource, RepairProjection, CheckWrite
    <2>5. QED
        BY <1>0, <2>1, <2>3, <2>4, TablesStay DEF Quiet
<1>4. QED
    BY <1>1, <1>2, <1>3

-----------------------------------------------------------------------------
(* Artifacts are stored once.                                              *)

\* One artifact more, checked against those that are stored or like them.
LEMMA OneArtifact ==
    ASSUME WriteOnce, NEW new, store' = store \cup {new},
           \A a \in store : a.ref = new.ref => a = new,
           new.ref[1] = "receipt" => new = ReceiptArtifact(new.ref[2], new.ref[3])
    PROVE  WriteOnce'
<1>1. \A a, b \in store' : a.ref = b.ref => a = b
    BY DEF WriteOnce
<1>2. \A a \in store' : a.ref[1] = "receipt" => a = ReceiptArtifact(a.ref[2], a.ref[3])
    BY DEF WriteOnce
<1>3. QED
    BY <1>1, <1>2 DEF WriteOnce

\* An artifact is committed only where nothing else is stored under its reference,
LEMMA CommitsOne ==
    ASSUME WriteOnce, NEW new, CanCommit({new}), Commit({new}), new.ref[1] # "receipt"
    PROVE  WriteOnce'
<1>1. store' = store \cup {new} /\ \A a \in store : a.ref = new.ref => a = new
    BY DEF CanCommit, Commit, Sealed
<1>2. QED
    BY <1>1, OneArtifact

\* A projection is what its name says.
LEMMA ProjectionNamed ==
    ASSUME NEW a \in Projections
    PROVE  a = Projection(a.ref[2], a.ref[3]) /\ a.ref[1] = "projection"
    BY DEF Projections, Projection, Artifact

\* and a projection is stored under the hash of its content,
LEMMA CommitsProjection ==
    ASSUME WriteOnce, ProjectionsAdmitted, NEW content, NEW chunk,
           Commit({Projection(content, chunk)})
    PROVE  WriteOnce'
<1> DEFINE new == Projection(content, chunk)
<1>1. /\ new.ref[1] = "projection" /\ new.ref[2] = content /\ new.ref[3] = chunk
    BY DEF Projection, Artifact
<1>2. ASSUME NEW a \in store, a.ref = new.ref PROVE a = new
    <2>1. a \in Projections
        BY <1>1, <1>2 DEF ProjectionsAdmitted
    <2>2. a = Projection(a.ref[2], a.ref[3])
        BY <2>1, ProjectionNamed
    <2>3. a.ref[2] = content /\ a.ref[3] = chunk
        BY <1>1, <1>2
    <2>4. QED
        BY <2>2, <2>3
<1>3. store' = store \cup {new}
    BY DEF Commit
<1> HIDE DEF new
<1>4. QED
    BY <1>1, <1>2, <1>3, OneArtifact

\* as a receipt is under the projection it is of and its time.
LEMMA CommitsReceipt ==
    ASSUME WriteOnce, NEW projection, NEW at,
           store' = store \cup {ReceiptArtifact(projection, at)}
    PROVE  WriteOnce'
<1> DEFINE new == ReceiptArtifact(projection, at)
<1>1. new.ref[1] = "receipt" /\ new.ref[2] = projection /\ new.ref[3] = at
    BY DEF ReceiptArtifact, Artifact
<1>2. new = ReceiptArtifact(new.ref[2], new.ref[3])
    BY <1>1
<1>3. ASSUME NEW a \in store, a.ref = new.ref PROVE a = new
    <2>1. a = ReceiptArtifact(a.ref[2], a.ref[3])
        BY <1>1, <1>3 DEF WriteOnce
    <2>2. QED
        BY <1>2, <1>3, <2>1
<1> HIDE DEF new
<1>4. store' = store \cup {new}
    BY DEF new
<1>5. QED
    BY <1>2, <1>3, <1>4, OneArtifact

\* A link and the documents it names have different names.
LEMMA CommitsLink ==
    ASSUME WriteOnce, NEW request, NEW i, CanCommit(LinkSources(i) \cup {Link(request, i)}),
           Commit(LinkSources(i) \cup {Link(request, i)})
    PROVE  WriteOnce'
<1> DEFINE new == LinkSources(i) \cup {Link(request, i)}
<1>1. \A a \in LinkSources(i) : \E doc \in {"search", "selection"} :
          a = Artifact(<<doc, i>>, [input |-> i])
    BY DEF LinkSources
<1>2. \A a \in LinkSources(i) : a.ref[1] \in {"search", "selection"}
    BY <1>1 DEF Artifact
<1>3. Link(request, i).ref[1] = "link"
    BY DEF Link, Artifact
<1>4. \A a, b \in LinkSources(i) : a.ref = b.ref => a = b
    BY <1>1 DEF Artifact
<1>5. \A a, b \in new : a.ref = b.ref => a = b
    BY <1>2, <1>3, <1>4
<1>6. \A a \in new : a.ref[1] # "receipt"
    BY <1>2, <1>3
<1>7. store' = store \cup new /\ \A a \in new : \A b \in store : b.ref = a.ref => b = a
    BY DEF CanCommit, Commit, Sealed
<1> HIDE DEF new
<1>8. \A a, b \in store' : a.ref = b.ref => a = b
    BY <1>5, <1>7 DEF WriteOnce
<1>9. \A a \in store' : a.ref[1] = "receipt" => a = ReceiptArtifact(a.ref[2], a.ref[3])
    BY <1>6, <1>7 DEF WriteOnce
<1>10. QED
    BY <1>8, <1>9 DEF WriteOnce

\* No other artifact is stored as a receipt.
LEMMA NoReceipt ==
    /\ \A p : Checkpoint(p).ref[1] # "receipt"
    /\ \A request : Bundle(request).ref[1] # "receipt"
    /\ \A request, b, projection : SourceExecution(request, b, projection).ref[1] # "receipt"
    /\ \A request, source, projection, b :
          Repair(request, source, projection, b).ref[1] # "receipt"
<1>1. \A p : Checkpoint(p).ref[1] # "receipt"
    BY DEF Checkpoint, Artifact
<1>2. \A request : Bundle(request).ref[1] # "receipt"
    BY DEF Bundle, Artifact
<1>3. \A request, b, projection : SourceExecution(request, b, projection).ref[1] # "receipt"
    BY DEF SourceExecution, Artifact
<1>4. \A request, source, projection, b :
          Repair(request, source, projection, b).ref[1] # "receipt"
    BY DEF Repair, Artifact
<1>5. QED
    BY <1>1, <1>2, <1>3, <1>4

\* No step writes an artifact over another.
LEMMA StepWritesOnce ==
    ASSUME IInv, NEW p \in Procs, Step(p)
    PROVE  WriteOnce'
<1>0. WriteOnce /\ ProjectionsAdmitted
    BY DEF IInv
<1>1. ASSUME store' = store PROVE WriteOnce'
    BY <1>0, <1>1 DEF WriteOnce
<1>2. CASE \/ PutInput(p) \/ BindInput(p) \/ PutPart(p) \/ PutManifest(p) \/ BindComplete(p)
           \/ InitialRequest(p) \/ ReadCheckpoint(p) \/ ResolveSource(p) \/ RecoverTarget(p)
           \/ Answer(p) \/ Read(p) \/ VerifySource(p) \/ CheckWrite(p) \/ CommitWrite(p)
    <2>1. store' = store
        BY <1>2 DEF PutInput, BindInput, PutPart, PutManifest, BindComplete, InitialRequest,
            ReadCheckpoint, ResolveSource, RecoverTarget, Answer, Read, VerifySource, CheckWrite,
            CommitWrite
    <2>2. QED
        BY <1>1, <2>1
<1>3. CASE CommitCheckpoint(p)
    BY <1>0, <1>1, <1>3, NoReceipt, CommitsOne DEF CommitCheckpoint
<1>4. CASE Pipeline(p)
    <2>1. \/ store' = store
          \/ CanCommit({Bundle(proc[p].request)}) /\ Commit({Bundle(proc[p].request)})
        BY <1>4 DEF Pipeline
    <2>2. QED
        BY <1>0, <1>1, <2>1, NoReceipt, CommitsOne
<1>5. CASE CommitLink(p)
    <2> DEFINE linked == LinkSources(proc[p].input) \cup {Link(proc[p].request, proc[p].input)}
    <2>1. store' = store \/ (CanCommit(linked) /\ Commit(linked))
        BY <1>5 DEF CommitLink
    <2>2. QED
        BY <1>0, <1>1, <2>1, CommitsLink
<1>6. CASE CommitProjection(p)
    BY <1>0, <1>1, <1>6, CommitsProjection DEF CommitProjection
<1>7. CASE SealSource(p)
    <2>1. store' = store \/ \E content, chunk : Commit({Projection(content, chunk)})
        BY <1>7 DEF SealSource
    <2>2. QED
        BY <1>0, <1>1, <2>1, CommitsProjection
<1>8. CASE RepairProjection(p)
    <2>1. store' = store \/ \E content, chunk : Commit({Projection(content, chunk)})
        BY <1>8 DEF RepairProjection
    <2>2. QED
        BY <1>0, <1>1, <2>1, CommitsProjection
<1>9. CASE CommitSource(p)
    <2>1. store' = store \/ (CanCommit({SourceDoc(proc[p])}) /\ Commit({SourceDoc(proc[p])}))
        BY <1>9 DEF CommitSource
    <2>2. SourceDoc(proc[p]).ref[1] # "receipt"
        BY NoReceipt DEF SourceDoc
    <2>3. QED
        BY <1>0, <1>1, <2>1, <2>2, CommitsOne
<1>10. CASE CommitRepair(p)
    <2>1. \/ store' = store
          \/ \E sealed : CanCommit({sealed}) /\ Commit({sealed}) /\ sealed.ref[1] # "receipt"
        BY <1>10, NoReceipt DEF CommitRepair
    <2>2. QED
        BY <1>0, <1>1, <2>1, CommitsOne
<1>11. CASE BeginWrite(p)
    <2>1. store' = store \/ \E at \in Times :
              store' = store \cup {ReceiptArtifact(proc[p].projection, at)}
        BY <1>11, BeginWriteIs DEF Seals, Leaves
    <2>2. QED
        BY <1>0, <1>1, <2>1, CommitsReceipt
<1>12. QED
    BY <1>2, <1>3, <1>4, <1>5, <1>6, <1>7, <1>8, <1>9, <1>10, <1>11 DEF Step

-----------------------------------------------------------------------------
(* The invariant.                                                          *)

\* The invariant holds before the first operation.
LEMMA InitHolds ==
    ASSUME Init PROVE IInv
<1>1. Shapes
    <2>1. world \in Worlds /\ build \in Builds
        BY AssemblyAssumption DEF Init, W
    <2>2. proc = [p \in Procs |-> proc[p]] /\ \A p \in Procs : Shaped(proc[p])
        BY DEF Init, Shaped
    <2>3. QED
        BY <2>1, <2>2 DEF Init, Shapes, EmptyDisk
<1>2. ASSUME NEW p \in Procs PROVE Working(p)
    <2>1. proc[p].at = "idle"
        BY DEF Init, Idle
    <2>2. QED
        BY <2>1 DEF Working, Control, HoldsInput, Checkpointed, HoldsRows
<1>3. CompleteIsWhole
    BY References DEF Init, EmptyDisk, CompleteIsWhole, Phases
<1>4. /\ CheckpointGoverns /\ ReceiptNamesRows /\ ProjectionsAdmitted /\ WriteOnce
      /\ AnswersShaped /\ TablesHeld
    BY DEF Init, CheckpointGoverns, ReceiptNamesRows, ProjectionsAdmitted, WriteOnce,
        AnswersShaped, TablesHeld
<1>5. QED
    BY <1>1, <1>2, <1>3, <1>4 DEF IInv

\* What is not done to the store, the tables or the answers changes nothing of
\* what was promised about them.
LEMMA PromisesStay ==
    ASSUME IInv, UNCHANGED <<world, store, tables, receipt, answers>>
    PROVE  /\ CheckpointGoverns' /\ ReceiptNamesRows' /\ ProjectionsAdmitted' /\ AnswersShaped'
           /\ WriteOnce'
<1>1. CheckpointGoverns' /\ AnswersShaped'
    BY AnswersStay DEF IInv
<1>2. ReceiptNamesRows'
    BY DEF IInv, ReceiptNamesRows, W
<1>3. ProjectionsAdmitted'
    BY OtherArtifacts DEF IInv
<1>4. WriteOnce'
    BY DEF IInv, WriteOnce
<1>5. QED
    BY <1>1, <1>2, <1>3, <1>4

\* The holder of the tables is still in its transaction, or gone with its lock.
LEMMA HolderStays ==
    ASSUME TablesHeld, receipt' = receipt,
           writer' # None => writer' = writer /\ proc'[writer].at = proc[writer].at
    PROVE  TablesHeld'
    BY DEF TablesHeld

\* Starting an operation preserves the invariant.
LEMMA StartHolds ==
    ASSUME IInv, NEW p \in Procs, NEW op, NEW attempt \in Attempts, NEW i \in Inputs,
           Start(p, op, Request(attempt), i)
    PROVE  IInv'
<1>1. Shapes' /\ \A q \in Procs : Working(q)'
    BY StartKeeps
<1>2. UNCHANGED <<world, build, disk, store, tables, receipt, writer, answers>>
    BY DEF Start
<1>3. CompleteIsWhole'
    <2>1. budget'.lost = budget.lost
        BY DEF IInv, Shapes, Start
    <2>2. QED
        BY <1>2, <2>1, ObjectsGrow DEF IInv
<1>4. TablesHeld'
    <2>1. proc[p].at = "idle"
        BY DEF Start, Idle
    <2>2. OthersStay(p)
        BY StartWorks DEF IInv
    <2>3. QED
        BY <1>2, <2>1, <2>2, HolderStays DEF IInv, TablesHeld, OthersStay
<1>5. QED
    BY <1>1, <1>2, <1>3, <1>4, PromisesStay DEF IInv

\* So does the death of a process, wherever it is,
LEMMA CrashHolds ==
    ASSUME IInv, NEW p \in Procs, Crash(p)
    PROVE  IInv'
<1>1. Shapes' /\ \A q \in Procs : Working(q)'
    BY CrashKeeps
<1>2. /\ UNCHANGED <<world, build, disk, store, tables, receipt, answers>> /\ Stop(p)
      /\ writer' = IF writer = p THEN None ELSE writer
    BY DEF Crash
<1>3. CompleteIsWhole'
    <2>1. budget'.lost = budget.lost
        BY DEF IInv, Shapes, Crash
    <2>2. QED
        BY <1>2, <2>1, ObjectsGrow DEF IInv
<1>4. TablesHeld'
    <2>1. OthersStay(p)
        BY <1>2, StopMoves DEF IInv
    <2>2. QED
        BY <1>2, <2>1, HolderStays DEF IInv, TablesHeld, OthersStay
<1>5. QED
    BY <1>1, <1>2, <1>3, <1>4, PromisesStay DEF IInv

\* the loss of files and the installation of another package,
LEMMA MishapHolds ==
    ASSUME IInv, Fault \/ Upgrade
    PROVE  IInv'
<1>1. Shapes' /\ \A q \in Procs : Working(q)'
    BY FaultKeeps, UpgradeKeeps
<1>2. UNCHANGED <<world, store, tables, receipt, writer, proc, answers>>
    BY DEF Fault, Upgrade
<1>3. CompleteIsWhole'
    <2>1. CASE Fault
        BY <2>1, FaultKeeps DEF CompleteIsWhole
    <2>2. CASE Upgrade
        BY <2>2, ObjectsGrow DEF Upgrade, IInv
    <2>3. QED
        BY <2>1, <2>2
<1>4. TablesHeld'
    BY <1>2, HolderStays DEF IInv
<1>5. QED
    BY <1>1, <1>2, <1>3, <1>4, PromisesStay DEF IInv

\* and so every step.
LEMMA NextHolds ==
    ASSUME IInv, [Next]_vars PROVE IInv'
<1>1. ASSUME NEW p \in Procs, Step(p) PROVE IInv'
    BY <1>1, StepKeeps, StepWhole, StepAnswers, StepAdmits, StepWritesOnce, StepTables
       DEF IInv
<1>2. CASE UNCHANGED vars
    <2>1. UNCHANGED <<world, build, disk, store, tables, receipt, writer, proc, answers, budget>>
        BY <1>2 DEF vars
    <2>2. Shapes'
        BY <2>1 DEF IInv, Shapes
    <2>3. ASSUME NEW q \in Procs PROVE Working(q)'
        BY <2>1 DEF IInv, Working, Control, Request, W, HoldsInput, Checkpointed, Checkpoint,
            HoldsRows, Fit
    <2>4. CompleteIsWhole'
        BY <2>1, ObjectsGrow DEF IInv
    <2>5. TablesHeld'
        BY <2>1, HolderStays DEF IInv
    <2>6. QED
        BY <2>1, <2>2, <2>3, <2>4, <2>5, PromisesStay DEF IInv
<1>3. QED
    BY <1>1, <1>2, StartHolds, CrashHolds, MishapHolds DEF Next

\* Every state of every execution satisfies the inductive invariant: however
\* the operations of the processes interleave, die, are repeated, lose their
\* files or see the package replaced.
THEOREM Invariance == Spec => []IInv
<1>1. Init => IInv
    BY InitHolds
<1>2. IInv /\ [Next]_vars => IInv'
    BY NextHolds
<1>3. QED
    BY <1>1, <1>2, PTL DEF Spec

\* Unless files were lost or harmed, a target result visible as complete is
\* the whole result of the one input the run is bound to.
THEOREM CompletesAreWhole == Spec => []CompleteIsWhole
<1>1. IInv => CompleteIsWhole
    BY DEF IInv
<1>2. QED
    BY <1>1, Invariance, PTL

\* Every target result that is answered, at once, after a recovery or to a
\* later read, is of the one request and input the checkpoint of the run names.
THEOREM CheckpointsGovern == Spec => []CheckpointGoverns
<1>1. IInv => CheckpointGoverns
    BY DEF IInv
<1>2. QED
    BY <1>1, Invariance, PTL

\* However many writers race, the rows of a run are those of the projection its
\* one receipt names, of the claim that owns the run, and no writer is answered
\* with another receipt.
THEOREM ReceiptsNameRows == Spec => []ReceiptNamesRows
<1>1. IInv => ReceiptNamesRows
    BY DEF IInv
<1>2. QED
    BY <1>1, Invariance, PTL

\* Answers about one run are answers about one calculation: a second attempt,
\* a recovery and a later read answer with the request and the input of the first.
AnswersAgree ==
    \A a, b \in answers : a.kind \in {"target", "read"} /\ b.kind \in {"target", "read"} =>
        a.request = b.request /\ a.input = b.input

\* Every answer about a run names the same request and the same input.
THEOREM AnswersAgreeAlways == Spec => []AnswersAgree
<1>1. ASSUME CheckpointGoverns, WriteOnce PROVE AnswersAgree
    <2>1. SUFFICES ASSUME NEW a \in answers, NEW b \in answers,
                          a.kind \in {"target", "read"}, b.kind \in {"target", "read"}
                   PROVE  a.request = b.request /\ a.input = b.input
        BY DEF AnswersAgree
    <2>2. PICK of_a \in Sealed(<<"checkpoint">>) :
              of_a.doc.request = a.request /\ of_a.doc.input = a.input
        BY <1>1, <2>1 DEF CheckpointGoverns
    <2>3. PICK of_b \in Sealed(<<"checkpoint">>) :
              of_b.doc.request = b.request /\ of_b.doc.input = b.input
        BY <1>1, <2>1 DEF CheckpointGoverns
    <2>4. of_a \in store /\ of_b \in store /\ of_a.ref = of_b.ref
        BY <2>2, <2>3 DEF Sealed
    <2>5. of_a = of_b
        BY <1>1, <2>4 DEF WriteOnce
    <2>6. QED
        BY <2>2, <2>3, <2>5
<1>2. IInv => AnswersAgree
    BY <1>1 DEF IInv
<1>3. QED
    BY <1>2, Invariance, PTL

\* A projection that is stored was not refused, so its rows refer to each other.
LEMMA StoredIsClosed ==
    ASSUME IInv, NEW a \in store, a.ref[1] = "projection"
    PROVE  Closed[world][a.doc.linked]
<1>1. world \in Worlds /\ a \in Projections /\ Admits(a.doc.linked)
    BY DEF IInv, Shapes, ProjectionsAdmitted
<1>2. PICK linked \in BOOLEAN : linked = a.doc.linked
    BY <1>1 DEF Projections, Projection, Artifact
<1>3. Refusal(World[world], linked) = "NONE"
    BY <1>1, <1>2 DEF Admits, RefusalOf
<1>4. Referential(Tables(World[world], linked, TRUE))
    BY <1>1, <1>3, SealedAssumption, RowsReferToRows
<1>5. QED
    BY <1>1, <1>2, <1>4 DEF Closed

\* When the packages that write the tables know the gates of the claim, the rows
\* of every projection refer to rows of it, and what reaches the tables opens no
\* gate the claim closes, whatever older packages have sealed beside it.
THEOREM RowsAreHeld ==
    ASSUME \A b \in Builds : "write" \in Operations[b] => b \in Gated
    PROVE  Spec => []RowsHold
<1>1. ASSUME IInv PROVE RowsHold
    <2>1. \A a \in store : a.ref[1] = "projection" => Closed[world][a.doc.linked]
        BY <1>1, StoredIsClosed
    <2>2. \A content \in tables : content.gated
        BY <1>1 DEF IInv, ReceiptNamesRows, TablesHeld
    <2>3. QED
        BY <2>1, <2>2 DEF RowsHold
<1>2. IInv => RowsHold
    BY <1>1
<1>3. QED
    BY <1>2, Invariance, PTL

=============================================================================
