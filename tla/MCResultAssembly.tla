-------------------------- MODULE MCResultAssembly --------------------------
(* A site of two items and two weeks, for TLC: one run, two attempts. *)
EXTENDS ResultAssembly, TLC

CONSTANTS i1, i2, m1, m2

MCItems == {"a", "b"}
MCWeeks == 1 .. 2

MCSource == (i1 :> m1) @@ (i2 :> m2)
MCOperations ==
    [b1 |-> {"source"},
     b2 |-> {"seal", "calculate", "execute", "recover", "read", "source", "repair", "write"}]
MCChunks == {"fixed", "small"}
MCBuilds == {"b1", "b2"}
MCGated  == {"b2"}

Decision(item, verdict, publish, order) ==
    [item |-> item, week |-> 1, verdict |-> verdict, reasons |-> 1, admitted |-> TRUE,
     publish |-> publish, order |-> order]

Candidate(item, id, decisions) ==
    [item |-> item, id |-> id, status |-> "SUCCEEDED", states |-> {item} \X MCWeeks,
     decisions |-> decisions]
FailedCandidate(item, id) ==
    [item |-> item, id |-> id, status |-> "FAILED", states |-> {}, decisions |-> {}]

SearchDoc(hash) ==
    [hash |-> hash, baseline |-> MCItems,
     candidates |-> { Candidate("a", "a0", {}), Candidate("b", "b0", {}),
                      Candidate("a", "a1", { Decision("a", "ACCEPTED", TRUE, TRUE) }),
                      FailedCandidate("b", "b1") }]

SelectionDoc(hash) == [hash |-> hash, choice |-> [a |-> {"a1"}, b |-> {}]]

\* Two cost profiles in the search of the run and in one of another case.
SensitivityDoc(hash, searches) ==
    [hash |-> hash,
     matrix |-> { [case |-> s.hash, profile |-> q, item |-> c.item, search |-> s.hash,
                   candidate |-> c.id, metrics |-> c.status = "SUCCEEDED"] :
                  s \in searches, c \in SearchDoc("any").candidates, q \in {"p1", "p2"} }]

NoAnalysis == [bound |-> FALSE]
AnalysisDoc(search, selection) ==
    [bound |-> TRUE, search |-> search, cases |-> { search, SearchDoc("s9") },
     selection |-> selection,
     evaluations |-> { SensitivityDoc("e1", { search, SearchDoc("s9") }) }]

Operational(decisions) ==
    [id |-> "op", status |-> "SUCCEEDED", strategy |-> "MATHEMATICAL", role |-> "OPERATIONAL",
     states |-> MCItems \X MCWeeks, decisions |-> decisions]
Others ==
    { [id |-> "none", status |-> "SUCCEEDED", strategy |-> "NONE", role |-> "BASELINE",
       states |-> MCItems \X MCWeeks, decisions |-> {}],
      [id |-> "ml", status |-> "FAILED", strategy |-> "PREDICTIVE_ML", role |-> "EVIDENCE_ONLY",
       states |-> {}, decisions |-> {}] }

Facts ==
    { [kind |-> "forecast", item |-> i, week |-> t, id |-> 0] : i \in MCItems, t \in MCWeeks }
    \cup { [kind |-> "orders", item |-> "a", week |-> 1, id |-> 0],
           [kind |-> "current", item |-> "a", week |-> 0, id |-> 0],
           [kind |-> "prior", item |-> "a", week |-> 0, id |-> 0],
           [kind |-> "receipt", item |-> "a", week |-> 1, id |-> 1],
           [kind |-> "receipt", item |-> "a", week |-> 1, id |-> 2],
           [kind |-> "policy", item |-> "b", week |-> 0, id |-> 1],
           [kind |-> "reconciliation", item |-> "a", week |-> 0, id |-> 1],
           [kind |-> "reconciliation", item |-> "site", week |-> 0, id |-> 2] }

Plan(b) == [build |-> b, manifest |-> m1]

Plain ==
    [items |-> MCItems, weeks |-> MCWeeks, claim |-> [publish |-> FALSE, order |-> FALSE],
     header |-> "SOURCE", classified |-> TRUE, facts |-> Facts, effective |-> "op",
     children |-> { Operational({ Decision("a", "ACCEPTED", TRUE, TRUE),
                                  Decision("b", "REJECTED", TRUE, FALSE) }) } \cup Others,
     analysis |-> NoAnalysis,
     target |-> [search |-> SearchDoc("s1"), selection |-> SelectionDoc("d1")],
     costs |-> {}, admitted |-> TRUE, authority |-> 1, plan |-> Plan("b2")]

Shared ==
    [Plain EXCEPT !.claim = [publish |-> TRUE, order |-> TRUE],
                  !.header = "ANALYSIS",
                  !.analysis = AnalysisDoc(SearchDoc("s1"), SelectionDoc("d1")),
                  !.costs = { [id |-> "c1", rows |-> 2] }]

\* The bundle of `shared' was stored by a resolver that binds no classification.
MCWorld ==
    [ plain    |-> Plain,
      old      |-> [Plain EXCEPT !.plan = Plan("b1")],
      shared   |-> Shared,
      distinct |-> [Shared EXCEPT !.header = "SOURCE", !.costs = {}, !.authority = 2,
                                  !.analysis = AnalysisDoc(SearchDoc("s2"), SelectionDoc("d2"))],
      empty    |-> [Plain EXCEPT !.costs = { [id |-> "c1", rows |-> 0] }],
      blocked  |-> [Plain EXCEPT !.admitted = FALSE] ]

MCWorlds == DOMAIN MCWorld
Symmetry == Permutations(Procs)
=============================================================================
