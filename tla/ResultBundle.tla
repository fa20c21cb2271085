---------------------------- MODULE ResultBundle ----------------------------
(***************************************************************************)
(* How the executions of one claimed Run/Attempt turn it into durable       *)
(* evidence.  RunPsiBundleUseCase calculates the children of the sealed     *)
(* strategy execution plan - a baseline and a mathematical recommendation,  *)
(* which must succeed, and PPO challengers and stress scenarios, which may  *)
(* fail each on its own - and seals them into one result bundle.            *)
(* PersistInventoryResultBundleUseCase writes the bundle, the inputs and    *)
(* the artifact of every successful child in one SQLite transaction with    *)
(* the outbox message that binds them; ReadAndVerify... rebuilds the whole  *)
(* from the rows, now or when a redispatch recovers the result.             *)
(*                                                                          *)
(* A child's artifact is its content, one of the classes the comparison and *)
(* the cost distinguish; a content hash is the content itself.              *)
(***************************************************************************)
EXTENDS Naturals, FiniteSets, TLC

CONSTANTS
  Exec,             \* dispatches of the Run/Attempt
  Challengers,      \* the plan's PPO challengers, which the plan names once
  Scenarios,        \* the plan's stress scenarios, which the plan names once
  PpoOutcomes,      \* what may become of a challenger's execution
  StressOutcomes,   \* what may become of a scenario's execution
  Stray,            \* a challenger the plan does not name
  Rates,            \* cost profiles a plan may bind: a subset of CostRates
  None,             \* no value
  MaxFaults         \* bound on crashes and damaged rows

ASSUME FaultsAssumption == MaxFaults \in Nat

\* No profile, rates in whole currency units, rates with decimals.
CostRates == {"none", "whole", "decimal"}

ASSUME RatesAssumption == Rates \subseteq CostRates /\ Rates # {}

\* The contents a successful child may have: "whole" and "fraction" rows over
\* the baseline's universe (with decimal rates, a fraction's cost delta has
\* more decimals than the bundle can state), "short" misses a row of it.
Contents == {"whole", "fraction", "short"}

\* An execution gives a content or raises one of the codes below.
ASSUME OutcomesAssumption ==
  /\ PpoOutcomes \subseteq Contents \cup {"other", "opens", "raises"}
  /\ StressOutcomes \subseteq
       Contents \cup {"other", "unsteady", "altered", "reserved", "opens", "raises"}

VARIABLES
  claim,      \* the claim: its gates and the cost profile its plan binds
  maths,      \* what the deterministic calculation of the claim's input gives
  pc,         \* where each execution is
  command,    \* what the resolver answered to each execution
  bundle,     \* the bundle each execution sealed
  receipt,    \* the outbox record read back after the commit
  answer,     \* the rows and message each execution verified
  artifacts,  \* evidence store: the committed rows
  outbox,     \* evidence store: the committed outbox record
  tx,         \* the transaction that holds the write lock
  crashes,    \* executions that died so far
  damage      \* rows lost or replaced so far

faults == <<crashes, damage>>
vars == <<claim, maths, pc, command, bundle, receipt, answer, artifacts, outbox, tx, faults>>
store == <<artifacts, outbox, tx>>

-----------------------------------------------------------------------------
(* Children.                                                                 *)

Succeeded(c) == c.status = "SUCCEEDED"

Identity(kind, role, strategy, scenario, challenger) ==
  [kind |-> kind, role |-> role, strategy |-> strategy, scenario |-> scenario,
   challenger |-> challenger]

BaselineId == Identity("BASELINE_PSI", "EVIDENCE_ONLY", "NONE", "BASE", None)
MathematicalId == Identity("RECOMMENDED_PSI", "OPERATIONAL", "MATHEMATICAL", "BASE", None)
PpoId(c) == Identity("RECOMMENDED_PSI", "SHADOW", "DEEP_RL", "BASE", c)
StressId(s) == Identity("STRESS_PSI", "EVIDENCE_ONLY", "MATHEMATICAL", s, None)

SuccessfulChild(id, content) ==
  [id |-> id, status |-> "SUCCEEDED", content |-> content, reason |-> None]

FailedChild(id, status, reason) ==
  [id |-> id, status |-> status, content |-> None, reason |-> reason]

\* validate_optional_child_failure_semantics: which children may fail, and how.
FailureAllowed(c) ==
  \/ /\ c.id = PpoId(c.id.challenger)
     /\ c.status = "FAILED"
  \/ /\ c.id = StressId(c.id.scenario)
     /\ c.status = "SKIPPED" <=> c.reason = "STRESS_SCENARIO_UNAVAILABLE"

\* Defect: the reserved code of a resolver miss is passed on.
FailureCodePassedOn(code, prefix) ==
  CASE code = "PSI_COMPARISON_UNIVERSE_MISMATCH" -> "PSI_CHILD_UNIVERSE_MISMATCH"
    [] code = "NONE" -> prefix
    [] OTHER -> code

\* _optional_child_failure_code; NONE is an exception that carries no code, and
\* the prefix stands for the code made of it (PPO_EXECUTION_FAILED).
FailureCode(code, prefix) ==
  CASE code = "PSI_COMPARISON_UNIVERSE_MISMATCH" -> "PSI_CHILD_UNIVERSE_MISMATCH"
    [] code = "NONE" \/ (prefix = "STRESS" /\ code = "STRESS_SCENARIO_UNAVAILABLE")
         -> prefix
    [] OTHER -> code

Raised(id, prefix, code) == FailedChild(id, "FAILED", FailureCode(code, prefix))

\* The code an outcome of _execute_ppo_child raises; an outcome that is a
\* content succeeds.
PpoRaises(o) ==
  CASE o = "other"  -> "PPO_MODEL_BINDING_MISMATCH"
    [] o = "opens"  -> "SHADOW_AUTOMATION_GATE_INVALID"
    [] o = "raises" -> "NONE"

PpoChild(c, resolved, o) ==
  IF ~resolved THEN Raised(PpoId(c), "PPO", "PPO_MODEL_UNAVAILABLE")
  ELSE IF o \in Contents THEN SuccessfulChild(PpoId(c), o)
  ELSE Raised(PpoId(c), "PPO", PpoRaises(o))

\* The code an outcome of _execute_stress_child raises: another scenario or
\* runner than the plan binds, a runner whose replay differs, one that changes
\* more than demand and receipts, one that raises the reserved code, an opened
\* gate, an exception.
StressRaises(o) ==
  CASE o = "other"    -> "STRESS_SCENARIO_BINDING_MISMATCH"
    [] o = "unsteady" -> "STRESS_DETERMINISM_REPLAY_MISMATCH"
    [] o = "altered"  -> "STRESS_PREPARED_IMMUTABLE_SECTION_MISMATCH"
    [] o = "reserved" -> "STRESS_SCENARIO_UNAVAILABLE"
    [] o = "opens"    -> "STRESS_AUTOMATION_GATE_INVALID"
    [] o = "raises"   -> "NONE"

StressChild(s, resolved, o) ==
  IF ~resolved THEN FailedChild(StressId(s), "SKIPPED", "STRESS_SCENARIO_UNAVAILABLE")
  ELSE IF o \in Contents THEN SuccessfulChild(StressId(s), o)
  ELSE Raised(StressId(s), "STRESS", StressRaises(o))

\* _isolate_optional_child_comparison: a child that cannot be compared with
\* the baseline is a failed child; its artifact is dropped.
Isolated(c, prefix) ==
  IF Succeeded(c) /\ c.content = "short"
    THEN Raised(c.id, prefix, "PSI_COMPARISON_UNIVERSE_MISMATCH")
    ELSE c

-----------------------------------------------------------------------------
(* The sealed plan, the command that resolves it and the bundle.             *)

\* The plan lists its bindings; PSI_RUN_COMMAND resolves some of them.
Commands ==
  [implementation : {"planned", "other"}, challengers : SUBSET (Challengers \cup {Stray}),
   scenarios : SUBSET Scenarios, rates : CostRates, classification : BOOLEAN]

\* _admit: the implementations are the plan's, nothing unclaimed is resolved
\* and the cost profile is the one the plan binds.
Admissible(cmd) ==
  /\ cmd.implementation = "planned"
  /\ cmd.challengers \subseteq Challengers
  /\ cmd.scenarios \subseteq Scenarios
  /\ cmd.rates = claim.rates

\* A cost delta is stated with at most six decimals.
CostStated(content) == claim.rates = "decimal" => content = "whole"

\* Every child but the baseline is compared with it, a failed one by its reason.
Comparison(c) ==
  [candidate |-> c.id,
   cost |-> CASE c.status = "FAILED"  -> "CANDIDATE_RESULT_FAILED"
              [] c.status = "SKIPPED" -> "CANDIDATE_RESULT_SKIPPED"
              [] claim.rates = "none" -> "COST_PROFILE_NOT_BOUND"
              [] OTHER                -> "AVAILABLE"]

BundleOf(children) ==
  [children |-> children,
   effective |-> MathematicalId,
   comparisons |-> {Comparison(c) : c \in {d \in children : d.id # BaselineId}},
   rates |-> claim.rates,
   publish |-> maths.publish,
   order |-> maths.order]

\* _child_result: what a child of each status may hold.
ChildValid(c) ==
  IF Succeeded(c) THEN c.content # None /\ c.reason = None
  ELSE c.content = None /\ c.reason # None /\ FailureAllowed(c)

\* Everything but the baseline is compared, with what its child is.
ComparisonsValid(b) ==
  /\ {x.candidate : x \in b.comparisons} = {c.id : c \in b.children} \ {BaselineId}
  /\ \A x \in b.comparisons : \A c \in b.children :
       x.candidate = c.id => x = Comparison(c)

\* _validate_bundle_semantics against the plan.
BundleValid(b) ==
  /\ \A c \in b.children : ChildValid(c)
  /\ \A c, d \in b.children : c.id = d.id => c = d
  /\ b.order => b.publish
  /\ b.rates = claim.rates
  /\ {c.id : c \in b.children} =
       {BaselineId, MathematicalId} \cup {PpoId(x) : x \in Challengers}
          \cup {StressId(x) : x \in Scenarios}
  /\ \A c \in b.children : c.id \in {BaselineId, MathematicalId} => Succeeded(c)
  /\ b.effective = MathematicalId
  /\ ComparisonsValid(b)

\* validate_result_bundle_runtime_binding: the gates are the claimed ones.
BoundToClaim(b) ==
  /\ BundleValid(b)
  /\ b.publish = claim.publish
  /\ b.order = claim.order

-----------------------------------------------------------------------------
(* Evidence.                                                                 *)

Row(kind, id, body) == [ref |-> <<kind, id>>, body |-> body]

\* A row of a child's artifact.
Part(kind, c) == Row(kind, c.id, [content |-> c.content])

\* The rows of one child: its PSI, its actions and what its strategy observed.
ChildRows(c) ==
  {Part("psi", c)}
    \cup (IF c.id.strategy = "NONE" THEN {} ELSE {Part("actions", c), Part("source", c)})

ClassificationRow == Row("classification", None, claim)

\* The rows of the successful children.
RowsOf(children) == UNION {ChildRows(c) : c \in {d \in children : Succeeded(d)}}

\* PersistInventoryResultBundleUseCase: everything one execution writes.
Objects(e) ==
  {Row("bundle", None, bundle[e]), Row("inputs", None, claim)}
    \cup RowsOf(bundle[e].children)
    \cup (IF command[e].classification THEN {ClassificationRow} ELSE {})

\* _result_ready_outbox: the message binds the bundle and every row.
ResultReady(b, rows) == [bundle |-> b, bindings |-> rows]

Lookup(rows, kind, id) == {r \in rows : r.ref = <<kind, id>>}

\* The rows the verifier reads for a bundle it found, if all of them are there.
RowsRead(rows, b, classified) ==
  Lookup(rows, "bundle", None) \cup Lookup(rows, "inputs", None)
    \cup (IF classified THEN Lookup(rows, "classification", None) ELSE {})
    \cup {r \in rows : \E k \in {"psi", "actions", "source"}, c \in b.children :
                         Succeeded(c) /\ r.ref = <<k, c.id>>}

\* Defect: the message is compared with the bundle, never with the rows.
VerifiedUnbound(rows, message) ==
  \E b \in {r.body : r \in Lookup(rows, "bundle", None)} :
    /\ BundleValid(b)
    /\ message.bundle = b

\* The rows of a child are those its result names.
ChildStored(rows, c) ==
  /\ Lookup(rows, "psi", c.id) = {Part("psi", c)}
  /\ c.id.strategy # "NONE" =>
       /\ Lookup(rows, "actions", c.id) = {Part("actions", c)}
       /\ Lookup(rows, "source", c.id) = {Part("source", c)}

\* The message is the one these rows give, with a classification if it binds one.
Classified(message) == \E r \in message.bindings : r.ref = ClassificationRow.ref

MessageBound(rows, b, message) ==
  message = ResultReady(b, RowsRead(rows, b, Classified(message)))

\* ReadAndVerifyInventoryResultBundleUseCase: every child of the stored bundle
\* is rebuilt from its rows, its observation source from the execution source.
Verified(rows, message) ==
  \E b \in {r.body : r \in Lookup(rows, "bundle", None)} :
    /\ BundleValid(b)
    /\ Lookup(rows, "inputs", None) = {Row("inputs", None, claim)}
    /\ \A c \in b.children : Succeeded(c) => ChildStored(rows, c)
    /\ MessageBound(rows, b, message)

-----------------------------------------------------------------------------
(* What there can be.                                                        *)

Identities ==
  {BaselineId, MathematicalId} \cup {PpoId(c) : c \in Challengers}
    \cup {StressId(s) : s \in Scenarios}

\* The codes of a child that failed or was skipped.
Reasons ==
  {"PPO", "STRESS", "PPO_MODEL_UNAVAILABLE", "PPO_MODEL_BINDING_MISMATCH",
   "SHADOW_AUTOMATION_GATE_INVALID", "STRESS_SCENARIO_UNAVAILABLE",
   "STRESS_SCENARIO_BINDING_MISMATCH", "STRESS_DETERMINISM_REPLAY_MISMATCH",
   "STRESS_PREPARED_IMMUTABLE_SECTION_MISMATCH", "STRESS_AUTOMATION_GATE_INVALID",
   "PSI_CHILD_UNIVERSE_MISMATCH"}

CostStates ==
  {"CANDIDATE_RESULT_FAILED", "CANDIDATE_RESULT_SKIPPED", "COST_PROFILE_NOT_BOUND", "AVAILABLE"}

Children ==
  [id : Identities, status : {"SUCCEEDED", "FAILED", "SKIPPED"},
   content : Contents \cup {None}, reason : Reasons \cup {None}]

Bundles ==
  [children : SUBSET Children, effective : Identities,
   comparisons : SUBSET [candidate : Identities, cost : CostStates],
   rates : Rates, publish : BOOLEAN, order : BOOLEAN]

Claims == {c \in [publish : BOOLEAN, order : BOOLEAN, rates : Rates] : c.order => c.publish}

Rows ==
  [ref : {"bundle", "inputs", "classification", "psi", "actions", "source"}
           \X (Identities \cup {None}),
   body : Bundles \cup Claims \cup [content : Contents \cup {None}]]

Messages == [bundle : Bundles, bindings : SUBSET Rows]

Records == [message : Messages, status : {"PENDING", "WITHHELD_FOR_REVIEW", "PUBLISHED"}]

Transactions ==
  [by : Exec, rows : SUBSET Rows, left : SUBSET Rows, message : Messages \cup {None}]

ASSUME NoneAssumption ==
  None \notin Exec \cup Contents \cup Reasons \cup Bundles \cup Messages \cup Records
                \cup Transactions

-----------------------------------------------------------------------------
Init ==
  /\ claim \in Claims
  /\ maths \in {m \in [publish : BOOLEAN, order : BOOLEAN, content : Contents \cup {"raises"}] :
                  m.content \in {"raises", "short"} => ~m.publish /\ ~m.order}
  /\ pc = [e \in Exec |-> "idle"]
  /\ command = [e \in Exec |-> None]
  /\ bundle = [e \in Exec |-> None]
  /\ receipt = [e \in Exec |-> None]
  /\ answer = [e \in Exec |-> None]
  /\ artifacts = {}
  /\ outbox = None
  /\ tx = None
  /\ crashes = 0
  /\ damage = 0

Goto(e, p) == pc' = [pc EXCEPT ![e] = p]

-----------------------------------------------------------------------------
(* The pipeline: recover the sealed result of the attempt, or calculate it.  *)

FindOutbox(e) ==
  /\ pc[e] = "idle"
  /\ Goto(e, IF outbox = None THEN "resolve" ELSE "verify")
  /\ UNCHANGED <<claim, maths, command, bundle, receipt, answer, store, faults>>

\* The resolver answers; RunPsiBundleUseCase._admit checks it against the plan
\* and a command that does not resolve the plan ends the Run.
Admit(e) ==
  /\ pc[e] = "resolve"
  /\ \E cmd \in Commands :
       IF Admissible(cmd)
         THEN command' = [command EXCEPT ![e] = cmd] /\ Goto(e, "calculate")
         ELSE UNCHANGED command /\ Goto(e, "refused")
  /\ UNCHANGED <<claim, maths, bundle, receipt, answer, store, faults>>

\* The children of a calculation: the baseline and the mathematical child,
\* then every optional child, each isolated on its own: their order in the plan
\* changes nothing.
Required == {SuccessfulChild(BaselineId, "whole"), SuccessfulChild(MathematicalId, maths.content)}

ChallengerChildren(cmd, o) ==
  {Isolated(PpoChild(c, c \in cmd.challengers, o[c]), "PPO") : c \in Challengers}

ScenarioChildren(cmd, o) ==
  {Isolated(StressChild(s, s \in cmd.scenarios, o[s]), "STRESS") : s \in Scenarios}

\* The comparisons with the cost profile, after the last child.
Compared(children) ==
  \A c \in children : Succeeded(c) => c.content # "short" /\ CostStated(c.content)

\* RunPsiBundleUseCase.execute.  A required child that fails, an optional one
\* that cannot even be stated failed, the bundle or its binding to the claim
\* ends the Run without a result ("uncalculated"); so does a comparison with the
\* cost profile, of whichever child: nothing isolates it ("uncompared").
Calculate(e) ==
  /\ pc[e] = "calculate"
  /\ \E p \in [Challengers -> PpoOutcomes], s \in [Scenarios -> StressOutcomes] :
       LET optional == ChallengerChildren(command[e], p) \cup ScenarioChildren(command[e], s)
           children == Required \cup optional
           b == BundleOf(children)
           calculated == /\ maths.content \notin {"raises", "short"}
                         /\ \A c \in optional : Succeeded(c) \/ FailureAllowed(c)
       IN IF calculated /\ Compared(children) /\ BoundToClaim(b)
            THEN bundle' = [bundle EXCEPT ![e] = b] /\ Goto(e, "persist")
            ELSE /\ UNCHANGED bundle
                 /\ Goto(e, IF calculated /\ ~Compared(children) THEN "uncompared"
                                                               ELSE "uncalculated")
  /\ UNCHANGED <<claim, maths, command, receipt, answer, store, faults>>

-----------------------------------------------------------------------------
(* The transaction.  BEGIN IMMEDIATE takes SQLite's write lock: one           *)
(* execution writes at a time, and what it writes is seen when it commits.    *)

Begin(e) ==
  /\ pc[e] = "persist"
  /\ IF tx = None
       THEN /\ tx' = [by |-> e, rows |-> {}, left |-> Objects(e), message |-> None]
            /\ Goto(e, "write")
       ELSE UNCHANGED tx /\ Goto(e, "refused")   \* busy for the whole timeout
  /\ UNCHANGED <<claim, maths, command, bundle, receipt, answer, artifacts, outbox,
                 faults>>

\* Defect: rows of a failed transaction stay.
RollbackKeepsRows ==
  /\ artifacts' = artifacts \cup tx.rows
  /\ tx' = None

Rollback ==
  /\ UNCHANGED artifacts
  /\ tx' = None

\* _write_artifact: a row is written once; the same document is a replay.  The
\* rows go in one by one, in an order nothing depends on.
WriteArtifact(e) ==
  /\ pc[e] = "write"
  /\ tx.left # {}
  /\ LET row == CHOOSE r \in tx.left : TRUE
         stored == {r \in artifacts \cup tx.rows : r.ref = row.ref}
     IN IF stored \subseteq {row}
          THEN /\ tx' = [tx EXCEPT !.rows = @ \cup {row}, !.left = @ \ {row}]
               /\ UNCHANGED <<pc, artifacts>>
          ELSE Goto(e, "conflict") /\ Rollback
  /\ UNCHANGED <<claim, maths, command, bundle, receipt, answer, outbox, faults>>

InitialStatus(b) == IF b.publish THEN "PENDING" ELSE "WITHHELD_FOR_REVIEW"

\* _write_outbox: one message for the attempt; the same message is a replay.
WriteOutbox(e) ==
  LET message == ResultReady(bundle[e], Objects(e)) IN
  /\ pc[e] = "write"
  /\ tx.left = {}
  /\ tx.message = None
  /\ IF outbox = None \/ outbox.message = message
       THEN tx' = [tx EXCEPT !.message = message] /\ UNCHANGED <<pc, artifacts>>
       ELSE Goto(e, "conflict") /\ Rollback
  /\ UNCHANGED <<claim, maths, command, bundle, receipt, answer, outbox, faults>>

Commit(e) ==
  /\ pc[e] = "write"
  /\ tx.message # None
  /\ artifacts' = artifacts \cup tx.rows
  /\ outbox' = IF outbox = None
                 THEN [message |-> tx.message, status |-> InitialStatus(bundle[e])]
                 ELSE outbox
  /\ tx' = None
  /\ Goto(e, "read_back")
  /\ UNCHANGED <<claim, maths, command, bundle, receipt, answer, faults>>

\* commit reads the outbox record again, on another connection.
ReadBack(e) ==
  /\ pc[e] = "read_back"
  /\ receipt' = [receipt EXCEPT ![e] = outbox]
  /\ Goto(e, "verify")
  /\ UNCHANGED <<claim, maths, command, bundle, answer, store, faults>>

\* The verifier, after a commit and when a redispatch recovers the result.
\* After a commit it must find the bundle and the message just written.
Verify(e) ==
  /\ pc[e] = "verify"
  /\ IF /\ outbox # None
        /\ Verified(artifacts, outbox.message)
        /\ receipt[e] # None => /\ Lookup(artifacts, "bundle", None) = {Row("bundle", None, bundle[e])}
                                /\ outbox.message = receipt[e].message
       THEN /\ answer' = [answer EXCEPT ![e] =
                 [rows |-> {r \in artifacts : r.ref \in {s.ref : s \in outbox.message.bindings}},
                  message |-> outbox.message]]
            /\ Goto(e, "verified")
       ELSE UNCHANGED answer /\ Goto(e, "damaged")
  /\ UNCHANGED <<claim, maths, command, bundle, receipt, store, faults>>

\* mark_published, after the Platform shows a result that may be published.
Acknowledge(e) ==
  /\ pc[e] = "verified"
  /\ claim.publish
  /\ IF outbox # None /\ outbox.message = answer[e].message
          /\ outbox.status \in {"PENDING", "PUBLISHED"}
       THEN /\ outbox' = [outbox EXCEPT !.status = "PUBLISHED"]
            /\ Goto(e, "acknowledged")
       ELSE UNCHANGED outbox /\ Goto(e, "refused")
  /\ UNCHANGED <<claim, maths, command, bundle, receipt, answer, artifacts, tx, faults>>

-----------------------------------------------------------------------------
(* Faults.  A process dies and SQLite rolls its transaction back; a row of    *)
(* the store is lost or replaced, as by a restore from the store of another   *)
(* execution of the attempt.                                                  *)

Ended ==
  {"refused", "uncalculated", "uncompared", "conflict", "damaged", "acknowledged", "dead"}

Crash(e) ==
  /\ crashes + damage < MaxFaults
  /\ crashes' = crashes + 1
  /\ pc[e] \notin Ended \cup {"idle"}
  /\ Goto(e, "dead")
  /\ IF tx # None /\ tx.by = e THEN Rollback ELSE UNCHANGED <<artifacts, tx>>
  /\ UNCHANGED <<claim, maths, command, bundle, receipt, answer, outbox, damage>>

LoseRow ==
  /\ crashes + damage < MaxFaults
  /\ damage' = damage + 1
  /\ tx = None
  /\ \E r \in artifacts : artifacts' = artifacts \ {r}
  /\ UNCHANGED <<claim, maths, pc, command, bundle, receipt, answer, outbox, tx, crashes>>

RestoreRow(f) ==
  /\ crashes + damage < MaxFaults
  /\ damage' = damage + 1
  /\ tx = None
  /\ bundle[f] # None
  /\ \E r \in artifacts : \E s \in Objects(f) :
       /\ s.ref = r.ref /\ s # r
       /\ artifacts' = (artifacts \ {r}) \cup {s}
  /\ UNCHANGED <<claim, maths, pc, command, bundle, receipt, answer, outbox, tx, crashes>>

RestoreOutbox(f) ==
  /\ crashes + damage < MaxFaults
  /\ damage' = damage + 1
  /\ tx = None
  /\ bundle[f] # None /\ outbox # None
  /\ LET message == ResultReady(bundle[f], Objects(f))
     IN /\ message # outbox.message
        /\ outbox' = [outbox EXCEPT !.message = message]
  /\ UNCHANGED <<claim, maths, pc, command, bundle, receipt, answer, artifacts, tx, crashes>>

Step(e) ==
  \/ FindOutbox(e) \/ Admit(e) \/ Calculate(e) \/ Begin(e) \/ WriteArtifact(e) \/ WriteOutbox(e) \/ Commit(e)
  \/ ReadBack(e) \/ Verify(e) \/ Acknowledge(e)

Next ==
  \/ \E e \in Exec : Step(e) \/ Crash(e) \/ RestoreRow(e) \/ RestoreOutbox(e)
  \/ LoseRow

Spec == Init /\ [][Next]_vars

-----------------------------------------------------------------------------
(* What the run promises.                                                    *)

\* The required part of the calculation gives a result that can be published
\* under the claim.
RequiredSuffices ==
  /\ maths.content \in {"whole", "fraction"}
  /\ CostStated(maths.content)
  /\ maths.publish = claim.publish
  /\ maths.order = claim.order

\* A Run whose required children succeed is not ended by what a challenger or a
\* scenario raises or returns: it fails alone (psi_orchestrator.py:631, :809,
\* :1059).  One thing does end it, and nothing else: with rates that have
\* decimals, an optional child that the plan's command resolved is compared with
\* the cost profile, un-isolated, and its cost delta cannot be stated (:390-398).
OptionalEndsRunByCostOnly ==
  \A e \in Exec : pc[e] \in {"uncalculated", "uncompared"} /\ RequiredSuffices =>
    /\ pc[e] = "uncompared"
    /\ claim.rates = "decimal"
    /\ command[e].challengers \cup command[e].scenarios # {}

\* The store holds nothing, or everything one execution wrote and the message
\* that binds it: a conflict in the middle of a transaction, a crash, and a
\* child that failed its comparison leave no row behind.
StoredWhole ==
  damage = 0 =>
    \/ artifacts = {} /\ outbox = None
    \/ \E e \in Exec : /\ bundle[e] # None
                       /\ artifacts = Objects(e)
                       /\ outbox # None
                       /\ outbox.message = ResultReady(bundle[e], Objects(e))

\* What a verification accepts is what ONE execution calculated and sealed,
\* rows and message, also when a row was lost or came from another execution.
VerifiedIsOneExecution ==
  \A e \in Exec : answer[e] # None =>
    \E f \in Exec : /\ bundle[f] # None
                    /\ answer[e].rows = Objects(f)
                    /\ answer[e].message = [bundle |-> bundle[f], bindings |-> Objects(f)]

\* For TLC: executions are interchangeable.
Symmetry == Permutations(Exec)
=============================================================================
