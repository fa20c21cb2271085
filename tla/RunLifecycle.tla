---------------------------- MODULE RunLifecycle ----------------------------
(***************************************************************************)
(* The worker executions of ONE claimed Run/Attempt: InventoryRuntimeWorker *)
(* drives InventoryResultPipelineHandler, which seals its result in the     *)
(* evidence store (a transactional outbox) and reports every stage to the   *)
(* Platform, an external service reached over HTTP.                         *)
(*                                                                          *)
(* Platform dispatch is at-least-once, so several executions of the same    *)
(* claim may run one after the other or at the same time.  Every call to    *)
(* the Platform may be lost, answered late, or applied although the caller  *)
(* timed out.  A process may crash between any two steps.                   *)
(***************************************************************************)
EXTENDS Naturals, FiniteSets

CONSTANTS
  Exec,              \* dispatches of the claim (worker executions)
  Body,              \* what a calculation may seal; optional children that
                     \* fail in isolation make the sealed document differ
  NoContent,         \* no sealed result
  NoOutbox,          \* no row in the outbox table
  Replays,           \* external: row version the Platform answers to an event
                     \* it already holds, a subset of {"original", "current"}
  AfterTerminal,     \* external: what the Platform does with a new event of a
                     \* terminal Run, a subset of {"accept", "reject"}
  MaxActive,         \* executions that may run at the same time
  MaxFaults          \* bound on crashes, timeouts and exceptions

ASSUME PlatformAssumption ==
  /\ Replays \subseteq {"original", "current"} /\ Replays # {}
  /\ AfterTerminal \subseteq {"accept", "reject"} /\ AfterTerminal # {}

ASSUME BoundsAssumption == MaxActive \in Nat /\ MaxFaults \in Nat

\* A sealed bundle: its document and its automatic_publish_allowed gate.
Content == [body : Body, auto : BOOLEAN]

VARIABLES
  claimAuto,     \* the claim's expected_automatic_publish_allowed
  pc,            \* where each execution is; a stage name while it waits for
                 \* the receipt of that stage's event
  call,          \* "none", "waiting", "answered" or "rejected"
  receipt,       \* row version carried by the last receipt delivered
  rowVersion,    \* the worker's row_version, its next CAS base
  highest,       \* history: highest row version a receipt brought
  found,         \* the outbox row find_outbox returned (existing_outbox)
  result,        \* the result the handler is about to return
  outbox,        \* evidence store: the outbox row of this Run/Attempt
  eventWire,     \* events on their way to the Platform
  publishWire,   \* publications on their way to the Platform
  recordedAt,    \* Platform: row version at which each event was recorded
  siteVersion,   \* Platform: current site row version
  runStatus,     \* Platform: status of the Run
  effective,     \* Platform: the effective result of the site
  faults         \* faults so far

engine   == <<claimAuto, pc, call, receipt, rowVersion, highest, found, result>>
store    == <<outbox>>
wires    == <<eventWire, publishWire>>
platform == <<recordedAt, siteVersion, runStatus, effective>>
vars == <<engine, store, wires, platform, faults>>

-----------------------------------------------------------------------------
(* Events.  The Platform recognises a replay by the whole event, so an event *)
(* keeps just the payload that distinguishes it from others.                 *)

Details == {"none", "found", "fresh", "started", "completed", "PENDING",
            "WITHHELD_FOR_REVIEW", "PUBLISHED"}
OutboxStatus == {"PENDING", "WITHHELD_FOR_REVIEW", "PUBLISHED"}

StageEvent(stage, status, detail, content) ==
  [stage |-> stage, status |-> status, detail |-> detail, content |-> content]

Running(stage, detail) == StageEvent(stage, "running", detail, NoContent)
Failed == StageEvent("execution", "failed", "none", NoContent)
Sealed(c) == StageEvent("publication", IF c.auto THEN "succeeded" ELSE "running",
                        "none", c)

Event ==
  {Running("admission", "none"), Failed}
    \cup {Running("input_resolution", d) : d \in {"found", "fresh"}}
    \cup {Running("psi_started", "none"), Running("psi_completed", "none")}
    \cup {Running("artifact_persistence", d) : d \in OutboxStatus}
    \cup {Running("artifact_recovery", d) : d \in OutboxStatus}
    \cup {Sealed(c) : c \in Content}

Outbox == [content : Content, status : OutboxStatus, rowVersion : Nat]

ASSUME NoneAssumption == NoContent \notin Content /\ NoOutbox \notin Outbox

EventCall == {"admission", "input_resolution", "artifact_recovery", "psi_started",
              "psi_completed", "artifact_persistence", "execution", "publication"}
Handler == {"find_outbox", "verify", "resolve", "orchestrate", "commit",
            "read_back", "bind"}
Ended == {"published", "review_required", "dead"}

\* Calls made inside the worker's try block: an exception there is reported.
Guarded == Handler \cup {"input_resolution", "artifact_recovery", "psi_started",
                         "psi_completed", "artifact_persistence"}

Active(e) == pc[e] \notin Ended \cup {"idle"}

-----------------------------------------------------------------------------
Init ==
  /\ claimAuto \in BOOLEAN
  /\ pc = [e \in Exec |-> "idle"]
  /\ call = [e \in Exec |-> "none"]
  /\ receipt = [e \in Exec |-> 0]
  /\ rowVersion = [e \in Exec |-> 0]
  /\ highest = [e \in Exec |-> 0]
  /\ found = [e \in Exec |-> NoOutbox]
  /\ result = [e \in Exec |-> NoContent]
  /\ outbox = NoOutbox
  /\ eventWire = {} /\ publishWire = {}
  /\ recordedAt = [ev \in Event |-> 0]
  /\ siteVersion = 1
  /\ runStatus = "created"
  /\ effective = NoContent
  /\ faults = 0

-----------------------------------------------------------------------------
(* Sending and receiving.                                                    *)

Goto(e, p) ==
  /\ pc' = [pc EXCEPT ![e] = p]
  /\ call' = [call EXCEPT ![e] = "none"]
  /\ UNCHANGED wires

\* append_event: post the event and wait for its receipt.
AppendEvent(e, ev) ==
  /\ pc' = [pc EXCEPT ![e] = ev.stage]
  /\ call' = [call EXCEPT ![e] = "waiting"]
  /\ eventWire' = eventWire \cup {[from |-> e, event |-> ev]}
  /\ UNCHANGED publishWire

\* The receipt of stage p arrived: it is the execution's new CAS base.
TakeReceipt(e, p) ==
  /\ pc[e] = p
  /\ call[e] = "answered"
  /\ rowVersion' = [rowVersion EXCEPT ![e] = receipt[e]]
  /\ highest' = [highest EXCEPT ![e] = IF receipt[e] > @ THEN receipt[e] ELSE @]

\* Defect: publication moved inside the try block.
RaiseAlwaysReported(e) ==
  IF pc[e] \in Guarded \cup {"publication", "publish"}
  THEN AppendEvent(e, Failed) ELSE Goto(e, "dead")

\* An exception: inside the try block a failed event is sent, outside it the
\* execution just ends.
RaiseException(e) ==
  IF pc[e] \in Guarded THEN AppendEvent(e, Failed) ELSE Goto(e, "dead")

-----------------------------------------------------------------------------
(* InventoryRuntimeWorker.execute and InventoryResultPipelineHandler.execute *)

Start(e) ==
  /\ pc[e] = "idle"
  /\ Cardinality({d \in Exec : Active(d)}) < MaxActive
  /\ rowVersion' = [rowVersion EXCEPT ![e] = 1]
  /\ highest' = [highest EXCEPT ![e] = 1]
  /\ AppendEvent(e, Running("admission", "none"))
  /\ UNCHANGED <<claimAuto, receipt, found, result, store, platform, faults>>

Admitted(e) ==
  /\ TakeReceipt(e, "admission")
  /\ Goto(e, "find_outbox")
  /\ UNCHANGED <<claimAuto, receipt, found, result, store, platform, faults>>

\* The outbox is read before the input_resolution event is reported; the
\* decision to recover or to calculate is taken on this reading.
FindOutbox(e) ==
  /\ pc[e] = "find_outbox"
  /\ found' = [found EXCEPT ![e] = outbox]
  /\ AppendEvent(e, Running("input_resolution",
                            IF outbox = NoOutbox THEN "fresh" ELSE "found"))
  /\ UNCHANGED <<claimAuto, receipt, rowVersion, highest, result, store, platform, faults>>

InputResolved(e) ==
  /\ TakeReceipt(e, "input_resolution")
  /\ Goto(e, IF found[e] = NoOutbox THEN "resolve" ELSE "verify")
  /\ UNCHANGED <<claimAuto, receipt, found, result, store, platform, faults>>

\* Recovery: the stored bundle is read back, nothing is calculated.  The event
\* carries the status find_outbox saw, which may be stale by now.
VerifyArtifacts(e) ==
  /\ pc[e] = "verify"
  /\ result' = [result EXCEPT ![e] = outbox.content]
  /\ AppendEvent(e, Running("artifact_recovery", found[e].status))
  /\ UNCHANGED <<claimAuto, receipt, rowVersion, highest, found, store, platform, faults>>

Recovered(e) ==
  /\ TakeReceipt(e, "artifact_recovery")
  /\ Goto(e, "bind")
  /\ UNCHANGED <<claimAuto, receipt, found, result, store, platform, faults>>

ResolveCommand(e) ==
  /\ pc[e] = "resolve"
  /\ AppendEvent(e, Running("psi_started", "none"))
  /\ UNCHANGED <<claimAuto, receipt, rowVersion, highest, found, result, store, platform, faults>>

PsiStarted(e) ==
  /\ TakeReceipt(e, "psi_started")
  /\ Goto(e, "orchestrate")
  /\ UNCHANGED <<claimAuto, receipt, found, result, store, platform, faults>>

\* RunPsiBundleUseCase: a bundle whose gates differ from the claim's is refused
\* before anything is stored.
GateAdmitted(c) == c.auto = claimAuto

Orchestrate(e) ==
  /\ pc[e] = "orchestrate"
  /\ \E c \in Content :
       IF GateAdmitted(c)
       THEN /\ result' = [result EXCEPT ![e] = c]
            /\ AppendEvent(e, Running("psi_completed", "none"))
            /\ UNCHANGED faults
       ELSE /\ faults < MaxFaults
            /\ faults' = faults + 1
            /\ RaiseException(e)
            /\ UNCHANGED result
  /\ UNCHANGED <<claimAuto, receipt, rowVersion, highest, found, store, platform>>

\* Defect: the result is announced without being stored.
PsiCompletedUnsealed(e) ==
  /\ TakeReceipt(e, "psi_completed")
  /\ Goto(e, "bind")
  /\ UNCHANGED <<claimAuto, receipt, found, result, store, platform, faults>>

PsiCompleted(e) ==
  /\ TakeReceipt(e, "psi_completed")
  /\ Goto(e, "commit")
  /\ UNCHANGED <<claimAuto, receipt, found, result, store, platform, faults>>

-----------------------------------------------------------------------------
(* The evidence store: one transaction per operation.                        *)

InitialStatusWithheld(c) == "WITHHELD_FOR_REVIEW"

InitialStatus(c) == IF c.auto THEN "PENDING" ELSE "WITHHELD_FOR_REVIEW"

\* What a commit of c leaves in the table: a new row, or the row that is there
\* when it is an exact replay.
Committed(c) ==
  IF outbox = NoOutbox
  THEN [content |-> c, status |-> InitialStatus(c), rowVersion |-> 1]
  ELSE outbox

\* Defect: INSERT OR IGNORE.
CommitAlwaysAllowed(c) == TRUE

\* Write-once: a row with another content aborts the transaction.
CommitAllowed(c) == outbox = NoOutbox \/ outbox.content = c

Commit(e) ==
  /\ pc[e] = "commit"
  /\ IF CommitAllowed(result[e])
     THEN outbox' = Committed(result[e]) /\ Goto(e, "read_back")
     ELSE RaiseException(e) /\ UNCHANGED outbox
  /\ UNCHANGED <<claimAuto, receipt, rowVersion, highest, found, result, platform, faults>>

\* The receipt and the stored bundle are read after the transaction closed.
ReadBack(e) ==
  /\ pc[e] = "read_back"
  /\ AppendEvent(e, Running("artifact_persistence", outbox.status))
  /\ UNCHANGED <<claimAuto, receipt, rowVersion, highest, found, result, store, platform, faults>>

Persisted(e) ==
  /\ TakeReceipt(e, "artifact_persistence")
  /\ Goto(e, "bind")
  /\ UNCHANGED <<claimAuto, receipt, found, result, store, platform, faults>>

-----------------------------------------------------------------------------
(* Sealing and publication.                                                  *)

\* The worker checks the result against the claim, then sends the terminal
\* event: succeeded when it will publish, running when review is required.
BindResult(e) ==
  /\ pc[e] = "bind"
  /\ IF result[e].auto = claimAuto
     THEN AppendEvent(e, Sealed(result[e]))
     ELSE RaiseException(e)
  /\ UNCHANGED <<claimAuto, receipt, rowVersion, highest, found, result, store, platform, faults>>

Withhold(e) ==
  /\ TakeReceipt(e, "publication")
  /\ ~result[e].auto
  /\ Goto(e, "review_required")
  /\ UNCHANGED <<claimAuto, receipt, found, result, store, platform, faults>>

Publish(e) ==
  /\ TakeReceipt(e, "publication")
  /\ result[e].auto
  /\ pc' = [pc EXCEPT ![e] = "publish"]
  /\ call' = [call EXCEPT ![e] = "waiting"]
  /\ publishWire' = publishWire \cup
       {[from |-> e, content |-> result[e], expected |-> receipt[e]]}
  /\ UNCHANGED <<claimAuto, receipt, found, result, store, eventWire, platform, faults>>

\* Defect: the status of the response is not checked.
PublicationAnswered(e) ==
  /\ pc[e] = "publish" /\ call[e] \in {"answered", "rejected"}
  /\ Goto(e, "acknowledge")
  /\ UNCHANGED <<claimAuto, receipt, rowVersion, highest, found, result, store, platform, faults>>

PublicationAccepted(e) ==
  /\ pc[e] = "publish" /\ call[e] = "answered"
  /\ Goto(e, "acknowledge")
  /\ UNCHANGED <<claimAuto, receipt, rowVersion, highest, found, result, store, platform, faults>>

\* mark_published
AcknowledgePublication(e) ==
  /\ pc[e] = "acknowledge"
  /\ IF outbox.content = result[e] /\ outbox.status \in {"PENDING", "PUBLISHED"}
     THEN /\ outbox' = IF outbox.status = "PENDING"
                       THEN [outbox EXCEPT !.status = "PUBLISHED", !.rowVersion = @ + 1]
                       ELSE outbox
          /\ Goto(e, "published")
     ELSE RaiseException(e) /\ UNCHANGED outbox
  /\ UNCHANGED <<claimAuto, receipt, rowVersion, highest, found, result, platform, faults>>

-----------------------------------------------------------------------------
(* Failures.                                                                 *)

\* The Platform refused the call (any status but 200 or 201).
Rejected(e) ==
  /\ call[e] = "rejected"
  /\ RaiseException(e)
  /\ UNCHANGED <<claimAuto, receipt, rowVersion, highest, found, result, store, platform, faults>>

\* The failed event was delivered: the original exception is raised again.
FailureReported(e) ==
  /\ TakeReceipt(e, "execution")
  /\ Goto(e, "dead")
  /\ UNCHANGED <<claimAuto, receipt, found, result, store, platform, faults>>

\* httpx raised: the call may never arrive, may still arrive, or was applied.
Timeout(e) ==
  /\ faults < MaxFaults /\ faults' = faults + 1
  /\ call[e] \in {"waiting", "answered", "rejected"}
  /\ RaiseException(e)
  /\ UNCHANGED <<claimAuto, receipt, rowVersion, highest, found, result, store, platform>>

\* Any other exception of a step between two calls.
StepFails(e) ==
  /\ faults < MaxFaults /\ faults' = faults + 1
  /\ pc[e] \in Handler \cup {"acknowledge"}
  /\ RaiseException(e)
  /\ UNCHANGED <<claimAuto, receipt, rowVersion, highest, found, result, store, platform>>

\* The process dies: nothing is reported, an open transaction is rolled back.
Crash(e) ==
  /\ faults < MaxFaults /\ faults' = faults + 1
  /\ Active(e)
  /\ Goto(e, "dead")
  /\ UNCHANGED <<claimAuto, receipt, rowVersion, highest, found, result, store, platform>>

\* A call whose sender gave up is lost on the way.
Lost ==
  /\ \/ \E m \in eventWire : /\ pc[m.from] # m.event.stage
                             /\ eventWire' = eventWire \ {m}
                             /\ UNCHANGED publishWire
     \/ \E m \in publishWire : /\ pc[m.from] # "publish"
                               /\ publishWire' = publishWire \ {m}
                               /\ UNCHANGED eventWire
  /\ UNCHANGED <<engine, store, platform, faults>>

-----------------------------------------------------------------------------
(* The Platform, external: as the runtime contract and the test double        *)
(* describe it.  Nothing here protects the site against a wrong publication.  *)

Terminal == runStatus \in {"succeeded", "failed"}

\* An answer reaches the sender only while it still waits for it.
Answer(e, stage, how, version) ==
  IF pc[e] = stage /\ call[e] = "waiting"
  THEN /\ call' = [call EXCEPT ![e] = how]
       /\ receipt' = [receipt EXCEPT ![e] = IF how = "answered" THEN version ELSE @]
  ELSE UNCHANGED <<call, receipt>>

ReplayVersion(ev, v) ==
  \/ "original" \in Replays /\ v = recordedAt[ev]
  \/ "current" \in Replays /\ v = siteVersion

ReceiveEvent(m) ==
  LET ev == m.event IN
  /\ m \in eventWire
  /\ eventWire' = eventWire \ {m}
  /\ \/ /\ recordedAt[ev] > 0
        /\ \E v \in {recordedAt[ev], siteVersion} :
             ReplayVersion(ev, v) /\ Answer(m.from, ev.stage, "answered", v)
        /\ UNCHANGED platform
     \/ /\ recordedAt[ev] = 0
        /\ Terminal => "accept" \in AfterTerminal
        /\ recordedAt' = [recordedAt EXCEPT ![ev] = siteVersion + 1]
        /\ siteVersion' = siteVersion + 1
        /\ runStatus' = IF runStatus = "succeeded" \/ (Terminal /\ ev.status = "running")
                        THEN runStatus ELSE ev.status
        /\ Answer(m.from, ev.stage, "answered", siteVersion + 1)
        /\ UNCHANGED effective
     \/ /\ recordedAt[ev] = 0
        /\ Terminal /\ "reject" \in AfterTerminal
        /\ Answer(m.from, ev.stage, "rejected", 0)
        /\ UNCHANGED platform
  /\ UNCHANGED <<claimAuto, pc, rowVersion, highest, found, result, store, publishWire, faults>>

\* Publication is a compare-and-set on the row version; a repeated publication
\* of the effective result is answered again.
ReceivePublish(m) ==
  /\ m \in publishWire
  /\ publishWire' = publishWire \ {m}
  /\ \/ /\ effective = m.content
        /\ Answer(m.from, "publish", "answered", siteVersion)
        /\ UNCHANGED platform
     \/ /\ effective # m.content /\ m.expected = siteVersion
        /\ effective' = m.content
        /\ siteVersion' = siteVersion + 1
        /\ Answer(m.from, "publish", "answered", siteVersion + 1)
        /\ UNCHANGED <<recordedAt, runStatus>>
     \/ /\ effective # m.content /\ m.expected # siteVersion
        /\ Answer(m.from, "publish", "rejected", 0)
        /\ UNCHANGED platform
  /\ UNCHANGED <<claimAuto, pc, rowVersion, highest, found, result, store, eventWire, faults>>

-----------------------------------------------------------------------------
Work(e) ==
  \/ Admitted(e) \/ FindOutbox(e) \/ InputResolved(e)
  \/ VerifyArtifacts(e) \/ Recovered(e)
  \/ ResolveCommand(e) \/ PsiStarted(e) \/ Orchestrate(e) \/ PsiCompleted(e)
  \/ Commit(e) \/ ReadBack(e) \/ Persisted(e)
  \/ BindResult(e) \/ Withhold(e) \/ Publish(e) \/ PublicationAccepted(e)
  \/ AcknowledgePublication(e) \/ Rejected(e) \/ FailureReported(e)

Fault(e) == Timeout(e) \/ StepFails(e) \/ Crash(e)

Receive == \/ \E m \in eventWire : ReceiveEvent(m)
           \/ \E m \in publishWire : ReceivePublish(m)

\* Every dispatch has been used and nothing is left to do.
Terminated ==
  /\ \A e \in Exec : pc[e] \in Ended
  /\ eventWire = {} /\ publishWire = {}
  /\ UNCHANGED vars

Next ==
  \/ \E e \in Exec : Start(e) \/ Work(e) \/ Fault(e)
  \/ Lost \/ Receive \/ Terminated

Spec == Init /\ [][Next]_vars

\* Platform dispatches the claim again until a dispatch is used up, the worker
\* process runs, and the Platform answers.
Fairness ==
  /\ \A e \in Exec : WF_vars(Start(e)) /\ WF_vars(Work(e))
  /\ WF_vars(Receive)

FairSpec == Spec /\ Fairness

-----------------------------------------------------------------------------
(* Properties.                                                               *)

\* What every variable of the worker, the store and the Platform may hold.
TypeOK ==
  /\ claimAuto \in BOOLEAN
  /\ pc \in [Exec -> EventCall \cup Handler \cup Ended \cup {"idle", "publish", "acknowledge"}]
  /\ call \in [Exec -> {"none", "waiting", "answered", "rejected"}]
  /\ receipt \in [Exec -> Nat]
  /\ rowVersion \in [Exec -> Nat]
  /\ highest \in [Exec -> Nat]
  /\ found \in [Exec -> Outbox \cup {NoOutbox}]
  /\ result \in [Exec -> Content \cup {NoContent}]
  /\ outbox \in Outbox \cup {NoOutbox}
  /\ eventWire \subseteq [from : Exec, event : Event]
  /\ publishWire \subseteq [from : Exec, content : Content, expected : Nat]
  /\ recordedAt \in [Event -> Nat]
  /\ siteVersion \in Nat
  /\ runStatus \in {"created", "running", "succeeded", "failed"}
  /\ effective \in Content \cup {NoContent}
  /\ faults \in Nat

\* What the Platform exposes as the effective result, or is about to be asked
\* to expose, is durable in the evidence store and sealed for automatic
\* publication, whatever crashed, timed out or ran twice.
ExposedIsDurable ==
  \A c \in {effective} \cup {m.content : m \in publishWire} :
    c # NoContent => /\ outbox # NoOutbox
                     /\ outbox.content = c
                     /\ outbox.status # "WITHHELD_FOR_REVIEW"

\* An outbox row marked PUBLISHED was exposed by the Platform with that content:
\* an acknowledgement never runs ahead of the publication it acknowledges.
PublishedIsExposed ==
  outbox # NoOutbox /\ outbox.status = "PUBLISHED" => effective = outbox.content

\* A claim that requires review never lets the Run succeed or a publication
\* leave, and its result is never pending.
ReviewIsWithheld ==
  ~claimAuto => /\ runStatus # "succeeded" /\ publishWire = {}
                /\ outbox # NoOutbox => outbox.status = "WITHHELD_FOR_REVIEW"

\* Results the Platform was told of.
Announced ==
  {c \in Content : recordedAt[Sealed(c)] > 0}
    \cup {m.event.content : m \in {n \in eventWire : n.event.stage = "publication"}}

\* All executions of the claim announce the same sealed result, even when two
\* of them calculated different ones at the same time.
OneSealedResult == \A c, d \in Announced : c = d

\* A publication is requested only after the Platform recorded the terminal
\* event of the same result.
PublishFollowsSuccess ==
  \A m \in publishWire :
    recordedAt[Sealed(m.content)] > 0 /\ runStatus = "succeeded"

\* The outbox row is write-once: its content never changes, it is never
\* removed, and its status only moves from PENDING to PUBLISHED.
OutboxWriteOnce ==
  [][outbox # NoOutbox =>
       /\ outbox' # NoOutbox /\ outbox'.content = outbox.content
       /\ outbox'.status # outbox.status =>
            outbox.status = "PENDING" /\ outbox'.status = "PUBLISHED"]_outbox

\* An execution that announced success never reports a failure afterwards.
NoFailureAfterSeal ==
  [][\A e \in Exec : pc[e] \in {"publication", "publish", "acknowledge"} =>
       pc'[e] # "execution"]_pc

\* Once faults stop, redispatch brings every claim to its end: the result is
\* published and acknowledged, or withheld for review and announced.
EventuallySettled ==
  <>(IF claimAuto
     THEN outbox # NoOutbox /\ outbox.status = "PUBLISHED"
     ELSE \E c \in Content : ~c.auto /\ recordedAt[Sealed(c)] > 0)

-----------------------------------------------------------------------------
(* The promise of SealedPublication, read off the store and the Platform.    *)

SealedContent == IF outbox = NoOutbox THEN NoContent ELSE outbox.content
Acknowledged == outbox # NoOutbox /\ outbox.status = "PUBLISHED"

Promise == INSTANCE SealedPublication WITH
  Result <- Content, Automatic <- {c \in Content : c.auto}, NoResult <- NoContent,
  sealed <- SealedContent, exposed <- effective, acknowledged <- Acknowledged

\* The runtime implements the promise: what the store and the Platform show
\* changes only as SealedPublication allows.
ImplementsPromise == Promise!Spec
=============================================================================
