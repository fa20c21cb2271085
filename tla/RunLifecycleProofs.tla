------------------------- MODULE RunLifecycleProofs -------------------------
(***************************************************************************)
(* Proofs about RunLifecycle, for any number of executions, any set of       *)
(* results, any number of faults and every Platform answer.                  *)
(***************************************************************************)
EXTENDS RunLifecycle, TLAPS

-----------------------------------------------------------------------------
(* The inductive invariant.                                                  *)

\* What find_outbox returned is still stored, and recovery starts from it.
FoundIsStored ==
  \A e \in Exec : /\ found[e] # NoOutbox => outbox # NoOutbox
                  /\ pc[e] = "verify" => found[e] # NoOutbox

\* A calculated result fits the claim.
CalculatedFitsClaim ==
  \A e \in Exec : pc[e] \in {"psi_completed", "commit"} =>
    result[e] \in Content /\ result[e].auto = claimAuto

\* From the commit or the recovery on, an execution holds the stored result.
HoldsSealed == {"read_back", "artifact_persistence", "artifact_recovery", "bind",
                "publication", "publish", "acknowledge"}
HoldsStoredResult ==
  \A e \in Exec : pc[e] \in HoldsSealed =>
    outbox # NoOutbox /\ result[e] = outbox.content

\* The stored row carries the claim's gate.
GateKept ==
  outbox # NoOutbox => /\ outbox.content.auto = claimAuto
                       /\ outbox.status = "WITHHELD_FOR_REVIEW" <=> ~claimAuto

\* Every terminal event on its way, or recorded, announces the stored result.
EventsSealed ==
  /\ \A m \in eventWire : m.event.stage = "publication" =>
       outbox # NoOutbox /\ m.event = Sealed(outbox.content)
  /\ \A c \in Content : recordedAt[Sealed(c)] > 0 =>
       outbox # NoOutbox /\ c = outbox.content

\* The Run succeeded exactly when an automatic result was announced.
SuccessRecorded ==
  /\ \A c \in Content : c.auto /\ recordedAt[Sealed(c)] > 0 => runStatus = "succeeded"
  /\ runStatus = "succeeded" => claimAuto
  /\ \A e \in Exec : pc[e] = "publication" /\ call[e] = "answered" =>
       recordedAt[Sealed(result[e])] > 0

\* Only the stored result is ever published.
PublicationsSealed ==
  /\ \A m \in publishWire : /\ claimAuto /\ outbox # NoOutbox
                            /\ m.content = outbox.content
                            /\ recordedAt[Sealed(m.content)] > 0
  /\ effective # NoContent => claimAuto /\ outbox # NoOutbox /\ effective = outbox.content

\* An execution that acknowledges saw its result become effective.
AnsweredIsExposed ==
  \A e \in Exec :
    pc[e] = "acknowledge" \/ (pc[e] = "publish" /\ call[e] = "answered") =>
      effective = result[e]

Held == FoundIsStored /\ CalculatedFitsClaim /\ HoldsStoredResult

Safe ==
  /\ Held /\ GateKept /\ EventsSealed /\ SuccessRecorded
  /\ PublicationsSealed /\ AnsweredIsExposed /\ PublishedIsExposed

IInv == TypeOK /\ Safe

-----------------------------------------------------------------------------
(* Type correctness.                                                         *)

\* Every event the worker builds is one the Platform can tell apart.
LEMMA EventType ==
  /\ Running("admission", "none") \in Event
  /\ Failed \in Event
  /\ \A d \in {"found", "fresh"} : Running("input_resolution", d) \in Event
  /\ Running("psi_started", "none") \in Event
  /\ Running("psi_completed", "none") \in Event
  /\ \A d \in OutboxStatus : Running("artifact_persistence", d) \in Event
  /\ \A d \in OutboxStatus : Running("artifact_recovery", d) \in Event
  /\ \A c \in Content : Sealed(c) \in Event
BY DEF Event

\* Its stage is a place where an execution waits, and its status is one the
\* Platform knows; only a terminal event carries a result or ends the Run well.
LEMMA EventShape ==
  ASSUME NEW ev \in Event
  PROVE  /\ ev.stage \in EventCall
         /\ ev.status \in {"running", "succeeded", "failed"}
         /\ ev.stage = "publication" => \E c \in Content : ev = Sealed(c)
         /\ ev.status = "succeeded" => ev.stage = "publication"
  <1>1. CASE \E c \in Content : ev = Sealed(c)
    BY <1>1 DEF Sealed, StageEvent, EventCall
  <1>2. CASE ~\E c \in Content : ev = Sealed(c)
    <2>1. \/ ev = Failed
          \/ \E s \in EventCall \ {"publication"}, d \in Details : ev = Running(s, d)
      BY <1>2 DEF Event, EventCall, Details, OutboxStatus
    <2> QED
      BY <2>1 DEF Failed, Running, StageEvent, EventCall
  <1> QED
    BY <1>1, <1>2

\* Sending an event keeps the types of what it changes.
LEMMA AppendEventType ==
  ASSUME TypeOK, NEW e \in Exec, NEW ev \in Event, AppendEvent(e, ev)
  PROVE  /\ pc' \in [Exec -> EventCall \cup Handler \cup Ended
                               \cup {"idle", "publish", "acknowledge"}]
         /\ call' \in [Exec -> {"none", "waiting", "answered", "rejected"}]
         /\ eventWire' \subseteq [from : Exec, event : Event]
         /\ publishWire' = publishWire
  <1>1. ev.stage \in EventCall
    BY EventShape
  <1> QED
    BY <1>1 DEF TypeOK, AppendEvent

\* So does raising an exception.
LEMMA RaiseExceptionType ==
  ASSUME TypeOK, NEW e \in Exec, RaiseException(e)
  PROVE  /\ pc' \in [Exec -> EventCall \cup Handler \cup Ended
                               \cup {"idle", "publish", "acknowledge"}]
         /\ call' \in [Exec -> {"none", "waiting", "answered", "rejected"}]
         /\ eventWire' \subseteq [from : Exec, event : Event]
         /\ publishWire' = publishWire
  <1>1. CASE pc[e] \in Guarded
    BY <1>1, EventType, AppendEventType DEF RaiseException
  <1>2. CASE pc[e] \notin Guarded
    BY <1>2 DEF RaiseException, Goto, TypeOK, Ended, wires
  <1> QED
    BY <1>1, <1>2

\* And so does the Platform's answer.
LEMMA AnswerType ==
  ASSUME TypeOK, NEW e \in Exec, NEW stage, NEW v \in Nat,
         NEW how \in {"answered", "rejected"}, Answer(e, stage, how, v)
  PROVE  /\ call' \in [Exec -> {"none", "waiting", "answered", "rejected"}]
         /\ receipt' \in [Exec -> Nat]
BY DEF TypeOK, Answer

\* The worker, the store and the Platform start with values of their types.
LEMMA TypeCorrectInit == Init => TypeOK
BY NoneAssumption DEF Init, TypeOK

\* Every step keeps the type invariant; the last conjuncts of Held say that the
\* results and rows a step reads are there.
LEMMA TypeCorrectStep ==
  ASSUME TypeOK, Held, [Next]_vars
  PROVE  TypeOK'
  <1>1. ASSUME NEW e \in Exec, Start(e) PROVE TypeOK'
    BY <1>1, EventType, AppendEventType DEF Start, TypeOK, store, platform
  <1>2. ASSUME NEW e \in Exec, Work(e) PROVE TypeOK'
    <2>1. CASE Admitted(e)
      BY <2>1 DEF Admitted, TakeReceipt, Goto, TypeOK, store, platform, wires, Handler
    <2>2. CASE FindOutbox(e)
      BY <2>2, EventType, AppendEventType DEF FindOutbox, TypeOK, store, platform
    <2>3. CASE InputResolved(e)
      BY <2>3 DEF InputResolved, TakeReceipt, Goto, TypeOK, store, platform, wires, Handler
    <2>4. CASE VerifyArtifacts(e)
      <3>1. /\ found[e] \in Outbox /\ outbox \in Outbox
        BY <2>4 DEF VerifyArtifacts, TypeOK, Held, FoundIsStored
      <3>2. AppendEvent(e, Running("artifact_recovery", found[e].status))
        BY <2>4 DEF VerifyArtifacts
      <3>3. Running("artifact_recovery", found[e].status) \in Event
        BY <3>1, EventType DEF Outbox
      <3> QED
        BY <2>4, <3>1, <3>2, <3>3, AppendEventType
           DEF VerifyArtifacts, TypeOK, store, platform, Outbox
    <2>5. CASE Recovered(e)
      BY <2>5 DEF Recovered, TakeReceipt, Goto, TypeOK, store, platform, wires, Handler
    <2>6. CASE ResolveCommand(e)
      BY <2>6, EventType, AppendEventType DEF ResolveCommand, TypeOK, store, platform
    <2>7. CASE PsiStarted(e)
      BY <2>7 DEF PsiStarted, TakeReceipt, Goto, TypeOK, store, platform, wires, Handler
    <2>8. CASE Orchestrate(e)
      BY <2>8, EventType, AppendEventType, RaiseExceptionType
         DEF Orchestrate, TypeOK, store, platform
    <2>9. CASE PsiCompleted(e)
      BY <2>9 DEF PsiCompleted, TakeReceipt, Goto, TypeOK, store, platform, wires, Handler
    <2>10. CASE Commit(e)
      <3>1. result[e] \in Content
        BY <2>10 DEF Commit, Held, CalculatedFitsClaim
      <3>2. Committed(result[e]) \in Outbox \cup {NoOutbox}
        BY <3>1 DEF Committed, InitialStatus, TypeOK, Outbox, OutboxStatus
      <3> QED
        BY <2>10, <3>2, RaiseExceptionType
           DEF Commit, Goto, TypeOK, store, platform, wires, Handler
    <2>11. CASE ReadBack(e)
      <3>1. outbox \in Outbox
        BY <2>11 DEF ReadBack, TypeOK, Held, HoldsStoredResult, HoldsSealed
      <3>2. Running("artifact_persistence", outbox.status) \in Event
        BY <3>1, EventType DEF Outbox
      <3> QED
        BY <2>11, <3>2, AppendEventType DEF ReadBack, TypeOK, store, platform
    <2>12. CASE Persisted(e)
      BY <2>12 DEF Persisted, TakeReceipt, Goto, TypeOK, store, platform, wires, Handler
    <2>13. CASE BindResult(e)
      <3>1. result[e] \in Content
        BY <2>13 DEF BindResult, TypeOK, Held, HoldsStoredResult, HoldsSealed, Outbox
      <3>2. Sealed(result[e]) \in Event
        BY <3>1, EventType
      <3> QED
        BY <2>13, <3>2, AppendEventType, RaiseExceptionType
           DEF BindResult, TypeOK, store, platform
    <2>14. CASE Withhold(e)
      BY <2>14 DEF Withhold, TakeReceipt, Goto, TypeOK, store, platform, wires, Ended
    <2>15. CASE Publish(e)
      <3>1. result[e] \in Content
        BY <2>15 DEF Publish, TakeReceipt, TypeOK, Held, HoldsStoredResult, HoldsSealed, Outbox
      <3> QED
        BY <2>15, <3>1 DEF Publish, TakeReceipt, TypeOK, store, platform
    <2>16. CASE PublicationAccepted(e)
      BY <2>16 DEF PublicationAccepted, Goto, TypeOK, store, platform, wires
    <2>17. CASE AcknowledgePublication(e)
      <3>1. outbox \in Outbox
        BY <2>17 DEF AcknowledgePublication, TypeOK, Held, HoldsStoredResult, HoldsSealed
      <3>2. outbox.rowVersion + 1 \in Nat
        BY <3>1 DEF Outbox
      <3>3. outbox' \in Outbox
        BY <2>17, <3>1, <3>2 DEF AcknowledgePublication, Outbox, OutboxStatus
      <3> QED
        BY <2>17, <3>3, RaiseExceptionType
           DEF AcknowledgePublication, Goto, TypeOK, store, platform, wires, Ended
    <2>18. CASE Rejected(e)
      BY <2>18, RaiseExceptionType DEF Rejected, TypeOK, store, platform
    <2>19. CASE FailureReported(e)
      BY <2>19 DEF FailureReported, TakeReceipt, Goto, TypeOK, store, platform, wires, Ended
    <2> QED
      BY <1>2, <2>1, <2>2, <2>3, <2>4, <2>5, <2>6, <2>7, <2>8, <2>9, <2>10, <2>11, <2>12,
         <2>13, <2>14, <2>15, <2>16, <2>17, <2>18, <2>19 DEF Work
  <1>3. ASSUME NEW e \in Exec, Fault(e) PROVE TypeOK'
    <2>1. CASE Timeout(e)
      BY <2>1, RaiseExceptionType DEF Timeout, TypeOK, store, platform
    <2>2. CASE StepFails(e)
      BY <2>2, RaiseExceptionType DEF StepFails, TypeOK, store, platform
    <2>3. CASE Crash(e)
      BY <2>3 DEF Crash, Goto, TypeOK, store, platform, wires, Ended
    <2> QED
      BY <1>3, <2>1, <2>2, <2>3 DEF Fault
  <1>4. CASE Lost
    BY <1>4 DEF Lost, TypeOK, engine, store, platform
  <1>5. ASSUME NEW m \in eventWire, ReceiveEvent(m) PROVE TypeOK'
    <2>1. m.from \in Exec /\ m.event \in Event
      BY DEF TypeOK
    <2>2. m.event.status \in {"running", "succeeded", "failed"}
      BY <2>1, EventShape
    <2> QED
      BY <1>5, <2>1, <2>2, AnswerType DEF ReceiveEvent, ReplayVersion, TypeOK, store, platform
  <1>6. ASSUME NEW m \in publishWire, ReceivePublish(m) PROVE TypeOK'
    <2>1. m.from \in Exec /\ m.content \in Content
      BY DEF TypeOK
    <2> QED
      BY <1>6, <2>1, AnswerType DEF ReceivePublish, TypeOK, store, platform
  <1>7. CASE UNCHANGED vars
    BY <1>7 DEF TypeOK, vars, engine, store, platform, wires
  <1> QED
    BY <1>1, <1>2, <1>3, <1>4, <1>5, <1>6, <1>7 DEF Next, Receive, Terminated
-----------------------------------------------------------------------------
(* Safety.                                                                   *)

\* Initially nothing is stored, announced or exposed.
LEMMA SafeInit == Init => Safe
BY EventType DEF Init, Safe, Held, FoundIsStored, CalculatedFitsClaim, HoldsStoredResult, HoldsSealed,
       GateKept, EventsSealed, SuccessRecorded, PublicationsSealed, AnsweredIsExposed,
       PublishedIsExposed

\* A row that is there is never the absent row.
LEMMA StoredRow == \A row \in Outbox : row # NoOutbox
BY NoneAssumption

\* Storing a result keeps what is stored; a new row is the committed result's.
LEMMA CommitSafe ==
  ASSUME IInv, NEW e \in Exec, Commit(e), TypeOK'
  PROVE  Safe'
  <1> USE DEF IInv, Safe, Held, FoundIsStored, CalculatedFitsClaim, HoldsStoredResult,
              HoldsSealed, GateKept, EventsSealed, SuccessRecorded, PublicationsSealed,
              AnsweredIsExposed, PublishedIsExposed, Guarded, Handler
  <1>1. result[e] \in Content /\ result[e].auto = claimAuto
    BY DEF Commit
  <1>2. CASE CommitAllowed(result[e]) /\ outbox = NoOutbox
    <2>1. outbox' = [content |-> result[e], status |-> InitialStatus(result[e]), rowVersion |-> 1]
      BY <1>2 DEF Commit, Committed
    <2>2. outbox' \in Outbox /\ outbox' # NoOutbox
      BY <1>1, <2>1, StoredRow DEF Outbox, OutboxStatus, InitialStatus
    <2> QED
      BY <1>1, <1>2, <2>1, <2>2
         DEF Commit, Goto, InitialStatus, TypeOK, wires, platform
  <1>3. CASE CommitAllowed(result[e]) /\ outbox # NoOutbox
    BY <1>1, <1>3 DEF Commit, Committed, CommitAllowed, Goto, TypeOK, wires, platform
  <1>4. CASE ~CommitAllowed(result[e])
    BY <1>4 DEF Commit, RaiseException, AppendEvent, Failed, StageEvent, Goto, TypeOK,
                wires, platform
  <1> QED
    BY <1>2, <1>3, <1>4

\* Acknowledging changes only the status of the row, and only of one whose
\* result is effective.
LEMMA AcknowledgeSafe ==
  ASSUME IInv, NEW e \in Exec, AcknowledgePublication(e), TypeOK'
  PROVE  Safe'
  <1> USE DEF IInv, Safe, Held, FoundIsStored, CalculatedFitsClaim, HoldsStoredResult,
              HoldsSealed, GateKept, EventsSealed, SuccessRecorded, PublicationsSealed,
              AnsweredIsExposed, PublishedIsExposed, Guarded, Handler
  <1>1. /\ pc[e] = "acknowledge" /\ outbox \in Outbox
        /\ effective = result[e] /\ result[e] = outbox.content
    BY DEF AcknowledgePublication, TypeOK
  <1>2. CASE outbox' = outbox
    BY <1>1, <1>2 DEF AcknowledgePublication, RaiseException, Goto, TypeOK, wires, platform
  <1>3. CASE outbox' # outbox
    <2>1. /\ outbox.status = "PENDING"
          /\ outbox' = [outbox EXCEPT !.status = "PUBLISHED", !.rowVersion = @ + 1]
          /\ Goto(e, "published")
      BY <1>1, <1>3 DEF AcknowledgePublication
    <2>2. outbox' \in Outbox /\ outbox' # NoOutbox
      <3>1. outbox.rowVersion + 1 \in Nat
        BY <1>1 DEF Outbox
      <3>2. outbox' \in Outbox
        BY <1>1, <2>1, <3>1 DEF Outbox, OutboxStatus
      <3> QED
        BY <3>2, StoredRow
    <2>3. outbox'.content = outbox.content /\ outbox'.status = "PUBLISHED"
      BY <1>1, <2>1 DEF Outbox
    <2> QED
      BY <1>1, <2>1, <2>2, <2>3 DEF AcknowledgePublication, Goto, TypeOK, wires, platform
  <1> QED
    BY <1>2, <1>3

\* Recording an event announces nothing but the stored result.
LEMMA ReceiveEventSafe ==
  ASSUME IInv, NEW m \in eventWire, ReceiveEvent(m), TypeOK'
  PROVE  Safe'
  <1> USE DEF IInv, Safe, Held, FoundIsStored, CalculatedFitsClaim, HoldsStoredResult,
              HoldsSealed, GateKept, EventsSealed, SuccessRecorded, PublicationsSealed,
              AnsweredIsExposed, PublishedIsExposed
  <1> DEFINE ev == m.event
  <1>1. /\ m.from \in Exec /\ ev \in Event
        /\ UNCHANGED <<claimAuto, pc, result, found, outbox, publishWire, effective>>
        /\ eventWire' \subseteq eventWire
    BY DEF ReceiveEvent, TypeOK, store, platform
  <1>2. ev.stage = "publication" => ev = Sealed(outbox.content) /\ outbox \in Outbox
    BY <1>1 DEF TypeOK
  <1>3. \A c \in Content : Sealed(c).stage = "publication" /\ Sealed(c).content = c
                          /\ Sealed(c) \in Event
    BY EventType DEF Sealed, StageEvent
  <1>4. /\ \A x \in Event : recordedAt[x] > 0 => recordedAt'[x] > 0
        /\ \A x \in Event : recordedAt'[x] > 0 => recordedAt[x] > 0 \/ x = ev
    BY <1>1 DEF ReceiveEvent, TypeOK, platform
  <1>5. EventsSealed'
    BY <1>1, <1>2, <1>3, <1>4 DEF Outbox
  <1>6. PublicationsSealed'
    BY <1>1, <1>3, <1>4 DEF TypeOK
  <1>7. AnsweredIsExposed'
    <2>1. ev.stage # "publish"
      BY <1>1, EventShape DEF EventCall
    <2> QED
      BY <1>1, <2>1 DEF ReceiveEvent, Answer, TypeOK
  <1>8. SuccessRecorded'
    <2>1. \A c \in Content : c.auto /\ recordedAt'[Sealed(c)] > 0 => runStatus' = "succeeded"
      <3> SUFFICES ASSUME NEW c \in Content, c.auto, recordedAt'[Sealed(c)] > 0
                   PROVE  runStatus' = "succeeded"
        OBVIOUS
      <3>1. CASE recordedAt[Sealed(c)] > 0
        BY <3>1 DEF ReceiveEvent, platform
      <3>2. CASE ~(recordedAt[Sealed(c)] > 0)
        <4>1. ev = Sealed(c) /\ recordedAt[ev] = 0 /\ recordedAt' # recordedAt
          BY <1>1, <1>3, <1>4, <3>2 DEF TypeOK
        <4>2. ev.status = "succeeded"
          BY <4>1 DEF Sealed, StageEvent
        <4> QED
          BY <4>1, <4>2 DEF ReceiveEvent, platform
      <3> QED
        BY <3>1, <3>2
    <2>2. runStatus' = "succeeded" => claimAuto'
      <3>1. ev.status = "succeeded" => claimAuto
        BY <1>1, <1>2, EventShape DEF Sealed, StageEvent
      <3> QED
        BY <1>1, <3>1 DEF ReceiveEvent, platform
    <2>3. ASSUME NEW d \in Exec, pc'[d] = "publication", call'[d] = "answered"
          PROVE  recordedAt'[Sealed(result'[d])] > 0
      <3>1. result[d] = outbox.content /\ outbox \in Outbox /\ outbox.content \in Content
        BY <1>1, <2>3 DEF TypeOK, Outbox
      <3>2. CASE call'[d] = call[d]
        BY <1>1, <1>3, <1>4, <2>3, <3>1, <3>2
      <3>3. CASE call'[d] # call[d]
        <4>1. d = m.from /\ ev.stage = "publication"
          BY <1>1, <2>3, <3>3 DEF ReceiveEvent, Answer, TypeOK
        <4>2. ev = Sealed(result[d])
          BY <1>2, <3>1, <4>1
        <4>3. recordedAt'[ev] > 0
          BY <1>1, <2>3, <3>3, <4>1 DEF ReceiveEvent, Answer, TypeOK, platform
        <4> QED
          BY <1>1, <4>2, <4>3
      <3> QED
        BY <3>2, <3>3
    <2> QED
      BY <2>1, <2>2, <2>3
  <1> QED
    BY <1>1, <1>5, <1>6, <1>7, <1>8

\* The inductive step: one case per action.
LEMMA SafeStep ==
  ASSUME IInv, [Next]_vars, TypeOK'
  PROVE  Safe'
  <1> USE DEF IInv, Safe, Held, FoundIsStored, CalculatedFitsClaim, HoldsStoredResult,
              HoldsSealed, GateKept, EventsSealed, SuccessRecorded, PublicationsSealed,
              AnsweredIsExposed, PublishedIsExposed, Guarded, Handler, TypeOK
  <1>1. ASSUME NEW e \in Exec, Start(e) PROVE Safe'
    BY <1>1 DEF Start, AppendEvent, Running, StageEvent, store, platform
  <1>2. ASSUME NEW e \in Exec, Work(e) PROVE Safe'
    <2>1. CASE Admitted(e)
      BY <2>1 DEF Admitted, TakeReceipt, Goto, store, platform, wires
    <2>2. CASE FindOutbox(e)
      BY <2>2 DEF FindOutbox, AppendEvent, Running, StageEvent, store, platform
    <2>3. CASE InputResolved(e)
      BY <2>3 DEF InputResolved, TakeReceipt, Goto, store, platform, wires
    <2>4. CASE VerifyArtifacts(e)
      BY <2>4 DEF VerifyArtifacts, AppendEvent, Running, StageEvent, Outbox, store, platform
    <2>5. CASE Recovered(e)
      BY <2>5 DEF Recovered, TakeReceipt, Goto, store, platform, wires
    <2>6. CASE ResolveCommand(e)
      BY <2>6 DEF ResolveCommand, AppendEvent, Running, StageEvent, store, platform
    <2>7. CASE PsiStarted(e)
      BY <2>7 DEF PsiStarted, TakeReceipt, Goto, store, platform, wires
    <2>8. CASE Orchestrate(e)
      BY <2>8 DEF Orchestrate, GateAdmitted, AppendEvent, Running, StageEvent, RaiseException, Failed, Goto, store, platform, wires
    <2>9. CASE PsiCompleted(e)
      BY <2>9 DEF PsiCompleted, TakeReceipt, Goto, store, platform, wires
    <2>10. CASE Commit(e)
      BY <2>10, CommitSafe
    <2>11. CASE ReadBack(e)
      BY <2>11 DEF ReadBack, AppendEvent, Running, StageEvent, Outbox, store, platform
    <2>12. CASE Persisted(e)
      BY <2>12 DEF Persisted, TakeReceipt, Goto, store, platform, wires
    <2>13. CASE BindResult(e)
      BY <2>13 DEF BindResult, AppendEvent, RaiseException, Failed, Sealed, StageEvent, Goto, Outbox, store, platform, wires
    <2>14. CASE Withhold(e)
      BY <2>14 DEF Withhold, TakeReceipt, Goto, store, platform, wires
    <2>15. CASE Publish(e)
      BY <2>15 DEF Publish, TakeReceipt, Outbox, store, platform
    <2>16. CASE PublicationAccepted(e)
      BY <2>16 DEF PublicationAccepted, Goto, Outbox, store, platform, wires
    <2>17. CASE AcknowledgePublication(e)
      BY <2>17, AcknowledgeSafe
    <2>18. CASE Rejected(e)
      BY <2>18 DEF Rejected, RaiseException, Failed, StageEvent, AppendEvent, Goto, store, platform, wires
    <2>19. CASE FailureReported(e)
      BY <2>19 DEF FailureReported, TakeReceipt, Goto, store, platform, wires
    <2> QED
      BY <1>2, <2>1, <2>2, <2>3, <2>4, <2>5, <2>6, <2>7, <2>8, <2>9, <2>10,
         <2>11, <2>12, <2>13, <2>14, <2>15, <2>16, <2>17, <2>18, <2>19 DEF Work
  <1>3. ASSUME NEW e \in Exec, Fault(e) PROVE Safe'
    <2>1. CASE Timeout(e)
      BY <2>1 DEF Timeout, RaiseException, AppendEvent, Failed, StageEvent, Goto, store, platform, wires
    <2>2. CASE StepFails(e)
      BY <2>2 DEF StepFails, RaiseException, AppendEvent, Failed, StageEvent, Goto, store, platform, wires
    <2>3. CASE Crash(e)
      BY <2>3 DEF Crash, Goto, store, platform, wires
    <2> QED
      BY <1>3, <2>1, <2>2, <2>3 DEF Fault
  <1>4. CASE Lost
    BY <1>4 DEF Lost, engine, store, platform
  <1>5. ASSUME NEW m \in eventWire, ReceiveEvent(m) PROVE Safe'
    BY <1>5, ReceiveEventSafe
  <1>6. ASSUME NEW m \in publishWire, ReceivePublish(m) PROVE Safe'
    BY <1>6 DEF ReceivePublish, Answer, Outbox, store, platform
  <1>7. CASE UNCHANGED vars
    BY <1>7 DEF vars, engine, store, platform, wires
  <1> QED
    BY <1>1, <1>2, <1>3, <1>4, <1>5, <1>6, <1>7 DEF Next, Receive, Terminated

-----------------------------------------------------------------------------
(* Theorems.                                                                 *)

\* The strengthened invariant holds in every reachable state.
THEOREM Invariance == Spec => []IInv
  <1>1. Init => IInv
    BY TypeCorrectInit, SafeInit DEF IInv
  <1>2. IInv /\ [Next]_vars => IInv'
    BY TypeCorrectStep, SafeStep DEF IInv, Safe
  <1> QED
    BY <1>1, <1>2, PTL DEF Spec

\* Types, for every value of the constants.
THEOREM TypeCorrect == Spec => []TypeOK
  <1>1. IInv => TypeOK
    BY DEF IInv
  <1> QED
    BY <1>1, Invariance, PTL

\* Nothing but the durable, publishable result is exposed or sent for exposure.
THEOREM ExposureSafe == Spec => []ExposedIsDurable
  <1>1. IInv => ExposedIsDurable
    <2> SUFFICES ASSUME IInv,
                        NEW c \in {effective} \cup {m.content : m \in publishWire},
                        c # NoContent
                 PROVE  outbox # NoOutbox /\ outbox.content = c
                        /\ outbox.status # "WITHHELD_FOR_REVIEW"
      BY DEF ExposedIsDurable
    <2>1. claimAuto /\ outbox # NoOutbox /\ outbox.content = c
      BY DEF IInv, Safe, PublicationsSealed
    <2> QED
      BY <2>1 DEF IInv, Safe, GateKept
  <1> QED
    BY <1>1, Invariance, PTL

\* An acknowledged publication is an exposed one.
THEOREM AcknowledgementSafe == Spec => []PublishedIsExposed
  <1>1. IInv => PublishedIsExposed
    BY DEF IInv, Safe
  <1> QED
    BY <1>1, Invariance, PTL

\* A claim that requires review is withheld.
THEOREM ReviewSafe == Spec => []ReviewIsWithheld
  <1>1. IInv => ReviewIsWithheld
    BY DEF IInv, Safe, ReviewIsWithheld, SuccessRecorded, PublicationsSealed, GateKept
  <1> QED
    BY <1>1, Invariance, PTL

\* One result is announced, however many executions calculate.
THEOREM AnnouncementUnique == Spec => []OneSealedResult
  <1>1. IInv => OneSealedResult
    <2> SUFFICES ASSUME IInv, NEW c \in Announced PROVE c = outbox.content
      BY DEF OneSealedResult
    <2> QED
      BY DEF Announced, IInv, Safe, EventsSealed, Sealed, StageEvent
  <1> QED
    BY <1>1, Invariance, PTL

\* A publication follows the recorded success of its result.
THEOREM PublicationOrdered == Spec => []PublishFollowsSuccess
  <1>1. IInv => PublishFollowsSuccess
    BY DEF IInv, Safe, TypeOK, PublishFollowsSuccess, PublicationsSealed, SuccessRecorded,
           GateKept
  <1> QED
    BY <1>1, Invariance, PTL

\* What a step may do to the store and to the effective result.
LEMMA StoreStep ==
  ASSUME IInv, [Next]_vars
  PROVE  \/ UNCHANGED <<outbox, effective>>
         \/ /\ outbox = NoOutbox /\ outbox' \in Outbox /\ outbox'.status # "PUBLISHED"
            /\ effective' = effective
         \/ /\ outbox \in Outbox /\ outbox' \in Outbox /\ effective' = effective
            /\ outbox'.content = outbox.content /\ effective = outbox.content
            /\ outbox.status = "PENDING" /\ outbox'.status = "PUBLISHED"
         \/ /\ outbox \in Outbox /\ outbox' = outbox /\ claimAuto
            /\ effective = NoContent /\ effective' = outbox.content
  <1> USE DEF store, platform
  <1>1. ASSUME NEW e \in Exec, Commit(e) PROVE effective' = effective /\
          (\/ outbox' = outbox
           \/ outbox = NoOutbox /\ outbox' \in Outbox /\ outbox'.status # "PUBLISHED")
    <2>1. result[e] \in Content
      BY <1>1 DEF Commit, IInv, Safe, Held, CalculatedFitsClaim
    <2>2. CASE outbox = NoOutbox /\ outbox' # outbox
      BY <1>1, <2>1, <2>2 DEF Commit, Committed, InitialStatus, Outbox, OutboxStatus
    <2> QED
      BY <1>1, <2>2 DEF Commit, Committed
  <1>2. ASSUME NEW e \in Exec, AcknowledgePublication(e), outbox' # outbox
        PROVE  /\ outbox \in Outbox /\ outbox' \in Outbox /\ effective' = effective
               /\ outbox'.content = outbox.content /\ effective = outbox.content
               /\ outbox.status = "PENDING" /\ outbox'.status = "PUBLISHED"
    <2>1. outbox \in Outbox /\ effective = outbox.content
      BY <1>2 DEF AcknowledgePublication, IInv, Safe, TypeOK, Held, HoldsStoredResult,
                  HoldsSealed, AnsweredIsExposed
    <2>2. outbox.status = "PENDING"
          /\ outbox' = [outbox EXCEPT !.status = "PUBLISHED", !.rowVersion = @ + 1]
      BY <1>2 DEF AcknowledgePublication
    <2>3. outbox.rowVersion + 1 \in Nat
      BY <2>1 DEF Outbox
    <2> QED
      BY <1>2, <2>1, <2>2, <2>3 DEF AcknowledgePublication, Outbox, OutboxStatus
  <1>3. ASSUME NEW m \in publishWire, ReceivePublish(m), effective' # effective
        PROVE  /\ outbox \in Outbox /\ outbox' = outbox /\ claimAuto
               /\ effective = NoContent /\ effective' = outbox.content
    <2>1. outbox \in Outbox /\ claimAuto /\ m.content = outbox.content
      BY DEF IInv, Safe, PublicationsSealed, TypeOK
    <2>2. effective # m.content /\ effective' = m.content /\ outbox' = outbox
      BY <1>3 DEF ReceivePublish
    <2> QED
      BY <2>1, <2>2 DEF IInv, Safe, PublicationsSealed
  <1>4. ASSUME NEW e \in Exec, Work(e), ~Commit(e), ~AcknowledgePublication(e)
        PROVE  UNCHANGED <<outbox, effective>>
    BY <1>4 DEF Work, Admitted, FindOutbox, InputResolved, VerifyArtifacts, Recovered,
                ResolveCommand, PsiStarted, Orchestrate, PsiCompleted, ReadBack, Persisted,
                BindResult, Withhold, Publish, PublicationAccepted, Rejected, FailureReported
  <1>5. ASSUME NEW e \in Exec, Start(e) \/ Fault(e) PROVE UNCHANGED <<outbox, effective>>
    BY <1>5 DEF Start, Fault, Timeout, StepFails, Crash
  <1>6. ASSUME NEW m \in eventWire, ReceiveEvent(m) PROVE UNCHANGED <<outbox, effective>>
    BY <1>6 DEF ReceiveEvent
  <1>7. ASSUME NEW m \in publishWire, ReceivePublish(m) PROVE outbox' = outbox
    BY <1>7 DEF ReceivePublish
  <1>8. ASSUME NEW e \in Exec, AcknowledgePublication(e) PROVE effective' = effective
    BY <1>8 DEF AcknowledgePublication
  <1>9. CASE Lost \/ UNCHANGED vars
    BY <1>9 DEF Lost, vars
  <1> QED
    BY <1>1, <1>2, <1>3, <1>4, <1>5, <1>6, <1>7, <1>8, <1>9 DEF Next, Receive, Terminated

\* The outbox row is written once and moves only from PENDING to PUBLISHED.
THEOREM OutboxKept == Spec => OutboxWriteOnce
  <1>1. IInv /\ [Next]_vars =>
          [outbox # NoOutbox =>
             /\ outbox' # NoOutbox /\ outbox'.content = outbox.content
             /\ outbox'.status # outbox.status =>
                  outbox.status = "PENDING" /\ outbox'.status = "PUBLISHED"]_outbox
    BY StoreStep, StoredRow
  <1> QED
    BY <1>1, Invariance, PTL DEF Spec, OutboxWriteOnce

\* Once success was announced, no failure follows from the same execution.
THEOREM SuccessIsFinal == Spec => NoFailureAfterSeal
  <1>1. IInv /\ [Next]_vars =>
          [\A e \in Exec : pc[e] \in {"publication", "publish", "acknowledge"} =>
             pc'[e] # "execution"]_pc
    <2> SUFFICES ASSUME IInv, [Next]_vars, NEW e \in Exec,
                        pc[e] \in {"publication", "publish", "acknowledge"}
                 PROVE  pc'[e] # "execution"
      OBVIOUS
    <2> USE DEF IInv, TypeOK, Guarded, Handler, AppendEvent, RaiseException, Goto, TakeReceipt,
                Running, Failed, Sealed, StageEvent
    <2>1. ASSUME NEW d \in Exec, Work(d) PROVE pc'[e] # "execution"
      BY <2>1 DEF Work, Admitted, FindOutbox, InputResolved, VerifyArtifacts, Recovered,
                  ResolveCommand, PsiStarted, Orchestrate, PsiCompleted, Commit, ReadBack,
                  Persisted, BindResult, Withhold, Publish, PublicationAccepted,
                  AcknowledgePublication, Rejected, FailureReported
    <2>2. ASSUME NEW d \in Exec, Start(d) \/ Fault(d) PROVE pc'[e] # "execution"
      BY <2>2 DEF Start, Fault, Timeout, StepFails, Crash
    <2>3. CASE Lost \/ Receive \/ UNCHANGED vars
      BY <2>3 DEF Lost, Receive, ReceiveEvent, ReceivePublish, vars, engine
    <2> QED
      BY <2>1, <2>2, <2>3 DEF Next, Terminated
  <1> QED
    BY <1>1, Invariance, PTL DEF Spec, NoFailureAfterSeal

\* The runtime implements SealedPublication.
THEOREM Refinement == Spec => ImplementsPromise
  <1>1. Init => Promise!Init
    BY DEF Init, Promise!Init, SealedContent, Acknowledged
  <1>2. IInv /\ [Next]_vars => [Promise!Next]_(Promise!vars)
    <2> SUFFICES ASSUME IInv, [Next]_vars
                 PROVE  Promise!Next \/ UNCHANGED Promise!vars
      OBVIOUS
    <2> USE DEF Promise!Next, Promise!vars, SealedContent, Acknowledged
    <2>1. CASE UNCHANGED <<outbox, effective>>
      BY <2>1
    <2>2. CASE /\ outbox = NoOutbox /\ outbox' \in Outbox /\ outbox'.status # "PUBLISHED"
               /\ effective' = effective
      BY <2>2, StoredRow DEF Promise!Seal, Outbox
    <2>3. CASE /\ outbox \in Outbox /\ outbox' \in Outbox /\ effective' = effective
               /\ outbox'.content = outbox.content /\ effective = outbox.content
               /\ outbox.status = "PENDING" /\ outbox'.status = "PUBLISHED"
      BY <2>3, StoredRow, NoneAssumption DEF Promise!Acknowledge, Outbox
    <2>4. CASE /\ outbox \in Outbox /\ outbox' = outbox /\ claimAuto
               /\ effective = NoContent /\ effective' = outbox.content
      BY <2>4, StoredRow DEF Promise!Expose, IInv, Safe, GateKept, Outbox
    <2> QED
      BY <2>1, <2>2, <2>3, <2>4, StoreStep
  <1> QED
    BY <1>1, <1>2, Invariance, PTL DEF Spec, ImplementsPromise, Promise!Spec
=============================================================================
