------------------------- MODULE ClassificationStage -------------------------
(***************************************************************************)
(* Publication of the classification Snapshots of ONE organisation scope.   *)
(* Executions are processes of entrypoints/classification_snapshot.py, each *)
(* with its own PostgreSQL connection: bound to a claimed Run, through      *)
(* InventoryClassificationStageUseCase, or on their own (the CLI, with or   *)
(* without --apply).  They share the snapshot tables of the scope, the      *)
(* event table of each Run and the directory of original snapshots.         *)
(*                                                                          *)
(* The content hash and the snapshot id are functions of the content, so a  *)
(* content stands for all three and CLASSIFICATION_EXACT_REPLAY_ID_MISMATCH *)
(* cannot arise.  Every event sets the stage projection of the Run to the   *)
(* same value, which is left out.                                           *)
(***************************************************************************)
EXTENDS Naturals, Sequences, FiniteSets

CONSTANTS
  Exec,        \* executions
  Run,         \* claimed Runs
  NoRun,       \* an execution started without --engine-run-id
  Content,     \* snapshot contents the sources may give
  NoContent,   \* nothing built yet
  Nobody,      \* a lock nobody holds
  Archive,     \* whether an original-artifact root is configured
  MaxFaults    \* bound on failures, lost connections and crashes

ASSUME NoneAssumption ==
  NoRun \notin Run /\ NoContent \notin Content /\ Nobody \notin Exec

ASSUME OptionsAssumption == Archive \in BOOLEAN /\ MaxFaults \in Nat

VARIABLES
  pc,          \* where each execution is
  run,         \* the Run an execution is bound to, or NoRun
  apply,       \* whether it publishes
  content,     \* the snapshot it built
  view,        \* the snapshot rows its publishing transaction sees
  answer,      \* what the publisher answered
  pending,     \* the event it is appending
  nextSeq,     \* the sequence number it read for that event
  snapshots,   \* committed snapshot rows of the scope
  scopeLock,   \* holder of the advisory lock of the scope
  originals,   \* contents in the directory of originals
  runStatus,   \* status_projection of each Run
  runLock,     \* holder of the row lock of each Run
  events,      \* committed events of each Run
  faults       \* faults so far

client   == <<run, apply, content, answer>>
database == <<snapshots, originals>>
locks    == <<scopeLock, runLock>>
journal  == <<runStatus, events>>
vars == <<pc, client, view, pending, nextSeq, database, locks, journal, faults>>

-----------------------------------------------------------------------------
(* Events and the payload keys the recorder admits.                         *)

Failure == {"INPUT_ERROR", "INVENTORY_CLASSIFICATION_FAILED"}
Message == {"STARTED", "SNAPSHOT_PUBLISHED"} \cup Failure

\* The recorder recognises a replay by the whole event.
Event == [message : Message, content : Content \cup {NoContent},
          revision : Nat, replay : BOOLEAN]

Bare(message) == [message |-> message, content |-> NoContent, revision |-> 0,
                  replay |-> FALSE]
SnapshotPublished(c, a) ==
  [message |-> "SNAPSHOT_PUBLISHED", content |-> c, revision |-> a.revision,
   replay |-> a.status = "exact_replay"]

PayloadKeys(message) ==
  CASE message = "STARTED" -> {"scope_bound"}
    [] message \in Failure -> {"snapshot_published"}
    [] message = "SNAPSHOT_PUBLISHED" ->
         {"classification_snapshot_id", "snapshot_revision", "content_hash",
          "item_result_contract_version", "item_result_count",
          "effective_policy_content_hash", "eligible_sku_count",
          "classified_sku_count", "unclassified_sku_count", "exact_replay"}

AllowedKeys ==
  {"scope_bound", "snapshot_published", "classification_snapshot_id",
   "snapshot_revision", "content_hash", "eligible_sku_count",
   "classified_sku_count", "unclassified_sku_count", "exact_replay"}

ValidEvent(ev) == PayloadKeys(ev.message) \subseteq AllowedKeys

\* A header row with its items, axis results, windows and reasons, which are functions
\* of the content and written in the same transaction.
Row == [content : Content, revision : Nat \ {0}]
Entry == [seq : Nat \ {0}, event : Event]
Answer == [status : {"none", "published", "exact_replay"}, revision : Nat]
NoAnswer == [status |-> "none", revision |-> 0]

Loading == {"load", "original"}
Publishing == {"begin", "lock_scope", "lookup", "commit"}
Appending == {"append", "next_seq", "insert_event"}
Ended == {"returned", "raised", "dead"}
Active(e) == pc[e] \notin Ended \cup {"idle"}

Goto(e, where) == pc' = [pc EXCEPT ![e] = where]

-----------------------------------------------------------------------------
Init ==
  /\ pc = [e \in Exec |-> "idle"]
  /\ run = [e \in Exec |-> NoRun]
  /\ apply = [e \in Exec |-> FALSE]
  /\ content = [e \in Exec |-> NoContent]
  /\ view = [e \in Exec |-> <<>>]
  /\ answer = [e \in Exec |-> NoAnswer]
  /\ pending = [e \in Exec |-> Bare("STARTED")]
  /\ nextSeq = [e \in Exec |-> 0]
  /\ snapshots = <<>> /\ originals = {}
  /\ scopeLock = Nobody /\ runLock = [r \in Run |-> Nobody]
  /\ runStatus = [r \in Run |-> "running"]
  /\ events = [r \in Run |-> <<>>]
  /\ faults = 0

-----------------------------------------------------------------------------
(* The stage: the started event, then the lifecycle, then its outcome.      *)

\* Only an execution bound to a Run announces itself.
FirstStep(r) == IF r = NoRun THEN "load" ELSE "append"

Start(e) ==
  /\ pc[e] = "idle"
  /\ \E r \in Run \cup {NoRun}, publish \in BOOLEAN :
       /\ r \in Run => publish
       /\ run' = [run EXCEPT ![e] = r]
       /\ apply' = [apply EXCEPT ![e] = publish]
       /\ Goto(e, FirstStep(r))
  /\ pending' = [pending EXCEPT ![e] = Bare("STARTED")]
  /\ UNCHANGED <<content, answer, view, nextSeq, database, locks, journal, faults>>

\* Where publish() starts to write.
FirstWrite == IF Archive THEN "original" ELSE "begin"

\* The inputs are read in one read-only transaction and the snapshot is built
\* and validated from them.
LoadInputs(e) ==
  /\ pc[e] = "load"
  /\ \E c \in Content : content' = [content EXCEPT ![e] = c]
  /\ Goto(e, IF apply[e] THEN FirstWrite ELSE "returned")
  /\ UNCHANGED <<run, apply, answer, view, pending, nextSeq, database, locks,
                 journal, faults>>

\* An exception of the lifecycle: the stage appends a failed event and raises,
\* the CLI only raises.
Raise(e, code) ==
  /\ Goto(e, IF run[e] = NoRun THEN "raised" ELSE "append")
  /\ pending' = [pending EXCEPT ![e] = Bare(code)]

\* A publication was answered: the stage appends it, the CLI returns.
Answered(e, a) ==
  /\ answer' = [answer EXCEPT ![e] = a]
  /\ Goto(e, IF run[e] = NoRun THEN "returned" ELSE "append")
  /\ pending' = [pending EXCEPT ![e] = SnapshotPublished(content[e], a)]

-----------------------------------------------------------------------------
(* PostgresClassificationPublisher.publish                                  *)

PublishOriginal(e) ==
  /\ pc[e] = "original"
  /\ originals' = originals \cup {content[e]}
  /\ Goto(e, "begin")
  /\ UNCHANGED <<client, view, pending, nextSeq, snapshots, locks, journal, faults>>

\* The first statement of the serializable transaction, the one that waits for
\* the advisory lock, fixes what the transaction sees before it waits.
BeginTransaction(e) ==
  /\ pc[e] = "begin"
  /\ view' = [view EXCEPT ![e] = snapshots]
  /\ Goto(e, "lock_scope")
  /\ UNCHANGED <<client, pending, nextSeq, database, locks, journal, faults>>

LockScope(e) ==
  /\ pc[e] = "lock_scope"
  /\ scopeLock = Nobody
  /\ scopeLock' = e
  /\ Goto(e, "lookup")
  /\ UNCHANGED <<client, view, pending, nextSeq, database, runLock, journal, faults>>

Existing(e) == {i \in 1 .. Len(view[e]) : view[e][i].content = content[e]}

\* COALESCE(MAX(snapshot_revision), 0) + 1
NextRevision(rows) == IF rows = <<>> THEN 1 ELSE rows[Len(rows)].revision + 1

\* Defect: the answer names the latest revision.
ReplayedLatest(rows, i) ==
  [status |-> "exact_replay", revision |-> rows[Len(rows)].revision]

Replayed(rows, i) == [status |-> "exact_replay", revision |-> rows[i].revision]

FindExisting(e) ==
  /\ pc[e] = "lookup"
  /\ \E i \in Existing(e) : Answered(e, Replayed(view[e], i))
  /\ scopeLock' = Nobody
  /\ UNCHANGED <<run, apply, content, view, nextSeq, database, runLock, journal,
                 faults>>

InsertSnapshot(e) ==
  /\ pc[e] = "lookup"
  /\ Existing(e) = {}
  /\ Goto(e, "commit")
  /\ UNCHANGED <<client, view, pending, nextSeq, database, locks, journal, faults>>

\* Defect: the transaction is not checked against others.
NotSerializable(e) == TRUE

\* A writer that did not see the rows another one committed is aborted.
Serializable(e) == view[e] = snapshots

NewRow(e) == [content |-> content[e], revision |-> NextRevision(view[e])]

Commit(e) ==
  /\ pc[e] = "commit"
  /\ Serializable(e)
  /\ snapshots' = Append(snapshots, NewRow(e))
  /\ scopeLock' = Nobody
  /\ Answered(e, [status |-> "published", revision |-> NewRow(e).revision])
  /\ UNCHANGED <<run, apply, content, view, nextSeq, originals, runLock, journal,
                 faults>>

AbortTransaction(e) ==
  /\ pc[e] = "commit"
  /\ ~Serializable(e)
  /\ scopeLock' = Nobody
  /\ Raise(e, "INVENTORY_CLASSIFICATION_FAILED")
  /\ UNCHANGED <<client, view, nextSeq, database, runLock, journal, faults>>

-----------------------------------------------------------------------------
(* PostgresInventoryRunEventRecorder.append                                 *)

\* Where an execution goes when its event was recorded.
AfterEvent(message) ==
  CASE message = "STARTED" -> "load"
    [] message \in Failure -> "raised"
    [] message = "SNAPSHOT_PUBLISHED" -> "returned"

\* An event that is refused or cannot be appended raises out of the stage.
RejectEvent(e) ==
  /\ pc[e] = "append"
  /\ ~ValidEvent(pending[e])
  /\ Goto(e, "raised")
  /\ UNCHANGED <<client, view, pending, nextSeq, database, locks, journal, faults>>

RunAvailable(r) == runLock[r] = Nobody

\* Defect: the status of the Run is not checked.
RunAlwaysAdmits(r) == TRUE
RunAdmits(r) == runStatus[r] = "running"

LockRun(e) ==
  /\ pc[e] = "append"
  /\ ValidEvent(pending[e])
  /\ RunAvailable(run[e])
  /\ IF RunAdmits(run[e])
       THEN runLock' = [runLock EXCEPT ![run[e]] = e] /\ Goto(e, "next_seq")
       ELSE UNCHANGED runLock /\ Goto(e, "raised")
  /\ UNCHANGED <<client, view, pending, nextSeq, database, scopeLock, journal, faults>>

ReadNextSequence(e) ==
  /\ pc[e] = "next_seq"
  /\ nextSeq' = [nextSeq EXCEPT ![e] = Len(events[run[e]]) + 1]
  /\ Goto(e, "insert_event")
  /\ UNCHANGED <<client, view, pending, database, locks, journal, faults>>

Recorded(r, ev) == \E i \in 1 .. Len(events[r]) : events[r][i].event = ev

\* Defect: the early return of a replay keeps the lock.
RunReleasedUnlessReplay(e) ==
  IF Recorded(run[e], pending[e]) THEN runLock
  ELSE [runLock EXCEPT ![run[e]] = Nobody]

RunReleased(e) == [runLock EXCEPT ![run[e]] = Nobody]

WithEvent(e) ==
  IF Recorded(run[e], pending[e]) THEN events
  ELSE [events EXCEPT ![run[e]] =
          Append(@, [seq |-> nextSeq[e], event |-> pending[e]])]

InsertEvent(e) ==
  /\ pc[e] = "insert_event"
  /\ events' = WithEvent(e)
  /\ runLock' = RunReleased(e)
  /\ Goto(e, AfterEvent(pending[e].message))
  /\ UNCHANGED <<client, view, pending, nextSeq, database, scopeLock, runStatus, faults>>

-----------------------------------------------------------------------------
(* Faults, and the Platform.                                                *)

Unlocked(e) ==
  /\ scopeLock' = IF scopeLock = e THEN Nobody ELSE scopeLock
  /\ runLock' = [r \in Run |-> IF runLock[r] = e THEN Nobody ELSE runLock[r]]

\* The lifecycle raises: the inputs are refused, a file or a statement fails.
Fail(e) ==
  /\ pc[e] \in Loading \cup Publishing /\ faults < MaxFaults
  /\ \E code \in Failure : Raise(e, code)
  /\ Unlocked(e)
  /\ faults' = faults + 1
  /\ UNCHANGED <<client, view, nextSeq, database, journal>>

\* COMMIT times out in the client although the database commits.
CommitUnanswered(e) ==
  /\ pc[e] = "commit" /\ Serializable(e) /\ faults < MaxFaults
  /\ snapshots' = Append(snapshots, NewRow(e))
  /\ Raise(e, "INVENTORY_CLASSIFICATION_FAILED")
  /\ Unlocked(e)
  /\ faults' = faults + 1
  /\ UNCHANGED <<client, view, nextSeq, originals, journal>>

\* Appending an event fails: nothing in the stage catches that.
AppendFails(e) ==
  /\ pc[e] \in Appending /\ faults < MaxFaults
  /\ Goto(e, "raised")
  /\ Unlocked(e)
  /\ faults' = faults + 1
  /\ UNCHANGED <<client, view, pending, nextSeq, database, journal>>

\* The process dies: its transaction is rolled back, unless it died after
\* sending COMMIT.
Crash(e) ==
  /\ Active(e) /\ faults < MaxFaults
  /\ Goto(e, "dead")
  /\ Unlocked(e)
  /\ \/ UNCHANGED <<snapshots, events>>
     \/ /\ pc[e] = "commit" /\ Serializable(e)
        /\ snapshots' = Append(snapshots, NewRow(e))
        /\ UNCHANGED events
     \/ /\ pc[e] = "insert_event"
        /\ events' = WithEvent(e)
        /\ UNCHANGED snapshots
  /\ faults' = faults + 1
  /\ UNCHANGED <<client, view, pending, nextSeq, originals, runStatus>>

\* External: the Platform ends the Run, which needs its row.
EndRun(r) ==
  /\ runStatus[r] = "running" /\ runLock[r] = Nobody
  /\ runStatus' = [runStatus EXCEPT ![r] = "ended"]
  /\ UNCHANGED <<pc, client, view, pending, nextSeq, database, locks, events, faults>>

Step(e) ==
  \/ LoadInputs(e) \/ PublishOriginal(e) \/ BeginTransaction(e) \/ LockScope(e)
  \/ FindExisting(e) \/ InsertSnapshot(e) \/ Commit(e) \/ AbortTransaction(e)
  \/ RejectEvent(e) \/ LockRun(e) \/ ReadNextSequence(e) \/ InsertEvent(e)

Next ==
  \/ \E e \in Exec : \/ Start(e) \/ Step(e) \/ Fail(e) \/ CommitUnanswered(e)
                     \/ AppendFails(e) \/ Crash(e)
  \/ \E r \in Run : EndRun(r)

Spec == Init /\ [][Next]_vars

-----------------------------------------------------------------------------
(* Properties.                                                              *)

\* What every variable of the executions and of the database may hold.
TypeOK ==
  /\ pc \in [Exec -> {"idle"} \cup Loading \cup Publishing \cup Appending \cup Ended]
  /\ run \in [Exec -> Run \cup {NoRun}]
  /\ apply \in [Exec -> BOOLEAN]
  /\ content \in [Exec -> Content \cup {NoContent}]
  /\ view \in [Exec -> Seq(Row)]
  /\ answer \in [Exec -> Answer]
  /\ pending \in [Exec -> Event]
  /\ nextSeq \in [Exec -> Nat]
  /\ snapshots \in Seq(Row)
  /\ scopeLock \in Exec \cup {Nobody}
  /\ originals \subseteq Content
  /\ runStatus \in [Run -> {"running", "ended"}]
  /\ runLock \in [Run -> Exec \cup {Nobody}]
  /\ events \in [Run -> Seq(Entry)]
  /\ faults \in 0 .. MaxFaults

\* The revisions of a scope are 1, 2, 3, ... and no content has two, however
\* publications of several processes interleave: what the waiting reader saw
\* before it got the lock never becomes a second revision.
RevisionsConsecutive ==
  \A i, j \in 1 .. Len(snapshots) :
    /\ snapshots[i].revision = i
    /\ snapshots[i].content = snapshots[j].content => i = j

\* Every published snapshot has its original on disk, whatever failed or died
\* between the file and the database.
OriginalKept ==
  Archive => \A i \in 1 .. Len(snapshots) : snapshots[i].content \in originals

\* A receipt names the row that holds the content it reports, also when it is
\* a replay answered from an old view.
ReceiptNamesSnapshot ==
  \A e \in Exec : answer[e].status # "none" =>
    /\ answer[e].revision \in 1 .. Len(snapshots)
    /\ snapshots[answer[e].revision].content = content[e]

\* The events of a Run are numbered without a gap and an event is recorded
\* once, however stages of the same Run interleave.
EventsConsecutive ==
  \A r \in Run : \A i, j \in 1 .. Len(events[r]) :
    /\ events[r][i].seq = i
    /\ events[r][i].event = events[r][j].event => i = j

\* An execution bound to a Run writes nothing, neither the original nor the
\* snapshot, before the Run shows that its classification started.
AnnouncedFirst ==
  \A e \in Exec : run[e] # NoRun /\ pc[e] \in Loading \cup Publishing =>
    Recorded(run[e], Bare("STARTED"))

\* Once a Run ended no event is added to it: the status an append checked
\* still holds when it inserts.
NoEventAfterEnd ==
  [][\A r \in Run : runStatus[r] # "running" => events'[r] = events[r]]_vars

\* No execution keeps a lock once it returned, raised or died, and none waits
\* for one lock with the other in its hands: nobody waits for ever.
LocksReturned ==
  \A e \in Exec :
    /\ pc[e] \in Ended => scopeLock # e /\ \A r \in Run : runLock[r] # e
    /\ scopeLock = e => \A r \in Run : runLock[r] # e

\* What the publication and its events amount to, at every moment: snapshots,
\* originals, receipts and events agree with each other, whoever died or waited.
PublicationSound ==
  /\ TypeOK
  /\ RevisionsConsecutive
  /\ OriginalKept
  /\ ReceiptNamesSnapshot
  /\ EventsConsecutive
  /\ AnnouncedFirst

=============================================================================
