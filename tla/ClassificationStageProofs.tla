---------------------- MODULE ClassificationStageProofs ----------------------
(***************************************************************************)
(* Snapshots, originals, receipts and events agree with each other for any  *)
(* number of executions, Runs, contents and faults (ClassificationStage). Of *)
(* the documents themselves (ClassificationSnapshot): an order has evidence,  *)
(* a SHADOW axis moves no policy, an item without a class has no say in the  *)
(* class of another, a better class carries its share, and the publisher     *)
(* refuses a built document for two reasons only, for any items, weeks,      *)
(* evidence and configurations.                                              *)
(***************************************************************************)
EXTENDS ClassificationStage, ClassificationSnapshot, SequenceTheorems, FiniteSetTheorems,
        WellFoundedInduction, TLAPS

-----------------------------------------------------------------------------
(* The inductive invariant.                                                 *)

\* Whoever writes has built something, and whoever appends is bound to a Run.
ContentBuilt ==
  \A e \in Exec : pc[e] \in Publishing \cup {"original"} => content[e] \in Content
AppendsBound == \A e \in Exec : pc[e] \in Appending => run[e] \in Run

\* The only event an execution goes on from is the bare announcement.
StartedBare ==
  \A e \in Exec : pending[e].message = "STARTED" => pending[e] = Bare("STARTED")

\* An answer is the last thing the publisher does: nothing is built after it.
AnswerLast ==
  \A e \in Exec : answer[e].status # "none" =>
    /\ pc[e] \in Appending \cup Ended
    /\ pending[e].message = "SNAPSHOT_PUBLISHED"

\* Locks are held only where they are used, and the Run of an append is locked
\* and running until the append ends.
ScopeHeld == \A e \in Exec : scopeLock = e => pc[e] \in {"lookup", "commit"}
RunHeld ==
  \A e \in Exec, r \in Run :
    runLock[r] = e => pc[e] \in {"next_seq", "insert_event"} /\ run[e] = r
AppendLocked ==
  \A e \in Exec : pc[e] \in {"next_seq", "insert_event"} =>
    runLock[run[e]] = e /\ runStatus[run[e]] = "running"

\* The number read under the lock is still the next one at the insertion.
NumberCurrent ==
  \A e \in Exec : pc[e] = "insert_event" => nextSeq[e] = Len(events[run[e]]) + 1

Control ==
  TypeOK /\ ContentBuilt /\ AppendsBound /\ StartedBare /\ AnswerLast /\ ScopeHeld
    /\ RunHeld /\ AppendLocked /\ NumberCurrent

\* What a transaction sees was committed, and stays so.
ViewCommitted ==
  \A e \in Exec : /\ Len(view[e]) <= Len(snapshots)
                  /\ \A i \in 1 .. Len(view[e]) : view[e][i] = snapshots[i]

\* Who is about to commit saw no snapshot of the content.
CommitNew == \A e \in Exec : pc[e] = "commit" => Existing(e) = {}

\* The original is written before the transaction begins.
OriginalWritten ==
  Archive => \A e \in Exec : pc[e] \in Publishing => content[e] \in originals

Published ==
  RevisionsConsecutive /\ ViewCommitted /\ CommitNew /\ OriginalWritten /\ OriginalKept
    /\ ReceiptNamesSnapshot

Journal == EventsConsecutive /\ AnnouncedFirst

IInv == Control /\ Published /\ Journal

-----------------------------------------------------------------------------
(* Control.                                                                 *)

\* Events are events.
LEMMA EventTypes ==
  /\ \A m \in Message : Bare(m) \in Event /\ Bare(m).message = m
  /\ \A c \in Content, a \in Answer : /\ SnapshotPublished(c, a) \in Event
                                      /\ SnapshotPublished(c, a).message = "SNAPSHOT_PUBLISHED"
BY DEF Bare, Event, Message, Failure, SnapshotPublished, Answer

\* The next row of a transaction is a row.
LEMMA RowTypes ==
  ASSUME TypeOK, NEW e \in Exec, content[e] \in Content
  PROVE  NewRow(e) \in Row /\ Append(snapshots, NewRow(e)) \in Seq(Row)
<1>1. NextRevision(view[e]) \in Nat \ {0}
  <2>1. view[e] \in Seq(Row)
    BY DEF TypeOK
  <2>2. CASE view[e] = <<>>
    BY <2>2 DEF NextRevision
  <2>3. CASE view[e] # <<>>
    <3>1. view[e][Len(view[e])] \in Row
      BY <2>1, <2>3
    <3> QED BY <2>3, <3>1 DEF NextRevision, Row
  <2> QED BY <2>2, <2>3
<1>2. NewRow(e) \in Row
  BY <1>1 DEF NewRow, Row
<1> QED BY <1>2 DEF TypeOK

\* A recorded event is an entry.
LEMMA EntryTypes ==
  ASSUME TypeOK, NEW e \in Exec, run[e] \in Run, nextSeq[e] # 0
  PROVE  WithEvent(e) \in [Run -> Seq(Entry)]
<1>1. [seq |-> nextSeq[e], event |-> pending[e]] \in Entry
  BY DEF TypeOK, Entry
<1>2. Append(events[run[e]], [seq |-> nextSeq[e], event |-> pending[e]]) \in Seq(Entry)
  BY <1>1 DEF TypeOK
<1> QED BY <1>2 DEF WithEvent, TypeOK

\* A failure does not look like an announcement or an answer.
LEMMA FailureTypes ==
  \A m \in Failure : Bare(m) \in Event /\ Bare(m).message \in Failure
BY EventTypes DEF Message

\* Nor does an execution that raised have one waiting.
LEMMA RaiseStarted ==
  ASSUME StartedBare, pending \in [Exec -> Event], NEW e \in Exec, NEW code \in Failure,
         Raise(e, code)
  PROVE  StartedBare'
<1>1. pending' = [pending EXCEPT ![e] = Bare(code)]
  BY DEF Raise
<1>2. Bare(code).message # "STARTED"
  BY FailureTypes DEF Failure
<1>3. SUFFICES ASSUME NEW o \in Exec, pending'[o].message = "STARTED"
               PROVE  pending'[o] = Bare("STARTED")
  BY DEF StartedBare, Bare
<1>4. o # e
  BY <1>1, <1>2, <1>3
<1> QED BY <1>1, <1>3, <1>4 DEF StartedBare

\* Answering keeps the types, and is the last thing the publisher does.
LEMMA AnsweredKeeps ==
  ASSUME Control, NEW e \in Exec, NEW a \in Answer, content[e] \in Content, Answered(e, a)
  PROVE  /\ pending' \in [Exec -> Event] /\ answer' \in [Exec -> Answer]
         /\ pc' \in [Exec -> {"idle"} \cup Loading \cup Publishing \cup Appending \cup Ended]
         /\ StartedBare' /\ AnswerLast'
<1> DEFINE p == SnapshotPublished(content[e], a)
<1>1. p \in Event /\ p.message = "SNAPSHOT_PUBLISHED"
  BY EventTypes
<1>2. /\ pending' = [pending EXCEPT ![e] = p] /\ answer' = [answer EXCEPT ![e] = a]
      /\ pc' = [pc EXCEPT ![e] = IF run[e] = NoRun THEN "returned" ELSE "append"]
  BY DEF Answered, Goto
<1> HIDE DEF p
<1>3. pending' \in [Exec -> Event] /\ answer' \in [Exec -> Answer]
  BY <1>1, <1>2 DEF Control, TypeOK
<1>4. pc' \in [Exec -> {"idle"} \cup Loading \cup Publishing \cup Appending \cup Ended]
  BY <1>2 DEF Control, TypeOK, Appending, Ended
<1>5. StartedBare'
  BY <1>1, <1>2 DEF Control, TypeOK, StartedBare, Bare
<1>6. AnswerLast'
  BY <1>1, <1>2 DEF Control, TypeOK, AnswerLast, Appending, Ended
<1> QED BY <1>3, <1>4, <1>5, <1>6

\* A start binds the execution and announces it.
LEMMA StartControl ==
  ASSUME Control, NEW e \in Exec, Start(e)
  PROVE  Control'
<1>1. TypeOK'
  BY EventTypes DEF Control, TypeOK, Goto, Loading, Appending, database, locks, journal,
       Start, FirstStep, Message
<1> QED BY <1>1, NoneAssumption DEF Control, TypeOK, Goto, Publishing, Appending, Ended,
     database, locks, journal, Start, ContentBuilt, AppendsBound, StartedBare, AnswerLast,
     ScopeHeld, RunHeld, AppendLocked, NumberCurrent, FirstStep

\* Loading the inputs.
LEMMA LoadInputsControl ==
  ASSUME Control, NEW e \in Exec, LoadInputs(e)
  PROVE  Control'
<1>1. TypeOK'
  BY DEF Control, TypeOK, Goto, Loading, Publishing, Ended, database, locks, journal,
       LoadInputs, FirstWrite
<1> QED BY <1>1 DEF Control, TypeOK, Goto, Appending, Ended, locks, journal, LoadInputs,
     ContentBuilt, AppendsBound, StartedBare, AnswerLast, ScopeHeld, RunHeld, AppendLocked,
     NumberCurrent, FirstWrite

\* Writing the original.
LEMMA PublishOriginalControl ==
  ASSUME Control, NEW e \in Exec, PublishOriginal(e)
  PROVE  Control'
<1>1. TypeOK'
  BY DEF Control, TypeOK, Goto, Publishing, locks, journal, client, PublishOriginal, ContentBuilt
<1> QED BY <1>1 DEF Control, Goto, Appending, Ended, locks, journal, client,
     PublishOriginal, ContentBuilt, AppendsBound, StartedBare, AnswerLast, ScopeHeld,
     RunHeld, AppendLocked, NumberCurrent

\* Beginning the transaction.
LEMMA BeginTransactionControl ==
  ASSUME Control, NEW e \in Exec, BeginTransaction(e)
  PROVE  Control'
<1>1. TypeOK'
  BY DEF Control, TypeOK, Goto, Publishing, database, locks, journal, client, BeginTransaction
<1> QED BY <1>1 DEF Control, Goto, Publishing, Appending, Ended, locks, journal, client,
     BeginTransaction, ContentBuilt, AppendsBound, StartedBare, AnswerLast, ScopeHeld,
     RunHeld, AppendLocked, NumberCurrent

\* Locking the scope.
LEMMA LockScopeControl ==
  ASSUME Control, NEW e \in Exec, LockScope(e)
  PROVE  Control'
<1>1. TypeOK'
  BY DEF Control, TypeOK, Goto, Publishing, database, journal, client, LockScope
<1> QED BY <1>1 DEF Control, TypeOK, Goto, Publishing, Appending, Ended, journal, client,
     LockScope, ContentBuilt, AppendsBound, StartedBare, AnswerLast, ScopeHeld, RunHeld,
     AppendLocked, NumberCurrent

\* Answering for a row that is there.
LEMMA FindExistingControl ==
  ASSUME Control, NEW e \in Exec, FindExisting(e)
  PROVE  Control'
<1>1. PICK i \in Existing(e) : Answered(e, Replayed(view[e], i))
  BY DEF FindExisting
<1> DEFINE a == Replayed(view[e], i)
<1>2. a \in Answer
  <2>1. view[e] \in Seq(Row) /\ i \in 1 .. Len(view[e])
    BY DEF Control, TypeOK, Existing
  <2>2. view[e][i] \in Row
    BY <2>1
  <2> QED BY <2>2 DEF Row, Replayed, Answer
<1>3. content[e] \in Content
  BY DEF Control, ContentBuilt, Publishing, FindExisting
<1>4. TypeOK'
  BY <1>1, <1>2, <1>3, AnsweredKeeps DEF FindExisting, Control, TypeOK, database, journal
<1>5. ContentBuilt'
  BY DEF Control, Goto, Publishing, FindExisting, ContentBuilt, Answered
<1>6. AppendsBound'
  BY DEF Control, TypeOK, Goto, Appending, FindExisting, AppendsBound, Answered
<1>7. StartedBare'
  BY <1>1, <1>2, <1>3, AnsweredKeeps
<1>8. AnswerLast'
  BY <1>1, <1>2, <1>3, AnsweredKeeps
<1>9. ScopeHeld'
  BY NoneAssumption DEF Control, FindExisting, ScopeHeld
<1>10. RunHeld'
  BY DEF Control, Goto, FindExisting, RunHeld, Answered
<1>11. AppendLocked'
  BY DEF Control, Goto, journal, FindExisting, AppendLocked, Answered
<1>12. NumberCurrent'
  BY DEF Control, Goto, journal, FindExisting, NumberCurrent, Answered
<1> QED BY <1>4, <1>5, <1>6, <1>7, <1>8, <1>9, <1>10, <1>11, <1>12 DEF Control

\* Inserting the row.
LEMMA InsertSnapshotControl ==
  ASSUME Control, NEW e \in Exec, InsertSnapshot(e)
  PROVE  Control'
<1>1. TypeOK'
  BY DEF Control, TypeOK, Goto, Publishing, database, locks, journal, client, InsertSnapshot
<1> QED BY <1>1 DEF Control, Goto, Publishing, Appending, Ended, locks, journal, client,
     InsertSnapshot, ContentBuilt, AppendsBound, StartedBare, AnswerLast, ScopeHeld,
     RunHeld, AppendLocked, NumberCurrent

\* Committing.
LEMMA CommitControl ==
  ASSUME Control, NEW e \in Exec, Commit(e)
  PROVE  Control'
<1> DEFINE a == [status |-> "published", revision |-> NewRow(e).revision]
<1>1. snapshots' \in Seq(Row) /\ NewRow(e) \in Row
  BY RowTypes DEF Commit, Control, ContentBuilt, Publishing
<1>2. a \in Answer
  BY <1>1 DEF Row, Answer
<1>3. content[e] \in Content /\ Answered(e, a)
  BY DEF Control, ContentBuilt, Publishing, Commit
<1>4. TypeOK'
  BY <1>1, <1>2, <1>3, AnsweredKeeps DEF Commit, Control, TypeOK, journal
<1>5. ContentBuilt'
  BY DEF Control, Goto, Publishing, Commit, ContentBuilt, Answered
<1>6. AppendsBound'
  BY DEF Control, TypeOK, Goto, Appending, Commit, AppendsBound, Answered
<1>7. StartedBare'
  BY <1>2, <1>3, AnsweredKeeps
<1>8. AnswerLast'
  BY <1>2, <1>3, AnsweredKeeps
<1>9. ScopeHeld'
  BY NoneAssumption DEF Control, Commit, ScopeHeld
<1>10. RunHeld'
  BY DEF Control, Goto, Commit, RunHeld, Answered
<1>11. AppendLocked'
  BY DEF Control, Goto, journal, Commit, AppendLocked, Answered
<1>12. NumberCurrent'
  BY DEF Control, Goto, journal, Commit, NumberCurrent, Answered
<1> QED BY <1>4, <1>5, <1>6, <1>7, <1>8, <1>9, <1>10, <1>11, <1>12 DEF Control

\* Being aborted.
LEMMA AbortTransactionControl ==
  ASSUME Control, NEW e \in Exec, AbortTransaction(e)
  PROVE  Control'
<1>1. TypeOK'
  BY FailureTypes DEF Control, TypeOK, Goto, Appending, Ended, database, journal, client,
       AbortTransaction, Raise, Failure
<1>2. ContentBuilt'
  BY DEF Control, Goto, Publishing, client, AbortTransaction, ContentBuilt, Raise
<1>3. AppendsBound'
  BY DEF Control, TypeOK, Goto, Appending, client, AbortTransaction, AppendsBound, Raise
<1>4. StartedBare'
  BY RaiseStarted DEF AbortTransaction, Control, TypeOK, Failure
<1>5. AnswerLast'
  BY DEF Control, Goto, Appending, Ended, client, AbortTransaction, AnswerLast, Raise
<1>6. ScopeHeld'
  BY NoneAssumption DEF Control, AbortTransaction, ScopeHeld
<1>7. RunHeld'
  BY DEF Control, Goto, client, AbortTransaction, RunHeld, Raise
<1>8. AppendLocked'
  BY DEF Control, Goto, journal, client, AbortTransaction, AppendLocked, Raise
<1>9. NumberCurrent'
  BY DEF Control, Goto, journal, client, AbortTransaction, NumberCurrent, Raise
<1> QED BY <1>1, <1>2, <1>3, <1>4, <1>5, <1>6, <1>7, <1>8, <1>9 DEF Control

\* Refusing an event.
LEMMA RejectEventControl ==
  ASSUME Control, NEW e \in Exec, RejectEvent(e)
  PROVE  Control'
<1>1. TypeOK'
  BY DEF Control, TypeOK, Goto, Ended, database, locks, journal, client, RejectEvent
<1> QED BY <1>1 DEF Control, Goto, Publishing, Appending, Ended, locks, journal, client,
     RejectEvent, ContentBuilt, AppendsBound, StartedBare, AnswerLast, ScopeHeld, RunHeld,
     AppendLocked, NumberCurrent

\* Locking the Run of an append.
LEMMA LockRunControl ==
  ASSUME Control, NEW e \in Exec, LockRun(e)
  PROVE  Control'
<1>1. TypeOK'
  BY ZenonT(60) DEF Control, TypeOK, Goto, Appending, Ended, database, journal, client, LockRun
<1>2. ContentBuilt'
  BY DEF Control, TypeOK, Goto, Publishing, client, LockRun, ContentBuilt
<1>3. AppendsBound'
  BY DEF Control, TypeOK, Goto, Appending, client, LockRun, AppendsBound
<1>4. StartedBare'
  BY DEF Control, LockRun, StartedBare
<1>5. AnswerLast'
  <2>1. UNCHANGED <<answer, pending>> /\ \A o \in Exec : o # e => pc'[o] = pc[o]
    BY DEF LockRun, client, Goto, Control, TypeOK
  <2>2. pc'[e] \in {"next_seq", "raised"}
    BY DEF LockRun, Goto, Control, TypeOK
  <2>3. pc[e] = "append"
    BY DEF LockRun
  <2> QED BY <2>1, <2>2, <2>3 DEF Control, AnswerLast, Appending, Ended
<1>6. ScopeHeld'
  BY DEF Control, TypeOK, Goto, LockRun, ScopeHeld
<1>7. RunHeld'
  BY DEF Control, TypeOK, Goto, client, LockRun, RunHeld
<1>8. AppendLocked'
  BY NoneAssumption DEF Control, TypeOK, Goto, Appending, journal, client, LockRun,
       AppendLocked, RunAvailable, RunAdmits, AppendsBound
<1>9. NumberCurrent'
  BY DEF Control, TypeOK, Goto, journal, client, LockRun, NumberCurrent
<1> QED BY <1>1, <1>2, <1>3, <1>4, <1>5, <1>6, <1>7, <1>8, <1>9 DEF Control

\* Reading the next number.
LEMMA ReadNextSequenceControl ==
  ASSUME Control, NEW e \in Exec, ReadNextSequence(e)
  PROVE  Control'
<1>1. TypeOK'
  BY DEF Control, TypeOK, Goto, Appending, database, locks, journal, client, ReadNextSequence
<1> QED BY SMTT(60), <1>1 DEF Control, TypeOK, Goto, Publishing, Appending, locks, journal, client,
     ReadNextSequence, ContentBuilt, AppendsBound, StartedBare, AnswerLast, ScopeHeld,
     RunHeld, AppendLocked, NumberCurrent

\* Inserting an event.
LEMMA InsertEventControl ==
  ASSUME Control, NEW e \in Exec, InsertEvent(e)
  PROVE  Control'
<1>a. /\ pc[e] = "insert_event" /\ UNCHANGED <<content, run, nextSeq, runStatus>>
      /\ \A o \in Exec : o # e => pc'[o] = pc[o]
      /\ runLock' = [runLock EXCEPT ![run[e]] = Nobody] /\ events' = WithEvent(e)
  BY DEF InsertEvent, client, Goto, Control, RunReleased
<1>b. pc'[e] \in {"load", "returned", "raised"}
  <2>1. pending[e].message \in Message
    BY DEF Control, TypeOK, Event
  <2> QED BY <2>1 DEF InsertEvent, Goto, AfterEvent, Message, Control, TypeOK
<1>c. \A o \in Exec : o # e /\ pc[o] \in {"next_seq", "insert_event"} =>
        run[o] \in Run /\ run[o] # run[e]
  BY <1>a DEF Control, AppendLocked, AppendsBound, Appending
<1>1. TypeOK'
  <2>1. nextSeq[e] # 0 /\ run[e] \in Run
    BY <1>a DEF Control, AppendsBound, Appending, NumberCurrent
  <2>2. events' \in [Run -> Seq(Entry)]
    BY <1>a, <2>1, EntryTypes DEF Control
  <2> QED BY <1>b, <2>1, <2>2 DEF InsertEvent, RunReleased, Control, TypeOK, Goto, Loading,
       Ended, database, client
<1>2. ContentBuilt'
  BY <1>a, <1>b DEF Control, ContentBuilt, Publishing
<1>3. AppendsBound'
  BY DEF Control, Goto, Appending, client, InsertEvent, AppendsBound, RunReleased
<1>4. StartedBare'
  BY DEF Control, InsertEvent, StartedBare, RunReleased
<1>5. AnswerLast'
  BY DEF Control, Goto, Ended, client, InsertEvent, AnswerLast, AfterEvent, RunReleased
<1>6. ScopeHeld'
  BY DEF Control, Goto, InsertEvent, ScopeHeld, RunReleased
<1>7. RunHeld'
  BY NoneAssumption DEF Control, TypeOK, Goto, client, InsertEvent, RunHeld, RunReleased
<1>8. AppendLocked'
  BY <1>a, <1>b, <1>c DEF Control, AppendLocked
<1>9. NumberCurrent'
  BY <1>a, <1>b, <1>c DEF Control, NumberCurrent, WithEvent
<1> QED BY <1>1, <1>2, <1>3, <1>4, <1>5, <1>6, <1>7, <1>8, <1>9 DEF Control

\* Raising out of the lifecycle.
LEMMA FailControl ==
  ASSUME Control, NEW e \in Exec, Fail(e)
  PROVE  Control'
<1>1. TypeOK'
  BY FailureTypes, OptionsAssumption DEF Control, TypeOK, Goto, Appending, Ended, database,
       journal, client, Fail, Raise, Unlocked
<1>2. ContentBuilt'
  BY DEF Control, Goto, Publishing, client, Fail, ContentBuilt, Raise
<1>3. AppendsBound'
  BY DEF Control, TypeOK, Goto, Appending, client, Fail, AppendsBound, Raise
<1>4. StartedBare'
  BY RaiseStarted DEF Fail, Control, TypeOK
<1>5. AnswerLast'
  BY DEF Control, Goto, Loading, Publishing, Appending, Ended, client, Fail, AnswerLast, Raise
<1>6. ScopeHeld'
  BY NoneAssumption DEF Control, Goto, Fail, ScopeHeld, Raise, Unlocked
<1>7. RunHeld'
  BY NoneAssumption DEF Control, Goto, client, Fail, RunHeld, Raise, Unlocked
<1>8. AppendLocked'
  BY DEF Control, TypeOK, Goto, Appending, journal, client, Fail, AppendLocked, Raise,
       Unlocked, AppendsBound
<1>9. NumberCurrent'
  BY DEF Control, Goto, journal, client, Fail, NumberCurrent, Raise
<1> QED BY <1>1, <1>2, <1>3, <1>4, <1>5, <1>6, <1>7, <1>8, <1>9 DEF Control

\* Not hearing of a commit.
LEMMA CommitUnansweredControl ==
  ASSUME Control, NEW e \in Exec, CommitUnanswered(e)
  PROVE  Control'
<1>1. TypeOK'
  BY FailureTypes, RowTypes, OptionsAssumption DEF Control, TypeOK, Goto, Publishing,
       Appending, Ended, journal, client, CommitUnanswered, ContentBuilt, Raise, Failure,
       Unlocked
<1>2. ContentBuilt'
  BY DEF Control, Goto, Publishing, client, CommitUnanswered, ContentBuilt, Raise
<1>3. AppendsBound'
  BY DEF Control, TypeOK, Goto, Appending, client, CommitUnanswered, AppendsBound, Raise
<1>4. StartedBare'
  BY RaiseStarted DEF CommitUnanswered, Control, TypeOK, Failure
<1>5. AnswerLast'
  BY DEF Control, Goto, Appending, Ended, client, CommitUnanswered, AnswerLast, Raise
<1>6. ScopeHeld'
  BY NoneAssumption DEF Control, Goto, CommitUnanswered, ScopeHeld, Raise, Unlocked
<1>7. RunHeld'
  BY NoneAssumption DEF Control, Goto, client, CommitUnanswered, RunHeld, Raise, Unlocked
<1>8. AppendLocked'
  BY DEF Control, Goto, Appending, journal, client, CommitUnanswered, AppendLocked, Raise,
       Unlocked, AppendsBound
<1>9. NumberCurrent'
  BY DEF Control, Goto, journal, client, CommitUnanswered, NumberCurrent, Raise
<1> QED BY <1>1, <1>2, <1>3, <1>4, <1>5, <1>6, <1>7, <1>8, <1>9 DEF Control

\* Failing to append.
LEMMA AppendFailsControl ==
  ASSUME Control, NEW e \in Exec, AppendFails(e)
  PROVE  Control'
<1>1. TypeOK'
  BY OptionsAssumption DEF Control, TypeOK, Goto, Ended, database, journal, client,
       AppendFails, Unlocked
<1> QED BY <1>1, NoneAssumption DEF Control, TypeOK, Goto, Loading, Publishing, Appending,
     journal, client, AppendFails, ContentBuilt, AppendsBound, StartedBare, AnswerLast,
     ScopeHeld, RunHeld, AppendLocked, NumberCurrent, Unlocked

\* Dying.
LEMMA CrashControl ==
  ASSUME Control, NEW e \in Exec, Crash(e)
  PROVE  Control'
<1>1. TypeOK'
  <2>1. snapshots' \in Seq(Row)
    BY RowTypes DEF Crash, Control, TypeOK, Publishing, ContentBuilt
  <2>2. events' \in [Run -> Seq(Entry)]
    <3>1. pc[e] = "insert_event" => nextSeq[e] # 0 /\ run[e] \in Run
      BY DEF Control, AppendsBound, Appending, NumberCurrent
    <3> QED BY <3>1, EntryTypes DEF Crash, Control, TypeOK
  <2> QED BY <2>1, <2>2, OptionsAssumption DEF Crash, Unlocked, Control, TypeOK, Goto,
       Ended, client
<1>2. ContentBuilt'
  BY DEF Control, Goto, Publishing, client, Crash, ContentBuilt
<1>3. AppendsBound'
  BY DEF Control, Goto, Appending, client, Crash, AppendsBound
<1>4. StartedBare'
  BY DEF Control, Crash, StartedBare
<1>5. AnswerLast'
  BY DEF Control, Goto, Ended, client, Crash, AnswerLast
<1>6. ScopeHeld'
  BY NoneAssumption DEF Control, Goto, Crash, ScopeHeld, Unlocked
<1>7. RunHeld'
  BY NoneAssumption DEF Control, Goto, client, Crash, RunHeld, Unlocked
<1>8. AppendLocked'
  BY DEF Control, TypeOK, Goto, Appending, client, Crash, AppendLocked, Unlocked, AppendsBound
<1>9. NumberCurrent'
  <2>1. \A o \in Exec : o # e => pc'[o] = pc[o]
    BY DEF Crash, Goto, Control
  <2>2. pc'[e] = "dead" /\ UNCHANGED <<run, nextSeq>>
    BY DEF Crash, Goto, Control, TypeOK, client
  <2>3. \A o \in Exec : o # e /\ pc[e] = "insert_event" /\ pc[o] = "insert_event" =>
          run[o] \in Run /\ run[o] # run[e]
    BY DEF Control, AppendLocked, AppendsBound, Appending
  <2>4. UNCHANGED events \/ (pc[e] = "insert_event" /\ events' = WithEvent(e))
    BY DEF Crash
  <2> QED BY <2>1, <2>2, <2>3, <2>4 DEF Control, NumberCurrent, TypeOK, WithEvent
<1> QED BY <1>1, <1>2, <1>3, <1>4, <1>5, <1>6, <1>7, <1>8, <1>9 DEF Control

\* The Platform ends a Run that nobody has locked.
LEMMA EndRunControl ==
  ASSUME Control, NEW r \in Run, EndRun(r)
  PROVE  Control'
<1>1. /\ runStatus' = [runStatus EXCEPT ![r] = "ended"] /\ runLock[r] = Nobody
      /\ UNCHANGED <<pc, client, view, pending, nextSeq, database, locks, events, faults>>
  BY DEF EndRun
<1>2. \A e \in Exec : pc[e] \in {"next_seq", "insert_event"} => run[e] # r
  BY <1>1, NoneAssumption DEF Control, AppendLocked
<1> QED
  BY <1>1, <1>2 DEF Control, TypeOK, ContentBuilt, AppendsBound, StartedBare, AnswerLast,
       ScopeHeld, RunHeld, AppendLocked, NumberCurrent, client, database, locks, Bare

\* A step of an execution.
ExecStep(e) ==
  Start(e) \/ Step(e) \/ Fail(e) \/ CommitUnanswered(e) \/ AppendFails(e) \/ Crash(e)

\* Every step keeps the control of every execution.
LEMMA StepControl == ASSUME Control, NEW e \in Exec, ExecStep(e) PROVE Control'
BY StartControl, LoadInputsControl, PublishOriginalControl, BeginTransactionControl,
     LockScopeControl, FindExistingControl, InsertSnapshotControl, CommitControl,
     AbortTransactionControl, RejectEventControl, LockRunControl, ReadNextSequenceControl,
     InsertEventControl, FailControl, CommitUnansweredControl, AppendFailsControl,
     CrashControl DEF ExecStep, Step

-----------------------------------------------------------------------------
(* Snapshots, originals and receipts.                                       *)

\* A row is added by who saw all rows and none of its content.
Publishes(e) ==
  /\ pc[e] = "commit" /\ Serializable(e)
  /\ snapshots' = Append(snapshots, NewRow(e))

\* What a step of an execution is to the snapshots.
RowMove(e) ==
  /\ UNCHANGED snapshots \/ Publishes(e)
  /\ originals \subseteq originals'
  /\ \A o \in Exec \ {e} : /\ pc'[o] = pc[o] /\ view'[o] = view[o]
                           /\ content'[o] = content[o] /\ answer'[o] = answer[o]
  /\ view'[e] = view[e] \/ view'[e] = snapshots
  /\ pc'[e] = "commit" => /\ Existing(e) = {}
                          /\ view'[e] = view[e] /\ content'[e] = content[e]
  /\ Archive /\ pc'[e] \in Publishing =>
       content'[e] = content[e] /\ (pc[e] \in Publishing \/ content[e] \in originals')
  /\ \/ answer'[e] = answer[e] /\ (content'[e] = content[e] \/ answer[e].status = "none")
     \/ /\ content'[e] = content[e]
        /\ \E i \in Existing(e) : answer'[e].revision = view[e][i].revision
     \/ /\ content'[e] = content[e]
        /\ Publishes(e) /\ answer'[e].revision = NewRow(e).revision

\* Every step is one of these.
LEMMA StepRows == ASSUME Control, NEW e \in Exec, ExecStep(e) PROVE RowMove(e)
<1>1. CASE Start(e)
  BY <1>1 DEF Control, Goto, database, Start, RowMove, FirstStep, Publishing
<1>2. CASE LoadInputs(e)
  BY <1>2 DEF Control, Goto, database, LoadInputs, RowMove, FirstWrite, Publishing,
       AnswerLast, Appending, Ended
<1>3. CASE PublishOriginal(e)
  BY <1>3 DEF Control, Goto, client, PublishOriginal, RowMove
<1>4. CASE BeginTransaction(e)
  BY <1>4 DEF Control, Goto, database, client, BeginTransaction, RowMove, Publishing
<1>5. CASE LockScope(e)
  BY <1>5 DEF Control, Goto, database, client, LockScope, RowMove, Publishing
<1>6. CASE FindExisting(e)
  BY <1>6 DEF Control, Goto, database, FindExisting, RowMove, Answered, Replayed, Publishing
<1>7. CASE InsertSnapshot(e)
  BY <1>7 DEF Control, Goto, database, client, InsertSnapshot, RowMove, Publishing
<1>8. CASE Commit(e)
  BY <1>8 DEF Control, TypeOK, Goto, Commit, RowMove, Answered, Publishes, Publishing
<1>9. CASE AbortTransaction(e)
  BY <1>9 DEF Control, TypeOK, Goto, database, client, AbortTransaction, RowMove, Raise,
       Publishing
<1>10. CASE RejectEvent(e)
  BY <1>10 DEF Control, Goto, database, client, RejectEvent, RowMove, Publishing
<1>11. CASE LockRun(e)
  BY <1>11 DEF Control, TypeOK, Goto, database, client, LockRun, RowMove, Publishing
<1>12. CASE ReadNextSequence(e)
  BY <1>12 DEF Control, Goto, database, client, ReadNextSequence, RowMove, Publishing
<1>13. CASE InsertEvent(e)
  BY <1>13 DEF Control, TypeOK, Goto, database, client, InsertEvent, RowMove, AfterEvent,
       Event, Message, Publishing
<1>14. CASE Fail(e)
  BY <1>14 DEF Control, TypeOK, Goto, database, client, Fail, RowMove, Raise, Publishing
<1>15. CASE CommitUnanswered(e)
  BY <1>15 DEF Control, TypeOK, Goto, client, CommitUnanswered, RowMove, Raise, Publishes,
       Publishing
<1>16. CASE AppendFails(e)
  BY <1>16 DEF Control, TypeOK, Goto, database, client, AppendFails, RowMove, Publishing
<1>17. CASE Crash(e)
  BY <1>17 DEF Control, TypeOK, Goto, client, Crash, RowMove, Publishes, Publishing
<1> QED BY <1>1, <1>2, <1>3, <1>4, <1>5, <1>6, <1>7, <1>8, <1>9, <1>10, <1>11, <1>12, <1>13,
     <1>14, <1>15, <1>16, <1>17 DEF ExecStep, Step

\* What a transaction that may commit adds is the next revision of a new content.
LEMMA NextRow ==
  ASSUME Control, Published, NEW e \in Exec, Publishes(e)
  PROVE  /\ Len(snapshots') = Len(snapshots) + 1
         /\ \A i \in 1 .. Len(snapshots) : /\ snapshots'[i] = snapshots[i]
                                           /\ snapshots[i].content # content[e]
         /\ snapshots'[Len(snapshots) + 1] = NewRow(e)
         /\ NewRow(e) = [content |-> content[e], revision |-> Len(snapshots) + 1]
<1>1. view[e] = snapshots /\ snapshots \in Seq(Row)
  BY DEF Publishes, Serializable, Control, TypeOK
<1>2. NextRevision(snapshots) = Len(snapshots) + 1
  <2>1. CASE snapshots = <<>>
    BY <2>1 DEF NextRevision
  <2>2. CASE snapshots # <<>>
    BY <1>1, <2>2 DEF NextRevision, Published, RevisionsConsecutive
  <2> QED BY <2>1, <2>2
<1>3. NewRow(e) = [content |-> content[e], revision |-> Len(snapshots) + 1]
  BY <1>1, <1>2 DEF NewRow
<1>4. \A i \in 1 .. Len(snapshots) : snapshots[i].content # content[e]
  BY <1>1 DEF Publishes, Published, CommitNew, Existing
<1>5. NewRow(e) \in Row /\ snapshots' = Append(snapshots, NewRow(e))
  BY RowTypes DEF Publishes, Control, ContentBuilt, Publishing
<1> QED BY <1>1, <1>3, <1>4, <1>5

\* A row is never changed or taken back.
LEMMA RowsGrow ==
  ASSUME Control, Published, NEW e \in Exec, RowMove(e)
  PROVE  /\ Len(snapshots) \in Nat /\ Len(snapshots') \in Nat
         /\ Len(snapshots) <= Len(snapshots')
         /\ \A i \in 1 .. Len(snapshots) : snapshots'[i] = snapshots[i]
<1>1. Len(snapshots) \in Nat
  BY DEF Control
<1>2. CASE UNCHANGED snapshots
  BY <1>1, <1>2
<1>3. CASE Publishes(e)
  BY <1>1, <1>3, NextRow
<1> QED BY <1>2, <1>3, <1>1 DEF RowMove

\* A step keeps snapshots, originals and receipts in agreement.
LEMMA StepPublished ==
  ASSUME Control, Published, NEW e \in Exec, RowMove(e)
  PROVE  Published'
<1>1. RevisionsConsecutive'
  <2>1. CASE UNCHANGED snapshots
    BY <2>1 DEF Published, RevisionsConsecutive
  <2>2. CASE Publishes(e)
    BY <2>2, NextRow, RowsGrow DEF Published, RevisionsConsecutive
  <2> QED BY <2>1, <2>2 DEF RowMove
<1>2. ViewCommitted'
  <2> SUFFICES ASSUME NEW o \in Exec
               PROVE  /\ Len(view'[o]) <= Len(snapshots')
                      /\ \A i \in 1 .. Len(view'[o]) : view'[o][i] = snapshots'[i]
    BY DEF ViewCommitted
  <2>1. view'[o] = view[o] \/ view'[o] = snapshots
    BY DEF RowMove
  <2>2. CASE view'[o] = view[o]
    <3>1. Len(view[o]) \in Nat
      BY DEF Control
    <3> QED BY <2>2, <3>1, RowsGrow DEF Published, ViewCommitted
  <2>3. CASE view'[o] = snapshots
    BY <2>3, RowsGrow
  <2> QED BY <2>1, <2>2, <2>3
<1>3. CommitNew'
  <2> SUFFICES ASSUME NEW o \in Exec, pc'[o] = "commit"
               PROVE  Existing(o) = {} /\ view'[o] = view[o] /\ content'[o] = content[o]
    BY DEF CommitNew, Existing
  <2> QED BY DEF RowMove, Published, CommitNew
<1>4. OriginalWritten'
  BY DEF RowMove, Published, OriginalWritten
<1>5. OriginalKept'
  <2>1. CASE UNCHANGED snapshots
    BY <2>1 DEF Published, OriginalKept, RowMove
  <2>2. CASE Publishes(e)
    <3>1. Archive => content[e] \in originals
      BY <2>2 DEF Published, OriginalWritten, Publishes, Publishing
    <3> QED BY <2>2, <3>1, NextRow, RowsGrow DEF Published, OriginalKept, RowMove
  <2> QED BY <2>1, <2>2 DEF RowMove
<1>6. ReceiptNamesSnapshot'
  <2> SUFFICES ASSUME NEW o \in Exec, answer'[o].status # "none"
               PROVE  /\ answer'[o].revision \in 1 .. Len(snapshots')
                      /\ snapshots'[answer'[o].revision].content = content'[o]
    BY DEF ReceiptNamesSnapshot
  <2>1. CASE answer'[o] = answer[o] /\ (content'[o] = content[o] \/ answer[o].status = "none")
    BY <2>1, RowsGrow DEF Published, ReceiptNamesSnapshot
  <2>2. CASE o = e /\ content'[e] = content[e]
                   /\ \E i \in Existing(e) : answer'[e].revision = view[e][i].revision
    <3> PICK i \in Existing(e) : answer'[e].revision = view[e][i].revision
      BY <2>2
    <3>1. Len(view[e]) \in Nat /\ i \in 1 .. Len(view[e]) /\ view[e][i].content = content[e]
      BY DEF Existing, Control
    <3>2. i \in 1 .. Len(snapshots) /\ view[e][i] = snapshots[i] /\ snapshots[i].revision = i
      BY <3>1, RowsGrow DEF Published, ViewCommitted, RevisionsConsecutive
    <3>3. answer'[e].revision = i
      BY <3>2
    <3>4. i \in 1 .. Len(snapshots') /\ snapshots'[i].content = content'[e]
      BY <2>2, <3>1, <3>2, RowsGrow
    <3> QED BY <2>2, <3>3, <3>4
  <2>3. CASE o = e /\ content'[e] = content[e] /\ Publishes(e)
                   /\ answer'[e].revision = NewRow(e).revision
    BY <2>3, NextRow, RowsGrow
  <2> QED BY <2>1, <2>2, <2>3 DEF RowMove
<1> QED BY <1>1, <1>2, <1>3, <1>4, <1>5, <1>6 DEF Published

-----------------------------------------------------------------------------
(* Events.                                                                  *)

\* What a step of an execution is to the events.
EventMove(e) ==
  /\ UNCHANGED events \/ (pc[e] = "insert_event" /\ events' = WithEvent(e))
  /\ \A o \in Exec \ {e} : pc'[o] = pc[o] /\ run'[o] = run[o]
  /\ pc'[e] \in Loading \cup Publishing =>
       \/ run'[e] = NoRun
       \/ run'[e] = run[e] /\ pc[e] \in Loading \cup Publishing
       \/ /\ run'[e] = run[e] /\ pending[e] = Bare("STARTED")
          /\ pc[e] = "insert_event" /\ events' = WithEvent(e)

\* Every step is one of these.
LEMMA StepEvents == ASSUME Control, NEW e \in Exec, ExecStep(e) PROVE EventMove(e)
<1>1. CASE Start(e)
  BY <1>1 DEF Control, TypeOK, Goto, journal, Start, EventMove, Loading, Publishing, FirstStep
<1>2. CASE LoadInputs(e)
  BY <1>2 DEF Control, Goto, journal, LoadInputs, EventMove, Loading
<1>3. CASE PublishOriginal(e)
  BY <1>3 DEF Control, Goto, journal, client, PublishOriginal, EventMove, Loading
<1>4. CASE BeginTransaction(e)
  BY <1>4 DEF Control, Goto, journal, client, BeginTransaction, EventMove, Publishing
<1>5. CASE LockScope(e)
  BY <1>5 DEF Control, Goto, journal, client, LockScope, EventMove, Publishing
<1>6. CASE FindExisting(e)
  BY <1>6 DEF Control, Goto, journal, FindExisting, EventMove, Publishing, Answered
<1>7. CASE InsertSnapshot(e)
  BY <1>7 DEF Control, Goto, journal, client, InsertSnapshot, EventMove, Publishing
<1>8. CASE Commit(e)
  BY <1>8 DEF Control, Goto, journal, Commit, EventMove, Publishing, Answered
<1>9. CASE AbortTransaction(e)
  BY <1>9 DEF Control, Goto, journal, client, AbortTransaction, EventMove, Publishing, Raise
<1>10. CASE RejectEvent(e)
  BY <1>10 DEF Control, Goto, journal, client, RejectEvent, EventMove, Loading, Publishing
<1>11. CASE LockRun(e)
  BY <1>11 DEF Control, TypeOK, Goto, journal, client, LockRun, EventMove, Loading, Publishing
<1>12. CASE ReadNextSequence(e)
  BY <1>12 DEF Control, Goto, journal, client, ReadNextSequence, EventMove, Loading, Publishing
<1>13. CASE InsertEvent(e)
  BY <1>13 DEF Control, TypeOK, Goto, client, InsertEvent, EventMove, Loading, Publishing,
       AfterEvent, Event, Message, StartedBare
<1>14. CASE Fail(e)
  BY <1>14 DEF Control, Goto, journal, client, Fail, EventMove, Raise
<1>15. CASE CommitUnanswered(e)
  BY <1>15 DEF Control, Goto, journal, client, CommitUnanswered, EventMove, Publishing, Raise
<1>16. CASE AppendFails(e)
  BY <1>16 DEF Control, Goto, journal, client, AppendFails, EventMove, Loading, Publishing
<1>17. CASE Crash(e)
  BY <1>17 DEF Control, Goto, client, Crash, EventMove, Loading, Publishing
<1> QED BY <1>1, <1>2, <1>3, <1>4, <1>5, <1>6, <1>7, <1>8, <1>9, <1>10, <1>11, <1>12, <1>13,
     <1>14, <1>15, <1>16, <1>17 DEF ExecStep, Step

\* An event is added behind the others, under the next number, unless it is there.
LEMMA EventAdded ==
  ASSUME Control, NEW e \in Exec, pc[e] = "insert_event", events' = WithEvent(e)
  PROVE  /\ run[e] \in Run
         /\ \A r \in Run \ {run[e]} : events'[r] = events[r]
         /\ \/ events'[run[e]] = events[run[e]] /\ Recorded(run[e], pending[e])
            \/ /\ ~Recorded(run[e], pending[e])
               /\ Len(events'[run[e]]) = Len(events[run[e]]) + 1
               /\ \A i \in 1 .. Len(events[run[e]]) : events'[run[e]][i] = events[run[e]][i]
               /\ events'[run[e]][Len(events[run[e]]) + 1]
                    = [seq |-> Len(events[run[e]]) + 1, event |-> pending[e]]
<1>1. run[e] \in Run /\ nextSeq[e] = Len(events[run[e]]) + 1
  BY DEF Control, AppendsBound, NumberCurrent, Appending
<1>2. events[run[e]] \in Seq(Entry) /\ [seq |-> nextSeq[e], event |-> pending[e]] \in Entry
  <2>1. events[run[e]] \in Seq(Entry) /\ pending[e] \in Event
    BY <1>1 DEF Control, TypeOK
  <2>2. nextSeq[e] \in Nat \ {0}
    BY <1>1, <2>1
  <2> QED BY <2>1, <2>2 DEF Entry
<1>3. CASE Recorded(run[e], pending[e])
  BY <1>1, <1>3 DEF WithEvent
<1>4. CASE ~Recorded(run[e], pending[e])
  <2> DEFINE x == [seq |-> nextSeq[e], event |-> pending[e]]
  <2>1. events' = [events EXCEPT ![run[e]] = Append(events[run[e]], x)]
    BY <1>4 DEF WithEvent
  <2>2. events'[run[e]] = Append(events[run[e]], x) /\ \A r \in Run \ {run[e]} : events'[r] = events[r]
    BY <1>1, <2>1 DEF Control, TypeOK
  <2>3. x = [seq |-> Len(events[run[e]]) + 1, event |-> pending[e]]
    BY <1>1
  <2> HIDE DEF x
  <2> QED BY <1>1, <1>2, <1>4, <2>2, <2>3 DEF x
<1> QED BY <1>3, <1>4

\* A step keeps the numbers of the events, and what was announced.
LEMMA StepJournal ==
  ASSUME Control, Journal, NEW e \in Exec, EventMove(e)
  PROVE  Journal'
<1>1. EventsConsecutive'
  <2>1. CASE UNCHANGED events
    BY <2>1 DEF Journal, EventsConsecutive
  <2>2. CASE pc[e] = "insert_event" /\ events' = WithEvent(e)
    <3>1. \A r \in Run : Len(events[r]) \in Nat
      BY DEF Control
    <3> SUFFICES ASSUME NEW r \in Run, NEW i \in 1 .. Len(events'[r]), NEW j \in 1 .. Len(events'[r])
                 PROVE  /\ events'[r][i].seq = i
                        /\ events'[r][i].event = events'[r][j].event => i = j
      BY DEF EventsConsecutive
    <3>2. CASE events'[r] = events[r]
      BY <3>2 DEF Journal, EventsConsecutive
    <3>3. CASE r = run[e] /\ events'[r] # events[r]
      <4> DEFINE n == Len(events[r])
      <4>1. /\ n \in Nat /\ Len(events'[r]) = n + 1
            /\ \A k \in 1 .. n : events'[r][k] = events[r][k]
            /\ events'[r][n + 1] = [seq |-> n + 1, event |-> pending[e]]
        BY <2>2, <3>1, <3>3, EventAdded
      <4>2. \A k \in 1 .. n : events[r][k].seq = k /\ events[r][k].event # pending[e]
        <5>1. ~Recorded(r, pending[e])
          BY <2>2, <3>3, EventAdded
        <5> QED BY <5>1 DEF Journal, EventsConsecutive, Recorded
      <4>3. \A k, l \in 1 .. n : events[r][k].event = events[r][l].event => k = l
        BY DEF Journal, EventsConsecutive
      <4> HIDE DEF n
      <4>4. (i \in 1 .. n \/ i = n + 1) /\ (j \in 1 .. n \/ j = n + 1)
        BY <4>1
      <4>5. events'[r][i].seq = i
        BY <4>1, <4>2, <4>4
      <4>6. CASE i \in 1 .. n /\ j \in 1 .. n
        BY <4>1, <4>3, <4>5, <4>6
      <4>7. CASE i = n + 1 \/ j = n + 1
        <5>1. \A k \in 1 .. n : events'[r][k].event # pending[e]
          BY <4>1, <4>2
        <5>2. events'[r][n + 1].event = pending[e]
          BY <4>1
        <5> QED BY <4>4, <4>5, <4>7, <5>1, <5>2
      <4> QED BY <4>4, <4>5, <4>6, <4>7
    <3> QED BY <2>2, <3>2, <3>3, EventAdded
  <2> QED BY <2>1, <2>2 DEF EventMove
<1>2. \A r \in Run : \A ev : Recorded(r, ev) => \E i \in 1 .. Len(events'[r]) : events'[r][i].event = ev
  <2>1. CASE UNCHANGED events
    BY <2>1 DEF Recorded
  <2>2. CASE pc[e] = "insert_event" /\ events' = WithEvent(e)
    <3>1. \A r \in Run : Len(events[r]) \in Nat
      BY DEF Control
    <3> SUFFICES ASSUME NEW r \in Run, NEW ev, NEW i \in 1 .. Len(events[r]), events[r][i].event = ev
                 PROVE  i \in 1 .. Len(events'[r]) /\ events'[r][i] = events[r][i]
      BY DEF Recorded
    <3>2. Len(events[r]) \in Nat
      BY <3>1
    <3>3. CASE events'[r] = events[r]
      BY <3>3
    <3>4. CASE events'[r] # events[r]
      <4>1. r = run[e] /\ ~Recorded(r, pending[e])
        BY <2>2, <3>4, EventAdded
      <4>2. /\ Len(events'[r]) = Len(events[r]) + 1
            /\ \A k \in 1 .. Len(events[r]) : events'[r][k] = events[r][k]
        BY <2>2, <3>4, <4>1, EventAdded
      <4> QED BY <3>2, <4>2
    <3> QED BY <3>3, <3>4
  <2> QED BY <2>1, <2>2 DEF EventMove
<1>3. AnnouncedFirst'
  <2> SUFFICES ASSUME NEW o \in Exec, run'[o] # NoRun, pc'[o] \in Loading \cup Publishing
               PROVE  \E i \in 1 .. Len(events'[run'[o]]) : events'[run'[o]][i].event = Bare("STARTED")
    BY DEF AnnouncedFirst, Recorded, Bare
  <2>1. CASE run'[o] = run[o] /\ pc[o] \in Loading \cup Publishing
    <3>1. run[o] \in Run /\ Recorded(run[o], Bare("STARTED"))
      BY <2>1 DEF Journal, AnnouncedFirst, Control, TypeOK
    <3> QED BY <2>1, <3>1, <1>2
  <2>2. CASE /\ o = e /\ run'[e] = run[e] /\ pending[e] = Bare("STARTED")
             /\ pc[e] = "insert_event" /\ events' = WithEvent(e)
    <3>1. run[e] \in Run /\ events[run[e]] \in Seq(Entry)
      BY <2>2, EventAdded DEF Control, TypeOK
    <3>2. Len(events[run[e]]) \in Nat
      BY <3>1
    <3>3. CASE Recorded(run[e], pending[e])
      BY <2>2, <3>1, <3>3, <1>2
    <3>4. CASE ~Recorded(run[e], pending[e])
      <4> DEFINE n == Len(events[run[e]]) + 1
      <4>1. n \in 1 .. Len(events'[run[e]]) /\ events'[run[e]][n].event = pending[e]
        <5>1. /\ Len(events'[run[e]]) = Len(events[run[e]]) + 1
              /\ events'[run[e]][n] = [seq |-> n, event |-> pending[e]]
          BY <2>2, <3>4, EventAdded
        <5> QED BY <3>2, <5>1
      <4> HIDE DEF n
      <4> QED BY <2>2, <4>1
    <3> QED BY <3>3, <3>4
  <2> QED BY <2>1, <2>2 DEF EventMove
<1> QED BY <1>1, <1>3 DEF Journal

-----------------------------------------------------------------------------
(* The theorems.                                                            *)

\* Nobody has done anything at first.
LEMMA InitSound == Init => IInv
BY NoneAssumption, OptionsAssumption, EventTypes DEF Init, IInv, Control, TypeOK,
     ContentBuilt, AppendsBound, StartedBare, AnswerLast, ScopeHeld, RunHeld, AppendLocked,
     NumberCurrent, Published, RevisionsConsecutive, ViewCommitted, CommitNew,
     OriginalWritten, OriginalKept, ReceiptNamesSnapshot, Journal, EventsConsecutive,
     AnnouncedFirst, Publishing, Appending, NoAnswer, Answer, Message, Bare

\* Every step keeps the invariant.
LEMMA StepSound == IInv /\ [Next]_vars => IInv'
<1> SUFFICES ASSUME IInv, [Next]_vars PROVE IInv'
  OBVIOUS
<1>1. ASSUME NEW e \in Exec, ExecStep(e) PROVE IInv'
  BY <1>1, StepControl, StepRows, StepPublished, StepEvents, StepJournal DEF IInv
<1>2. ASSUME NEW r \in Run, EndRun(r) PROVE IInv'
  <2>1. Control'
    BY <1>2, EndRunControl DEF IInv
  <2>2. UNCHANGED <<pc, run, content, view, answer, snapshots, originals, events>>
    BY <1>2 DEF EndRun, client, database
  <2>3. Published'
    BY <2>2 DEF IInv, Published, RevisionsConsecutive, ViewCommitted, CommitNew, Existing,
         OriginalWritten, OriginalKept, ReceiptNamesSnapshot
  <2>4. Journal'
    <3>1. EventsConsecutive'
      BY <2>2 DEF IInv, Journal, EventsConsecutive
    <3>2. AnnouncedFirst'
      BY <2>2 DEF IInv, Journal, AnnouncedFirst, Recorded, Bare
    <3> QED BY <3>1, <3>2 DEF Journal
  <2> QED BY <2>1, <2>3, <2>4 DEF IInv
<1>3. CASE UNCHANGED vars
  <2>1. /\ UNCHANGED <<pc, run, apply, content, answer, view, pending, nextSeq>>
        /\ UNCHANGED <<snapshots, originals, scopeLock, runLock, runStatus, events, faults>>
    BY <1>3 DEF vars, client, database, locks, journal
  <2>2. Control'
    BY <2>1 DEF IInv, Control, TypeOK, ContentBuilt, AppendsBound, StartedBare, AnswerLast,
         ScopeHeld, RunHeld, AppendLocked, NumberCurrent, Bare
  <2>3. Published'
    BY <2>1 DEF IInv, Published, RevisionsConsecutive, ViewCommitted, CommitNew, Existing,
         OriginalWritten, OriginalKept, ReceiptNamesSnapshot
  <2>4. EventsConsecutive'
    BY <2>1 DEF IInv, Journal, EventsConsecutive
  <2>5. AnnouncedFirst'
    BY <2>1 DEF IInv, Journal, AnnouncedFirst, Recorded, Bare
  <2>6. Journal'
    BY <2>4, <2>5 DEF Journal
  <2> QED BY <2>2, <2>3, <2>6 DEF IInv
<1> QED BY <1>1, <1>2, <1>3 DEF Next, ExecStep

\* The invariant holds of every behaviour.
THEOREM Invariance == Spec => []IInv
<1>1. Init => IInv
  BY InitSound
<1>2. IInv /\ [Next]_vars => IInv'
  BY StepSound
<1> QED BY <1>1, <1>2, PTL DEF Spec

\* Snapshots, originals, receipts and events agree, for any number of publishers
\* (PostgresClassificationPublisher.publish, PostgresInventoryRunEventRecorder.append).
THEOREM PublicationsAgree == Spec => []PublicationSound
<1>1. IInv => PublicationSound
  BY DEF IInv, Control, Published, Journal, PublicationSound
<1> QED BY <1>1, Invariance, PTL

\* No execution ends with a lock in its hands, and none waits for one with the other.
THEOREM NobodyKeepsALock == Spec => []LocksReturned
<1>1. IInv => LocksReturned
  BY DEF IInv, Control, LocksReturned, ScopeHeld, RunHeld, Ended
<1> QED BY <1>1, Invariance, PTL

\* The status of the Run an append checked still holds when it inserts.
THEOREM EndedRunsSilent == Spec => NoEventAfterEnd
<1>1. IInv /\ [Next]_vars => [\A r \in Run : runStatus[r] # "running" => events'[r] = events[r]]_vars
  <2> SUFFICES ASSUME IInv, Next, NEW r \in Run, runStatus[r] # "running"
               PROVE  events'[r] = events[r]
    BY DEF Next
  <2>1. ASSUME NEW e \in Exec, ExecStep(e) PROVE events'[r] = events[r]
    <3>1. EventMove(e)
      BY <2>1, StepEvents DEF IInv
    <3>2. pc[e] = "insert_event" => run[e] # r
      BY DEF IInv, Control, AppendLocked
    <3> QED BY <3>1, <3>2, EventAdded DEF EventMove, IInv
  <2>2. ASSUME NEW q \in Run, EndRun(q) PROVE events'[r] = events[r]
    BY <2>2 DEF EndRun
  <2> QED BY <2>1, <2>2 DEF Next, ExecStep
<1> QED BY <1>1, Invariance, PTL DEF Spec, NoEventAfterEnd

-----------------------------------------------------------------------------
(* Induction, in a form whose premise is a set.                             *)

\* A nonempty set of naturals up to a bound has a least element.
LEMMA LeastElement ==
  ASSUME NEW S, S \subseteq Nat, S # {}
  PROVE  \E m \in S : \A k \in S : m <= k
<1> DEFINE T == {0..m : m \in S}
           R == StrictSubsetOrdering(Nat)
<1>1. T \subseteq FiniteSubsetsOf(Nat)
  <2> SUFFICES ASSUME NEW m \in S
               PROVE  0..m \in FiniteSubsetsOf(Nat)
    OBVIOUS
  <2>1. m \in Int /\ 0 \in Int /\ 0..m \subseteq Nat
    OBVIOUS
  <2>2. IsFiniteSet(0..m)
    BY <2>1, FS_Interval
  <2> QED BY <2>1, <2>2 DEF FiniteSubsetsOf
<1>2. T # {}
  OBVIOUS
<1>3. PICK x \in T : \A y \in T : <<y, x>> \notin R
  <2> HIDE DEF T, R
  <2> QED BY <1>1, <1>2, FS_StrictSubsetOrderingWellFounded, WFMin DEF R
<1>4. PICK m \in S : x = 0..m
  OBVIOUS
<1>5. ASSUME NEW k \in S, k < m
      PROVE  FALSE
  <2>1. 0..k \in T /\ 0..k \subseteq 0..m /\ m \notin 0..k /\ m \in 0..m
    BY <1>5
  <2>2. <<0..k, 0..m>> \in R
    BY <2>1 DEF StrictSubsetOrdering
  <2> QED BY <2>1, <2>2, <1>3, <1>4
<1> QED BY <1>5

\* A set of naturals up to a bound that holds zero and is closed under successor
\* holds every number up to the bound.
LEMMA Induction ==
  ASSUME NEW S, 0 \in S, \A n \in Nat : n \in S => n + 1 \in S
  PROVE  Nat \subseteq S
<1> SUFFICES ASSUME Nat \ S # {}
             PROVE  FALSE
  OBVIOUS
<1>1. PICK m \in Nat \ S : \A k \in Nat \ S : m <= k
  BY LeastElement
<1>2. m # 0 /\ m - 1 \in Nat /\ m - 1 \in S /\ m = (m - 1) + 1
  BY <1>1
<1> QED BY <1>2

-----------------------------------------------------------------------------
(* Sums over finite sets.                                                   *)

\* Induction over a finite set, in a form whose premise is a set: what holds of
\* a subset when it holds of those with one element less holds of the set.
LEMMA SubsetInduction ==
  ASSUME NEW U, IsFiniteSet(U), NEW P,
         \A T \in SUBSET U : (\A x \in T : T \ {x} \in P) => T \in P
  PROVE  U \in P
<1> DEFINE R == StrictSubsetOrdering(U)
           Bad == {T \in SUBSET U : T \notin P}
<1> SUFFICES ASSUME U \notin P
             PROVE  FALSE
  OBVIOUS
<1>1. Bad \subseteq FiniteSubsetsOf(U) /\ Bad # {}
  BY FS_FiniteSubsetsOfFinite
<1>2. PICK T \in Bad : \A y \in Bad : <<y, T>> \notin R
  <2> HIDE DEF Bad, R
  <2> QED BY <1>1, FS_StrictSubsetOrderingWellFounded, WFMin DEF R
<1>3. ASSUME NEW x \in T
      PROVE  T \ {x} \in P
  <2>1. <<T \ {x}, T>> \in R
    BY DEF StrictSubsetOrdering
  <2> QED BY <1>2, <2>1
<1> QED BY <1>2, <1>3

\* The sum of f over S.
Total(f, S) == SumFunctionOnSet(f, S)

\* One element of a set.
One(S) == CHOOSE x \in S : TRUE

\* What One takes from a set is in it.
LEMMA OneOf ==
  ASSUME NEW S, S # {}
  PROVE  One(S) \in S
BY DEF One

\* The terms of a sum, taken one by one.
Summing(f, S) ==
  CHOOSE t : t = [s \in SUBSET S |-> IF s = {} THEN 0 ELSE f[One(s)] + t[s \ {One(s)}]]

Sums(t, f, S) ==
  t = [s \in SUBSET S |-> IF s = {} THEN 0 ELSE f[One(s)] + t[s \ {One(s)}]]

\* Total is the library's fold.
LEMMA TotalIsSumming ==
  ASSUME NEW f, NEW S
  PROVE  Total(f, S) = Summing(f, S)[S]
BY DEF Total, SumFunctionOnSet, FoldFunctionOnSet, MapThenFoldSet, Summing, One

\* The recursion over the subsets of a finite set exists.
LEMMA SummingDef ==
  ASSUME NEW f, NEW S, IsFiniteSet(S)
  PROVE  Sums(Summing(f, S), f, S)
<1> DEFINE Layer(n) == {s \in SUBSET S : Cardinality(s) <= n}
           Body(t, s) == IF s = {} THEN 0 ELSE f[One(s)] + t[s \ {One(s)}]
           P == {n \in Nat : \E t : t = [s \in Layer(n) |-> Body(t, s)]}
<1>1. ASSUME NEW s \in SUBSET S
      PROVE  /\ Cardinality(s) \in Nat /\ Cardinality(s) <= Cardinality(S)
             /\ Cardinality(s) = 0 => s = {}
             /\ s # {} => /\ s \ {One(s)} \in SUBSET S
                          /\ Cardinality(s \ {One(s)}) = Cardinality(s) - 1
  <2>1. IsFiniteSet(s) /\ Cardinality(s) <= Cardinality(S)
    BY FS_Subset
  <2>2. s # {} => Cardinality(s \ {One(s)}) = Cardinality(s) - 1
    BY <2>1, FS_RemoveElement, OneOf
  <2> QED BY <2>1, <2>2, FS_CardinalityType, FS_EmptySet
<1>2. 0 \in P
  <2> DEFINE t == [s \in Layer(0) |-> 0]
  <2>1. ASSUME NEW s \in Layer(0)
        PROVE  s = {}
    <3>1. s \in SUBSET S /\ Cardinality(s) <= 0
      OBVIOUS
    <3>2. Cardinality(s) \in Nat /\ (Cardinality(s) = 0 => s = {})
      BY <1>1, <3>1
    <3> HIDE DEF Layer
    <3> QED BY <3>1, <3>2
  <2>2. t = [s \in Layer(0) |-> Body(t, s)]
    BY <2>1
  <2> QED BY <2>2
<1>3. ASSUME NEW n \in Nat, n \in P
      PROVE  n + 1 \in P
  <2>1. PICK t : t = [s \in Layer(n) |-> Body(t, s)]
    BY <1>3
  <2> DEFINE u == [s \in Layer(n + 1) |-> Body(t, s)]
  <2>2. ASSUME NEW s \in Layer(n + 1)
        PROVE  Body(t, s) = Body(u, s)
    <3>1. CASE s = {}
      BY <3>1
    <3>2. CASE s # {}
      <4>1. s \ {One(s)} \in Layer(n) /\ s \ {One(s)} \in Layer(n + 1)
        BY <1>1, <3>2
      <4> DEFINE r == s \ {One(s)}
      <4> HIDE DEF Layer, r
      <4>2. t[r] = Body(t, r) /\ u[r] = Body(t, r)
        <5> HIDE DEF Body
        <5> QED BY <2>1, <4>1 DEF r
      <4>3. t[r] = u[r]
        BY <4>2
      <4> QED BY <3>2, <4>3 DEF r
    <3> QED BY <3>1, <3>2
  <2>3. u = [s \in Layer(n + 1) |-> Body(u, s)]
    <3> HIDE DEF Layer, Body
    <3> QED BY <2>2
  <2> HIDE DEF u, Body, Layer
  <2> QED BY <2>3
<1>4. Cardinality(S) \in P
  <2> HIDE DEF P
  <2> QED BY <1>1, <1>2, <1>3, Induction
<1>5. Layer(Cardinality(S)) = SUBSET S
  BY <1>1
<1>6. \E t : t = [s \in SUBSET S |-> Body(t, s)]
  BY <1>4, <1>5
<1> QED BY <1>6 DEF Sums, Summing

\* The recursion has one solution.
LEMMA SumsUnique ==
  ASSUME NEW f, NEW S, IsFiniteSet(S), NEW t, NEW u, NEW V, IsFiniteSet(V), S \subseteq V,
         Sums(t, f, S), Sums(u, f, V)
  PROVE  t[S] = u[S]
<1> DEFINE P == {T \in SUBSET S : t[T] = u[T]}
<1>1. ASSUME NEW T \in SUBSET S, \A x \in T : T \ {x} \in P
      PROVE  T \in P
  <2>1. /\ t[T] = IF T = {} THEN 0 ELSE f[One(T)] + t[T \ {One(T)}]
        /\ u[T] = IF T = {} THEN 0 ELSE f[One(T)] + u[T \ {One(T)}]
    BY DEF Sums
  <2>2. T # {} => t[T \ {One(T)}] = u[T \ {One(T)}]
    BY <1>1, OneOf
  <2> QED BY <2>1, <2>2
<1>2. S \in P
  <2> HIDE DEF P
  <2> QED BY <1>1, SubsetInduction
<1> QED BY <1>2

\* A sum without terms, and the first term taken off a sum.
LEMMA TotalStep ==
  ASSUME NEW f, NEW S, IsFiniteSet(S)
  PROVE  /\ S = {} => Total(f, S) = 0
         /\ S # {} => Total(f, S) = f[One(S)] + Total(f, S \ {One(S)})
<1> DEFINE t == Summing(f, S)
           r == S \ {One(S)}
           u == Summing(f, r)
<1>1. IsFiniteSet(r) /\ r \subseteq S
  BY FS_Subset
<1>2. Sums(t, f, S) /\ Sums(u, f, r)
  BY <1>1, SummingDef
<1>3. t[S] = IF S = {} THEN 0 ELSE f[One(S)] + t[r]
  <2> HIDE DEF t, u
  <2> QED BY <1>2 DEF Sums
<1>4. u[r] = t[r]
  <2> HIDE DEF t, u, r
  <2> QED BY <1>1, <1>2, SumsUnique
<1> QED BY <1>3, <1>4, TotalIsSumming

\* A sum without terms.
LEMMA TotalEmpty ==
  ASSUME NEW f
  PROVE  Total(f, {}) = 0
<1>1. IsFiniteSet({})
  BY FS_EmptySet
<1> QED BY <1>1, TotalStep

\* A sum of integers is one.
LEMMA TotalInt ==
  ASSUME NEW S, IsFiniteSet(S), NEW f, \A x \in S : f[x] \in Int
  PROVE  Total(f, S) \in Int
<1> DEFINE P == {T \in SUBSET S : Total(f, T) \in Int}
<1>1. ASSUME NEW T \in SUBSET S, \A x \in T : T \ {x} \in P
      PROVE  T \in P
  <2>1. IsFiniteSet(T)
    BY FS_Subset
  <2>2. CASE T = {}
    BY <2>2, TotalEmpty
  <2>3. CASE T # {}
    <3>1. One(T) \in T /\ Total(f, T) = f[One(T)] + Total(f, T \ {One(T)})
      BY <2>1, <2>3, TotalStep, OneOf
    <3> QED BY <1>1, <3>1
  <2> QED BY <2>2, <2>3
<1>2. S \in P
  <2> HIDE DEF P
  <2> QED BY <1>1, SubsetInduction
<1> QED BY <1>2

\* A sum of naturals is one.
LEMMA TotalNat ==
  ASSUME NEW S, IsFiniteSet(S), NEW f, \A x \in S : f[x] \in Nat
  PROVE  Total(f, S) \in Nat
<1> DEFINE P == {T \in SUBSET S : Total(f, T) \in Nat}
<1>1. ASSUME NEW T \in SUBSET S, \A x \in T : T \ {x} \in P
      PROVE  T \in P
  <2>1. IsFiniteSet(T)
    BY FS_Subset
  <2>2. CASE T = {}
    BY <2>2, TotalEmpty
  <2>3. CASE T # {}
    <3>1. One(T) \in T /\ Total(f, T) = f[One(T)] + Total(f, T \ {One(T)})
      BY <2>1, <2>3, TotalStep, OneOf
    <3> QED BY <1>1, <3>1
  <2> QED BY <2>2, <2>3
<1>2. S \in P
  <2> HIDE DEF P
  <2> QED BY <1>1, SubsetInduction
<1> QED BY <1>2

\* Any term may be the first.
LEMMA TotalTake ==
  ASSUME NEW S, IsFiniteSet(S), NEW f, \A x \in S : f[x] \in Int
  PROVE  \A x \in S : Total(f, S) = f[x] + Total(f, S \ {x})
<1> DEFINE Good(T) == \A x \in T : Total(f, T) = f[x] + Total(f, T \ {x})
           P == {T \in SUBSET S : Good(T)}
<1>1. ASSUME NEW T \in SUBSET S, \A x \in T : T \ {x} \in P
      PROVE  T \in P
  <2>1. IsFiniteSet(T)
    BY FS_Subset
  <2> SUFFICES ASSUME NEW x \in T
               PROVE  Total(f, T) = f[x] + Total(f, T \ {x})
    OBVIOUS
  <2> DEFINE c == One(T)
  <2>2. c \in T /\ Total(f, T) = f[c] + Total(f, T \ {c})
    BY <2>1, TotalStep, OneOf
  <2> HIDE DEF c
  <2>3. CASE x = c
    BY <2>2, <2>3
  <2>4. CASE x # c
    <3> DEFINE r == (T \ {x}) \ {c}
    <3>1. x \in T \ {c} /\ c \in T \ {x} /\ (T \ {c}) \ {x} = r
      BY <2>2, <2>4
    <3>2. Good(T \ {x}) /\ Good(T \ {c})
      BY <1>1, <2>2
    <3>3. Total(f, T \ {c}) = f[x] + Total(f, r) /\ Total(f, T \ {x}) = f[c] + Total(f, r)
      BY <3>1, <3>2
    <3>4. Total(f, r) \in Int
      <4>1. r \in SUBSET S
        OBVIOUS
      <4>2. IsFiniteSet(r) /\ \A y \in r : f[y] \in Int
        BY <4>1, FS_Subset
      <4> QED BY <4>2, TotalInt
    <3>5. f[x] \in Int /\ f[c] \in Int
      BY <2>2
    <3> HIDE DEF r
    <3> QED BY <2>2, <3>3, <3>4, <3>5
  <2> QED BY <2>3, <2>4
<1>2. S \in P
  <2> HIDE DEF P
  <2> QED BY <1>1, SubsetInduction
<1> QED BY <1>2

-----------------------------------------------------------------------------
(* What the algorithms return.                                              *)

\* A chain of early returns ends without an outcome only when no condition held.
LEMMA NoneHeld ==
  ASSUME NEW rows, DOMAIN rows \subseteq Nat,
         \A k \in DOMAIN rows : rows[k][2] # None,
         First(rows) = None
  PROVE  \A k \in DOMAIN rows : ~rows[k][1]
<1> DEFINE hits == {k \in DOMAIN rows : rows[k][1]}
<1>1. ASSUME hits # {} PROVE FALSE
  <2>1. \E m \in hits : \A k \in hits : m <= k
    <3>1. hits \subseteq Nat
      OBVIOUS
    <3> HIDE DEF hits
    <3> QED BY <1>1, <3>1, LeastElement
  <2>2. Min(hits) \in hits
    BY <2>1 DEF Min
  <2>3. First(rows) = rows[Min(hits)][2]
    BY <1>1 DEF First
  <2> QED BY <2>2, <2>3
<1> QED BY <1>1

\* Otherwise it ends with the outcome of a condition that held.
LEMMA SomeHeld ==
  ASSUME NEW rows, DOMAIN rows \subseteq Nat, NEW h \in DOMAIN rows, rows[h][1]
  PROVE  \E k \in DOMAIN rows : rows[k][1] /\ First(rows) = rows[k][2] /\ k <= h
<1> DEFINE hits == {k \in DOMAIN rows : rows[k][1]}
<1>0. h \in hits
  OBVIOUS
<1>1. \E m \in hits : \A k \in hits : m <= k
  <2>1. hits \subseteq Nat /\ hits # {}
    OBVIOUS
  <2> HIDE DEF hits
  <2> QED BY <2>1, LeastElement
<1>2. Min(hits) \in hits /\ Min(hits) <= h
  BY <1>0, <1>1 DEF Min
<1>3. First(rows) = rows[Min(hits)][2]
  BY <1>0 DEF First
<1> QED BY <1>2, <1>3

\* When none of three rows holds and every row names something, no guard of them does.
LEMMA First3 ==
  ASSUME NEW a \in BOOLEAN, NEW b \in BOOLEAN, NEW c \in BOOLEAN, NEW x, NEW y, NEW z,
         x # None, y # None, z # None,
         First(<< <<a, x>>, <<b, y>>, <<c, z>> >>) = None
  PROVE  ~a /\ ~b /\ ~c
<1> DEFINE rows == << <<a, x>>, <<b, y>>, <<c, z>> >>
<1>1. DOMAIN rows = 1..3 /\ rows[1] = <<a, x>> /\ rows[2] = <<b, y>> /\ rows[3] = <<c, z>>
  OBVIOUS
<1> HIDE DEF rows
<1>2. \A k \in DOMAIN rows : ~rows[k][1]
  <2>1. DOMAIN rows \subseteq Nat
    BY <1>1
  <2>2. \A k \in DOMAIN rows : rows[k][2] # None
    <3>1. 1..3 = {1, 2, 3}
      OBVIOUS
    <3> QED BY <1>1, <3>1
  <2>3. First(rows) = None
    BY DEF rows
  <2> QED BY <2>1, <2>2, <2>3, NoneHeld
<1> QED BY <1>1, <1>2

\* Of three conditions some outcome is returned when the last one always holds, and
\* the first one's when that one does.
LEMMA FirstDecides ==
  ASSUME NEW a \in BOOLEAN, NEW b \in BOOLEAN, NEW c \in BOOLEAN, NEW x, NEW y, NEW z
  PROVE  /\ c => First(<< <<a, x>>, <<b, y>>, <<c, z>> >>) \in {x, y, z}
         /\ a => First(<< <<a, x>>, <<b, y>>, <<c, z>> >>) = x
<1> DEFINE rows == << <<a, x>>, <<b, y>>, <<c, z>> >>
<1>0. /\ DOMAIN rows = 1..3
      /\ rows[1] = <<a, x>> /\ rows[2] = <<b, y>> /\ rows[3] = <<c, z>>
  OBVIOUS
<1> HIDE DEF rows
<1>1. /\ DOMAIN rows = {1, 2, 3} /\ DOMAIN rows \subseteq Nat
      /\ rows[1] = <<a, x>> /\ rows[2] = <<b, y>> /\ rows[3] = <<c, z>>
  BY <1>0
<1>2. ASSUME c PROVE First(rows) \in {x, y, z}
  <2>1. 3 \in DOMAIN rows /\ rows[3][1]
    BY <1>1, <1>2
  <2>2. \E k \in DOMAIN rows : First(rows) = rows[k][2]
    BY <1>1, <2>1, SomeHeld
  <2> QED BY <1>1, <2>2
<1>3. ASSUME a PROVE First(rows) = x
  <2>1. 1 \in DOMAIN rows /\ rows[1][1]
    BY <1>1, <1>3
  <2>2. PICK k \in DOMAIN rows : rows[k][1] /\ First(rows) = rows[k][2] /\ k <= 1
    BY <1>1, <2>1, SomeHeld
  <2>3. k = 1
    BY <1>1, <2>2
  <2> QED BY <1>1, <2>2, <2>3
<1> QED BY <1>2, <1>3 DEF rows

\* A table with a last row that always holds gives one of its values.
LEMMA FirstSome ==
  ASSUME NEW a \in BOOLEAN, NEW b \in BOOLEAN, NEW x, NEW y, NEW z
  PROVE  First(<< <<a, x>>, <<b, y>>, <<Otherwise, z>> >>) \in {x, y, z}
<1>1. Otherwise \in BOOLEAN /\ Otherwise
  BY DEF Otherwise
<1> QED BY <1>1, FirstDecides

\* A first row that did not decide did not hold.
LEMMA FirstMissed ==
  ASSUME NEW a \in BOOLEAN, NEW b \in BOOLEAN, NEW x, NEW y, NEW z,
         First(<< <<a, x>>, <<b, y>>, <<Otherwise, z>> >>) # x
  PROVE  ~a
<1>1. Otherwise \in BOOLEAN
  BY DEF Otherwise
<1> QED BY <1>1, FirstDecides

\* The same as First3, for two rows.
LEMMA First2 ==
  ASSUME NEW a \in BOOLEAN, NEW b \in BOOLEAN, NEW x, NEW y, x # None, y # None,
         First(<< <<a, x>>, <<b, y>> >>) = None
  PROVE  ~a /\ ~b
<1> DEFINE rows == << <<a, x>>, <<b, y>> >>
<1>0. DOMAIN rows = 1..2 /\ rows[1] = <<a, x>> /\ rows[2] = <<b, y>>
  OBVIOUS
<1>2. First(rows) = None
  OBVIOUS
<1> HIDE DEF rows
<1>1. DOMAIN rows = {1, 2} /\ rows[1] = <<a, x>> /\ rows[2] = <<b, y>>
  BY <1>0
<1>3. \A k \in DOMAIN rows : ~rows[k][1]
  BY <1>1, <1>2, NoneHeld
<1> QED BY <1>1, <1>3

\* The same as First3, for five rows.
LEMMA First5 ==
  ASSUME NEW a \in BOOLEAN, NEW b \in BOOLEAN, NEW c \in BOOLEAN, NEW d \in BOOLEAN,
         NEW e \in BOOLEAN, NEW v, NEW w, NEW x, NEW y, NEW z,
         v # None, w # None, x # None, y # None, z # None,
         First(<< <<a, v>>, <<b, w>>, <<c, x>>, <<d, y>>, <<e, z>> >>) = None
  PROVE  ~a /\ ~b /\ ~c /\ ~d /\ ~e
<1> DEFINE rows == << <<a, v>>, <<b, w>>, <<c, x>>, <<d, y>>, <<e, z>> >>
<1>1. /\ DOMAIN rows = 1..5 /\ First(rows) = None
      /\ rows[1] = <<a, v>> /\ rows[2] = <<b, w>> /\ rows[3] = <<c, x>>
      /\ rows[4] = <<d, y>> /\ rows[5] = <<e, z>>
  OBVIOUS
<1> HIDE DEF rows
<1>2. \A k \in DOMAIN rows : k = 1 \/ k = 2 \/ k = 3 \/ k = 4 \/ k = 5
  BY <1>1
<1>3. DOMAIN rows \subseteq Nat /\ \A k \in DOMAIN rows : rows[k][2] # None
  BY <1>1, <1>2
<1>4. \A k \in DOMAIN rows : ~rows[k][1]
  BY <1>1, <1>3, NoneHeld
<1> QED BY <1>1, <1>4

\* Five rows of which none holds give no value.
LEMMA Held5 ==
  ASSUME NEW a \in BOOLEAN, NEW b \in BOOLEAN, NEW c \in BOOLEAN, NEW d \in BOOLEAN,
         NEW e \in BOOLEAN, NEW v, NEW w, NEW x, NEW y, NEW z, ~a, ~b, ~c, ~d, ~e
  PROVE  First(<< <<a, v>>, <<b, w>>, <<c, x>>, <<d, y>>, <<e, z>> >>) = None
<1> DEFINE rows == << <<a, v>>, <<b, w>>, <<c, x>>, <<d, y>>, <<e, z>> >>
<1>1. /\ DOMAIN rows = 1..5
      /\ rows[1] = <<a, v>> /\ rows[2] = <<b, w>> /\ rows[3] = <<c, x>>
      /\ rows[4] = <<d, y>> /\ rows[5] = <<e, z>>
  OBVIOUS
<1> HIDE DEF rows
<1>2. \A k \in DOMAIN rows : k = 1 \/ k = 2 \/ k = 3 \/ k = 4 \/ k = 5
  BY <1>1
<1>3. {k \in DOMAIN rows : rows[k][1]} = {}
  BY <1>1, <1>2
<1>4. First(rows) = None
  BY <1>3 DEF First
<1> QED BY <1>4 DEF rows

-----------------------------------------------------------------------------
(* What the source loads.                                                   *)

\* The greatest of a finite set of weeks is one of them.
LEMMA GreatestWeek ==
  ASSUME NEW lo \in Int, NEW hi \in Int, NEW S \in SUBSET (lo..hi), S # {}
  PROVE  Max(S) \in S /\ \A x \in S : x <= Max(S)
<1> DEFINE T == {hi - x : x \in S}
<1>1. T \subseteq Nat /\ T # {}
  OBVIOUS
<1>2. PICK m \in T : \A k \in T : m <= k
  <2> HIDE DEF T
  <2> QED BY <1>1, LeastElement
<1>3. PICK x \in S : m = hi - x
  OBVIOUS
<1>4. \A y \in S : x >= y
  <2> TAKE y \in S
  <2>1. m <= hi - y
    BY <1>2
  <2> QED BY <1>3, <2>1
<1> QED BY <1>4 DEF Max

\* The closed rows of an item.
Rows(rows) == rows \subseteq [weeks : SUBSET Nat, qty : Int, price : Int] /\ IsFiniteSet(rows)

\* The rows of an item in a window are a number of rows.
LEMMA CountedRows ==
  ASSUME NEW rows, Rows(rows), NEW over, IsFiniteSet(over)
  PROVE  RowCount(rows, over) \in Nat
<1> DEFINE f == [r \in rows |-> Cardinality(r.weeks \cap over)]
<1>1. \A r \in rows : f[r] \in Nat
  <2> TAKE r \in rows
  <2>1. IsFiniteSet(r.weeks \cap over)
    BY FS_Subset
  <2> QED BY <2>1, FS_CardinalityType
<1>2. RowCount(rows, over) = Total(f, rows)
  BY DEF RowCount, SumFunction, Total
<1> HIDE DEF f
<1> QED BY <1>1, <1>2, TotalNat DEF Rows

\* The demand of a week is an integer.
LEMMA WeekSummed ==
  ASSUME NEW rows, Rows(rows), NEW w
  PROVE  WeekDemand(rows, w) \in Int
<1> DEFINE S == {x \in rows : w \in x.weeks}
           f == [r \in S |-> Given(r.qty)]
<1>1. IsFiniteSet(S)
  BY FS_Subset DEF Rows
<1>2. \A r \in S : f[r] \in Int
  BY DEF Rows, Given
<1>3. WeekDemand(rows, w) = Total(f, S)
  BY DEF WeekDemand, SumFunction, Total
<1> HIDE DEF f, S
<1> QED BY <1>1, <1>2, <1>3, TotalInt

\* Every configuration of the world has passed the validator of its type.
LEMMA ConfigTypes ==
  ASSUME NEW c \in Configs
  PROVE  /\ V1ConfigValid(c) /\ (c.type = "SEVEN_AXIS" => V2ConfigValid(c))
         /\ c.type \in {"ABC_XYZ", "SEVEN_AXIS"}
<1>1. ConfigValid(c)
  BY ConfigsAssumption
<1>2. V2ConfigValid(c) => V1ConfigValid(c)
  BY Zenon DEF V2ConfigValid
<1> QED BY <1>1, <1>2, Zenon DEF ConfigValid

\* The evidence of one item as a number of rows, a sum and a latest week, and what a
\* verified movement says.
Counted(m) ==
  /\ m.abc.invalid \in Nat /\ m.abc.rows \in Nat /\ m.abc.revenue \in Int
  /\ m.xyz.invalid \in Nat /\ m.xyz.rows \in Nat /\ m.xyz.demand \in Int
  /\ m.hml.cost \in Int /\ m.hml.asOf \in Int
MovementCounted(m, sealed) ==
  /\ m.fsn.last \in Int
  /\ m.fsn.status = "VERIFIED" => sealed /\ m.fsn.rows > 0 /\ m.fsn.invalid = 0

\* A window is an interval of weeks.
LEMMA WindowFinite ==
  ASSUME NEW n \in Int, week \in Nat
  PROVE  /\ Window(n) = (week - n + 1)..week /\ IsFiniteSet(Window(n))
         /\ week - n + 1 \in Int /\ week \in Int
<1>1. week - n + 1 \in Int /\ week \in Int
  OBVIOUS
<1>2. IsFiniteSet((week - n + 1)..week)
  BY <1>1, FS_Interval
<1> QED BY <1>1, <1>2 DEF Window

\* The types of what the axes of an item read.
LEMMA EvidenceTypes ==
  ASSUME NEW e, EvidenceSound(e)
  PROVE  /\ Rows(e.demand) /\ e.hml.cost \in Int /\ e.hml.asOf \in Int
         /\ e.plc.profile \in BOOLEAN
<1>1. /\ e.demand \in AxisEvidence.demand /\ e.hml \in AxisEvidence.hml
      /\ e.plc \in AxisEvidence.plc
  BY Zenon DEF EvidenceSound, AxisEvidence
<1>2. Rows(e.demand)
  BY <1>1 DEF AxisEvidence, Rows
<1>3. e.hml.cost \in Int /\ e.hml.asOf \in Int
  BY <1>1 DEF AxisEvidence
<1>4. e.plc.profile \in BOOLEAN
  BY <1>1 DEF AxisEvidence
<1> QED BY <1>2, <1>3, <1>4

\* The rows a parser refuses are rows.
LEMMA RefusedRows ==
  ASSUME NEW rows, Rows(rows)
  PROVE  /\ Rows({r \in rows : Refused(r.qty) \/ Refused(r.price)})
         /\ Rows({r \in rows : Refused(r.qty)})
BY FS_Subset DEF Rows

\* The ABC evidence of an item is counted (_load_metric_inputs).
LEMMA AbcCounted ==
  ASSUME NEW rows, Rows(rows), NEW over, IsFiniteSet(over)
  PROVE  LET a == AbcEvidence(rows, over)
         IN a.invalid \in Nat /\ a.rows \in Nat /\ a.revenue \in Int
<1> DEFINE f == [r \in rows |-> Cardinality(r.weeks \cap over) * Given(r.qty) * Given(r.price)]
<1>1. \A r \in rows : f[r] \in Int
  <2> TAKE r \in rows
  <2>1. IsFiniteSet(r.weeks \cap over)
    BY FS_Subset
  <2>2. Cardinality(r.weeks \cap over) \in Int
    BY <2>1, FS_CardinalityType
  <2>3. Given(r.qty) \in Int /\ Given(r.price) \in Int
    BY DEF Rows, Given
  <2> QED BY <2>2, <2>3
<1>2. SumFunction(f) = Total(f, rows)
  BY DEF SumFunction, Total
<1>3. SumFunction(f) \in Int
  <2> HIDE DEF f
  <2> QED BY <1>1, <1>2, TotalInt DEF Rows
<1>4. RowCount(rows, over) \in Nat
  BY CountedRows
<1>5. RowCount({r \in rows : Refused(r.qty) \/ Refused(r.price)}, over) \in Nat
  BY CountedRows, RefusedRows
<1> QED BY <1>3, <1>4, <1>5 DEF AbcEvidence

\* The XYZ evidence of an item is counted (_load_metric_inputs).
LEMMA XyzCounted ==
  ASSUME NEW rows, Rows(rows), NEW over, IsFiniteSet(over)
  PROVE  LET a == XyzEvidence(rows, over)
         IN a.invalid \in Nat /\ a.rows \in Nat /\ a.demand \in Int
<1> DEFINE S == ObservedWeeks(rows, over)
           f == [w \in S |-> WeekDemand(rows, w)]
<1>1. IsFiniteSet(S)
  BY FS_Subset DEF ObservedWeeks
<1>2. \A w \in S : f[w] \in Int
  BY WeekSummed
<1>3. SumFunction(f) = Total(f, S)
  BY DEF SumFunction, Total
<1>4. SumFunction(f) \in Int
  <2> HIDE DEF f, S
  <2> QED BY <1>1, <1>2, <1>3, TotalInt
<1>5. RowCount(rows, over) \in Nat
  BY CountedRows
<1>6. RowCount({r \in rows : Refused(r.qty)}, over) \in Nat
  BY CountedRows, RefusedRows
<1> QED BY <1>4, <1>5, <1>6 DEF XyzEvidence

\* The FSN evidence of an item is counted, and is verified only of a sealed window
\* with rows that all parse.
LEMMA FsnCounted ==
  ASSUME NEW rows, NEW n \in Int, week \in Nat
  PROVE  LET a == FsnEvidence(rows, Window(n))
         IN /\ a.last \in Int
            /\ a.status = "VERIFIED" => FsnSealed /\ a.rows > 0 /\ a.invalid = 0
<1> DEFINE over == Window(n)
           positive == {w \in ObservedWeeks(rows, over) : WeekDemand(rows, w) > 0}
<1>1. positive # {} => Max(positive) \in Int
  <2>1. positive \in SUBSET ((week - n + 1)..week) /\ week - n + 1 \in Int /\ week \in Int
    BY WindowFinite DEF ObservedWeeks
  <2> HIDE DEF positive
  <2> SUFFICES ASSUME positive # {}
               PROVE  Max(positive) \in Int
    OBVIOUS
  <2>2. Max(positive) \in positive
    BY <2>1, GreatestWeek
  <2>3. positive \subseteq Int
    BY <2>1
  <2> QED BY <2>2, <2>3
<1> DEFINE last == IF positive = {} THEN NoWeek ELSE Max(positive)
<1>2. last \in Int
  BY <1>1 DEF NoWeek
<1>3. FsnEvidence(rows, over).last = last
  BY DEF FsnEvidence
<1>4. /\ FsnEvidence(rows, over).rows = RowCount(rows, over)
      /\ FsnEvidence(rows, over).invalid = RowCount({r \in rows : Refused(r.qty)}, over)
      /\ FsnEvidence(rows, over).status = "VERIFIED" =>
           /\ FsnSealed /\ RowCount(rows, over) > 0
           /\ RowCount({r \in rows : Refused(r.qty)}, over) = 0
  BY DEF FsnEvidence
<1> HIDE DEF last, positive, over
<1>5. /\ FsnEvidence(rows, over).last \in Int
      /\ FsnEvidence(rows, over).status = "VERIFIED" =>
            /\ FsnSealed /\ FsnEvidence(rows, over).rows > 0 /\ FsnEvidence(rows, over).invalid = 0
  BY <1>2, <1>3, <1>4
<1> QED BY <1>5 DEF over

\* What build_snapshot loads of an item is counted.
LEMMA LoadedCounted ==
  ASSUME NEW e, EvidenceSound(e), week \in Nat, config \in Configs
  PROVE  /\ Counted(Loaded(e))
         /\ config.type = "SEVEN_AXIS" => MovementCounted(Loaded(e), FsnSealed)
<1> DEFINE m == Loaded(e)
<1>1. Rows(e.demand) /\ e.hml.cost \in Int /\ e.hml.asOf \in Int
  BY EvidenceTypes
<1>2. config.abc.lookback \in Int /\ config.xyz.lookback \in Int
  <2>1. V1ConfigValid(config)
    BY ConfigTypes
  <2>2. config.abc.lookback \in 13..156 /\ config.xyz.lookback \in 13..156
    BY <2>1, Zenon DEF V1ConfigValid, RulesValid
  <2> QED BY <2>2
<1>3. IsFiniteSet(Window(config.abc.lookback)) /\ IsFiniteSet(Window(config.xyz.lookback))
  BY <1>2, WindowFinite
<1>4. /\ m.abc = AbcEvidence(e.demand, Window(config.abc.lookback))
      /\ m.xyz = XyzEvidence(e.demand, Window(config.xyz.lookback))
      /\ m.fsn = FsnEvidence(e.demand, Window(FsnLookback))
      /\ m.hml = e.hml
  BY DEF Loaded
<1>5. config.type = "SEVEN_AXIS" => FsnLookback \in Int
  <2>1. config.type = "SEVEN_AXIS" => config.fsn.lookback \in Int
    <3>1. config.type = "SEVEN_AXIS" => V2ConfigValid(config)
      BY ConfigTypes
    <3>2. V2ConfigValid(config) => config.fsn.lookback \in 13..156
      BY Zenon DEF V2ConfigValid, FsnRulesValid
    <3> QED BY <3>1, <3>2
  <2>2. Max({config.abc.lookback, config.xyz.lookback}) \in Int
    <3>1. CASE config.abc.lookback >= config.xyz.lookback
      BY <1>2, <3>1 DEF Max
    <3>2. CASE config.abc.lookback < config.xyz.lookback
      BY <1>2, <3>2 DEF Max
    <3> QED BY <1>2, <3>1, <3>2
  <2> QED BY <2>1, <2>2 DEF FsnLookback
<1> HIDE DEF m
<1>6. Counted(m)
  BY <1>1, <1>3, <1>4, AbcCounted, XyzCounted DEF Counted
<1>7. config.type = "SEVEN_AXIS" => MovementCounted(m, FsnSealed)
  BY <1>4, <1>5, FsnCounted DEF MovementCounted
<1> QED BY <1>6, <1>7 DEF m

-----------------------------------------------------------------------------
(* What stands behind an order.                                             *)

\* An item that is classified states its demand.
LEMMA DemandBacks ==
  ASSUME NEW p, NEW c, NEW i, Counted(p[i]), ClassifiedItem(p, c, i).status = "CLASSIFIED"
  PROVE  DemandStated(p[i])
<1> DEFINE m == p[i]
<1>1. AbcReason(m) = None /\ XyzReason(m) = None
  BY DEF ClassifiedItem
<1>2. ~(m.abc.invalid > 0) /\ ~(m.abc.rows = 0) /\ ~(m.abc.revenue <= 0)
  <2>1. First(<< <<m.abc.invalid > 0,  "INVALID_ABC_SOURCE_RECORD">>,
           <<m.abc.rows = 0,     "INSUFFICIENT_ABC_HISTORY">>,
           <<m.abc.revenue <= 0, "MISSING_REVENUE">> >>) = None
    BY <1>1 DEF AbcReason
  <2>2. /\ (m.abc.invalid > 0) \in BOOLEAN /\ (m.abc.rows = 0) \in BOOLEAN
        /\ (m.abc.revenue <= 0) \in BOOLEAN
    OBVIOUS
  <2>3. /\ "INVALID_ABC_SOURCE_RECORD" # None /\ "INSUFFICIENT_ABC_HISTORY" # None
        /\ "MISSING_REVENUE" # None
    BY DEF None
  <2> HIDE DEF m
  <2> QED BY <2>1, <2>2, <2>3, First3, Zenon
<1>3. ~(m.xyz.invalid > 0) /\ ~(m.xyz.rows = 0) /\ ~(m.xyz.demand <= 0)
  <2>1. First(<< <<m.xyz.invalid > 0, "INVALID_XYZ_SOURCE_RECORD">>,
           <<m.xyz.rows = 0,    "INSUFFICIENT_XYZ_HISTORY">>,
           <<m.xyz.demand <= 0, "ZERO_MEAN_DEMAND">> >>) = None
    BY <1>1 DEF XyzReason
  <2>2. /\ (m.xyz.invalid > 0) \in BOOLEAN /\ (m.xyz.rows = 0) \in BOOLEAN
        /\ (m.xyz.demand <= 0) \in BOOLEAN
    OBVIOUS
  <2>3. /\ "INVALID_XYZ_SOURCE_RECORD" # None /\ "INSUFFICIENT_XYZ_HISTORY" # None
        /\ "ZERO_MEAN_DEMAND" # None
    BY DEF None
  <2> HIDE DEF m
  <2> QED BY <2>1, <2>2, <2>3, First3, Zenon
<1>4. Counted(m)
  OBVIOUS
<1> HIDE DEF m
<1>5. DemandStated(m)
  BY <1>2, <1>3, <1>4 DEF DemandStated, Counted
<1> QED BY <1>5 DEF m

\* What an optional axis can be when it is on.
LEMMA GradedWhen ==
  ASSUME NEW rules, NEW reason, NEW class, rules.enabled
  PROVE  /\ Graded(rules, reason, class).mode = rules.mode
         /\ Graded(rules, reason, class).status = "CLASSIFIED" =>
              reason = None /\ Graded(rules, reason, class).class = class
BY DEF Graded, Unverified, Classified, AxisResult

\* What movement says when it is classified; it is not N when the item moved lately.
LEMMA MovementBacks ==
  ASSUME NEW m, NEW rules, NEW sealed, NEW now \in Int, rules.enabled,
         rules.lookback \in Int, rules.nonMoving \in Int, rules.nonMoving <= rules.lookback,
         MovementCounted(m, sealed), ClassifyFsn(m, now, rules).status = "CLASSIFIED"
  PROVE  /\ sealed /\ m.fsn.rows > 0 /\ m.fsn.invalid = 0
         /\ ClassifyFsn(m, now, rules).class \in {"F", "S", "N"}
         /\ ClassifyFsn(m, now, rules).class # "N" => now - m.fsn.last < rules.nonMoving
<1> DEFINE f == m.fsn
           since == IF f.last = NoWeek THEN rules.lookback ELSE now - f.last
           reason == First(<< <<f.status = "SYNTHETIC",  "SYNTHETIC_SOURCE_NOT_OPERATIONAL">>,
                     <<f.status # "VERIFIED" \/ f.rows = 0, "MOVEMENT_EVIDENCE_INCOMPLETE">>,
                     <<f.invalid > 0,           "MOVEMENT_EVIDENCE_INVALID">> >>)
           class == First(<< <<since >= rules.nonMoving, "N">>,
                     <<100 * f.positive >= rules.fast * rules.lookback, "F">>,
                     <<Otherwise, "S">> >>)
<1>1. ClassifyFsn(m, now, rules) = Graded(rules, reason, class)
  BY DEF ClassifyFsn
<1>2. reason = None /\ ClassifyFsn(m, now, rules).class = class
  <2> HIDE DEF reason, class
  <2> QED BY <1>1, GradedWhen
<1>3. f.status = "VERIFIED"
  <2>1. /\ (f.status = "SYNTHETIC") \in BOOLEAN
        /\ (f.status # "VERIFIED" \/ f.rows = 0) \in BOOLEAN /\ (f.invalid > 0) \in BOOLEAN
    OBVIOUS
  <2>2. /\ "SYNTHETIC_SOURCE_NOT_OPERATIONAL" # None /\ "MOVEMENT_EVIDENCE_INCOMPLETE" # None
        /\ "MOVEMENT_EVIDENCE_INVALID" # None
    BY DEF None
  <2>3. ~(f.status # "VERIFIED" \/ f.rows = 0)
    <3> HIDE DEF f
    <3> QED BY <1>2, <2>1, <2>2, First3, Zenon
  <2> QED BY <2>3
<1>4. sealed /\ m.fsn.rows > 0 /\ m.fsn.invalid = 0 /\ f.last \in Int
  BY <1>3 DEF MovementCounted
<1>5. class \in {"F", "S", "N"} /\ (since >= rules.nonMoving => class = "N")
  <2> DEFINE still == since >= rules.nonMoving
             fast  == 100 * f.positive >= rules.fast * rules.lookback
  <2>1. still \in BOOLEAN /\ fast \in BOOLEAN
    OBVIOUS
  <2>2. class = First(<< <<still, "N">>, <<fast, "F">>, <<Otherwise, "S">> >>)
    OBVIOUS
  <2> HIDE DEF still, fast, class
  <2>3. First(<< <<still, "N">>, <<fast, "F">>, <<Otherwise, "S">> >>) \in {"N", "F", "S"}
    BY <2>1, FirstSome
  <2>4. ASSUME First(<< <<still, "N">>, <<fast, "F">>, <<Otherwise, "S">> >>) # "N"
        PROVE  ~still
    BY <2>1, <2>4, FirstMissed
  <2> QED BY <2>2, <2>3, <2>4 DEF still
<1>6. class # "N" => now - f.last < rules.nonMoving
  <2> SUFFICES ASSUME ~(since >= rules.nonMoving)
               PROVE  now - f.last < rules.nonMoving
    <3> HIDE DEF class, since
    <3> QED BY <1>5
  <2>1. CASE f.last = NoWeek
    BY <2>1
  <2>2. CASE f.last # NoWeek
    <3> HIDE DEF f
    <3> QED BY <1>4, <2>2
  <2> QED BY <2>1, <2>2
<1> QED BY <1>2, <1>4, <1>5, <1>6

\* An SDE class rests on complete supply evidence.
LEMMA SupplyBacks ==
  ASSUME NEW m, NEW rules, rules.enabled, ClassifySde(m, rules).status = "CLASSIFIED"
  PROVE  SupplyComplete(m.sde, rules)
<1> DEFINE s == m.sde
           scarce    == \/ s.suppliers <= rules.scarceSuppliers
                        \/ s.lead >= rules.scarceLead
                        \/ s.onTime <= rules.scarceRate
           difficult == s.lead >= rules.difficultLead \/ s.onTime <= rules.difficultRate
           reason == First(<< <<s.status = "SYNTHETIC", "SYNTHETIC_SOURCE_NOT_OPERATIONAL">>,
                              <<~SupplyComplete(s, rules),
                                "SUPPLIER_LEAD_TIME_EVIDENCE_INCOMPLETE">> >>)
           class == First(<< <<scarce, "S">>, <<difficult, "D">>, <<Otherwise, "E">> >>)
           result == Graded(rules, reason, class)
<1>1. result.status = "CLASSIFIED"
  <2>1. ClassifySde(m, rules) = IF result.status = "CLASSIFIED"
                                THEN [result EXCEPT !.days = <<s.p50, s.p90>>] ELSE result
    BY DEF ClassifySde
  <2> HIDE DEF result
  <2> QED BY <2>1
<1>2. reason = None
  <2> HIDE DEF reason, class
  <2> QED BY <1>1, GradedWhen
<1>3. (s.status = "SYNTHETIC") \in BOOLEAN /\ (~SupplyComplete(s, rules)) \in BOOLEAN
  OBVIOUS
<1>4. /\ "SYNTHETIC_SOURCE_NOT_OPERATIONAL" # None
      /\ "SUPPLIER_LEAD_TIME_EVIDENCE_INCOMPLETE" # None
  BY DEF None
<1>5. ~~SupplyComplete(s, rules)
  <2> HIDE DEF s
  <2> QED BY <1>2, <1>3, <1>4, First2, Zenon
<1> QED BY <1>5

\* An HML class rests on a verified positive cost that is not older than the limit.
LEMMA CostBacks ==
  ASSUME NEW m, NEW rules, NEW now \in Int, NEW thresholds, rules.enabled,
         rules.maxAge \in Int, m.hml.asOf \in Int,
         ClassifyHml(m, now, thresholds, rules).status = "CLASSIFIED"
  PROVE  m.hml.status = "VERIFIED" /\ m.hml.cost > 0 /\ now - m.hml.asOf \in 0..rules.maxAge
<1> DEFINE c == m.hml
           synthetic == c.status = "SYNTHETIC"
           missing == c.asOf = NoWeek
           future == CostAge(m, now) < 0
           stale == CostAge(m, now) > rules.maxAge
           incomplete == ~VerifiedCost(m) \/ thresholds = <<>>
           reason ==
             First(<< <<synthetic, "SYNTHETIC_SOURCE_NOT_OPERATIONAL">>,
                 <<missing,   "INVENTORY_UNIT_COST_AS_OF_MISSING">>,
                 <<future,    "INVENTORY_UNIT_COST_FROM_FUTURE">>,
                 <<stale,     "INVENTORY_UNIT_COST_STALE">>,
                 <<incomplete, "INVENTORY_UNIT_COST_EVIDENCE_INCOMPLETE">> >>)
<1>1. \E class : ClassifyHml(m, now, thresholds, rules) = Graded(rules, reason, class)
  BY Zenon DEF ClassifyHml
<1>2. reason = None
  <2> HIDE DEF reason
  <2> QED BY <1>1, GradedWhen
<1>3. /\ synthetic \in BOOLEAN /\ missing \in BOOLEAN /\ future \in BOOLEAN
      /\ stale \in BOOLEAN /\ incomplete \in BOOLEAN
  OBVIOUS
<1>4. /\ "SYNTHETIC_SOURCE_NOT_OPERATIONAL" # None /\ "INVENTORY_UNIT_COST_AS_OF_MISSING" # None
      /\ "INVENTORY_UNIT_COST_FROM_FUTURE" # None /\ "INVENTORY_UNIT_COST_STALE" # None
      /\ "INVENTORY_UNIT_COST_EVIDENCE_INCOMPLETE" # None
  BY DEF None
<1>5. ~future /\ ~stale /\ ~incomplete
  <2> HIDE DEF synthetic, missing, future, stale, incomplete
  <2>1. First(<< <<synthetic, "SYNTHETIC_SOURCE_NOT_OPERATIONAL">>,
                 <<missing,   "INVENTORY_UNIT_COST_AS_OF_MISSING">>,
                 <<future,    "INVENTORY_UNIT_COST_FROM_FUTURE">>,
                 <<stale,     "INVENTORY_UNIT_COST_STALE">>,
                 <<incomplete, "INVENTORY_UNIT_COST_EVIDENCE_INCOMPLETE">> >>) = None
    BY <1>2
  <2> HIDE DEF reason
  <2> QED BY <1>3, <1>4, <2>1, First5
<1> QED BY <1>5 DEF CostAge, VerifiedCost

\* An optional axis is in the mode of its rules, and in the shadow when it is off.
ModeOf(rules) == IF rules.enabled THEN rules.mode ELSE "SHADOW"

\* A grade has the mode of its rules.
LEMMA GradedMode ==
  ASSUME NEW rules, NEW reason, NEW class
  PROVE  Graded(rules, reason, class).mode = ModeOf(rules)
BY DEF Graded, Unverified, Classified, NotApplicable, AxisResult, ModeOf

\* Every optional axis has the mode of its rules.
LEMMA AxisModes ==
  ASSUME NEW m, NEW now, NEW rules, NEW thresholds
  PROVE  /\ ClassifyFsn(m, now, rules).mode = ModeOf(rules)
         /\ ClassifySde(m, rules).mode = ModeOf(rules)
         /\ ClassifyHml(m, now, thresholds, rules).mode = ModeOf(rules)
<1>1. \E reason, class : ClassifyFsn(m, now, rules) = Graded(rules, reason, class)
  BY Zenon DEF ClassifyFsn
<1>2. \E reason, class : ClassifyHml(m, now, thresholds, rules) = Graded(rules, reason, class)
  BY Zenon DEF ClassifyHml
<1>3. \E reason, class, d :
        \/ ClassifySde(m, rules) = Graded(rules, reason, class)
        \/ ClassifySde(m, rules) = [Graded(rules, reason, class) EXCEPT !.days = d]
  BY Zenon DEF ClassifySde
<1>4. ClassifyFsn(m, now, rules).mode = ModeOf(rules)
  BY <1>1, GradedMode
<1>5. ClassifyHml(m, now, thresholds, rules).mode = ModeOf(rules)
  BY <1>2, GradedMode
<1>6. ClassifySde(m, rules).mode = ModeOf(rules)
  <2>1. PICK reason, class, d :
          \/ ClassifySde(m, rules) = Graded(rules, reason, class)
          \/ ClassifySde(m, rules) = [Graded(rules, reason, class) EXCEPT !.days = d]
    BY <1>3
  <2>2. CASE ClassifySde(m, rules) = Graded(rules, reason, class)
    BY <2>2, GradedMode
  <2>3. CASE ClassifySde(m, rules) = [Graded(rules, reason, class) EXCEPT !.days = d]
    BY <2>3 DEF Graded, Unverified, Classified, NotApplicable, AxisResult, ModeOf
  <2> QED BY <2>1, <2>2, <2>3
<1> QED BY <1>4, <1>5, <1>6

\* A policy orders only for a classified item whose operational axes all speak and
\* of which none asks for less than ALLOW.
LEMMA OrderAsks ==
  ASSUME NEW item, NEW axes, NEW c, DeriveV2(item, axes, c).order
  PROVE  /\ item.status = "CLASSIFIED" /\ Operational(axes) \subseteq EffectiveAxes(axes)
         /\ StrictestAction(Projection(axes, c.overlays)) = "ALLOW"
<1> DEFINE projection == Projection(axes, c.overlays)
<1>1. \E strategy : /\ Eligible(item, axes, strategy)
                    /\ StrictestAction(projection) = "ALLOW"
  <2> HIDE DEF projection
  <2> QED BY DEF DeriveV2, projection
<1> QED BY <1>1 DEF Eligible

\* Where the strictest action is ALLOW, no axis blocks or sends to review.
LEMMA MovementAllows ==
  ASSUME NEW axes, NEW overlays, "FSN" \in EffectiveAxes(axes),
         StrictestAction(Projection(axes, overlays)) = "ALLOW"
  PROVE  overlays.fsn[axes["FSN"].class] \notin {"BLOCK", "REVIEW"}
<1> DEFINE projection == Projection(axes, overlays)
<1>1. DOMAIN projection = EffectiveAxes(axes)
  BY DEF Projection
<1>2. projection["FSN"].effect = Effect("FSN", axes["FSN"], overlays)
  BY DEF Projection
<1>3. Effect("FSN", axes["FSN"], overlays) = <<overlays.fsn[axes["FSN"].class]>>
  BY DEF Effect
<1>4. projection["FSN"].effect[1] = overlays.fsn[axes["FSN"].class]
  BY <1>2, <1>3
<1>5. projection["FSN"].effect[1] \notin {"BLOCK", "REVIEW"}
  <2>1. "FSN" \in DOMAIN projection \cap {"FSN", "PLC"}
    BY <1>1
  <2> DEFINE named == {projection[a].effect[1] : a \in DOMAIN projection \cap {"FSN", "PLC"}}
  <2>2. projection["FSN"].effect[1] \in named
    BY <2>1
  <2>3. "BLOCK" \notin named /\ "REVIEW" \notin named
    BY DEF StrictestAction
  <2> QED BY <2>2, <2>3
<1> QED BY <1>4, <1>5

-----------------------------------------------------------------------------
(* The inductive invariant.                                                 *)

\* What the tables hold is evidence, and a configuration of the site is active.
WorldSound ==
  /\ IsFiniteSet(DOMAIN evidence) /\ DOMAIN evidence \subseteq Int
  /\ evidence = [i \in DOMAIN evidence |-> evidence[i]]
  /\ \A i \in DOMAIN evidence : EvidenceSound(evidence[i])
  /\ week \in Nat /\ config \in Configs

AxesOf(s) ==
  IF s.type = "SEVEN_AXIS"
  THEN [i \in DOMAIN s.metrics |-> AxisResults(s.metrics, s.items[i], i, s.asOf, s.config)]
  ELSE <<>>

\* A document is its metrics, classified under its configuration, and the policies
\* that follow.
DocumentSound(s) ==
  /\ s.config \in Configs /\ s.type = s.config.type /\ s.asOf \in Int
  /\ IsFiniteSet(DOMAIN s.metrics) /\ DOMAIN s.metrics \subseteq Int
  /\ Candidates(s.metrics) # {}
  /\ \A i \in DOMAIN s.metrics :
       /\ Counted(s.metrics[i])
       /\ s.type = "SEVEN_AXIS" => MovementCounted(s.metrics[i], s.sealed)
  /\ s.items = [i \in DOMAIN s.metrics |-> ClassifiedItem(s.metrics, s.config, i)]
  /\ s.axes = AxesOf(s)
  /\ s.policies = [i \in DOMAIN s.metrics |->
                     IF s.type = "SEVEN_AXIS" THEN DeriveV2(s.items[i], s.axes[i], s.config)
                     ELSE DeriveV1(s.items[i], s.config)]

\* An order that needs no person is one of the policies, under its own configuration.
AdmissionSound(a, s) ==
  /\ a.item \in DOMAIN s.metrics /\ a.config \in Configs
  /\ a.given.order => /\ s.type = "SEVEN_AXIS" /\ s.policies[a.item].order
                      /\ a.config = s.config

SnapshotSound ==
  /\ WorldSound
  /\ snapshot # Nothing => DocumentSound(snapshot)
  /\ verdict # None => snapshot # Nothing
  /\ admission # Nothing => snapshot # Nothing /\ AdmissionSound(admission, snapshot)

\* An order of a sound document stands on whole demand and on complete evidence of
\* every operational axis.
LEMMA OrderBacked ==
  ASSUME NEW s, DocumentSound(s), NEW i \in DOMAIN s.metrics, s.type = "SEVEN_AXIS",
         s.policies[i].order
  PROVE  /\ DemandStated(s.metrics[i])
         /\ s.config.fsn.mode = "OPERATIONAL" => MovementStated(s, s.metrics[i], s.config)
         /\ s.config.sde.mode = "OPERATIONAL" => SupplyComplete(s.metrics[i].sde, s.config.sde)
         /\ s.config.hml.mode = "OPERATIONAL" => CostStated(s, s.metrics[i], s.config)
<1> DEFINE m == s.metrics[i]
           c == s.config
           item == s.items[i]
           axes == s.axes[i]
<1>1. /\ c \in Configs /\ s.asOf \in Int /\ Counted(m) /\ MovementCounted(m, s.sealed)
      /\ item = ClassifiedItem(s.metrics, c, i)
      /\ axes = AxisResults(s.metrics, item, i, s.asOf, c)
      /\ s.policies[i] = DeriveV2(item, axes, c)
      /\ c.type = "SEVEN_AXIS"
  BY DEF DocumentSound, AxesOf
<1>2. /\ item.status = "CLASSIFIED" /\ Operational(axes) \subseteq EffectiveAxes(axes)
      /\ StrictestAction(Projection(axes, c.overlays)) = "ALLOW"
  <2> HIDE DEF item, axes, c
  <2> QED BY <1>1, OrderAsks
<1>3. DemandStated(m)
  BY <1>1, <1>2, DemandBacks
<1>4. V2ConfigValid(c)
  BY <1>1, ConfigTypes
<1>5. /\ SwitchValid(c.fsn) /\ SwitchValid(c.sde) /\ SwitchValid(c.hml)
      /\ c.fsn.lookback \in 13..156 /\ c.fsn.nonMoving \in 4..c.fsn.lookback
      /\ c.hml.maxAge \in 1..156 /\ OverlaysValid(c.overlays)
  BY <1>4, Zenon DEF V2ConfigValid, FsnRulesValid, SdeRulesValid, HmlRulesValid
<1>6. /\ axes["FSN"] = ClassifyFsn(m, s.asOf, c.fsn) /\ axes["SDE"] = ClassifySde(m, c.sde)
      /\ axes["HML"] = ClassifyHml(m, s.asOf, Thresholds(s.metrics, s.asOf, c.hml), c.hml)
  <2> HIDE DEF c, item, axes
  <2> QED BY <1>1 DEF AxisResults
<1>7. {"FSN", "SDE", "HML"} \subseteq Axes
  <2>1. 4 \in DOMAIN AxisOrder /\ 5 \in DOMAIN AxisOrder /\ 6 \in DOMAIN AxisOrder
    BY DEF AxisOrder
  <2>2. AxisOrder[4] = "FSN" /\ AxisOrder[5] = "SDE" /\ AxisOrder[6] = "HML"
    BY DEF AxisOrder
  <2> QED BY <2>1, <2>2 DEF Axes
<1> HIDE DEF m, c, item, axes
<1>8. ASSUME NEW a \in {"FSN", "SDE", "HML"}, axes[a].mode = "OPERATIONAL"
      PROVE  a \in EffectiveAxes(axes) /\ axes[a].status = "CLASSIFIED"
  <2>1. a \in Operational(axes)
    BY <1>7, <1>8 DEF Operational
  <2> QED BY <1>2, <2>1 DEF EffectiveAxes
<1>9. ASSUME c.fsn.mode = "OPERATIONAL" PROVE MovementStated(s, m, c)
  <2>1. c.fsn.enabled
    BY <1>5, <1>9 DEF SwitchValid
  <2>2. axes["FSN"].mode = "OPERATIONAL"
    BY <1>6, <1>9, <2>1, AxisModes DEF ModeOf
  <2>3. "FSN" \in EffectiveAxes(axes) /\ ClassifyFsn(m, s.asOf, c.fsn).status = "CLASSIFIED"
    BY <1>6, <1>8, <2>2
  <2>4. /\ c.fsn.lookback \in Int /\ c.fsn.nonMoving \in Int
        /\ c.fsn.nonMoving <= c.fsn.lookback
    BY <1>5
  <2>5. /\ s.sealed /\ m.fsn.rows > 0 /\ m.fsn.invalid = 0
        /\ axes["FSN"].class \in {"F", "S", "N"}
        /\ axes["FSN"].class # "N" => s.asOf - m.fsn.last < c.fsn.nonMoving
    BY <1>1, <1>6, <2>1, <2>3, <2>4, MovementBacks
  <2>6. ASSUME c.overlays.fsn["N"] # "ALLOW" PROVE axes["FSN"].class # "N"
    <3>1. c.overlays.fsn["N"] \in {"ALLOW", "REVIEW", "BLOCK"}
      BY <1>5 DEF OverlaysValid, OrderActions, AxisClasses
    <3>2. c.overlays.fsn[axes["FSN"].class] \notin {"BLOCK", "REVIEW"}
      BY <1>2, <2>3, MovementAllows
    <3> QED BY <2>6, <3>1, <3>2
  <2> QED BY <2>5, <2>6 DEF MovementStated
<1>10. ASSUME c.sde.mode = "OPERATIONAL" PROVE SupplyComplete(m.sde, c.sde)
  <2>1. c.sde.enabled
    BY <1>5, <1>10 DEF SwitchValid
  <2>2. axes["SDE"].mode = "OPERATIONAL"
    BY <1>6, <1>10, <2>1, AxisModes DEF ModeOf
  <2>3. ClassifySde(m, c.sde).status = "CLASSIFIED"
    BY <1>6, <1>8, <2>2
  <2> QED BY <2>1, <2>3, SupplyBacks
<1>11. ASSUME c.hml.mode = "OPERATIONAL" PROVE CostStated(s, m, c)
  <2>1. c.hml.enabled
    BY <1>5, <1>11 DEF SwitchValid
  <2>2. axes["HML"].mode = "OPERATIONAL"
    BY <1>6, <1>11, <2>1, AxisModes DEF ModeOf
  <2>3. axes["HML"].status = "CLASSIFIED"
    BY <1>8, <2>2
  <2>4. c.hml.maxAge \in Int /\ m.hml.asOf \in Int
    BY <1>1, <1>5 DEF Counted
  <2> QED BY <1>1, <1>6, <2>1, <2>3, <2>4, CostBacks DEF CostStated
<1> QED BY <1>3, <1>9, <1>10, <1>11 DEF m, c

\* The built document is sound.
LEMMA BuiltSound ==
  ASSUME WorldSound, NEW decided \in BOOLEAN, BuildRefusal(Metrics, config) = None
  PROVE  DocumentSound(SnapshotOf(Metrics, config, decided))
<1> DEFINE p == Metrics
           asOf  == IF decided THEN week + 1 ELSE week
           items == [i \in DOMAIN p |-> ClassifiedItem(p, config, i)]
           axes == [i \in DOMAIN p |-> AxisResults(p, items[i], i, asOf, config)]
           s == DocumentOf(p, config, decided, asOf, items, axes)
<1>1. SnapshotOf(Metrics, config, decided) = s
  BY Zenon DEF SnapshotOf
<1>2. DOMAIN p = DOMAIN evidence /\ \A i \in DOMAIN p : p[i] = Loaded(evidence[i])
  BY DEF Metrics
<1>3. \A i \in DOMAIN p : /\ Counted(p[i])
                          /\ config.type = "SEVEN_AXIS" => MovementCounted(p[i], FsnSealed)
  <2> TAKE i \in DOMAIN p
  <2>1. EvidenceSound(evidence[i]) /\ week \in Nat /\ config \in Configs
    BY <1>2 DEF WorldSound
  <2>2. /\ Counted(Loaded(evidence[i]))
        /\ config.type = "SEVEN_AXIS" => MovementCounted(Loaded(evidence[i]), FsnSealed)
    BY <2>1, LoadedCounted
  <2> HIDE DEF p
  <2> QED BY <1>2, <2>2
<1>4. Candidates(p) # {}
  <2> SUFFICES ASSUME Candidates(p) = {}
               PROVE  FALSE
    OBVIOUS
  <2> DEFINE mixed == config.type = "SEVEN_AXIS" /\ ~MetricsAdmitted(p)
             lineage == config.type = "SEVEN_AXIS" /\ SourceLineage # LineageOf(p, config)
             empty == DOMAIN p = {}
             orphan == ~(DOMAIN config.ved.assigned \subseteq DOMAIN p)
             none == Candidates(p) = {}
  <2>1. /\ mixed \in BOOLEAN /\ lineage \in BOOLEAN /\ empty \in BOOLEAN /\ orphan \in BOOLEAN
        /\ none \in BOOLEAN /\ Otherwise \in BOOLEAN /\ Otherwise
    BY DEF Otherwise
  <2>2. /\ "CLASSIFICATION_V2_AXIS_SOURCE_STATUS_INVALID" # None
        /\ "CLASSIFICATION_ACTUAL_LOOKBACK_LINEAGE_MISMATCH" # None
        /\ "CLASSIFICATION_SOURCE_EMPTY" # None /\ "CLASSIFICATION_VED_ORPHAN_ITEM" # None
        /\ "CLASSIFICATION_REVENUE_EMPTY" # None
    BY DEF None
  <2>3. Refusal(p, config) = First(<< <<empty, "CLASSIFICATION_SOURCE_EMPTY">>,
           <<orphan, "CLASSIFICATION_VED_ORPHAN_ITEM">>, <<none, "CLASSIFICATION_REVENUE_EMPTY">> >>)
    BY Zenon DEF Refusal
  <2>4. BuildRefusal(p, config) =
          First(<< <<mixed, "CLASSIFICATION_V2_AXIS_SOURCE_STATUS_INVALID">>,
                   <<lineage, "CLASSIFICATION_ACTUAL_LOOKBACK_LINEAGE_MISMATCH">>,
                   <<Otherwise, Refusal(p, config)>> >>)
    BY Zenon DEF BuildRefusal
  <2>5. none
    OBVIOUS
  <2> HIDE DEF mixed, lineage, empty, orphan, none, p
  <2>6. Refusal(p, config) # None
    <3> SUFFICES ASSUME Refusal(p, config) = None
                 PROVE  FALSE
      OBVIOUS
    <3>1. ~empty /\ ~orphan /\ ~none
      BY <2>1, <2>2, <2>3, First3
    <3> QED BY <2>5, <3>1
  <2>7. ~mixed /\ ~lineage /\ ~Otherwise
    BY <2>1, <2>2, <2>4, <2>6, First3 DEF p
  <2> QED BY <2>1, <2>7
<1> HIDE DEF p, asOf, items, axes
<1>5. asOf \in Int
  BY DEF asOf, WorldSound
<1>6. /\ s.config = config /\ s.type = config.type /\ s.asOf = asOf /\ s.metrics = p
      /\ s.sealed = FsnSealed /\ s.items = items
      /\ s.axes = IF config.type = "SEVEN_AXIS" THEN axes ELSE <<>>
      /\ s.policies = [i \in DOMAIN p |-> IF config.type = "SEVEN_AXIS"
                                          THEN DeriveV2(items[i], axes[i], config)
                                          ELSE DeriveV1(items[i], config)]
  BY DEF DocumentOf
<1> HIDE DEF s
<1>7. s.axes = AxesOf(s)
  BY <1>6 DEF AxesOf, axes
<1>8. s.items = [i \in DOMAIN s.metrics |-> ClassifiedItem(s.metrics, s.config, i)]
  BY <1>6 DEF items
<1>9. s.policies = [i \in DOMAIN s.metrics |->
                     IF s.type = "SEVEN_AXIS" THEN DeriveV2(s.items[i], s.axes[i], s.config)
                     ELSE DeriveV1(s.items[i], s.config)]
  BY <1>6
<1>10. s.config \in Configs /\ IsFiniteSet(DOMAIN s.metrics) /\ DOMAIN s.metrics \subseteq Int
  BY <1>2, <1>6 DEF WorldSound
<1>11. DocumentSound(s)
  BY <1>3, <1>4, <1>5, <1>6, <1>7, <1>8, <1>9, <1>10 DEF DocumentSound
<1> QED BY <1>1, <1>11

\* Nothing is built, published or admitted at first.
LEMMA InitSnapshot == SnapshotInit => SnapshotSound
<1> SUFFICES ASSUME SnapshotInit PROVE SnapshotSound
  OBVIOUS
<1>1. WorldSound
  <2>1. evidence \in Portfolios /\ config \in Configs /\ week = FirstWeek /\ FirstWeek \in Nat
    BY EvidenceAssumption DEF SnapshotInit
  <2> QED BY <2>1, EvidenceAssumption DEF WorldSound
<1> QED BY <1>1 DEF SnapshotInit, SnapshotSound

\* A change of the world keeps the documents.
LEMMA ChangeKeeps ==
  ASSUME SnapshotSound, Changed, WorldSound'
  PROVE  SnapshotSound'
BY DEF SnapshotSound, Changed

\* Evidence that is revised is evidence.
LEMMA Revised ==
  ASSUME NEW e, EvidenceSound(e), NEW r \in Revisions
  PROVE  EvidenceSound([e EXCEPT ![r.axis] = r.value])
<1> DEFINE n == [e EXCEPT ![r.axis] = r.value]
<1>1. r.axis \in DOMAIN AxisEvidence /\ r.value \in AxisEvidence[r.axis]
  BY EvidenceAssumption
<1>2. DOMAIN e = DOMAIN AxisEvidence /\ \A a \in DOMAIN AxisEvidence : e[a] \in AxisEvidence[a]
  BY Zenon DEF EvidenceSound
<1>3. DOMAIN n = DOMAIN AxisEvidence /\ n = [a \in DOMAIN n |-> n[a]]
  BY <1>2
<1>4. \A a \in DOMAIN AxisEvidence : n[a] \in AxisEvidence[a]
  BY <1>1, <1>2
<1> HIDE DEF n
<1>5. EvidenceSound(n)
  BY <1>3, <1>4, Zenon DEF EvidenceSound
<1> QED BY <1>5 DEF n

\* The world changes only into a world.
LEMMA WorldKeeps ==
  ASSUME WorldSound, \/ Revise \/ Retire \/ Reconfigure \/ CloseWeek \/ Correct \/ Withdraw
  PROVE  WorldSound'
<1>1. CASE Revise
  <2>1. PICK i \in DOMAIN evidence, r \in Revisions :
          evidence' = [evidence EXCEPT ![i] = [@ EXCEPT ![r.axis] = r.value]]
    BY <1>1 DEF Revise
  <2>2. EvidenceSound([evidence[i] EXCEPT ![r.axis] = r.value])
    BY Revised DEF WorldSound
  <2>3. \A j \in DOMAIN evidence' : EvidenceSound(evidence'[j])
    BY <2>1, <2>2 DEF WorldSound
  <2>4. DOMAIN evidence' = DOMAIN evidence /\ evidence' = [j \in DOMAIN evidence' |-> evidence'[j]]
    BY <2>1
  <2>5. week' = week /\ config' = config
    BY <1>1 DEF Revise
  <2> QED BY <2>3, <2>4, <2>5 DEF WorldSound
<1>2. CASE Retire
  <2>1. PICK i \in DOMAIN evidence : evidence' = Restrict(evidence, DOMAIN evidence \ {i})
    BY <1>2 DEF Retire
  <2>2. evidence' = [j \in DOMAIN evidence \ {i} |-> evidence[j]]
    BY <2>1 DEF Restrict
  <2>3. IsFiniteSet(DOMAIN evidence \ {i})
    BY FS_Subset DEF WorldSound
  <2>4. week' = week /\ config' = config
    BY <1>2 DEF Retire
  <2> QED BY <2>2, <2>3, <2>4 DEF WorldSound
<1>3. CASE Reconfigure
  BY <1>3 DEF Reconfigure, WorldSound
<1>4. CASE CloseWeek
  BY <1>4 DEF CloseWeek, WorldSound
<1>5. CASE Correct
  BY <1>5 DEF Correct, WorldSound
<1>6. CASE Withdraw
  BY <1>6 DEF Withdraw, WorldSound
<1> QED BY <1>1, <1>2, <1>3, <1>4, <1>5, <1>6

\* A build leaves a sound document and takes back the verdict and the admission.
LEMMA BuildKeeps ==
  ASSUME SnapshotSound, Build
  PROVE  SnapshotSound'
<1>1. UNCHANGED <<evidence, week, config>> /\ verdict' = None /\ admission' = Nothing
  BY DEF Build, world
<1>2. WorldSound'
  BY <1>1 DEF SnapshotSound, WorldSound
<1>3. ASSUME snapshot' # Nothing PROVE DocumentSound(snapshot)'
  <2>1. PICK decided \in BOOLEAN :
          snapshot' = IF LoadRefusal = None /\ BuildRefusal(Metrics, config) = None
                      THEN SnapshotOf(Metrics, config, decided) ELSE Nothing
    BY Zenon DEF Build
  <2>2. /\ BuildRefusal(Metrics, config) = None
        /\ snapshot' = SnapshotOf(Metrics, config, decided)
    BY <1>3, <2>1
  <2>3. DocumentSound(SnapshotOf(Metrics, config, decided))
    BY <2>2, BuiltSound DEF SnapshotSound
  <2>4. DocumentSound(snapshot')
    BY <2>2, <2>3
  <2> QED BY <2>4 DEF DocumentSound, AxesOf
<1> QED BY <1>1, <1>2, <1>3 DEF SnapshotSound

\* Publishing leaves the document as it is.
LEMMA PublishKeeps ==
  ASSUME SnapshotSound, Publish
  PROVE  SnapshotSound'
<1>1. UNCHANGED <<evidence, week, config, snapshot, admission>> /\ snapshot # Nothing
  BY DEF Publish, world
<1> QED BY <1>1 DEF SnapshotSound, WorldSound, DocumentSound, AxesOf, AdmissionSound

\* An admitted policy was derived under the configuration of the same name.
LEMMA ConfigPinned ==
  ASSUME NEW policy, NEW c, NEW purpose, NEW strategy, NEW approval,
         Rejection(policy, c, purpose, strategy, approval) = None
  PROVE  policy.config = c.name
<1> DEFINE v2 == policy.version = "2.0.0"
           rows == << <<~Valid(policy), "ITEM_POLICY_SEMANTICS_INVALID">>,
       <<policy.config # c.name, "ITEM_POLICY_CONFIG_HASH_MISMATCH">>,
       <<policy.base.strategy = None, "ITEM_POLICY_UNCLASSIFIED">>,
       <<policy.base.strategy # strategy
           /\ ~(v2 /\ purpose = "SHADOW" /\ strategy = "DEEP_RL"),
         "ITEM_POLICY_STRATEGY_MISMATCH">>,
       <<purpose = "OPERATIONAL" /\ ~policy.eligible,
         "ITEM_POLICY_NOT_OPERATIONALLY_ELIGIBLE">>,
       <<purpose = "OPERATIONAL" /\ strategy # "MATHEMATICAL",
         "ITEM_POLICY_OPERATIONAL_STRATEGY_BLOCKED">>,
       <<approval /\ strategy = "MATHEMATICAL", "ITEM_POLICY_UNEXPECTED_MODEL_APPROVAL">>,
       <<~approval /\ strategy # "MATHEMATICAL",
         "ITEM_POLICY_SHADOW_MODEL_APPROVAL_REQUIRED">>,
       <<purpose = "OPERATIONAL" /\ v2 /\ ~policy.calculation,
         "ITEM_POLICY_RECOMMENDATION_CALCULATION_BLOCKED">> >>
<1>1. First(rows) = None
  BY Zenon DEF Rejection
<1>2. DOMAIN rows = 1..9
  OBVIOUS
<1>3. \A k \in 1..9 : rows[k][2] # None
  BY DEF None
<1>4. rows[2][1] = (policy.config # c.name)
  OBVIOUS
<1> HIDE DEF rows
<1>5. ~rows[2][1]
  <2>1. DOMAIN rows \subseteq Nat /\ 2 \in DOMAIN rows
    BY <1>2
  <2> QED BY <1>1, <1>2, <1>3, <2>1, NoneHeld
<1> QED BY <1>4, <1>5

\* A derived policy names its configuration.
LEMMA DerivedConfig ==
  ASSUME NEW item, NEW axes, NEW c
  PROVE  DeriveV2(item, axes, c).config = c.name
BY DEF DeriveV2

\* An admission pins one policy per item under one configuration.
LEMMA AdmitKeeps ==
  ASSUME SnapshotSound, Admit
  PROVE  SnapshotSound'
<1>1. UNCHANGED <<evidence, week, config, snapshot, verdict>> /\ verdict = "PUBLISHED"
  BY DEF Admit, world
<1>2. snapshot # Nothing /\ DocumentSound(snapshot)
  BY <1>1 DEF SnapshotSound, None
<1>3. PICK i \in DOMAIN snapshot.policies, purpose \in {"OPERATIONAL", "SHADOW"},
           strategy \in Strategies, model \in BOOLEAN :
        /\ Rejection(snapshot.policies[i], config, purpose, strategy, model) = None
        /\ admission' = [item |-> i, config |-> config,
                         given |-> Admitted(snapshot.policies[i], purpose, strategy)]
  BY DEF Admit
<1> DEFINE s == snapshot
           policy == s.policies[i]
<1>4. policy.config = config.name
  BY <1>3, ConfigPinned
<1>5. /\ i \in DOMAIN s.metrics /\ config \in Configs
      /\ s.config \in Configs
      /\ s.type = "SEVEN_AXIS" => policy = DeriveV2(s.items[i], s.axes[i], s.config)
      /\ s.type # "SEVEN_AXIS" => policy = DeriveV1(s.items[i], s.config)
  BY <1>2 DEF DocumentSound, SnapshotSound, WorldSound
<1>6. ASSUME admission'.given.order
      PROVE  s.type = "SEVEN_AXIS" /\ policy.order /\ config = s.config
  <2>1. policy.version = "2.0.0" /\ policy.order
    BY <1>3, <1>6 DEF Admitted
  <2> HIDE DEF policy, s
  <2>2. s.type = "SEVEN_AXIS"
    BY <1>5, <2>1 DEF DeriveV1
  <2>3. policy.config = s.config.name
    BY <1>5, <2>2, DerivedConfig
  <2> QED BY <1>4, <1>5, <2>1, <2>2, <2>3, ConfigsAssumption
<1>7. admission'.item = i /\ admission'.config = config
  BY <1>3
<1>8. AdmissionSound(admission', snapshot)
  BY <1>5, <1>6, <1>7 DEF AdmissionSound
<1>9. WorldSound' /\ DocumentSound(snapshot)'
  BY <1>1, <1>2 DEF SnapshotSound, WorldSound, DocumentSound, AxesOf
<1>10. AdmissionSound(admission, snapshot)'
  BY <1>1, <1>8 DEF AdmissionSound
<1> QED BY <1>1, <1>2, <1>9, <1>10 DEF SnapshotSound

\* Every step keeps the invariant.
LEMMA StepSnapshot == SnapshotSound /\ [SnapshotNext]_snapshotVars => SnapshotSound'
<1> SUFFICES ASSUME SnapshotSound, [SnapshotNext]_snapshotVars PROVE SnapshotSound'
  OBVIOUS
<1>1. CASE Revise \/ Retire \/ Reconfigure \/ CloseWeek \/ Correct \/ Withdraw
  <2>1. WorldSound'
    BY <1>1, WorldKeeps DEF SnapshotSound
  <2>2. Changed
    BY <1>1 DEF Revise, Retire, Reconfigure, CloseWeek, Correct, Withdraw
  <2> QED BY <2>1, <2>2, ChangeKeeps
<1>2. CASE Build
  BY <1>2, BuildKeeps
<1>3. CASE Publish
  BY <1>3, PublishKeeps
<1>4. CASE Admit
  BY <1>4, AdmitKeeps
<1>5. CASE UNCHANGED snapshotVars
  BY <1>5 DEF SnapshotSound, WorldSound, DocumentSound, AxesOf, AdmissionSound, snapshotVars, world
<1> QED BY <1>1, <1>2, <1>3, <1>4, <1>5 DEF SnapshotNext

\* The invariant holds of every behaviour.
THEOREM SnapshotsSound == SnapshotSpec => []SnapshotSound
<1>1. SnapshotInit => SnapshotSound
  BY InitSnapshot
<1>2. SnapshotSound /\ [SnapshotNext]_snapshotVars => SnapshotSound'
  BY StepSnapshot
<1> QED BY <1>1, <1>2, PTL DEF SnapshotSpec

\* An order without a person stands on whole demand and on verified, complete and
\* recent evidence of every axis that the run's configuration makes operational
\* (build_snapshot to admit_effective_policy).
THEOREM OrdersAreCertain == SnapshotSpec => []NoOrderOnDoubt
<1>1. SnapshotSound => NoOrderOnDoubt
  <2> SUFFICES ASSUME SnapshotSound, admission # Nothing, admission.given.order
               PROVE  LET m == snapshot.metrics[admission.item]
                          c == admission.config
                      IN /\ DemandStated(m)
                         /\ c.fsn.mode = "OPERATIONAL" => MovementStated(snapshot, m, c)
                         /\ c.sde.mode = "OPERATIONAL" => SupplyComplete(m.sde, c.sde)
                         /\ c.hml.mode = "OPERATIONAL" => CostStated(snapshot, m, c)
    BY DEF NoOrderOnDoubt
  <2>1. DocumentSound(snapshot) /\ AdmissionSound(admission, snapshot)
    BY DEF SnapshotSound
  <2>2. /\ admission.item \in DOMAIN snapshot.metrics /\ snapshot.type = "SEVEN_AXIS"
        /\ snapshot.policies[admission.item].order /\ admission.config = snapshot.config
    BY <2>1 DEF AdmissionSound
  <2> QED BY <2>1, <2>2, OrderBacked
<1> QED BY <1>1, SnapshotsSound, PTL

-----------------------------------------------------------------------------
(* What moves a policy.                                                     *)

Part(on, x) == IF on THEN <<x>> ELSE <<>>

DemandOf(s)   == [i \in DOMAIN s.metrics |-> <<s.metrics[i].abc, s.metrics[i].xyz>>]
EvidenceOf(s) ==
  [i \in DOMAIN s.metrics |->
    <<Part(s.config.fsn.mode = "OPERATIONAL", s.metrics[i].fsn),
      Part(s.config.sde.mode = "OPERATIONAL", s.metrics[i].sde),
      Part(s.config.hml.mode = "OPERATIONAL", s.metrics[i].hml)>>]
RulesOf(s) ==
  <<s.config.abc, s.config.xyz, s.config.ved, s.config.cells, s.config.floor,
    Part(s.config.fsn.mode = "OPERATIONAL", <<s.config.fsn, s.config.overlays.fsn>>),
    Part(s.config.sde.mode = "OPERATIONAL", <<s.config.sde, s.config.overlays.sde>>),
    Part(s.config.hml.mode = "OPERATIONAL", <<s.config.hml, s.config.overlays.hml>>)>>
DateOf(s) ==
  IF s.config.fsn.mode = "OPERATIONAL" \/ s.config.hml.mode = "OPERATIONAL"
  THEN <<s.asOf>> ELSE <<>>

\* The four parts of the operational inputs, by name.
LEMMA InputParts ==
  ASSUME NEW s
  PROVE  OperationalInputs(s) = [demand |-> DemandOf(s), axes |-> EvidenceOf(s),
                                 rules |-> RulesOf(s), asOf |-> DateOf(s)]
BY Zenon DEF OperationalInputs, DemandOf, EvidenceOf, RulesOf, DateOf, Part

\* What two documents share whose operational inputs are the same.
SameBase(s, t) ==
  /\ DOMAIN s.metrics = DOMAIN t.metrics
  /\ \A i \in DOMAIN s.metrics : /\ s.metrics[i].abc = t.metrics[i].abc
                                 /\ s.metrics[i].xyz = t.metrics[i].xyz
  /\ s.config.abc = t.config.abc /\ s.config.xyz = t.config.xyz
  /\ s.config.ved = t.config.ved /\ s.config.cells = t.config.cells
  /\ s.config.floor = t.config.floor
SameMovement(s, t) ==
  /\ (s.config.fsn.mode = "OPERATIONAL") <=> (t.config.fsn.mode = "OPERATIONAL")
  /\ s.config.fsn.mode = "OPERATIONAL" =>
       /\ s.config.fsn = t.config.fsn /\ s.config.overlays.fsn = t.config.overlays.fsn
       /\ s.asOf = t.asOf
       /\ \A i \in DOMAIN s.metrics : s.metrics[i].fsn = t.metrics[i].fsn
SameSupply(s, t) ==
  /\ (s.config.sde.mode = "OPERATIONAL") <=> (t.config.sde.mode = "OPERATIONAL")
  /\ s.config.sde.mode = "OPERATIONAL" =>
       /\ s.config.sde = t.config.sde /\ s.config.overlays.sde = t.config.overlays.sde
       /\ \A i \in DOMAIN s.metrics : s.metrics[i].sde = t.metrics[i].sde
SameCost(s, t) ==
  /\ (s.config.hml.mode = "OPERATIONAL") <=> (t.config.hml.mode = "OPERATIONAL")
  /\ s.config.hml.mode = "OPERATIONAL" =>
       /\ s.config.hml = t.config.hml /\ s.config.overlays.hml = t.config.overlays.hml
       /\ s.asOf = t.asOf
       /\ \A i \in DOMAIN s.metrics : s.metrics[i].hml = t.metrics[i].hml

\* Documents with the same operational inputs share what each axis reads of them.
LEMMA SameInputs ==
  ASSUME NEW s, NEW t, OperationalInputs(s) = OperationalInputs(t)
  PROVE  SameBase(s, t) /\ SameMovement(s, t) /\ SameSupply(s, t) /\ SameCost(s, t)
<1>1. /\ DemandOf(s) = DemandOf(t) /\ EvidenceOf(s) = EvidenceOf(t)
      /\ RulesOf(s) = RulesOf(t) /\ DateOf(s) = DateOf(t)
  BY InputParts
<1>2. /\ DOMAIN s.metrics = DOMAIN t.metrics
      /\ \A i \in DOMAIN s.metrics : /\ s.metrics[i].abc = t.metrics[i].abc
                                     /\ s.metrics[i].xyz = t.metrics[i].xyz
  <2>1. DOMAIN DemandOf(s) = DOMAIN s.metrics /\ DOMAIN DemandOf(t) = DOMAIN t.metrics
    BY DEF DemandOf
  <2>2. DOMAIN s.metrics = DOMAIN t.metrics
    BY <1>1, <2>1
  <2>3. ASSUME NEW i \in DOMAIN s.metrics
        PROVE  /\ s.metrics[i].abc = t.metrics[i].abc
               /\ s.metrics[i].xyz = t.metrics[i].xyz
    <3>1. DemandOf(s)[i] = <<s.metrics[i].abc, s.metrics[i].xyz>>
      BY DEF DemandOf
    <3>2. DemandOf(t)[i] = <<t.metrics[i].abc, t.metrics[i].xyz>>
      BY <2>2 DEF DemandOf
    <3> QED BY <1>1, <3>1, <3>2
  <2> QED BY <2>2, <2>3
<1>3. /\ s.config.abc = t.config.abc /\ s.config.xyz = t.config.xyz
      /\ s.config.ved = t.config.ved /\ s.config.cells = t.config.cells
      /\ s.config.floor = t.config.floor
      /\ Part(s.config.fsn.mode = "OPERATIONAL", <<s.config.fsn, s.config.overlays.fsn>>)
           = Part(t.config.fsn.mode = "OPERATIONAL", <<t.config.fsn, t.config.overlays.fsn>>)
      /\ Part(s.config.sde.mode = "OPERATIONAL", <<s.config.sde, s.config.overlays.sde>>)
           = Part(t.config.sde.mode = "OPERATIONAL", <<t.config.sde, t.config.overlays.sde>>)
      /\ Part(s.config.hml.mode = "OPERATIONAL", <<s.config.hml, s.config.overlays.hml>>)
           = Part(t.config.hml.mode = "OPERATIONAL", <<t.config.hml, t.config.overlays.hml>>)
  BY <1>1 DEF RulesOf
<1>4. ASSUME NEW i \in DOMAIN s.metrics
      PROVE  /\ Part(s.config.fsn.mode = "OPERATIONAL", s.metrics[i].fsn)
                  = Part(t.config.fsn.mode = "OPERATIONAL", t.metrics[i].fsn)
             /\ Part(s.config.sde.mode = "OPERATIONAL", s.metrics[i].sde)
                  = Part(t.config.sde.mode = "OPERATIONAL", t.metrics[i].sde)
             /\ Part(s.config.hml.mode = "OPERATIONAL", s.metrics[i].hml)
                  = Part(t.config.hml.mode = "OPERATIONAL", t.metrics[i].hml)
  <2>1. EvidenceOf(s)[i] = <<Part(s.config.fsn.mode = "OPERATIONAL", s.metrics[i].fsn),
                             Part(s.config.sde.mode = "OPERATIONAL", s.metrics[i].sde),
                             Part(s.config.hml.mode = "OPERATIONAL", s.metrics[i].hml)>>
    BY DEF EvidenceOf
  <2>2. EvidenceOf(t)[i] = <<Part(t.config.fsn.mode = "OPERATIONAL", t.metrics[i].fsn),
                             Part(t.config.sde.mode = "OPERATIONAL", t.metrics[i].sde),
                             Part(t.config.hml.mode = "OPERATIONAL", t.metrics[i].hml)>>
    BY <1>2 DEF EvidenceOf
  <2> QED BY <1>1, <2>1, <2>2
<1>5. /\ (s.config.fsn.mode = "OPERATIONAL") <=> (t.config.fsn.mode = "OPERATIONAL")
      /\ s.config.fsn.mode = "OPERATIONAL" =>
           /\ s.config.fsn = t.config.fsn /\ s.config.overlays.fsn = t.config.overlays.fsn
           /\ \A i \in DOMAIN s.metrics : s.metrics[i].fsn = t.metrics[i].fsn
  BY <1>3, <1>4 DEF Part
<1>6. /\ (s.config.sde.mode = "OPERATIONAL") <=> (t.config.sde.mode = "OPERATIONAL")
      /\ s.config.sde.mode = "OPERATIONAL" =>
           /\ s.config.sde = t.config.sde /\ s.config.overlays.sde = t.config.overlays.sde
           /\ \A i \in DOMAIN s.metrics : s.metrics[i].sde = t.metrics[i].sde
  BY <1>3, <1>4 DEF Part
<1>7. /\ (s.config.hml.mode = "OPERATIONAL") <=> (t.config.hml.mode = "OPERATIONAL")
      /\ s.config.hml.mode = "OPERATIONAL" =>
           /\ s.config.hml = t.config.hml /\ s.config.overlays.hml = t.config.overlays.hml
           /\ \A i \in DOMAIN s.metrics : s.metrics[i].hml = t.metrics[i].hml
  BY <1>3, <1>4 DEF Part
<1>8. s.config.fsn.mode = "OPERATIONAL" \/ s.config.hml.mode = "OPERATIONAL" => s.asOf = t.asOf
  BY <1>1, <1>5, <1>7 DEF DateOf
<1> QED BY <1>2, <1>3, <1>5, <1>6, <1>7, <1>8 DEF SameBase, SameMovement, SameSupply, SameCost

\* The revenue of a set of items depends on their ABC evidence alone.
LEMMA SameRevenue ==
  ASSUME NEW p, NEW q, NEW S, \A i \in S : p[i].abc = q[i].abc
  PROVE  Revenue(p, S) = Revenue(q, S)
<1>1. [i \in S |-> p[i].abc.revenue] = [i \in S |-> q[i].abc.revenue]
  OBVIOUS
<1> QED BY <1>1, Zenon DEF Revenue

\* Portfolios with the same revenue have the same ABC classes.
LEMMA SameClasses ==
  ASSUME NEW p, NEW q, DOMAIN p = DOMAIN q, \A i \in DOMAIN p : p[i].abc = q[i].abc
  PROVE  /\ Candidates(p) = Candidates(q)
         /\ \A rules : \A i \in DOMAIN p : AbcClass(p, rules, i) = AbcClass(q, rules, i)
<1>1. \A i \in DOMAIN p : AbcReason(p[i]) = AbcReason(q[i])
  BY DEF AbcReason
<1>2. Candidates(p) = Candidates(q)
  BY <1>1 DEF Candidates
<1>3. ASSUME NEW i \in DOMAIN p
      PROVE  RankedBefore(p, i) = RankedBefore(q, i)
  <2>1. \A j \in Candidates(p) : p[j].abc = q[j].abc
    BY DEF Candidates
  <2> QED BY <1>2, <2>1 DEF RankedBefore
<1>4. ASSUME NEW rules, NEW i \in DOMAIN p
      PROVE  AbcClass(p, rules, i) = AbcClass(q, rules, i)
  <2>1. Revenue(p, Candidates(p)) = Revenue(q, Candidates(q))
    <3>1. \A j \in Candidates(p) : p[j].abc = q[j].abc
      BY DEF Candidates
    <3> QED BY <1>2, <3>1, SameRevenue
  <2>2. Revenue(p, RankedBefore(p, i)) = Revenue(q, RankedBefore(q, i))
    <3>1. \A j \in RankedBefore(p, i) : p[j].abc = q[j].abc
      BY DEF RankedBefore, Candidates
    <3>2. Revenue(p, RankedBefore(p, i)) = Revenue(q, RankedBefore(p, i))
      BY <3>1, SameRevenue
    <3> QED BY <1>3, <3>2
  <2> QED BY <2>1, <2>2, Zenon DEF AbcClass
<1> QED BY <1>2, <1>4

\* The classification of an item depends on the base inputs alone.
LEMMA SameItem ==
  ASSUME NEW s, NEW t, SameBase(s, t), NEW i \in DOMAIN s.metrics
  PROVE  ClassifiedItem(s.metrics, s.config, i) = ClassifiedItem(t.metrics, t.config, i)
<1> DEFINE p == s.metrics
           q == t.metrics
           c == s.config
           d == t.config
<1>1. /\ DOMAIN p = DOMAIN q /\ \A j \in DOMAIN p : p[j].abc = q[j].abc
      /\ p[i].abc = q[i].abc /\ p[i].xyz = q[i].xyz
      /\ c.abc = d.abc /\ c.xyz = d.xyz /\ c.ved = d.ved
  BY DEF SameBase
<1> HIDE DEF p, q, c, d
<1>2. AbcReason(p[i]) = AbcReason(q[i]) /\ XyzReason(p[i]) = XyzReason(q[i])
  BY <1>1 DEF AbcReason, XyzReason
<1>3. AbcClass(p, c.abc, i) = AbcClass(q, d.abc, i)
  <2>1. i \in DOMAIN p
    BY DEF p
  <2>2. AbcClass(p, c.abc, i) = AbcClass(q, c.abc, i)
    BY <1>1, <2>1, SameClasses
  <2> QED BY <1>1, <2>2
<1>4. XyzClass(p[i], c.xyz) = XyzClass(q[i], d.xyz)
  BY <1>1, Zenon DEF XyzClass
<1>5. VedResult(c.ved, i) = VedResult(d.ved, i) /\ p[i].abc.revenue = q[i].abc.revenue
  BY <1>1
<1>6. ClassifiedItem(p, c, i) = ClassifiedItem(q, d, i)
  BY <1>2, <1>3, <1>4, <1>5, Zenon DEF ClassifiedItem
<1> QED BY <1>6 DEF p, q, c, d

\* The mode of the lifecycle is the one of its rules, or the shadow.
LEMMA PlcMode ==
  ASSUME NEW m, NEW now, NEW rules, rules.mode = "SHADOW"
  PROVE  ClassifyPlc(m, now, rules).mode = "SHADOW"
<1>1. \E reason, stage :
        \/ ClassifyPlc(m, now, rules) = Graded(rules, reason, stage)
        \/ ClassifyPlc(m, now, rules)
             = AxisResult("SYNTHETIC", stage, rules.mode, "SYNTHETIC_SOURCE_SHADOW_ONLY")
  BY Zenon DEF ClassifyPlc
<1>2. PICK reason, stage :
        \/ ClassifyPlc(m, now, rules) = Graded(rules, reason, stage)
        \/ ClassifyPlc(m, now, rules)
             = AxisResult("SYNTHETIC", stage, rules.mode, "SYNTHETIC_SOURCE_SHADOW_ONLY")
  BY <1>1
<1>3. Graded(rules, reason, stage).mode = "SHADOW"
  BY GradedMode DEF ModeOf
<1>4. AxisResult("SYNTHETIC", stage, rules.mode, "SYNTHETIC_SOURCE_SHADOW_ONLY").mode = "SHADOW"
  BY DEF AxisResult
<1> QED BY <1>2, <1>3, <1>4

\* The axes of an item agree where they are operational.
AxesAgree(x, y) ==
  \A a \in Axes : /\ (x[a].mode = "OPERATIONAL") <=> (y[a].mode = "OPERATIONAL")
                  /\ x[a].mode = "OPERATIONAL" => x[a] = y[a]

\* An operational FSN grade depends on the movement inputs alone.
LEMMA SameFsn ==
  ASSUME NEW s, NEW t, SameMovement(s, t), NEW i \in DOMAIN s.metrics
  PROVE  LET x == ClassifyFsn(s.metrics[i], s.asOf, s.config.fsn)
             y == ClassifyFsn(t.metrics[i], t.asOf, t.config.fsn)
         IN /\ (x.mode = "OPERATIONAL") <=> (y.mode = "OPERATIONAL")
            /\ x.mode = "OPERATIONAL" => x = y /\ s.config.overlays.fsn = t.config.overlays.fsn
<1> DEFINE x == ClassifyFsn(s.metrics[i], s.asOf, s.config.fsn)
           y == ClassifyFsn(t.metrics[i], t.asOf, t.config.fsn)
<1>1. CASE s.config.fsn.mode = "OPERATIONAL"
  <2>1. /\ s.config.fsn = t.config.fsn /\ s.config.overlays.fsn = t.config.overlays.fsn
        /\ s.asOf = t.asOf /\ s.metrics[i].fsn = t.metrics[i].fsn
    BY <1>1 DEF SameMovement
  <2>2. x = y
    BY <2>1, Zenon DEF ClassifyFsn
  <2> HIDE DEF x, y
  <2>3. /\ (x.mode = "OPERATIONAL") <=> (y.mode = "OPERATIONAL")
        /\ x.mode = "OPERATIONAL" => x = y /\ s.config.overlays.fsn = t.config.overlays.fsn
    BY <2>1, <2>2
  <2> QED BY <2>3 DEF x, y
<1>2. CASE s.config.fsn.mode # "OPERATIONAL"
  <2>1. t.config.fsn.mode # "OPERATIONAL"
    BY <1>2 DEF SameMovement
  <2>2. x.mode = ModeOf(s.config.fsn) /\ y.mode = ModeOf(t.config.fsn)
    BY AxisModes
  <2> HIDE DEF x, y
  <2>3. x.mode # "OPERATIONAL" /\ y.mode # "OPERATIONAL"
    BY <1>2, <2>1, <2>2 DEF ModeOf
  <2> QED BY <2>3 DEF x, y
<1> QED BY <1>1, <1>2

\* The SDE grade from the supply evidence and the rules alone.
SdeFrom(evidenceOfItem, rules) == ClassifySde([sde |-> evidenceOfItem], rules)

\* Nothing but the supply evidence of an item enters its SDE grade.
LEMMA SdeReads ==
  ASSUME NEW m, NEW rules
  PROVE  ClassifySde(m, rules) = SdeFrom(m.sde, rules)
<1>1. [sde |-> m.sde].sde = m.sde
  OBVIOUS
<1> QED BY <1>1, Zenon DEF ClassifySde, SdeFrom

\* An operational SDE grade depends on the supply inputs alone.
LEMMA SameSde ==
  ASSUME NEW s, NEW t, SameSupply(s, t), NEW i \in DOMAIN s.metrics
  PROVE  LET x == ClassifySde(s.metrics[i], s.config.sde)
             y == ClassifySde(t.metrics[i], t.config.sde)
         IN /\ (x.mode = "OPERATIONAL") <=> (y.mode = "OPERATIONAL")
            /\ x.mode = "OPERATIONAL" => x = y /\ s.config.overlays.sde = t.config.overlays.sde
<1> DEFINE x == ClassifySde(s.metrics[i], s.config.sde)
           y == ClassifySde(t.metrics[i], t.config.sde)
<1>1. CASE s.config.sde.mode = "OPERATIONAL"
  <2>1. /\ s.config.sde = t.config.sde /\ s.config.overlays.sde = t.config.overlays.sde
        /\ s.metrics[i].sde = t.metrics[i].sde
    BY <1>1 DEF SameSupply
  <2>2. x = y
    BY <2>1, SdeReads
  <2> HIDE DEF x, y
  <2>3. /\ (x.mode = "OPERATIONAL") <=> (y.mode = "OPERATIONAL")
        /\ x.mode = "OPERATIONAL" => x = y /\ s.config.overlays.sde = t.config.overlays.sde
    BY <2>1, <2>2
  <2> QED BY <2>3 DEF x, y
<1>2. CASE s.config.sde.mode # "OPERATIONAL"
  <2>1. t.config.sde.mode # "OPERATIONAL"
    BY <1>2 DEF SameSupply
  <2>2. x.mode = ModeOf(s.config.sde) /\ y.mode = ModeOf(t.config.sde)
    BY AxisModes
  <2> HIDE DEF x, y
  <2>3. x.mode # "OPERATIONAL" /\ y.mode # "OPERATIONAL"
    BY <1>2, <2>1, <2>2 DEF ModeOf
  <2> QED BY <2>3 DEF x, y
<1> QED BY <1>1, <1>2

\* The thresholds are a function of the dated costs.
LEMMA SameThresholds ==
  ASSUME NEW p, NEW q, NEW now, NEW rules, CostBasis(p, now, rules) = CostBasis(q, now, rules),
         \A i \in CostBasis(p, now, rules) : p[i].hml = q[i].hml
  PROVE  Thresholds(p, now, rules) = Thresholds(q, now, rules)
<1> DEFINE basis == CostBasis(p, now, rules)
<1>1. ASSUME NEW percentile
      PROVE  NearestRank(p, basis, percentile) = NearestRank(q, basis, percentile)
  <2>1. {p[i].hml.cost : i \in basis} = {q[i].hml.cost : i \in basis}
    BY Zenon
  <2>2. \A v : /\ {i \in basis : p[i].hml.cost < v} = {i \in basis : q[i].hml.cost < v}
              /\ {i \in basis : v <= p[i].hml.cost} = {i \in basis : v <= q[i].hml.cost}
              /\ {i \in basis : p[i].hml.cost <= v} = {i \in basis : q[i].hml.cost <= v}
    OBVIOUS
  <2> HIDE DEF basis
  <2> QED BY <2>1, <2>2 DEF NearestRank
<1> QED BY <1>1, Zenon DEF Thresholds

\* An operational HML grade depends on the cost inputs alone.
LEMMA SameHml ==
  ASSUME NEW s, NEW t, SameBase(s, t), SameCost(s, t), NEW i \in DOMAIN s.metrics
  PROVE  LET x == ClassifyHml(s.metrics[i], s.asOf, Thresholds(s.metrics, s.asOf, s.config.hml),
                              s.config.hml)
             y == ClassifyHml(t.metrics[i], t.asOf, Thresholds(t.metrics, t.asOf, t.config.hml),
                              t.config.hml)
         IN /\ (x.mode = "OPERATIONAL") <=> (y.mode = "OPERATIONAL")
            /\ x.mode = "OPERATIONAL" => x = y /\ s.config.overlays.hml = t.config.overlays.hml
<1> DEFINE x == ClassifyHml(s.metrics[i], s.asOf, Thresholds(s.metrics, s.asOf, s.config.hml),
                            s.config.hml)
           y == ClassifyHml(t.metrics[i], t.asOf, Thresholds(t.metrics, t.asOf, t.config.hml),
                            t.config.hml)
<1>1. CASE s.config.hml.mode = "OPERATIONAL"
  <2>1. /\ s.config.hml = t.config.hml /\ s.config.overlays.hml = t.config.overlays.hml
        /\ s.asOf = t.asOf /\ \A j \in DOMAIN s.metrics : s.metrics[j].hml = t.metrics[j].hml
        /\ DOMAIN s.metrics = DOMAIN t.metrics
    BY <1>1 DEF SameCost, SameBase
  <2>2. \A j \in DOMAIN s.metrics :
          /\ VerifiedCost(s.metrics[j]) <=> VerifiedCost(t.metrics[j])
          /\ Fresh(s.metrics[j], s.asOf, s.config.hml) <=> Fresh(t.metrics[j], s.asOf, s.config.hml)
    BY <2>1, Zenon DEF VerifiedCost, Fresh, CostAge
  <2>3. CostBasis(s.metrics, s.asOf, s.config.hml) = CostBasis(t.metrics, s.asOf, s.config.hml)
    BY <2>1, <2>2 DEF CostBasis
  <2>4. \A j \in CostBasis(s.metrics, s.asOf, s.config.hml) : s.metrics[j].hml = t.metrics[j].hml
    BY <2>1 DEF CostBasis
  <2>5. Thresholds(s.metrics, s.asOf, s.config.hml) = Thresholds(t.metrics, s.asOf, s.config.hml)
    BY <2>3, <2>4, SameThresholds
  <2>6. s.metrics[i].hml = t.metrics[i].hml
    BY <2>1
  <2>7. x = y
    BY <2>1, <2>5, <2>6, Zenon DEF ClassifyHml, CostAge, VerifiedCost
  <2> HIDE DEF x, y
  <2>8. /\ (x.mode = "OPERATIONAL") <=> (y.mode = "OPERATIONAL")
        /\ x.mode = "OPERATIONAL" => x = y /\ s.config.overlays.hml = t.config.overlays.hml
    BY <2>1, <2>7
  <2> QED BY <2>8 DEF x, y
<1>2. CASE s.config.hml.mode # "OPERATIONAL"
  <2>1. t.config.hml.mode # "OPERATIONAL"
    BY <1>2 DEF SameCost
  <2>2. x.mode = ModeOf(s.config.hml) /\ y.mode = ModeOf(t.config.hml)
    BY AxisModes
  <2> HIDE DEF x, y
  <2>3. x.mode # "OPERATIONAL" /\ y.mode # "OPERATIONAL"
    BY <1>2, <2>1, <2>2 DEF ModeOf
  <2> QED BY <2>3 DEF x, y
<1> QED BY <1>1, <1>2

\* The seven axes.
LEMMA AxisNames == Axes = {"ABC", "XYZ", "VED", "FSN", "SDE", "HML", "PLC"}
<1>1. DOMAIN AxisOrder = {1, 2, 3, 4, 5, 6, 7}
  BY DEF AxisOrder
<1>2. /\ AxisOrder[1] = "ABC" /\ AxisOrder[2] = "XYZ" /\ AxisOrder[3] = "VED"
      /\ AxisOrder[4] = "FSN" /\ AxisOrder[5] = "SDE" /\ AxisOrder[6] = "HML"
      /\ AxisOrder[7] = "PLC"
  BY DEF AxisOrder
<1> QED BY <1>1, <1>2 DEF Axes

\* The overlays agree on the axes that are operational; the lifecycle never is.
OverlaysAgree(x, o, p) ==
  /\ x["FSN"].mode = "OPERATIONAL" => o.fsn = p.fsn
  /\ x["SDE"].mode = "OPERATIONAL" => o.sde = p.sde
  /\ x["HML"].mode = "OPERATIONAL" => o.hml = p.hml
  /\ x["PLC"].mode # "OPERATIONAL"

\* Documents with the same operational inputs have the same operational axes.
LEMMA SameAxes ==
  ASSUME NEW s, NEW t, SameBase(s, t), SameMovement(s, t), SameSupply(s, t), SameCost(s, t),
         s.config.plc.mode = "SHADOW", t.config.plc.mode = "SHADOW",
         NEW i \in DOMAIN s.metrics, NEW item
  PROVE  /\ AxesAgree(AxisResults(s.metrics, item, i, s.asOf, s.config),
                      AxisResults(t.metrics, item, i, t.asOf, t.config))
         /\ OverlaysAgree(AxisResults(s.metrics, item, i, s.asOf, s.config),
                          s.config.overlays, t.config.overlays)
<1> DEFINE x == AxisResults(s.metrics, item, i, s.asOf, s.config)
           y == AxisResults(t.metrics, item, i, t.asOf, t.config)
<1>1. /\ x["ABC"] = y["ABC"] /\ x["XYZ"] = y["XYZ"] /\ x["VED"] = y["VED"]
  <2>1. s.config.ved = t.config.ved
    BY DEF SameBase
  <2> QED BY <2>1 DEF AxisResults
<1>2. /\ (x["FSN"].mode = "OPERATIONAL") <=> (y["FSN"].mode = "OPERATIONAL")
      /\ x["FSN"].mode = "OPERATIONAL" =>
           x["FSN"] = y["FSN"] /\ s.config.overlays.fsn = t.config.overlays.fsn
  <2>1. /\ x["FSN"] = ClassifyFsn(s.metrics[i], s.asOf, s.config.fsn)
        /\ y["FSN"] = ClassifyFsn(t.metrics[i], t.asOf, t.config.fsn)
    BY DEF AxisResults
  <2> HIDE DEF x, y
  <2> QED BY <2>1, SameFsn, Zenon
<1>3. /\ (x["SDE"].mode = "OPERATIONAL") <=> (y["SDE"].mode = "OPERATIONAL")
      /\ x["SDE"].mode = "OPERATIONAL" =>
           x["SDE"] = y["SDE"] /\ s.config.overlays.sde = t.config.overlays.sde
  <2>1. /\ x["SDE"] = ClassifySde(s.metrics[i], s.config.sde)
        /\ y["SDE"] = ClassifySde(t.metrics[i], t.config.sde)
    BY DEF AxisResults
  <2> HIDE DEF x, y
  <2> QED BY <2>1, SameSde, Zenon
<1>4. /\ (x["HML"].mode = "OPERATIONAL") <=> (y["HML"].mode = "OPERATIONAL")
      /\ x["HML"].mode = "OPERATIONAL" =>
           x["HML"] = y["HML"] /\ s.config.overlays.hml = t.config.overlays.hml
  <2>1. /\ x["HML"] = ClassifyHml(s.metrics[i], s.asOf,
                        Thresholds(s.metrics, s.asOf, s.config.hml), s.config.hml)
        /\ y["HML"] = ClassifyHml(t.metrics[i], t.asOf,
                        Thresholds(t.metrics, t.asOf, t.config.hml), t.config.hml)
    BY DEF AxisResults
  <2> HIDE DEF x, y
  <2> QED BY <2>1, SameHml, Zenon
<1>5. x["PLC"].mode # "OPERATIONAL" /\ y["PLC"].mode # "OPERATIONAL"
  <2>1. /\ x["PLC"] = ClassifyPlc(s.metrics[i], s.asOf, s.config.plc)
        /\ y["PLC"] = ClassifyPlc(t.metrics[i], t.asOf, t.config.plc)
    BY DEF AxisResults
  <2> HIDE DEF x, y
  <2> QED BY <2>1, PlcMode
<1> HIDE DEF x, y
<1>6. AxesAgree(x, y) /\ OverlaysAgree(x, s.config.overlays, t.config.overlays)
  BY <1>1, <1>2, <1>3, <1>4, <1>5, AxisNames DEF AxesAgree, OverlaysAgree
<1> QED BY <1>6 DEF x, y

\* Axes that agree are projected alike.
LEMMA SameProjection ==
  ASSUME NEW x, NEW y, NEW o, NEW p, AxesAgree(x, y), OverlaysAgree(x, o, p)
  PROVE  /\ Operational(x) = Operational(y) /\ EffectiveAxes(x) = EffectiveAxes(y)
         /\ Projection(x, o) = Projection(y, p)
         /\ \A a \in Operational(x) : x[a] = y[a]
<1>1. Operational(x) = Operational(y) /\ \A a \in Operational(x) : x[a] = y[a]
  BY DEF AxesAgree, Operational
<1>2. EffectiveAxes(x) = EffectiveAxes(y)
  BY <1>1 DEF EffectiveAxes
<1>3. ASSUME NEW a \in EffectiveAxes(x)
      PROVE  x[a] = y[a] /\ Effect(a, x[a], o) = Effect(a, y[a], p)
  <2>1. x[a] = y[a] /\ x[a].mode = "OPERATIONAL"
    BY <1>1 DEF EffectiveAxes, Operational
  <2>2. a \in {"ABC", "XYZ", "VED", "FSN", "SDE", "HML", "PLC"}
    BY AxisNames DEF EffectiveAxes, Operational
  <2>3. CASE a \in {"ABC", "XYZ", "VED"}
    <3>1. Effect(a, y[a], o) = <<>> /\ Effect(a, y[a], p) = <<>>
      BY <2>3 DEF Effect
    <3> QED BY <2>1, <3>1
  <2>4. CASE a = "FSN"
    BY <2>1, <2>4 DEF Effect, OverlaysAgree
  <2>5. CASE a = "SDE"
    <3>1. o.sde = p.sde
      BY <2>1, <2>5 DEF OverlaysAgree
    <3>2. Effect("SDE", y["SDE"], o) = Effect("SDE", y["SDE"], p)
      BY <3>1, Zenon DEF Effect
    <3> QED BY <2>1, <2>5, <3>2
  <2>6. CASE a = "HML"
    BY <2>1, <2>6 DEF Effect, OverlaysAgree
  <2>7. CASE a = "PLC"
    BY <2>1, <2>7 DEF OverlaysAgree
  <2> QED BY <2>1, <2>2, <2>3, <2>4, <2>5, <2>6, <2>7
<1>4. Projection(x, o) = Projection(y, p)
  BY <1>2, <1>3 DEF Projection
<1> QED BY <1>1, <1>2, <1>4

\* The names in order are a sequence of the names.
LEMMA OrderedNames ==
  ASSUME NEW names
  PROVE  InOrder(names) \in Seq(names)
<1> DEFINE named(k) == IF AxisOrder[k] \in names THEN <<AxisOrder[k]>> ELSE <<>>
<1>1. \A k \in {1, 2, 3, 4, 5, 6, 7} : named(k) \in Seq(names)
  OBVIOUS
<1>2. InOrder(names) =
        named(1) \o named(2) \o named(3) \o named(4) \o named(5) \o named(6) \o named(7)
  BY Zenon DEF InOrder
<1> HIDE DEF named
<1>3. \A u, v \in Seq(names) : u \o v \in Seq(names)
  OBVIOUS
<1>4. named(1) \o named(2) \in Seq(names)
  BY <1>1, <1>3
<1>5. named(1) \o named(2) \o named(3) \in Seq(names)
  BY <1>1, <1>3, <1>4
<1>6. named(1) \o named(2) \o named(3) \o named(4) \in Seq(names)
  BY <1>1, <1>3, <1>5
<1>7. named(1) \o named(2) \o named(3) \o named(4) \o named(5) \in Seq(names)
  BY <1>1, <1>3, <1>6
<1>8. named(1) \o named(2) \o named(3) \o named(4) \o named(5) \o named(6) \in Seq(names)
  BY <1>1, <1>3, <1>7
<1> QED BY <1>1, <1>2, <1>3, <1>8

\* The names in order are among the names.
LEMMA NamesInOrder ==
  ASSUME NEW names
  PROVE  \A k \in DOMAIN InOrder(names) : InOrder(names)[k] \in names
BY OrderedNames

\* A policy by its parts, "waiting" for the gates of the axes without evidence.
PolicyFrom(name, projection, base, eligible, waiting) ==
  LET action   == IF eligible THEN StrictestAction(projection) ELSE "BLOCK"
      approval == ApprovalOf(projection)
      publish  == eligible /\ action = "ALLOW"
      order    == publish /\ approval \in {None, "AUTO"}
  IN [version |-> "2.0.0", config |-> name, base |-> base, eligible |-> eligible,
      calculation |-> eligible /\ action # "BLOCK", action |-> action,
      execution |-> order, noOrder |-> action = "BLOCK", leadTime |-> LeadTimeOf(projection),
      approval |-> approval, publish |-> publish, order |-> order,
      projection |-> projection, adjustments |-> AdjustmentReasons(projection, base.source),
      gates |-> waiting \o PolicyGates(base.source, base.strategy, action, approval)]

VedOf(projection) == IF "VED" \in DOMAIN projection THEN projection["VED"].class ELSE None
Waiting(axes) ==
  LET unavailable == InOrder(Operational(axes) \ EffectiveAxes(axes))
  IN [k \in DOMAIN unavailable |-> <<"OPERATIONAL", unavailable[k], axes[unavailable[k]].status>>]

\* What a derived policy depends on: the name of its configuration, the projection,
\* the base policy, whether the item is eligible and the axes that wait.
LEMMA DerivedFrom ==
  ASSUME NEW item, NEW axes, NEW c
  PROVE  DeriveV2(item, axes, c) =
           PolicyFrom(c.name, Projection(axes, c.overlays),
                      BasePolicy(item, VedOf(Projection(axes, c.overlays)), c),
                      Eligible(item, axes,
                               BasePolicy(item, VedOf(Projection(axes, c.overlays)), c).strategy),
                      Waiting(axes))
BY Zenon DEF DeriveV2, PolicyFrom, VedOf, Waiting

\* The fields of a policy, whatever they hold.
Fields(name, base, eligible, calculation, action, execution, noOrder, leadTime, approval,
       publish, order, projection, adjustments, gates) ==
  [version |-> "2.0.0", config |-> name, base |-> base, eligible |-> eligible,
   calculation |-> calculation, action |-> action, execution |-> execution,
   noOrder |-> noOrder, leadTime |-> leadTime, approval |-> approval, publish |-> publish,
   order |-> order, projection |-> projection, adjustments |-> adjustments, gates |-> gates]

\* The hash of a policy leaves the configuration's name out and nothing else.
LEMMA HashOfFields ==
  ASSUME NEW name, NEW base, NEW eligible, NEW calculation, NEW action, NEW execution,
         NEW noOrder, NEW leadTime, NEW approval, NEW publish, NEW order, NEW projection,
         NEW adjustments, NEW gates
  PROVE  PolicyHash(Fields(name, base, eligible, calculation, action, execution, noOrder,
                           leadTime, approval, publish, order, projection, adjustments, gates))
           = Fields(None, base, eligible, calculation, action, execution, noOrder,
                    leadTime, approval, publish, order, projection, adjustments, gates)
BY DEF PolicyHash, Fields

\* The hash of a derived policy is the policy derived with no configuration name.
LEMMA HashFrom ==
  ASSUME NEW name, NEW projection, NEW base, NEW eligible, NEW waiting
  PROVE  PolicyHash(PolicyFrom(name, projection, base, eligible, waiting)) =
           PolicyFrom(None, projection, base, eligible, waiting)
<1> DEFINE action   == IF eligible THEN StrictestAction(projection) ELSE "BLOCK"
           approval == ApprovalOf(projection)
           publish  == eligible /\ action = "ALLOW"
           order    == publish /\ approval \in {None, "AUTO"}
           calculation == eligible /\ action # "BLOCK"
           noOrder == action = "BLOCK"
           leadTime == LeadTimeOf(projection)
           adjustments == AdjustmentReasons(projection, base.source)
           gates == waiting \o PolicyGates(base.source, base.strategy, action, approval)
<1>1. \A n : PolicyFrom(n, projection, base, eligible, waiting) =
               Fields(n, base, eligible, calculation, action, order, noOrder, leadTime,
                      approval, publish, order, projection, adjustments, gates)
  BY Zenon DEF PolicyFrom, Fields
<1> HIDE DEF action, approval, publish, order, calculation, noOrder, leadTime, adjustments, gates
<1>2. PolicyHash(Fields(name, base, eligible, calculation, action, order, noOrder, leadTime,
                        approval, publish, order, projection, adjustments, gates))
        = Fields(None, base, eligible, calculation, action, order, noOrder, leadTime,
                 approval, publish, order, projection, adjustments, gates)
  BY HashOfFields
<1> QED BY <1>1, <1>2, Zenon

\* Axes and rules that agree make policies of one hash.
LEMMA SamePolicy ==
  ASSUME NEW item, NEW x, NEW y, NEW c, NEW d,
         AxesAgree(x, y), OverlaysAgree(x, c.overlays, d.overlays),
         c.cells = d.cells, c.floor = d.floor
  PROVE  PolicyHash(DeriveV2(item, x, c)) = PolicyHash(DeriveV2(item, y, d))
<1> DEFINE projection == Projection(x, c.overlays)
           base == BasePolicy(item, VedOf(projection), c)
<1>1. /\ Operational(x) = Operational(y) /\ EffectiveAxes(x) = EffectiveAxes(y)
      /\ Projection(y, d.overlays) = projection
      /\ \A a \in Operational(x) : x[a] = y[a]
  BY SameProjection
<1>2. BasePolicy(item, VedOf(projection), d) = base
  BY Zenon DEF BasePolicy
<1>3. Eligible(item, x, base.strategy) = Eligible(item, y, base.strategy)
  BY <1>1, Zenon DEF Eligible
<1>4. Waiting(x) = Waiting(y)
  <2> DEFINE unavailable == InOrder(Operational(x) \ EffectiveAxes(x))
  <2>1. unavailable = InOrder(Operational(y) \ EffectiveAxes(y))
    BY <1>1, Zenon
  <2>2. \A k \in DOMAIN unavailable : x[unavailable[k]] = y[unavailable[k]]
    BY <1>1, NamesInOrder
  <2>3. Waiting(x) = [k \in DOMAIN unavailable |->
                       <<"OPERATIONAL", unavailable[k], x[unavailable[k]].status>>]
    BY Zenon DEF Waiting
  <2>4. Waiting(y) = [k \in DOMAIN unavailable |->
                       <<"OPERATIONAL", unavailable[k], y[unavailable[k]].status>>]
    BY <2>1, Zenon DEF Waiting
  <2> HIDE DEF unavailable
  <2> QED BY <2>2, <2>3, <2>4
<1>5. DeriveV2(item, x, c) = PolicyFrom(c.name, projection, base, Eligible(item, x, base.strategy),
                                        Waiting(x))
  BY DerivedFrom, Zenon
<1>6. DeriveV2(item, y, d) = PolicyFrom(d.name, projection, base, Eligible(item, x, base.strategy),
                                        Waiting(x))
  BY <1>1, <1>2, <1>3, <1>4, DerivedFrom, Zenon
<1>7. \A n : PolicyHash(PolicyFrom(n, projection, base, Eligible(item, x, base.strategy),
                                 Waiting(x)))
             = PolicyFrom(None, projection, base, Eligible(item, x, base.strategy), Waiting(x))
  BY HashFrom
<1> HIDE DEF projection, base
<1> QED BY <1>5, <1>6, <1>7, Zenon

\* Documents with the same operational inputs have policies of the same hashes.
LEMMA SameHashes ==
  ASSUME NEW s, NEW t, DocumentSound(s), DocumentSound(t), s.type = "SEVEN_AXIS",
         t.type = "SEVEN_AXIS", OperationalInputs(s) = OperationalInputs(t)
  PROVE  \A i \in DOMAIN s.policies : PolicyHash(t.policies[i]) = PolicyHash(s.policies[i])
<1>1. SameBase(s, t) /\ SameMovement(s, t) /\ SameSupply(s, t) /\ SameCost(s, t)
  BY SameInputs
<1>2. s.config.plc.mode = "SHADOW" /\ t.config.plc.mode = "SHADOW"
  <2>1. \A c \in Configs : c.type = "SEVEN_AXIS" => c.plc.mode = "SHADOW"
    <3>1. \A c : V2ConfigValid(c) => c.plc.mode = "SHADOW"
      BY Zenon DEF V2ConfigValid, PlcRulesValid
    <3> QED BY <3>1, ConfigsAssumption DEF ConfigValid
  <2> QED BY <2>1, Zenon DEF DocumentSound
<1> SUFFICES ASSUME NEW i \in DOMAIN s.policies
             PROVE  PolicyHash(t.policies[i]) = PolicyHash(s.policies[i])
  OBVIOUS
<1>3. DOMAIN s.policies = DOMAIN s.metrics /\ DOMAIN s.metrics = DOMAIN t.metrics
  BY <1>1, Zenon DEF DocumentSound, SameBase
<1>4. /\ s.items[i] = ClassifiedItem(s.metrics, s.config, i)
      /\ t.items[i] = ClassifiedItem(t.metrics, t.config, i)
      /\ s.axes[i] = AxisResults(s.metrics, s.items[i], i, s.asOf, s.config)
      /\ t.axes[i] = AxisResults(t.metrics, t.items[i], i, t.asOf, t.config)
      /\ s.policies[i] = DeriveV2(s.items[i], s.axes[i], s.config)
      /\ t.policies[i] = DeriveV2(t.items[i], t.axes[i], t.config)
  BY <1>3 DEF DocumentSound, AxesOf
<1>5. s.items[i] = t.items[i]
  BY <1>1, <1>3, <1>4, SameItem
<1>6. AxesAgree(s.axes[i], t.axes[i]) /\ OverlaysAgree(s.axes[i], s.config.overlays, t.config.overlays)
  BY <1>1, <1>2, <1>3, <1>4, <1>5, SameAxes
<1>7. s.config.cells = t.config.cells /\ s.config.floor = t.config.floor
  BY <1>1 DEF SameBase
<1> QED BY <1>4, <1>5, <1>6, <1>7, SamePolicy

\* A revision of shadow evidence, of a shadow rule or of the lifecycle, or a week that
\* only shadow axes see, leaves every effective policy hash as it was (build_snapshot,
\* derive_effective_policy_v2).
THEOREM ShadowMovesNothing == SnapshotSpec => ShadowNeverMovesPolicy
<1> DEFINE Moved ==
             (/\ snapshot # Nothing /\ snapshot' # Nothing
              /\ snapshot.type = "SEVEN_AXIS" /\ (snapshot.type)' = "SEVEN_AXIS"
              /\ OperationalInputs(snapshot) = (OperationalInputs(snapshot))')
             => \A i \in DOMAIN snapshot.policies :
                  (PolicyHash(snapshot.policies[i]))' = PolicyHash(snapshot.policies[i])
<1>1. SnapshotSound /\ SnapshotSound' /\ [SnapshotNext]_snapshotVars => [Moved]_snapshotVars
  <2> SUFFICES ASSUME SnapshotSound, SnapshotSound', snapshot # Nothing, snapshot' # Nothing,
                      snapshot.type = "SEVEN_AXIS", (snapshot.type)' = "SEVEN_AXIS",
                      OperationalInputs(snapshot) = (OperationalInputs(snapshot))'
               PROVE  \A i \in DOMAIN snapshot.policies :
                        (PolicyHash(snapshot.policies[i]))' = PolicyHash(snapshot.policies[i])
    OBVIOUS
  <2>1. DocumentSound(snapshot) /\ DocumentSound(snapshot)'
    BY DEF SnapshotSound
  <2>2. DocumentSound(snapshot')
    BY <2>1 DEF DocumentSound, AxesOf
  <2>3. snapshot'.type = "SEVEN_AXIS"
    OBVIOUS
  <2>4. OperationalInputs(snapshot) = OperationalInputs(snapshot')
    BY Zenon DEF OperationalInputs
  <2>5. \A i \in DOMAIN snapshot.policies :
          PolicyHash(snapshot'.policies[i]) = PolicyHash(snapshot.policies[i])
    BY <2>1, <2>2, <2>3, <2>4, SameHashes
  <2> QED BY <2>5, Zenon DEF PolicyHash
<1> QED BY <1>1, SnapshotsSound, PTL DEF SnapshotSpec, ShadowNeverMovesPolicy

-----------------------------------------------------------------------------
(* What an item that is not classified says of the others.                  *)

\* An ABC class is one of three.
LEMMA AbcClassed ==
  ASSUME NEW p, NEW rules, NEW i
  PROVE  AbcClass(p, rules, i) \in {"A", "B", "C"}
<1> DEFINE before == 100 * Revenue(p, RankedBefore(p, i))
           total  == Revenue(p, Candidates(p))
           inA == before < rules.a * total
           inB == before < rules.b * total
<1>1. AbcClass(p, rules, i) = First(<< <<inA, "A">>, <<inB, "B">>, <<Otherwise, "C">> >>)
  BY Zenon DEF AbcClass
<1>2. inA \in BOOLEAN /\ inB \in BOOLEAN
  OBVIOUS
<1> HIDE DEF inA, inB
<1>3. First(<< <<inA, "A">>, <<inB, "B">>, <<Otherwise, "C">> >>) \in {"A", "B", "C"}
  BY <1>2, FirstSome
<1> QED BY <1>1, <1>3

\* Without an item that is no candidate the classes are what they are.
LEMMA NoCandidateNoSay ==
  ASSUME NEW p, NEW rules, NEW i \in DOMAIN p, i \notin Candidates(p)
  PROVE  LET rest == Restrict(p, DOMAIN p \ {i})
         IN \A j \in DOMAIN rest : AbcClass(rest, rules, j) = AbcClass(p, rules, j)
<1> DEFINE rest == Restrict(p, DOMAIN p \ {i})
<1>1. DOMAIN rest = DOMAIN p \ {i} /\ \A j \in DOMAIN rest : rest[j] = p[j]
  BY DEF Restrict
<1> HIDE DEF rest
<1>2. Candidates(rest) = Candidates(p)
  BY <1>1 DEF Candidates
<1>3. \A j \in Candidates(p) : rest[j] = p[j]
  BY <1>1, <1>2 DEF Candidates
<1>4. ASSUME NEW j \in DOMAIN rest
      PROVE  AbcClass(rest, rules, j) = AbcClass(p, rules, j)
  <2>1. RankedBefore(rest, j) = RankedBefore(p, j)
    BY <1>1, <1>2, <1>3 DEF RankedBefore
  <2>2. \A k \in RankedBefore(p, j) : rest[k].abc = p[k].abc
    BY <1>3 DEF RankedBefore
  <2>3. Revenue(rest, RankedBefore(p, j)) = Revenue(p, RankedBefore(p, j))
    BY <2>2, SameRevenue
  <2>4. Revenue(rest, Candidates(p)) = Revenue(p, Candidates(p))
    BY <1>3, SameRevenue
  <2> QED BY <1>2, <2>1, <2>3, <2>4, Zenon DEF AbcClass
<1> QED BY <1>4 DEF rest

\* A cost that is among those the thresholds are made of is graded.
LEMMA BasisIsGraded ==
  ASSUME NEW p, NEW now \in Int, NEW rules, NEW i \in CostBasis(p, now, rules), rules.enabled,
         rules.maxAge \in Int, p[i].hml.asOf \in Int
  PROVE  ClassifyHml(p[i], now, Thresholds(p, now, rules), rules).status = "CLASSIFIED"
<1> DEFINE m == p[i]
           thresholds == Thresholds(p, now, rules)
           synthetic == m.hml.status = "SYNTHETIC"
           missing == m.hml.asOf = NoWeek
           future == CostAge(m, now) < 0
           stale == CostAge(m, now) > rules.maxAge
           incomplete == ~VerifiedCost(m) \/ thresholds = <<>>
           reason ==
             First(<< <<synthetic, "SYNTHETIC_SOURCE_NOT_OPERATIONAL">>,
                 <<missing,   "INVENTORY_UNIT_COST_AS_OF_MISSING">>,
                 <<future,    "INVENTORY_UNIT_COST_FROM_FUTURE">>,
                 <<stale,     "INVENTORY_UNIT_COST_STALE">>,
                 <<incomplete, "INVENTORY_UNIT_COST_EVIDENCE_INCOMPLETE">> >>)
<1>1. \E class : ClassifyHml(m, now, thresholds, rules) = Graded(rules, reason, class)
  BY Zenon DEF ClassifyHml
<1>2. VerifiedCost(m) /\ Fresh(m, now, rules) /\ thresholds # <<>>
  <2>1. VerifiedCost(m) /\ Fresh(m, now, rules) /\ CostBasis(p, now, rules) # {}
    BY DEF CostBasis
  <2>2. \E u, v : thresholds = <<u, v>>
    BY <2>1 DEF Thresholds
  <2> QED BY <2>1, <2>2
<1>3. ~synthetic /\ ~missing /\ ~future /\ ~stale /\ ~incomplete
  <2>1. ~synthetic /\ ~missing /\ ~incomplete
    BY <1>2 DEF VerifiedCost, Fresh
  <2>2. m.hml.asOf \in Int /\ CostAge(m, now) \in 0..rules.maxAge
    BY <1>2 DEF Fresh
  <2>3. CostAge(m, now) \in Int
    BY <2>2 DEF CostAge
  <2>4. ~future /\ ~stale
    BY <2>2, <2>3
  <2> QED BY <2>1, <2>4
<1>4. /\ synthetic \in BOOLEAN /\ missing \in BOOLEAN /\ future \in BOOLEAN
      /\ stale \in BOOLEAN /\ incomplete \in BOOLEAN
  OBVIOUS
<1> HIDE DEF synthetic, missing, future, stale, incomplete, m, thresholds
<1>5. reason = None
  BY <1>3, <1>4, Held5
<1> HIDE DEF reason
<1>6. \A class : Graded(rules, reason, class).status = "CLASSIFIED"
  BY <1>5 DEF Graded, Classified, AxisResult
<1>7. ClassifyHml(m, now, thresholds, rules).status = "CLASSIFIED"
  BY <1>1, <1>6
<1> QED BY <1>7 DEF m, thresholds

\* Without an item whose cost is not graded the grades are what they are.
LEMMA NoGradeNoSay ==
  ASSUME NEW p, NEW now \in Int, NEW rules, NEW i \in DOMAIN p, rules.maxAge \in Int,
         p[i].hml.asOf \in Int,
         ClassifyHml(p[i], now, Thresholds(p, now, rules), rules).status # "CLASSIFIED"
  PROVE  LET rest == Restrict(p, DOMAIN p \ {i})
         IN \A j \in DOMAIN rest :
              ClassifyHml(rest[j], now, Thresholds(rest, now, rules), rules)
                = ClassifyHml(p[j], now, Thresholds(p, now, rules), rules)
<1> DEFINE rest == Restrict(p, DOMAIN p \ {i})
<1>1. DOMAIN rest = DOMAIN p \ {i} /\ \A j \in DOMAIN rest : rest[j] = p[j]
  BY DEF Restrict
<1> HIDE DEF rest
<1>2. CASE ~rules.enabled
  <2>1. \A m, thresholds : ClassifyHml(m, now, thresholds, rules) = NotApplicable
    <3>1. \A reason, class : Graded(rules, reason, class) = NotApplicable
      BY <1>2 DEF Graded
    <3>2. \A m, thresholds : \E reason, class :
            ClassifyHml(m, now, thresholds, rules) = Graded(rules, reason, class)
      BY Zenon DEF ClassifyHml
    <3> QED BY <3>1, <3>2
  <2> QED BY <2>1 DEF rest
<1>3. CASE rules.enabled
  <2>1. i \notin CostBasis(p, now, rules)
    BY <1>3, BasisIsGraded
  <2>2. CostBasis(rest, now, rules) = CostBasis(p, now, rules)
    BY <1>1, <2>1 DEF CostBasis
  <2>3. \A j \in CostBasis(rest, now, rules) : rest[j].hml = p[j].hml
    BY <1>1 DEF CostBasis
  <2>4. Thresholds(rest, now, rules) = Thresholds(p, now, rules)
    BY <2>2, <2>3, SameThresholds
  <2>5. \A j \in DOMAIN rest :
          ClassifyHml(rest[j], now, Thresholds(rest, now, rules), rules)
            = ClassifyHml(p[j], now, Thresholds(p, now, rules), rules)
    BY <1>1, <2>4
  <2> QED BY <2>5 DEF rest
<1> QED BY <1>2, <1>3

\* The ABC class of an item.
LEMMA ItemAbc ==
  ASSUME NEW p, NEW c, NEW i
  PROVE  ClassifiedItem(p, c, i).abc =
           IF AbcReason(p[i]) = None THEN AbcClass(p, c.abc, i) ELSE None
BY DEF ClassifiedItem

\* The HML result of an item.
LEMMA AxisHml ==
  ASSUME NEW p, NEW item, NEW i, NEW now, NEW c
  PROVE  AxisResults(p, item, i, now, c)["HML"] =
           ClassifyHml(p[i], now, Thresholds(p, now, c.hml), c.hml)
BY DEF AxisResults

\* An item that an axis could not classify has no say in the class of another: without
\* it the others have the same ABC class and the same HML grade (classify_portfolio,
\* hml_thresholds).
THEOREM UnusableIsSilent == SnapshotSpec => []UnusableHasNoSay
<1>1. SnapshotSound => UnusableHasNoSay
  <2> SUFFICES ASSUME SnapshotSound, snapshot # Nothing, NEW i \in DOMAIN snapshot.metrics
               PROVE  LET rest == Restrict(snapshot.metrics, DOMAIN snapshot.metrics \ {i})
                          c    == snapshot.config
                      IN /\ snapshot.items[i].abc = None =>
                              \A j \in DOMAIN rest : snapshot.items[j].abc # None =>
                                AbcClass(rest, c.abc, j) = snapshot.items[j].abc
                         /\ snapshot.axes # <<>> /\ snapshot.axes[i]["HML"].status # "CLASSIFIED" =>
                              \A j \in DOMAIN rest :
                                ClassifyHml(rest[j], snapshot.asOf,
                                            Thresholds(rest, snapshot.asOf, c.hml), c.hml)
                                  = snapshot.axes[j]["HML"]
    BY DEF UnusableHasNoSay
  <2> DEFINE s == snapshot
             p == s.metrics
             c == s.config
             rest == Restrict(p, DOMAIN p \ {i})
  <2>1. DocumentSound(s)
    BY DEF SnapshotSound
  <2>2. DOMAIN rest \subseteq DOMAIN p
    BY DEF Restrict
  <2> HIDE DEF rest, s
  <2>3. \A j \in DOMAIN p : s.items[j] = ClassifiedItem(p, c, j)
    BY <2>1 DEF DocumentSound
  <2>4. \A j \in DOMAIN p : s.items[j].abc = IF AbcReason(p[j]) = None
                                            THEN AbcClass(p, c.abc, j) ELSE None
    BY <2>3, ItemAbc
  <2>5. ASSUME s.items[i].abc = None, NEW j \in DOMAIN rest, s.items[j].abc # None
        PROVE  AbcClass(rest, c.abc, j) = s.items[j].abc
    <3>1. AbcClass(p, c.abc, i) # None
      BY AbcClassed DEF None
    <3>2. AbcReason(p[i]) # None
      BY <2>4, <2>5, <3>1 DEF s
    <3>3. i \in DOMAIN p /\ i \notin Candidates(p)
      BY <3>2 DEF Candidates, s
    <3>4. AbcClass(rest, c.abc, j) = AbcClass(p, c.abc, j)
      BY <2>5, <3>3, NoCandidateNoSay DEF rest
    <3>5. s.items[j].abc = AbcClass(p, c.abc, j)
      BY <2>2, <2>4, <2>5
    <3> QED BY <3>4, <3>5
  <2>6. ASSUME s.axes # <<>>, s.axes[i]["HML"].status # "CLASSIFIED", NEW j \in DOMAIN rest
        PROVE  ClassifyHml(rest[j], s.asOf, Thresholds(rest, s.asOf, c.hml), c.hml)
                 = s.axes[j]["HML"]
    <3>1. s.type = "SEVEN_AXIS" /\ s.axes = AxesOf(s)
      BY <2>1, <2>6 DEF DocumentSound, AxesOf
    <3>2. \A k \in DOMAIN p : s.axes[k]["HML"] =
            ClassifyHml(p[k], s.asOf, Thresholds(p, s.asOf, c.hml), c.hml)
      <4>1. \A k \in DOMAIN p : s.axes[k] = AxisResults(p, s.items[k], k, s.asOf, c)
        BY <3>1 DEF AxesOf
      <4> QED BY <4>1, AxisHml
    <3>3. c.hml.maxAge \in Int
      <4>1. V2ConfigValid(c)
        BY <2>1, <3>1, ConfigTypes DEF DocumentSound
      <4>2. c.hml.maxAge \in 1..156
        BY <4>1, Zenon DEF V2ConfigValid, HmlRulesValid
      <4> QED BY <4>2
    <3>4. i \in DOMAIN p /\ s.asOf \in Int /\ p[i].hml.asOf \in Int
      BY <2>1 DEF DocumentSound, Counted, s
    <3>5. ClassifyHml(p[i], s.asOf, Thresholds(p, s.asOf, c.hml), c.hml).status # "CLASSIFIED"
      BY <2>6, <3>2, <3>4
    <3>6. ClassifyHml(rest[j], s.asOf, Thresholds(rest, s.asOf, c.hml), c.hml)
            = ClassifyHml(p[j], s.asOf, Thresholds(p, s.asOf, c.hml), c.hml)
      <4> HIDE DEF p, c
      <4> QED BY <2>6, <3>3, <3>4, <3>5, NoGradeNoSay DEF rest
    <3> QED BY <2>2, <2>6, <3>2, <3>6
  <2> QED BY <2>5, <2>6 DEF s, rest
<1> QED BY <1>1, SnapshotsSound, PTL

-----------------------------------------------------------------------------
(* The heads of the revenue ranking.                                        *)

\* A sum of a part and of the rest.
LEMMA TotalSplit ==
  ASSUME NEW T, IsFiniteSet(T), NEW f, \A x \in T : f[x] \in Int
  PROVE  \A S \in SUBSET T : Total(f, T) = Total(f, S) + Total(f, T \ S)
<1> DEFINE P == {S \in SUBSET T : Total(f, T) = Total(f, S) + Total(f, T \ S)}
<1>1. ASSUME NEW S \in SUBSET T, \A x \in S : S \ {x} \in P
      PROVE  S \in P
  <2>1. /\ IsFiniteSet(S) /\ IsFiniteSet(T \ S) /\ \A x \in S : f[x] \in Int
        /\ \A x \in T \ S : f[x] \in Int
    BY FS_Subset
  <2>2. Total(f, T) \in Int /\ Total(f, T \ S) \in Int
    BY <2>1, TotalInt
  <2>3. CASE S = {}
    BY <2>2, <2>3, TotalEmpty
  <2>4. CASE S # {}
    <3> DEFINE x == One(S)
               r == S \ {x}
               u == T \ r
    <3>1. x \in S /\ r \in P
      BY <1>1, <2>4, OneOf
    <3>2. Total(f, T) = Total(f, r) + Total(f, u)
      BY <3>1
    <3>3. Total(f, S) = f[x] + Total(f, r)
      BY <2>1, <2>4, TotalStep
    <3>4. u \subseteq T /\ x \in u /\ u \ {x} = T \ S
      BY <3>1
    <3>5. Total(f, u) = f[x] + Total(f, u \ {x})
      <4>1. IsFiniteSet(u) /\ \A y \in u : f[y] \in Int
        BY <3>4, FS_Subset
      <4> HIDE DEF u
      <4> QED BY <3>4, <4>1, TotalTake
    <3>6. Total(f, r) \in Int /\ f[x] \in Int
      <4>1. IsFiniteSet(r) /\ \A y \in r : f[y] \in Int
        BY <2>1, FS_Subset
      <4> QED BY <3>1, <4>1, TotalInt
    <3>7. Total(f, u) = f[x] + Total(f, T \ S)
      <4> HIDE DEF u
      <4> QED BY <3>4, <3>5
    <3>8. Total(f, T) = Total(f, S) + Total(f, T \ S)
      <4> HIDE DEF r, u, x
      <4> QED BY <2>2, <3>2, <3>3, <3>6, <3>7
    <3> QED BY <3>8
  <2> QED BY <2>3, <2>4
<1>2. ASSUME NEW S \in SUBSET T
      PROVE  S \in P
  <2>1. ASSUME NEW R \in SUBSET S, \A x \in R : R \ {x} \in P
        PROVE  R \in P
    BY <1>1, <2>1
  <2>2. IsFiniteSet(S)
    BY FS_Subset
  <2> HIDE DEF P
  <2> QED BY <2>1, <2>2, SubsetInduction
<1> QED BY <1>2

\* A part of a sum of naturals is no more than the sum.
LEMMA TotalGrows ==
  ASSUME NEW T, IsFiniteSet(T), NEW f, \A x \in T : f[x] \in Nat, NEW S \in SUBSET T
  PROVE  Total(f, S) \in Nat /\ Total(f, T) \in Nat /\ Total(f, S) <= Total(f, T)
<1>1. IsFiniteSet(S) /\ IsFiniteSet(T \ S)
  BY FS_Subset
<1>2. Total(f, S) \in Nat /\ Total(f, T) \in Nat /\ Total(f, T \ S) \in Nat
  BY <1>1, TotalNat
<1>3. Total(f, T) = Total(f, S) + Total(f, T \ S)
  BY TotalSplit
<1> QED BY <1>2, <1>3

\* Sums of the same terms are the same.
LEMMA TotalSame ==
  ASSUME NEW S, IsFiniteSet(S), NEW f, NEW g, \A x \in S : f[x] = g[x]
  PROVE  Total(f, S) = Total(g, S)
<1> DEFINE P == {T \in SUBSET S : Total(f, T) = Total(g, T)}
<1>1. ASSUME NEW T \in SUBSET S, \A x \in T : T \ {x} \in P
      PROVE  T \in P
  <2>1. IsFiniteSet(T)
    BY FS_Subset
  <2>2. CASE T = {}
    BY <2>2, TotalEmpty
  <2>3. CASE T # {}
    <3>1. /\ One(T) \in T
          /\ Total(f, T) = f[One(T)] + Total(f, T \ {One(T)})
          /\ Total(g, T) = g[One(T)] + Total(g, T \ {One(T)})
      BY <2>1, <2>3, TotalStep, OneOf
    <3> QED BY <1>1, <3>1
  <2> QED BY <2>2, <2>3
<1>2. S \in P
  <2> HIDE DEF P
  <2> QED BY <1>1, SubsetInduction
<1> QED BY <1>2

\* A finite set that a relation orders has a first element.
LEMMA FirstOf ==
  ASSUME NEW S, IsFiniteSet(S), NEW R,
         \A x, y \in S : x = y \/ <<x, y>> \in R \/ <<y, x>> \in R,
         \A x, y, z \in S : <<x, y>> \in R /\ <<y, z>> \in R => <<x, z>> \in R
  PROVE  S # {} => \E m \in S : \A j \in S : j = m \/ <<m, j>> \in R
<1> DEFINE P == {T \in SUBSET S : T # {} => \E m \in T : \A j \in T : j = m \/ <<m, j>> \in R}
<1>1. ASSUME NEW T \in SUBSET S, \A x \in T : T \ {x} \in P
      PROVE  T \in P
  <2> SUFFICES ASSUME T # {}
               PROVE  \E m \in T : \A j \in T : j = m \/ <<m, j>> \in R
    OBVIOUS
  <2>1. PICK x \in T : TRUE
    OBVIOUS
  <2>2. CASE T \ {x} = {}
    BY <2>1, <2>2
  <2>3. CASE T \ {x} # {}
    <3>1. PICK m \in T \ {x} : \A j \in T \ {x} : j = m \/ <<m, j>> \in R
      BY <1>1, <2>1, <2>3
    <3>2. CASE <<m, x>> \in R
      BY <3>1, <3>2
    <3>3. CASE <<x, m>> \in R
      <4>1. \A j \in T : j = x \/ <<x, j>> \in R
        BY <3>1, <3>3
      <4> QED BY <2>1, <4>1
    <3> QED BY <2>1, <3>1, <3>2, <3>3
  <2> QED BY <2>2, <2>3
<1>2. S \in P
  <2> HIDE DEF P
  <2> QED BY <1>1, SubsetInduction
<1> QED BY <1>2

\* A positive factor keeps a strict order.
LEMMA Products ==
  ASSUME NEW x \in Int, NEW y \in Int, NEW t \in Int, t > 0, x < y
  PROVE  x * t < y * t /\ x * t \in Int /\ y * t \in Int
<1>1. (y - x) * t > 0
  OBVIOUS
<1>2. (y - x) * t = y * t - x * t
  OBVIOUS
<1> QED BY <1>1, <1>2

\* A table of three classes gives the first whose guard holds.
LEMMA ChosenClass ==
  ASSUME NEW a \in BOOLEAN, NEW b \in BOOLEAN, NEW x, NEW y, NEW z
  PROVE  /\ a => First(<< <<a, x>>, <<b, y>>, <<Otherwise, z>> >>) = x
         /\ ~a /\ b => First(<< <<a, x>>, <<b, y>>, <<Otherwise, z>> >>) = y
         /\ ~a /\ ~b => First(<< <<a, x>>, <<b, y>>, <<Otherwise, z>> >>) = z
<1> DEFINE rows == << <<a, x>>, <<b, y>>, <<Otherwise, z>> >>
<1>0. /\ DOMAIN rows = 1..3
      /\ rows[1] = <<a, x>> /\ rows[2] = <<b, y>> /\ rows[3] = <<Otherwise, z>>
  OBVIOUS
<1> HIDE DEF rows
<1>1. /\ DOMAIN rows = {1, 2, 3} /\ DOMAIN rows \subseteq Nat /\ Otherwise
      /\ rows[1] = <<a, x>> /\ rows[2] = <<b, y>> /\ rows[3] = <<Otherwise, z>>
  BY <1>0 DEF Otherwise
<1>2. 3 \in DOMAIN rows /\ rows[3][1]
  BY <1>1
<1>3. a => rows[1][1]
  BY <1>1
<1>4. b => rows[2][1]
  BY <1>1
<1>5. ASSUME a PROVE First(rows) = x
  <2>1. PICK k \in DOMAIN rows : rows[k][1] /\ First(rows) = rows[k][2] /\ k <= 1
    BY <1>1, <1>3, <1>5, SomeHeld
  <2>2. k = 1
    BY <1>1, <2>1
  <2> QED BY <1>1, <2>1, <2>2
<1>6. ASSUME ~a, b PROVE First(rows) = y
  <2>1. PICK k \in DOMAIN rows : rows[k][1] /\ First(rows) = rows[k][2] /\ k <= 2
    BY <1>1, <1>4, <1>6, SomeHeld
  <2>2. k # 1
    BY <1>1, <1>6, <2>1
  <2>3. k = 2
    BY <1>1, <2>1, <2>2
  <2> QED BY <1>1, <2>1, <2>3
<1>7. ASSUME ~a, ~b PROVE First(rows) = z
  <2>1. PICK k \in DOMAIN rows : rows[k][1] /\ First(rows) = rows[k][2] /\ k <= 3
    BY <1>1, <1>2, SomeHeld
  <2>2. k # 1 /\ k # 2
    BY <1>1, <1>7, <2>1
  <2>3. k = 3
    BY <1>1, <2>1, <2>2
  <2> QED BY <1>1, <2>1, <2>3
<1> QED BY <1>5, <1>6, <1>7 DEF rows

\* The revenue of each item, and portfolios whose candidates have one.
Revenues(p) == [i \in DOMAIN p |-> p[i].abc.revenue]
Paying(p) ==
  /\ IsFiniteSet(DOMAIN p) /\ DOMAIN p \subseteq Int
  /\ \A i \in Candidates(p) : p[i].abc.revenue \in Nat /\ p[i].abc.revenue > 0

\* An item with no ABC reason has revenue.
LEMMA CandidatePays ==
  ASSUME NEW m, Counted(m), AbcReason(m) = None
  PROVE  m.abc.revenue > 0
<1> DEFINE invalid == m.abc.invalid > 0
           short   == m.abc.rows = 0
           missing == m.abc.revenue <= 0
<1>1. First(<< <<invalid, "INVALID_ABC_SOURCE_RECORD">>, <<short, "INSUFFICIENT_ABC_HISTORY">>,
               <<missing, "MISSING_REVENUE">> >>) = None
  BY Zenon DEF AbcReason
<1>2. invalid \in BOOLEAN /\ short \in BOOLEAN /\ missing \in BOOLEAN
  OBVIOUS
<1>3. /\ "INVALID_ABC_SOURCE_RECORD" # None /\ "INSUFFICIENT_ABC_HISTORY" # None
      /\ "MISSING_REVENUE" # None
  BY DEF None
<1>4. ~missing
  <2> HIDE DEF invalid, short, missing
  <2> QED BY <1>1, <1>2, <1>3, First3
<1> QED BY <1>4 DEF Counted

\* The revenue of a set of items is a total.
LEMMA RevenueIs ==
  ASSUME NEW p, IsFiniteSet(DOMAIN p), NEW S \in SUBSET DOMAIN p
  PROVE  Revenue(p, S) = Total(Revenues(p), S)
<1> DEFINE g == [i \in S |-> p[i].abc.revenue]
<1>1. Revenue(p, S) = SumFunction(g)
  BY Zenon DEF Revenue
<1>2. SumFunction(g) = Total(g, S)
  BY DEF SumFunction, Total
<1>3. IsFiniteSet(S) /\ \A i \in S : g[i] = Revenues(p)[i]
  BY FS_Subset DEF Revenues
<1> HIDE DEF g
<1>4. Total(g, S) = Total(Revenues(p), S)
  BY <1>3, TotalSame
<1> QED BY <1>1, <1>2, <1>4

\* The candidates ranked before a share of all revenue is reached.
HeadOf(p, share) ==
  {i \in Candidates(p) :
     100 * Revenue(p, RankedBefore(p, i)) < share * Revenue(p, Candidates(p))}

IsHeadOf(p, items, share) ==
  /\ items # {}
  /\ \A i \in items, j \in Candidates(p) \ items : p[i].abc.revenue >= p[j].abc.revenue
  /\ 100 * Revenue(p, items) >= share * Revenue(p, Candidates(p))
  /\ 100 * (Revenue(p, items) - Min({p[i].abc.revenue : i \in items}))
       < share * Revenue(p, Candidates(p))

\* A head is the shortest that carries its share.
LEMMA HeadCarries ==
  ASSUME NEW p, Paying(p), Candidates(p) # {}, NEW share \in Int, 0 < share, share < 100
  PROVE  IsHeadOf(p, HeadOf(p, share), share)
<1> DEFINE C == Candidates(p)
           f == Revenues(p)
           H == HeadOf(p, share)
           total == Total(f, C)
           aim == share * total
           Before(i) == RankedBefore(p, i)
           R == {x \in C \X C : x[1] \in Before(x[2])}
           Q == {x \in C \X C : x[2] \in Before(x[1])}
<1>1. /\ C \subseteq DOMAIN p /\ IsFiniteSet(C) /\ C \subseteq Int
      /\ \A i \in C : f[i] = p[i].abc.revenue /\ f[i] \in Nat /\ f[i] > 0
  BY FS_Subset DEF Candidates, Paying, Revenues
<1>2. \A S \in SUBSET C : IsFiniteSet(S) /\ Revenue(p, S) = Total(f, S)
  BY <1>1, FS_Subset, RevenueIs DEF Paying
<1>3. \A S, T \in SUBSET C :
        /\ Total(f, S) \in Nat
        /\ S \subseteq T => Total(f, S) <= Total(f, T)
  <2> SUFFICES ASSUME NEW S \in SUBSET C, NEW T \in SUBSET C
               PROVE  Total(f, S) \in Nat /\ (S \subseteq T => Total(f, S) <= Total(f, T))
    OBVIOUS
  <2>1. IsFiniteSet(S) /\ IsFiniteSet(T) /\ \A i \in S : f[i] \in Nat
    BY <1>1, <1>2
  <2>2. \A i \in T : f[i] \in Nat
    BY <1>1
  <2> HIDE DEF f, C
  <2>3. Total(f, S) \in Nat
    BY <2>1, TotalNat
  <2>4. S \subseteq T => Total(f, S) <= Total(f, T)
    BY <2>1, <2>2, TotalGrows
  <2> QED BY <2>3, <2>4
<1>4. \A i, j \in C : j \in Before(i) <=> f[j] > f[i] \/ (f[j] = f[i] /\ j < i)
  BY <1>1 DEF RankedBefore
<1>5. \A i \in C : Before(i) \subseteq C
  BY DEF RankedBefore
<1>6. \A i, j \in C : i = j \/ i \in Before(j) \/ j \in Before(i)
  <2> HIDE DEF C, f, Before
  <2> QED BY <1>1, <1>4
<1>7. \A i, j, k \in C : i \in Before(j) /\ j \in Before(k) => i \in Before(k)
  <2> HIDE DEF C, f, Before
  <2> QED BY <1>1, <1>4
<1>8. \A i \in C : i \notin Before(i)
  <2> HIDE DEF C, f, Before
  <2> QED BY <1>1, <1>4
<1>9. \A S \in SUBSET C : S # {} => \E m \in S : \A j \in S : j = m \/ m \in Before(j)
  <2> SUFFICES ASSUME NEW S \in SUBSET C, S # {}
               PROVE  \E m \in S : \A j \in S : j = m \/ m \in Before(j)
    OBVIOUS
  <2>1. IsFiniteSet(S)
    BY <1>2
  <2> HIDE DEF C, f, Before
  <2>2. \A x, y \in C : <<x, y>> \in R <=> x \in Before(y)
    OBVIOUS
  <2> HIDE DEF R
  <2>3. \E m \in S : \A j \in S : j = m \/ <<m, j>> \in R
    <3>1. \A x, y, z \in S : <<x, y>> \in R /\ <<y, z>> \in R => <<x, z>> \in R
      BY <1>7, <2>2
    <3>2. \A x, y \in S : x = y \/ <<x, y>> \in R \/ <<y, x>> \in R
      BY <1>6, <2>2
    <3> QED BY <2>1, <3>1, <3>2, FirstOf
  <2> QED BY <2>2, <2>3
<1>10. \A S \in SUBSET C : S # {} => \E m \in S : \A j \in S : j = m \/ j \in Before(m)
  <2> SUFFICES ASSUME NEW S \in SUBSET C, S # {}
               PROVE  \E m \in S : \A j \in S : j = m \/ j \in Before(m)
    OBVIOUS
  <2>1. IsFiniteSet(S)
    BY <1>2
  <2> HIDE DEF C, f, Before
  <2>2. \A x, y \in C : <<x, y>> \in Q <=> y \in Before(x)
    OBVIOUS
  <2> HIDE DEF Q
  <2>3. \A x, y, z \in S : <<x, y>> \in Q /\ <<y, z>> \in Q => <<x, z>> \in Q
    BY <1>7, <2>2
  <2>4. \A x, y \in S : x = y \/ <<x, y>> \in Q \/ <<y, x>> \in Q
    BY <1>6, <2>2
  <2>5. \E m \in S : \A j \in S : j = m \/ <<m, j>> \in Q
    BY <2>1, <2>3, <2>4, FirstOf
  <2> QED BY <2>2, <2>5
<1>11. /\ H = {i \in C : 100 * Total(f, Before(i)) < aim} /\ H \subseteq C
       /\ Revenue(p, C) = total /\ Revenue(p, H) = Total(f, H)
  <2>1. \A i \in C : Revenue(p, Before(i)) = Total(f, Before(i))
    BY <1>2, <1>5
  <2>2. Revenue(p, C) = total /\ H \subseteq C
    BY <1>2 DEF HeadOf
  <2>3. H = {i \in C : 100 * Total(f, Before(i)) < aim}
    BY <2>1, <2>2 DEF HeadOf
  <2> QED BY <1>2, <2>2, <2>3
<1> HIDE DEF C, f, Before, R, Q, H
<1>12. total \in Nat /\ total > 0
  <2>1. PICK x \in C : TRUE
    BY DEF C
  <2>2. {x} \in SUBSET C /\ total \in Nat /\ Total(f, {x}) <= total
    BY <1>3, <2>1
  <2>3. Total(f, {x}) = f[x] + Total(f, {})
    <3>1. IsFiniteSet({x}) /\ {x} \ {x} = {} /\ \A y \in {x} : f[y] \in Int
      BY <1>1, <1>2, <2>2
    <3> QED BY <3>1, TotalTake
  <2>4. Total(f, {x}) = f[x]
    BY <1>1, <2>3, TotalEmpty
  <2> QED BY <1>1, <2>2, <2>4
<1> HIDE DEF total
<1>13. aim \in Int /\ 0 < aim /\ aim <= 100 * total
  <2>1. 0 * total < share * total /\ share * total < 100 * total
    BY <1>12, Products
  <2> QED BY <1>12, <2>1
<1> HIDE DEF aim
<1>14. H # {}
  <2>1. PICK m \in C : \A j \in C : j = m \/ m \in Before(j)
    BY <1>9 DEF C
  <2>2. Before(m) = {}
    <3> SUFFICES ASSUME NEW j \in Before(m) PROVE FALSE
      OBVIOUS
    <3>1. j \in C
      BY <1>5
    <3> QED BY <1>7, <1>8, <2>1, <3>1
  <2>3. 100 * Total(f, Before(m)) < aim
    BY <1>13, <2>2, TotalEmpty
  <2> QED BY <1>11, <2>3
<1>15. \A i \in H, j \in C \ H : f[i] >= f[j]
  <2> SUFFICES ASSUME NEW i \in H, NEW j \in C \ H, f[i] < f[j]
               PROVE  FALSE
    BY <1>1, <1>11
  <2>1. i \in C /\ j \in Before(i)
    BY <1>1, <1>4, <1>11
  <2>2. Before(j) \subseteq Before(i)
    <3>1. \A k \in Before(j) : k \in C
      BY <1>5
    <3> QED BY <1>7, <2>1, <3>1
  <2>3. /\ Total(f, Before(j)) <= Total(f, Before(i))
        /\ Total(f, Before(j)) \in Nat /\ Total(f, Before(i)) \in Nat
    BY <1>3, <1>5, <2>1, <2>2
  <2>4. 100 * Total(f, Before(i)) < aim /\ ~(100 * Total(f, Before(j)) < aim)
    BY <1>11
  <2> QED BY <1>13, <2>3, <2>4
<1>16. 100 * Total(f, H) >= aim
  <2>1. CASE H = C
    BY <1>12, <1>13, <2>1 DEF total
  <2>2. CASE H # C
    <3>1. PICK m \in C \ H : \A j \in C \ H : j = m \/ m \in Before(j)
      BY <1>9, <1>11, <2>2
    <3>2. Before(m) \subseteq H
      <4> SUFFICES ASSUME NEW j \in Before(m), j \notin H PROVE FALSE
        OBVIOUS
      <4>1. j \in C \ H
        BY <1>5
      <4> QED BY <1>7, <1>8, <3>1, <4>1
    <3>3. /\ Total(f, Before(m)) <= Total(f, H)
          /\ Total(f, Before(m)) \in Nat /\ Total(f, H) \in Nat
      BY <1>3, <1>5, <1>11, <3>1, <3>2
    <3>4. ~(100 * Total(f, Before(m)) < aim)
      BY <1>11, <3>1
    <3> QED BY <1>13, <3>3, <3>4
  <2> QED BY <2>1, <2>2
<1>17. 100 * (Total(f, H) - Min({f[i] : i \in H})) < aim
  <2>1. PICK z \in H : \A j \in H : j = z \/ j \in Before(z)
    BY <1>10, <1>11, <1>14
  <2>2. z \in C /\ \A j \in H : j \in C /\ f[j] >= f[z]
    <3>1. z \in C /\ \A j \in H : j \in C
      BY <1>11, <2>1
    <3>2. ASSUME NEW j \in H PROVE f[j] >= f[z]
      <4>1. j = z \/ f[j] > f[z] \/ f[j] = f[z]
        BY <1>4, <2>1, <3>1
      <4> QED BY <1>1, <3>1, <4>1
    <3> QED BY <3>1, <3>2
  <2>3. Min({f[i] : i \in H}) = f[z]
    <3> DEFINE V == {f[i] : i \in H}
    <3>1. f[z] \in V /\ \A v \in V : v \in Nat /\ f[z] <= v
      BY <1>1, <2>1, <2>2
    <3>2. \A v \in V : (\A y \in V : v <= y) => v = f[z]
      BY <3>1
    <3> HIDE DEF V
    <3>3. Min(V) = f[z]
      BY <3>1, <3>2 DEF Min
    <3> QED BY <3>3 DEF V
  <2>4. Total(f, H) = f[z] + Total(f, H \ {z})
    <3>1. IsFiniteSet(H) /\ \A y \in H : f[y] \in Int
      BY <1>1, <1>2, <1>11
    <3> QED BY <2>1, <3>1, TotalTake
  <2>5. H \ {z} \subseteq Before(z) /\ Before(z) \subseteq C
    BY <1>5, <2>1, <2>2
  <2>6. /\ Total(f, H \ {z}) <= Total(f, Before(z))
        /\ Total(f, H \ {z}) \in Nat /\ Total(f, Before(z)) \in Nat
    BY <1>3, <1>11, <2>5
  <2>7. 100 * Total(f, Before(z)) < aim /\ f[z] \in Nat
    BY <1>1, <1>11, <2>1
  <2> QED BY <1>13, <2>3, <2>4, <2>6, <2>7
<1>18. {f[i] : i \in H} = {p[i].abc.revenue : i \in H}
  BY <1>1, <1>11
<1>19. \A i \in H, j \in C \ H : p[i].abc.revenue >= p[j].abc.revenue
  BY <1>1, <1>11, <1>15
<1>20. /\ 100 * Revenue(p, H) >= share * Revenue(p, C)
       /\ 100 * (Revenue(p, H) - Min({p[i].abc.revenue : i \in H})) < share * Revenue(p, C)
  BY <1>11, <1>16, <1>17, <1>18 DEF aim
<1> QED BY <1>14, <1>19, <1>20 DEF IsHeadOf, C, H

\* Every candidate of a sound document has revenue.
LEMMA SoundPays ==
  ASSUME NEW s, DocumentSound(s)
  PROVE  Paying(s.metrics)
<1>1. \A i \in Candidates(s.metrics) : i \in DOMAIN s.metrics /\ AbcReason(s.metrics[i]) = None
  BY DEF Candidates
<1>2. /\ IsFiniteSet(DOMAIN s.metrics) /\ DOMAIN s.metrics \subseteq Int
      /\ \A i \in DOMAIN s.metrics : Counted(s.metrics[i])
  BY DEF DocumentSound
<1>3. \A i \in DOMAIN s.metrics : s.metrics[i].abc.revenue \in Int
  BY <1>2 DEF Counted
<1>4. \A i \in Candidates(s.metrics) : s.metrics[i].abc.revenue > 0
  BY <1>1, <1>2, CandidatePays
<1> QED BY <1>1, <1>2, <1>3, <1>4 DEF Paying

\* The A items are the head of share a, the A and B items the head of share b.
LEMMA ClassesAreHeads ==
  ASSUME NEW p, NEW c, Paying(p), c.abc.a \in Int, c.abc.b \in Int, c.abc.a < c.abc.b
  PROVE  LET of(g) == {i \in DOMAIN p : ClassifiedItem(p, c, i).abc \in g}
         IN /\ of({"A", "B", "C"}) = Candidates(p)
            /\ of({"A"}) = HeadOf(p, c.abc.a)
            /\ of({"A", "B"}) = HeadOf(p, c.abc.b)
<1> DEFINE of(g) == {i \in DOMAIN p : ClassifiedItem(p, c, i).abc \in g}
           C == Candidates(p)
           total == Revenue(p, C)
           before(i) == 100 * Revenue(p, RankedBefore(p, i))
           inA(i) == before(i) < c.abc.a * total
           inB(i) == before(i) < c.abc.b * total
<1>1. \A i : AbcClass(p, c.abc, i) = First(<< <<inA(i), "A">>, <<inB(i), "B">>, <<Otherwise, "C">> >>)
  BY Zenon DEF AbcClass
<1>2. ASSUME NEW i \in C PROVE inA(i) => inB(i)
  <2>1. /\ C \subseteq DOMAIN p /\ IsFiniteSet(C) /\ IsFiniteSet(DOMAIN p)
        /\ \A j \in C : Revenues(p)[j] \in Nat /\ Revenues(p)[j] = p[j].abc.revenue
    BY FS_Subset DEF Candidates, Paying, Revenues
  <2>2. RankedBefore(p, i) \subseteq C
    BY DEF RankedBefore
  <2>3. /\ total = Total(Revenues(p), C)
        /\ Revenue(p, RankedBefore(p, i)) = Total(Revenues(p), RankedBefore(p, i))
    <3> HIDE DEF C
    <3>1. RankedBefore(p, i) \subseteq DOMAIN p
      BY <2>1, <2>2
    <3> QED BY <2>1, <3>1, RevenueIs
  <2>4. total \in Nat /\ Revenue(p, RankedBefore(p, i)) \in Nat
    <3> HIDE DEF C, total
    <3>1. RankedBefore(p, i) \in SUBSET C
      BY <2>2
    <3>2. /\ Total(Revenues(p), C) \in Nat
          /\ Total(Revenues(p), RankedBefore(p, i)) \in Nat
      BY <2>1, <3>1, TotalGrows
    <3> QED BY <2>3, <3>2
  <2>5. before(i) \in Int
    BY <2>4
  <2> HIDE DEF total, before, C
  <2>6. CASE total = 0
    BY <2>5, <2>6
  <2>7. CASE total > 0
    <3>1. /\ c.abc.a * total < c.abc.b * total
          /\ c.abc.a * total \in Int /\ c.abc.b * total \in Int
      BY <2>4, <2>7, Products
    <3> QED BY <2>5, <3>1
  <2> QED BY <2>4, <2>6, <2>7
<1>3. \A i : inA(i) \in BOOLEAN /\ inB(i) \in BOOLEAN
  OBVIOUS
<1>4. /\ HeadOf(p, c.abc.a) = {i \in C : inA(i)}
      /\ HeadOf(p, c.abc.b) = {i \in C : inB(i)}
  BY Zenon DEF HeadOf
<1>5. \A i \in DOMAIN p : i \in C <=> AbcReason(p[i]) = None
  BY DEF Candidates
<1>6. C \subseteq DOMAIN p
  BY DEF Candidates
<1> HIDE DEF inA, inB, C
<1>7. ASSUME NEW i \in DOMAIN p
      PROVE  /\ ClassifiedItem(p, c, i).abc \in {"A", "B", "C"} <=> i \in C
             /\ ClassifiedItem(p, c, i).abc = "A" <=> i \in C /\ inA(i)
             /\ ClassifiedItem(p, c, i).abc \in {"A", "B"} <=> i \in C /\ inB(i)
  <2>1. ClassifiedItem(p, c, i).abc = IF i \in C THEN AbcClass(p, c.abc, i) ELSE None
    BY <1>5, ItemAbc
  <2>2. /\ inA(i) => AbcClass(p, c.abc, i) = "A"
        /\ ~inA(i) /\ inB(i) => AbcClass(p, c.abc, i) = "B"
        /\ ~inA(i) /\ ~inB(i) => AbcClass(p, c.abc, i) = "C"
    <3> DEFINE u == inA(i)
               w == inB(i)
    <3>1. /\ AbcClass(p, c.abc, i) = First(<< <<u, "A">>, <<w, "B">>, <<Otherwise, "C">> >>)
          /\ u \in BOOLEAN /\ w \in BOOLEAN
      BY <1>1, <1>3
    <3> HIDE DEF u, w
    <3>2. /\ u => AbcClass(p, c.abc, i) = "A"
          /\ ~u /\ w => AbcClass(p, c.abc, i) = "B"
          /\ ~u /\ ~w => AbcClass(p, c.abc, i) = "C"
      BY <3>1, ChosenClass
    <3> QED BY <3>2 DEF u, w
  <2>3. None \notin {"A", "B", "C"}
    BY DEF None
  <2>4. i \in C => (inA(i) => inB(i))
    BY <1>2
  <2> QED BY <2>1, <2>2, <2>3, <2>4
<1>8. of({"A", "B", "C"}) = C
  BY <1>6, <1>7
<1>9. of({"A"}) = {i \in C : inA(i)}
  BY <1>6, <1>7
<1>10. of({"A", "B"}) = {i \in C : inB(i)}
  BY <1>6, <1>7
<1> QED BY <1>4, <1>8, <1>9, <1>10 DEF C

\* The A items, and the A and B items, are the shortest head of the revenue ranking
\* that carries its configured share (classify_portfolio).
THEOREM HeadsCarryShares == SnapshotSpec => []HeadsCarryTheirShare
<1>1. SnapshotSound => HeadsCarryTheirShare
  <2> SUFFICES ASSUME SnapshotSound, snapshot # Nothing
               PROVE  HeadsCarryTheirShare
    BY DEF HeadsCarryTheirShare
  <2> DEFINE s == snapshot
             p == s.metrics
             c == s.config
             of(g) == {i \in DOMAIN p : s.items[i].abc \in g}
  <2>1. DocumentSound(s)
    BY DEF SnapshotSound
  <2>2. Paying(p) /\ Candidates(p) # {}
    BY <2>1, SoundPays DEF DocumentSound
  <2>3. /\ c.abc.a \in Int /\ c.abc.b \in Int
        /\ 0 < c.abc.a /\ c.abc.a < c.abc.b /\ c.abc.b < 100
    <3>1. c \in Configs
      BY <2>1 DEF DocumentSound
    <3> HIDE DEF c
    <3>2. {c.abc.a, c.abc.b} \subseteq 1..99 /\ c.abc.a < c.abc.b
      BY <3>1, ConfigTypes, Zenon DEF V1ConfigValid, RulesValid
    <3> QED BY <3>2
  <2>4. \A i \in DOMAIN p : s.items[i] = ClassifiedItem(p, c, i)
    BY <2>1 DEF DocumentSound
  <2>5. \A g : of(g) = {i \in DOMAIN p : ClassifiedItem(p, c, i).abc \in g}
    BY <2>4
  <2> HIDE DEF s, p, c, of
  <2>6. /\ of({"A", "B", "C"}) = Candidates(p)
        /\ of({"A"}) = HeadOf(p, c.abc.a) /\ of({"A", "B"}) = HeadOf(p, c.abc.b)
    BY <2>2, <2>3, <2>5, ClassesAreHeads
  <2>7. /\ IsHeadOf(p, of({"A"}), c.abc.a)
        /\ IsHeadOf(p, of({"A", "B"}), c.abc.b)
    BY <2>2, <2>3, <2>6, HeadCarries
  <2>8. HeadsCarryTheirShare <=>
          (s # Nothing =>
             LET total == Revenue(p, of({"A", "B", "C"}))
                 IsHead(items, share) ==
                   LET least == Min({p[i].abc.revenue : i \in items})
                   IN /\ items # {}
                      /\ \A i \in items, j \in of({"A", "B", "C"}) \ items :
                           p[i].abc.revenue >= p[j].abc.revenue
                      /\ 100 * Revenue(p, items) >= share * total
                      /\ 100 * (Revenue(p, items) - least) < share * total
             IN IsHead(of({"A"}), c.abc.a) /\ IsHead(of({"A", "B"}), c.abc.b))
    BY Zenon DEF HeadsCarryTheirShare, s, p, c, of
  <2> QED BY <2>6, <2>7, <2>8, Zenon DEF IsHeadOf
<1> QED BY <1>1, SnapshotsSound, PTL

-----------------------------------------------------------------------------
(* Why the publisher refuses a document.                                    *)

\* A table of which no row holds gives no value.
LEMMA NoneHolds ==
  ASSUME NEW rows, \A k \in DOMAIN rows : ~rows[k][1]
  PROVE  First(rows) = None
<1>1. {k \in DOMAIN rows : rows[k][1]} = {}
  OBVIOUS
<1> QED BY <1>1 DEF First

\* A table gives no value or one of its own.
LEMMA FirstAmong ==
  ASSUME NEW rows, DOMAIN rows \subseteq Nat
  PROVE  First(rows) = None \/ \E k \in DOMAIN rows : First(rows) = rows[k][2]
<1>1. CASE \E h \in DOMAIN rows : rows[h][1]
  <2>1. PICK h \in DOMAIN rows : rows[h][1]
    BY <1>1
  <2>2. \E k \in DOMAIN rows : rows[k][1] /\ First(rows) = rows[k][2] /\ k <= h
    BY <2>1, SomeHeld
  <2> QED BY <2>2
<1>2. CASE \A k \in DOMAIN rows : ~rows[k][1]
  BY <1>2, NoneHolds
<1> QED BY <1>1, <1>2

\* Three rows that name something give no value exactly when none of them holds, and
\* never a value that none of them names.
LEMMA Table3 ==
  ASSUME NEW a \in BOOLEAN, NEW b \in BOOLEAN, NEW c \in BOOLEAN, NEW x, NEW y, NEW z,
         x # None, y # None, z # None
  PROVE  /\ First(<< <<a, x>>, <<b, y>>, <<c, z>> >>) = None <=> ~a /\ ~b /\ ~c
         /\ First(<< <<a, x>>, <<b, y>>, <<c, z>> >>) \in {None, x, y, z}
<1> DEFINE rows == << <<a, x>>, <<b, y>>, <<c, z>> >>
<1>1. /\ DOMAIN rows = 1..3
      /\ rows[1] = <<a, x>> /\ rows[2] = <<b, y>> /\ rows[3] = <<c, z>>
  OBVIOUS
<1> HIDE DEF rows
<1>2. /\ DOMAIN rows = {1, 2, 3} /\ DOMAIN rows \subseteq Nat
      /\ rows[1] = <<a, x>> /\ rows[2] = <<b, y>> /\ rows[3] = <<c, z>>
  BY <1>1
<1>3. \A k \in DOMAIN rows : rows[k][2] \in {x, y, z} /\ rows[k][2] # None
  BY <1>2
<1>4. First(rows) \in {None, x, y, z}
  BY <1>2, <1>3, FirstAmong
<1>5. ASSUME ~a, ~b, ~c PROVE First(rows) = None
  <2>1. \A k \in DOMAIN rows : ~rows[k][1]
    BY <1>2, <1>5
  <2> QED BY <2>1, NoneHolds
<1>6. ASSUME First(rows) = None PROVE ~a /\ ~b /\ ~c
  <2>1. \A k \in DOMAIN rows : ~rows[k][1]
    BY <1>2, <1>3, <1>6, NoneHeld
  <2> QED BY <1>2, <2>1
<1> QED BY <1>4, <1>5, <1>6 DEF rows

\* A table in which every row names something gives no value exactly when none of them
\* holds, and otherwise one of its own.
LEMMA RowsDecide ==
  ASSUME NEW rows, DOMAIN rows \subseteq Nat, \A k \in DOMAIN rows : rows[k][2] # None
  PROVE  /\ First(rows) = None <=> \A k \in DOMAIN rows : ~rows[k][1]
         /\ First(rows) = None \/ \E k \in DOMAIN rows : First(rows) = rows[k][2]
BY NoneHeld, NoneHolds, FirstAmong

\* What the publisher says of an item: nothing exactly when its six checks pass.
LEMMA ItemChecked ==
  ASSUME NEW s, NEW i
  PROVE  /\ V2ItemRefusal(s, i) = None <=>
              /\ ValidV2(s.policies[i]) /\ s.policies[i].config = s.config.name
              /\ \A a \in Axes : AxisValid(a, s.axes[i][a])
              /\ ProjectionMatches(s.policies[i], s.axes[i])
              /\ BaseMatches(s.items[i], s.axes[i]) /\ RevenueStated(s.items[i])
         /\ V2ItemRefusal(s, i) # "PUBLISHED"
<1> DEFINE a == ~ValidV2(s.policies[i])
           b == s.policies[i].config # s.config.name
           c == \E x \in Axes : ~AxisValid(x, s.axes[i][x])
           d == ~ProjectionMatches(s.policies[i], s.axes[i])
           e == ~BaseMatches(s.items[i], s.axes[i])
           f == ~RevenueStated(s.items[i])
           u == "ITEM_POLICY_SEMANTICS_INVALID"
           v == "CLASSIFICATION_V2_POLICY_BINDING_MISMATCH"
           w == "CLASSIFICATION_V2_AXIS_RESULTS_INVALID"
           x == "CLASSIFICATION_V2_AXIS_PROJECTION_MISMATCH"
           y == "CLASSIFICATION_V2_BASE_CLASSIFICATION_MISMATCH"
           z == "CLASSIFICATION_SNAPSHOT_REVENUE_INVALID"
<1>1. V2ItemRefusal(s, i) =
        First(<< <<a, u>>, <<b, v>>, <<c, w>>, <<d, x>>, <<e, y>>, <<f, z>> >>)
  BY Zenon DEF V2ItemRefusal
<1>2. /\ a \in BOOLEAN /\ b \in BOOLEAN /\ c \in BOOLEAN /\ d \in BOOLEAN /\ e \in BOOLEAN
      /\ f \in BOOLEAN
  OBVIOUS
<1>3. /\ u # None /\ v # None /\ w # None /\ x # None /\ y # None /\ z # None
      /\ "PUBLISHED" \notin {None, u, v, w, x, y, z}
  BY DEF None
<1> HIDE DEF a, b, c, d, e, f, u, v, w, x, y, z
<1> DEFINE table == << <<a, u>>, <<b, v>>, <<c, w>>, <<d, x>>, <<e, y>>, <<f, z>> >>
<1>4. V2ItemRefusal(s, i) = First(table)
  BY <1>1
<1>5. /\ DOMAIN table = 1..6
      /\ table[1] = <<a, u>> /\ table[2] = <<b, v>> /\ table[3] = <<c, w>>
      /\ table[4] = <<d, x>> /\ table[5] = <<e, y>> /\ table[6] = <<f, z>>
  OBVIOUS
<1> HIDE DEF table
<1>6. /\ DOMAIN table \subseteq Nat
      /\ 1 \in DOMAIN table /\ 2 \in DOMAIN table /\ 3 \in DOMAIN table
      /\ 4 \in DOMAIN table /\ 5 \in DOMAIN table /\ 6 \in DOMAIN table
      /\ \A k \in DOMAIN table : k = 1 \/ k = 2 \/ k = 3 \/ k = 4 \/ k = 5 \/ k = 6
  BY <1>5
<1>7. \A k \in DOMAIN table : table[k][2] # None /\ table[k][2] # "PUBLISHED"
  BY <1>3, <1>5, <1>6
<1>8. /\ First(table) = None <=> \A k \in DOMAIN table : ~table[k][1]
      /\ First(table) = None \/ \E k \in DOMAIN table : First(table) = table[k][2]
  BY <1>6, <1>7, RowsDecide
<1>9. (\A k \in DOMAIN table : ~table[k][1]) <=> ~a /\ ~b /\ ~c /\ ~d /\ ~e /\ ~f
  <2>1. /\ table[1][1] = a /\ table[2][1] = b /\ table[3][1] = c
        /\ table[4][1] = d /\ table[5][1] = e /\ table[6][1] = f
    BY <1>5
  <2> QED BY <1>2, <1>6, <2>1
<1>10. V2ItemRefusal(s, i) # "PUBLISHED"
  BY <1>3, <1>4, <1>7, <1>8
<1> QED BY <1>4, <1>8, <1>9, <1>10, Zenon DEF a, b, c, d, e, f

\* A finite set of numbers that is not empty has a least one.
LEMMA LeastOf ==
  ASSUME NEW S, IsFiniteSet(S), S \subseteq Int, S # {}
  PROVE  Min(S) \in S
<1> DEFINE R == {pair \in S \X S : pair[1] <= pair[2]}
<1>1. \A x, y \in S : x = y \/ <<x, y>> \in R \/ <<y, x>> \in R
  OBVIOUS
<1>2. \A x, y, z \in S : <<x, y>> \in R /\ <<y, z>> \in R => <<x, z>> \in R
  OBVIOUS
<1>3. \A x, y \in S : <<x, y>> \in R => x <= y
  OBVIOUS
<1> HIDE DEF R
<1>4. PICK m \in S : \A j \in S : j = m \/ <<m, j>> \in R
  BY <1>1, <1>2, FirstOf
<1>5. ASSUME NEW j \in S PROVE m <= j
  <2>1. j = m \/ <<m, j>> \in R
    BY <1>4
  <2>2. <<m, j>> \in R => m <= j
    BY <1>3, Zenon
  <2> QED BY <2>1, <2>2
<1> QED BY <1>5 DEF Min

\* Whoever passes the header and the checks of the whole is refused for an item.
LEMMA ItemsDecide ==
  ASSUME NEW s, IsFiniteSet(DOMAIN s.items), DOMAIN s.items \subseteq Int, HeaderValid(s),
         \A a \in Axes : AxisUniform(s, a), AggregatesMatch(s), WindowsMatch(s)
  PROVE  /\ V2Refusal(s) = None <=> \A i \in DOMAIN s.items : V2ItemRefusal(s, i) = None
         /\ V2Refusal(s) # "PUBLISHED"
<1> DEFINE refused == {i \in DOMAIN s.items : V2ItemRefusal(s, i) # None}
           a == \E x \in Axes : ~AxisUniform(s, x)
           b == ~AggregatesMatch(s)
           c == ~WindowsMatch(s)
           whole == First(<< <<a, "CLASSIFICATION_V2_AXIS_RESULTS_INVALID">>,
                             <<b, "CLASSIFICATION_SNAPSHOT_AGGREGATE_MISMATCH">>,
                             <<c, "CLASSIFICATION_V2_AXIS_WINDOWS_INVALID">> >>)
<1>1. V2Refusal(s) = IF ~HeaderValid(s) THEN "CLASSIFICATION_V2_HEADER_INVALID"
                     ELSE IF refused # {} THEN V2ItemRefusal(s, Min(refused)) ELSE whole
  BY Zenon DEF V2Refusal
<1>2. whole = None
  <2>1. ~a /\ ~b /\ ~c /\ a \in BOOLEAN /\ b \in BOOLEAN /\ c \in BOOLEAN
    OBVIOUS
  <2>2. /\ "CLASSIFICATION_V2_AXIS_RESULTS_INVALID" # None
        /\ "CLASSIFICATION_SNAPSHOT_AGGREGATE_MISMATCH" # None
        /\ "CLASSIFICATION_V2_AXIS_WINDOWS_INVALID" # None
    BY DEF None
  <2> HIDE DEF a, b, c
  <2> QED BY <2>1, <2>2, Table3
<1> HIDE DEF whole
<1>3. CASE refused = {}
  BY <1>1, <1>2, <1>3 DEF None
<1>4. CASE refused # {}
  <2>1. IsFiniteSet(refused) /\ refused \subseteq Int
    BY FS_Subset
  <2>2. Min(refused) \in refused
    <3> HIDE DEF refused
    <3> QED BY <1>4, <2>1, LeastOf
  <2>3. V2ItemRefusal(s, Min(refused)) # None /\ V2ItemRefusal(s, Min(refused)) # "PUBLISHED"
    BY <2>2, ItemChecked
  <2> QED BY <1>1, <1>4, <2>2, <2>3
<1> QED BY <1>3, <1>4

\* The result of an optional axis is off, without evidence, or classified.
IsGrade(r, rules, reason, class) ==
  \/ /\ ~rules.enabled /\ r.mode = "SHADOW"
     /\ r.status = "NOT_APPLICABLE" /\ r.class = None /\ r.reason = "AXIS_DISABLED"
  \/ /\ rules.enabled /\ r.mode = rules.mode /\ reason # None
     /\ r.status = IF reason = "SYNTHETIC_SOURCE_NOT_OPERATIONAL" THEN "SYNTHETIC"
                   ELSE "UNVERIFIED"
     /\ r.class = None /\ r.reason = reason
  \/ /\ rules.enabled /\ r.mode = rules.mode /\ reason = None
     /\ r.status = "CLASSIFIED" /\ r.class = class /\ r.reason = None

\* A grade is one of these.
LEMMA GradedIs ==
  ASSUME NEW rules, NEW reason, NEW class
  PROVE  IsGrade(Graded(rules, reason, class), rules, reason, class)
<1> DEFINE r == Graded(rules, reason, class)
<1>1. CASE ~rules.enabled
  <2>1. r = [status |-> "NOT_APPLICABLE", class |-> None, mode |-> "SHADOW",
             reason |-> "AXIS_DISABLED", days |-> <<>>]
    BY <1>1, Zenon DEF Graded, NotApplicable, AxisResult
  <2> HIDE DEF r
  <2>2. /\ r.mode = "SHADOW" /\ r.status = "NOT_APPLICABLE" /\ r.class = None
        /\ r.reason = "AXIS_DISABLED"
    BY <2>1
  <2>3. IsGrade(r, rules, reason, class)
    BY <1>1, <2>2 DEF IsGrade
  <2> QED BY <2>3 DEF r
<1>2. CASE rules.enabled /\ reason # None
  <2> DEFINE st == IF reason = "SYNTHETIC_SOURCE_NOT_OPERATIONAL" THEN "SYNTHETIC"
                   ELSE "UNVERIFIED"
  <2>1. r = [status |-> st, class |-> None, mode |-> rules.mode, reason |-> reason,
             days |-> <<>>]
    BY <1>2, Zenon DEF Graded, Unverified, AxisResult
  <2> HIDE DEF r, st
  <2>2. /\ r.mode = rules.mode /\ r.status = st /\ r.class = None /\ r.reason = reason
    BY <2>1
  <2>3. IsGrade(r, rules, reason, class)
    BY <1>2, <2>2 DEF IsGrade, st
  <2> QED BY <2>3 DEF r
<1>3. CASE rules.enabled /\ reason = None
  <2>1. r = [status |-> "CLASSIFIED", class |-> class, mode |-> rules.mode,
             reason |-> None, days |-> <<>>]
    BY <1>3, Zenon DEF Graded, Classified, AxisResult
  <2> HIDE DEF r
  <2>2. r.mode = rules.mode /\ r.status = "CLASSIFIED" /\ r.class = class /\ r.reason = None
    BY <2>1
  <2>3. IsGrade(r, rules, reason, class)
    BY <1>3, <2>2 DEF IsGrade
  <2> QED BY <2>3 DEF r
<1> QED BY <1>1, <1>2, <1>3

\* What holds of every axis result: it is valid unless synthetic evidence is used for
\* orders, it has the mode of its rules, and it is off when its rules are.
AxisShaped(a, r, on, mode) ==
  /\ AxisValid(a, r) <=> ~(r.status = "SYNTHETIC" /\ r.mode = "OPERATIONAL")
  /\ r.mode = mode
  /\ (r.status = "NOT_APPLICABLE") <=> ~on
  /\ r.status = "CLASSIFIED" => r.class \in AxisClasses[a]

\* A grade of a known class is such a result.
LEMMA GradeShaped ==
  ASSUME NEW a \in {"FSN", "SDE", "HML", "PLC"}, NEW r, NEW rules, NEW reason, NEW class,
         IsGrade(r, rules, reason, class), SwitchValid(rules),
         reason = None /\ rules.enabled => class \in AxisClasses[a],
         a = "PLC" => rules.mode = "SHADOW" /\ reason # "SYNTHETIC_SOURCE_NOT_OPERATIONAL"
  PROVE  AxisShaped(a, r, rules.enabled, ModeOf(rules))
<1>1. rules.mode \in {"SHADOW", "OPERATIONAL"}
  BY DEF SwitchValid
<1>2. a \notin {"ABC", "XYZ"}
  OBVIOUS
<1>3. CASE ~rules.enabled
  <2>1. /\ r.mode = "SHADOW" /\ r.status = "NOT_APPLICABLE" /\ r.class = None
        /\ r.reason = "AXIS_DISABLED"
    BY <1>3 DEF IsGrade
  <2> QED BY <1>2, <1>3, <2>1 DEF AxisShaped, AxisValid, ModeOf, None
<1>4. CASE rules.enabled /\ reason # None
  <2>1. /\ r.mode = rules.mode /\ r.class = None /\ r.reason = reason
        /\ r.status = IF reason = "SYNTHETIC_SOURCE_NOT_OPERATIONAL" THEN "SYNTHETIC"
                      ELSE "UNVERIFIED"
    BY <1>4 DEF IsGrade
  <2>2. a = "PLC" => r.status = "UNVERIFIED" /\ r.mode = "SHADOW"
    BY <2>1
  <2> QED BY <1>1, <1>2, <1>4, <2>1, <2>2 DEF AxisShaped, AxisValid, ModeOf
<1>5. CASE rules.enabled /\ reason = None
  <2>1. /\ r.mode = rules.mode /\ r.status = "CLASSIFIED" /\ r.class \in AxisClasses[a]
        /\ r.reason = None
    BY <1>5 DEF IsGrade
  <2> QED BY <1>1, <1>2, <1>5, <2>1 DEF AxisShaped, AxisValid, ModeOf
<1> QED BY <1>3, <1>4, <1>5

\* A result of the base axes: classified or not, and always used.
LEMMA BaseShaped ==
  ASSUME NEW a \in {"ABC", "XYZ", "VED"}, NEW class, NEW reason,
         class # None => class \in AxisClasses[a], class = None => reason # None
  PROVE  AxisShaped(a, BaseAxis(class, reason), TRUE, "OPERATIONAL")
<1> DEFINE r == BaseAxis(class, reason)
<1>1. CASE class # None
  <2>1. r.status = "CLASSIFIED" /\ r.class = class /\ r.mode = "OPERATIONAL" /\ r.reason = None
    BY <1>1 DEF BaseAxis, AxisResult
  <2> HIDE DEF r
  <2>2. AxisShaped(a, r, TRUE, "OPERATIONAL")
    BY <1>1, <2>1 DEF AxisShaped, AxisValid
  <2> QED BY <2>2 DEF r
<1>2. CASE class = None
  <2>1. /\ r.status = "UNCLASSIFIED" /\ r.class = None /\ r.mode = "OPERATIONAL"
        /\ r.reason = reason
    BY <1>2 DEF BaseAxis, AxisResult
  <2> HIDE DEF r
  <2>2. AxisShaped(a, r, TRUE, "OPERATIONAL")
    BY <1>2, <2>1 DEF AxisShaped, AxisValid
  <2> QED BY <2>2 DEF r
<1> QED BY <1>1, <1>2

\* VED may be off.
LEMMA OffShaped ==
  AxisShaped("VED", NotApplicable, FALSE, "SHADOW")
<1> DEFINE r == NotApplicable
<1>1. /\ r.status = "NOT_APPLICABLE" /\ r.class = None /\ r.mode = "SHADOW"
      /\ r.reason = "AXIS_DISABLED"
  BY DEF NotApplicable, AxisResult
<1> HIDE DEF r
<1>2. AxisShaped("VED", r, FALSE, "SHADOW")
  BY <1>1 DEF AxisShaped, AxisValid, None
<1> QED BY <1>2 DEF r

\* Movement.
LEMMA FsnShaped ==
  ASSUME NEW m, NEW now, NEW rules, SwitchValid(rules)
  PROVE  AxisShaped("FSN", ClassifyFsn(m, now, rules), rules.enabled, ModeOf(rules))
<1> DEFINE since == IF m.fsn.last = NoWeek THEN rules.lookback ELSE now - m.fsn.last
           idle == since >= rules.nonMoving
           fast == 100 * m.fsn.positive >= rules.fast * rules.lookback
           class == First(<< <<idle, "N">>, <<fast, "F">>, <<Otherwise, "S">> >>)
<1>1. PICK reason : ClassifyFsn(m, now, rules) = Graded(rules, reason, class)
  BY Zenon DEF ClassifyFsn
<1>2. class \in {"N", "F", "S"}
  <2>1. idle \in BOOLEAN /\ fast \in BOOLEAN
    OBVIOUS
  <2> HIDE DEF idle, fast
  <2> QED BY <2>1, FirstSome
<1> HIDE DEF class
<1>3. IsGrade(ClassifyFsn(m, now, rules), rules, reason, class)
  BY <1>1, GradedIs
<1>4. class \in AxisClasses["FSN"]
  BY <1>2 DEF AxisClasses
<1> QED BY <1>3, <1>4, GradeShaped

\* Supply.
LEMMA SdeShaped ==
  ASSUME NEW m, NEW rules, SwitchValid(rules)
  PROVE  AxisShaped("SDE", ClassifySde(m, rules), rules.enabled, ModeOf(rules))
<1> DEFINE s == m.sde
           scarce == \/ s.suppliers <= rules.scarceSuppliers
                     \/ s.lead >= rules.scarceLead
                     \/ s.onTime <= rules.scarceRate
           difficult == s.lead >= rules.difficultLead \/ s.onTime <= rules.difficultRate
           class == First(<< <<scarce, "S">>, <<difficult, "D">>, <<Otherwise, "E">> >>)
<1>1. PICK reason, d :
        \/ ClassifySde(m, rules) = Graded(rules, reason, class)
        \/ ClassifySde(m, rules) = [Graded(rules, reason, class) EXCEPT !.days = d]
  BY Zenon DEF ClassifySde
<1>2. class \in {"S", "D", "E"}
  <2>1. scarce \in BOOLEAN /\ difficult \in BOOLEAN
    OBVIOUS
  <2> HIDE DEF scarce, difficult
  <2> QED BY <2>1, FirstSome
<1> HIDE DEF class
<1> DEFINE g == Graded(rules, reason, class)
           r == ClassifySde(m, rules)
<1>3. IsGrade(g, rules, reason, class)
  BY GradedIs
<1>4. r = g \/ r = [g EXCEPT !.days = d]
  BY <1>1
<1>5. {"status", "class", "mode", "reason"} \subseteq DOMAIN g
  BY DEF Graded, Unverified, Classified, NotApplicable, AxisResult
<1> HIDE DEF g, r
<1>6. r.status = g.status /\ r.class = g.class /\ r.mode = g.mode /\ r.reason = g.reason
  BY <1>4, <1>5
<1>7. IsGrade(r, rules, reason, class)
  BY <1>3, <1>6, Zenon DEF IsGrade
<1>8. class \in AxisClasses["SDE"]
  BY <1>2 DEF AxisClasses
<1>9. AxisShaped("SDE", r, rules.enabled, ModeOf(rules))
  BY <1>7, <1>8, GradeShaped
<1> QED BY <1>9 DEF r

\* Unit cost.
LEMMA HmlShaped ==
  ASSUME NEW m, NEW now, NEW thresholds, NEW rules, SwitchValid(rules)
  PROVE  AxisShaped("HML", ClassifyHml(m, now, thresholds, rules), rules.enabled, ModeOf(rules))
<1> DEFINE high == m.hml.cost >= thresholds[2]
           medium == m.hml.cost >= thresholds[1]
           grade == First(<< <<high, "H">>, <<medium, "M">>, <<Otherwise, "L">> >>)
<1>1. PICK reason : ClassifyHml(m, now, thresholds, rules)
                      = Graded(rules, reason, IF reason # None THEN None ELSE grade)
  BY Zenon DEF ClassifyHml
<1>2. grade \in {"H", "M", "L"}
  <2>1. high \in BOOLEAN /\ medium \in BOOLEAN
    OBVIOUS
  <2> HIDE DEF high, medium
  <2> QED BY <2>1, FirstSome
<1> DEFINE class == IF reason # None THEN None ELSE grade
<1>3. reason = None => class \in AxisClasses["HML"]
  BY <1>2 DEF AxisClasses
<1>4. ClassifyHml(m, now, thresholds, rules) = Graded(rules, reason, class)
  BY <1>1
<1> HIDE DEF grade, class
<1>5. IsGrade(ClassifyHml(m, now, thresholds, rules), rules, reason, class)
  BY <1>4, GradedIs
<1> QED BY <1>3, <1>5, GradeShaped

\* The stage of a lifecycle is one of seven.
LEMMA StageKnown ==
  ASSUME NEW l, NEW now, NEW rules
  PROVE  LifecycleStage(l, now, rules) \in AxisClasses["PLC"]
<1> DEFINE ending == l.productionEnd # NoWeek
           age    == now - l.introduced
           a == l.code = "DISCONTINUED" \/ now >= l.serviceEnd
           b == l.code = "SERVICE_ONLY" \/ (ending /\ now >= l.productionEnd)
           c == age < 0
           d == age < rules.introduction
           e == age < rules.growth
           f == ending /\ l.productionEnd - now <= rules.declineHorizon
           stages == << <<a, "DISCONTINUED">>, <<b, "SERVICE_ONLY">>, <<c, "PRE_LAUNCH">>,
                        <<d, "INTRODUCTION">>, <<e, "GROWTH">>, <<f, "DECLINE">>,
                        <<Otherwise, "MATURE">> >>
<1>1. LifecycleStage(l, now, rules) = First(stages)
  BY Zenon DEF LifecycleStage
<1> HIDE DEF a, b, c, d, e, f
<1>2. /\ DOMAIN stages = 1..7 /\ stages[7][1] = Otherwise
      /\ \A k \in 1..7 : stages[k][2] \in
           {"DISCONTINUED", "SERVICE_ONLY", "PRE_LAUNCH", "INTRODUCTION", "GROWTH", "DECLINE",
            "MATURE"}
  OBVIOUS
<1> HIDE DEF stages
<1>3. 7 \in DOMAIN stages /\ DOMAIN stages \subseteq Nat /\ stages[7][1]
  BY <1>2 DEF Otherwise
<1>4. \E k \in DOMAIN stages : First(stages) = stages[k][2]
  BY <1>3, SomeHeld
<1>5. First(stages) \in {"DISCONTINUED", "SERVICE_ONLY", "PRE_LAUNCH", "INTRODUCTION",
                         "GROWTH", "DECLINE", "MATURE"}
  BY <1>2, <1>4
<1> QED BY <1>1, <1>5 DEF AxisClasses

\* Lifecycle; it is never used for orders, and says so when its evidence is synthetic.
LEMMA PlcShaped ==
  ASSUME NEW m, NEW now, NEW rules, SwitchValid(rules), rules.mode = "SHADOW"
  PROVE  AxisShaped("PLC", ClassifyPlc(m, now, rules), rules.enabled, ModeOf(rules))
<1> DEFINE l == m.plc
           stage == LifecycleStage(l, now, rules)
           chronological == /\ l.serviceEnd >= l.introduced
                            /\ l.productionEnd # NoWeek
                                 => l.productionEnd \in l.introduced .. l.serviceEnd
           a == l.status = "UNVERIFIED" \/ NoWeek \in {l.introduced, l.serviceEnd}
           b == ~chronological
           c == l.code \notin {"ACTIVE", "SERVICE_ONLY", "DISCONTINUED"}
           reason == First(<< <<a, "LIFECYCLE_EVIDENCE_INCOMPLETE">>,
                              <<b, "LIFECYCLE_CHRONOLOGY_INVALID">>,
                              <<c, "LIFECYCLE_STATUS_UNSUPPORTED">> >>)
           g == Graded(rules, reason, stage)
           r == ClassifyPlc(m, now, rules)
<1>1. r = IF g.status = "CLASSIFIED" /\ l.status = "SYNTHETIC"
          THEN AxisResult("SYNTHETIC", stage, rules.mode, "SYNTHETIC_SOURCE_SHADOW_ONLY")
          ELSE g
  BY Zenon DEF ClassifyPlc
<1>2. reason # "SYNTHETIC_SOURCE_NOT_OPERATIONAL"
  <2>1. a \in BOOLEAN /\ b \in BOOLEAN /\ c \in BOOLEAN
    OBVIOUS
  <2>2. /\ "LIFECYCLE_EVIDENCE_INCOMPLETE" # None /\ "LIFECYCLE_CHRONOLOGY_INVALID" # None
        /\ "LIFECYCLE_STATUS_UNSUPPORTED" # None
    BY DEF None
  <2> HIDE DEF a, b, c
  <2>3. reason \in {None, "LIFECYCLE_EVIDENCE_INCOMPLETE", "LIFECYCLE_CHRONOLOGY_INVALID",
                    "LIFECYCLE_STATUS_UNSUPPORTED"}
    BY <2>1, <2>2, Table3
  <2> HIDE DEF reason
  <2> QED BY <2>3 DEF None
<1>3. stage \in AxisClasses["PLC"]
  BY StageKnown
<1> HIDE DEF reason, stage
<1>4. IsGrade(g, rules, reason, stage)
  BY GradedIs
<1>5. CASE g.status = "CLASSIFIED" /\ l.status = "SYNTHETIC"
  <2>1. r = AxisResult("SYNTHETIC", stage, rules.mode, "SYNTHETIC_SOURCE_SHADOW_ONLY")
    BY <1>1, <1>5
  <2>2. rules.enabled
    <3> HIDE DEF g
    <3> QED BY <1>4, <1>5 DEF IsGrade
  <2> HIDE DEF r, g
  <2>3. /\ r.status = "SYNTHETIC" /\ r.class = stage /\ r.mode = rules.mode
        /\ r.reason = "SYNTHETIC_SOURCE_SHADOW_ONLY"
    BY <2>1 DEF AxisResult
  <2>4. AxisShaped("PLC", r, rules.enabled, ModeOf(rules))
    BY <1>3, <2>2, <2>3 DEF AxisShaped, AxisValid, ModeOf, None
  <2> QED BY <2>4 DEF r
<1>6. CASE ~(g.status = "CLASSIFIED" /\ l.status = "SYNTHETIC")
  <2>1. r = g
    BY <1>1, <1>6
  <2> HIDE DEF r, g
  <2>2. AxisShaped("PLC", g, rules.enabled, ModeOf(rules))
    BY <1>2, <1>3, <1>4, GradeShaped
  <2> QED BY <2>1, <2>2 DEF r
<1> QED BY <1>5, <1>6

\* An XYZ class is one of three.
LEMMA XyzClassed ==
  ASSUME NEW m, NEW rules
  PROVE  XyzClass(m, rules) \in {"X", "Y", "Z"}
<1> DEFINE square   == m.xyz.demand * m.xyz.demand
           variance == Max({0, m.xyz.squares * rules.lookback - square})
           inX == 100 * variance <= rules.x * square
           inY == 100 * variance <= rules.y * square
<1>1. XyzClass(m, rules) = First(<< <<inX, "X">>, <<inY, "Y">>, <<Otherwise, "Z">> >>)
  BY Zenon DEF XyzClass
<1>2. inX \in BOOLEAN /\ inY \in BOOLEAN
  OBVIOUS
<1> HIDE DEF inX, inY
<1>3. First(<< <<inX, "X">>, <<inY, "Y">>, <<Otherwise, "Z">> >>) \in {"X", "Y", "Z"}
  BY <1>2, FirstSome
<1> QED BY <1>1, <1>3

\* What the classification of an item says of its two axes and of the whole.
ItemParts(x, m, ved, i) ==
  /\ x.abcReason = AbcReason(m) /\ x.xyzReason = XyzReason(m)
  /\ x.abc # None <=> x.abcReason = None
  /\ x.abc # None => x.abc \in {"A", "B", "C"}
  /\ x.xyz # None <=> x.xyzReason = None
  /\ x.xyz # None => x.xyz \in {"X", "Y", "Z"}
  /\ x.status = IF x.abcReason = None /\ x.xyzReason = None THEN "CLASSIFIED"
                ELSE "UNCLASSIFIED"
  /\ x.segment = IF x.abcReason = None /\ x.xyzReason = None THEN <<x.abc, x.xyz>> ELSE <<>>
  /\ x.reason = IF x.abcReason = None /\ x.xyzReason = None THEN None
                ELSE CombinedReason(x.abcReason, x.xyzReason)
  /\ x.ved = VedResult(ved, i) /\ x.revenue = m.abc.revenue

\* Every classified item has these parts.
LEMMA ItemIs ==
  ASSUME NEW p, NEW c, NEW i
  PROVE  ItemParts(ClassifiedItem(p, c, i), p[i], c.ved, i)
<1> DEFINE u == AbcReason(p[i])
           v == XyzReason(p[i])
           abc == IF u = None THEN AbcClass(p, c.abc, i) ELSE None
           xyz == IF v = None THEN XyzClass(p[i], c.xyz) ELSE None
           st == IF u = None /\ v = None THEN "CLASSIFIED" ELSE "UNCLASSIFIED"
           seg == IF u = None /\ v = None THEN <<abc, xyz>> ELSE <<>>
           why == IF u = None /\ v = None THEN None ELSE CombinedReason(u, v)
           w == VedResult(c.ved, i)
           paid == p[i].abc.revenue
           x == ClassifiedItem(p, c, i)
<1>1. x = [status |-> st, abc |-> abc, xyz |-> xyz, abcReason |-> u, xyzReason |-> v,
           segment |-> seg, reason |-> why, ved |-> w, revenue |-> paid]
  BY Zenon DEF ClassifiedItem
<1>2. /\ abc # None <=> u = None
      /\ abc # None => abc \in {"A", "B", "C"}
  BY AbcClassed DEF None
<1>3. /\ xyz # None <=> v = None
      /\ xyz # None => xyz \in {"X", "Y", "Z"}
  BY XyzClassed DEF None
<1> HIDE DEF x, st, abc, xyz, u, v, seg, why, w, paid
<1>4. /\ x.status = st /\ x.abc = abc /\ x.xyz = xyz /\ x.abcReason = u /\ x.xyzReason = v
      /\ x.segment = seg /\ x.reason = why /\ x.ved = w /\ x.revenue = paid
  BY <1>1
<1>5. /\ st = IF u = None /\ v = None THEN "CLASSIFIED" ELSE "UNCLASSIFIED"
      /\ seg = IF u = None /\ v = None THEN <<abc, xyz>> ELSE <<>>
      /\ why = IF u = None /\ v = None THEN None ELSE CombinedReason(u, v)
      /\ u = AbcReason(p[i]) /\ v = XyzReason(p[i]) /\ w = VedResult(c.ved, i)
      /\ paid = p[i].abc.revenue
  BY Zenon DEF st, seg, why, u, v, w, paid
<1>6. ItemParts(x, p[i], c.ved, i)
  BY <1>2, <1>3, <1>4, <1>5, Zenon DEF ItemParts
<1> QED BY <1>6 DEF x

\* The seven results by name.
LEMMA AxisParts ==
  ASSUME NEW p, NEW item, NEW i, NEW now, NEW c
  PROVE  LET x == AxisResults(p, item, i, now, c)
         IN /\ x["ABC"] = BaseAxis(item.abc, item.abcReason)
            /\ x["XYZ"] = BaseAxis(item.xyz, item.xyzReason)
            /\ x["VED"] = IF c.ved.enabled THEN BaseAxis(item.ved.class, None)
                          ELSE NotApplicable
            /\ x["FSN"] = ClassifyFsn(p[i], now, c.fsn)
            /\ x["SDE"] = ClassifySde(p[i], c.sde)
            /\ x["HML"] = ClassifyHml(p[i], now, Thresholds(p, now, c.hml), c.hml)
            /\ x["PLC"] = ClassifyPlc(p[i], now, c.plc)
BY DEF AxisResults

\* The class a VED assignment or its default gives, when VED is on.
LEMMA VedClassed ==
  ASSUME NEW c \in Configs, NEW i
  PROVE  /\ c.ved.enabled => /\ VedResult(c.ved, i).class \in {"V", "E", "D"}
                             /\ VedResult(c.ved, i).from # "DISABLED"
         /\ ~c.ved.enabled => /\ VedResult(c.ved, i).class = None
                              /\ VedResult(c.ved, i).from = "DISABLED"
<1>1. c.ved.default \in AxisClasses.VED
  BY ConfigTypes, Zenon DEF V1ConfigValid, RulesValid
<1>2. c.ved.assigned \in [DOMAIN c.ved.assigned -> AxisClasses.VED]
  BY ConfigsAssumption
<1>3. AxisClasses.VED = {"V", "E", "D"}
  BY DEF AxisClasses
<1>4. i \in DOMAIN c.ved.assigned => c.ved.assigned[i] \in {"V", "E", "D"}
  BY <1>2, <1>3
<1> QED BY <1>1, <1>3, <1>4 DEF VedResult

\* Whether an axis is on for a site, and its mode.
AxisOn(c) ==
  [a \in Axes |-> CASE a \in {"ABC", "XYZ"} -> TRUE [] a = "VED" -> c.ved.enabled
                    [] a = "FSN" -> c.fsn.enabled [] a = "SDE" -> c.sde.enabled
                    [] a = "HML" -> c.hml.enabled [] a = "PLC" -> c.plc.enabled]
AxisMode(c) ==
  [a \in Axes |-> CASE a \in {"ABC", "XYZ"} -> "OPERATIONAL"
                    [] a = "VED" -> IF c.ved.enabled THEN "OPERATIONAL" ELSE "SHADOW"
                    [] a = "FSN" -> ModeOf(c.fsn) [] a = "SDE" -> ModeOf(c.sde)
                    [] a = "HML" -> ModeOf(c.hml) [] a = "PLC" -> ModeOf(c.plc)]

\* Every result of an item has the shape its configuration gives it.
LEMMA AxesShaped ==
  ASSUME NEW p, NEW i, NEW now, NEW c \in Configs, c.type = "SEVEN_AXIS", NEW item,
         ItemParts(item, p[i], c.ved, i)
  PROVE  \A a \in Axes :
           AxisShaped(a, AxisResults(p, item, i, now, c)[a], AxisOn(c)[a], AxisMode(c)[a])
<1> DEFINE x == AxisResults(p, item, i, now, c)
<1>1. /\ SwitchValid(c.fsn) /\ SwitchValid(c.sde) /\ SwitchValid(c.hml) /\ SwitchValid(c.plc)
      /\ c.plc.mode = "SHADOW"
  <2>1. V2ConfigValid(c)
    BY ConfigTypes
  <2> QED BY <2>1, Zenon DEF V2ConfigValid, FsnRulesValid, SdeRulesValid, HmlRulesValid,
                             PlcRulesValid
<1>2. /\ AxisOn(c)["ABC"] = TRUE /\ AxisOn(c)["XYZ"] = TRUE
      /\ AxisOn(c)["VED"] = c.ved.enabled /\ AxisOn(c)["FSN"] = c.fsn.enabled
      /\ AxisOn(c)["SDE"] = c.sde.enabled /\ AxisOn(c)["HML"] = c.hml.enabled
      /\ AxisOn(c)["PLC"] = c.plc.enabled
  BY AxisNames DEF AxisOn
<1>3. /\ AxisMode(c)["ABC"] = "OPERATIONAL" /\ AxisMode(c)["XYZ"] = "OPERATIONAL"
      /\ AxisMode(c)["VED"] = IF c.ved.enabled THEN "OPERATIONAL" ELSE "SHADOW"
      /\ AxisMode(c)["FSN"] = ModeOf(c.fsn) /\ AxisMode(c)["SDE"] = ModeOf(c.sde)
      /\ AxisMode(c)["HML"] = ModeOf(c.hml) /\ AxisMode(c)["PLC"] = ModeOf(c.plc)
  BY AxisNames DEF AxisMode
<1>4. /\ x["ABC"] = BaseAxis(item.abc, item.abcReason)
      /\ x["XYZ"] = BaseAxis(item.xyz, item.xyzReason)
      /\ x["VED"] = IF c.ved.enabled THEN BaseAxis(item.ved.class, None) ELSE NotApplicable
      /\ x["FSN"] = ClassifyFsn(p[i], now, c.fsn)
      /\ x["SDE"] = ClassifySde(p[i], c.sde)
      /\ x["HML"] = ClassifyHml(p[i], now, Thresholds(p, now, c.hml), c.hml)
      /\ x["PLC"] = ClassifyPlc(p[i], now, c.plc)
  BY AxisParts
<1> HIDE DEF x
<1>5. /\ AxisClasses["ABC"] = {"A", "B", "C"} /\ AxisClasses["XYZ"] = {"X", "Y", "Z"}
      /\ AxisClasses["VED"] = {"V", "E", "D"}
  BY DEF AxisClasses
<1>6. AxisShaped("ABC", x["ABC"], TRUE, "OPERATIONAL")
  <2>1. /\ item.abc # None => item.abc \in AxisClasses["ABC"]
        /\ item.abc = None => item.abcReason # None
    BY <1>5 DEF ItemParts
  <2> QED BY <1>4, <2>1, BaseShaped
<1>7. AxisShaped("XYZ", x["XYZ"], TRUE, "OPERATIONAL")
  <2>1. /\ item.xyz # None => item.xyz \in AxisClasses["XYZ"]
        /\ item.xyz = None => item.xyzReason # None
    BY <1>5 DEF ItemParts
  <2> QED BY <1>4, <2>1, BaseShaped
<1>8. AxisShaped("VED", x["VED"], c.ved.enabled,
                 IF c.ved.enabled THEN "OPERATIONAL" ELSE "SHADOW")
  <2>1. CASE c.ved.enabled
    <3>1. item.ved.class \in {"V", "E", "D"}
      BY <2>1, VedClassed DEF ItemParts
    <3>2. item.ved.class # None /\ item.ved.class \in AxisClasses["VED"]
      BY <1>5, <3>1 DEF None
    <3>3. AxisShaped("VED", BaseAxis(item.ved.class, None), TRUE, "OPERATIONAL")
      BY <3>2, BaseShaped
    <3> QED BY <1>4, <2>1, <3>3 DEF AxisShaped
  <2>2. CASE ~c.ved.enabled
    BY <1>4, <2>2, OffShaped DEF AxisShaped
  <2> QED BY <2>1, <2>2
<1>9. AxisShaped("FSN", x["FSN"], c.fsn.enabled, ModeOf(c.fsn))
  BY <1>1, <1>4, FsnShaped
<1>10. AxisShaped("SDE", x["SDE"], c.sde.enabled, ModeOf(c.sde))
  BY <1>1, <1>4, SdeShaped
<1>11. AxisShaped("HML", x["HML"], c.hml.enabled, ModeOf(c.hml))
  BY <1>1, <1>4, HmlShaped
<1>12. AxisShaped("PLC", x["PLC"], c.plc.enabled, ModeOf(c.plc))
  BY <1>1, <1>4, PlcShaped
<1>13. \A a \in Axes : AxisShaped(a, x[a], AxisOn(c)[a], AxisMode(c)[a])
  BY <1>2, <1>3, <1>6, <1>7, <1>8, <1>9, <1>10, <1>11, <1>12, AxisNames
<1> QED BY <1>13 DEF x

\* What the publisher compares of a base axis with the item.
LEMMA BaseAxisIs ==
  ASSUME NEW class, NEW reason, class # None <=> reason = None
  PROVE  /\ BaseAxis(class, reason).class = class /\ BaseAxis(class, reason).reason = reason
         /\ BaseAxis(class, reason).status = IF reason = None THEN "CLASSIFIED"
                                             ELSE "UNCLASSIFIED"
<1>1. CASE class # None
  BY <1>1 DEF BaseAxis, AxisResult
<1>2. CASE class = None
  BY <1>2 DEF BaseAxis, AxisResult
<1> QED BY <1>1, <1>2

\* What it compares of VED.
LEMMA VedAxisIs ==
  ASSUME NEW c \in Configs, NEW i, NEW x,
         x = IF c.ved.enabled THEN BaseAxis(VedResult(c.ved, i).class, None) ELSE NotApplicable
  PROVE  /\ VedResult(c.ved, i).class = IF x.status = "CLASSIFIED" THEN x.class ELSE None
         /\ (VedResult(c.ved, i).from = "DISABLED") = (x.status = "NOT_APPLICABLE")
<1> DEFINE v == VedResult(c.ved, i)
<1>1. CASE c.ved.enabled
  <2>1. v.class # None /\ v.from # "DISABLED"
    BY <1>1, VedClassed DEF None
  <2> HIDE DEF v
  <2>2. x.status = "CLASSIFIED" /\ x.class = v.class
    BY <1>1, <2>1 DEF v, BaseAxis, AxisResult
  <2> QED BY <2>1, <2>2 DEF v
<1>2. CASE ~c.ved.enabled
  <2>1. v.class = None /\ v.from = "DISABLED"
    BY <1>2, VedClassed
  <2>2. x.status = "NOT_APPLICABLE"
    BY <1>2 DEF NotApplicable, AxisResult
  <2> QED BY <2>1, <2>2
<1> QED BY <1>1, <1>2

\* The axes of an item match its classification.
LEMMA BaseSound ==
  ASSUME NEW p, NEW i, NEW now, NEW c \in Configs, NEW item, ItemParts(item, p[i], c.ved, i)
  PROVE  BaseMatches(item, AxisResults(p, item, i, now, c))
<1> DEFINE x == AxisResults(p, item, i, now, c)
<1>1. /\ x["ABC"] = BaseAxis(item.abc, item.abcReason)
      /\ x["XYZ"] = BaseAxis(item.xyz, item.xyzReason)
      /\ x["VED"] = IF c.ved.enabled THEN BaseAxis(item.ved.class, None) ELSE NotApplicable
  BY AxisParts
<1> HIDE DEF x
<1>2. /\ item.abc # None <=> item.abcReason = None
      /\ item.xyz # None <=> item.xyzReason = None
      /\ item.ved = VedResult(c.ved, i)
  BY DEF ItemParts
<1>3. /\ x["ABC"].class = item.abc /\ x["ABC"].reason = item.abcReason
      /\ x["ABC"].status = IF item.abcReason = None THEN "CLASSIFIED" ELSE "UNCLASSIFIED"
  BY <1>1, <1>2, BaseAxisIs
<1>4. /\ x["XYZ"].class = item.xyz /\ x["XYZ"].reason = item.xyzReason
      /\ x["XYZ"].status = IF item.xyzReason = None THEN "CLASSIFIED" ELSE "UNCLASSIFIED"
  BY <1>1, <1>2, BaseAxisIs
<1>5. /\ item.ved.class = IF x["VED"].status = "CLASSIFIED" THEN x["VED"].class ELSE None
      /\ (item.ved.from = "DISABLED") = (x["VED"].status = "NOT_APPLICABLE")
  BY <1>1, <1>2, VedAxisIs
<1> DEFINE whole == x["ABC"].status = "CLASSIFIED" /\ x["XYZ"].status = "CLASSIFIED"
<1>6. whole <=> item.abcReason = None /\ item.xyzReason = None
  BY <1>3, <1>4
<1>7. /\ item.status = IF whole THEN "CLASSIFIED" ELSE "UNCLASSIFIED"
      /\ item.reason = IF whole THEN None
                       ELSE CombinedReason(x["ABC"].reason, x["XYZ"].reason)
      /\ item.segment = IF whole THEN <<item.abc, item.xyz>> ELSE <<>>
  BY <1>3, <1>4, <1>6 DEF ItemParts
<1>8. BaseMatches(item, x)
  BY <1>3, <1>4, <1>5, <1>7, Zenon DEF BaseMatches
<1> QED BY <1>8 DEF x

\* A policy carries the projection it was derived from.
LEMMA DerivedProjection ==
  ASSUME NEW item, NEW axes, NEW c
  PROVE  DeriveV2(item, axes, c).projection = Projection(axes, c.overlays)
BY DEF DeriveV2

\* It names the effective axes with their classes.
LEMMA ProjectionSound ==
  ASSUME NEW item, NEW axes, NEW c
  PROVE  ProjectionMatches(DeriveV2(item, axes, c), axes)
<1> DEFINE projection == Projection(axes, c.overlays)
<1>1. DOMAIN projection = EffectiveAxes(axes)
  BY DEF Projection
<1>2. \A a \in EffectiveAxes(axes) : projection[a].class = axes[a].class
  BY DEF Projection
<1> HIDE DEF projection
<1>3. DeriveV2(item, axes, c).projection = projection
  BY DerivedProjection DEF projection
<1> QED BY <1>1, <1>2, <1>3 DEF ProjectionMatches

\* The place of an axis, and sequences of axes in order of place, up to place m.
Place(a) == CHOOSE k \in DOMAIN AxisOrder : AxisOrder[k] = a
Ascending(q, m) ==
  /\ q \in Seq(Axes)
  /\ \A k \in DOMAIN q : Place(q[k]) \in 1..m
  /\ \A j, k \in DOMAIN q : j < k => Place(q[j]) <= Place(q[k])

\* Every axis has its place.
LEMMA PlaceIs ==
  ASSUME NEW m \in 1..7
  PROVE  AxisOrder[m] \in Axes /\ Place(AxisOrder[m]) = m
<1>1. DOMAIN AxisOrder = 1..7
  BY DEF AxisOrder
<1>2. \A k \in 1..7 : AxisOrder[k] = AxisOrder[m] => k = m
  BY DEF AxisOrder
<1>3. AxisOrder[m] \in Axes
  BY <1>1 DEF Axes
<1> QED BY <1>1, <1>2, <1>3 DEF Place

\* The next axis, or none, extends such a sequence.
LEMMA AscendingOn ==
  ASSUME NEW m \in 1..7, NEW q, Ascending(q, m - 1), NEW t, t = <<>> \/ t = <<AxisOrder[m]>>
  PROVE  Ascending(q \o t, m)
<1>1. AxisOrder[m] \in Axes /\ Place(AxisOrder[m]) = m
  BY PlaceIs
<1>2. q \in Seq(Axes) /\ Len(q) \in Nat /\ DOMAIN q = 1..Len(q)
  BY DEF Ascending
<1>3. CASE t = <<>>
  <2>1. q \o t = q
    BY <1>2, <1>3
  <2>2. Ascending(q, m)
    BY DEF Ascending
  <2> QED BY <2>1, <2>2
<1>4. CASE t = <<AxisOrder[m]>>
  <2> DEFINE r == q \o t
  <2>1. /\ r \in Seq(Axes) /\ Len(r) = Len(q) + 1 /\ DOMAIN r = 1..(Len(q) + 1)
        /\ \A k \in 1..Len(q) : r[k] = q[k]
        /\ r[Len(q) + 1] = AxisOrder[m]
    BY <1>1, <1>2, <1>4
  <2> HIDE DEF r
  <2>2. \A k \in 1..Len(q) : Place(r[k]) = Place(q[k]) /\ Place(q[k]) \in 1..(m - 1)
    BY <1>2, <2>1 DEF Ascending
  <2>3. Place(r[Len(q) + 1]) = m
    BY <1>1, <2>1
  <2>4. \A k \in DOMAIN r : k \in 1..Len(q) \/ k = Len(q) + 1
    BY <1>2, <2>1
  <2>5. \A k \in DOMAIN r : Place(r[k]) \in 1..m
    BY <2>2, <2>3, <2>4
  <2>6. ASSUME NEW j \in DOMAIN r, NEW k \in DOMAIN r, j < k
        PROVE  Place(r[j]) <= Place(r[k])
    <3>1. j \in 1..Len(q)
      BY <1>2, <2>1, <2>6
    <3>2. CASE k \in 1..Len(q)
      <4>1. Place(q[j]) <= Place(q[k])
        BY <1>2, <2>6, <3>1, <3>2 DEF Ascending
      <4> QED BY <2>2, <3>1, <3>2, <4>1
    <3>3. CASE k = Len(q) + 1
      <4>1. Place(r[k]) = m
        BY <2>3, <3>3
      <4>2. Place(r[j]) \in 1..(m - 1)
        BY <2>2, <3>1
      <4> QED BY <4>1, <4>2
    <3> QED BY <2>4, <3>2, <3>3
  <2>7. Ascending(r, m)
    BY <2>1, <2>5, <2>6 DEF Ascending
  <2> QED BY <2>7 DEF r
<1> QED BY <1>3, <1>4

\* The names in order are in order of place.
LEMMA NamesAscend ==
  ASSUME NEW names
  PROVE  Ascending(InOrder(names), 7)
<1> DEFINE named(k) == IF AxisOrder[k] \in names THEN <<AxisOrder[k]>> ELSE <<>>
<1>1. \A k \in 1..7 : named(k) = <<>> \/ named(k) = <<AxisOrder[k]>>
  OBVIOUS
<1>2. InOrder(names) =
        named(1) \o named(2) \o named(3) \o named(4) \o named(5) \o named(6) \o named(7)
  BY Zenon DEF InOrder
<1>3. <<>> \o named(1) = named(1)
  OBVIOUS
<1> HIDE DEF named
<1>4. ASSUME NEW m \in 1..7, NEW q, Ascending(q, m - 1)
      PROVE  Ascending(q \o named(m), m)
  <2>1. named(m) = <<>> \/ named(m) = <<AxisOrder[m]>>
    BY <1>1
  <2> QED BY <1>4, <2>1, AscendingOn
<1>5. Ascending(<<>>, 0)
  BY DEF Ascending
<1>6. Ascending(named(1), 1)
  <2> DEFINE none == <<>>
  <2>1. 1 \in 1..7 /\ 1 - 1 = 0 /\ none \o named(1) = named(1)
    BY <1>3
  <2>2. Ascending(none, 0)
    BY <1>5
  <2> HIDE DEF none
  <2>3. Ascending(none \o named(1), 1)
    BY <1>4, <2>1, <2>2
  <2> QED BY <2>1, <2>3
<1>7. Ascending(named(1) \o named(2), 2)
  BY <1>4, <1>6
<1>8. Ascending(named(1) \o named(2) \o named(3), 3)
  BY <1>4, <1>7
<1>9. Ascending(named(1) \o named(2) \o named(3) \o named(4), 4)
  BY <1>4, <1>8
<1>10. Ascending(named(1) \o named(2) \o named(3) \o named(4) \o named(5), 5)
  BY <1>4, <1>9
<1>11. Ascending(named(1) \o named(2) \o named(3) \o named(4) \o named(5) \o named(6), 6)
  BY <1>4, <1>10
<1>12. Ascending(named(1) \o named(2) \o named(3) \o named(4) \o named(5) \o named(6)
                 \o named(7), 7)
  BY <1>4, <1>11
<1> QED BY <1>2, <1>12

\* Nothing joined is empty unless both parts are.
LEMMA Joined ==
  ASSUME NEW S, NEW u \in Seq(S), NEW v \in Seq(S)
  PROVE  u \o v \in Seq(S) /\ (u \o v = <<>> => u = <<>> /\ v = <<>>)
<1>1. u \o v \in Seq(S) /\ Len(u \o v) = Len(u) + Len(v) /\ Len(u) \in Nat /\ Len(v) \in Nat
  OBVIOUS
<1>2. u # <<>> => Len(u) > 0
  OBVIOUS
<1>3. v # <<>> => Len(v) > 0
  OBVIOUS
<1>4. u \o v = <<>> => Len(u \o v) = 0
  OBVIOUS
<1> QED BY <1>1, <1>2, <1>3, <1>4

\* Where an axis is named, the names in order are not empty.
LEMMA SomeName ==
  ASSUME NEW names, NEW a \in Axes, a \in names
  PROVE  InOrder(names) # <<>>
<1> DEFINE named(k) == IF AxisOrder[k] \in names THEN <<AxisOrder[k]>> ELSE <<>>
           a2 == named(1) \o named(2)
           a3 == a2 \o named(3)
           a4 == a3 \o named(4)
           a5 == a4 \o named(5)
           a6 == a5 \o named(6)
           a7 == a6 \o named(7)
<1>1. InOrder(names) = a7
  BY Zenon DEF InOrder
<1>2. \A k \in 1..7 : named(k) \in Seq(names)
  OBVIOUS
<1>3. PICK m \in 1..7 : AxisOrder[m] = a
  <2>1. DOMAIN AxisOrder = 1..7
    BY DEF AxisOrder
  <2> QED BY <2>1 DEF Axes
<1>4. named(m) # <<>>
  BY <1>3
<1> HIDE DEF named
<1>5. /\ named(1) \in Seq(names) /\ named(2) \in Seq(names) /\ named(3) \in Seq(names)
      /\ named(4) \in Seq(names) /\ named(5) \in Seq(names) /\ named(6) \in Seq(names)
      /\ named(7) \in Seq(names)
  BY <1>2
<1>6. a2 \in Seq(names) /\ (a2 = <<>> => named(1) = <<>> /\ named(2) = <<>>)
  BY <1>5, Joined, Zenon
<1> HIDE DEF a2
<1>7. a3 \in Seq(names) /\ (a3 = <<>> => a2 = <<>> /\ named(3) = <<>>)
  BY <1>5, <1>6, Joined, Zenon
<1> HIDE DEF a3
<1>8. a4 \in Seq(names) /\ (a4 = <<>> => a3 = <<>> /\ named(4) = <<>>)
  BY <1>5, <1>7, Joined, Zenon
<1> HIDE DEF a4
<1>9. a5 \in Seq(names) /\ (a5 = <<>> => a4 = <<>> /\ named(5) = <<>>)
  BY <1>5, <1>8, Joined, Zenon
<1> HIDE DEF a5
<1>10. a6 \in Seq(names) /\ (a6 = <<>> => a5 = <<>> /\ named(6) = <<>>)
  BY <1>5, <1>9, Joined, Zenon
<1> HIDE DEF a6
<1>11. a7 \in Seq(names) /\ (a7 = <<>> => a6 = <<>> /\ named(7) = <<>>)
  BY <1>5, <1>10, Joined, Zenon
<1> HIDE DEF a7
<1>12. m = 1 \/ m = 2 \/ m = 3 \/ m = 4 \/ m = 5 \/ m = 6 \/ m = 7
  BY <1>3
<1>13. a7 # <<>>
  BY <1>4, <1>6, <1>7, <1>8, <1>9, <1>10, <1>11, <1>12, Zenon
<1> QED BY <1>1, <1>13

\* The gates of the axes that wait are sealed before the others, and are as many as
\* the gates that name an axis.
LEMMA FrontOf ==
  ASSUME NEW S, NEW u \in Seq(S), NEW T, NEW v \in Seq(T),
         \A k \in DOMAIN u : u[k][1] = "OPERATIONAL",
         \A g \in T : g[1] # "OPERATIONAL"
  PROVE  SubSeq(u \o v, 1, Cardinality({k \in DOMAIN (u \o v) : (u \o v)[k][1] = "OPERATIONAL"}))
           = u
<1> DEFINE w == u \o v
           named == {k \in DOMAIN w : w[k][1] = "OPERATIONAL"}
<1>1. /\ Len(u) \in Nat /\ Len(v) \in Nat /\ DOMAIN u = 1..Len(u) /\ DOMAIN v = 1..Len(v)
      /\ u \in Seq(S \cup T) /\ v \in Seq(S \cup T)
  OBVIOUS
<1>2. /\ w \in Seq(S \cup T) /\ Len(w) = Len(u) + Len(v) /\ DOMAIN w = 1..(Len(u) + Len(v))
      /\ \A k \in 1..Len(u) : w[k] = u[k]
      /\ \A k \in (Len(u) + 1)..(Len(u) + Len(v)) : w[k] = v[k - Len(u)]
  BY <1>1
<1> HIDE DEF w
<1>3. \A k \in 1..Len(u) : w[k][1] = "OPERATIONAL"
  BY <1>1, <1>2
<1>4. \A k \in (Len(u) + 1)..(Len(u) + Len(v)) : w[k][1] # "OPERATIONAL"
  <2> TAKE k \in (Len(u) + 1)..(Len(u) + Len(v))
  <2>1. k - Len(u) \in 1..Len(v)
    BY <1>1
  <2>2. v[k - Len(u)] \in T
    BY <1>1, <2>1
  <2> QED BY <1>2, <2>2
<1>5. named = 1..Len(u)
  <2>1. ASSUME NEW k \in DOMAIN w, k \notin 1..Len(u)
        PROVE  k \in (Len(u) + 1)..(Len(u) + Len(v))
    BY <1>1, <1>2, <2>1
  <2>2. 1..Len(u) \subseteq DOMAIN w
    BY <1>1, <1>2
  <2> QED BY <1>3, <1>4, <2>1, <2>2
<1>6. Cardinality(named) = Len(u)
  <2>1. Cardinality(1..Len(u)) = Len(u)
    <3>1. 1 \in Int /\ Len(u) \in Int
      BY <1>1
    <3>2. Cardinality(1..Len(u)) = IF 1 > Len(u) THEN 0 ELSE Len(u) - 1 + 1
      BY <3>1, FS_Interval
    <3> QED BY <1>1, <3>2
  <2> QED BY <1>5, <2>1
<1>7. SubSeq(w, 1, Len(u)) = u
  BY <1>1, <1>2
<1>8. SubSeq(w, 1, Cardinality(named)) = u
  BY <1>6, <1>7
<1> QED BY <1>8 DEF w

\* The other gates name no axis.
GateRows(strategy, action, approval) ==
  {<<"BASE_CLASSIFICATION_UNCLASSIFIED">>, <<"STRATEGY", strategy>>,
   <<"ORDER_ACTION", action>>, <<"HML_APPROVAL", approval>>}

\* They are a sequence of these rows.
LEMMA GatesOfPolicy ==
  ASSUME NEW source, NEW strategy, NEW action, NEW approval
  PROVE  /\ PolicyGates(source, strategy, action, approval)
              \in Seq(GateRows(strategy, action, approval))
         /\ \A g \in GateRows(strategy, action, approval) : g[1] # "OPERATIONAL"
<1> DEFINE T == GateRows(strategy, action, approval)
           r1 == <<"BASE_CLASSIFICATION_UNCLASSIFIED">>
           r2 == <<"STRATEGY", strategy>>
           r3 == <<"ORDER_ACTION", action>>
           r4 == <<"HML_APPROVAL", approval>>
           t1 == IF source = "UNCLASSIFIED" THEN <<r1>> ELSE <<>>
           t2 == IF strategy \notin {None, "MATHEMATICAL"} THEN <<r2>> ELSE <<>>
           t3 == IF action # "ALLOW" THEN <<r3>> ELSE <<>>
           t4 == IF approval \in {"STANDARD", "HIGH_VALUE"} THEN <<r4>> ELSE <<>>
<1>1. PolicyGates(source, strategy, action, approval) = t1 \o t2 \o t3 \o t4
  BY Zenon DEF PolicyGates
<1>2. T = {r1, r2, r3, r4}
  BY Zenon DEF GateRows
<1>3. /\ r1[1] # "OPERATIONAL" /\ r2[1] # "OPERATIONAL" /\ r3[1] # "OPERATIONAL"
      /\ r4[1] # "OPERATIONAL"
  OBVIOUS
<1> HIDE DEF T, r1, r2, r3, r4
<1>4. t1 \in Seq(T) /\ t2 \in Seq(T) /\ t3 \in Seq(T) /\ t4 \in Seq(T)
  <2>1. r1 \in T /\ r2 \in T /\ r3 \in T /\ r4 \in T
    BY <1>2
  <2> QED BY <2>1
<1> HIDE DEF t1, t2, t3, t4
<1>5. t1 \o t2 \o t3 \o t4 \in Seq(T)
  <2>1. t1 \o t2 \in Seq(T)
    BY <1>4
  <2>2. t1 \o t2 \o t3 \in Seq(T)
    BY <1>4, <2>1
  <2> QED BY <1>4, <2>2
<1>6. \A g \in T : g[1] # "OPERATIONAL"
  BY <1>2, <1>3
<1> QED BY <1>1, <1>5, <1>6 DEF T

\* The gates of the axes that wait, in the order of the axes.
LEMMA WaitingIs ==
  ASSUME NEW axes
  PROVE  LET names == Operational(axes) \ EffectiveAxes(axes)
             w     == Waiting(axes)
         IN /\ w \in Seq({w[k] : k \in DOMAIN w})
            /\ \A k \in DOMAIN w : w[k][1] = "OPERATIONAL"
            /\ \A j, k \in DOMAIN w : j < k => Place(w[j][2]) <= Place(w[k][2])
            /\ names # {} => w # <<>>
<1> DEFINE names == Operational(axes) \ EffectiveAxes(axes)
           q == InOrder(names)
           w == Waiting(axes)
<1>1. w = [k \in DOMAIN q |-> <<"OPERATIONAL", q[k], axes[q[k]].status>>]
  BY Zenon DEF Waiting
<1>2. Ascending(q, 7) /\ q \in Seq(names)
  BY NamesAscend, OrderedNames
<1>3. names # {} => q # <<>>
  <2>1. names \subseteq Axes
    BY DEF Operational, EffectiveAxes
  <2> HIDE DEF names
  <2> QED BY <2>1, SomeName
<1> HIDE DEF names, q, w
<1>4. Len(q) \in Nat /\ DOMAIN q = 1..Len(q) /\ DOMAIN w = 1..Len(q)
  BY <1>1, <1>2
<1>5. w \in Seq({w[k] : k \in DOMAIN w})
  <2> DEFINE R == {w[k] : k \in DOMAIN w}
  <2>1. \A k \in 1..Len(q) : w[k] \in R
    BY <1>4
  <2>2. w = [k \in 1..Len(q) |-> w[k]]
    BY <1>1, <1>4
  <2> HIDE DEF R
  <2>3. w \in [1..Len(q) -> R]
    BY <2>1, <2>2
  <2>4. w \in Seq(R)
    BY <1>4, <2>3
  <2> QED BY <2>4 DEF R
<1>6. \A k \in DOMAIN w : w[k][1] = "OPERATIONAL" /\ w[k][2] = q[k]
  BY <1>1, <1>4
<1>7. \A j, k \in DOMAIN w : j < k => Place(w[j][2]) <= Place(w[k][2])
  BY <1>2, <1>4, <1>6 DEF Ascending
<1>8. names # {} => w # <<>>
  <2> SUFFICES ASSUME names # {} PROVE w # <<>>
    OBVIOUS
  <2>1. Len(q) # 0
    BY <1>2, <1>3
  <2>2. 1 \in DOMAIN w
    BY <1>4, <2>1
  <2> QED BY <2>2
<1> QED BY <1>5, <1>6, <1>7, <1>8 DEF names, w

\* The fields of a policy, read back.
LEMMA FieldsAre ==
  ASSUME NEW name, NEW base, NEW eligible, NEW calculation, NEW action, NEW execution,
         NEW noOrder, NEW leadTime, NEW approval, NEW publish, NEW order, NEW projection,
         NEW adjustments, NEW gates
  PROVE  LET f == Fields(name, base, eligible, calculation, action, execution, noOrder, leadTime,
                         approval, publish, order, projection, adjustments, gates)
         IN /\ f.base = base /\ f.eligible = eligible /\ f.calculation = calculation
            /\ f.action = action /\ f.execution = execution /\ f.noOrder = noOrder
            /\ f.leadTime = leadTime /\ f.approval = approval /\ f.publish = publish
            /\ f.order = order /\ f.projection = projection
            /\ f.adjustments = adjustments /\ f.gates = gates
BY DEF Fields

\* A policy made of a base that is valid, of axes that wait and of a reason not to act
\* passes the validation.
LEMMA PolicySound ==
  ASSUME NEW name, NEW projection, NEW base, NEW eligible \in BOOLEAN, NEW axes,
         BaseValid(base), base.source = "UNCLASSIFIED" => ~eligible,
         \/ eligible \/ Waiting(axes) # <<>> \/ base.source = "UNCLASSIFIED"
         \/ base.strategy \notin {None, "MATHEMATICAL"}
  PROVE  ValidV2(PolicyFrom(name, projection, base, eligible, Waiting(axes)))
<1> DEFINE action   == IF eligible THEN StrictestAction(projection) ELSE "BLOCK"
           approval == ApprovalOf(projection)
           publish  == eligible /\ action = "ALLOW"
           order    == publish /\ approval \in {None, "AUTO"}
           calculation == eligible /\ action # "BLOCK"
           noOrder == action = "BLOCK"
           leadTime == LeadTimeOf(projection)
           adjustments == AdjustmentReasons(projection, base.source)
           waiting == Waiting(axes)
           rest == PolicyGates(base.source, base.strategy, action, approval)
           gates == waiting \o rest
           f == Fields(name, base, eligible, calculation, action, order, noOrder, leadTime,
                       approval, publish, order, projection, adjustments, gates)
<1>1. PolicyFrom(name, projection, base, eligible, waiting) = f
  BY Zenon DEF PolicyFrom, Fields
<1>2. /\ waiting \in Seq({waiting[k] : k \in DOMAIN waiting})
      /\ \A k \in DOMAIN waiting : waiting[k][1] = "OPERATIONAL"
      /\ \A j, k \in DOMAIN waiting : j < k => Place(waiting[j][2]) <= Place(waiting[k][2])
  BY WaitingIs
<1> HIDE DEF action, approval
<1>3. /\ rest \in Seq(GateRows(base.strategy, action, approval))
      /\ \A g \in GateRows(base.strategy, action, approval) : g[1] # "OPERATIONAL"
  BY GatesOfPolicy
<1>4. action = IF eligible THEN StrictestAction(projection) ELSE "BLOCK"
  BY DEF action
<1>5. approval = ApprovalOf(projection)
  BY DEF approval
<1> HIDE DEF waiting, rest
<1>6. SubSeq(gates, 1, Cardinality({k \in DOMAIN gates : gates[k][1] = "OPERATIONAL"})) = waiting
  BY <1>2, <1>3, FrontOf
<1> DEFINE W == {waiting[k] : k \in DOMAIN waiting}
<1>7. gates = waiting \o rest
  OBVIOUS
<1> HIDE DEF publish, order, calculation, noOrder, leadTime, adjustments, gates
<1>8. /\ f.base = base /\ f.eligible = eligible /\ f.calculation = calculation
      /\ f.action = action /\ f.execution = order /\ f.noOrder = noOrder
      /\ f.leadTime = leadTime /\ f.approval = approval /\ f.publish = publish
      /\ f.order = order /\ f.projection = projection
      /\ f.adjustments = adjustments /\ f.gates = gates
  BY FieldsAre
<1> HIDE DEF f
<1> DEFINE expected == IF f.eligible THEN StrictestAction(f.projection) ELSE "BLOCK"
           ofAxes   == {k \in DOMAIN f.gates : f.gates[k][1] = "OPERATIONAL"}
           fromAxes == SubSeq(f.gates, 1, Cardinality(ofAxes))
<1>9. expected = action /\ fromAxes = waiting
  BY <1>4, <1>6, <1>8
<1>10. BaseValid(f.base) /\ (f.base.source = "UNCLASSIFIED" => ~f.eligible)
  BY <1>8
<1>11. /\ f.action = expected
       /\ f.leadTime = LeadTimeOf(f.projection) /\ f.approval = ApprovalOf(f.projection)
       /\ f.adjustments = AdjustmentReasons(f.projection, f.base.source)
  BY <1>5, <1>8, <1>9 DEF leadTime, adjustments
<1>12. /\ f.calculation = (f.eligible /\ expected # "BLOCK")
       /\ f.noOrder = (expected = "BLOCK")
       /\ f.publish = (f.eligible /\ expected = "ALLOW")
       /\ f.order = (f.publish /\ f.approval \in {None, "AUTO"})
       /\ f.execution = f.order
  <2>1. f.calculation = (f.eligible /\ expected # "BLOCK")
    BY <1>8, <1>9, Zenon DEF calculation
  <2>2. f.noOrder = (expected = "BLOCK")
    BY <1>8, <1>9, Zenon DEF noOrder
  <2>3. f.publish = (f.eligible /\ expected = "ALLOW")
    BY <1>8, <1>9, Zenon DEF publish
  <2>4. f.order = (f.publish /\ f.approval \in {None, "AUTO"})
    BY <1>8, <1>9, Zenon DEF order
  <2>5. f.execution = f.order
    BY <1>8, Zenon
  <2> HIDE DEF expected
  <2> QED BY <2>1, <2>2, <2>3, <2>4, <2>5, Zenon
<1>13. f.gates = fromAxes \o PolicyGates(f.base.source, f.base.strategy, expected, f.approval)
  BY <1>7, <1>8, <1>9, Zenon DEF rest
<1>14. \A j, k \in DOMAIN fromAxes : j < k => Place(fromAxes[j][2]) <= Place(fromAxes[k][2])
  BY <1>2, <1>9, Zenon
<1>15. \/ f.eligible \/ fromAxes # <<>> \/ f.base.source = "UNCLASSIFIED"
       \/ f.base.strategy \notin {None, "MATHEMATICAL"}
  BY <1>8, <1>9, Zenon DEF waiting
<1>16. ValidV2(f)
  BY <1>10, <1>11, <1>12, <1>13, <1>14, <1>15, Zenon DEF ValidV2, Place
<1> QED BY <1>1, <1>16 DEF waiting

\* A base policy is valid, and is unclassified exactly for an item that is.
LEMMA BaseDerived ==
  ASSUME NEW c, MatrixValid(c), NEW item, item.status \in {"CLASSIFIED", "UNCLASSIFIED"},
         item.status = "CLASSIFIED" => item.segment \in Segments,
         NEW ved, ved \in {None} \cup AxisClasses.VED
  PROVE  /\ BaseValid(BasePolicy(item, ved, c))
         /\ (BasePolicy(item, ved, c).source = "UNCLASSIFIED") <=> item.status = "UNCLASSIFIED"
         /\ item.status = "CLASSIFIED" => BasePolicy(item, ved, c).strategy \in Strategies
<1> DEFINE base == BasePolicy(item, ved, c)
<1>1. CASE item.status = "UNCLASSIFIED"
  <2>1. base = [level |-> 0, review |-> 0, strategy |-> None, source |-> "UNCLASSIFIED"]
    BY <1>1, Zenon DEF BasePolicy
  <2> HIDE DEF base
  <2>2. /\ base.level = 0 /\ base.review = 0 /\ base.strategy = None
        /\ base.source = "UNCLASSIFIED"
    BY <2>1
  <2>3. BaseValid(base)
    BY <2>2 DEF BaseValid
  <2> QED BY <1>1, <2>2, <2>3 DEF base
<1>2. CASE item.status = "CLASSIFIED"
  <2> DEFINE cell == c.cells[item.segment]
             raised == ved # None /\ c.floor[ved] > cell.level
             level == IF raised THEN c.floor[ved] ELSE cell.level
             source == IF raised THEN "ABC_XYZ_POLICY_MATRIX_WITH_VED_FLOOR"
                                 ELSE "ABC_XYZ_POLICY_MATRIX"
  <2>1. base = [level |-> level, review |-> cell.review, strategy |-> cell.strategy,
                source |-> source]
    BY <1>2, Zenon DEF BasePolicy
  <2>2. cell.level \in Levels /\ cell.review \in 1..13 /\ cell.strategy \in Strategies
    BY <1>2 DEF MatrixValid
  <2>3. level \in Levels
    BY <2>2 DEF MatrixValid
  <2>4. source # "UNCLASSIFIED"
    OBVIOUS
  <2> HIDE DEF base, cell, level, source
  <2>5. /\ base.level = level /\ base.review = cell.review /\ base.strategy = cell.strategy
        /\ base.source = source
    BY <2>1
  <2>6. cell.strategy # None
    BY <2>2 DEF Strategies, None
  <2>7. BaseValid(base)
    BY <2>2, <2>3, <2>4, <2>5, <2>6 DEF BaseValid
  <2> QED BY <1>2, <2>2, <2>4, <2>5, <2>7 DEF base
<1> QED BY <1>1, <1>2

\* The base of an item under a configuration of the site.
LEMMA BaseOfItem ==
  ASSUME NEW c \in Configs, NEW item, NEW m, NEW i, ItemParts(item, m, c.ved, i),
         NEW ved, ved \in {None} \cup AxisClasses.VED
  PROVE  /\ BaseValid(BasePolicy(item, ved, c))
         /\ (BasePolicy(item, ved, c).source = "UNCLASSIFIED") <=> item.status = "UNCLASSIFIED"
         /\ item.status = "CLASSIFIED" => BasePolicy(item, ved, c).strategy \in Strategies
         /\ item.status \in {"CLASSIFIED", "UNCLASSIFIED"}
<1>1. MatrixValid(c)
  BY ConfigTypes, Zenon DEF V1ConfigValid
<1>2. item.status \in {"CLASSIFIED", "UNCLASSIFIED"}
  BY DEF ItemParts
<1>3. ASSUME item.status = "CLASSIFIED" PROVE item.segment \in Segments
  <2>1. item.abcReason = None /\ item.xyzReason = None
    BY <1>3 DEF ItemParts
  <2>2. /\ item.abc \in {"A", "B", "C"} /\ item.xyz \in {"X", "Y", "Z"}
        /\ item.segment = <<item.abc, item.xyz>>
    BY <2>1 DEF ItemParts
  <2>3. AxisClasses.ABC = {"A", "B", "C"} /\ AxisClasses.XYZ = {"X", "Y", "Z"}
    BY DEF AxisClasses
  <2> QED BY <2>2, <2>3 DEF Segments
<1> QED BY <1>1, <1>2, <1>3, BaseDerived

\* A derived policy passes the validation.
LEMMA DerivedValid ==
  ASSUME NEW p, NEW i, NEW now, NEW c \in Configs, c.type = "SEVEN_AXIS", NEW item,
         ItemParts(item, p[i], c.ved, i)
  PROVE  ValidV2(DeriveV2(item, AxisResults(p, item, i, now, c), c))
<1> DEFINE x == AxisResults(p, item, i, now, c)
           projection == Projection(x, c.overlays)
           ved == VedOf(projection)
           base == BasePolicy(item, ved, c)
           eligible == Eligible(item, x, base.strategy)
<1>1. \A a \in Axes : AxisShaped(a, x[a], AxisOn(c)[a], AxisMode(c)[a])
  BY AxesShaped
<1> HIDE DEF x
<1>2. ved \in {None} \cup AxisClasses.VED
  <2>1. DOMAIN projection = EffectiveAxes(x)
    BY DEF Projection
  <2>2. \A a \in EffectiveAxes(x) : projection[a].class = x[a].class
    BY DEF Projection
  <2> HIDE DEF projection
  <2>3. CASE "VED" \in DOMAIN projection
    <3>1. "VED" \in Axes /\ x["VED"].status = "CLASSIFIED"
      BY <2>1, <2>3 DEF EffectiveAxes, Operational
    <3>2. x["VED"].class \in AxisClasses["VED"]
      BY <1>1, <3>1 DEF AxisShaped
    <3> QED BY <2>1, <2>2, <2>3, <3>2 DEF VedOf
  <2>4. CASE "VED" \notin DOMAIN projection
    BY <2>4 DEF VedOf
  <2> QED BY <2>3, <2>4
<1> HIDE DEF ved
<1>3. /\ BaseValid(base)
      /\ (base.source = "UNCLASSIFIED") <=> item.status = "UNCLASSIFIED"
      /\ item.status = "CLASSIFIED" => base.strategy \in Strategies
      /\ item.status \in {"CLASSIFIED", "UNCLASSIFIED"}
  BY <1>2, BaseOfItem
<1>4. DeriveV2(item, x, c) = PolicyFrom(c.name, projection, base, eligible, Waiting(x))
  BY DerivedFrom, Zenon DEF ved
<1> HIDE DEF projection, base
<1>5. eligible \in BOOLEAN /\ (base.source = "UNCLASSIFIED" => ~eligible)
  BY <1>3 DEF Eligible
<1>6. \/ eligible \/ Waiting(x) # <<>> \/ base.source = "UNCLASSIFIED"
      \/ base.strategy \notin {None, "MATHEMATICAL"}
  <2> SUFFICES ASSUME ~eligible, item.status = "CLASSIFIED", base.strategy = "MATHEMATICAL"
               PROVE  Waiting(x) # <<>>
    BY <1>3 DEF Strategies, None
  <2>1. Operational(x) \ EffectiveAxes(x) # {}
    BY DEF Eligible
  <2> QED BY <2>1, WaitingIs
<1> HIDE DEF eligible
<1>7. ValidV2(PolicyFrom(c.name, projection, base, eligible, Waiting(x)))
  BY <1>3, <1>5, <1>6, PolicySound
<1> QED BY <1>4, <1>7 DEF x

\* So does one of the contract 1.0.0.
LEMMA FirstContractValid ==
  ASSUME NEW m, NEW i, NEW c \in Configs, NEW item, ItemParts(item, m, c.ved, i)
  PROVE  ValidV1(DeriveV1(item, c)) /\ DeriveV1(item, c).config = c.name
<1> DEFINE base == BasePolicy(item, item.ved.class, c)
           eligible == base.strategy = "MATHEMATICAL"
           policy == DeriveV1(item, c)
<1>1. item.ved.class \in {None} \cup AxisClasses.VED
  <2>1. AxisClasses.VED = {"V", "E", "D"} /\ item.ved = VedResult(c.ved, i)
    BY DEF AxisClasses, ItemParts
  <2> QED BY <2>1, VedClassed
<1>2. BaseValid(base)
  BY <1>1, BaseOfItem
<1>3. policy = [version |-> "1.0.0", config |-> c.name, base |-> base, eligible |-> eligible]
  BY Zenon DEF DeriveV1
<1>4. eligible = (base.strategy = "MATHEMATICAL")
  OBVIOUS
<1> HIDE DEF base, eligible, policy
<1>5. policy.base = base /\ policy.eligible = eligible /\ policy.config = c.name
  BY <1>3
<1>6. ValidV1(policy)
  BY <1>2, <1>4, <1>5, Zenon DEF ValidV1
<1> QED BY <1>5, <1>6 DEF policy

\* What the document says besides its items: sums that were made of them and, for
\* seven axes, a header that agrees with itself and the windows of its configuration.
PaperSound(s) ==
  /\ s.aggregates = Aggregates(s.items)
  /\ s.type = "SEVEN_AXIS" => HeaderValid(s) /\ s.windows = Windows(s.config)

\* Synthetic evidence on an axis that is used for orders.
UsesSynthetic(axes) == \E a \in Operational(axes) : axes[a].status = "SYNTHETIC"

\* The results and the classification of each item of a sound document.
LEMMA ItemsOf ==
  ASSUME NEW s, DocumentSound(s), NEW i \in DOMAIN s.metrics
  PROVE  /\ ItemParts(s.items[i], s.metrics[i], s.config.ved, i)
         /\ s.type = "SEVEN_AXIS" =>
              /\ s.axes[i] = AxisResults(s.metrics, s.items[i], i, s.asOf, s.config)
              /\ s.policies[i] = DeriveV2(s.items[i], s.axes[i], s.config)
         /\ s.type # "SEVEN_AXIS" => s.policies[i] = DeriveV1(s.items[i], s.config)
<1>1. s.items[i] = ClassifiedItem(s.metrics, s.config, i)
  BY DEF DocumentSound
<1>2. ItemParts(s.items[i], s.metrics[i], s.config.ved, i)
  BY <1>1, ItemIs
<1>3. s.type = "SEVEN_AXIS" =>
        s.axes[i] = AxisResults(s.metrics, s.items[i], i, s.asOf, s.config)
  BY DEF DocumentSound, AxesOf
<1>4. /\ s.type = "SEVEN_AXIS" => s.policies[i] = DeriveV2(s.items[i], s.axes[i], s.config)
      /\ s.type # "SEVEN_AXIS" => s.policies[i] = DeriveV1(s.items[i], s.config)
  BY DEF DocumentSound
<1> QED BY <1>2, <1>3, <1>4

\* An item of a sound document is refused for its revenue or for synthetic evidence.
LEMMA ItemAccepted ==
  ASSUME NEW s, DocumentSound(s), s.type = "SEVEN_AXIS", NEW i \in DOMAIN s.metrics
  PROVE  V2ItemRefusal(s, i) = None
           <=> s.metrics[i].abc.revenue >= 0 /\ ~UsesSynthetic(s.axes[i])
<1> DEFINE x == s.axes[i]
           c == s.config
           item == s.items[i]
<1>1. /\ ItemParts(item, s.metrics[i], c.ved, i)
      /\ x = AxisResults(s.metrics, item, i, s.asOf, c)
      /\ s.policies[i] = DeriveV2(item, x, c)
  BY ItemsOf
<1>2. c \in Configs /\ c.type = "SEVEN_AXIS"
  BY DEF DocumentSound
<1> HIDE DEF x, c, item
<1>3. ValidV2(s.policies[i])
  BY <1>1, <1>2, DerivedValid
<1>4. s.policies[i].config = c.name
  BY <1>1, DerivedConfig
<1>5. \A a \in Axes : AxisShaped(a, x[a], AxisOn(c)[a], AxisMode(c)[a])
  BY <1>1, <1>2, AxesShaped
<1>6. (\A a \in Axes : AxisValid(a, x[a])) <=> ~UsesSynthetic(x)
  <2>1. \A a \in Axes : AxisValid(a, x[a])
                          <=> ~(x[a].status = "SYNTHETIC" /\ x[a].mode = "OPERATIONAL")
    BY <1>5, Zenon DEF AxisShaped
  <2> QED BY <2>1 DEF UsesSynthetic, Operational
<1>7. ProjectionMatches(s.policies[i], x)
  BY <1>1, ProjectionSound
<1>8. BaseMatches(item, x)
  BY <1>1, <1>2, BaseSound
<1>9. RevenueStated(item) <=> s.metrics[i].abc.revenue >= 0
  BY <1>1 DEF RevenueStated, ItemParts
<1>10. V2ItemRefusal(s, i) = None <=>
         /\ ValidV2(s.policies[i]) /\ s.policies[i].config = s.config.name
         /\ \A a \in Axes : AxisValid(a, s.axes[i][a])
         /\ ProjectionMatches(s.policies[i], s.axes[i])
         /\ BaseMatches(s.items[i], s.axes[i]) /\ RevenueStated(s.items[i])
  BY ItemChecked
<1> QED BY <1>3, <1>4, <1>6, <1>7, <1>8, <1>9, <1>10, Zenon DEF x, c, item

\* The axes of a sound document are on and in one mode for the whole site, and its
\* windows are those of the axes that are on.
LEMMA SiteUniform ==
  ASSUME NEW s, DocumentSound(s), s.type = "SEVEN_AXIS", s.windows = Windows(s.config)
  PROVE  (\A a \in Axes : AxisUniform(s, a)) /\ WindowsMatch(s)
<1> DEFINE c == s.config
           D == DOMAIN s.metrics
           x == s.axes
<1>1. c \in Configs /\ c.type = "SEVEN_AXIS" /\ DOMAIN x = D
  BY DEF DocumentSound, AxesOf
<1>2. PICK i \in D : TRUE
  BY DEF DocumentSound, Candidates
<1>3. \A j \in D, a \in Axes : AxisShaped(a, x[j][a], AxisOn(c)[a], AxisMode(c)[a])
  <2> SUFFICES ASSUME NEW j \in D
               PROVE  \A a \in Axes : AxisShaped(a, x[j][a], AxisOn(c)[a], AxisMode(c)[a])
    OBVIOUS
  <2>1. /\ ItemParts(s.items[j], s.metrics[j], c.ved, j)
        /\ x[j] = AxisResults(s.metrics, s.items[j], j, s.asOf, c)
    BY ItemsOf
  <2> HIDE DEF c, x
  <2> QED BY <1>1, <2>1, AxesShaped
<1> HIDE DEF c, x, D
<1>4. \A j \in D, a \in Axes : /\ x[j][a].mode = AxisMode(c)[a]
                               /\ (x[j][a].status = "NOT_APPLICABLE") <=> ~AxisOn(c)[a]
  BY <1>3, Zenon DEF AxisShaped
<1>5. ASSUME NEW a \in Axes PROVE AxisUniform(s, a)
  <2>1. {x[j][a].mode : j \in D} = {AxisMode(c)[a]}
    BY <1>2, <1>4
  <2>2. Cardinality({AxisMode(c)[a]}) = 1
    BY FS_Singleton
  <2>3. Cardinality({x[j][a].mode : j \in D}) = 1
    BY <2>1, <2>2
  <2>4. \/ \A j \in D : x[j][a].status = "NOT_APPLICABLE"
        \/ \A j \in D : x[j][a].status # "NOT_APPLICABLE"
    BY <1>4
  <2> QED BY <1>1, <2>3, <2>4, Zenon DEF AxisUniform, x
<1>6. /\ AxisOn(c)["FSN"] = c.fsn.enabled /\ AxisOn(c)["SDE"] = c.sde.enabled
      /\ {"FSN", "SDE"} \subseteq Axes
  BY AxisNames DEF AxisOn
<1>7. DOMAIN s.windows = {"ABC", "XYZ"} \cup (IF c.fsn.enabled THEN {"FSN"} ELSE {})
                                        \cup (IF c.sde.enabled THEN {"SDE"} ELSE {})
  BY DEF Windows, c
<1>8. WindowsMatch(s)
  <2>1. ("FSN" \in DOMAIN s.windows) <=> \E j \in D : x[j]["FSN"].status # "NOT_APPLICABLE"
    BY <1>2, <1>4, <1>6, <1>7
  <2>2. ("SDE" \in DOMAIN s.windows) <=> \E j \in D : x[j]["SDE"].status # "NOT_APPLICABLE"
    BY <1>2, <1>4, <1>6, <1>7
  <2>3. \A a \in {"FSN", "SDE"} :
          (a \in DOMAIN s.windows) <=> \E j \in D : x[j][a].status # "NOT_APPLICABLE"
    BY <2>1, <2>2
  <2>4. \A a \in {"FSN", "SDE"} :
          (a \in DOMAIN s.windows)
            <=> \E j \in DOMAIN s.axes : s.axes[j][a].status # "NOT_APPLICABLE"
    BY <1>1, <2>3 DEF x
  <2>5. \A a \in {"FSN", "SDE"} :
          (a \in DOMAIN s.windows)
            = \E j \in DOMAIN s.axes : s.axes[j][a].status # "NOT_APPLICABLE"
    <3> TAKE a \in {"FSN", "SDE"}
    <3> DEFINE listed == a \in DOMAIN s.windows
               used == \E j \in DOMAIN s.axes : s.axes[j][a].status # "NOT_APPLICABLE"
    <3>1. (listed <=> used) /\ listed \in BOOLEAN /\ used \in BOOLEAN
      BY <2>4
    <3> HIDE DEF listed, used
    <3>2. listed = used
      BY <3>1
    <3> QED BY <3>2 DEF listed, used
  <2> QED BY <2>5, Zenon DEF WindowsMatch
<1> QED BY <1>5, <1>8

\* A document of the contract 1.0.0 is never refused.
LEMMA FirstContractAccepted ==
  ASSUME NEW s, DocumentSound(s), PaperSound(s), s.type # "SEVEN_AXIS"
  PROVE  PublisherRefusal(s) = None
<1> DEFINE a == \E i \in DOMAIN s.items : \/ ~ValidV1(s.policies[i])
                                          \/ s.policies[i].config # s.config.name
           b == \E i \in DOMAIN s.items : s.items[i].status = "CLASSIFIED"
                                            /\ ~RevenueStated(s.items[i])
           d == ~AggregatesMatch(s)
<1>1. PublisherRefusal(s) =
        First(<< <<a, "ITEM_POLICY_SEMANTICS_INVALID">>,
                 <<b, "CLASSIFICATION_SNAPSHOT_REVENUE_INVALID">>,
                 <<d, "CLASSIFICATION_SNAPSHOT_AGGREGATE_MISMATCH">> >>)
  BY Zenon DEF PublisherRefusal, V1Refusal
<1>2. DOMAIN s.items = DOMAIN s.metrics /\ s.config \in Configs
  BY DEF DocumentSound
<1>3. ~a
  <2> SUFFICES ASSUME NEW i \in DOMAIN s.metrics
               PROVE  ValidV1(s.policies[i]) /\ s.policies[i].config = s.config.name
    BY <1>2
  <2>1. /\ ItemParts(s.items[i], s.metrics[i], s.config.ved, i)
        /\ s.policies[i] = DeriveV1(s.items[i], s.config)
    BY ItemsOf
  <2> DEFINE m == s.metrics[i]
             c == s.config
             item == s.items[i]
  <2>2. c \in Configs /\ ItemParts(item, m, c.ved, i)
    BY <1>2, <2>1
  <2> HIDE DEF m, c, item
  <2>3. ValidV1(DeriveV1(item, c)) /\ DeriveV1(item, c).config = c.name
    BY <2>2, FirstContractValid
  <2> QED BY <2>1, <2>3 DEF c, item
<1>4. ~b
  <2> SUFFICES ASSUME NEW i \in DOMAIN s.metrics, s.items[i].status = "CLASSIFIED"
               PROVE  RevenueStated(s.items[i])
    BY <1>2
  <2>1. ItemParts(s.items[i], s.metrics[i], s.config.ved, i)
    BY ItemsOf
  <2>2. AbcReason(s.metrics[i]) = None /\ s.items[i].revenue = s.metrics[i].abc.revenue
    BY <2>1 DEF ItemParts
  <2>3. Counted(s.metrics[i])
    BY DEF DocumentSound
  <2>4. s.metrics[i].abc.revenue > 0 /\ s.metrics[i].abc.revenue \in Int
    BY <2>2, <2>3, CandidatePays DEF Counted
  <2> QED BY <2>2, <2>4 DEF RevenueStated
<1>5. ~d
  BY DEF PaperSound, AggregatesMatch
<1>6. a \in BOOLEAN /\ b \in BOOLEAN /\ d \in BOOLEAN
  OBVIOUS
<1>7. /\ "ITEM_POLICY_SEMANTICS_INVALID" # None
      /\ "CLASSIFICATION_SNAPSHOT_REVENUE_INVALID" # None
      /\ "CLASSIFICATION_SNAPSHOT_AGGREGATE_MISMATCH" # None
  BY DEF None
<1> HIDE DEF a, b, d
<1> QED BY <1>1, <1>3, <1>4, <1>5, <1>6, <1>7, Table3

\* What the publisher says of a sound document.
LEMMA RefusalIs ==
  ASSUME NEW s, DocumentSound(s), PaperSound(s)
  PROVE  /\ PublisherRefusal(s) # "PUBLISHED"
         /\ (PublisherRefusal(s) # None) <=>
              /\ s.type = "SEVEN_AXIS"
              /\ \E i \in DOMAIN s.metrics :
                   s.metrics[i].abc.revenue < 0 \/ UsesSynthetic(s.axes[i])
<1>1. CASE s.type # "SEVEN_AXIS"
  BY <1>1, FirstContractAccepted DEF None
<1>2. CASE s.type = "SEVEN_AXIS"
  <2>1. DOMAIN s.items = DOMAIN s.metrics
    BY DEF DocumentSound
  <2>2. IsFiniteSet(DOMAIN s.items) /\ DOMAIN s.items \subseteq Int
    BY <2>1 DEF DocumentSound
  <2>3. (\A a \in Axes : AxisUniform(s, a)) /\ WindowsMatch(s)
    BY <1>2, SiteUniform DEF PaperSound
  <2>4. AggregatesMatch(s) /\ HeaderValid(s)
    BY <1>2 DEF PaperSound, AggregatesMatch
  <2>5. /\ V2Refusal(s) = None <=> \A i \in DOMAIN s.items : V2ItemRefusal(s, i) = None
        /\ V2Refusal(s) # "PUBLISHED"
    BY <2>2, <2>3, <2>4, ItemsDecide
  <2>6. \A i \in DOMAIN s.metrics :
          /\ V2ItemRefusal(s, i) = None
               <=> s.metrics[i].abc.revenue >= 0 /\ ~UsesSynthetic(s.axes[i])
          /\ s.metrics[i].abc.revenue \in Int
    BY <1>2, ItemAccepted DEF DocumentSound, Counted
  <2>7. \A i \in DOMAIN s.metrics :
          (V2ItemRefusal(s, i) # None)
            <=> s.metrics[i].abc.revenue < 0 \/ UsesSynthetic(s.axes[i])
    BY <2>6
  <2>8. PublisherRefusal(s) = V2Refusal(s)
    BY <1>2 DEF PublisherRefusal
  <2> QED BY <1>2, <2>1, <2>5, <2>7, <2>8
<1> QED BY <1>1, <1>2

\* The weeks a seven axis document is bound to lie in its window.
LEMMA LineageInWindow ==
  ASSUME WorldSound, config.type = "SEVEN_AXIS"
  PROVE  /\ DemandWindow(config) \in 13..156 /\ SourceLineage \in 13..156
         /\ SourceLineage <= DemandWindow(config)
         /\ {config.abc.lookback, config.xyz.lookback} \subseteq 13..156
<1> DEFINE D == {config.abc.lookback, config.xyz.lookback}
                  \cup (IF config.fsn.enabled THEN {config.fsn.lookback} ELSE {})
           L == {config.abc.lookback, config.xyz.lookback}
                  \cup (IF FsnSealed THEN {config.fsn.lookback} ELSE {})
<1>1. V1ConfigValid(config) /\ V2ConfigValid(config)
  BY ConfigTypes DEF WorldSound
<1>2. /\ config.abc.lookback \in 13..156 /\ config.xyz.lookback \in 13..156
      /\ config.fsn.lookback \in 13..156
  BY <1>1, Zenon DEF V1ConfigValid, RulesValid, V2ConfigValid, FsnRulesValid
<1>3. D \subseteq 13..156 /\ L \subseteq 13..156 /\ D # {} /\ L # {}
  BY <1>2
<1>4. L \subseteq D
  BY DEF FsnSealed
<1>5. DemandWindow(config) = Max(D) /\ SourceLineage = Max(L)
  BY Zenon DEF DemandWindow, SourceLineage
<1> HIDE DEF D, L
<1>6. Max(D) \in D /\ \A x \in D : x <= Max(D)
  <2>1. D \in SUBSET (13..156) /\ D # {} /\ 13 \in Int /\ 156 \in Int
    BY <1>3
  <2> QED BY <2>1, GreatestWeek, Zenon
<1>7. Max(L) \in L
  <2>1. L \in SUBSET (13..156) /\ L # {} /\ 13 \in Int /\ 156 \in Int
    BY <1>3
  <2> QED BY <2>1, GreatestWeek, Zenon
<1> QED BY <1>2, <1>3, <1>4, <1>5, <1>6, <1>7

\* The document that is built is bound to the weeks it was built from.
LEMMA BuiltPaper ==
  ASSUME WorldSound, NEW decided \in BOOLEAN
  PROVE  PaperSound(SnapshotOf(Metrics, config, decided))
<1> DEFINE p == Metrics
           asOf  == IF decided THEN week + 1 ELSE week
           items == [i \in DOMAIN p |-> ClassifiedItem(p, config, i)]
           axes == [i \in DOMAIN p |-> AxisResults(p, items[i], i, asOf, config)]
           s == DocumentOf(p, config, decided, asOf, items, axes)
           header == Header(config, decided)
           lineage == week - SourceLineage + 1
           start == week - DemandWindow(config) + 1
           end == week + 1
<1>1. SnapshotOf(Metrics, config, decided) = s
  BY Zenon DEF SnapshotOf
<1>2. header = [decided |-> decided, history |-> week, lineage |-> lineage,
                start |-> start, end |-> end]
  BY Zenon DEF Header
<1>3. asOf = (IF decided THEN week + 1 ELSE week) /\ week \in Nat /\ end = week + 1
  BY DEF WorldSound
<1>4. config.type = "SEVEN_AXIS" =>
        /\ start < end /\ lineage \in start .. end - 1
        /\ {config.abc.lookback, config.xyz.lookback} \subseteq 13..156
  BY <1>3, LineageInWindow
<1> HIDE DEF p, asOf, items, axes, header, lineage, start, end
<1>5. /\ s.config = config /\ s.type = config.type /\ s.asOf = asOf /\ s.items = items
      /\ s.header = header /\ s.aggregates = Aggregates(items)
      /\ config.type = "SEVEN_AXIS" => s.windows = Windows(config)
  BY DEF DocumentOf, header
<1> HIDE DEF s
<1>6. /\ header.decided = decided /\ header.history = week /\ header.lineage = lineage
      /\ header.start = start /\ header.end = end
  BY <1>2
<1>7. ASSUME config.type = "SEVEN_AXIS" PROVE HeaderValid(s)
  <2>1. /\ s.header.decided = decided /\ s.header.history = week /\ s.header.lineage = lineage
        /\ s.header.start = start /\ s.header.end = end
    BY <1>5, <1>6
  <2>2. RevisionMatches(s)
    BY <1>3, <1>5, <2>1 DEF RevisionMatches
  <2>3. s.asOf = IF s.header.decided THEN s.header.end ELSE s.header.end - 1
    BY <1>3, <1>5, <2>1
  <2> QED BY <1>4, <1>5, <1>7, <2>1, <2>2, <2>3 DEF HeaderValid
<1>8. PaperSound(s)
  BY <1>5, <1>7 DEF PaperSound
<1> QED BY <1>1, <1>8

\* The last document agrees with itself, and the verdict is the publisher's of it.
RefusalSound ==
  /\ snapshot # Nothing => PaperSound(snapshot)
  /\ verdict # None =>
       verdict = IF PublisherRefusal(snapshot) = None THEN "PUBLISHED"
                 ELSE PublisherRefusal(snapshot)

\* Every step keeps it: a build takes the verdict back, and no other step touches the
\* document.
LEMMA StepRefusal ==
  SnapshotSound /\ RefusalSound /\ [SnapshotNext]_snapshotVars => RefusalSound'
<1> SUFFICES ASSUME SnapshotSound, RefusalSound, [SnapshotNext]_snapshotVars
             PROVE  RefusalSound'
  OBVIOUS
<1>1. CASE Build
  <2>1. PICK decided \in BOOLEAN :
          snapshot' = IF LoadRefusal = None /\ BuildRefusal(Metrics, config) = None
                      THEN SnapshotOf(Metrics, config, decided) ELSE Nothing
    BY <1>1, Zenon DEF Build
  <2>2. verdict' = None
    BY <1>1 DEF Build
  <2>3. PaperSound(SnapshotOf(Metrics, config, decided))
    BY BuiltPaper DEF SnapshotSound
  <2>4. snapshot' # Nothing => PaperSound(snapshot')
    BY <2>1, <2>3
  <2> QED BY <2>2, <2>4 DEF RefusalSound
<1>2. CASE Publish
  <2>1. /\ snapshot' = snapshot
        /\ verdict' = IF PublisherRefusal(snapshot) = None THEN "PUBLISHED"
                      ELSE PublisherRefusal(snapshot)
    BY <1>2 DEF Publish
  <2> QED BY <2>1 DEF RefusalSound
<1>3. CASE ~Build /\ ~Publish
  <2>1. snapshot' = snapshot /\ verdict' = verdict
    BY <1>3 DEF SnapshotNext, snapshotVars, Revise, Retire, Reconfigure, CloseWeek, Correct,
                Withdraw, Changed, Admit
  <2> QED BY <2>1 DEF RefusalSound
<1> QED BY <1>1, <1>2, <1>3

\* The publisher refuses what build_snapshot built for two reasons only: a revenue that
\* is negative, and synthetic evidence on an operational axis
\* (_validate_publishable_snapshot, validate_publishable_v2).
THEOREM RefusalsAreTwo == SnapshotSpec => []RefusalExplained
<1>1. SnapshotInit => RefusalSound
  BY DEF SnapshotInit, RefusalSound
<1>2. SnapshotSound /\ RefusalSound => RefusalExplained
  <2> SUFFICES ASSUME SnapshotSound, RefusalSound, verdict # None
               PROVE  RefusalExplained
    BY DEF RefusalExplained
  <2>1. DocumentSound(snapshot) /\ PaperSound(snapshot)
    BY DEF SnapshotSound, RefusalSound
  <2>2. /\ PublisherRefusal(snapshot) # "PUBLISHED"
        /\ (PublisherRefusal(snapshot) # None) <=>
             /\ snapshot.type = "SEVEN_AXIS"
             /\ \E i \in DOMAIN snapshot.metrics :
                  snapshot.metrics[i].abc.revenue < 0 \/ UsesSynthetic(snapshot.axes[i])
    BY <2>1, RefusalIs
  <2>3. (verdict # "PUBLISHED") <=> PublisherRefusal(snapshot) # None
    BY <2>2 DEF RefusalSound
  <2> QED BY <2>2, <2>3 DEF RefusalExplained, UsesSynthetic
<1>3. SnapshotSpec => []SnapshotSound
  BY SnapshotsSound
<1> QED BY <1>1, <1>2, <1>3, StepRefusal, PTL DEF SnapshotSpec

\* What the items of a site do to each other: the three parts together.
THEOREM InfluenceIsBounded == SnapshotSpec => []ItemsInfluence
<1>1. HeadsCarryTheirShare /\ UnusableHasNoSay /\ RefusalExplained => ItemsInfluence
  BY DEF ItemsInfluence
<1> QED BY <1>1, HeadsCarryShares, UnusableIsSilent, RefusalsAreTwo, PTL

=============================================================================
