------------------------ MODULE InvocationControlProofs ------------------------
(***************************************************************************)
(* Proofs about InvocationControl, for any number of calls and any number   *)
(* of killed processes.                                                     *)
(*                                                                          *)
(* The types alone do not say why a call leaves nothing behind or why a     *)
(* success is whole: IInv adds which processes a group can consist of, that *)
(* a caller past _stop has none, and what a reply stands for.  That the     *)
(* lease is supervised also needs KillsRecorded: a guardian that is missing *)
(* was killed.                                                              *)
(***************************************************************************)
EXTENDS InvocationControl, TLAPS

Running == {"leasing", "inspecting", "reading", "computing", "sending", "leaving"}

\* A group has no watchdog before its worker forked one.
GroupComplete ==
  \A c \in Call : worker[c] \in {"none", "starting"} => watchdog[c] = "none"

\* A call has no group before it spawned one.
GroupSpawned == \A c \in Call : call[c] \in {"idle", "prepared"} => worker[c] = "none"

\* The watchdog of a worker that runs, and a caller that has yet to stop it, are there
\* unless they were killed.
WatchdogKept(c) ==
  worker[c] \in Running => Watched(c) \/ <<c, "watchdog">> \in lost
CallerKept(c)   == call[c] \in {"zombie", "dead"} => <<c, "caller">> \in lost
KillsRecorded   == \A c \in Call : WatchdogKept(c) /\ CallerKept(c)

\* A reply of success stands for an operation that returned, and a received
\* reply is whole.
ReplyFounded ==
  \A c \in Call :
    /\ reply[c] = "SUCCEEDED" => c \in computed
    /\ call[c] = "received" => reply[c] \in {"SUCCEEDED", "FAILED"}

IInv ==
  TypeOK /\ GroupComplete /\ GroupSpawned /\ NothingSurvivesTheCall /\ ReplyFounded

-----------------------------------------------------------------------------
(* Every step keeps the invariant.                                          *)

\* Initially no call has a group, a reply or a job.
LEMMA Initial == Init => IInv
BY CallAssumption DEF Init, IInv, TypeOK, GroupComplete, GroupSpawned,
  NothingSurvivesTheCall, ReplyFounded, Running

\* Recovery leaves job files.
LEMMA ReconciledType ==
  ASSUME TypeOK
  PROVE  Reconciled(job) \in [Call -> {"NONE", "LIVE", "RETIRED"}]
BY DEF TypeOK, Reconciled

\* The steps of a caller.
LEMMA CallStepKeeps ==
  ASSUME IInv, NEW c \in Call, CallStep(c)
  PROVE  IInv'
<1> USE CallAssumption DEF IInv, TypeOK, GroupComplete, GroupSpawned,
      NothingSurvivesTheCall, ReplyFounded, Running, callVars, groupVars, Leave
<1>1. CASE Prepare(c)
  BY <1>1, ReconciledType DEF Prepare
<1>2. CASE PrepareRefused(c)
  BY <1>2, ReconciledType DEF PrepareRefused
<1>3. CASE Spawn(c)
  BY <1>3 DEF Spawn
<1>4. CASE Receive(c)
  BY <1>4 DEF Receive, Whole
<1>5. CASE Accept(c)
  BY <1>5 DEF Accept
<1>6. CASE TimedOut(c)
  BY <1>6 DEF TimedOut, Interrupt
<1>7. CASE WorkerExited(c)
  BY <1>7 DEF WorkerExited
<1>8. CASE Stop(c)
  BY <1>8 DEF Stop, StopGroup, Kill, LeaseWithout
<1>9. CASE Retire(c)
  BY <1>9, ReconciledType DEF Retire
<1>10. CASE RetireFails(c)
  BY <1>10 DEF RetireFails, Fault
<1> QED BY <1>1, <1>2, <1>3, <1>4, <1>5, <1>6, <1>7, <1>8, <1>9, <1>10 DEF CallStep

\* The steps of a worker.
LEMMA WorkerStepKeeps ==
  ASSUME IInv, NEW c \in Call, WorkerStep(c)
  PROVE  IInv'
<1> USE CallAssumption DEF IInv, TypeOK, GroupComplete, GroupSpawned,
      NothingSurvivesTheCall, ReplyFounded, Running, callVars, groupVars, LeaseWithout
<1>1. CASE Fork(c)
  BY <1>1 DEF Fork, WatchdogForked
<1>2. CASE TakeLease(c)
  BY <1>2 DEF TakeLease, LeaseFree
<1>3. CASE Inspect(c)
  BY <1>3, ReconciledType DEF Inspect
<1>4. CASE ReadJob(c)
  BY <1>4 DEF ReadJob
<1>5. CASE Compute(c)
  BY <1>5 DEF Compute
<1>6. CASE WorkerFails(c)
  BY <1>6 DEF WorkerFails
<1>7. CASE SendPart(c)
  BY <1>7 DEF SendPart
<1>8. CASE Send(c)
  BY <1>8 DEF Send
<1>9. CASE SendBroken(c)
  BY <1>9 DEF SendBroken
<1>10. CASE Exit(c)
  BY <1>10 DEF Exit, Kill
<1> QED BY <1>1, <1>2, <1>3, <1>4, <1>5, <1>6, <1>7, <1>8, <1>9, <1>10 DEF WorkerStep

\* The steps of a watchdog and of the operating system.
LEMMA OtherStepKeeps ==
  ASSUME IInv, NEW c \in Call, WatchdogStep(c) \/ Environment(c)
  PROVE  IInv'
<1> USE CallAssumption DEF IInv, TypeOK, GroupComplete, GroupSpawned,
      NothingSurvivesTheCall, ReplyFounded, Running, callVars, groupVars, LeaseWithout,
      Active, Ended, Fault
<1>1. CASE CloseEnd(c)
  BY <1>1 DEF CloseEnd
<1>2. CASE Bite(c)
  BY <1>2 DEF Bite, StopGroup, Kill
<1>3. CASE Interrupt(c)
  BY <1>3 DEF Interrupt, Leave
<1>4. CASE Expire(c)
  BY <1>4 DEF Expire
<1>5. CASE KillCaller(c)
  BY <1>5 DEF KillCaller
<1>6. CASE ReapCaller(c)
  BY <1>6 DEF ReapCaller
<1>7. CASE KillWorker(c)
  BY <1>7 DEF KillWorker
<1>8. CASE KillWatchdog(c)
  BY <1>8 DEF KillWatchdog
<1> QED BY <1>1, <1>2, <1>3, <1>4, <1>5, <1>6, <1>7, <1>8 DEF WatchdogStep, Environment

\* The invariant is inductive.
LEMMA Inductive ==
  ASSUME IInv, [Next]_vars
  PROVE  IInv'
<1>1. CASE Next
  BY <1>1, CallStepKeeps, WorkerStepKeeps, OtherStepKeeps DEF Next
<1>2. CASE UNCHANGED vars
  BY <1>2 DEF vars, callVars, groupVars, IInv, TypeOK, GroupComplete, GroupSpawned,
    NothingSurvivesTheCall, ReplyFounded
<1> QED BY <1>1, <1>2

\* A fault is recorded for good.
LEMMA LostStays ==
  ASSUME Next
  PROVE  lost \subseteq lost'
BY DEF Next, CallStep, Prepare, PrepareRefused, Spawn, Receive, Accept, TimedOut, Interrupt,
  WorkerExited, Stop, Retire, RetireFails, WorkerStep, Fork, TakeLease, Inspect, ReadJob,
  Compute, WorkerFails, SendPart, Send, SendBroken, Exit, WatchdogStep, CloseEnd, Bite,
  Environment, Expire, KillCaller, ReapCaller, KillWorker, KillWatchdog, Fault

\* Only a fault takes the watchdog from a worker that runs.
LEMMA WatchdogsKept ==
  ASSUME IInv, Next, NEW d \in Call, WatchdogKept(d)
  PROVE  WatchdogKept(d)'
<1> USE DEF WatchdogKept, Watched, Running, groupVars
<1>1. lost \subseteq lost'
  BY LostStays
<1>2. /\ worker \in [Call -> {"none", "starting", "leasing", "inspecting", "reading",
                              "computing", "sending", "leaving", "gone"}]
      /\ watchdog \in [Call -> {"none", "OPEN", "WATCHING", "gone"}]
  BY DEF IInv, TypeOK
<1>3. ASSUME worker' = worker, watchdog' = watchdog
      PROVE  WatchdogKept(d)'
  BY <1>1, <1>3
<1>4. ASSUME NEW c \in Call, StopGroup(c)
      PROVE  WatchdogKept(d)'
  BY <1>1, <1>2, <1>4 DEF StopGroup, Kill
<1>5. ASSUME NEW c \in Call, CallStep(c)
      PROVE  WatchdogKept(d)'
  <2>1. CASE Spawn(c)
    BY <1>1, <1>2, <2>1 DEF Spawn
  <2>2. CASE Stop(c)
    BY <1>4, <2>2 DEF Stop
  <2> QED BY <1>3, <1>5, <2>1, <2>2 DEF CallStep, Prepare, PrepareRefused, Receive, Accept,
        TimedOut, Interrupt, WorkerExited, Retire, RetireFails
<1>6. ASSUME NEW c \in Call, WorkerStep(c)
      PROVE  WatchdogKept(d)'
  <2>1. CASE Fork(c)
    BY <1>1, <1>2, <2>1 DEF Fork, WatchdogForked
  <2>2. CASE Exit(c)
    BY <1>1, <1>2, <2>2 DEF Exit, Kill
  <2>3. CASE SendPart(c)
    BY <1>3, <2>3 DEF SendPart
  <2>4. ASSUME worker[c] \in Running, NEW s, worker' = [worker EXCEPT ![c] = s],
               watchdog' = watchdog
        PROVE  WatchdogKept(d)'
    BY <1>1, <1>2, <2>4
  <2> QED BY <1>6, <2>1, <2>2, <2>3, <2>4 DEF WorkerStep, TakeLease, Inspect, ReadJob,
        Compute, WorkerFails, Send, SendBroken
<1>7. ASSUME NEW c \in Call, WatchdogStep(c) \/ Environment(c)
      PROVE  WatchdogKept(d)'
  <2>1. CASE CloseEnd(c)
    BY <1>1, <1>2, <2>1 DEF CloseEnd
  <2>2. CASE Bite(c)
    BY <1>4, <2>2 DEF Bite
  <2>3. CASE KillWorker(c)
    BY <1>1, <1>2, <2>3 DEF KillWorker
  <2>4. CASE KillWatchdog(c)
    BY <1>1, <1>2, <2>4 DEF KillWatchdog, Fault
  <2> QED BY <1>3, <1>7, <2>1, <2>2, <2>3, <2>4 DEF WatchdogStep, Environment, Interrupt,
        Expire, KillCaller, ReapCaller
<1> QED BY <1>5, <1>6, <1>7 DEF Next

\* Only a fault ends a caller before it stops its group.
LEMMA CallersKept ==
  ASSUME IInv, Next, NEW d \in Call, CallerKept(d)
  PROVE  CallerKept(d)'
<1> USE DEF CallerKept, callVars
<1>1. lost \subseteq lost'
  BY LostStays
<1>2. call \in [Call -> {"idle", "prepared", "waiting", "received",
                        "stopping", "retiring", "answered", "zombie", "dead"}]
  BY DEF IInv, TypeOK
<1>3. ASSUME NEW c \in Call, NEW s \in {"prepared", "waiting", "received", "stopping",
                                       "retiring", "answered"},
             call' = [call EXCEPT ![c] = s]
      PROVE  CallerKept(d)'
  BY <1>1, <1>2, <1>3
<1>4. ASSUME call' = call
      PROVE  CallerKept(d)'
  BY <1>1, <1>4
<1>5. ASSUME NEW c \in Call, CallStep(c) \/ Interrupt(c)
      PROVE  CallerKept(d)'
  BY <1>3, <1>5 DEF CallStep, Prepare, PrepareRefused, Spawn, Receive, Accept, TimedOut,
    Interrupt, WorkerExited, Stop, Retire, RetireFails, Leave
<1>6. ASSUME NEW c \in Call, WorkerStep(c) \/ WatchdogStep(c)
      PROVE  CallerKept(d)'
  BY <1>4, <1>6 DEF WorkerStep, Fork, TakeLease, Inspect, ReadJob, Compute, WorkerFails,
    SendPart, Send, SendBroken, Exit, WatchdogStep, CloseEnd, Bite
<1>7. ASSUME NEW c \in Call, Environment(c)
      PROVE  CallerKept(d)'
  <2>1. CASE KillCaller(c)
    BY <1>1, <1>2, <2>1 DEF KillCaller, Fault
  <2>2. CASE ReapCaller(c)
    BY <1>1, <1>2, <2>2 DEF ReapCaller
  <2> QED BY <1>4, <1>5, <1>7, <2>1, <2>2 DEF Environment, Expire, KillWorker, KillWatchdog
<1> QED BY <1>5, <1>6, <1>7 DEF Next

\* IInv holds in every reachable state.
THEOREM Invariance == Spec => []IInv
BY Initial, Inductive, PTL DEF Spec

\* Kills are on record in every reachable state.
LEMMA Recorded == Spec => []KillsRecorded
<1>1. Init => KillsRecorded
  BY DEF Init, KillsRecorded, WatchdogKept, CallerKept, Running
<1>2. IInv /\ KillsRecorded /\ [Next]_vars => KillsRecorded'
  <2>1. CASE UNCHANGED vars
    BY <2>1 DEF vars, callVars, groupVars, KillsRecorded, WatchdogKept, CallerKept, Watched
  <2>2. ASSUME IInv, KillsRecorded, Next
        PROVE  KillsRecorded'
    BY <2>2, WatchdogsKept, CallersKept DEF KillsRecorded
  <2> QED BY <2>1, <2>2
<1> QED BY <1>1, <1>2, Invariance, PTL DEF Spec

-----------------------------------------------------------------------------
(* The properties.                                                          *)

\* At most one worker of a root computes, and it holds the lease.
THEOREM OneWorkerComputes == Spec => []TypeOK
<1>1. IInv => TypeOK
  BY DEF IInv
<1> QED BY <1>1, Invariance, PTL

\* Whoever holds the lease has a live watchdog or a caller that is still to stop it,
\* unless both of these were killed: whatever is killed of other calls, and however often.
THEOREM LeaseSupervised == Spec => []LeaseIsSupervised
<1>1. IInv /\ KillsRecorded => LeaseIsSupervised
  <2> SUFFICES ASSUME IInv, KillsRecorded, NEW c \in Call, lease = c
               PROVE  Watched(c) \/ Attended(c) \/ Deserted(c)
    BY DEF LeaseIsSupervised
  <2>1. worker[c] \in {"inspecting", "reading", "computing"}
    BY DEF IInv, TypeOK
  <2>2. Watched(c) \/ <<c, "watchdog">> \in lost
    BY <2>1 DEF KillsRecorded, WatchdogKept, Running
  <2>3. call[c] \notin {"idle", "prepared", "retiring", "answered"}
    BY <2>1 DEF IInv, GroupSpawned, NothingSurvivesTheCall
  <2>4. Attended(c) \/ call[c] \in {"zombie", "dead"}
    BY <2>3 DEF IInv, TypeOK, Attended
  <2>5. Attended(c) \/ <<c, "caller">> \in lost
    BY <2>4 DEF KillsRecorded, CallerKept
  <2> QED BY <2>2, <2>5 DEF Deserted
<1> QED BY <1>1, Invariance, Recorded, PTL

\* When execute answers, no process of its group is left.
THEOREM NothingSurvives == Spec => []NothingSurvivesTheCall
<1>1. IInv => NothingSurvivesTheCall
  BY DEF IInv
<1> QED BY <1>1, Invariance, PTL

\* Recovery never takes the job of a call that is alive and in time.
THEOREM JobsKept == Spec => JobKeptForItsCall
<1> DEFINE Kept == \A c \in Call : job[c] = "LIVE" /\ job'[c] # "LIVE" =>
                     c \in expired \/ call[c] \in {"retiring", "dead"}
<1>1. IInv /\ [Next]_vars => [Kept]_vars
  <2> SUFFICES ASSUME IInv, Next
               PROVE  Kept
    OBVIOUS
  <2>1. job \in [Call -> {"NONE", "LIVE", "RETIRED"}]
    BY DEF IInv, TypeOK
  <2>2. ASSUME job' = job
        PROVE  Kept
    BY <2>2
  <2>3. ASSUME job' = Reconciled(job)
        PROVE  Kept
    BY <2>1, <2>3 DEF Reconciled, Dead
  <2>4. ASSUME NEW d \in Call, call[d] = "retiring",
               job' = [Reconciled(job) EXCEPT ![d] = "RETIRED"]
        PROVE  Kept
    BY <2>1, <2>4 DEF Reconciled, Dead
  <2>5. ASSUME NEW d \in Call, job' = [Reconciled(job) EXCEPT ![d] = "LIVE"]
        PROVE  Kept
    BY <2>1, <2>5 DEF Reconciled, Dead
  <2>6. ASSUME NEW d \in Call, CallStep(d)
        PROVE  Kept
    BY <2>6, <2>2, <2>3, <2>4, <2>5 DEF CallStep, Prepare, PrepareRefused, Spawn, Receive,
      Accept, TimedOut, Interrupt, WorkerExited, Stop, Retire, RetireFails
  <2>7. ASSUME NEW d \in Call, WorkerStep(d)
        PROVE  Kept
    BY <2>7, <2>2, <2>3 DEF WorkerStep, Fork, TakeLease, Inspect, ReadJob, Compute,
      WorkerFails, SendPart, Send, SendBroken, Exit
  <2>8. ASSUME NEW d \in Call, WatchdogStep(d) \/ Environment(d)
        PROVE  Kept
    BY <2>8, <2>2 DEF WatchdogStep, CloseEnd, Bite, Environment, Interrupt, Expire,
      KillCaller, ReapCaller, KillWorker, KillWatchdog
  <2> QED BY <2>6, <2>7, <2>8 DEF Next
<1> QED BY <1>1, Invariance, PTL DEF Spec, JobKeptForItsCall

\* A success is the result of an operation that returned, read before the
\* deadline.
THEOREM SuccessFounded == Spec => SuccessIsWholeAndTimely
<1> DEFINE Founded == \A c \in Call : answer[c] # "SUCCEEDED" /\ answer'[c] = "SUCCEEDED" =>
                        c \in computed /\ c \notin expired
<1>1. IInv /\ [Next]_vars => [Founded]_vars
  <2> SUFFICES ASSUME IInv, Next
               PROVE  Founded
    OBVIOUS
  <2>1. answer \in [Call -> {"NONE", "SUCCEEDED", "RAISED"}]
    BY DEF IInv, TypeOK
  <2>2. ASSUME answer' = answer
        PROVE  Founded
    BY <2>2
  <2>3. ASSUME NEW d \in Call, answer' = [answer EXCEPT ![d] = "RAISED"]
        PROVE  Founded
    BY <2>1, <2>3
  <2>4. ASSUME NEW d \in Call, Accept(d)
        PROVE  Founded
    BY <2>1, <2>4 DEF Accept, Leave, IInv, ReplyFounded
  <2>5. ASSUME NEW d \in Call, CallStep(d)
        PROVE  Founded
    BY <2>2, <2>3, <2>4, <2>5 DEF CallStep, Prepare, PrepareRefused, Spawn, Receive,
      TimedOut, Interrupt, WorkerExited, Stop, Retire, RetireFails, Leave
  <2>6. ASSUME NEW d \in Call, WorkerStep(d)
        PROVE  Founded
    BY <2>6, <2>2 DEF WorkerStep, Fork, TakeLease, Inspect, ReadJob, Compute,
      WorkerFails, SendPart, Send, SendBroken, Exit, callVars
  <2>7. ASSUME NEW d \in Call, WatchdogStep(d) \/ Environment(d)
        PROVE  Founded
    BY <2>7, <2>2, <2>3 DEF WatchdogStep, CloseEnd, Bite, Environment, Interrupt, Expire,
      KillCaller, ReapCaller, KillWorker, KillWatchdog, callVars, Leave
  <2> QED BY <2>5, <2>6, <2>7 DEF Next
<1> QED BY <1>1, Invariance, PTL DEF Spec, SuccessIsWholeAndTimely
=============================================================================
