--------------------------- MODULE InvocationControl ---------------------------
(***************************************************************************)
(* Deadline-controlled Catalog calls:                                       *)
(* evaluate_replenishment/robustness/resource_execution.py.                 *)
(*                                                                          *)
(* A call of ControlledCatalogExecutor.execute records a job in the shared  *)
(* resource root, starts a worker in a process group of its own and reads   *)
(* one line from it.  The worker forks a watchdog, waits for the lease that *)
(* admits one worker per root, reads the job back and computes.  The caller *)
(* may be cancelled or killed, the deadline may pass, the worker may hang   *)
(* or be killed, and the watchdog may be killed, each at any point.         *)
(*                                                                          *)
(* Every call has a process of its own.  A critical section of the resource *)
(* lock is one step here; module ResourcePool takes it apart.  Not          *)
(* modelled: a reused process id, a denied killpg (the PermissionError      *)
(* branch of _stop, which this program's own group does not meet on Linux), *)
(* and processes a worker starts: they belong to its group.                 *)
(***************************************************************************)
EXTENDS Naturals, FiniteSets

CONSTANTS
  Call,         \* calls of execute
  Nobody,       \* the lease is free
  MaxFaults     \* bound on processes that are killed and files that fail

ASSUME CallAssumption == Nobody \notin Call /\ MaxFaults \in Nat

VARIABLES
  call,         \* where execute is
  answer,       \* what it answers: SUCCEEDED, or RAISED for each of its errors
  expired,      \* calls whose deadline has passed
  worker,       \* where the worker of a call is
  watchdog,     \* OPEN until it has closed its end of the pipe
  reply,        \* what is in the pipe: NONE, PARTIAL, SUCCEEDED or FAILED
  computed,     \* calls whose operation has returned
  job,          \* job files: NONE, LIVE or RETIRED
  lease,        \* call whose worker holds invocation.lock, or Nobody
  lost          \* what was killed or failed of each call

callVars  == <<call, answer>>
groupVars == <<worker, watchdog, lease>>
vars == <<callVars, groupVars, expired, reply, computed, job, lost>>

Dead(c)  == call[c] = "dead"
\* A killed caller counts as alive until its parent has reaped it.
Ended(c) == call[c] \in {"answered", "zombie", "dead"}
Active(c) == call[c] # "idle" /\ ~Ended(c)

-----------------------------------------------------------------------------
(* Helpers.                                                                 *)

\* Any holder of the resource lock first retires the jobs of dead or late callers.
Reconciled(j) ==
  [d \in Call |-> IF j[d] = "LIVE" /\ (Dead(d) \/ d \in expired)
                  THEN "RETIRED" ELSE j[d]]

Kill(s) == IF s = "none" THEN "none" ELSE "gone"

LeaseWithout(c) == IF lease = c THEN Nobody ELSE lease

\* SIGKILL to the whole process group.
StopGroup(c) ==
  /\ worker' = [worker EXCEPT ![c] = Kill(@)]
  /\ watchdog' = [watchdog EXCEPT ![c] = Kill(@)]
  /\ lease' = LeaseWithout(c)

\* Defect: the watchdog keeps its copy of the writing end.
ClosedByAll(c) == worker[c] = "gone" /\ watchdog[c] \in {"none", "gone"}

\* Nobody holds the writing end of the pipe any more.
Closed(c) == worker[c] = "gone" /\ watchdog[c] # "OPEN"

Fault(c, what) == Cardinality(lost) < MaxFaults /\ lost' = lost \cup {<<c, what>>}

-----------------------------------------------------------------------------
(* The caller.                                                              *)

Init ==
  /\ call = [c \in Call |-> "idle"] /\ answer = [c \in Call |-> "NONE"]
  /\ expired = {}
  /\ worker = [c \in Call |-> "none"] /\ watchdog = [c \in Call |-> "none"]
  /\ lease = Nobody
  /\ reply = [c \in Call |-> "NONE"] /\ computed = {}
  /\ job = [c \in Call |-> "NONE"]
  /\ lost = {}

\* Leave the loop for the finally blocks with an answer.
Leave(c, next, a) ==
  /\ call' = [call EXCEPT ![c] = next]
  /\ answer' = [answer EXCEPT ![c] = a]

\* prepare_job admits the job.
Prepare(c) ==
  /\ call[c] = "idle"
  /\ call' = [call EXCEPT ![c] = "prepared"]
  /\ job' = [Reconciled(job) EXCEPT ![c] = "LIVE"]
  /\ UNCHANGED <<answer, groupVars, expired, reply, computed, lost>>

\* prepare_job gives up while it waits for the lock, or finds no room: nothing
\* was recorded.
PrepareRefused(c) ==
  /\ call[c] = "idle"
  /\ \/ Leave(c, "answered", "RAISED") /\ UNCHANGED job
     \/ Leave(c, "answered", "RAISED") /\ job' = Reconciled(job)
  /\ UNCHANGED <<groupVars, expired, reply, computed, lost>>

Spawn(c) ==
  /\ call[c] = "prepared" /\ c \notin expired
  /\ call' = [call EXCEPT ![c] = "waiting"]
  /\ worker' = [worker EXCEPT ![c] = "starting"]
  /\ UNCHANGED <<answer, watchdog, lease, expired, reply, computed, job, lost>>

\* Defect: a reply counts as soon as some of it was read.
WholePrefix(r) == r # "NONE"

\* The buffer ends the line.
Whole(r) == r \in {"SUCCEEDED", "FAILED"}

Receive(c) ==
  /\ call[c] = "waiting" /\ Whole(reply[c])
  /\ call' = [call EXCEPT ![c] = "received"]
  /\ UNCHANGED <<answer, groupVars, expired, reply, computed, job, lost>>

\* _check between reading the reply and answering with it.
Accept(c) ==
  /\ call[c] = "received" /\ c \notin expired
  /\ Leave(c, "stopping", IF reply[c] = "FAILED" THEN "RAISED" ELSE "SUCCEEDED")
  /\ UNCHANGED <<groupVars, expired, reply, computed, job, lost>>

\* _check finds the deadline passed or the cancellation set.
Interrupt(c) ==
  /\ \/ call[c] = "prepared" /\ Leave(c, "retiring", "RAISED")
     \/ call[c] \in {"waiting", "received"} /\ Leave(c, "stopping", "RAISED")
  /\ UNCHANGED <<groupVars, expired, reply, computed, job, lost>>

TimedOut(c) == c \in expired /\ Interrupt(c)

\* End of file before a whole line: RESOURCE_WORKER_EXITED.
WorkerExited(c) ==
  /\ call[c] = "waiting" /\ Closed(c) /\ ~Whole(reply[c]) /\ c \notin expired
  /\ Leave(c, "stopping", "RAISED")
  /\ UNCHANGED <<groupVars, expired, reply, computed, job, lost>>

\* _stop, then the pipe is closed.
Stop(c) ==
  /\ call[c] = "stopping"
  /\ StopGroup(c)
  /\ call' = [call EXCEPT ![c] = "retiring"]
  /\ reply' = [reply EXCEPT ![c] = "NONE"]
  /\ UNCHANGED <<answer, expired, computed, job, lost>>

Retire(c) ==
  /\ call[c] = "retiring"
  /\ job' = [Reconciled(job) EXCEPT ![c] = "RETIRED"]
  /\ call' = [call EXCEPT ![c] = "answered"]
  /\ UNCHANGED <<answer, groupVars, expired, reply, computed, lost>>

\* What retire_job raises takes the place of the answer.
RetireFails(c) ==
  /\ call[c] = "retiring" /\ Fault(c, "job")
  /\ Leave(c, "answered", "RAISED")
  /\ UNCHANGED <<groupVars, expired, reply, computed, job>>

CallStep(c) ==
  \/ Prepare(c) \/ PrepareRefused(c) \/ Spawn(c) \/ Receive(c) \/ Accept(c)
  \/ TimedOut(c) \/ WorkerExited(c) \/ Stop(c) \/ Retire(c) \/ RetireFails(c)

-----------------------------------------------------------------------------
(* The worker and its watchdog.                                             *)

\* Defect: the watchdog is not there yet when the worker waits for the lease.
WatchdogForkedLate(w, c) == w

WatchdogForked(w, c) == [w EXCEPT ![c] = "OPEN"]

Fork(c) ==
  /\ worker[c] = "starting"
  /\ worker' = [worker EXCEPT ![c] = "leasing"]
  /\ watchdog' = WatchdogForked(watchdog, c)
  /\ UNCHANGED <<callVars, lease, expired, reply, computed, job, lost>>

\* _check, then flock without waiting.
LeaseFree(c) == c \notin expired /\ lease = Nobody

TakeLease(c) ==
  /\ worker[c] = "leasing" /\ LeaseFree(c)
  /\ lease' = c
  /\ worker' = [worker EXCEPT ![c] = "inspecting"]
  /\ UNCHANGED <<callVars, watchdog, expired, reply, computed, job, lost>>

\* inspect reconciles the root before the job is read.
Inspect(c) ==
  /\ worker[c] = "inspecting"
  /\ job' = Reconciled(job)
  /\ worker' = [worker EXCEPT ![c] = "reading"]
  /\ UNCHANGED <<callVars, watchdog, lease, expired, reply, computed, lost>>

ReadJob(c) ==
  /\ worker[c] = "reading" /\ job[c] = "LIVE"
  /\ worker' = [worker EXCEPT ![c] = "computing"]
  /\ UNCHANGED <<callVars, watchdog, lease, expired, reply, computed, job, lost>>

\* The operation returns; the lease is given back before the reply is sent.
Compute(c) ==
  /\ worker[c] = "computing"
  /\ computed' = computed \cup {c}
  /\ lease' = LeaseWithout(c)
  /\ worker' = [worker EXCEPT ![c] = "sending"]
  /\ UNCHANGED <<callVars, watchdog, expired, reply, job, lost>>

\* The deadline passes while it waits, the job is gone, or anything raises.
WorkerFails(c) ==
  /\ \/ worker[c] = "leasing" /\ c \in expired
     \/ worker[c] \in {"inspecting", "reading", "computing"}
  /\ lease' = LeaseWithout(c)
  /\ worker' = [worker EXCEPT ![c] = "sending"]
  /\ UNCHANGED <<callVars, watchdog, expired, reply, computed, job, lost>>

\* A reply may arrive in more than one piece.
SendPart(c) ==
  /\ worker[c] = "sending" /\ reply[c] = "NONE" /\ call[c] = "waiting"
  /\ reply' = [reply EXCEPT ![c] = "PARTIAL"]
  /\ UNCHANGED <<callVars, groupVars, expired, computed, job, lost>>

\* A result that is too large is answered as a failure.
Send(c) ==
  /\ worker[c] = "sending" /\ call[c] = "waiting"
  /\ \E r \in {"SUCCEEDED", "FAILED"} :
       /\ r = "SUCCEEDED" => c \in computed
       /\ reply' = [reply EXCEPT ![c] = r]
  /\ worker' = [worker EXCEPT ![c] = "leaving"]
  /\ UNCHANGED <<callVars, watchdog, lease, expired, computed, job, lost>>

\* The caller no longer reads: both sends raise BrokenPipeError.
SendBroken(c) ==
  /\ worker[c] = "sending" /\ call[c] \in {"zombie", "dead"}
  /\ worker' = [worker EXCEPT ![c] = "leaving"]
  /\ UNCHANGED <<callVars, watchdog, lease, expired, reply, computed, job, lost>>

\* finally: the watchdog is killed and reaped, the pipe is closed.
Exit(c) ==
  /\ worker[c] = "leaving"
  /\ worker' = [worker EXCEPT ![c] = "gone"]
  /\ watchdog' = [watchdog EXCEPT ![c] = Kill(@)]
  /\ UNCHANGED <<callVars, lease, expired, reply, computed, job, lost>>

WorkerStep(c) ==
  \/ Fork(c) \/ TakeLease(c) \/ Inspect(c) \/ ReadJob(c) \/ Compute(c)
  \/ WorkerFails(c) \/ SendPart(c) \/ Send(c) \/ SendBroken(c) \/ Exit(c)

CloseEnd(c) ==
  /\ watchdog[c] = "OPEN"
  /\ watchdog' = [watchdog EXCEPT ![c] = "WATCHING"]
  /\ UNCHANGED <<callVars, worker, lease, expired, reply, computed, job, lost>>

\* Defect: the watchdog looks at the clock only.
GuardedDeadline(c) == c \in expired

\* What the watchdog polls for: the deadline, or an owner that is gone.
Guarded(c) == c \in expired \/ Dead(c)

Bite(c) ==
  /\ watchdog[c] = "WATCHING" /\ Guarded(c)
  /\ StopGroup(c)
  /\ UNCHANGED <<callVars, expired, reply, computed, job, lost>>

WatchdogStep(c) == CloseEnd(c) \/ Bite(c)

-----------------------------------------------------------------------------
(* The environment.                                                         *)

\* A deadline is read by a caller before it leaves the loop and by a worker; later
\* only the job of a call that could not retire it waits for it.
Expire(c) ==
  /\ call[c] \in {"prepared", "waiting", "received"} \/ worker[c] \notin {"none", "gone"}
  /\ c \notin expired
  /\ expired' = expired \cup {c}
  /\ UNCHANGED <<callVars, groupVars, reply, computed, job, lost>>

\* The caller is killed; its end of the pipe closes.
KillCaller(c) ==
  /\ Active(c) /\ Fault(c, "caller")
  /\ call' = [call EXCEPT ![c] = "zombie"]
  /\ reply' = [reply EXCEPT ![c] = "NONE"]
  /\ UNCHANGED <<answer, groupVars, expired, computed, job>>

ReapCaller(c) ==
  /\ call[c] = "zombie"
  /\ call' = [call EXCEPT ![c] = "dead"]
  /\ UNCHANGED <<answer, groupVars, expired, reply, computed, job, lost>>

\* The worker alone is killed, by the kernel or by a defect of its own.
KillWorker(c) ==
  /\ worker[c] \notin {"none", "gone"} /\ Fault(c, "worker")
  /\ worker' = [worker EXCEPT ![c] = "gone"]
  /\ lease' = LeaseWithout(c)
  /\ UNCHANGED <<callVars, watchdog, expired, reply, computed, job>>

\* The watchdog alone is killed: neither its worker nor its caller looks at it again
\* before the worker leaves.
KillWatchdog(c) ==
  /\ watchdog[c] \in {"OPEN", "WATCHING"} /\ Fault(c, "watchdog")
  /\ watchdog' = [watchdog EXCEPT ![c] = "gone"]
  /\ UNCHANGED <<callVars, worker, lease, expired, reply, computed, job>>

Environment(c) ==
  \/ Interrupt(c) \/ Expire(c) \/ KillCaller(c) \/ ReapCaller(c)
  \/ KillWorker(c) \/ KillWatchdog(c)

Next == \E c \in Call : CallStep(c) \/ WorkerStep(c) \/ WatchdogStep(c) \/ Environment(c)

Spec == Init /\ [][Next]_vars

\* The caller, the interpreter that starts a worker and the watchdog are
\* scheduled.  Nothing obliges a worker that has started to go on.
FairSpec ==
  Spec /\ \A c \in Call : WF_vars(CallStep(c)) /\ WF_vars(Fork(c) \/ WatchdogStep(c))

-----------------------------------------------------------------------------
(* Properties.                                                              *)

\* Types, and that the worker that computes is the one that holds the lease.
TypeOK ==
  /\ call \in [Call -> {"idle", "prepared", "waiting", "received",
                        "stopping", "retiring", "answered", "zombie", "dead"}]
  /\ answer \in [Call -> {"NONE", "SUCCEEDED", "RAISED"}]
  /\ expired \subseteq Call
  /\ worker \in [Call -> {"none", "starting", "leasing", "inspecting", "reading",
                          "computing", "sending", "leaving", "gone"}]
  /\ watchdog \in [Call -> {"none", "OPEN", "WATCHING", "gone"}]
  /\ computed \subseteq Call
  /\ reply \in [Call -> {"NONE", "PARTIAL", "SUCCEEDED", "FAILED"}]
  /\ job \in [Call -> {"NONE", "LIVE", "RETIRED"}]
  /\ lease \in Call \cup {Nobody}
  /\ lost \subseteq Call \X {"caller", "worker", "watchdog", "job"}
  /\ \A c \in Call : worker[c] \in {"inspecting", "reading", "computing"} <=> lease = c

\* The lease of the root is never with a worker it cannot be taken back from, however
\* many processes of other calls are killed: its watchdog lives, or its caller does and
\* has yet to stop the group, or both of them were killed.  Nothing stands in for a
\* watchdog and a caller that are both lost (resource_execution.py:96-98, 229-231).
Watched(c)  == watchdog[c] \in {"OPEN", "WATCHING"}
Attended(c) == call[c] \in {"waiting", "received", "stopping"}
Deserted(c) == {<<c, "watchdog">>, <<c, "caller">>} \subseteq lost

LeaseIsSupervised ==
  \A c \in Call : lease = c => Watched(c) \/ Attended(c) \/ Deserted(c)

\* When execute answers, succeeded or not, no process it started is left: not
\* the worker and not its watchdog.
NothingSurvivesTheCall ==
  \A c \in Call : call[c] \in {"retiring", "answered"} =>
    /\ worker[c] \in {"none", "gone"}
    /\ watchdog[c] \in {"none", "gone"}

\* "A partial reply is not a success": execute succeeds only with the result
\* of an operation that returned, read whole before the deadline.
SuccessIsWholeAndTimely ==
  [][\A c \in Call : answer[c] # "SUCCEEDED" /\ answer'[c] = "SUCCEEDED" =>
       c \in computed /\ c \notin expired]_vars

\* The recovery another process performs never takes the job from a call that
\* is alive and in time.
JobKeptForItsCall ==
  [][\A c \in Call : job[c] = "LIVE" /\ job'[c] # "LIVE" =>
       c \in expired \/ call[c] \in {"retiring", "dead"}]_vars

\* A caller waits no longer than its deadline, and no longer than its worker lives.
CallEnds ==
  \A c \in Call : (Active(c) /\ c \in expired) \/ worker[c] = "gone" ~> Ended(c)

\* A worker does not outlive a caller that died, nor the deadline.  With MaxFaults = 1:
\* a worker that hangs does when its caller and its watchdog are both killed.
OrphanEnds ==
  \A c \in Call : Dead(c) \/ c \in expired ~> worker[c] \in {"none", "gone"}
=============================================================================
