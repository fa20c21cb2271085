----------------------------- MODULE ResourcePool -----------------------------
(***************************************************************************)
(* LocalRobustnessResourcePool: processes that share one private root, its  *)
(* raw budget and its file count.  Every operation runs under resource.lock *)
(* and first reconciles what dead processes left behind; a process may die  *)
(* between any two file operations, and the lock dies with it.              *)
(*                                                                          *)
(* A file is known by what it is, where it is and who made it.  Sizes are   *)
(* in units of one control document (a reservation, a quarantine record);   *)
(* the stores of a root are one store, the immutable policy and lock files  *)
(* count as files and not as bytes.                                         *)
(***************************************************************************)
EXTENDS Integers, FiniteSetsExt

CONSTANTS
  Proc,        \* processes, each doing one operation
  Name, Payload, NoPayload, Raw, Limit,   \* see QuotaBoard
  MaxRaw,      \* MAX_RAW_BYTES
  JobSize,     \* size of a job file
  Reserve,     \* headroom for recovery metadata
  MaxFiles,    \* MAX_RESOURCE_FILES
  Operations,  \* what processes do
  NoItem,      \* no reservation, nothing to publish
  Nobody,      \* a lock nobody holds
  MaxFaults    \* bound on crashes and failing publishers

ASSUME PoolAssumption ==
  /\ NoPayload \notin Payload /\ Raw \in [Payload -> 1 .. MaxRaw]
  /\ {Limit, MaxRaw, JobSize, Reserve, MaxFiles, MaxFaults} \subseteq Nat
  /\ Operations \subseteq {"publish", "job", "inspect", "purge"}
  /\ Nobody \notin Proc
  /\ NoItem \notin [name : Name, payload : Payload]

VARIABLES
  pc,          \* where each process is
  operation,   \* what it was started for
  item,        \* what it publishes
  back,        \* where it goes when it has reconciled
  todo,        \* files it still has to quarantine
  target,      \* the one it is at
  lock,        \* holder of resource.lock
  policy,      \* whether policy.json exists
  pending,     \* pending.json
  stored,      \* published artifacts
  linked,      \* processes whose temporary file is the inode of an artifact
  files,       \* temporary files, control temporaries and jobs in place
  metas,       \* files with a quarantine record
  charge,      \* raw bytes each record charges
  bins,        \* files moved into quarantine
  aged,        \* records older than the retention period
  expired,     \* processes whose invocation deadline has passed
  swept,       \* history: no holder of the lock died since it was reconciled
  faults       \* faults so far

self   == <<operation, item>>
queue  == <<back, todo, target>>
root   == <<policy, pending>>
store  == <<stored, linked>>
quarantine == <<metas, charge, bins>>
time   == <<aged, expired>>
vars == <<pc, self, queue, lock, root, store, files, quarantine, time,
          swept, faults>>

-----------------------------------------------------------------------------
File == [kind : {"temp", "scratch", "job"},
         place : {"store", "root", "quarantine", "jobs"}, by : Proc]
Temp(p) == [kind |-> "temp", place |-> "store", by |-> p]
Scratch(place, p) == [kind |-> "scratch", place |-> place, by |-> p]
Job(p) == [kind |-> "job", place |-> "jobs", by |-> p]

Item == [name : Name, payload : Payload]

Waiting == {"idle", "construct", "ready", "working"}
Reconciling == {"sweep", "sweep_jobs", "write_meta", "move"}
Ready == {"publish", "job", "inspect", "purge", "retire", "release", "give_up"}
Writing == {"policy_scratch", "policy_replace", "reserve", "write", "link",
            "unlink", "job_replace", "purge_meta"}
Holding == Reconciling \cup Ready \cup Writing
Ended == {"done", "failed", "over", "conflict", "refused", "corrupt", "dead"}

Goto(p, where) == pc' = [pc EXCEPT ![p] = where]
Release(p, where) == lock' = Nobody /\ Goto(p, where)

\* Starts a reconciliation of the files in place, after which p is at where.
Reconcile(p, where, inPlace) ==
  /\ back' = [back EXCEPT ![p] = where]
  /\ todo' = [todo EXCEPT ![p] = {f \in inPlace : f.kind # "job"}]
  /\ Goto(p, "sweep")

-----------------------------------------------------------------------------
(* Accounting.                                                              *)

Size(f) ==
  CASE f.kind = "temp" -> Raw[item[f.by].payload]
    [] f.kind = "job" \/ f.place = "jobs" -> JobSize
    [] OTHER -> 1

\* A file in quarantine counts its record's charge, or the most it could be.
BinCharge(f) == IF f \in metas THEN charge[f] ELSE MaxRaw

Sum(S, size(_)) == MapThenSumSet(size, S)

\* A temporary file linked as an artifact is the same inode: the larger of the
\* two sizes counts once.
Beyond(f, size) ==
  IF f.kind = "temp" /\ f.by \in linked
    THEN IF size > Raw[item[f.by].payload] THEN size - Raw[item[f.by].payload] ELSE 0
    ELSE size

Artifacts == {n \in Name : stored[n] # NoPayload}

Usage ==
    Sum(Artifacts, LAMBDA n : Raw[stored[n]])
  + Sum(files, LAMBDA f : Beyond(f, Size(f)))
  + Sum(bins, LAMBDA f : Beyond(f, BinCharge(f)))
  + Cardinality(metas) + IF pending = NoItem THEN 0 ELSE 1

\* The policy and the lock are files too.
FileCount ==
  2 + Cardinality(Artifacts) + Cardinality(files) + Cardinality(metas)
    + Cardinality(bins) + IF pending = NoItem THEN 0 ELSE 1

\* Defect: the bytes on disk count, which compression makes few.
AdmittedCompressed(extra) ==
  Usage - Sum(Artifacts, LAMBDA n : Raw[stored[n]] - 1) + extra <= Limit

\* Defect: what is retained in quarantine is not counted.
AdmittedUnretained(extra) ==
  Usage - Sum(bins, LAMBDA f : Beyond(f, BinCharge(f))) + extra <= Limit

Admitted(extra) == Usage + extra <= Limit

\* _usage refuses a root with too many files; a writer also needs four more.
Countable == FileCount <= MaxFiles
RoomForFiles == FileCount + 4 <= MaxFiles

-----------------------------------------------------------------------------
Init ==
  /\ pc = [p \in Proc |-> "idle"]
  /\ operation \in [Proc -> Operations]
  /\ item \in [Proc -> Item \cup {NoItem}]
  /\ \A p \in Proc : item[p] = NoItem <=> operation[p] # "publish"
  /\ back = [p \in Proc |-> "done"]
  /\ todo = [p \in Proc |-> {}]
  /\ target = [p \in Proc |-> Job(p)]
  /\ lock = Nobody /\ policy = FALSE /\ pending = NoItem
  /\ stored = [n \in Name |-> NoPayload] /\ linked = {}
  /\ files = {} /\ metas = {} /\ charge = [f \in File |-> 0] /\ bins = {}
  /\ aged = {} /\ expired = {} /\ swept = TRUE
  /\ faults = 0

-----------------------------------------------------------------------------
(* Opening the root.                                                        *)

\* A root without a policy holds nothing but the lock file.
Adoptable == policy \/ {f \in files : f.place = "root"} = {}

Open(p) ==
  /\ pc[p] = "idle"
  /\ Goto(p, IF Adoptable THEN "construct" ELSE "refused")
  /\ UNCHANGED <<self, queue, lock, root, store, files, quarantine, time, swept,
                 faults>>

Construct(p) ==
  /\ pc[p] = "construct" /\ lock = Nobody
  /\ IF policy THEN Goto(p, "ready") /\ UNCHANGED lock
     ELSE IF Adoptable THEN Goto(p, "policy_scratch") /\ lock' = p
     ELSE Goto(p, "refused") /\ UNCHANGED lock
  /\ UNCHANGED <<self, queue, root, store, files, quarantine, time, swept, faults>>

WritePolicy(p) ==
  /\ pc[p] = "policy_scratch"
  /\ files' = files \cup {Scratch("root", p)}
  /\ Goto(p, "policy_replace")
  /\ UNCHANGED <<self, queue, lock, root, store, quarantine, time, swept, faults>>

ReplacePolicy(p) ==
  /\ pc[p] = "policy_replace"
  /\ policy' = TRUE
  /\ files' = files \ {Scratch("root", p)}
  /\ Release(p, "ready")
  /\ UNCHANGED <<self, queue, pending, store, quarantine, time, swept, faults>>

-----------------------------------------------------------------------------
(* Reconciliation.                                                          *)

\* The reservation tells what a temporary file may hold.
TempCharge(p) == IF pending # NoItem THEN Raw[pending.payload] ELSE MaxRaw

ChargeOf(f) == IF f.kind = "temp" THEN TempCharge(f.by) ELSE Size(f)

\* Defect: the time of the record is compared too.
SameRecordAndTime(f) == charge[f] = ChargeOf(f) /\ f \notin aged

\* A record left by an interrupted quarantine must be the one written now, but
\* for its time.
SameRecord(f) == charge[f] = ChargeOf(f)

StartQuarantine(p) ==
  /\ pc[p] \in {"sweep", "sweep_jobs"}
  /\ \E f \in todo[p] \ metas :
       /\ target' = [target EXCEPT ![p] = f]
       /\ files' = files \cup {Scratch("quarantine", p)}
  /\ Goto(p, "write_meta")
  /\ UNCHANGED <<self, back, todo, lock, root, store, quarantine, time, swept, faults>>

ResumeQuarantine(p) ==
  /\ pc[p] \in {"sweep", "sweep_jobs"}
  /\ \E f \in todo[p] \cap metas :
       /\ target' = [target EXCEPT ![p] = f]
       /\ IF SameRecord(f) THEN Goto(p, "move") /\ UNCHANGED lock
          ELSE Release(p, "corrupt")
  /\ UNCHANGED <<self, back, todo, root, store, files, quarantine, time, swept, faults>>

WriteMeta(p) ==
  /\ pc[p] = "write_meta"
  /\ files' = files \ {Scratch("quarantine", p)}
  /\ metas' = metas \cup {target[p]}
  /\ charge' = [charge EXCEPT ![target[p]] = ChargeOf(target[p])]
  /\ Goto(p, "move")
  /\ UNCHANGED <<self, queue, lock, root, store, bins, time, swept, faults>>

Move(p) ==
  /\ pc[p] = "move"
  /\ IF target[p] \in bins
       THEN /\ Release(p, "corrupt")
            /\ UNCHANGED <<files, bins, todo>>
       ELSE /\ files' = files \ {target[p]}
            /\ bins' = bins \cup {target[p]}
            /\ todo' = [todo EXCEPT ![p] = @ \ {target[p]}]
            /\ Goto(p, IF target[p].kind = "job" THEN "sweep_jobs" ELSE "sweep")
            /\ UNCHANGED lock
  /\ UNCHANGED <<self, back, target, root, store, metas, charge, time, swept, faults>>

\* Jobs whose owner is gone or whose deadline has passed.
DueJobs == {f \in files : f.kind = "job" /\ (f.by \in expired \/ pc[f.by] \in Ended)}

ScanJobs(p) ==
  /\ pc[p] = "sweep" /\ todo[p] = {}
  /\ todo' = [todo EXCEPT ![p] = DueJobs]
  /\ Goto(p, "sweep_jobs")
  /\ UNCHANGED <<self, back, target, lock, root, store, files, quarantine, time, swept,
                 faults>>

\* The reservation is dropped last.
Reconciled(p) ==
  /\ pc[p] = "sweep_jobs" /\ todo[p] = {}
  /\ pending' = NoItem
  /\ swept' = TRUE
  /\ Goto(p, back[p])
  /\ UNCHANGED <<self, queue, lock, policy, store, files, quarantine, time, faults>>

\* Every operation takes the lock and reconciles.
Begin(p) ==
  /\ pc[p] = "ready" /\ lock = Nobody
  /\ lock' = p
  /\ Reconcile(p, operation[p], files)
  /\ UNCHANGED <<self, target, root, store, files, quarantine, time, swept, faults>>

Finish(p) ==
  /\ pc[p] \in {"release", "give_up"}
  /\ Release(p, IF pc[p] = "release" THEN "done" ELSE "failed")
  /\ UNCHANGED <<self, queue, root, store, files, quarantine, time, swept, faults>>

\* An operation ends without writing; leaving its block releases the lock.
Refuse(p, why) ==
  /\ Release(p, why)
  /\ UNCHANGED <<self, queue, root, store, files, quarantine, time, swept, faults>>

-----------------------------------------------------------------------------
(* publish                                                                  *)

Exists(p) == stored[item[p].name] # NoPayload

\* The same bytes again are accepted, other bytes under the name are not.
PublishAgain(p) ==
  /\ pc[p] = "publish" /\ Exists(p)
  /\ Refuse(p, IF ~Countable \/ ~Admitted(0) THEN "over"
               ELSE IF stored[item[p].name] = item[p].payload THEN "done"
               ELSE "conflict")

PublishRoom(p) ==
  Admitted(Raw[item[p].payload] + 1 + Reserve) /\ RoomForFiles

PublishRefused(p) ==
  /\ pc[p] = "publish" /\ ~Exists(p) /\ ~PublishRoom(p)
  /\ Refuse(p, "over")

PublishAdmitted(p) ==
  /\ pc[p] = "publish" /\ ~Exists(p) /\ PublishRoom(p)
  /\ files' = files \cup {Scratch("root", p)}
  /\ Goto(p, "reserve")
  /\ UNCHANGED <<self, queue, lock, root, store, quarantine, time, swept, faults>>

WritePending(p) ==
  /\ pc[p] = "reserve"
  /\ pending' = item[p]
  /\ files' = files \ {Scratch("root", p)}
  /\ Goto(p, "write")
  /\ UNCHANGED <<self, queue, lock, policy, store, quarantine, time, swept, faults>>

WriteTemp(p) ==
  /\ pc[p] = "write"
  /\ files' = files \cup {Temp(p)}
  /\ Goto(p, "link")
  /\ UNCHANGED <<self, queue, lock, root, store, quarantine, time, swept, faults>>

LinkArtifact(p) ==
  /\ pc[p] = "link"
  /\ stored' = [stored EXCEPT ![item[p].name] = item[p].payload]
  /\ linked' = linked \cup {p}
  /\ Goto(p, "unlink")
  /\ UNCHANGED <<self, queue, lock, root, files, quarantine, time, swept, faults>>

UnlinkTemp(p) ==
  /\ pc[p] = "unlink"
  /\ files' = files \ {Temp(p)}
  /\ Reconcile(p, "release", files \ {Temp(p)})
  /\ UNCHANGED <<self, target, lock, root, store, quarantine, time, swept, faults>>

\* The publisher raises: it removes its temporary file, and the pool reconciles.
FailPublish(p) ==
  /\ pc[p] \in {"write", "link"} /\ faults < MaxFaults
  /\ files' = files \ {Temp(p)}
  /\ Reconcile(p, "give_up", files \ {Temp(p)})
  /\ faults' = faults + 1
  /\ UNCHANGED <<self, target, lock, root, store, quarantine, time, swept>>

-----------------------------------------------------------------------------
(* prepare_job, retire_job, inspect, purge_expired_temporaries              *)

JobRoom == Admitted(JobSize + Reserve) /\ RoomForFiles

JobRefused(p) ==
  /\ pc[p] = "job" /\ ~JobRoom
  /\ Refuse(p, "over")

JobAdmitted(p) ==
  /\ pc[p] = "job" /\ JobRoom
  /\ files' = files \cup {Scratch("jobs", p)}
  /\ Goto(p, "job_replace")
  /\ UNCHANGED <<self, queue, lock, root, store, quarantine, time, swept, faults>>

WriteJob(p) ==
  /\ pc[p] = "job_replace"
  /\ files' = (files \ {Scratch("jobs", p)}) \cup {Job(p)}
  /\ Release(p, "working")
  /\ UNCHANGED <<self, queue, root, store, quarantine, time, swept, faults>>

\* The invocation is over, whatever came of it.
BeginRetire(p) ==
  /\ pc[p] = "working" /\ lock = Nobody
  /\ lock' = p
  /\ Reconcile(p, "retire", files)
  /\ UNCHANGED <<self, target, root, store, files, quarantine, time, swept, faults>>

\* The job may be in quarantine already; else it is put there.
RetireJob(p) ==
  /\ pc[p] = "retire"
  /\ todo' = [todo EXCEPT ![p] = files \cap {Job(p)}]
  /\ back' = [back EXCEPT ![p] = "release"]
  /\ Goto(p, "sweep_jobs")
  /\ UNCHANGED <<self, target, lock, root, store, files, quarantine, time, swept, faults>>

Inspect(p) ==
  /\ pc[p] = "inspect"
  /\ Refuse(p, IF Countable THEN "done" ELSE "over")

PurgeRefused(p) ==
  /\ pc[p] = "purge" /\ ~Countable
  /\ Refuse(p, "over")

PurgeBin(p) ==
  /\ pc[p] = "purge" /\ Countable
  /\ \E f \in metas \cap aged :
       /\ target' = [target EXCEPT ![p] = f]
       /\ bins' = bins \ {f}
  /\ Goto(p, "purge_meta")
  /\ UNCHANGED <<self, back, todo, lock, root, store, files, metas, charge, time, swept,
                 faults>>

PurgeMeta(p) ==
  /\ pc[p] = "purge_meta"
  /\ metas' = metas \ {target[p]}
  /\ aged' = aged \ {target[p]}
  /\ Goto(p, "purge")
  /\ UNCHANGED <<self, queue, lock, root, store, files, charge, bins, expired, swept,
                 faults>>

PurgeEnd(p) ==
  /\ pc[p] = "purge" /\ Countable /\ metas \cap aged = {}
  /\ Refuse(p, "done")

-----------------------------------------------------------------------------
(* Time and crashes.                                                        *)

\* The retention period passes.
Age ==
  /\ aged' = metas /\ aged' # aged
  /\ UNCHANGED <<pc, self, queue, lock, root, store, files, quarantine, expired, swept,
                 faults>>

\* The deadline of an invocation passes.
Expire(p) ==
  /\ pc[p] = "working" /\ p \notin expired
  /\ expired' = expired \cup {p}
  /\ UNCHANGED <<pc, self, queue, lock, root, store, files, quarantine, aged,
                 swept, faults>>

Crash(p) ==
  /\ pc[p] \notin Ended \cup {"idle"} /\ faults < MaxFaults
  /\ Goto(p, "dead")
  /\ lock' = IF lock = p THEN Nobody ELSE lock
  /\ swept' = (swept /\ lock # p)
  /\ faults' = faults + 1
  /\ UNCHANGED <<self, queue, root, store, files, quarantine, time>>

Step(p) ==
  \/ Construct(p) \/ WritePolicy(p) \/ ReplacePolicy(p) \/ Begin(p) \/ Finish(p)
  \/ StartQuarantine(p) \/ ResumeQuarantine(p) \/ WriteMeta(p) \/ Move(p)
  \/ ScanJobs(p) \/ Reconciled(p)
  \/ PublishAgain(p) \/ PublishRefused(p) \/ PublishAdmitted(p) \/ WritePending(p)
  \/ WriteTemp(p) \/ LinkArtifact(p) \/ UnlinkTemp(p)
  \/ JobRefused(p) \/ JobAdmitted(p) \/ WriteJob(p) \/ BeginRetire(p) \/ RetireJob(p)
  \/ Inspect(p) \/ PurgeRefused(p) \/ PurgeBin(p) \/ PurgeMeta(p) \/ PurgeEnd(p)

Next ==
  \/ \E p \in Proc : \/ Open(p) \/ Step(p) \/ FailPublish(p) \/ Expire(p) \/ Crash(p)
  \/ Age

Spec == Init /\ [][Next]_vars

-----------------------------------------------------------------------------
(* Properties.                                                              *)

\* What every variable of the processes and of the root may hold.
TypeOK ==
  /\ pc \in [Proc -> Waiting \cup Holding \cup Ended]
  /\ operation \in [Proc -> Operations]
  /\ item \in [Proc -> Item \cup {NoItem}]
  /\ back \in [Proc -> Ready \cup {"done"}]
  /\ todo \in [Proc -> SUBSET File]
  /\ target \in [Proc -> File]
  /\ lock \in Proc \cup {Nobody}
  /\ policy \in BOOLEAN
  /\ pending \in Item \cup {NoItem}
  /\ stored \in [Name -> Payload \cup {NoPayload}]
  /\ linked \subseteq Proc
  /\ files \subseteq File /\ metas \subseteq File /\ bins \subseteq File
  /\ charge \in [File -> Nat]
  /\ aged \subseteq File
  /\ expired \subseteq Proc /\ swept \in BOOLEAN
  /\ faults \in 0 .. MaxFaults

\* The raw budget holds at every moment, not only at admission: also with a
\* publication under way, and with everything recovery adds.
BudgetKept == Usage <= Limit

\* A temporary file in quarantine is charged at least what it was to hold, and
\* so is one whose quarantine was interrupted.
ChargeCovers ==
  \A f \in bins : f.kind = "temp" => BinCharge(f) >= Raw[item[f.by].payload]

\* Unless a holder of the lock died since the last reconciliation, whoever takes
\* the lock finds no reservation, temporary file or control temporary.
SweptWhenFree ==
  lock = Nobody /\ swept => pending = NoItem /\ {f \in files : f.kind # "job"} = {}

\* What a crash leaves never makes a later process refuse the root as corrupt.
NeverCorrupt == \A p \in Proc : pc[p] # "corrupt"

\* The root is sound at every moment, between any two steps of any process: it
\* is within its budget, what is in quarantine is charged in full, a free root
\* is swept, and none of it will be refused as corrupt.
RootSound ==
  /\ TypeOK
  /\ BudgetKept
  /\ ChargeCovers
  /\ SweptWhenFree
  /\ NeverCorrupt

\* The pool implements QuotaBoard.
Board == INSTANCE QuotaBoard WITH board <- stored
ImplementsBoard == Board!Spec

=============================================================================
