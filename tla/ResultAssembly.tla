--------------------------- MODULE ResultAssembly ---------------------------
(***************************************************************************)
(* How the sealed inputs of one run become a stored, linked, projected and *)
(* finally relational result (run_inventory/initial_target_execution.py,   *)
(* target_result_execution.py, projection_execution.py, inventory_evidence/*)
(* target_result_link.py, projection.py and projection_gate_repair.py).    *)
(*                                                                         *)
(* Processes share three stores: the target files (TargetStorage), the     *)
(* write-once evidence artifacts and the relational tables.  Each carries  *)
(* one operation at a time:                                                *)
(*   seal, calculate     seal a target input; calculate and store its      *)
(*                       result                                            *)
(*   execute, recover    the initial target execution: the input           *)
(*                       checkpoint first, then the bundle, the target     *)
(*                       result, their link and the projection             *)
(*   read                a saved result, everything read again             *)
(*   source              the bundle projected without a target result      *)
(*   repair              a projection whose gates ignore the claim         *)
(*                       narrowed, beside the original                     *)
(*   write               a verified projection into the tables             *)
(* A crash ends a process between any two of its steps; files are lost or  *)
(* harmed; the package is upgraded, which every operation notices, since   *)
(* the identity of the implementations is the hash of the installed code.  *)
(***************************************************************************)
EXTENDS TargetStorage, ProjectionRows

CONSTANTS
    Procs,       \* worker processes
    Worlds,      \* names of sealed results
    World,       \* the sealed result of each name (see ProjectionRows)
    Attempts,    \* the claims of the run
    Manifests,   \* input manifests a source may answer with
    SourceOf,    \* the manifest whose documents each target input repeats
    Builds,      \* installed packages, in the order of their installation
    Gated,       \* those whose projector knows the gates of the claim
    Chunks,      \* chunk sizes a projection may be sealed with
    Times,       \* readings of the clock
    Operations,  \* what each build is used for
    MaxOperations, MaxMishaps

VARIABLES
    world,       \* the sealed result the run calculates
    build,       \* the installed package
    disk,        \* the target files
    store,       \* evidence artifacts, each [ref, doc]
    tables,      \* the relational rows of the run: the projection they are of
    receipt,     \* the receipt beside them
    writer,      \* who holds the write transaction of the tables
    proc,        \* what each process is at
    answers,     \* result pointers returned to callers
    budget       \* operations and mishaps still to come, and whether files were lost

vars == <<world, build, disk, store, tables, receipt, writer, proc, answers, budget>>

-----------------------------------------------------------------------------
(* The evidence artifacts.                                                 *)

Artifact(ref, doc) == [ref |-> ref, doc |-> doc]

\* Keyed by the run alone: one claim of it can own the input.
Checkpoint(p) ==
    Artifact(<<"checkpoint">>, [request |-> p.request, build |-> p.build,
                            manifest |-> p.manifest, input |-> p.input])

Bundle(request) ==
    Artifact(<<"bundle", request.attempt>>, [request |-> request, manifest |-> request.manifest])

Link(request, i) ==
    Artifact(<<"link", request.attempt>>,
             [request |-> request, bundle |-> Bundle(request), input |-> Input(i),
              manifest |-> Manifest(i)])

LinkSources(i) == { Artifact(<<doc, i>>, [input |-> i]) : doc \in {"search", "selection"} }

\* The results none of whose open gates the claim closes: with or without the
\* claim their rows are the same.
ClaimKept ==
    { n \in Worlds : Tables(World[n], FALSE, FALSE) = Tables(World[n], FALSE, TRUE) }

\* The content of a projection: with or without a target result, with the
\* gates of the claim or without.
Content(request, linked, gated) ==
    [attempt |-> request.attempt, linked |-> linked,
     gated |-> gated \/ world \in ClaimKept]

\* What the projector refuses a result for, with and without a target result.
RefusalOf == [n \in Worlds |-> [linked \in BOOLEAN |-> Refusal(World[n], linked)]]

Projection(content, chunk) ==
    Artifact(<<"projection", content, chunk>>, content)

SourceExecution(request, b, projection) ==
    Artifact(<<"source", request.attempt>>,
             [request |-> request, build |-> b, bundle |-> Bundle(request), projection |-> projection])

Repair(request, source, projection, b) ==
    Artifact(<<"repair", request.attempt, source, projection, b>>,
             [source |-> source, projection |-> projection])

ReceiptArtifact(projection, at) ==
    Artifact(<<"receipt", projection, at>>, [content |-> projection.doc, at |-> at])

Sealed(ref) == { a \in store : a.ref = ref }

\* Artifacts of one commit are stored together, and none over another.
CanCommit(artifacts) == \A a \in artifacts : Sealed(a.ref) \subseteq {a}

Commit(artifacts) == store' = store \cup artifacts

\* The projections there can be, and the receipts of the tables.
Projections ==
    { Projection([attempt |-> a, linked |-> l, gated |-> g], chunk) :
          a \in Attempts, l \in BOOLEAN, g \in BOOLEAN, chunk \in Chunks \cup {"fixed"} }

Receipts ==
    { [content |-> projection.doc, artifact |-> ReceiptArtifact(projection, at)] :
          projection \in Projections, at \in Times }

\* The documents of every result were made by the code.
ASSUME SealedAssumption == \A n \in Worlds : Sound(World[n])

\* Every sealed result is planned for a package, and nobody is nobody.
ASSUME AssemblyAssumption ==
    /\ \A n \in Worlds : World[n].plan.build \in Builds
    /\ \A b \in Builds : Operations[b] \subseteq
           {"seal", "calculate", "execute", "recover", "read", "source", "repair", "write"}
    /\ None \notin Procs \cup Receipts

-----------------------------------------------------------------------------
(* Admission.                                                              *)

W == World[world]

\* Every claim of a run carries the plan of the run: the build it was made for
\* and the input manifest it pins.
Request(attempt) == [attempt |-> attempt, build |-> W.plan.build, manifest |-> W.plan.manifest]

\* The installed package is the one the operation was configured with, and the one
\* the plan of the claim names.
BuildHolds(p) == p.build = build
PlanHolds(p) == p.request.build = p.build

\* Every operation on a target result starts from the input the run is bound to.
InputHolds(p) == InputReadable(disk, p.input)

\* Of what a source answers, only the manifest the plan pins is accepted.
Pinned(p, manifest) == manifest = p.request.manifest

\* The documents of the manifest are those the target input was sealed from,
\* and the gates of the items admit the calculation.
SourcesAgree(p, manifest) == SourceOf[p.input] = manifest /\ W.admitted

\* The command of the pipeline is made from the pinned manifest alone.
Resolved(p, manifest) == Pinned(p, manifest) /\ W.admitted

BundleSealed(request) == Sealed(Bundle(request).ref) = {Bundle(request)}

\* A link is replayed from the bundle, the classification header the bundle or
\* its analysis carries, and a verified read of the target result.
CanLink(request, i) ==
    /\ BundleSealed(request)
    /\ W.header # "NONE"
    /\ SourceOf[i] = request.manifest
    /\ ReadVerified(disk, i)

LinkHolds(request, i) ==
    /\ CanLink(request, i)
    /\ \A a \in LinkSources(i) \cup {Link(request, i)} : Sealed(a.ref) = {a}

\* What the projector of a package writes for a request: refused, or this content.
Projects(request, linked) ==
    /\ BundleSealed(request)
    /\ linked => \E i \in Inputs : LinkHolds(request, i)
    /\ RefusalOf[world][linked] = "NONE"

\* A stored projection is verified by writing it again from its sources.
ProjectionHolds(p, projection, linked) ==
    /\ projection \in store
    /\ Projects(p.request, linked)
    /\ projection.doc = Content(p.request, linked, p.build \in Gated)

-----------------------------------------------------------------------------
(* Processes.                                                              *)

Idle == [at |-> "idle"]

Goto(p, at) == proc' = [proc EXCEPT ![p].at = at]

\* An error ends the operation; what was stored stays.
Stop(p) == proc' = [proc EXCEPT ![p] = Idle]
Refuse(p) == Stop(p) /\ UNCHANGED <<world, build, disk, store, tables, receipt, writer, answers, budget>>

Elsewhere == UNCHANGED <<world, build, tables, receipt, writer, budget>>

First(op) ==
    CASE op \in {"seal", "calculate"} -> "put input"
      [] op \in {"execute", "recover"} -> "request"
      [] op = "source"                -> "pipeline"
      [] op = "read"                  -> "read"
      [] op = "repair"                -> "repair"
      [] op = "write"                 -> "check"

Start(p, op, request, i) ==
    /\ proc[p] = Idle /\ budget.operations > 0
    /\ op \in Operations[build]
    /\ proc' = [proc EXCEPT ![p] =
                  [at |-> First(op), op |-> op, build |-> build,
                   request |-> IF op \in {"seal", "calculate"} THEN None ELSE request,
                   input |-> IF op \in {"source", "repair", "write"} THEN None ELSE i,
                   manifest |-> None, part |-> 1, projection |-> None, source |-> None]]
    /\ budget' = [budget EXCEPT !.operations = @ - 1]
    /\ UNCHANGED <<world, build, disk, store, tables, receipt, writer, answers>>

-----------------------------------------------------------------------------
(* Sealing and calculating a target result.                                *)

PutInput(p) ==
    /\ proc[p].at = "put input"
    /\ IF CanPut(disk, Input(proc[p].input))
       THEN disk' = Put(disk, Input(proc[p].input)) /\ Goto(p, "bind input")
       ELSE Stop(p) /\ UNCHANGED disk
    /\ UNCHANGED <<store, answers>> /\ Elsewhere

\* The first input bound to the run stays its input.
BindInput(p) ==
    LET ref == Input(proc[p].input) IN
    /\ proc[p].at = "bind input"
    /\ IF CanBind(disk, "INPUT", ref)
       THEN /\ disk' = Bind(disk, "INPUT", ref)
            /\ IF proc[p].op = "seal" THEN Stop(p) ELSE Goto(p, "parts")
       ELSE Stop(p) /\ UNCHANGED disk
    /\ UNCHANGED <<store, answers>> /\ Elsewhere

\* The whole pipeline is calculated again from the sealed input, then every
\* part is published one by one.
PutPart(p) ==
    LET part == Part(proc[p].input, proc[p].part) IN
    /\ proc[p].at = "parts"
    /\ IF CanPut(disk, part)
       THEN /\ disk' = Put(disk, part)
            /\ IF proc[p].part = NParts THEN Goto(p, "manifest")
               ELSE proc' = [proc EXCEPT ![p].part = @ + 1]
       ELSE Stop(p) /\ UNCHANGED disk
    /\ UNCHANGED <<store, answers>> /\ Elsewhere

PutManifest(p) ==
    LET object == Manifest(proc[p].input) IN
    /\ proc[p].at = "manifest"
    /\ IF CanPut(disk, object)
       THEN disk' = Put(disk, object) /\ Goto(p, "complete")
       ELSE Stop(p) /\ UNCHANGED disk
    /\ UNCHANGED <<store, answers>> /\ Elsewhere

\* Every part is read back before the set becomes visible as complete.
BindComplete(p) ==
    LET i == proc[p].input IN
    /\ proc[p].at = "complete"
    /\ IF PackageWhole(disk, i) /\ CanBind(disk, "COMPLETE", Manifest(i))
       THEN /\ disk' = Bind(disk, "COMPLETE", Manifest(i))
            /\ IF proc[p].op = "calculate" THEN Stop(p) ELSE Goto(p, "link")
       ELSE Stop(p) /\ UNCHANGED disk
    /\ UNCHANGED <<store, answers>> /\ Elsewhere

-----------------------------------------------------------------------------
(* The initial target execution.                                           *)

InitialRequest(p) ==
    /\ proc[p].at = "request"
    /\ IF BuildHolds(proc[p]) /\ PlanHolds(proc[p]) /\ InputHolds(proc[p])
       THEN Goto(p, "saved") ELSE Stop(p)
    /\ UNCHANGED <<disk, store, answers>> /\ Elsewhere

\* The defect in which a saved input is used whoever saved it.
CheckpointTrusted(p, manifest) == Pinned(p, manifest) /\ SourcesAgree(p, manifest)

\* What the checkpoint says must be this very operation.
CheckpointHolds(p, manifest) ==
    /\ Pinned(p, manifest)
    /\ Sealed(<<"checkpoint">>) = {Checkpoint([p EXCEPT !.manifest = manifest])}
    /\ SourcesAgree(p, manifest)

\* A saved checkpoint replaces the source, or nothing is calculated.
ReadCheckpoint(p) ==
    LET saved == Sealed(<<"checkpoint">>) IN
    /\ proc[p].at = "saved"
    /\ CASE saved = {} /\ proc[p].op = "recover" -> Stop(p)
         [] saved = {} /\ proc[p].op = "execute" -> Goto(p, "resolve")
         [] OTHER ->
              LET manifest == (CHOOSE a \in saved : TRUE).doc.manifest
              IN  IF CheckpointHolds(proc[p], manifest)
                  THEN proc' = [proc EXCEPT ![p].at = "pipeline", ![p].manifest = manifest]
                  ELSE Stop(p)
    /\ UNCHANGED <<disk, store, answers>> /\ Elsewhere

\* The source answers with a manifest; only the one the plan pins is used, and
\* only when the gates admit the calculation is it saved.
ResolveSource(p) ==
    /\ proc[p].at = "resolve"
    /\ \E m \in Manifests :
         IF Pinned(proc[p], m) /\ SourcesAgree(proc[p], m)
         THEN proc' = [proc EXCEPT ![p].at = "commit", ![p].manifest = m]
         ELSE Stop(p)
    /\ UNCHANGED <<disk, store, answers>> /\ Elsewhere

\* The input is durable before anything is calculated from it.
CommitCheckpoint(p) ==
    /\ proc[p].at = "commit"
    /\ IF CanCommit({Checkpoint(proc[p])})
       THEN Commit({Checkpoint(proc[p])}) /\ Goto(p, "pipeline")
       ELSE Stop(p) /\ UNCHANGED store
    /\ UNCHANGED <<disk, answers>> /\ Elsewhere

\* The result pipeline: a bundle that is there is verified, otherwise the
\* result is calculated and its bundle and outbox are stored in one
\* transaction.  Without a saved manifest the source is asked for it.
Pipeline(p) ==
    LET request == proc[p].request IN
    /\ proc[p].at = "pipeline"
    /\ \E m \in (IF proc[p].manifest = None THEN Manifests ELSE {proc[p].manifest}) :
         IF /\ proc[p].op = "source" => BuildHolds(proc[p]) /\ PlanHolds(proc[p])
            /\ BundleSealed(request) \/ Resolved(proc[p], m)
            /\ CanCommit({Bundle(request)})
         THEN /\ Commit({Bundle(request)})
              /\ Goto(p, IF proc[p].op = "source" THEN "seal source" ELSE "target")
         ELSE Stop(p) /\ UNCHANGED store
    /\ UNCHANGED <<disk, answers>> /\ Elsewhere

\* A complete target result is verified; an incomplete one is calculated
\* again from its sealed input.
RecoverTarget(p) ==
    LET i == proc[p].input IN
    /\ proc[p].at = "target"
    /\ CASE ~InputHolds(proc[p]) \/ LookupFails(disk, "COMPLETE") -> Stop(p)
         [] InputHolds(proc[p]) /\ disk.slots["COMPLETE"] = None -> Goto(p, "parts")
         [] OTHER -> IF ReadVerified(disk, i) THEN Goto(p, "link") ELSE Stop(p)
    /\ UNCHANGED <<disk, store, answers>> /\ Elsewhere

\* The link and the two documents it names are stored in one transaction, and
\* read back.
CommitLink(p) ==
    LET request == proc[p].request
        i       == proc[p].input
        linked  == LinkSources(i) \cup {Link(request, i)}
    IN  /\ proc[p].at = "link"
        /\ IF BuildHolds(proc[p]) /\ CanLink(request, i) /\ CanCommit(linked)
           THEN Commit(linked) /\ Goto(p, "project")
           ELSE Stop(p) /\ UNCHANGED store
        /\ UNCHANGED <<disk, answers>> /\ Elsewhere

\* The chunks and the manifest of a projection, named by their content.
CommitProjection(p) ==
    LET request    == proc[p].request
        projection == Projection(Content(request, TRUE, proc[p].build \in Gated), "fixed")
    IN  /\ proc[p].at = "project"
        /\ IF Projects(request, TRUE)
           THEN /\ Commit({projection})
                /\ proc' = [proc EXCEPT ![p].at = "answer", ![p].projection = projection]
           ELSE Stop(p) /\ UNCHANGED store
        /\ UNCHANGED <<disk, answers>> /\ Elsewhere

\* Everything the answer names is read again: the build, the bundle, both
\* slots, the link and what it was made from, the projection.
ResultHolds(p, pointer) ==
    /\ BuildHolds(p) /\ PlanHolds(p)
    /\ LinkHolds(p.request, pointer.input)
    /\ ProjectionHolds(p, pointer.projection, TRUE)

Answer(p) ==
    LET pointer == [kind |-> "target", request |-> proc[p].request, input |-> proc[p].input,
                    projection |-> proc[p].projection]
    IN  /\ proc[p].at = "answer"
        /\ answers' = IF ResultHolds(proc[p], pointer) THEN answers \cup {pointer} ELSE answers
        /\ Stop(p)
        /\ UNCHANGED <<disk, store>> /\ Elsewhere

\* A saved result is read with the pointer a caller kept; nothing is written.
Read(p) ==
    LET own == proc[p] IN
    /\ proc[p].at = "read"
    /\ \E pointer \in { a \in answers : a.kind = "target" /\ a.request = own.request } :
         answers' = IF /\ own.input = pointer.input /\ InputHolds(own)
                       /\ CheckpointHolds(own, own.request.manifest)
                       /\ ResultHolds(own, pointer)
                    THEN answers \cup {[pointer EXCEPT !.kind = "read"]} ELSE answers
    /\ Stop(p)
    /\ UNCHANGED <<disk, store>> /\ Elsewhere

-----------------------------------------------------------------------------
(* The source execution: the bundle projected without a target result.     *)

SourceDoc(p) == SourceExecution(p.request, p.build, p.projection)

SourceHolds(p, sealed) ==
    /\ BuildHolds(p) /\ PlanHolds(p)
    /\ sealed \in store
    /\ ProjectionHolds(p, sealed.doc.projection, FALSE)
    /\ sealed = SourceExecution(p.request, p.build, sealed.doc.projection)

\* An execution that is sealed is verified, whatever chunk size was asked for.
SealSource(p) ==
    LET existing == Sealed(<<"source", proc[p].request.attempt>>) IN
    /\ proc[p].at = "seal source"
    /\ IF existing # {}
       THEN /\ answers' = answers \cup
                  { [kind |-> "source", request |-> proc[p].request, source |-> a] :
                        a \in { x \in existing : W.header = "SOURCE" /\ SourceHolds(proc[p], x) } }
            /\ Stop(p) /\ UNCHANGED store
       ELSE \E chunk \in Chunks :
              LET projection == Projection(Content(proc[p].request, FALSE, proc[p].build \in Gated), chunk)
              IN  IF W.header = "SOURCE" /\ Projects(proc[p].request, FALSE)
                  THEN /\ Commit({projection})
                       /\ proc' = [proc EXCEPT ![p].at = "commit source", ![p].projection = projection]
                       /\ UNCHANGED answers
                  ELSE Stop(p) /\ UNCHANGED <<store, answers>>
    /\ UNCHANGED disk /\ Elsewhere

\* The execution names one projection; the loser of a race with another chunk
\* size is refused, and finds the winner's when it is started again.
CommitSource(p) ==
    LET sealed == SourceDoc(proc[p]) IN
    /\ proc[p].at = "commit source"
    /\ IF CanCommit({sealed}) THEN Commit({sealed}) /\ Goto(p, "verify source")
                              ELSE Stop(p) /\ UNCHANGED store
    /\ UNCHANGED <<disk, answers>> /\ Elsewhere

VerifySource(p) ==
    LET sealed == SourceDoc(proc[p]) IN
    /\ proc[p].at = "verify source"
    /\ answers' = IF SourceHolds(proc[p], sealed)
                  THEN answers \cup {[kind |-> "source", request |-> proc[p].request, source |-> sealed]}
                  ELSE answers
    /\ Stop(p)
    /\ UNCHANGED <<disk, store>> /\ Elsewhere

-----------------------------------------------------------------------------
(* The repair of a projection whose gates ignore the claim.                *)

\* The original is only decoded: its gates are what the repair corrects.  Its
\* calculation must be of the build the plan names, its projection of any.
RepairSource(p, sealed) ==
    /\ BuildHolds(p)
    /\ sealed \in Sealed(<<"source", p.request.attempt>>)
    /\ sealed.doc.request = p.request /\ sealed.doc.build = p.request.build
    /\ BundleSealed(p.request) /\ sealed.doc.bundle = Bundle(p.request)
    /\ sealed.doc.projection \in store

\* Every row as it was, each open gate the claim does not expect closed.
Restricted(content) == [content EXCEPT !.gated = TRUE]

\* What the installed projector writes must be the original with its gates narrowed.
RepairProjection(p) ==
    LET content == Content(proc[p].request, FALSE, proc[p].build \in Gated) IN
    /\ proc[p].at = "repair"
    /\ \/ \E sealed \in store, chunk \in Chunks :
            /\ RepairSource(proc[p], sealed)
            /\ Projects(proc[p].request, FALSE)
            /\ content = Restricted(sealed.doc.projection.doc)
            /\ Commit({Projection(content, chunk)})
            /\ proc' = [proc EXCEPT ![p].at = "commit repair",
                                    ![p].source = sealed,
                                    ![p].projection = Projection(content, chunk)]
       \/ /\ ~\E sealed \in store :
                 /\ RepairSource(proc[p], sealed)
                 /\ Projects(proc[p].request, FALSE)
                 /\ content = Restricted(sealed.doc.projection.doc)
          /\ Stop(p) /\ UNCHANGED store
    /\ UNCHANGED <<disk, answers>> /\ Elsewhere

\* The repair binds the original execution, both builds and the new projection.
CommitRepair(p) ==
    LET sealed == Repair(proc[p].request, proc[p].source, proc[p].projection, proc[p].build) IN
    /\ proc[p].at = "commit repair"
    /\ IF ProjectionHolds(proc[p], proc[p].projection, FALSE) /\ CanCommit({sealed})
       THEN /\ Commit({sealed})
            /\ answers' = answers \cup {[kind |-> "repair", request |-> proc[p].request, source |-> sealed]}
       ELSE UNCHANGED <<store, answers>>
    /\ Stop(p)
    /\ UNCHANGED disk /\ Elsewhere

-----------------------------------------------------------------------------
(* The writer of the tables.                                               *)

\* The claim of the run, then the projection, are verified before the rows are
\* touched: no transaction is held while the sources are replayed.
CheckWrite(p) ==
    /\ proc[p].at = "check"
    /\ \/ \E projection \in store :
            /\ projection.ref[1] = "projection"
            /\ proc[p].request.attempt = W.authority
            /\ ProjectionHolds(proc[p], projection, projection.doc.linked)
            /\ proc' = [proc EXCEPT ![p].at = "transaction", ![p].projection = projection]
       \/ Stop(p)
    /\ UNCHANGED <<disk, store, answers>> /\ Elsewhere

\* The write transaction: with a receipt the stored rows must be those of the
\* same projection; without one there must be no rows, all rows are inserted,
\* and the receipt is sealed as an artifact before it is.
StageRows(p) ==
    LET projection == proc[p].projection IN
    /\ proc[p].at = "transaction"
    /\ IF receipt # None
       THEN /\ answers' = IF /\ receipt.content = projection.doc
                             /\ tables = {projection.doc}
                             /\ Sealed(receipt.artifact.ref) = {receipt.artifact}
                          THEN answers \cup {[kind |-> "receipt", request |-> proc[p].request,
                                              source |-> receipt.artifact]}
                          ELSE answers
            /\ Stop(p) /\ UNCHANGED <<store, writer>>
       ELSE IF tables # {}
       THEN Stop(p) /\ UNCHANGED <<store, writer, answers>>
       ELSE \E at \in Times :
              LET artifact == ReceiptArtifact(projection, at) IN
              /\ Commit({artifact})
              /\ writer' = p
              /\ proc' = [proc EXCEPT ![p].at = "commit rows", ![p].source = artifact]
              /\ UNCHANGED answers
    /\ UNCHANGED <<world, build, disk, tables, receipt, budget>>

\* The defect in which the rows are looked up before the database is locked.
UnlockedWrite(p) == StageRows(p)

\* The lock is waited for, or given up.
BeginWrite(p) ==
    \/ writer = None /\ StageRows(p)
    \/ writer # None /\ proc[p].at = "transaction" /\ Refuse(p)

CommitWrite(p) ==
    /\ proc[p].at = "commit rows"
    /\ tables' = {proc[p].projection.doc}
    /\ receipt' = [content |-> proc[p].projection.doc, artifact |-> proc[p].source]
    /\ answers' = answers \cup {[kind |-> "receipt", request |-> proc[p].request,
                                 source |-> proc[p].source]}
    /\ writer' = None
    /\ Stop(p)
    /\ UNCHANGED <<world, build, disk, store, budget>>

-----------------------------------------------------------------------------
(* Faults.                                                                 *)

\* A process that dies loses its operation; an open transaction is rolled back.
Crash(p) ==
    /\ proc[p] # Idle /\ budget.mishaps > 0
    /\ writer' = IF writer = p THEN None ELSE writer
    /\ budget' = [budget EXCEPT !.mishaps = @ - 1]
    /\ Stop(p)
    /\ UNCHANGED <<world, build, disk, store, tables, receipt, answers>>

Fault ==
    /\ budget.mishaps > 0
    /\ \/ \E object \in disk.objects : disk' = LoseObject(disk, object)
       \/ \E object \in disk.objects \ disk.harmed : disk' = HarmObject(disk, object)
       \/ \E phase \in { f \in Phases : disk.slots[f] # None } : disk' = LoseSlot(disk, phase)
    /\ budget' = [budget EXCEPT !.mishaps = @ - 1, !.lost = TRUE]
    /\ UNCHANGED <<world, build, store, tables, receipt, writer, proc, answers>>

Upgrade ==
    /\ \E b \in Builds : build' = b /\ build \notin Gated /\ b \in Gated
    /\ UNCHANGED <<world, disk, store, tables, receipt, writer, proc, answers, budget>>

-----------------------------------------------------------------------------
Init ==
    /\ world \in Worlds
    /\ build = W.plan.build
    /\ disk = EmptyDisk
    /\ store = {} /\ tables = {} /\ receipt = None /\ writer = None
    /\ proc = [p \in Procs |-> Idle]
    /\ answers = {}
    /\ budget = [operations |-> MaxOperations, mishaps |-> MaxMishaps, lost |-> FALSE]

Step(p) ==
    \/ PutInput(p) \/ BindInput(p) \/ PutPart(p) \/ PutManifest(p) \/ BindComplete(p)
    \/ InitialRequest(p) \/ ReadCheckpoint(p) \/ ResolveSource(p) \/ CommitCheckpoint(p)
    \/ Pipeline(p) \/ RecoverTarget(p) \/ CommitLink(p) \/ CommitProjection(p) \/ Answer(p)
    \/ Read(p) \/ SealSource(p) \/ CommitSource(p) \/ VerifySource(p)
    \/ RepairProjection(p) \/ CommitRepair(p)
    \/ CheckWrite(p) \/ BeginWrite(p) \/ CommitWrite(p)

Next ==
    \/ \E p \in Procs, op \in UNION { Operations[b] : b \in Builds }, attempt \in Attempts, i \in Inputs :
           Start(p, op, Request(attempt), i)
    \/ \E p \in Procs : Step(p)
    \/ \E p \in Procs : Crash(p)
    \/ Fault
    \/ Upgrade

Spec == Init /\ [][Next]_vars

-----------------------------------------------------------------------------
(* Properties.                                                             *)

\* Unless files were lost or harmed, a target result that is visible as
\* complete is the result of the one input the run is bound to, with all its
\* parts, whoever published them and wherever a publisher died
\* (target_durable.py, target_pipeline_artifacts.py).
CompleteIsWhole ==
    ~budget.lost =>
        \A i \in Inputs : disk.slots["COMPLETE"] = Manifest(i) =>
            /\ disk.slots["INPUT"] = Input(i)
            /\ {Input(i), Manifest(i)} \cup ResultParts(i) \subseteq disk.objects

\* Attempts of one run share its checkpoint: every target result that is
\* answered, at once or after a recovery, is of the one request and the one
\* input the checkpoint names, and of the manifest that request pins; nothing
\* is answered before it (initial_target_execution.py).
CheckpointGoverns ==
    \A a \in answers : a.kind \in {"target", "read"} =>
        \E saved \in Sealed(<<"checkpoint">>) :
            /\ saved.doc.request = a.request /\ saved.doc.input = a.input
            /\ saved.doc.manifest = a.request.manifest
            /\ SourceOf[a.input] = saved.doc.manifest

\* However many writers race and whichever projections were sealed, a run has
\* one receipt; it was sealed before the rows were committed, the rows are of
\* the projection it names and of the claim that owns the run, and every
\* writer that was answered was answered with it (sqlite/inventory_projection.py).
ReceiptNamesRows ==
    /\ tables = IF receipt = None THEN {} ELSE {receipt.content}
    /\ receipt # None => /\ receipt.artifact \in store
                         /\ receipt.content.attempt = W.authority
    /\ \A a \in answers : a.kind = "receipt" => receipt # None /\ a.source = receipt.artifact

\* The rows of the projector refer to each other.
Closed ==
    [n \in Worlds |-> [linked \in BOOLEAN |-> Referential(Tables(World[n], linked, TRUE))]]

\* Whatever a projection was projected from, its rows refer only to rows of
\* the same projection; the rows that reach the tables open no gate the claim
\* closes, even when an execution of the old projector is sealed beside them
\* (projection_source.py, projection_gate_repair.py).
RowsHold ==
    /\ \A a \in store : a.ref[1] = "projection" => Closed[world][a.doc.linked]
    /\ \A content \in tables : content.gated
=============================================================================
