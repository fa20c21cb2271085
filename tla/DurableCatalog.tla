----------------------------- MODULE DurableCatalog -----------------------------
(***************************************************************************)
(* Durable runs of the robustness Catalogue                                 *)
(* (evaluate_replenishment/robustness/durable.py) over one directory of     *)
(* artifacts: write-once objects named by their content and write-once      *)
(* pointers named by a logical key.  Processes run, recover, write or read  *)
(* executions at the same time and may die between any two file operations. *)
(*                                                                          *)
(* Calculations are functions of their input, so a document is known by     *)
(* what it is of.  The leaves of an input depend on its assembly and its    *)
(* realization (World) and not on its cost profile: inputs and executions   *)
(* share leaf objects.  A reference is physical: it names the storage       *)
(* format of the object too (1: JSON, 2: gzip, 3: shared values; the shared *)
(* files of an object are part of it).                                      *)
(***************************************************************************)
EXTENDS Naturals, Sequences, FiniteSetsExt

CONSTANTS
  Proc,         \* processes, each doing one operation
  Execution,    \* execution ids
  Input,        \* sealed inputs
  World,        \* assembly and realization of each input
  Leaves,       \* number of leaves of a Catalogue
  Formats,      \* storage formats in use
  Mixed,        \* whether an older format may come after a newer one
  None,         \* an unbound pointer, no job yet
  MaxFaults,    \* bound on processes that die
  MaxDamage     \* bound on files that are lost or overwritten

ASSUME CatalogAssumption ==
  /\ Input # {} /\ DOMAIN World = Input
  /\ Leaves \in Nat \ {0}
  /\ Formats \subseteq 1 .. 3 /\ Mixed \in BOOLEAN
  /\ MaxFaults \in Nat /\ MaxDamage \in Nat

VARIABLES
  pc,           \* where each process is
  job,          \* what it was asked for
  stage,        \* the document it is at
  leaf,         \* the leaf it is at
  last,         \* the reference its last put returned
  inputRef,     \* reference of the input it works on
  refs,         \* references of the leaves of the manifest
  receipt,      \* manifest of the result it answered with
  objects,      \* references of the objects on disk
  corrupt,      \* those whose bytes were changed
  slots,        \* pointers
  faults, damages

store == <<objects, corrupt, slots>>
local == <<stage, leaf, last, inputRef, refs>>
vars == <<pc, job, local, receipt, store, faults, damages>>

-----------------------------------------------------------------------------
(* Documents, references and pointers.                                      *)

InputDoc(i)   == [kind |-> "input", of |-> i]
LeafDoc(w, n) == [kind |-> "leaf", of |-> w, index |-> n]
HeaderDoc(i)  == [kind |-> "header", of |-> i]
\* The entries of a manifest hold the physical references of its leaves.
Manifest(x, input, header, leaves) ==
  [kind |-> "manifest", execution |-> x, input |-> input, header |-> header,
   leaves |-> leaves]

Ref(d, f) == [doc |-> d, format |-> f]

\* References of an input, a leaf or a header, and of anything.
PlainDoc ==
  {InputDoc(i) : i \in Input} \cup {HeaderDoc(i) : i \in Input}
    \cup {LeafDoc(World[i], n) : i \in Input, n \in 1 .. Leaves}
PlainRef == [doc : PlainDoc, format : Formats]
ManifestDoc == [kind : {"manifest"}, execution : Execution, input : PlainRef,
                header : PlainRef, leaves : [1 .. Leaves -> PlainRef]]
Reference == [doc : PlainDoc \cup ManifestDoc, format : Formats]

ASSUME NoneAssumption == None \notin Reference

SlotOf(x, kind, n) == [execution |-> x, kind |-> kind, index |-> n]
Key == {SlotOf(x, kind, 0) : x \in Execution, kind \in {"INPUT", "COMPLETE"}}
         \cup {SlotOf(x, "LEAF", n) : x \in Execution, n \in 1 .. Leaves}

Operation == {"run", "recover", "write", "read"}
Job == [operation : Operation, execution : Execution, input : Input, format : Formats]

Ended == {"answered", "refused", "dead"}
Active(p) == pc[p] \notin Ended \cup {"idle"}

\* What an execution of an input consists of.
LeafOf(i, n) == LeafDoc(World[i], n)

\* A reader of format f reads the formats up to its own.
Readable(r, f) == r.format <= f /\ r \in objects \ corrupt

-----------------------------------------------------------------------------
Init ==
  /\ pc = [p \in Proc |-> "idle"] /\ job = [p \in Proc |-> None]
  /\ stage = [p \in Proc |-> "input"] /\ leaf = [p \in Proc |-> 1]
  /\ last = [p \in Proc |-> None] /\ inputRef = [p \in Proc |-> None]
  /\ refs = [p \in Proc |-> <<>>] /\ receipt = [p \in Proc |-> None]
  /\ objects = {} /\ corrupt = {} /\ slots = [k \in Key |-> None]
  /\ faults = 0 /\ damages = 0

Goto(p, where) == pc' = [pc EXCEPT ![p] = where]
Enter(p, s, where) == stage' = [stage EXCEPT ![p] = s] /\ Goto(p, where)

Slot(p, kind, n) == slots[SlotOf(job[p].execution, kind, n)]

\* Two formats are never at work at the same time, and the newer one comes after
\* the older one unless Mixed.
Admissible(f) ==
  \A p \in Proc : pc[p] # "idle" =>
    \/ job[p].format = f
    \/ ~Active(p) /\ (Mixed \/ job[p].format < f)

Start(p) ==
  /\ pc[p] = "idle"
  /\ \E j \in Job :
       /\ Admissible(j.format)
       /\ job' = [job EXCEPT ![p] = j]
       /\ Goto(p, IF j.operation \in {"run", "write"} THEN "put" ELSE "find_input")
  /\ UNCHANGED <<local, receipt, store, faults, damages>>

\* Defect: whatever is bound is taken.
AcceptedUnchecked(p, r) == Readable(r, job[p].format)

\* recover and read start from the bound input of the execution, which must be
\* the one the caller expects.
Accepted(p, r) == Readable(r, job[p].format) /\ r.doc = InputDoc(job[p].input)

FindInput(p) ==
  LET bound == Slot(p, "INPUT", 0) IN
  /\ pc[p] = "find_input"
  /\ bound # None /\ Accepted(p, bound)
  /\ inputRef' = [inputRef EXCEPT ![p] = bound]
  /\ Goto(p, "find_complete")
  /\ UNCHANGED <<job, stage, leaf, last, refs, receipt, store, faults, damages>>

InputRefused(p) ==
  LET bound == Slot(p, "INPUT", 0) IN
  /\ pc[p] = "find_input"
  /\ bound # None => ~Accepted(p, bound)
  /\ Goto(p, "refused")
  /\ UNCHANGED <<job, local, receipt, store, faults, damages>>

-----------------------------------------------------------------------------
(* A completed execution is read and replayed in full, and nothing written. *)

\* Leaf n of a manifest is its checkpoint, readable and what replay yields.
LeafVerified(p, r, n) ==
  Readable(r, job[p].format) /\ r.doc = LeafOf(job[p].input, n)

\* Defect: the checkpoints are compared and the leaves not read.
LoadableUnread(p, m) ==
  /\ Readable(m, job[p].format)
  /\ m.doc.execution = job[p].execution /\ m.doc.input = inputRef[p]
  /\ \A n \in 1 .. Leaves : m.doc.leaves[n] = Slot(p, "LEAF", n)
  /\ Readable(m.doc.header, job[p].format)

Loadable(p, m) ==
  /\ Readable(m, job[p].format)
  /\ m.doc.execution = job[p].execution /\ m.doc.input = inputRef[p]
  /\ \A n \in 1 .. Leaves : /\ m.doc.leaves[n] = Slot(p, "LEAF", n)
                            /\ LeafVerified(p, m.doc.leaves[n], n)
  /\ Readable(m.doc.header, job[p].format)
  /\ m.doc.header.doc = HeaderDoc(job[p].input)

Load(p) ==
  LET m == Slot(p, "COMPLETE", 0) IN
  /\ pc[p] = "find_complete"
  /\ m # None /\ Loadable(p, m)
  /\ receipt' = [receipt EXCEPT ![p] = m]
  /\ Goto(p, "answered")
  /\ UNCHANGED <<job, local, store, faults, damages>>

LoadRefused(p) ==
  LET m == Slot(p, "COMPLETE", 0) IN
  /\ pc[p] = "find_complete"
  /\ IF m = None THEN job[p].operation = "read" ELSE ~Loadable(p, m)
  /\ Goto(p, "refused")
  /\ UNCHANGED <<job, local, receipt, store, faults, damages>>

Resume(p) ==
  /\ pc[p] = "find_complete"
  /\ Slot(p, "COMPLETE", 0) = None /\ job[p].operation # "read"
  /\ Enter(p, "leaf", "find_leaf")
  /\ UNCHANGED <<job, leaf, last, inputRef, refs, receipt, store, faults, damages>>

-----------------------------------------------------------------------------
(* Leaves: verify what a checkpoint holds, compute what none holds; then    *)
(* _complete puts and binds every leaf again.                               *)

\* After leaf n of a loop: the next one, or what follows the loop.
NextLeaf(p) ==
  IF leaf[p] < Leaves
  THEN /\ leaf' = [leaf EXCEPT ![p] = @ + 1]
       /\ Goto(p, IF stage[p] = "leaf" THEN "find_leaf" ELSE "put")
       /\ UNCHANGED stage
  ELSE /\ leaf' = [leaf EXCEPT ![p] = 1]
       /\ Enter(p, IF stage[p] = "leaf" THEN "close" ELSE "header", "put")

VerifyLeaf(p) ==
  LET bound == Slot(p, "LEAF", leaf[p]) IN
  /\ pc[p] = "find_leaf"
  /\ bound # None /\ LeafVerified(p, bound, leaf[p])
  /\ NextLeaf(p)
  /\ UNCHANGED <<job, last, inputRef, refs, receipt, store, faults, damages>>

LeafRefused(p) ==
  LET bound == Slot(p, "LEAF", leaf[p]) IN
  /\ pc[p] = "find_leaf"
  /\ bound # None /\ ~LeafVerified(p, bound, leaf[p])
  /\ Goto(p, "refused")
  /\ UNCHANGED <<job, local, receipt, store, faults, damages>>

ExecuteLeaf(p) ==
  /\ pc[p] = "find_leaf" /\ Slot(p, "LEAF", leaf[p]) = None
  /\ Goto(p, "put")
  /\ UNCHANGED <<job, local, receipt, store, faults, damages>>

-----------------------------------------------------------------------------
(* put: take the object a format up to one's own holds, or publish it.      *)

\* The document of the stage; a manifest is built when its header is stored.
Document(p) ==
  CASE stage[p] = "input" -> InputDoc(job[p].input)
    [] stage[p] \in {"leaf", "close"} -> LeafOf(job[p].input, leaf[p])
    [] stage[p] = "header" -> HeaderDoc(job[p].input)
    [] OTHER -> Manifest(job[p].execution, inputRef[p], last[p], refs[p])

\* Defect: a format knows its own objects only.
StoredOwn(p) == {f \in {job[p].format} : Ref(Document(p), f) \in objects}

\* The formats, up to one's own, in which the document is on disk.
Stored(p) == {f \in 1 .. job[p].format : Ref(Document(p), f) \in objects}

\* put returns r: a header is not bound.
Return(p, r) ==
  /\ last' = [last EXCEPT ![p] = r]
  /\ IF stage[p] = "header"
     THEN Enter(p, "manifest", "put")
     ELSE Goto(p, "bind") /\ UNCHANGED stage

Reuse(p) ==
  LET r == Ref(Document(p), Min(Stored(p))) IN
  /\ pc[p] = "put"
  /\ Stored(p) # {} /\ Readable(r, job[p].format)
  /\ Return(p, r)
  /\ UNCHANGED <<job, leaf, inputRef, refs, receipt, store, faults, damages>>

PutConflict(p) ==
  /\ pc[p] = "put"
  /\ Stored(p) # {} /\ Ref(Document(p), Min(Stored(p))) \in corrupt
  /\ Goto(p, "refused")
  /\ UNCHANGED <<job, local, receipt, store, faults, damages>>

NotStored(p) ==
  /\ pc[p] = "put" /\ Stored(p) = {}
  /\ Goto(p, "publish")
  /\ UNCHANGED <<job, local, receipt, store, faults, damages>>

\* The hard link: another process may have published the same object meanwhile.
Publish(p) ==
  LET r == Ref(Document(p), job[p].format) IN
  /\ pc[p] = "publish"
  /\ objects' = objects \cup {r}
  /\ Return(p, r)
  /\ UNCHANGED <<job, leaf, inputRef, refs, receipt, corrupt, slots, faults, damages>>

-----------------------------------------------------------------------------
(* bind: the first writer of a pointer decides.                             *)

Pointer(p) ==
  SlotOf(job[p].execution,
         CASE stage[p] = "input" -> "INPUT"
           [] stage[p] = "manifest" -> "COMPLETE"
           [] OTHER -> "LEAF",
         IF stage[p] \in {"leaf", "close"} THEN leaf[p] ELSE 0)

Bindable(p) ==
  /\ Readable(last[p], job[p].format)
  /\ slots[Pointer(p)] \in {None, last[p]}

Bind(p) ==
  /\ pc[p] = "bind" /\ Bindable(p)
  /\ slots' = [slots EXCEPT ![Pointer(p)] = last[p]]
  /\ inputRef' = IF stage[p] = "input" THEN [inputRef EXCEPT ![p] = last[p]] ELSE inputRef
  /\ refs' = IF stage[p] = "close" THEN [refs EXCEPT ![p] = Append(@, last[p])] ELSE refs
  /\ receipt' = IF stage[p] = "manifest" THEN [receipt EXCEPT ![p] = last[p]] ELSE receipt
  /\ CASE stage[p] = "input" /\ job[p].operation = "run" ->
            Goto(p, "find_complete") /\ UNCHANGED <<stage, leaf>>
       [] stage[p] = "input" /\ job[p].operation = "write" ->
            Enter(p, "close", "put") /\ UNCHANGED leaf
       [] stage[p] \in {"leaf", "close"} -> NextLeaf(p)
       [] OTHER -> Goto(p, "answered") /\ UNCHANGED <<stage, leaf>>
  /\ UNCHANGED <<job, last, objects, corrupt, faults, damages>>

BindConflict(p) ==
  /\ pc[p] = "bind" /\ ~Bindable(p)
  /\ Goto(p, "refused")
  /\ UNCHANGED <<job, local, receipt, store, faults, damages>>

-----------------------------------------------------------------------------
(* Faults.                                                                  *)

Crash(p) ==
  /\ Active(p) /\ faults < MaxFaults
  /\ faults' = faults + 1
  /\ Goto(p, "dead")
  /\ UNCHANGED <<job, local, receipt, store, damages>>

\* A file is lost or overwritten while no process is at work.
Damage ==
  /\ damages < MaxDamage /\ \A p \in Proc : ~Active(p)
  /\ damages' = damages + 1
  /\ \/ \E r \in objects : /\ objects' = objects \ {r}
                           /\ corrupt' = corrupt \ {r} /\ UNCHANGED slots
     \/ \E r \in objects \ corrupt : corrupt' = corrupt \cup {r} /\ UNCHANGED <<objects, slots>>
     \/ \E k \in Key : /\ slots[k] # None /\ slots' = [slots EXCEPT ![k] = None]
                       /\ UNCHANGED <<objects, corrupt>>
  /\ UNCHANGED <<pc, job, local, receipt, faults>>

Step(p) ==
  \/ Start(p) \/ FindInput(p) \/ InputRefused(p) \/ Load(p) \/ LoadRefused(p) \/ Resume(p)
  \/ VerifyLeaf(p) \/ LeafRefused(p) \/ ExecuteLeaf(p)
  \/ Reuse(p) \/ PutConflict(p) \/ NotStored(p) \/ Publish(p) \/ Bind(p) \/ BindConflict(p)

Next == Damage \/ \E p \in Proc : Step(p) \/ Crash(p)

Spec == Init /\ [][Next]_vars

-----------------------------------------------------------------------------
(* Properties.                                                              *)

\* The execution is completely on disk, unharmed and of input i, with manifest m.
Whole(x, i, m) ==
  LET there(r) == r \in objects \ corrupt IN
  /\ slots[SlotOf(x, "COMPLETE", 0)] = m /\ there(m) /\ m.doc.execution = x
  /\ m.doc.input = slots[SlotOf(x, "INPUT", 0)]
  /\ m.doc.input.doc = InputDoc(i) /\ there(m.doc.input)
  /\ m.doc.header.doc = HeaderDoc(i) /\ there(m.doc.header)
  /\ DOMAIN m.doc.leaves = 1 .. Leaves
  /\ \A n \in 1 .. Leaves : /\ m.doc.leaves[n] = slots[SlotOf(x, "LEAF", n)]
                            /\ m.doc.leaves[n].doc = LeafOf(i, n)
                            /\ there(m.doc.leaves[n])

\* What each variable holds; while nothing was harmed a bound pointer names an
\* object that is on disk.
TypeOK ==
  LET stored == objects \cup {None} IN
  /\ pc \in [Proc -> {"idle", "find_input", "find_complete", "find_leaf", "put",
                      "publish", "bind"} \cup Ended]
  /\ job \in [Proc -> Job \cup {None}]
  /\ stage \in [Proc -> {"input", "leaf", "close", "header", "manifest"}]
  /\ leaf \in [Proc -> 1 .. Leaves]
  /\ last \in [Proc -> Reference \cup {None}] /\ receipt \in [Proc -> Reference \cup {None}]
  /\ inputRef \in [Proc -> PlainRef \cup {None}] /\ refs \in [Proc -> Seq(PlainRef)]
  /\ objects \subseteq Reference /\ corrupt \subseteq objects
  /\ slots \in [Key -> Reference \cup {None}]
  /\ faults \in 0 .. MaxFaults /\ damages \in 0 .. MaxDamage
  /\ damages = 0 => corrupt = {} /\ \A k \in Key : slots[k] \in stored

\* Whoever answers with a receipt or a result answers for an execution that is
\* completely on disk, unharmed, and of the input it was asked for: whatever
\* other processes wrote, died at or lost before.
AnswerIsWhole ==
  [][\A p \in Proc : pc[p] # "answered" /\ pc'[p] = "answered" =>
       Whole(job[p].execution, job[p].input, receipt[p])']_vars

\* While no file is harmed all receipts of an execution name the same manifest,
\* the first bound, whoever races, dies or comes with another format.
OneManifest ==
  \A p, q \in Proc :
    /\ damages = 0 /\ pc[p] = "answered" /\ pc[q] = "answered"
    /\ job[p].execution = job[q].execution
    => receipt[p] = receipt[q]

\* The input an execution was sealed with stands for all of it: no process of
\* another input ever adds a checkpoint or a result.
SealedInputGoverns ==
  \A x \in Execution, i \in Input :
    LET bound == slots[SlotOf(x, "INPUT", 0)] IN
    damages = 0 =>
      /\ bound = None => \A k \in Key : k.execution = x => slots[k] = None
      /\ bound # None /\ bound.doc = InputDoc(i) =>
           \A n \in 1 .. Leaves : LET r == slots[SlotOf(x, "LEAF", n)] IN
             r # None => r.doc = LeafOf(i, n)

\* What the store holds of an execution is one execution: of one input, with
\* one manifest.
ExecutionIsOne ==
  /\ TypeOK
  /\ OneManifest
  /\ SealedInputGoverns

\* Whether p, refused now, was asked to go on with the input x is bound to, and
\* reads every format in the directory.
Entitled(p) ==
  LET bound == Slot(p, "INPUT", 0) IN
  /\ job[p].operation # "read"
  /\ \A r \in objects : r.format <= job[p].format
  /\ bound # None /\ bound.doc = InputDoc(job[p].input)

\* While no file is harmed and formats only move forward, a process is refused
\* only because the execution is of another input, or of none: what others left
\* behind when they died, or write at the same time, never stands in its way.
RecoveryNeverRefused ==
  [][\A p \in Proc :
       pc[p] # "refused" /\ pc'[p] = "refused" /\ damages = 0 => ~Entitled(p)]_vars

=============================================================================
