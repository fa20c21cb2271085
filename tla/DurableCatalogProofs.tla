-------------------------- MODULE DurableCatalogProofs --------------------------
(***************************************************************************)
(* What TLAPS proves of DurableCatalog for every set of processes,          *)
(* executions, inputs and formats, every number of leaves and every bound   *)
(* on faults and damage.                                                    *)
(***************************************************************************)
EXTENDS DurableCatalog, TLAPS

-----------------------------------------------------------------------------
(* The inductive invariant.                                                 *)

\* Whether p can read r now.
Has(p, r) == Readable(r, job[p].format)

\* Where a process can be: what it was asked for, its stage and its place in the
\* leaves agree.
Control(p) ==
  /\ pc[p] # "idle" => job[p] \in Job
  /\ pc[p] \in {"idle", "find_input", "find_complete"} => stage[p] = "input"
  /\ pc[p] = "find_leaf" => stage[p] = "leaf"
  /\ pc[p] \in {"put", "publish", "bind"} /\ stage[p] = "input" =>
       job[p].operation \in {"run", "write"}
  /\ pc[p] = "bind" => stage[p] # "header"
  /\ pc[p] = "answered" => stage[p] \in {"input", "manifest"}
  /\ stage[p] \in {"input", "leaf"} => refs[p] = <<>>
  /\ stage[p] = "close" => Len(refs[p]) = leaf[p] - 1
  /\ stage[p] \in {"header", "manifest"} => Len(refs[p]) = Leaves
  /\ stage[p] \in {"input", "header", "manifest"} => leaf[p] = 1

\* Whoever is past the input works on the bound input of its execution.
HoldsInput(p) ==
  Active(p) /\ (pc[p] = "find_complete" \/ stage[p] # "input") =>
    /\ inputRef[p] = Slot(p, "INPUT", 0)
    /\ inputRef[p].doc = InputDoc(job[p].input) /\ Has(p, inputRef[p])

\* The leaves collected for the manifest are the bound ones.
HoldsLeaves(p) ==
  Active(p) => \A n \in 1 .. Len(refs[p]) :
    /\ refs[p][n] = Slot(p, "LEAF", n)
    /\ refs[p][n].doc = LeafOf(job[p].input, n) /\ Has(p, refs[p][n])

\* What a put returned is what is bound next, or the header of the manifest.
HoldsLast(p) ==
  /\ pc[p] = "bind" => Has(p, last[p])
  /\ pc[p] = "bind" /\ stage[p] # "manifest" => last[p].doc = Document(p)
  /\ pc[p] = "bind" /\ stage[p] = "manifest" =>
       /\ last[p].doc = Manifest(job[p].execution, inputRef[p], last[p].doc.header, refs[p])
       /\ last[p].doc.header.doc = HeaderDoc(job[p].input) /\ Has(p, last[p].doc.header)
  /\ pc[p] \in {"put", "publish"} /\ stage[p] = "manifest" =>
       last[p].doc = HeaderDoc(job[p].input) /\ Has(p, last[p])

\* An object about to be published has no harmed predecessor.
PublishesClean(p) == pc[p] = "publish" => Ref(Document(p), job[p].format) \notin corrupt

\* A receipt is the bound manifest.
ReceiptBound(p) ==
  pc[p] = "answered" /\ damages = 0 =>
    receipt[p] = Slot(p, "COMPLETE", 0) /\ receipt[p] # None

Working(p) ==
  /\ Control(p) /\ HoldsInput(p) /\ HoldsLeaves(p) /\ HoldsLast(p)
  /\ PublishesClean(p) /\ ReceiptBound(p)

\* What is bound as a result is a manifest, and of a whole execution.
CompleteIsWhole ==
  \A x \in Execution :
    LET m == slots[SlotOf(x, "COMPLETE", 0)] IN
    m # None => m.doc.kind = "manifest" /\ (damages = 0 => \E i \in Input : Whole(x, i, m))

\* Unless Mixed, the format at work is the newest that ever was: it reads all that
\* is on disk, and a document is on disk in one format only.
FormatsForward ==
  ~Mixed =>
  /\ \A p, q \in Proc : Active(p) /\ pc[q] # "idle" => job[q].format <= job[p].format
  /\ \A r \in objects : \E q \in Proc : pc[q] # "idle" /\ r.format = job[q].format
  /\ \A r, s \in objects : r.doc = s.doc => r = s
  /\ \A p \in Proc : pc[p] = "publish" =>
       \A r \in objects : r.doc = Document(p) => r.format = job[p].format

IInv ==
  /\ TypeOK /\ SealedInputGoverns
  /\ \A p \in Proc : Working(p)
  /\ CompleteIsWhole /\ FormatsForward
-----------------------------------------------------------------------------
(* Names.                                                                   *)

\* A pointer is named by its execution, its kind and its index.
LEMMA SlotsDiffer ==
  ASSUME NEW x, NEW k, NEW n, NEW y, NEW l, NEW m,
         SlotOf(x, k, n) = SlotOf(y, l, m)
  PROVE  x = y /\ k = l /\ n = m
  BY DEF SlotOf

\* The pointers of an execution.
LEMMA Keys ==
  ASSUME NEW x \in Execution
  PROVE  /\ SlotOf(x, "INPUT", 0) \in Key /\ SlotOf(x, "COMPLETE", 0) \in Key
         /\ \A n \in 1 .. Leaves : SlotOf(x, "LEAF", n) \in Key
         /\ \A n \in Nat : SlotOf(x, "INPUT", 0) # SlotOf(x, "LEAF", n)
         /\ \A n \in Nat : SlotOf(x, "COMPLETE", 0) # SlotOf(x, "LEAF", n)
         /\ SlotOf(x, "INPUT", 0) # SlotOf(x, "COMPLETE", 0)
<1>1. /\ SlotOf(x, "INPUT", 0) \in Key /\ SlotOf(x, "COMPLETE", 0) \in Key
      /\ \A n \in 1 .. Leaves : SlotOf(x, "LEAF", n) \in Key
  BY DEF Key
<1>2. QED
  BY <1>1 DEF SlotOf

\* An input is told from its document; an object is no unbound pointer.
LEMMA Documents ==
  /\ \A i, j \in Input : InputDoc(i) = InputDoc(j) => i = j
  /\ \A d, f : Ref(d, f).doc = d /\ Ref(d, f).format = f
  /\ \A r \in Reference : r # None /\ r = Ref(r.doc, r.format)
  /\ \A r \in PlainRef : r \in Reference
  /\ \A r \in Reference : r.doc.kind = "manifest" => r.doc \in ManifestDoc
<1>1. \A i, j \in Input : InputDoc(i) = InputDoc(j) => i = j
  BY DEF InputDoc
<1>2. \A d, f : Ref(d, f).doc = d /\ Ref(d, f).format = f
  BY DEF Ref
<1>3. \A r \in Reference : r # None /\ r = Ref(r.doc, r.format)
  BY NoneAssumption DEF Reference, Ref
<1>4. \A r \in PlainRef : r \in Reference
  BY DEF PlainRef, Reference
<1>5. \A d \in PlainDoc : d.kind # "manifest"
  BY DEF PlainDoc, InputDoc, HeaderDoc, LeafDoc
<1>6. \A r \in Reference : r.doc.kind = "manifest" => r.doc \in ManifestDoc
  BY <1>5 DEF Reference
<1>7. QED
  BY <1>1, <1>2, <1>3, <1>4, <1>6

\* What a process that has begun was asked for.
LEMMA Asked ==
  ASSUME NEW p \in Proc, Control(p), pc[p] # "idle"
  PROVE  /\ job[p] \in Job /\ job[p].execution \in Execution /\ job[p].input \in Input
         /\ job[p].format \in Formats /\ job[p].format \in Nat
         /\ job[p].format \in 1 .. job[p].format /\ job[p].operation \in Operation
<1>1. job[p] \in Job
  BY DEF Control
<1>2. /\ job[p].execution \in Execution /\ job[p].input \in Input
      /\ job[p].format \in Formats /\ job[p].operation \in Operation
  BY <1>1 DEF Job
<1>3. \A f \in Formats : f \in Nat /\ f \in 1 .. f
  BY CatalogAssumption
<1>4. QED
  BY <1>1, <1>2, <1>3

-----------------------------------------------------------------------------
(* What a process does to the others and to the store: nothing that is      *)
(* there goes away, and nobody else moves.                                  *)

StoreGrows ==
  /\ objects \subseteq objects' /\ objects' \subseteq Reference
  /\ corrupt' = corrupt /\ damages' = damages
  /\ \A k \in Key : slots[k] # None => slots'[k] = slots[k]

Stays(q) ==
  /\ pc'[q] = pc[q] /\ job'[q] = job[q] /\ stage'[q] = stage[q] /\ leaf'[q] = leaf[q]
  /\ last'[q] = last[q] /\ inputRef'[q] = inputRef[q] /\ refs'[q] = refs[q]
  /\ receipt'[q] = receipt[q]

\* What a process has done and holds stays true while the store grows.
LEMMA OthersKeep ==
  ASSUME TypeOK, NEW q \in Proc, Working(q), StoreGrows, Stays(q)
  PROVE  Working(q)'
<1>1. Control(q)'
  BY DEF Working, Control, Stays
<1>2. HoldsInput(q)'
  <2> SUFFICES ASSUME Active(q), pc[q] = "find_complete" \/ stage[q] # "input"
               PROVE  /\ inputRef[q] = Slot(q, "INPUT", 0)'
                      /\ inputRef[q].doc = InputDoc(job[q].input)
                      /\ Readable(inputRef[q], job[q].format)'
    BY DEF Stays, HoldsInput, Active, Has, Readable
  <2>1. /\ inputRef[q] = Slot(q, "INPUT", 0) /\ inputRef[q] \in objects \ corrupt
        /\ inputRef[q].format <= job[q].format /\ inputRef[q].doc = InputDoc(job[q].input)
    BY DEF Working, HoldsInput, Has, Readable
  <2>2. inputRef[q] # None
    BY <2>1, Documents DEF TypeOK
  <2>3. SlotOf(job[q].execution, "INPUT", 0) \in Key
    BY Asked, Keys DEF Working, Active
  <2>4. QED
    BY <2>1, <2>2, <2>3 DEF StoreGrows, Stays, Slot, Readable
<1>3. HoldsLeaves(q)'
  <2> SUFFICES ASSUME Active(q), NEW n \in 1 .. Len(refs[q])
               PROVE  /\ refs[q][n] = Slot(q, "LEAF", n)'
                      /\ refs[q][n].doc = LeafOf(job[q].input, n)
                      /\ Readable(refs[q][n], job[q].format)'
    BY DEF Stays, HoldsLeaves, Active, Has, Readable
  <2>1. /\ refs[q][n] = Slot(q, "LEAF", n) /\ refs[q][n] \in objects \ corrupt
        /\ refs[q][n].format <= job[q].format
        /\ refs[q][n].doc = LeafOf(job[q].input, n)
    BY DEF Working, HoldsLeaves, Has, Readable
  <2>2. refs[q][n] # None
    BY <2>1, Documents DEF TypeOK
  <2>3. Len(refs[q]) \in 0 .. Leaves
    BY CatalogAssumption DEF Working, Control, TypeOK
  <2>4. SlotOf(job[q].execution, "LEAF", n) \in Key
    BY <2>3, Asked, Keys, CatalogAssumption DEF Working, Active
  <2>5. QED
    BY <2>1, <2>2, <2>4 DEF StoreGrows, Stays, Slot, Readable
<1>4. HoldsLast(q)'
  BY DEF Working, HoldsLast, StoreGrows, Stays, Has, Readable, Document, Manifest
<1>5. PublishesClean(q)'
  BY DEF Working, PublishesClean, StoreGrows, Stays, Document, Manifest
<1>6. ReceiptBound(q)'
  <2> SUFFICES ASSUME pc[q] = "answered", damages = 0
               PROVE  receipt[q] = Slot(q, "COMPLETE", 0)' /\ receipt[q] # None
    BY DEF Stays, StoreGrows, ReceiptBound
  <2>1. SlotOf(job[q].execution, "COMPLETE", 0) \in Key
    BY Asked, Keys DEF Working
  <2>2. QED
    BY <2>1 DEF Working, ReceiptBound, StoreGrows, Stays, Slot
<1>7. QED
  BY <1>1, <1>2, <1>3, <1>4, <1>5, <1>6 DEF Working

-----------------------------------------------------------------------------
(* What each action does to the process that takes it.                      *)

\* A process that is refused or dies leaves everything as it is.
Ends(p) ==
  /\ Active(p)
  /\ \E where \in {"refused", "dead"} : Goto(p, where)
  /\ UNCHANGED <<job, local, receipt, store, damages>>

LEMMA EndsMoves ==
  ASSUME TypeOK, NEW p \in Proc, Ends(p), faults' \in 0 .. MaxFaults, Working(p)
  PROVE  /\ TypeOK' /\ Working(p)' /\ StoreGrows
         /\ \A q \in Proc : q # p => Stays(q)
<1>1. TypeOK'
  BY DEF TypeOK, Ends, Goto, local, store, Ended
<1>2. pc'[p] \in {"refused", "dead"}
  BY DEF TypeOK, Ends, Goto
<1>3. Working(p)'
  BY <1>2 DEF Ends, Working, Control, HoldsInput, HoldsLeaves, HoldsLast, PublishesClean,
    ReceiptBound, Active, Ended, local, store
<1>4. StoreGrows /\ \A q \in Proc : q # p => Stays(q)
  BY DEF TypeOK, Ends, Goto, local, store, StoreGrows, Stays
<1>5. QED
  BY <1>1, <1>3, <1>4

\* An operation begins at its first put or its bound input.
LEMMA StartMoves ==
  ASSUME TypeOK, NEW p \in Proc, Start(p), Working(p)
  PROVE  /\ TypeOK' /\ Working(p)' /\ StoreGrows
         /\ \A q \in Proc : q # p => Stays(q)
<1>1. PICK j \in Job : /\ job' = [job EXCEPT ![p] = j]
                       /\ Goto(p, IF j.operation \in {"run", "write"} THEN "put" ELSE "find_input")
  BY DEF Start
<1>2. TypeOK'
  BY <1>1 DEF TypeOK, Start, Goto, local, store
<1>3. StoreGrows /\ \A q \in Proc : q # p => Stays(q)
  BY <1>1 DEF TypeOK, Start, Goto, local, store, StoreGrows, Stays
<1>4. /\ pc'[p] = IF j.operation \in {"run", "write"} THEN "put" ELSE "find_input"
      /\ job'[p] = j /\ stage'[p] = "input" /\ refs'[p] = <<>> /\ leaf'[p] = 1
  BY <1>1 DEF TypeOK, Start, Goto, local, Working, Control
<1>5. Control(p)'
  BY <1>4 DEF Control
<1>6. HoldsInput(p)' /\ HoldsLeaves(p)' /\ HoldsLast(p)' /\ PublishesClean(p)' /\ ReceiptBound(p)'
  BY <1>4 DEF HoldsInput, HoldsLeaves, HoldsLast, PublishesClean, ReceiptBound
<1>7. QED
  BY <1>2, <1>3, <1>5, <1>6 DEF Working

\* recover and read have the bound input of the execution.
LEMMA FindInputMoves ==
  ASSUME TypeOK, NEW p \in Proc, FindInput(p), Working(p)
  PROVE  /\ TypeOK' /\ Working(p)' /\ StoreGrows
         /\ \A q \in Proc : q # p => Stays(q)
<1> DEFINE bound == Slot(p, "INPUT", 0)
<1>1. /\ pc[p] = "find_input" /\ Accepted(p, bound)
      /\ inputRef' = [inputRef EXCEPT ![p] = bound] /\ Goto(p, "find_complete")
      /\ UNCHANGED <<job, stage, leaf, last, refs, receipt, store, faults, damages>>
  BY DEF FindInput
<1>2. bound \in PlainRef
  <2>1. bound \in Reference /\ bound.doc = InputDoc(job[p].input) /\ job[p].input \in Input
    BY <1>1, Asked DEF Accepted, Readable, TypeOK, Working
  <2>2. QED
    BY <2>1 DEF Reference, PlainRef, PlainDoc
<1>3. TypeOK'
  BY <1>1, <1>2 DEF TypeOK, Goto, store
<1>4. StoreGrows /\ \A q \in Proc : q # p => Stays(q)
  BY <1>1 DEF TypeOK, Goto, store, StoreGrows, Stays
<1>5. pc'[p] = "find_complete" /\ inputRef'[p] = bound /\ Slot(p, "INPUT", 0)' = bound
  BY <1>1 DEF TypeOK, Goto, store, Slot
<1>6. stage[p] = "input" /\ refs[p] = <<>>
  BY <1>1 DEF Working, Control
<1>7. Control(p)'
  BY <1>1, <1>5 DEF Working, Control
<1>8. HoldsInput(p)'
  BY <1>1, <1>5 DEF HoldsInput, Has, Accepted, Readable, store
<1>9. HoldsLeaves(p)' /\ HoldsLast(p)' /\ PublishesClean(p)' /\ ReceiptBound(p)'
  BY <1>1, <1>5, <1>6 DEF HoldsLeaves, HoldsLast, PublishesClean, ReceiptBound
<1>10. QED
  BY <1>3, <1>4, <1>7, <1>8, <1>9 DEF Working

\* A completed execution is answered with its bound manifest.
LEMMA LoadMoves ==
  ASSUME TypeOK, NEW p \in Proc, Load(p), Working(p)
  PROVE  /\ TypeOK' /\ Working(p)' /\ StoreGrows
         /\ \A q \in Proc : q # p => Stays(q)
<1> DEFINE m == Slot(p, "COMPLETE", 0)
<1>1. /\ pc[p] = "find_complete" /\ m # None /\ Readable(m, job[p].format)
      /\ receipt' = [receipt EXCEPT ![p] = m] /\ Goto(p, "answered")
      /\ UNCHANGED <<job, local, store, faults, damages>>
  BY DEF Load, Loadable
<1>2. TypeOK'
  BY <1>1 DEF TypeOK, Goto, local, store, Readable, Ended
<1>3. StoreGrows /\ \A q \in Proc : q # p => Stays(q)
  BY <1>1 DEF TypeOK, Goto, local, store, StoreGrows, Stays
<1>4. pc'[p] = "answered" /\ receipt'[p] = m /\ Slot(p, "COMPLETE", 0)' = m
  BY <1>1 DEF TypeOK, Goto, store, Slot
<1>5. Control(p)'
  BY <1>1, <1>4 DEF Working, Control, local
<1>6. HoldsInput(p)' /\ HoldsLeaves(p)' /\ HoldsLast(p)' /\ PublishesClean(p)'
  BY <1>4 DEF HoldsInput, HoldsLeaves, HoldsLast, PublishesClean, Active, Ended
<1>7. ReceiptBound(p)'
  BY <1>1, <1>4 DEF ReceiptBound
<1>8. QED
  BY <1>2, <1>3, <1>5, <1>6, <1>7 DEF Working

\* Leaves are looked for from the first.
LEMMA ResumeMoves ==
  ASSUME TypeOK, NEW p \in Proc, Resume(p), Working(p)
  PROVE  /\ TypeOK' /\ Working(p)' /\ StoreGrows
         /\ \A q \in Proc : q # p => Stays(q)
<1>1. /\ pc[p] = "find_complete" /\ Goto(p, "find_leaf")
      /\ stage' = [stage EXCEPT ![p] = "leaf"]
      /\ UNCHANGED <<job, leaf, last, inputRef, refs, receipt, store, faults, damages>>
  BY DEF Resume, Enter
<1>2. TypeOK'
  BY <1>1 DEF TypeOK, Goto, store
<1>3. StoreGrows /\ \A q \in Proc : q # p => Stays(q)
  BY <1>1 DEF TypeOK, Goto, store, StoreGrows, Stays
<1>4. pc'[p] = "find_leaf" /\ stage'[p] = "leaf"
  BY <1>1 DEF TypeOK, Goto
<1>5. Control(p)'
  BY <1>1, <1>4 DEF Working, Control
<1>6. HoldsInput(p)'
  BY <1>1, <1>4 DEF Working, HoldsInput, Has, Readable, Active, Ended, Slot, store
<1>7. HoldsLeaves(p)' /\ HoldsLast(p)' /\ PublishesClean(p)' /\ ReceiptBound(p)'
  BY <1>1, <1>4 DEF Working, Control, HoldsLeaves, HoldsLast, PublishesClean, ReceiptBound
<1>8. QED
  BY <1>2, <1>3, <1>5, <1>6, <1>7 DEF Working

\* After leaf n of a loop.
LEMMA NextLeafMoves ==
  ASSUME TypeOK, NEW p \in Proc, NextLeaf(p), stage[p] \in {"leaf", "close"}
  PROVE  /\ pc' \in [Proc -> {"idle", "find_input", "find_complete", "find_leaf", "put",
                              "publish", "bind"} \cup Ended]
         /\ stage' \in [Proc -> {"input", "leaf", "close", "header", "manifest"}]
         /\ leaf' \in [Proc -> 1 .. Leaves]
         /\ \A q \in Proc : q # p => /\ pc'[q] = pc[q] /\ stage'[q] = stage[q]
                                     /\ leaf'[q] = leaf[q]
         /\ \/ /\ leaf[p] < Leaves /\ leaf'[p] = leaf[p] + 1 /\ stage'[p] = stage[p]
               /\ pc'[p] = IF stage[p] = "leaf" THEN "find_leaf" ELSE "put"
            \/ /\ leaf[p] = Leaves /\ leaf'[p] = 1 /\ pc'[p] = "put"
               /\ stage'[p] = IF stage[p] = "leaf" THEN "close" ELSE "header"
<1>1. CASE leaf[p] < Leaves
  <2>1. /\ leaf' = [leaf EXCEPT ![p] = leaf[p] + 1] /\ stage' = stage
        /\ pc' = [pc EXCEPT ![p] = IF stage[p] = "leaf" THEN "find_leaf" ELSE "put"]
    BY <1>1 DEF NextLeaf, Goto
  <2>2. leaf[p] + 1 \in 1 .. Leaves
    BY <1>1, CatalogAssumption DEF TypeOK
  <2>3. QED
    BY <1>1, <2>1, <2>2 DEF TypeOK
<1>2. CASE ~(leaf[p] < Leaves)
  <2>1. /\ leaf' = [leaf EXCEPT ![p] = 1] /\ pc' = [pc EXCEPT ![p] = "put"]
        /\ stage' = [stage EXCEPT ![p] = IF stage[p] = "leaf" THEN "close" ELSE "header"]
    BY <1>2 DEF NextLeaf, Enter, Goto
  <2>2. leaf[p] = Leaves /\ 1 \in 1 .. Leaves
    BY <1>2, CatalogAssumption DEF TypeOK
  <2>3. QED
    BY <2>1, <2>2 DEF TypeOK
<1>3. QED
  BY <1>1, <1>2

\* A leaf that was there is not computed again.
LEMMA VerifyLeafMoves ==
  ASSUME TypeOK, NEW p \in Proc, VerifyLeaf(p), Working(p)
  PROVE  /\ TypeOK' /\ Working(p)' /\ StoreGrows
         /\ \A q \in Proc : q # p => Stays(q)
<1>1. /\ pc[p] = "find_leaf" /\ NextLeaf(p)
      /\ UNCHANGED <<job, last, inputRef, refs, receipt, store, faults, damages>>
  BY DEF VerifyLeaf
<1>2. stage[p] = "leaf" /\ refs[p] = <<>>
  BY <1>1 DEF Working, Control
<1>3. /\ \/ /\ leaf[p] < Leaves /\ leaf'[p] = leaf[p] + 1 /\ stage'[p] = "leaf"
            /\ pc'[p] = "find_leaf"
         \/ leaf'[p] = 1 /\ pc'[p] = "put" /\ stage'[p] = "close"
      /\ \A q \in Proc : q # p => /\ pc'[q] = pc[q] /\ stage'[q] = stage[q]
                                  /\ leaf'[q] = leaf[q]
  BY <1>1, <1>2, NextLeafMoves
<1>4. TypeOK'
  BY <1>1, <1>2, NextLeafMoves DEF TypeOK, store
<1>5. StoreGrows /\ \A q \in Proc : q # p => Stays(q)
  BY <1>1, <1>3 DEF TypeOK, store, StoreGrows, Stays
<1>6. Control(p)'
  BY <1>1, <1>2, <1>3 DEF Working, Control
<1>7. HoldsInput(p)'
  BY <1>1, <1>2, <1>3 DEF Working, HoldsInput, Has, Readable, Active, Ended, Slot, store
<1>8. HoldsLeaves(p)' /\ HoldsLast(p)' /\ PublishesClean(p)' /\ ReceiptBound(p)'
  BY <1>1, <1>2, <1>3 DEF HoldsLeaves, HoldsLast, PublishesClean, ReceiptBound
<1>9. QED
  BY <1>4, <1>5, <1>6, <1>7, <1>8 DEF Working

\* A leaf without a checkpoint is computed, a document without an object is
\* published: the process only moves on.
LEMMA ExecuteLeafMoves ==
  ASSUME TypeOK, NEW p \in Proc, ExecuteLeaf(p), Working(p)
  PROVE  /\ TypeOK' /\ Working(p)' /\ StoreGrows
         /\ \A q \in Proc : q # p => Stays(q)
<1>1. /\ pc[p] = "find_leaf" /\ Goto(p, "put")
      /\ UNCHANGED <<job, local, receipt, store, faults, damages>>
  BY DEF ExecuteLeaf
<1>2. TypeOK'
  BY <1>1 DEF TypeOK, Goto, local, store
<1>3. StoreGrows /\ \A q \in Proc : q # p => Stays(q)
  BY <1>1 DEF TypeOK, Goto, local, store, StoreGrows, Stays
<1>4. pc'[p] = "put" /\ stage[p] = "leaf"
  BY <1>1 DEF TypeOK, Goto, Working, Control
<1>5. Control(p)'
  BY <1>1, <1>4 DEF Working, Control, local
<1>6. HoldsInput(p)' /\ HoldsLeaves(p)'
  BY <1>1, <1>4 DEF Working, HoldsInput, HoldsLeaves, Has, Readable, Active, Ended, Slot,
    local, store
<1>7. HoldsLast(p)' /\ PublishesClean(p)' /\ ReceiptBound(p)'
  BY <1>1, <1>4 DEF HoldsLast, PublishesClean, ReceiptBound, local
<1>8. QED
  BY <1>2, <1>3, <1>5, <1>6, <1>7 DEF Working

\* What a process puts: an input, a leaf or a header, or the manifest of what it
\* holds.
LEMMA DocumentTyped ==
  ASSUME TypeOK, NEW p \in Proc, Working(p), pc[p] \in {"put", "publish"}
  PROVE  /\ Document(p) \in PlainDoc \cup ManifestDoc
         /\ stage[p] # "manifest" => Document(p) \in PlainDoc
         /\ stage[p] = "input" => Document(p) = InputDoc(job[p].input)
         /\ stage[p] \in {"leaf", "close"} => Document(p) = LeafOf(job[p].input, leaf[p])
         /\ stage[p] = "header" => Document(p) = HeaderDoc(job[p].input)
         /\ stage[p] = "manifest" =>
              Document(p) = Manifest(job[p].execution, inputRef[p], last[p], refs[p])
<1>1. /\ job[p].execution \in Execution /\ job[p].input \in Input
      /\ stage[p] \in {"input", "leaf", "close", "header", "manifest"}
      /\ leaf[p] \in 1 .. Leaves
  BY Asked DEF Working, TypeOK
<1>2. /\ stage[p] = "input" => Document(p) = InputDoc(job[p].input)
      /\ stage[p] \in {"leaf", "close"} => Document(p) = LeafOf(job[p].input, leaf[p])
      /\ stage[p] = "header" => Document(p) = HeaderDoc(job[p].input)
      /\ stage[p] = "manifest" =>
           Document(p) = Manifest(job[p].execution, inputRef[p], last[p], refs[p])
  BY DEF Document
<1>3. stage[p] # "manifest" => Document(p) \in PlainDoc
  BY <1>1, <1>2 DEF PlainDoc, LeafOf
<1>4. stage[p] = "manifest" => Document(p) \in ManifestDoc
  <2> SUFFICES ASSUME stage[p] = "manifest"
               PROVE  Manifest(job[p].execution, inputRef[p], last[p], refs[p]) \in ManifestDoc
    BY <1>2
  <2>1. inputRef[p] \in PlainRef
    <3>1. inputRef[p] \in objects
      BY DEF Working, HoldsInput, Active, Ended, Has, Readable
    <3>2. QED
      BY <3>1, Documents DEF TypeOK
  <2>2. last[p] \in PlainRef
    <3>1. last[p] \in Reference /\ last[p].doc = HeaderDoc(job[p].input)
      BY DEF Working, HoldsLast, Has, Readable, TypeOK
    <3>2. QED
      BY <1>1, <3>1 DEF Reference, PlainRef, PlainDoc
  <2>3. refs[p] \in [1 .. Leaves -> PlainRef]
    BY DEF TypeOK, Working, Control
  <2>4. QED
    BY <1>1, <2>1, <2>2, <2>3 DEF Manifest, ManifestDoc
<1>5. QED
  BY <1>2, <1>3, <1>4

\* A put that returns the reference of the document, now on disk.
LEMMA ReturnMoves ==
  ASSUME TypeOK, NEW p \in Proc, Working(p), pc[p] \in {"put", "publish"},
         NEW r \in Reference, Return(p, r),
         r.doc = Document(p), r.format <= job[p].format,
         r \in objects', r \notin corrupt,
         objects \subseteq objects', objects' \subseteq Reference,
         UNCHANGED <<job, leaf, inputRef, refs, receipt, corrupt, slots, faults, damages>>
  PROVE  /\ TypeOK' /\ Working(p)' /\ StoreGrows
         /\ \A q \in Proc : q # p => Stays(q)
<1>1. /\ last' = [last EXCEPT ![p] = r]
      /\ \/ /\ stage[p] = "header" /\ stage' = [stage EXCEPT ![p] = "manifest"]
            /\ pc' = [pc EXCEPT ![p] = "put"]
         \/ stage[p] # "header" /\ stage' = stage /\ pc' = [pc EXCEPT ![p] = "bind"]
  BY DEF Return, Enter, Goto
<1>2. TypeOK'
  BY <1>1 DEF TypeOK
<1>3. StoreGrows /\ \A q \in Proc : q # p => Stays(q)
  BY <1>1 DEF TypeOK, StoreGrows, Stays
<1>4. /\ last'[p] = r
      /\ \/ stage[p] = "header" /\ stage'[p] = "manifest" /\ pc'[p] = "put"
         \/ stage[p] # "header" /\ stage'[p] = stage[p] /\ pc'[p] = "bind"
  BY <1>1 DEF TypeOK
<1>5. Control(p)'
  BY <1>4 DEF Working, Control
<1>6. HoldsInput(p)' /\ HoldsLeaves(p)'
  BY <1>4 DEF Working, HoldsInput, HoldsLeaves, Has, Readable, Active, Ended, Slot
<1>7. HoldsLast(p)'
  <2>1. Has(p, r)'
    BY DEF Has, Readable
  <2>2. CASE stage[p] = "header"
    <3>1. pc'[p] = "put" /\ stage'[p] = "manifest" /\ r.doc = HeaderDoc(job[p].input)
      BY <2>2, <1>4, DocumentTyped
    <3>2. QED
      BY <3>1, <2>1, <1>4 DEF HoldsLast
  <2>3. CASE stage[p] \in {"input", "leaf", "close"}
    <3>1. pc'[p] = "bind" /\ stage'[p] = stage[p] /\ Document(p)' = Document(p)
      BY <2>3, <1>4 DEF Document
    <3>2. QED
      BY <3>1, <2>1, <2>3, <1>4 DEF HoldsLast
  <2>4. CASE stage[p] = "manifest"
    <3>1. /\ pc'[p] = "bind" /\ stage'[p] = "manifest"
          /\ r.doc = Manifest(job[p].execution, inputRef[p], last[p], refs[p])
      BY <2>4, <1>4, DocumentTyped
    <3>2. r.doc.header = last[p]
      BY <3>1 DEF Manifest
    <3>3. last[p].doc = HeaderDoc(job[p].input) /\ Has(p, last[p])
      BY <2>4 DEF Working, HoldsLast
    <3>4. QED
      BY <3>1, <3>2, <3>3, <2>1, <1>4 DEF HoldsLast, Has, Readable
  <2>5. QED
    BY <2>2, <2>3, <2>4 DEF TypeOK
<1>8. PublishesClean(p)' /\ ReceiptBound(p)'
  BY <1>4 DEF PublishesClean, ReceiptBound
<1>9. QED
  BY <1>2, <1>3, <1>5, <1>6, <1>7, <1>8 DEF Working

\* An object that is there is taken for the document.
LEMMA ReuseMoves ==
  ASSUME TypeOK, NEW p \in Proc, Reuse(p), Working(p)
  PROVE  /\ TypeOK' /\ Working(p)' /\ StoreGrows
         /\ \A q \in Proc : q # p => Stays(q)
<1> DEFINE r == Ref(Document(p), Min(Stored(p)))
<1>1. /\ pc[p] = "put" /\ Readable(r, job[p].format) /\ Return(p, r)
      /\ UNCHANGED <<job, leaf, inputRef, refs, receipt, store, faults, damages>>
  BY DEF Reuse
<1>2. r.doc = Document(p)
  BY Documents
<1> HIDE DEF r
<1>3. /\ r \in Reference /\ r \in objects /\ r \notin corrupt /\ r.format <= job[p].format
      /\ objects \subseteq Reference /\ UNCHANGED <<objects, corrupt, slots>>
  BY <1>1 DEF Readable, TypeOK, store
<1>4. QED
  BY <1>1, <1>2, <1>3, ReturnMoves

\* A document that no format holds will be published: it has no harmed object.
LEMMA NotStoredMoves ==
  ASSUME TypeOK, NEW p \in Proc, NotStored(p), Working(p)
  PROVE  /\ TypeOK' /\ Working(p)' /\ StoreGrows
         /\ \A q \in Proc : q # p => Stays(q)
<1>1. /\ pc[p] = "put" /\ Stored(p) = {} /\ Goto(p, "publish")
      /\ UNCHANGED <<job, local, receipt, store, faults, damages>>
  BY DEF NotStored
<1>2. TypeOK'
  BY <1>1 DEF TypeOK, Goto, local, store
<1>3. StoreGrows /\ \A q \in Proc : q # p => Stays(q)
  BY <1>1 DEF TypeOK, Goto, local, store, StoreGrows, Stays
<1>4. pc'[p] = "publish"
  BY <1>1 DEF TypeOK, Goto
<1>5. Control(p)'
  BY <1>1, <1>4 DEF Working, Control, local
<1>6. HoldsInput(p)' /\ HoldsLeaves(p)'
  BY <1>1, <1>4 DEF Working, HoldsInput, HoldsLeaves, Has, Readable, Active, Ended, Slot,
    local, store
<1>7. HoldsLast(p)' /\ ReceiptBound(p)'
  BY <1>1, <1>4 DEF Working, HoldsLast, ReceiptBound, Has, Readable, local, store
<1>8. PublishesClean(p)'
  <2>1. job[p].format \in 1 .. job[p].format
    BY <1>1, Asked DEF Working
  <2>2. Ref(Document(p), job[p].format) \notin objects
    BY <1>1, <2>1 DEF Stored
  <2>3. Document(p)' = Document(p)
    BY <1>1 DEF Document, local
  <2>4. QED
    BY <1>1, <2>2, <2>3 DEF PublishesClean, TypeOK, store
<1>9. QED
  BY <1>2, <1>3, <1>5, <1>6, <1>7, <1>8 DEF Working

\* The hard link puts the object on disk, or finds it there.
LEMMA PublishMoves ==
  ASSUME TypeOK, NEW p \in Proc, Publish(p), Working(p)
  PROVE  /\ TypeOK' /\ Working(p)' /\ StoreGrows
         /\ \A q \in Proc : q # p => Stays(q)
<1> DEFINE r == Ref(Document(p), job[p].format)
<1>1. /\ pc[p] = "publish" /\ objects' = objects \cup {r} /\ Return(p, r)
      /\ UNCHANGED <<job, leaf, inputRef, refs, receipt, corrupt, slots, faults, damages>>
  BY DEF Publish
<1>2. job[p].format \in Formats /\ job[p].format \in Nat
  BY <1>1, Asked DEF Working
<1>3. r \in Reference
  BY <1>1, <1>2, DocumentTyped DEF Reference, Ref
<1>4. r.doc = Document(p) /\ r.format = job[p].format /\ r \notin corrupt
  BY <1>1, Documents DEF Working, PublishesClean
<1> HIDE DEF r
<1>5. /\ r.format <= job[p].format /\ r \in objects' /\ objects \subseteq objects'
      /\ objects' \subseteq Reference
  BY <1>1, <1>2, <1>3, <1>4 DEF TypeOK
<1>6. QED
  BY <1>1, <1>3, <1>4, <1>5, ReturnMoves

\* What is bound, and where.
LEMMA Bound ==
  ASSUME TypeOK, NEW p \in Proc, Bind(p), Working(p)
  PROVE  /\ pc[p] = "bind" /\ job[p] \in Job /\ Pointer(p) \in Key
         /\ stage[p] \in {"input", "leaf", "close", "manifest"}
         /\ last[p] \in objects \ corrupt /\ last[p].format <= job[p].format
         /\ last[p] \in Reference /\ last[p] # None
         /\ slots[Pointer(p)] \in {None, last[p]}
         /\ slots' = [slots EXCEPT ![Pointer(p)] = last[p]]
         /\ \A k \in Key : slots'[k] = IF k = Pointer(p) THEN last[p] ELSE slots[k]
         /\ stage[p] = "input" =>
              /\ Pointer(p) = SlotOf(job[p].execution, "INPUT", 0)
              /\ last[p].doc = InputDoc(job[p].input)
         /\ stage[p] \in {"leaf", "close"} =>
              /\ Pointer(p) = SlotOf(job[p].execution, "LEAF", leaf[p])
              /\ last[p].doc = LeafOf(job[p].input, leaf[p])
         /\ stage[p] = "manifest" =>
              /\ Pointer(p) = SlotOf(job[p].execution, "COMPLETE", 0)
              /\ last[p].doc = Manifest(job[p].execution, inputRef[p],
                                        last[p].doc.header, refs[p])
              /\ last[p].doc.header.doc = HeaderDoc(job[p].input)
              /\ Has(p, last[p].doc.header)
         /\ UNCHANGED <<job, last, objects, corrupt, faults, damages>>
<1>1. /\ pc[p] = "bind" /\ Readable(last[p], job[p].format)
      /\ slots[Pointer(p)] \in {None, last[p]}
      /\ slots' = [slots EXCEPT ![Pointer(p)] = last[p]]
      /\ UNCHANGED <<job, last, objects, corrupt, faults, damages>>
  BY DEF Bind, Bindable
<1>2. /\ last[p] \in objects \ corrupt /\ last[p].format <= job[p].format
      /\ last[p] \in Reference /\ last[p] # None
  BY <1>1, Documents DEF Readable, TypeOK
<1>3. /\ job[p] \in Job /\ job[p].execution \in Execution
      /\ stage[p] \in {"input", "leaf", "close", "manifest"} /\ leaf[p] \in 1 .. Leaves
  BY <1>1, Asked DEF TypeOK, Working, Control
<1>4. /\ stage[p] = "input" => Pointer(p) = SlotOf(job[p].execution, "INPUT", 0)
      /\ stage[p] \in {"leaf", "close"} => Pointer(p) = SlotOf(job[p].execution, "LEAF", leaf[p])
      /\ stage[p] = "manifest" => Pointer(p) = SlotOf(job[p].execution, "COMPLETE", 0)
  BY DEF Pointer
<1>5. Pointer(p) \in Key
  BY <1>3, <1>4, Keys
<1>6. /\ stage[p] = "input" => last[p].doc = InputDoc(job[p].input)
      /\ stage[p] \in {"leaf", "close"} => last[p].doc = LeafOf(job[p].input, leaf[p])
  BY <1>1 DEF Working, HoldsLast, Document
<1>7. stage[p] = "manifest" =>
        /\ last[p].doc = Manifest(job[p].execution, inputRef[p], last[p].doc.header, refs[p])
        /\ last[p].doc.header.doc = HeaderDoc(job[p].input) /\ Has(p, last[p].doc.header)
  BY <1>1 DEF Working, HoldsLast
<1>8. \A k \in Key : slots'[k] = IF k = Pointer(p) THEN last[p] ELSE slots[k]
  BY <1>1, <1>5 DEF TypeOK
<1>9. QED
  BY <1>1, <1>2, <1>3, <1>4, <1>5, <1>6, <1>7, <1>8

\* Where a process is after it has bound.
LEMMA AfterBind ==
  ASSUME TypeOK, NEW p \in Proc, Bind(p), Working(p)
  PROVE  /\ TypeOK'
         /\ \A q \in Proc : q # p => Stays(q)
         /\ inputRef'[p] = IF stage[p] = "input" THEN last[p] ELSE inputRef[p]
         /\ refs'[p] = IF stage[p] = "close" THEN Append(refs[p], last[p]) ELSE refs[p]
         /\ receipt'[p] = IF stage[p] = "manifest" THEN last[p] ELSE receipt[p]
         /\ stage[p] = "input" => leaf'[p] = 1 /\
              \/ pc'[p] = "find_complete" /\ stage'[p] = "input"
              \/ pc'[p] = "put" /\ stage'[p] = "close"
         /\ stage[p] \in {"leaf", "close"} =>
              \/ /\ leaf[p] < Leaves /\ leaf'[p] = leaf[p] + 1 /\ stage'[p] = stage[p]
                 /\ pc'[p] = IF stage[p] = "leaf" THEN "find_leaf" ELSE "put"
              \/ /\ leaf[p] = Leaves /\ leaf'[p] = 1 /\ pc'[p] = "put"
                 /\ stage'[p] = IF stage[p] = "leaf" THEN "close" ELSE "header"
         /\ stage[p] = "manifest" =>
              pc'[p] = "answered" /\ stage'[p] = "manifest" /\ leaf'[p] = leaf[p]
<1>1. /\ inputRef' = IF stage[p] = "input" THEN [inputRef EXCEPT ![p] = last[p]] ELSE inputRef
      /\ refs' = IF stage[p] = "close" THEN [refs EXCEPT ![p] = Append(refs[p], last[p])] ELSE refs
      /\ receipt' = IF stage[p] = "manifest" THEN [receipt EXCEPT ![p] = last[p]] ELSE receipt
  BY DEF Bind
<1>2. /\ stage[p] = "input" => last[p] \in PlainRef
      /\ stage[p] = "close" => last[p] \in PlainRef
  <2>1. last[p] \in Reference /\ job[p].input \in Input /\ leaf[p] \in 1 .. Leaves
    BY Bound, Asked DEF Working, TypeOK
  <2>2. stage[p] \in {"input", "close"} => last[p].doc \in PlainDoc
    BY <2>1, Bound DEF PlainDoc, LeafOf
  <2>3. QED
    BY <2>1, <2>2 DEF Reference, PlainRef
<1>3. /\ inputRef' \in [Proc -> PlainRef \cup {None}] /\ refs' \in [Proc -> Seq(PlainRef)]
      /\ receipt' \in [Proc -> Reference \cup {None}]
      /\ inputRef'[p] = IF stage[p] = "input" THEN last[p] ELSE inputRef[p]
      /\ refs'[p] = IF stage[p] = "close" THEN Append(refs[p], last[p]) ELSE refs[p]
      /\ receipt'[p] = IF stage[p] = "manifest" THEN last[p] ELSE receipt[p]
      /\ \A q \in Proc : q # p => /\ inputRef'[q] = inputRef[q] /\ refs'[q] = refs[q]
                                  /\ receipt'[q] = receipt[q]
  BY <1>1, <1>2, Bound DEF TypeOK
<1>4. /\ slots' \in [Key -> Reference \cup {None}]
      /\ damages = 0 => \A k \in Key : slots'[k] \in objects \cup {None}
  BY Bound DEF TypeOK
<1> DEFINE Place ==
      /\ pc' \in [Proc -> {"idle", "find_input", "find_complete", "find_leaf", "put",
                           "publish", "bind"} \cup Ended]
      /\ stage' \in [Proc -> {"input", "leaf", "close", "header", "manifest"}]
      /\ leaf' \in [Proc -> 1 .. Leaves]
      /\ \A q \in Proc : q # p => pc'[q] = pc[q] /\ stage'[q] = stage[q] /\ leaf'[q] = leaf[q]
      /\ stage[p] = "input" => leaf'[p] = 1 /\
           \/ pc'[p] = "find_complete" /\ stage'[p] = "input"
           \/ pc'[p] = "put" /\ stage'[p] = "close"
      /\ stage[p] \in {"leaf", "close"} =>
           \/ /\ leaf[p] < Leaves /\ leaf'[p] = leaf[p] + 1 /\ stage'[p] = stage[p]
              /\ pc'[p] = IF stage[p] = "leaf" THEN "find_leaf" ELSE "put"
           \/ /\ leaf[p] = Leaves /\ leaf'[p] = 1 /\ pc'[p] = "put"
              /\ stage'[p] = IF stage[p] = "leaf" THEN "close" ELSE "header"
      /\ stage[p] = "manifest" =>
           pc'[p] = "answered" /\ stage'[p] = "manifest" /\ leaf'[p] = leaf[p]
<1>5. Place
  <2>1. CASE stage[p] = "input" /\ job[p].operation = "run"
    <3>1. Goto(p, "find_complete") /\ UNCHANGED <<stage, leaf>>
      BY <2>1 DEF Bind
    <3>2. leaf[p] = 1
      BY <2>1 DEF Working, Control
    <3>3. QED
      BY <2>1, <3>1, <3>2 DEF Goto, TypeOK
  <2>2. CASE stage[p] = "input" /\ job[p].operation = "write"
    <3>1. Goto(p, "put") /\ stage' = [stage EXCEPT ![p] = "close"] /\ UNCHANGED leaf
      BY <2>2 DEF Bind, Enter
    <3>2. leaf[p] = 1
      BY <2>2 DEF Working, Control
    <3>3. QED
      BY <2>2, <3>1, <3>2 DEF Goto, TypeOK
  <2>3. CASE stage[p] \in {"leaf", "close"}
    <3>1. NextLeaf(p)
      BY <2>3 DEF Bind
    <3>2. QED
      BY <2>3, <3>1, NextLeafMoves
  <2>4. CASE stage[p] = "manifest"
    <3>1. Goto(p, "answered") /\ UNCHANGED <<stage, leaf>>
      BY <2>4 DEF Bind
    <3>2. QED
      BY <2>4, <3>1 DEF Goto, TypeOK, Ended
  <2>5. stage[p] = "input" => job[p].operation \in {"run", "write"}
    BY Bound DEF Working, Control
  <2>6. QED
    BY <2>1, <2>2, <2>3, <2>4, <2>5, Bound
<1>6. TypeOK'
  BY <1>3, <1>4, <1>5, Bound DEF TypeOK
<1>7. \A q \in Proc : q # p => Stays(q)
  BY <1>3, <1>5, Bound DEF Stays
<1>8. QED
  BY <1>3, <1>5, <1>6, <1>7

\* The first writer of a pointer decides; a later one finds its own reference.
LEMMA BindMoves ==
  ASSUME TypeOK, NEW p \in Proc, Bind(p), Working(p)
  PROVE  /\ TypeOK' /\ Working(p)' /\ StoreGrows
         /\ \A q \in Proc : q # p => Stays(q)
<1>1. StoreGrows
  BY Bound DEF StoreGrows, TypeOK
<1>2. /\ job[p].execution \in Execution /\ leaf[p] \in 1 .. Leaves
      /\ refs[p] \in Seq(PlainRef) /\ Leaves \in Nat
  BY Asked, Bound, CatalogAssumption DEF Working, TypeOK
<1>3. Control(p)'
  <2>1. CASE stage[p] = "input"
    BY <2>1, AfterBind, Bound DEF Working, Control
  <2>2. CASE stage[p] = "leaf"
    BY <2>2, AfterBind, Bound DEF Working, Control
  <2>3. CASE stage[p] = "close"
    <3>1. Len(refs[p]) = leaf[p] - 1 /\ refs'[p] = Append(refs[p], last[p])
      BY <2>3, AfterBind DEF Working, Control
    <3>2. Len(refs'[p]) = leaf[p]
      BY <1>2, <3>1
    <3>3. QED
      BY <1>2, <2>3, <3>2, AfterBind, Bound DEF Control
  <2>4. CASE stage[p] = "manifest"
    BY <2>4, AfterBind, Bound DEF Working, Control
  <2>5. QED
    BY <2>1, <2>2, <2>3, <2>4, Bound
<1>4. HoldsInput(p)'
  <2>1. CASE stage[p] = "input"
    BY <2>1, AfterBind, Bound, Keys, <1>2 DEF HoldsInput, Has, Readable, Slot
  <2>2. CASE stage[p] # "input"
    <3>1. /\ inputRef[p] = Slot(p, "INPUT", 0) /\ inputRef[p] \in objects \ corrupt
          /\ inputRef[p].format <= job[p].format /\ inputRef[p].doc = InputDoc(job[p].input)
      BY <2>2, Bound DEF Working, HoldsInput, Has, Readable, Active, Ended
    <3>2. inputRef[p] # None
      BY <3>1, Documents DEF TypeOK
    <3>3. inputRef'[p] = inputRef[p] /\ Slot(p, "INPUT", 0)' = inputRef[p]
      BY <2>2, <3>1, <3>2, <1>1, <1>2, Keys, AfterBind, Bound DEF StoreGrows, Slot
    <3>4. QED
      BY <3>1, <3>3, Bound DEF HoldsInput, Has, Readable
  <2>3. QED
    BY <2>1, <2>2
<1>5. HoldsLeaves(p)'
  <2>1. \A n \in 1 .. Len(refs[p]) :
          /\ refs[p][n] = slots'[SlotOf(job[p].execution, "LEAF", n)]
          /\ refs[p][n].doc = LeafOf(job[p].input, n)
          /\ refs[p][n] \in objects \ corrupt /\ refs[p][n].format <= job[p].format
    <3> SUFFICES ASSUME NEW n \in 1 .. Len(refs[p])
                 PROVE  /\ refs[p][n] = slots'[SlotOf(job[p].execution, "LEAF", n)]
                        /\ refs[p][n].doc = LeafOf(job[p].input, n)
                        /\ refs[p][n] \in objects \ corrupt
                        /\ refs[p][n].format <= job[p].format
      OBVIOUS
    <3>1. /\ refs[p][n] = Slot(p, "LEAF", n) /\ refs[p][n] \in objects \ corrupt
          /\ refs[p][n].format <= job[p].format
          /\ refs[p][n].doc = LeafOf(job[p].input, n)
      BY Bound DEF Working, HoldsLeaves, Has, Readable, Active, Ended
    <3>2. refs[p][n] # None
      BY <3>1, Documents DEF TypeOK
    <3>3. Len(refs[p]) \in 0 .. Leaves
      BY <1>2 DEF Working, Control, TypeOK
    <3>4. SlotOf(job[p].execution, "LEAF", n) \in Key
      BY <1>2, <3>3, Keys
    <3>5. QED
      BY <3>1, <3>2, <3>4, <1>1 DEF StoreGrows, Slot
  <2>2. CASE stage[p] # "close"
    BY <2>1, <2>2, AfterBind, Bound DEF HoldsLeaves, Has, Readable, Slot
  <2>3. CASE stage[p] = "close"
    <3>1. Len(refs[p]) = leaf[p] - 1 /\ refs'[p] = Append(refs[p], last[p])
      BY <2>3, AfterBind DEF Working, Control
    <3>2. /\ \A n \in 1 .. Len(refs'[p]) : n \in 1 .. Len(refs[p]) \/ n = leaf[p]
          /\ \A n \in 1 .. Len(refs[p]) : refs'[p][n] = refs[p][n]
          /\ refs'[p][leaf[p]] = last[p]
      BY <1>2, <3>1
    <3>3. /\ last[p] = slots'[SlotOf(job[p].execution, "LEAF", leaf[p])]
          /\ last[p].doc = LeafOf(job[p].input, leaf[p])
          /\ last[p] \in objects \ corrupt /\ last[p].format <= job[p].format
      BY <2>3, Bound
    <3>4. QED
      BY <2>1, <3>2, <3>3, Bound DEF HoldsLeaves, Has, Readable, Slot
  <2>4. QED
    BY <2>2, <2>3
<1>6. HoldsLast(p)' /\ PublishesClean(p)'
  BY AfterBind, Bound DEF HoldsLast, PublishesClean
<1>7. ReceiptBound(p)'
  BY AfterBind, Bound, <1>2, Keys DEF ReceiptBound, Slot
<1>8. QED
  BY <1>1, <1>3, <1>4, <1>5, <1>6, <1>7, AfterBind DEF Working

-----------------------------------------------------------------------------
(* Every step of a process, and what the store holds after it.              *)

LEMMA StepMoves ==
  ASSUME TypeOK, NEW p \in Proc, Step(p) \/ Crash(p), Working(p)
  PROVE  /\ TypeOK' /\ Working(p)' /\ StoreGrows
         /\ \A q \in Proc : q # p => Stays(q)
<1>1. CASE Crash(p)
  <2>1. Ends(p) /\ faults' \in 0 .. MaxFaults
    BY <1>1, CatalogAssumption DEF Crash, Ends, TypeOK
  <2>2. QED
    BY <2>1, EndsMoves
<1>2. CASE InputRefused(p) \/ LoadRefused(p) \/ LeafRefused(p) \/ PutConflict(p) \/ BindConflict(p)
  <2>1. Ends(p) /\ faults' \in 0 .. MaxFaults
    BY <1>2 DEF InputRefused, LoadRefused, LeafRefused, PutConflict, BindConflict, Ends,
      TypeOK, Active, Ended
  <2>2. QED
    BY <2>1, EndsMoves
<1>3. QED
  BY <1>1, <1>2, StartMoves, FindInputMoves, LoadMoves, ResumeMoves, VerifyLeafMoves,
    ExecuteLeafMoves, ReuseMoves, NotStoredMoves, PublishMoves, BindMoves DEF Step

\* Pointers are written by binding only.
LEMMA OnlyBindWrites ==
  ASSUME NEW p \in Proc, Step(p) \/ Crash(p), ~Bind(p)
  PROVE  slots' = slots
  BY DEF Step, Crash, Start, FindInput, InputRefused, Load, LoadRefused, Resume, VerifyLeaf,
    LeafRefused, ExecuteLeaf, Reuse, PutConflict, NotStored, Publish, BindConflict, store

\* A process binds for an execution whose input is bound and its own, or binds
\* the input.
LEMMA BindsToItsInput ==
  ASSUME TypeOK, NEW p \in Proc, Bind(p), Working(p), stage[p] # "input"
  PROVE  /\ Slot(p, "INPUT", 0) # None
         /\ Slot(p, "INPUT", 0).doc = InputDoc(job[p].input)
<1>1. /\ inputRef[p] = Slot(p, "INPUT", 0) /\ inputRef[p].doc = InputDoc(job[p].input)
      /\ inputRef[p] \in objects
  BY Bound DEF Working, HoldsInput, Has, Readable, Active, Ended
<1>2. QED
  BY <1>1, Documents DEF TypeOK

\* The input that was bound first governs what is bound after it.
LEMMA StepSealed ==
  ASSUME TypeOK, SealedInputGoverns, NEW p \in Proc, Step(p) \/ Crash(p), Working(p)
  PROVE  SealedInputGoverns'
<1>1. CASE ~Bind(p)
  <2>1. slots' = slots /\ damages' = damages
    BY <1>1, OnlyBindWrites, StepMoves DEF StoreGrows
  <2>2. QED
    BY <2>1 DEF SealedInputGoverns
<1>2. CASE Bind(p)
  <2> SUFFICES ASSUME damages = 0, NEW x \in Execution, NEW i \in Input
               PROVE  LET bound == slots'[SlotOf(x, "INPUT", 0)] IN
                      /\ bound = None => \A k \in Key : k.execution = x => slots'[k] = None
                      /\ bound # None /\ bound.doc = InputDoc(i) =>
                           \A n \in 1 .. Leaves :
                             LET r == slots'[SlotOf(x, "LEAF", n)] IN
                             r # None => r.doc = LeafOf(i, n)
    BY <1>2, Bound DEF SealedInputGoverns
  <2> DEFINE bound == slots[SlotOf(x, "INPUT", 0)]
  <2> DEFINE after == slots'[SlotOf(x, "INPUT", 0)]
  <2>1. /\ bound = None => \A k \in Key : k.execution = x => slots[k] = None
        /\ bound # None /\ bound.doc = InputDoc(i) =>
             \A n \in 1 .. Leaves : slots[SlotOf(x, "LEAF", n)] # None =>
                                      slots[SlotOf(x, "LEAF", n)].doc = LeafOf(i, n)
    BY DEF SealedInputGoverns
  <2>2. \A y, kind, n : SlotOf(y, kind, n).execution = y
    BY DEF SlotOf
  <2>3. Pointer(p).execution = job[p].execution /\ job[p].execution \in Execution
    BY <1>2, Bound, Asked DEF Pointer, SlotOf, Working
  <2>4. CASE job[p].execution # x
    <3>1. \A k \in Key : k.execution = x => slots'[k] = slots[k]
      BY <1>2, <2>3, <2>4, Bound
    <3>2. QED
      BY <3>1, <2>1, <2>2, Keys
  <2>5. CASE job[p].execution = x /\ stage[p] = "input"
    <3>1. after = last[p] /\ last[p] # None
      BY <1>2, <2>5, Bound, Keys
    <3>2. \A n \in 1 .. Leaves : slots'[SlotOf(x, "LEAF", n)] = slots[SlotOf(x, "LEAF", n)]
      BY <1>2, <2>5, Bound, Keys, CatalogAssumption
    <3>3. bound \in {None, last[p]}
      BY <1>2, <2>5, Bound
    <3>4. QED
      BY <3>1, <3>2, <3>3, <2>1, <2>2, Keys
  <2>6. CASE job[p].execution = x /\ stage[p] # "input"
    <3>1. bound # None /\ bound.doc = InputDoc(job[p].input) /\ after = bound
      BY <1>2, <2>6, BindsToItsInput, StepMoves, Keys DEF Slot, StoreGrows
    <3>2. ASSUME bound.doc = InputDoc(i), NEW n \in 1 .. Leaves,
                 slots'[SlotOf(x, "LEAF", n)] # None
          PROVE  slots'[SlotOf(x, "LEAF", n)].doc = LeafOf(i, n)
      <4>1. i = job[p].input
        <5>1. job[p].input \in Input
          BY <1>2, Bound, Asked DEF Working
        <5>2. QED
          BY ZenonT(60), <3>1, <3>2, <5>1, Documents
      <4>2. CASE Pointer(p) = SlotOf(x, "LEAF", n)
        <5>1. stage[p] \in {"leaf", "close"} /\ leaf[p] = n
          BY <1>2, <2>6, <4>2, Bound, Keys, SlotsDiffer
        <5>2. QED
          BY <1>2, <4>1, <4>2, <5>1, Bound, Keys
      <4>3. CASE Pointer(p) # SlotOf(x, "LEAF", n)
        BY <1>2, <2>1, <3>1, <3>2, <4>3, Bound, Keys
      <4>4. QED
        BY <4>2, <4>3
    <3>3. QED
      BY <3>1, <3>2
  <2>7. QED
    BY <2>4, <2>5, <2>6
<1>3. QED
  BY <1>1, <1>2

\* A whole execution stays whole while the store grows.
LEMMA WholeStays ==
  ASSUME TypeOK, StoreGrows, NEW x \in Execution, NEW i \in Input,
         slots[SlotOf(x, "COMPLETE", 0)] # None,
         Whole(x, i, slots[SlotOf(x, "COMPLETE", 0)])
  PROVE  Whole(x, i, slots[SlotOf(x, "COMPLETE", 0)])'
<1> DEFINE m == slots[SlotOf(x, "COMPLETE", 0)]
<1>1. slots'[SlotOf(x, "COMPLETE", 0)] = m
  BY Keys DEF StoreGrows
<1>2. slots'[SlotOf(x, "INPUT", 0)] = slots[SlotOf(x, "INPUT", 0)]
  <2>1. slots[SlotOf(x, "INPUT", 0)] \in objects
    BY DEF Whole
  <2>2. QED
    BY <2>1, Keys, Documents DEF StoreGrows, TypeOK
<1>3. \A n \in 1 .. Leaves : slots'[SlotOf(x, "LEAF", n)] = slots[SlotOf(x, "LEAF", n)]
  <2>1. \A n \in 1 .. Leaves : slots[SlotOf(x, "LEAF", n)] \in objects
    BY DEF Whole
  <2>2. QED
    BY <2>1, Keys, Documents DEF StoreGrows, TypeOK
<1>4. QED
  BY <1>1, <1>2, <1>3 DEF Whole, StoreGrows

\* A process that binds its manifest has bound a whole execution.
LEMMA BindsWhole ==
  ASSUME TypeOK, NEW p \in Proc, Bind(p), Working(p), stage[p] = "manifest"
  PROVE  /\ Whole(job[p].execution, job[p].input, last[p])'
         /\ slots'[SlotOf(job[p].execution, "COMPLETE", 0)] = last[p]
<1>1. /\ job[p].execution \in Execution /\ job[p].input \in Input
      /\ pc[p] = "bind" /\ Pointer(p) = SlotOf(job[p].execution, "COMPLETE", 0)
      /\ last[p].doc = Manifest(job[p].execution, inputRef[p], last[p].doc.header, refs[p])
      /\ last[p].doc.header.doc = HeaderDoc(job[p].input)
      /\ last[p].doc.header \in objects \ corrupt
      /\ last[p] \in objects \ corrupt
      /\ slots'[Pointer(p)] = last[p] /\ UNCHANGED <<job, last, objects, corrupt>>
  BY Bound, Asked DEF Has, Readable, Working
<1>2. /\ last[p].doc.execution = job[p].execution /\ last[p].doc.input = inputRef[p]
      /\ last[p].doc.leaves = refs[p]
  BY <1>1 DEF Manifest
<1>3. /\ inputRef[p] = slots'[SlotOf(job[p].execution, "INPUT", 0)]
      /\ inputRef[p].doc = InputDoc(job[p].input) /\ inputRef[p] \in objects \ corrupt
  <2>1. /\ inputRef[p] = Slot(p, "INPUT", 0)
        /\ inputRef[p].doc = InputDoc(job[p].input) /\ inputRef[p] \in objects \ corrupt
    BY <1>1 DEF Working, HoldsInput, Has, Readable, Active, Ended
  <2>2. QED
    BY <1>1, <2>1, Keys, Bound DEF Slot
<1>4. DOMAIN refs[p] = 1 .. Leaves /\ Len(refs[p]) = Leaves
  BY <1>1 DEF Working, Control, TypeOK
<1>5. \A n \in 1 .. Leaves :
        /\ refs[p][n] = slots'[SlotOf(job[p].execution, "LEAF", n)]
        /\ refs[p][n].doc = LeafOf(job[p].input, n) /\ refs[p][n] \in objects \ corrupt
  <2>1. \A n \in 1 .. Leaves :
        /\ refs[p][n] = Slot(p, "LEAF", n)
        /\ refs[p][n].doc = LeafOf(job[p].input, n) /\ refs[p][n] \in objects \ corrupt
    BY <1>1, <1>4 DEF Working, HoldsLeaves, Has, Readable, Active, Ended
  <2>2. QED
    BY <1>1, <2>1, Keys, Bound, CatalogAssumption DEF Slot
<1>6. QED
  BY <1>1, <1>2, <1>3, <1>4, <1>5 DEF Whole

\* A bound manifest stays that of a whole execution, and a new one is.
LEMMA StepComplete ==
  ASSUME TypeOK, CompleteIsWhole, NEW p \in Proc, Step(p) \/ Crash(p), Working(p)
  PROVE  CompleteIsWhole'
<1> SUFFICES ASSUME NEW x \in Execution, slots'[SlotOf(x, "COMPLETE", 0)] # None
             PROVE  /\ slots'[SlotOf(x, "COMPLETE", 0)].doc.kind = "manifest"
                    /\ damages = 0 =>
                         \E i \in Input : Whole(x, i, slots[SlotOf(x, "COMPLETE", 0)])'
  BY StepMoves DEF CompleteIsWhole, StoreGrows
<1>1. CASE slots[SlotOf(x, "COMPLETE", 0)] # None
  <2>1. slots'[SlotOf(x, "COMPLETE", 0)] = slots[SlotOf(x, "COMPLETE", 0)]
    BY <1>1, StepMoves, Keys DEF StoreGrows
  <2>2. QED
    BY <1>1, <2>1, StepMoves, WholeStays DEF CompleteIsWhole
<1>2. CASE slots[SlotOf(x, "COMPLETE", 0)] = None
  <2>1. Bind(p)
    BY <1>2, OnlyBindWrites
  <2>2. Pointer(p) = SlotOf(x, "COMPLETE", 0)
    BY <1>2, <2>1, Bound, Keys
  <2>3. job[p].execution = x /\ stage[p] = "manifest" /\ job[p].input \in Input
    <3>1. job[p].execution \in Execution /\ job[p].input \in Input /\ leaf[p] \in 1 .. Leaves
      BY <2>1, Bound, Asked DEF Working, TypeOK
    <3>2. QED
      BY <2>1, <2>2, <3>1, Bound, Keys, SlotsDiffer
  <2>4. Whole(x, job[p].input, slots[SlotOf(x, "COMPLETE", 0)])'
    <3>1. /\ job'[p] = job[p] /\ last'[p] = last[p]
          /\ slots'[SlotOf(x, "COMPLETE", 0)] = last[p]
      BY <2>1, <2>3, BindsWhole, Bound
    <3>2. QED
      BY <2>1, <2>3, <3>1, BindsWhole DEF Whole
  <2>5. job'[p].input = job[p].input
    BY <2>1, Bound
  <2>6. slots'[SlotOf(x, "COMPLETE", 0)].doc.kind = "manifest"
    <3>1. /\ slots'[SlotOf(x, "COMPLETE", 0)] = last[p]
          /\ last[p].doc = Manifest(x, inputRef[p], last[p].doc.header, refs[p])
      BY <2>1, <2>3, BindsWhole, Bound
    <3>2. QED
      BY <3>1 DEF Manifest
  <2>7. QED
    BY <2>3, <2>4, <2>5, <2>6
<1>3. QED
  BY <1>1, <1>2

\* The formats: whoever is at work has the newest, so what it publishes, or finds,
\* is the only object of its document.
LEMMA StepFormats ==
  ASSUME TypeOK, FormatsForward, NEW p \in Proc, Step(p) \/ Crash(p),
         \A q \in Proc : Working(q), ~Mixed
  PROVE  FormatsForward'
<1>1. /\ TypeOK' /\ \A q \in Proc : q # p => Stays(q)
      /\ \A q \in Proc : Working(q)'
  BY StepMoves, OthersKeep
<1>2. \A q \in Proc : pc[q] # "idle" => job[q].format \in Nat
  BY Asked DEF Working
<1>3. CASE Start(p)
  <2>1. PICK j \in Job : /\ Admissible(j.format) /\ job' = [job EXCEPT ![p] = j]
                         /\ Goto(p, IF j.operation \in {"run", "write"}
                                    THEN "put" ELSE "find_input")
    BY <1>3 DEF Start
  <2>2. /\ job'[p] = j /\ pc'[p] \in {"put", "find_input"} /\ pc[p] = "idle"
        /\ objects' = objects
    BY <1>3, <2>1 DEF Start, Goto, TypeOK, store
  <2>3. j.format \in Nat
    <3>1. \A f \in Formats : f \in Nat
      BY CatalogAssumption
    <3>2. QED
      BY <3>1 DEF Job
  <2>4. \A q \in Proc : pc[q] # "idle" =>
          job[q].format <= j.format /\ (Active(q) => job[q].format = j.format)
    BY <1>2, <2>1, <2>3 DEF Admissible
  <2>5. \A q, s \in Proc : Active(q)' /\ pc'[s] # "idle" => job'[s].format <= job'[q].format
    BY <1>1, <2>2, <2>3, <2>4 DEF Stays, Active, Ended
  <2>6. \A r \in objects' : \E q \in Proc : pc'[q] # "idle" /\ r.format = job'[q].format
    BY <1>1, <2>2 DEF Stays, FormatsForward
  <2>7. \A q \in Proc : pc'[q] = "publish" =>
          \A r \in objects' : r.doc = Document(q)' => r.format = job'[q].format
    BY <1>1, <2>2 DEF Stays, FormatsForward, Document, Manifest
  <2>8. QED
    BY <2>2, <2>5, <2>6, <2>7 DEF FormatsForward
<1>4. CASE ~Start(p)
  <2>1. /\ pc[p] # "idle" /\ Active(p) /\ job'[p] = job[p]
        /\ pc'[p] # "idle" /\ (Active(p)' => Active(p))
    BY <1>4 DEF Step, Crash, FindInput, InputRefused, Load, LoadRefused, Resume, VerifyLeaf,
      LeafRefused, ExecuteLeaf, Reuse, PutConflict, NotStored, Publish, Bind, BindConflict,
      Active, Ended, Goto, Enter, NextLeaf, Return, TypeOK
  <2>2. \A q, s \in Proc : Active(q)' /\ pc'[s] # "idle" => job'[s].format <= job'[q].format
    BY <1>1, <2>1 DEF FormatsForward, Stays, Active
  <2>3. CASE ~Publish(p) /\ ~NotStored(p)
    <3>1. objects' = objects /\ pc'[p] # "publish"
      BY <1>4, <2>3 DEF Step, Crash, FindInput, InputRefused, Load, LoadRefused, Resume,
        VerifyLeaf, LeafRefused, ExecuteLeaf, Reuse, PutConflict, Bind, BindConflict, Goto,
        Enter, NextLeaf, Return, TypeOK, store
    <3>2. QED
      BY <1>1, <2>1, <2>2, <3>1 DEF FormatsForward, Stays, Document, Manifest
  <2>4. CASE NotStored(p)
    <3>1. /\ objects' = objects /\ pc[p] = "put" /\ Stored(p) = {} /\ Document(p)' = Document(p)
      BY <2>4 DEF NotStored, store, local, Document
    <3>2. \A r \in objects : r.format \in 1 .. job[p].format /\ r \in Reference
      <4>1. \A r \in objects : r.format \in Formats
        BY DEF TypeOK, Reference
      <4>2. \A r \in objects : r.format <= job[p].format
        BY <2>1 DEF FormatsForward
      <4>3. \A f \in Formats : f \in Nat /\ f >= 1
        BY CatalogAssumption
      <4>4. QED
        BY <1>2, <2>1, <4>1, <4>2, <4>3 DEF TypeOK
    <3>3. \A r \in objects : r.doc # Document(p)
      BY <3>1, <3>2, Documents DEF Stored
    <3>4. QED
      BY <1>1, <2>1, <2>2, <3>1, <3>3 DEF FormatsForward, Stays, Document, Manifest
  <2>5. CASE Publish(p)
    <3> DEFINE new == Ref(Document(p), job[p].format)
    <3>1. /\ objects' = objects \cup {new} /\ pc[p] = "publish" /\ pc'[p] # "publish"
          /\ new.doc = Document(p) /\ new.format = job[p].format
      BY <2>5, Documents DEF Publish, Return, Enter, Goto, TypeOK
    <3> HIDE DEF new
    <3>2. \A r \in objects : r.doc = new.doc => r = new
      <4> SUFFICES ASSUME NEW r \in objects, r.doc = new.doc PROVE r = new
        OBVIOUS
      <4>1. r.format = job[p].format /\ r = Ref(r.doc, r.format)
        BY <3>1, Documents DEF FormatsForward, TypeOK
      <4>2. QED
        BY <3>1, <4>1 DEF new
    <3>3. \A r, s \in objects' : r.doc = s.doc => r = s
      BY <3>1, <3>2 DEF FormatsForward
    <3>4. \A r \in objects' : \E q \in Proc : pc'[q] # "idle" /\ r.format = job'[q].format
      BY <1>1, <2>1, <3>1 DEF FormatsForward, Stays
    <3>5. \A q \in Proc : pc'[q] = "publish" =>
            \A r \in objects' : r.doc = Document(q)' => r.format = job'[q].format
      <4> SUFFICES ASSUME NEW q \in Proc, pc'[q] = "publish", NEW r \in objects',
                          r.doc = Document(q)'
                   PROVE  r.format = job'[q].format
        OBVIOUS
      <4>1. q # p /\ Stays(q) /\ pc[q] = "publish" /\ Document(q)' = Document(q)
        BY <1>1, <3>1 DEF Stays, Document, Manifest
      <4>2. job[q].format = job[p].format
        <5>1. Active(q) /\ Active(p)
          BY <2>1, <4>1 DEF Active, Ended
        <5>2. QED
          BY <1>2, <2>1, <5>1, <4>1 DEF FormatsForward, Active
      <4>3. QED
        BY <3>1, <4>1, <4>2 DEF FormatsForward, Stays
    <3>6. QED
      BY <2>2, <3>3, <3>4, <3>5 DEF FormatsForward
  <2>6. QED
    BY <2>3, <2>4, <2>5
<1>5. QED
  BY <1>3, <1>4

\* A file is lost or overwritten while nobody is at work: nothing anybody holds is
\* touched, and nothing is promised of the store from then on.
LEMMA DamageKeeps ==
  ASSUME IInv, Damage
  PROVE  IInv'
<1>1. /\ damages < MaxDamage /\ \A p \in Proc : ~Active(p)
      /\ damages' = damages + 1 /\ UNCHANGED <<pc, job, local, receipt, faults>>
      /\ objects' \subseteq objects /\ corrupt' \subseteq objects'
      /\ slots' \in [Key -> Reference \cup {None}]
      /\ \A k \in Key : slots'[k] \in {slots[k], None}
  BY DEF Damage, IInv, TypeOK
<1>2. damages' \in 1 .. MaxDamage
  BY <1>1, CatalogAssumption DEF IInv, TypeOK
<1>3. TypeOK'
  BY <1>1, <1>2 DEF IInv, TypeOK, local
<1>4. SealedInputGoverns' /\ CompleteIsWhole'
  BY <1>1, <1>2, Keys DEF IInv, SealedInputGoverns, CompleteIsWhole
<1>5. \A p \in Proc : Working(p)'
  BY <1>1, <1>2 DEF IInv, Working, Control, HoldsInput, HoldsLeaves, HoldsLast, PublishesClean,
    ReceiptBound, Active, Ended, local
<1>6. FormatsForward'
  BY <1>1 DEF IInv, FormatsForward, Active, Ended, local
<1>7. QED
  BY <1>3, <1>4, <1>5, <1>6 DEF IInv

LEMMA InitInv == Init => IInv
<1> SUFFICES ASSUME Init PROVE IInv
  OBVIOUS
<1>1. TypeOK
  BY CatalogAssumption DEF Init, TypeOK, Ended
<1>2. SealedInputGoverns
  <2>1. \A k \in Key : slots[k] = None
    BY DEF Init
  <2>2. QED
    BY <2>1, Keys DEF SealedInputGoverns
<1>3. \A p \in Proc : Working(p)
  BY DEF Init, Working, Control, HoldsInput, HoldsLeaves, HoldsLast, PublishesClean,
    ReceiptBound, Active
<1>4. CompleteIsWhole
  BY Keys DEF Init, CompleteIsWhole
<1>5. FormatsForward
  BY DEF Init, FormatsForward, Active
<1>6. QED
  BY <1>1, <1>2, <1>3, <1>4, <1>5 DEF IInv

LEMMA NextInv == IInv /\ [Next]_vars => IInv'
<1> SUFFICES ASSUME IInv, [Next]_vars PROVE IInv'
  OBVIOUS
<1>1. CASE Damage
  BY <1>1, DamageKeeps
<1>2. ASSUME NEW p \in Proc, Step(p) \/ Crash(p)
      PROVE  IInv'
  <2>1. TypeOK' /\ \A q \in Proc : Working(q)'
    BY <1>2, StepMoves, OthersKeep DEF IInv
  <2>2. SealedInputGoverns' /\ CompleteIsWhole'
    BY <1>2, StepSealed, StepComplete DEF IInv
  <2>3. FormatsForward'
    BY <1>2, StepFormats DEF IInv, FormatsForward
  <2>4. QED
    BY <2>1, <2>2, <2>3 DEF IInv
<1>3. CASE UNCHANGED vars
  BY SMTT(60), <1>3 DEF vars, store, local, IInv, TypeOK, Working, Control, HoldsInput, HoldsLeaves,
    HoldsLast, PublishesClean, ReceiptBound, SealedInputGoverns, CompleteIsWhole, Whole,
    FormatsForward, Active, Slot, Has, Readable, Document, Manifest
<1>4. QED
  BY <1>1, <1>2, <1>3 DEF Next

-----------------------------------------------------------------------------
(* The results.                                                             *)

\* Every reachable state satisfies the inductive invariant.
THEOREM Invariance == Spec => []IInv
<1>1. Init => IInv
  BY InitInv
<1>2. IInv /\ [Next]_vars => IInv'
  BY NextInv
<1>3. QED
  BY <1>1, <1>2, PTL DEF Spec

\* All receipts of an execution name one manifest, and the input it was sealed
\* with governs its checkpoints (durable.py _bound_input, _complete and bind of
\* the stores), whatever processes race, die or write another format.
THEOREM ExecutionsAreOne == Spec => []ExecutionIsOne
<1>1. IInv => ExecutionIsOne
  <2> SUFFICES ASSUME IInv PROVE ExecutionIsOne
    OBVIOUS
  <2>1. \A p \in Proc : ReceiptBound(p)
    BY DEF IInv, Working
  <2>2. OneManifest
    BY <2>1 DEF OneManifest, ReceiptBound, Slot
  <2>3. QED
    BY <2>2 DEF IInv, ExecutionIsOne
<1>2. QED
  BY <1>1, Invariance, PTL

\* A completed execution that is answered is whole: its manifest passed _load.
LEMMA LoadsWhole ==
  ASSUME IInv, NEW p \in Proc, Load(p)
  PROVE  Whole(job[p].execution, job[p].input, receipt[p])'
<1> DEFINE x == job[p].execution
<1> DEFINE m == Slot(p, "COMPLETE", 0)
<1>1. /\ pc[p] = "find_complete" /\ m # None /\ Loadable(p, m)
      /\ receipt' = [receipt EXCEPT ![p] = m] /\ UNCHANGED <<job, objects, corrupt, slots>>
  BY DEF Load, store
<1>2. job'[p] = job[p] /\ receipt'[p] = m /\ m \in Reference
  BY <1>1 DEF IInv, TypeOK, Loadable, Readable
<1>3. /\ inputRef[p] = slots[SlotOf(x, "INPUT", 0)] /\ inputRef[p] \in objects \ corrupt
      /\ inputRef[p].doc = InputDoc(job[p].input)
  BY <1>1 DEF IInv, Working, HoldsInput, Has, Readable, Active, Ended, Slot
<1>4. DOMAIN m.doc.leaves = 1 .. Leaves
  <2>1. m.doc.kind = "manifest"
    BY <1>1, Asked DEF IInv, Working, CompleteIsWhole, Slot
  <2>2. m.doc \in ManifestDoc
    BY <1>2, <2>1, Documents
  <2>3. QED
    BY <2>2 DEF ManifestDoc
<1>5. Whole(x, job[p].input, m)
  BY <1>1, <1>3, <1>4 DEF Whole, Loadable, LeafVerified, Readable, Slot
<1>6. QED
  BY <1>1, <1>2, <1>5 DEF Whole

\* Whoever answers does so for an execution that is completely on disk, unharmed
\* and of the input it was asked for, even after files were lost or overwritten.
THEOREM AnswersAreWhole == Spec => AnswerIsWhole
<1> DEFINE Whence == \A p \in Proc : pc[p] # "answered" /\ pc'[p] = "answered" =>
                      Whole(job[p].execution, job[p].input, receipt[p])'
<1>1. IInv /\ [Next]_vars => [Whence]_vars
  <2> SUFFICES ASSUME IInv, Next, NEW q \in Proc, pc[q] # "answered", pc'[q] = "answered"
               PROVE  Whole(job[q].execution, job[q].input, receipt[q])'
    OBVIOUS
  <2>1. ~Damage
    BY DEF Damage
  <2>2. PICK p \in Proc : Step(p) \/ Crash(p)
    BY <2>1 DEF Next
  <2>3. Working(p) /\ TypeOK
    BY DEF IInv
  <2>4. q = p
    BY <2>2, <2>3, StepMoves DEF Stays
  <2>5. CASE Load(p)
    BY <2>4, <2>5, LoadsWhole
  <2>6. CASE Bind(p)
    <3>1. stage[p] = "manifest" /\ receipt'[p] = last[p]
      BY <2>3, <2>4, <2>6, AfterBind, Bound
    <3>2. job'[p] = job[p] /\ last'[p] = last[p]
      BY <2>3, <2>6, Bound
    <3>3. QED
      BY <2>3, <2>4, <2>6, <3>1, <3>2, BindsWhole DEF Whole
  <2>7. CASE ~Load(p) /\ ~Bind(p)
    <3>1. pc'[p] # "answered"
      BY <2>2, <2>3, <2>7, <2>4 DEF Step, Crash, Start, FindInput, InputRefused, LoadRefused,
        Resume, VerifyLeaf, LeafRefused, ExecuteLeaf, Reuse, PutConflict, NotStored, Publish,
        BindConflict, Goto, Enter, NextLeaf, Return, TypeOK
    <3>2. QED
      BY <2>4, <3>1
  <2>8. QED
    BY <2>5, <2>6, <2>7
<1>2. QED
  BY <1>1, Invariance, PTL DEF Spec, AnswerIsWhole

\* A pointer to bind that holds another reference of the same document: there is
\* none, as a document is on disk in one format.
LEMMA BindsAgain ==
  ASSUME IInv, ~Mixed, damages = 0, NEW p \in Proc, Entitled(p), pc[p] = "bind"
  PROVE  Bindable(p)
<1> DEFINE x == job[p].execution
<1> DEFINE i == job[p].input
<1> DEFINE bound == slots[Pointer(p)]
<1>1. /\ Working(p) /\ TypeOK /\ x \in Execution /\ i \in Input
      /\ stage[p] \in {"input", "leaf", "close", "manifest"} /\ leaf[p] \in 1 .. Leaves
  BY Asked DEF IInv, Working, Control, TypeOK
<1>2. /\ Readable(last[p], job[p].format) /\ last[p] \in objects
  BY <1>1 DEF Working, HoldsLast, Has, Readable
<1>3. SUFFICES ASSUME bound # None PROVE bound.doc = last[p].doc /\ bound \in objects
  BY <1>2 DEF IInv, FormatsForward, Bindable
<1>4. slots[SlotOf(x, "INPUT", 0)] # None /\ slots[SlotOf(x, "INPUT", 0)].doc = InputDoc(i)
  BY DEF Entitled, Slot
<1>5. CASE stage[p] = "input"
  <2>1. Pointer(p) = SlotOf(x, "INPUT", 0) /\ last[p].doc = InputDoc(i)
    BY <1>1, <1>5 DEF Pointer, Working, HoldsLast, Document
  <2>2. QED
    BY <1>1, <1>3, <1>4, <2>1, Keys DEF TypeOK
<1>6. CASE stage[p] \in {"leaf", "close"}
  <2>1. Pointer(p) = SlotOf(x, "LEAF", leaf[p]) /\ last[p].doc = LeafOf(i, leaf[p])
    BY <1>1, <1>6 DEF Pointer, Working, HoldsLast, Document
  <2>2. bound.doc = LeafOf(i, leaf[p])
    BY <1>1, <1>3, <1>4, <2>1 DEF IInv, SealedInputGoverns
  <2>3. QED
    BY <1>1, <1>3, <2>1, <2>2, Keys DEF TypeOK
<1>7. CASE stage[p] = "manifest"
  <2>1. /\ Pointer(p) = SlotOf(x, "COMPLETE", 0)
        /\ last[p].doc = Manifest(x, inputRef[p], last[p].doc.header, refs[p])
        /\ last[p].doc.header.doc = HeaderDoc(i) /\ last[p].doc.header \in objects
    BY <1>1, <1>7 DEF Pointer, Working, HoldsLast, Has, Readable
  <2>2. PICK j \in Input : Whole(x, j, bound)
    BY <1>1, <1>3, <2>1 DEF IInv, CompleteIsWhole
  <2>3. j = i
    <3>1. InputDoc(j) = InputDoc(i)
      BY <1>4, <2>2 DEF Whole
    <3>2. QED
      BY <1>1, <3>1, Documents
  <2>4. /\ bound \in objects /\ bound.doc.execution = x
        /\ bound.doc.input = slots[SlotOf(x, "INPUT", 0)]
        /\ bound.doc.header.doc = HeaderDoc(i) /\ bound.doc.header \in objects
        /\ DOMAIN bound.doc.leaves = 1 .. Leaves
        /\ \A n \in 1 .. Leaves : bound.doc.leaves[n] = slots[SlotOf(x, "LEAF", n)]
    BY <2>2, <2>3 DEF Whole
  <2>5. bound.doc.header = last[p].doc.header
    BY <2>1, <2>4 DEF IInv, FormatsForward
  <2>6. inputRef[p] = slots[SlotOf(x, "INPUT", 0)]
    BY <1>1, <1>7 DEF Working, HoldsInput, Active, Ended, Slot
  <2>7. /\ refs[p] \in [1 .. Leaves -> PlainRef]
        /\ \A n \in 1 .. Leaves : refs[p][n] = slots[SlotOf(x, "LEAF", n)]
    BY <1>1, <1>7 DEF Working, Control, HoldsLeaves, Active, Ended, Slot, TypeOK
  <2>8. bound.doc \in ManifestDoc
    BY <1>1, <1>3, <2>1, <2>4, Documents DEF IInv, CompleteIsWhole, TypeOK
  <2>9. bound.doc.leaves = refs[p]
    <3>1. bound.doc.leaves \in [1 .. Leaves -> PlainRef]
      BY <2>8 DEF ManifestDoc
    <3>2. \A n \in 1 .. Leaves : bound.doc.leaves[n] = refs[p][n]
      BY <2>4, <2>7
    <3>3. refs[p] \in [1 .. Leaves -> PlainRef]
      BY <2>7
    <3>4. bound.doc.leaves = [n \in 1 .. Leaves |-> bound.doc.leaves[n]]
      BY <3>1
    <3>5. refs[p] = [n \in 1 .. Leaves |-> refs[p][n]]
      BY <3>3
    <3>6. QED
      BY <3>2, <3>4, <3>5, Zenon
  <2>10. bound.doc = Manifest(x, inputRef[p], last[p].doc.header, refs[p])
    BY <2>4, <2>5, <2>6, <2>8, <2>9 DEF ManifestDoc, Manifest
  <2>11. QED
    BY <2>1, <2>4, <2>10
<1>8. QED
  BY <1>1, <1>5, <1>6, <1>7

\* While formats only move forward and no file is harmed, whoever goes on with the
\* input an execution is bound to is never refused: neither by what others left
\* behind when they died nor by what they write at the same time.
THEOREM RecoveriesGoOn == ASSUME ~Mixed PROVE Spec => RecoveryNeverRefused
<1> DEFINE Allowed == \A p \in Proc :
      pc[p] # "refused" /\ pc'[p] = "refused" /\ damages = 0 => ~Entitled(p)
<1>1. IInv /\ [Next]_vars => [Allowed]_vars
  <2> SUFFICES ASSUME IInv, Next, NEW q \in Proc, pc[q] # "refused", pc'[q] = "refused",
                      damages = 0, Entitled(q)
               PROVE  FALSE
    OBVIOUS
  <2>1. ~Damage
    BY DEF Damage
  <2>2. PICK p \in Proc : Step(p) \/ Crash(p)
    BY <2>1 DEF Next
  <2>3. /\ Working(p) /\ TypeOK /\ corrupt = {}
        /\ \A k \in Key : slots[k] \in objects \cup {None}
    BY DEF IInv, TypeOK
  <2>4. q = p
    BY <2>2, <2>3, StepMoves DEF Stays
  <2>5. InputRefused(p) \/ LoadRefused(p) \/ LeafRefused(p) \/ PutConflict(p) \/ BindConflict(p)
    BY <2>2, <2>3, <2>4 DEF Step, Crash, Start, FindInput, Load, Resume, VerifyLeaf,
      ExecuteLeaf, Reuse, NotStored, Publish, Bind, Goto, Enter, NextLeaf, Return, TypeOK
  <2>6. pc[p] # "idle"
    BY <2>5 DEF InputRefused, LoadRefused, LeafRefused, PutConflict, BindConflict
  <2>7. job[p].execution \in Execution /\ job[p].input \in Input /\ leaf[p] \in 1 .. Leaves
    BY <2>3, <2>6, Asked DEF Working, TypeOK
  <2>8. /\ Slot(p, "INPUT", 0) # None /\ Slot(p, "INPUT", 0).doc = InputDoc(job[p].input)
        /\ job[p].operation # "read"
        /\ \A r \in objects : Readable(r, job[p].format)
    BY <2>3, <2>4 DEF Entitled, Readable
  <2>9. CASE InputRefused(p)
    BY <2>3, <2>7, <2>8, <2>9, Keys DEF InputRefused, Accepted, Slot
  <2>10. CASE LoadRefused(p)
    <3> DEFINE m == Slot(p, "COMPLETE", 0)
    <3>1. m # None /\ ~Loadable(p, m) /\ pc[p] = "find_complete"
      BY <2>8, <2>10 DEF LoadRefused
    <3>2. PICK j \in Input : Whole(job[p].execution, j, m)
      BY <2>7, <3>1 DEF IInv, CompleteIsWhole, Slot
    <3>3. j = job[p].input
      <4>1. InputDoc(j) = InputDoc(job[p].input)
        BY <2>8, <3>2 DEF Whole, Slot
      <4>2. QED
        BY <2>7, <4>1, Documents
    <3>4. inputRef[p] = Slot(p, "INPUT", 0)
      BY <2>3, <3>1 DEF Working, HoldsInput, Active, Ended
    <3>5. Loadable(p, m)
      BY <2>8, <3>2, <3>3, <3>4 DEF Whole, Loadable, LeafVerified, Slot
    <3>6. QED
      BY <3>1, <3>5
  <2>11. CASE LeafRefused(p)
    <3> DEFINE r == Slot(p, "LEAF", leaf[p])
    <3>1. r # None /\ ~LeafVerified(p, r, leaf[p])
      BY <2>11 DEF LeafRefused
    <3>2. r \in objects
      BY <2>3, <2>7, <3>1, Keys DEF Slot
    <3>3. r.doc = LeafOf(job[p].input, leaf[p])
      BY <2>7, <2>8, <3>1 DEF IInv, SealedInputGoverns, Slot
    <3>4. QED
      BY <2>8, <3>1, <3>2, <3>3 DEF LeafVerified
  <2>12. CASE PutConflict(p)
    BY <2>3, <2>12 DEF PutConflict
  <2>13. CASE BindConflict(p)
    BY <2>4, <2>13, BindsAgain DEF BindConflict
  <2>14. QED
    BY <2>5, <2>9, <2>10, <2>11, <2>12, <2>13
<1>2. QED
  BY <1>1, Invariance, PTL DEF Spec, RecoveryNeverRefused

=============================================================================
