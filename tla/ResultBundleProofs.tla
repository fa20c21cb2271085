------------------------- MODULE ResultBundleProofs -------------------------
(***************************************************************************)
(* What TLAPS proves of ResultBundle for every number of executions,        *)
(* challengers, scenarios and faults.                                       *)
(***************************************************************************)
EXTENDS ResultBundle, TLAPS

-----------------------------------------------------------------------------
(* The inductive invariant.                                                 *)

TypeOK ==
  /\ claim \in Claims
  /\ maths \in [publish : BOOLEAN, order : BOOLEAN, content : Contents \cup {"raises"}]
  /\ pc = [e \in Exec |-> pc[e]]
  /\ command \in [Exec -> Commands \cup {None}]
  /\ bundle \in [Exec -> Bundles \cup {None}]
  /\ answer = [e \in Exec |-> answer[e]]
  /\ receipt = [e \in Exec |-> receipt[e]]
  /\ artifacts \subseteq Rows
  /\ outbox \in Records \cup {None}
  /\ tx \in Transactions \cup {None}
  /\ damage \in Nat

\* An execution has admitted its command before it calculates, and calculated
\* its bundle before it writes; neither is ever replaced.
Sealed(e) == bundle[e] # None /\ command[e] \in Commands

Progress ==
  \A e \in Exec :
    /\ pc[e] = "calculate" => command[e] \in Commands
    /\ pc[e] \in {"idle", "resolve", "calculate"} => bundle[e] = None
    /\ pc[e] \in {"persist", "write"} => Sealed(e)
    /\ bundle[e] # None => command[e] \in Commands

\* A row is stored once, committed or not.
RefsOnce ==
  LET rows == artifacts \cup IF tx = None THEN {} ELSE tx.rows IN
  \A r, s \in rows : r.ref = s.ref => r = s

\* The message of an execution.
Ready(e) == ResultReady(bundle[e], Objects(e))

\* Whoever writes holds the lock; it writes what it calculated, and its message
\* when all of it is written and no other message is stored.
OneWriter ==
  /\ \A e \in Exec : pc[e] = "write" => tx # None /\ tx.by = e
  /\ tx # None =>
       /\ pc[tx.by] = "write"
       /\ tx.rows \cup tx.left = Objects(tx.by)
       /\ tx.message # None =>
            /\ tx.left = {}
            /\ tx.message = Ready(tx.by)
            /\ outbox # None => outbox.message = tx.message

\* The message that is stored is one execution's, also when it was restored.
OutboxReady ==
  outbox # None => \E f \in Exec : bundle[f] # None /\ outbox.message = Ready(f)

Evidence == StoredWhole /\ OutboxReady /\ VerifiedIsOneExecution

IInv ==
  TypeOK /\ Progress /\ RefsOnce /\ OneWriter /\ Evidence

-----------------------------------------------------------------------------
(* Children and bundles.                                                     *)

\* What an optional child may be when it is sealed with the others.
Sound(c, id) ==
  /\ c \in Children /\ c.id = id /\ ChildValid(c)
  /\ Succeeded(c) => c.content \in {"whole", "fraction"}
  /\ Succeeded(c) \/ FailureAllowed(c)

\* What an exception may say.
Codes == Reasons \cup {"NONE"}

\* No identity is that of another kind of child.
LEMMA IdentitiesDiffer ==
  /\ BaselineId # MathematicalId
  /\ \A c : PpoId(c) \notin {BaselineId, MathematicalId} /\ PpoId(c).challenger = c
            /\ PpoId(c).kind = "RECOMMENDED_PSI"
  /\ \A s : StressId(s) \notin {BaselineId, MathematicalId} /\ StressId(s).scenario = s
            /\ StressId(s).kind = "STRESS_PSI"
BY DEF BaselineId, MathematicalId, PpoId, StressId, Identity

\* A challenger, whatever becomes of its execution, gives a sound child.
LEMMA ChallengerSound ==
  ASSUME NEW c \in Challengers, NEW o \in PpoOutcomes, NEW resolved \in BOOLEAN
  PROVE  Sound(Isolated(PpoChild(c, resolved, o), "PPO"), PpoId(c))
<1>1. PpoId(c) \in Identities /\ PpoId(c) = PpoId(PpoId(c).challenger)
  BY IdentitiesDiffer DEF Identities
<1>2. \A code \in Codes :
         Sound(Raised(PpoId(c), "PPO", code), PpoId(c))
  BY <1>1, NoneAssumption DEF Codes, Reasons, Sound, Raised, FailedChild, FailureCode,
     Children, ChildValid,
     Succeeded, FailureAllowed
<1>3. Sound(Raised(PpoId(c), "PPO", "PSI_COMPARISON_UNIVERSE_MISMATCH"), PpoId(c))
  BY <1>1, NoneAssumption DEF Codes, Reasons, Sound, Raised, FailedChild, FailureCode,
     Children, ChildValid,
     Succeeded, FailureAllowed
<1>4. \A x \in {"whole", "fraction"} : Sound(SuccessfulChild(PpoId(c), x), PpoId(c))
  BY <1>1, NoneAssumption DEF Sound, SuccessfulChild, Children, ChildValid, Succeeded, Contents
<1>5. CASE ~resolved
  <2>1. "PPO_MODEL_UNAVAILABLE" \in Codes
    BY DEF Codes, Reasons
  <2>2. QED BY <1>2, <1>5, <2>1 DEF PpoChild, Isolated, Raised, FailedChild, Succeeded
<1>6. CASE resolved /\ o \in Contents
  BY <1>3, <1>4, <1>6 DEF PpoChild, Isolated, SuccessfulChild, Succeeded, Contents
<1>7. CASE resolved /\ o \in {"other", "opens", "raises"}
  <2>1. PpoRaises(o) \in Codes
    BY <1>7 DEF PpoRaises, Codes, Reasons
  <2>2. PpoChild(c, resolved, o) = Raised(PpoId(c), "PPO", PpoRaises(o))
    BY <1>7 DEF PpoChild, Contents
  <2>3. QED BY <1>2, <2>1, <2>2 DEF Isolated, Raised, FailedChild, Succeeded
<1>8. QED BY <1>5, <1>6, <1>7, OutcomesAssumption

\* So does a scenario; only one that cannot be resolved is skipped.
LEMMA ScenarioSound ==
  ASSUME NEW s \in Scenarios, NEW o \in StressOutcomes, NEW resolved \in BOOLEAN
  PROVE  Sound(Isolated(StressChild(s, resolved, o), "STRESS"), StressId(s))
<1>1. StressId(s) \in Identities /\ StressId(s) = StressId(StressId(s).scenario)
  BY IdentitiesDiffer DEF Identities
<1>2. \A code \in Codes \cup {"PSI_COMPARISON_UNIVERSE_MISMATCH"} :
         Sound(Raised(StressId(s), "STRESS", code), StressId(s))
  BY <1>1, NoneAssumption DEF Codes, Reasons, Sound, Raised, FailedChild, FailureCode,
     Children, ChildValid,
     Succeeded, FailureAllowed
<1>3. Sound(FailedChild(StressId(s), "SKIPPED", "STRESS_SCENARIO_UNAVAILABLE"), StressId(s))
  BY <1>1, NoneAssumption DEF Reasons, Sound, FailedChild, Children, ChildValid, Succeeded,
     FailureAllowed
<1>4. \A x \in {"whole", "fraction"} : Sound(SuccessfulChild(StressId(s), x), StressId(s))
  BY <1>1, NoneAssumption DEF Sound, SuccessfulChild, Children, ChildValid, Succeeded, Contents
<1>5. CASE ~resolved
  BY <1>3, <1>5 DEF StressChild, Isolated, FailedChild, Succeeded
<1>6. CASE resolved /\ o \in Contents
  BY <1>2, <1>4, <1>6 DEF StressChild, Isolated, SuccessfulChild, Succeeded, Contents
<1>7. CASE resolved /\ o \in {"other", "unsteady", "altered", "reserved", "opens", "raises"}
  <2>1. StressRaises(o) \in Codes
    BY <1>7 DEF StressRaises, Codes, Reasons
  <2>2. StressChild(s, resolved, o) = Raised(StressId(s), "STRESS", StressRaises(o))
    BY <1>7 DEF StressChild, Contents
  <2>3. QED BY <1>2, <2>1, <2>2 DEF Isolated, Raised, FailedChild, Succeeded
<1>8. QED BY <1>5, <1>6, <1>7, OutcomesAssumption

\* The optional children of a calculation.
OptionalChildren(cmd, p, s) == ChallengerChildren(cmd, p) \cup ScenarioChildren(cmd, s)

\* Every optional child is one challenger's or one scenario's, and each of these has one.
LEMMA OptionalSound ==
  ASSUME NEW cmd \in Commands, NEW p \in [Challengers -> PpoOutcomes],
         NEW s \in [Scenarios -> StressOutcomes]
  PROVE  /\ \A k \in OptionalChildren(cmd, p, s) :
              \/ \E c \in Challengers : Sound(k, PpoId(c))
              \/ \E c \in Scenarios : Sound(k, StressId(c))
         /\ \A k, l \in OptionalChildren(cmd, p, s) : k.id = l.id => k = l
         /\ {k.id : k \in OptionalChildren(cmd, p, s)} =
              {PpoId(c) : c \in Challengers} \cup {StressId(c) : c \in Scenarios}
<1> DEFINE ppo(c) == Isolated(PpoChild(c, c \in cmd.challengers, p[c]), "PPO")
           stress(c) == Isolated(StressChild(c, c \in cmd.scenarios, s[c]), "STRESS")
<1>1. \A c \in Challengers : Sound(ppo(c), PpoId(c))
  <2>1. TAKE c \in Challengers
  <2>2. p[c] \in PpoOutcomes /\ (c \in cmd.challengers) \in BOOLEAN
    OBVIOUS
  <2>3. QED BY <2>2, ChallengerSound
<1>2. \A c \in Scenarios : Sound(stress(c), StressId(c))
  <2>1. TAKE c \in Scenarios
  <2>2. s[c] \in StressOutcomes /\ (c \in cmd.scenarios) \in BOOLEAN
    OBVIOUS
  <2>3. QED BY <2>2, ScenarioSound
<1>3. OptionalChildren(cmd, p, s) =
        {ppo(c) : c \in Challengers} \cup {stress(c) : c \in Scenarios}
  BY DEF OptionalChildren, ChallengerChildren, ScenarioChildren
<1>4. /\ \A c \in Challengers : ppo(c).id = PpoId(c)
      /\ \A c \in Scenarios : stress(c).id = StressId(c)
  BY <1>1, <1>2 DEF Sound
<1> HIDE DEF ppo, stress
<1>5. \A k, l \in OptionalChildren(cmd, p, s) : k.id = l.id => k = l
  BY <1>3, <1>4, IdentitiesDiffer
<1>6. QED BY <1>1, <1>2, <1>3, <1>4, <1>5

\* The children of a calculation whose required part succeeded.
LEMMA ChildrenSound ==
  ASSUME NEW cmd \in Commands, NEW p \in [Challengers -> PpoOutcomes],
         NEW s \in [Scenarios -> StressOutcomes], maths.content \in {"whole", "fraction"}
  PROVE  LET children == Required \cup OptionalChildren(cmd, p, s) IN
         /\ \A k \in children : k \in Children /\ ChildValid(k)
         /\ \A k \in children : Succeeded(k) => k.content \in {"whole", "fraction"}
         /\ \A k, l \in children : k.id = l.id => k = l
         /\ {k.id : k \in children} = Identities
         /\ \A k \in children : k.id \in {BaselineId, MathematicalId} => Succeeded(k)
<1> DEFINE base == SuccessfulChild(BaselineId, "whole")
           math == SuccessfulChild(MathematicalId, maths.content)
           optional == OptionalChildren(cmd, p, s)
<1>1. Required = {base, math}
  BY DEF Required
<1>2. /\ base.id = BaselineId /\ base \in Children /\ ChildValid(base) /\ Succeeded(base)
      /\ base.content = "whole"
  BY NoneAssumption DEF SuccessfulChild, Children, ChildValid, Succeeded, Contents, Identities
<1>3. /\ math.id = MathematicalId /\ math \in Children /\ ChildValid(math) /\ Succeeded(math)
      /\ math.content \in {"whole", "fraction"}
  BY NoneAssumption DEF SuccessfulChild, Children, ChildValid, Succeeded, Contents, Identities
<1>4. \A k \in optional : /\ k \in Children /\ ChildValid(k)
                          /\ Succeeded(k) => k.content \in {"whole", "fraction"}
                          /\ k.id \notin {BaselineId, MathematicalId}
  BY OptionalSound, IdentitiesDiffer DEF Sound
<1>5. \A k, l \in optional : k.id = l.id => k = l
  BY OptionalSound
<1>6. {k.id : k \in optional} = {PpoId(c) : c \in Challengers} \cup {StressId(c) : c \in Scenarios}
  BY OptionalSound
<1> HIDE DEF base, math, optional
<1>7. {k.id : k \in {base, math} \cup optional} = Identities
  <2>1. {k.id : k \in {base, math} \cup optional} = {base.id, math.id} \cup {k.id : k \in optional}
    OBVIOUS
  <2>2. QED BY <1>2, <1>3, <1>6, <2>1 DEF Identities
<1>8. \A k, l \in {base, math} \cup optional : k.id = l.id => k = l
  BY <1>2, <1>3, <1>4, <1>5, IdentitiesDiffer
<1>9. \A k \in {base, math} \cup optional :
         /\ k \in Children /\ ChildValid(k)
         /\ Succeeded(k) => k.content \in {"whole", "fraction"}
         /\ k.id \in {BaselineId, MathematicalId} => Succeeded(k)
  BY <1>2, <1>3, <1>4
<1>10. Required \cup OptionalChildren(cmd, p, s) = {base, math} \cup optional
  BY <1>1 DEF base, math, optional
<1>11. QED BY <1>7, <1>8, <1>9, <1>10

\* A bundle of such children is a bundle, and it is valid against the plan.
LEMMA BundleSound ==
  ASSUME TypeOK, NEW children \in SUBSET Children,
         maths.publish = claim.publish, maths.order = claim.order,
         \A k \in children : ChildValid(k),
         \A k, l \in children : k.id = l.id => k = l,
         {k.id : k \in children} = Identities,
         \A k \in children : k.id \in {BaselineId, MathematicalId} => Succeeded(k)
  PROVE  BoundToClaim(BundleOf(children))
<1> DEFINE b == BundleOf(children)
<1>1. /\ b.children = children /\ b.effective = MathematicalId /\ b.rates = claim.rates
      /\ b.publish = claim.publish /\ b.order = claim.order
      /\ b.comparisons = {Comparison(c) : c \in {d \in children : d.id # BaselineId}}
  BY DEF BundleOf
<1>2. \A c : Comparison(c).candidate = c.id
  BY DEF Comparison
<1> HIDE DEF b
<1>3. {x.candidate : x \in b.comparisons} = {c.id : c \in b.children} \ {BaselineId}
  BY <1>1, <1>2
<1>4. \A x \in b.comparisons : \A c \in b.children : x.candidate = c.id => x = Comparison(c)
  BY <1>1, <1>2
<1>5. ComparisonsValid(b)
  BY <1>3, <1>4 DEF ComparisonsValid
<1>6. b.order => b.publish
  BY <1>1 DEF TypeOK, Claims
<1>7. BundleValid(b)
  BY <1>1, <1>5, <1>6 DEF BundleValid, Identities
<1>8. BoundToClaim(b)
  BY <1>1, <1>7 DEF BoundToClaim
<1>9. QED BY <1>8 DEF b

\* What a calculation seals is a bundle.
LEMMA BundleTyped ==
  ASSUME TypeOK, NEW children \in SUBSET Children
  PROVE  BundleOf(children) \in Bundles
<1>1. {Comparison(c) : c \in {d \in children : d.id # BaselineId}}
        \in SUBSET [candidate : Identities, cost : CostStates]
  BY DEF Comparison, Children, CostStates
<1>2. claim.rates \in Rates /\ maths.publish \in BOOLEAN /\ maths.order \in BOOLEAN
  BY DEF TypeOK, Claims
<1>3. MathematicalId \in Identities
  BY DEF Identities
<1>4. QED BY <1>1, <1>2, <1>3 DEF BundleOf, Bundles

-----------------------------------------------------------------------------
(* What the steps leave alone.                                               *)

\* What an execution writes are rows, and its message is one.
LEMMA ObjectsAreRows ==
  ASSUME TypeOK, NEW e \in Exec, Sealed(e)
  PROVE  Objects(e) \subseteq Rows /\ Ready(e) \in Messages
<1>1. bundle[e] \in Bundles /\ claim \in Claims
  BY DEF TypeOK, Sealed
<1>2. \A c \in bundle[e].children : c \in Children
  BY <1>1 DEF Bundles
<1>3. \A kind \in {"psi", "actions", "source"}, c \in Children : Part(kind, c) \in Rows
  BY DEF Part, Row, Rows, Children
<1>4. RowsOf(bundle[e].children) \subseteq Rows
  BY <1>2, <1>3 DEF RowsOf, ChildRows
<1>5. {Row("bundle", None, bundle[e]), Row("inputs", None, claim), ClassificationRow} \subseteq Rows
  BY <1>1 DEF Row, Rows, ClassificationRow
<1>6. Objects(e) \subseteq Rows
  BY <1>4, <1>5 DEF Objects
<1>7. QED BY <1>1, <1>6 DEF Ready, ResultReady, Messages

\* Steps after which what was sealed still is.
Keeps ==
  /\ claim' = claim /\ maths' = maths
  /\ \A e \in Exec : bundle[e] # None => bundle'[e] = bundle[e] /\ command'[e] = command[e]

\* An execution that has sealed its bundle writes the same afterwards.
LEMMA SealedStays ==
  ASSUME Keeps, NEW e \in Exec, bundle[e] # None
  PROVE  bundle'[e] # None /\ Objects(e)' = Objects(e) /\ Ready(e)' = Ready(e)
<1>1. Objects(e)' = Objects(e)
  BY DEF Keeps, Objects, ClassificationRow
<1>2. QED BY <1>1 DEF Keeps, Ready

\* What was verified was.
LEMMA VerifiedStays ==
  ASSUME Keeps, VerifiedIsOneExecution, answer' = answer
  PROVE  VerifiedIsOneExecution'
<1>1. SUFFICES ASSUME NEW e \in Exec, answer[e] # None
               PROVE  \E f \in Exec :
                        /\ bundle'[f] # None
                        /\ answer[e].rows = Objects(f)'
                        /\ answer[e].message = [bundle |-> bundle'[f], bindings |-> Objects(f)']
  BY DEF VerifiedIsOneExecution
<1>2. PICK f \in Exec :
        /\ bundle[f] # None
        /\ answer[e].rows = Objects(f)
        /\ answer[e].message = [bundle |-> bundle[f], bindings |-> Objects(f)]
  BY <1>1 DEF VerifiedIsOneExecution
<1>3. bundle'[f] = bundle[f] /\ Objects(f)' = Objects(f)
  BY <1>2, SealedStays DEF Keeps
<1>4. QED BY <1>2, <1>3

\* So is the message of an outbox whose status alone changes.
LEMMA OutboxStays ==
  ASSUME Keeps, OutboxReady, outbox' # None => outbox # None /\ outbox'.message = outbox.message
  PROVE  OutboxReady'
<1>1. SUFFICES ASSUME outbox' # None
               PROVE  \E f \in Exec : bundle'[f] # None /\ outbox'.message = Ready(f)'
  BY DEF OutboxReady
<1>2. PICK f \in Exec : bundle[f] # None /\ outbox'.message = Ready(f)
  BY <1>1 DEF OutboxReady
<1>3. bundle'[f] # None /\ Ready(f)' = Ready(f)
  BY <1>2, SealedStays
<1>4. QED BY <1>2, <1>3

\* And the store, when nothing is written.
LEMMA StoreStays ==
  ASSUME Keeps, StoredWhole, artifacts' = artifacts, damage' = damage,
         outbox' = None <=> outbox = None,
         outbox # None => outbox'.message = outbox.message
  PROVE  StoredWhole'
<1>1. SUFFICES ASSUME damage = 0, ~(artifacts = {} /\ outbox = None)
               PROVE  \E e \in Exec : /\ bundle'[e] # None /\ artifacts' = Objects(e)'
                                      /\ outbox' # None
                                      /\ outbox'.message = ResultReady(bundle[e], Objects(e))'
  BY DEF StoredWhole
<1>2. PICK e \in Exec : /\ bundle[e] # None /\ artifacts = Objects(e) /\ outbox # None
                        /\ outbox.message = ResultReady(bundle[e], Objects(e))
  BY <1>1 DEF StoredWhole
<1>3. bundle'[e] # None /\ Objects(e)' = Objects(e) /\ Ready(e)' = Ready(e)
  BY <1>2, SealedStays
<1>4. QED BY <1>2, <1>3 DEF Ready

\* A step that touches neither the store nor an answer keeps the evidence.
LEMMA EvidenceStays ==
  ASSUME Keeps, Evidence, UNCHANGED <<artifacts, outbox, answer, damage>>
  PROVE  Evidence'
BY VerifiedStays, OutboxStays, StoreStays DEF Evidence

\* Nothing that is sealed changes while others move.
LEMMA WriterStays ==
  ASSUME Keeps, OneWriter, TypeOK, Progress, tx' = tx, outbox' = outbox,
         \A e \in Exec : pc'[e] = "write" <=> pc[e] = "write"
  PROVE  OneWriter'
<1>1. CASE tx = None
  BY <1>1 DEF OneWriter
<1>2. CASE tx # None
  <2>1. tx.by \in Exec /\ bundle[tx.by] # None
    BY <1>2 DEF OneWriter, TypeOK, Transactions, Progress, Sealed
  <2>2. PICK e \in Exec : e = tx.by
    BY <2>1
  <2>3. Objects(e)' = Objects(e) /\ Ready(e)' = Ready(e)
    BY <2>1, <2>2, SealedStays
  <2>4. QED BY <1>2, <2>2, <2>3 DEF OneWriter
<1>3. QED BY <1>1, <1>2

-----------------------------------------------------------------------------
(* The steps of an execution.                                                *)

\* A step that only moves an execution on, neither into a transaction nor out of one.
LEMMA MovesOn ==
  ASSUME IInv, NEW e \in Exec, NEW to, Goto(e, to), pc[e] # "write",
         to \notin {"write", "calculate", "idle", "resolve"},
         to = "persist" => bundle[e] # None,
         UNCHANGED <<claim, maths, command, bundle, receipt, answer, store, faults>>
  PROVE  IInv'
<1>1. Keeps
  BY DEF Keeps
<1>2. TypeOK'
  BY DEF IInv, TypeOK, Goto, store, faults
<1>3. Progress'
  BY DEF IInv, TypeOK, Progress, Sealed, Goto
<1>4. \A f \in Exec : pc'[f] = "write" <=> pc[f] = "write"
  BY DEF IInv, TypeOK, Goto
<1>5. OneWriter'
  BY <1>1, <1>4, WriterStays DEF IInv, store
<1>6. Evidence'
  BY <1>1, EvidenceStays DEF IInv, store, faults
<1>7. RefsOnce'
  BY DEF IInv, RefsOnce, store
<1>8. QED BY <1>2, <1>3, <1>5, <1>6, <1>7 DEF IInv

\* A redispatch of an attempt that has a message verifies it, another one calculates.
LEMMA FindOutboxHolds ==
  ASSUME IInv, NEW e \in Exec, FindOutbox(e)
  PROVE  IInv'
<1>1. CASE outbox # None
  BY <1>1, MovesOn DEF FindOutbox
<1>2. CASE outbox = None
  <2>1. Keeps
    BY DEF Keeps, FindOutbox
  <2>2. TypeOK'
    BY DEF IInv, TypeOK, Goto, FindOutbox, store, faults
  <2>3. Progress'
    BY <1>2 DEF IInv, TypeOK, Progress, Sealed, Goto, FindOutbox
  <2>4. \A f \in Exec : pc'[f] = "write" <=> pc[f] = "write"
    BY <1>2 DEF IInv, TypeOK, Goto, FindOutbox
  <2>5. OneWriter'
    BY <2>1, <2>4, WriterStays DEF IInv, store, FindOutbox
  <2>6. Evidence'
    BY <2>1, EvidenceStays DEF IInv, store, faults, FindOutbox
  <2>7. RefsOnce'
    BY DEF IInv, RefsOnce, store, FindOutbox
  <2>8. QED BY <2>2, <2>3, <2>5, <2>6, <2>7 DEF IInv
<1>3. QED BY <1>1, <1>2

\* A command is admitted before anything is calculated.
LEMMA AdmitHolds ==
  ASSUME IInv, NEW e \in Exec, Admit(e)
  PROVE  IInv'
<1>1. CASE Goto(e, "refused") /\ command' = command
  BY <1>1, MovesOn DEF Admit
<1>2. CASE \E cmd \in Commands : command' = [command EXCEPT ![e] = cmd] /\ Goto(e, "calculate")
  <2>1. PICK cmd \in Commands : command' = [command EXCEPT ![e] = cmd] /\ Goto(e, "calculate")
    BY <1>2
  <2>2. bundle[e] = None
    BY DEF IInv, Progress, Admit
  <2>3. Keeps
    BY <2>1, <2>2 DEF Keeps, Admit, IInv, TypeOK
  <2>4. TypeOK'
    BY <2>1 DEF IInv, TypeOK, Goto, Admit, store, faults
  <2>5. Progress'
    BY <2>1, <2>2 DEF IInv, TypeOK, Progress, Sealed, Goto, Admit
  <2>6. \A f \in Exec : pc'[f] = "write" <=> pc[f] = "write"
    BY <2>1 DEF IInv, TypeOK, Goto, Admit
  <2>7. OneWriter'
    BY <2>3, <2>6, WriterStays DEF IInv, store, Admit
  <2>8. Evidence'
    BY <2>3, EvidenceStays DEF IInv, store, faults, Admit
  <2>9. RefsOnce'
    BY DEF IInv, RefsOnce, store, Admit
  <2>10. QED BY <2>4, <2>5, <2>7, <2>8, <2>9 DEF IInv
<1>3. QED BY <1>1, <1>2 DEF Admit

\* A calculation seals a bundle, or ends.
LEMMA CalculateHolds ==
  ASSUME IInv, NEW e \in Exec, Calculate(e)
  PROVE  IInv'
<1>1. CASE bundle' = bundle /\ (Goto(e, "uncalculated") \/ Goto(e, "uncompared"))
  BY <1>1, MovesOn DEF Calculate
<1>2. CASE /\ Goto(e, "persist")
           /\ \E children \in SUBSET Children :
                bundle' = [bundle EXCEPT ![e] = BundleOf(children)]
  <2>1. PICK children \in SUBSET Children : bundle' = [bundle EXCEPT ![e] = BundleOf(children)]
    BY <1>2
  <2>2. PICK b \in Bundles : b = BundleOf(children)
    BY BundleTyped DEF IInv
  <2>3. b # None /\ bundle[e] = None /\ command[e] \in Commands
    BY NoneAssumption DEF IInv, Progress, Calculate
  <2>4. bundle' = [bundle EXCEPT ![e] = b]
    BY <2>1, <2>2
  <2>5. Keeps
    BY <2>3, <2>4 DEF Keeps, Calculate, IInv, TypeOK
  <2>6. TypeOK'
    BY <1>2, <2>4 DEF IInv, TypeOK, Goto, Calculate, store, faults
  <2>7. Progress'
    BY <1>2, <2>3, <2>4 DEF IInv, TypeOK, Progress, Sealed, Goto, Calculate
  <2>8. \A f \in Exec : pc'[f] = "write" <=> pc[f] = "write"
    BY <1>2 DEF IInv, TypeOK, Goto, Calculate
  <2>9. OneWriter'
    BY <2>5, <2>8, WriterStays DEF IInv, store, Calculate
  <2>10. Evidence'
    BY <2>5, EvidenceStays DEF IInv, store, faults, Calculate
  <2>11. RefsOnce'
    BY DEF IInv, RefsOnce, store, Calculate
  <2>12. QED BY <2>6, <2>7, <2>9, <2>10, <2>11 DEF IInv
<1>3. ASSUME NEW p \in [Challengers -> PpoOutcomes], NEW s \in [Scenarios -> StressOutcomes],
             maths.content \notin {"raises", "short"}
      PROVE  Required \cup (ChallengerChildren(command[e], p) \cup ScenarioChildren(command[e], s))
               \in SUBSET Children
  <2>1. command[e] \in Commands /\ maths.content \in {"whole", "fraction"}
    BY <1>3 DEF IInv, Progress, Calculate, TypeOK, Contents
  <2>2. PICK cmd \in Commands : cmd = command[e]
    BY <2>1
  <2>3. \A k \in Required \cup OptionalChildren(cmd, p, s) : k \in Children
    BY <2>1, ChildrenSound
  <2>4. QED BY <2>2, <2>3 DEF OptionalChildren
<1>4. QED BY <1>1, <1>2, <1>3 DEF Calculate

\* The transaction begins with nothing written and everything left.
LEMMA BeginHolds ==
  ASSUME IInv, NEW e \in Exec, Begin(e)
  PROVE  IInv'
<1>1. CASE tx # None
  BY <1>1, MovesOn DEF Begin, store
<1>2. CASE tx = None
  <2>1. Sealed(e)
    BY DEF IInv, Progress, Begin
  <2>2. Objects(e) \subseteq Rows
    BY <2>1, ObjectsAreRows DEF IInv
  <2>3. /\ tx' = [by |-> e, rows |-> {}, left |-> Objects(e), message |-> None]
        /\ tx' \in Transactions
    BY <1>2, <2>2 DEF Begin, Transactions
  <2>4. tx' # None
    BY <2>3, NoneAssumption
  <2>5. Goto(e, "write") /\ Keeps
    BY <1>2 DEF Begin, Keeps
  <2>6. TypeOK'
    BY <2>3, <2>5 DEF IInv, TypeOK, Goto, Begin, faults
  <2>7. Progress'
    BY <2>1, <2>5 DEF IInv, TypeOK, Progress, Sealed, Goto, Begin
  <2>8. Objects(e)' = Objects(e)
    BY DEF Begin, Objects, ClassificationRow
  <2>9. OneWriter'
    <3>1. \A f \in Exec : pc'[f] = "write" => f = e
      BY <1>2, <2>5 DEF IInv, OneWriter, Goto, TypeOK
    <3>2. pc'[e] = "write"
      BY <2>5 DEF Goto, IInv, TypeOK
    <3>3. tx'.by = e /\ tx'.rows \cup tx'.left = Objects(e) /\ tx'.message = None
      BY <2>3
    <3>4. QED BY <2>4, <2>8, <3>1, <3>2, <3>3 DEF OneWriter
  <2>10. Evidence'
    BY <2>5, EvidenceStays DEF IInv, faults, Begin
  <2>11. RefsOnce'
    BY <1>2, <2>3, <2>4 DEF IInv, RefsOnce, Begin
  <2>12. QED BY <2>6, <2>7, <2>9, <2>10, <2>11 DEF IInv
<1>3. QED BY <1>1, <1>2

\* A conflict rolls back all of the transaction.
LEMMA ConflictHolds ==
  ASSUME IInv, NEW e \in Exec, pc[e] = "write", NEW to \in {"conflict", "dead"}, Goto(e, to),
         Rollback, UNCHANGED <<claim, maths, command, bundle, receipt, answer, outbox, damage>>
  PROVE  IInv'
<1>1. Keeps
  BY DEF Keeps
<1>2. TypeOK'
  BY DEF IInv, TypeOK, Goto, Rollback
<1>3. Progress'
  BY DEF IInv, TypeOK, Progress, Sealed, Goto
<1>4. OneWriter'
  <2>1. \A f \in Exec : pc[f] = "write" => f = e
    BY DEF IInv, OneWriter
  <2>2. \A f \in Exec : pc'[f] # "write"
    BY <2>1 DEF IInv, TypeOK, Goto
  <2>3. QED BY <2>2 DEF OneWriter, Rollback
<1>5. Evidence'
  BY <1>1, EvidenceStays DEF IInv, Rollback
<1>6. RefsOnce'
  BY DEF IInv, RefsOnce, Rollback
<1>7. QED BY <1>2, <1>3, <1>4, <1>5, <1>6 DEF IInv

\* The transaction writes one row after another, none over another.
LEMMA WriteArtifactHolds ==
  ASSUME IInv, NEW e \in Exec, WriteArtifact(e)
  PROVE  IInv'
<1> DEFINE row == CHOOSE r \in tx.left : TRUE
<1>1. row \in tx.left
  BY DEF WriteArtifact
<1> HIDE DEF row
<1>2. tx # None /\ tx.by = e /\ tx \in Transactions /\ pc[e] = "write"
  BY DEF IInv, OneWriter, TypeOK, WriteArtifact
<1>3. CASE Goto(e, "conflict") /\ Rollback
  BY <1>2, <1>3, ConflictHolds DEF WriteArtifact, faults
<1>4. CASE /\ {r \in artifacts \cup tx.rows : r.ref = row.ref} \subseteq {row}
           /\ tx' = [tx EXCEPT !.rows = @ \cup {row}, !.left = @ \ {row}]
           /\ UNCHANGED <<pc, artifacts>>
  <2>1. /\ tx' \in Transactions /\ tx'.by = e /\ tx'.message = tx.message
        /\ tx'.rows = tx.rows \cup {row} /\ tx'.left = tx.left \ {row}
    BY <1>1, <1>2, <1>4 DEF Transactions
  <2>2. tx' # None
    BY <2>1, NoneAssumption
  <2>3. Keeps
    BY DEF Keeps, WriteArtifact
  <2>4. TypeOK'
    BY <1>4, <2>1 DEF IInv, TypeOK, WriteArtifact, faults
  <2>5. Progress'
    BY <1>4 DEF IInv, Progress, Sealed, WriteArtifact
  <2>6. OneWriter'
    <3>1. tx.message = None
      BY <1>1, <1>2 DEF IInv, OneWriter
    <3>2. tx'.rows \cup tx'.left = Objects(e)
      BY <1>1, <1>2, <2>1 DEF IInv, OneWriter
    <3>3. Objects(e)' = Objects(e)
      BY DEF WriteArtifact, Objects, ClassificationRow
    <3>4. \A f \in Exec : pc'[f] = "write" => f = e
      BY <1>2, <1>4 DEF IInv, OneWriter
    <3>5. QED BY <1>2, <1>4, <2>1, <2>2, <3>1, <3>2, <3>3, <3>4 DEF OneWriter
  <2>7. Evidence'
    BY <1>4, <2>3, EvidenceStays DEF IInv, WriteArtifact, faults
  <2>8. RefsOnce'
    <3>1. \A r \in artifacts \cup tx.rows : r.ref = row.ref => r = row
      BY <1>4
    <3>2. \A r, s \in artifacts \cup tx.rows : r.ref = s.ref => r = s
      BY <1>2 DEF IInv, RefsOnce
    <3>3. QED BY <1>4, <2>1, <2>2, <3>1, <3>2 DEF RefsOnce
  <2>9. QED BY <2>4, <2>5, <2>6, <2>7, <2>8 DEF IInv
<1>5. QED BY <1>3, <1>4 DEF WriteArtifact, row

\* The message is written last, and only over itself.
LEMMA WriteOutboxHolds ==
  ASSUME IInv, NEW e \in Exec, WriteOutbox(e)
  PROVE  IInv'
<1>1. tx # None /\ tx.by = e /\ tx \in Transactions /\ pc[e] = "write" /\ Sealed(e)
  BY DEF IInv, OneWriter, TypeOK, WriteOutbox, Progress
<1>2. CASE Goto(e, "conflict") /\ Rollback
  BY <1>1, <1>2, ConflictHolds DEF WriteOutbox, faults
<1>3. CASE /\ outbox = None \/ outbox.message = Ready(e)
           /\ tx' = [tx EXCEPT !.message = Ready(e)]
           /\ UNCHANGED <<pc, artifacts>>
  <2>1. Ready(e) \in Messages
    BY <1>1, ObjectsAreRows DEF IInv
  <2>2. /\ tx' \in Transactions /\ tx'.by = e /\ tx'.message = Ready(e)
        /\ tx'.rows = tx.rows /\ tx'.left = tx.left
    BY <1>1, <1>3, <2>1 DEF Transactions
  <2>3. tx' # None
    BY <2>2, NoneAssumption
  <2>4. Keeps
    BY DEF Keeps, WriteOutbox
  <2>5. TypeOK'
    BY <1>3, <2>2 DEF IInv, TypeOK, WriteOutbox, faults
  <2>6. Progress'
    BY <1>3 DEF IInv, Progress, Sealed, WriteOutbox
  <2>7. OneWriter'
    <3>1. Objects(e)' = Objects(e) /\ Ready(e)' = Ready(e)
      BY DEF WriteOutbox, Objects, ClassificationRow, Ready
    <3>2. \A f \in Exec : pc'[f] = "write" => f = e
      BY <1>1, <1>3 DEF IInv, OneWriter
    <3>3. tx'.rows \cup tx'.left = Objects(e) /\ tx'.left = {} /\ outbox' = outbox
      BY <1>1, <2>2 DEF IInv, OneWriter, WriteOutbox
    <3>4. QED BY <1>1, <1>3, <2>2, <2>3, <3>1, <3>2, <3>3 DEF OneWriter
  <2>8. Evidence'
    BY <1>3, <2>4, EvidenceStays DEF IInv, WriteOutbox, faults
  <2>9. RefsOnce'
    BY <1>1, <1>3, <2>2, <2>3 DEF IInv, RefsOnce
  <2>10. QED BY <2>5, <2>6, <2>7, <2>8, <2>9 DEF IInv
<1>4. QED BY <1>2, <1>3 DEF WriteOutbox, Ready

\* What is committed is everything one execution wrote; beside it nothing was
\* stored, or the same.
LEMMA CommitHolds ==
  ASSUME IInv, NEW e \in Exec, Commit(e)
  PROVE  IInv'
<1>1. /\ tx # None /\ tx.by = e /\ tx \in Transactions /\ pc[e] = "write" /\ Sealed(e)
      /\ tx.rows = Objects(e) /\ tx.message = Ready(e)
      /\ outbox # None => outbox.message = Ready(e)
  BY DEF IInv, OneWriter, TypeOK, Commit, Progress
<1>2. Keeps /\ tx' = None /\ Goto(e, "read_back") /\ artifacts' = artifacts \cup Objects(e)
  BY <1>1 DEF Keeps, Commit
<1>3. /\ outbox' \in Records /\ outbox' # None /\ outbox'.message = Ready(e)
  <2>1. Ready(e) \in Messages /\ Bundles # {}
    BY <1>1, ObjectsAreRows DEF IInv, Sealed, TypeOK
  <2>2. CASE outbox # None
    BY <1>1, <2>2 DEF Commit, IInv, TypeOK
  <2>3. CASE outbox = None
    <3>1. outbox' = [message |-> Ready(e), status |-> InitialStatus(bundle[e])]
      BY <1>1, <2>3 DEF Commit
    <3>2. InitialStatus(bundle[e]) \in {"PENDING", "WITHHELD_FOR_REVIEW", "PUBLISHED"}
      BY DEF InitialStatus
    <3>3. outbox' \in Records
      BY <2>1, <3>1, <3>2 DEF Records
    <3>4. QED BY <3>1, <3>3, NoneAssumption
  <2>4. QED BY <2>2, <2>3
<1>4. TypeOK'
  <2>1. Objects(e) \subseteq Rows
    BY <1>1, ObjectsAreRows DEF IInv
  <2>2. QED BY <1>2, <1>3, <2>1 DEF IInv, TypeOK, Goto, Commit, faults
<1>5. Progress'
  BY <1>2 DEF IInv, TypeOK, Progress, Sealed, Goto, Commit
<1>6. OneWriter'
  <2>1. \A f \in Exec : pc'[f] # "write"
    BY <1>1, <1>2 DEF IInv, OneWriter, TypeOK, Goto
  <2>2. QED BY <1>2, <2>1 DEF OneWriter
<1>7. Objects(e)' = Objects(e) /\ Ready(e)' = Ready(e) /\ bundle'[e] # None
  BY <1>1, <1>2, SealedStays DEF Sealed
<1>8. OutboxReady'
  BY <1>3, <1>7 DEF OutboxReady
<1>9. StoredWhole'
  <2>1. SUFFICES ASSUME damage = 0 PROVE artifacts' = Objects(e)
    BY <1>3, <1>7 DEF StoredWhole, Ready, Commit, faults
  <2>2. CASE artifacts = {} /\ outbox = None
    BY <1>2, <2>2
  <2>3. ASSUME NEW f \in Exec, artifacts = Objects(f), outbox # None,
               outbox.message = ResultReady(bundle[f], Objects(f))
        PROVE  artifacts' = Objects(e)
    <3>1. ResultReady(bundle[f], Objects(f)) = ResultReady(bundle[e], Objects(e))
      BY <1>1, <2>3 DEF Ready
    <3>2. Objects(f) = Objects(e)
      BY <3>1 DEF ResultReady
    <3>3. QED BY <1>2, <2>3, <3>2
  <2>4. QED BY <2>1, <2>2, <2>3 DEF IInv, Evidence, StoredWhole
<1>10. VerifiedIsOneExecution'
  BY <1>2, VerifiedStays DEF IInv, Evidence, Commit
<1>11. RefsOnce'
  BY <1>1, <1>2 DEF IInv, RefsOnce
<1>12. QED BY <1>4, <1>5, <1>6, <1>8, <1>9, <1>10, <1>11 DEF IInv, Evidence

\* Reading the record back writes nothing.
LEMMA ReadBackHolds ==
  ASSUME IInv, NEW e \in Exec, ReadBack(e)
  PROVE  IInv'
<1>1. Keeps
  BY DEF Keeps, ReadBack
<1>2. TypeOK'
  BY DEF IInv, TypeOK, Goto, ReadBack, store, faults
<1>3. Progress'
  BY DEF IInv, TypeOK, Progress, Sealed, Goto, ReadBack
<1>4. \A f \in Exec : pc'[f] = "write" <=> pc[f] = "write"
  BY DEF IInv, TypeOK, Goto, ReadBack
<1>5. OneWriter'
  BY <1>1, <1>4, WriterStays DEF IInv, store, ReadBack
<1>6. Evidence'
  BY <1>1, EvidenceStays DEF IInv, store, faults, ReadBack
<1>7. RefsOnce'
  BY DEF IInv, RefsOnce, store, ReadBack
<1>8. QED BY <1>2, <1>3, <1>5, <1>6, <1>7 DEF IInv

\* A verification that accepts reads the rows of the execution whose message is
\* stored, and no others: the message binds the very rows that are read.
LEMMA AcceptedIsSealed ==
  ASSUME IInv, outbox # None, Verified(artifacts, outbox.message)
  PROVE  \E f \in Exec :
           /\ bundle[f] # None
           /\ outbox.message = [bundle |-> bundle[f], bindings |-> Objects(f)]
           /\ {r \in artifacts : r.ref \in {s.ref : s \in outbox.message.bindings}} = Objects(f)
<1>1. PICK f \in Exec : bundle[f] # None /\ outbox.message = Ready(f)
  BY DEF IInv, Evidence, OutboxReady
<1>2. PICK b, classified :
        outbox.message = ResultReady(b, RowsRead(artifacts, b, classified))
  <2>1. PICK b \in {r.body : r \in Lookup(artifacts, "bundle", None)} :
          MessageBound(artifacts, b, outbox.message)
    BY DEF Verified
  <2>2. QED BY <2>1 DEF MessageBound
<1>3. outbox.message.bindings = Objects(f) /\ Objects(f) = RowsRead(artifacts, b, classified)
  BY <1>1, <1>2 DEF Ready, ResultReady
<1>4. Objects(f) \subseteq artifacts
  <2>1. RowsRead(artifacts, b, classified) \subseteq artifacts
    BY DEF RowsRead, Lookup
  <2>2. QED BY <1>3, <2>1
<1>5. \A r, s \in artifacts : r.ref = s.ref => r = s
  BY DEF IInv, RefsOnce
<1>6. {r \in artifacts : r.ref \in {s.ref : s \in Objects(f)}} = Objects(f)
  BY <1>4, <1>5
<1>7. QED BY <1>1, <1>3, <1>6 DEF Ready, ResultReady

\* So what is answered is one execution's.
LEMMA VerifyHolds ==
  ASSUME IInv, NEW e \in Exec, Verify(e)
  PROVE  IInv'
<1>1. CASE answer' = answer /\ Goto(e, "damaged")
  BY <1>1, MovesOn DEF Verify
<1>2. CASE /\ outbox # None /\ Verified(artifacts, outbox.message)
           /\ answer' = [answer EXCEPT ![e] =
                [rows |-> {r \in artifacts : r.ref \in {s.ref : s \in outbox.message.bindings}},
                 message |-> outbox.message]]
           /\ Goto(e, "verified")
  <2>1. Keeps
    BY DEF Keeps, Verify
  <2>2. TypeOK'
    BY <1>2 DEF IInv, TypeOK, Goto, Verify, store, faults
  <2>3. Progress'
    BY <1>2 DEF IInv, TypeOK, Progress, Sealed, Goto, Verify
  <2>4. \A f \in Exec : pc'[f] = "write" <=> pc[f] = "write"
    BY <1>2 DEF IInv, TypeOK, Goto, Verify
  <2>5. OneWriter'
    BY <2>1, <2>4, WriterStays DEF IInv, store, Verify
  <2>6. PICK f \in Exec :
          /\ bundle[f] # None
          /\ outbox.message = [bundle |-> bundle[f], bindings |-> Objects(f)]
          /\ {r \in artifacts : r.ref \in {s.ref : s \in outbox.message.bindings}} = Objects(f)
    BY <1>2, AcceptedIsSealed
  <2>7. answer' = [answer EXCEPT ![e] = [rows |-> Objects(f), message |-> outbox.message]]
    BY <1>2, <2>6
  <2>8. Objects(f)' = Objects(f) /\ bundle'[f] = bundle[f]
    BY <2>1, <2>6, SealedStays DEF Keeps
  <2>9. VerifiedIsOneExecution'
    <3>1. SUFFICES ASSUME NEW g \in Exec, answer'[g] # None
                   PROVE  \E h \in Exec :
                            /\ bundle'[h] # None /\ answer'[g].rows = Objects(h)'
                            /\ answer'[g].message = [bundle |-> bundle'[h], bindings |-> Objects(h)']
      BY DEF VerifiedIsOneExecution
    <3>2. CASE g = e
      <4>1. answer'[g] = [rows |-> Objects(f), message |-> outbox.message]
        BY <2>7, <3>2 DEF IInv, TypeOK
      <4>2. QED BY <2>6, <2>8, <4>1
    <3>3. CASE g # e
      <4>1. answer'[g] = answer[g]
        BY <2>7, <3>3 DEF IInv, TypeOK
      <4>2. PICK h \in Exec :
              /\ bundle[h] # None /\ answer[g].rows = Objects(h)
              /\ answer[g].message = [bundle |-> bundle[h], bindings |-> Objects(h)]
        BY <3>1, <4>1 DEF IInv, Evidence, VerifiedIsOneExecution
      <4>3. Objects(h)' = Objects(h) /\ bundle'[h] = bundle[h]
        BY <2>1, <4>2, SealedStays DEF Keeps
      <4>4. QED BY <4>1, <4>2, <4>3
    <3>4. QED BY <3>2, <3>3
  <2>10. OutboxReady' /\ StoredWhole'
    BY <2>1, OutboxStays, StoreStays DEF IInv, Evidence, Verify, store, faults
  <2>11. RefsOnce'
    BY DEF IInv, RefsOnce, store, Verify
  <2>12. QED BY <2>2, <2>3, <2>5, <2>9, <2>10, <2>11 DEF IInv, Evidence
<1>3. QED BY <1>1, <1>2 DEF Verify

\* Acknowledging changes the status of the record alone.
LEMMA AcknowledgeHolds ==
  ASSUME IInv, NEW e \in Exec, Acknowledge(e)
  PROVE  IInv'
<1>1. CASE outbox' = outbox /\ Goto(e, "refused")
  BY <1>1, MovesOn DEF Acknowledge, store
<1>2. CASE /\ outbox # None /\ outbox' = [outbox EXCEPT !.status = "PUBLISHED"]
           /\ Goto(e, "acknowledged")
  <2>1. Keeps
    BY DEF Keeps, Acknowledge
  <2>2. outbox' \in Records /\ outbox'.message = outbox.message
    BY <1>2 DEF IInv, TypeOK, Records
  <2>3. outbox' # None
    BY <2>2, NoneAssumption
  <2>4. TypeOK'
    BY <1>2, <2>2 DEF IInv, TypeOK, Goto, Acknowledge, faults
  <2>5. Progress'
    BY <1>2 DEF IInv, TypeOK, Progress, Sealed, Goto, Acknowledge
  <2>6. OneWriter'
    <3>1. \A f \in Exec : pc'[f] = "write" <=> pc[f] = "write"
      BY <1>2 DEF IInv, TypeOK, Goto, Acknowledge
    <3>2. CASE tx = None
      BY <3>1, <3>2 DEF IInv, OneWriter, Acknowledge
    <3>3. CASE tx # None
      <4>1. PICK f \in Exec : f = tx.by /\ bundle[f] # None
        BY <3>3 DEF IInv, OneWriter, TypeOK, Transactions, Progress, Sealed
      <4>2. Objects(f)' = Objects(f) /\ Ready(f)' = Ready(f)
        BY <2>1, <4>1, SealedStays
      <4>3. QED BY <1>2, <2>2, <3>1, <3>3, <4>1, <4>2 DEF IInv, OneWriter, Acknowledge
    <3>4. QED BY <3>2, <3>3
  <2>7. VerifiedIsOneExecution'
    BY <2>1, VerifiedStays DEF IInv, Evidence, Acknowledge
  <2>8. OutboxReady' /\ StoredWhole'
    BY <1>2, <2>1, <2>2, <2>3, OutboxStays, StoreStays DEF IInv, Evidence, Acknowledge, faults
  <2>9. RefsOnce'
    BY DEF IInv, RefsOnce, Acknowledge
  <2>10. QED BY <2>4, <2>5, <2>6, <2>7, <2>8, <2>9 DEF IInv, Evidence
<1>3. QED BY <1>1, <1>2 DEF Acknowledge

-----------------------------------------------------------------------------
(* Faults.                                                                   *)

\* A process that dies takes its transaction with it.
LEMMA CrashHolds ==
  ASSUME IInv, NEW e \in Exec, Crash(e)
  PROVE  IInv'
<1>1. CASE pc[e] = "write"
  <2>1. tx # None /\ tx.by = e
    BY <1>1 DEF IInv, OneWriter
  <2>2. QED BY <1>1, <2>1, ConflictHolds DEF Crash
<1>2. CASE pc[e] # "write"
  <2>1. UNCHANGED <<artifacts, tx>>
    BY <1>2 DEF Crash, IInv, OneWriter
  <2>2. Keeps
    BY DEF Keeps, Crash
  <2>3. TypeOK'
    BY <2>1 DEF IInv, TypeOK, Goto, Crash
  <2>4. Progress'
    BY DEF IInv, TypeOK, Progress, Sealed, Goto, Crash
  <2>5. \A f \in Exec : pc'[f] = "write" <=> pc[f] = "write"
    BY <1>2 DEF IInv, TypeOK, Goto, Crash
  <2>6. OneWriter'
    BY <2>1, <2>2, <2>5, WriterStays DEF IInv, Crash
  <2>7. Evidence'
    BY <2>1, <2>2, EvidenceStays DEF IInv, Crash
  <2>8. RefsOnce'
    BY <2>1 DEF IInv, RefsOnce
  <2>9. QED BY <2>3, <2>4, <2>6, <2>7, <2>8 DEF IInv
<1>3. QED BY <1>1, <1>2

\* Damage leaves a store whose rows are each stored once, and whose message is
\* one execution's; whether it holds one execution whole is no longer promised.
LEMMA DamageHolds ==
  ASSUME IInv, tx = None, damage' = damage + 1, NEW rows \in SUBSET Rows, artifacts' = rows,
         \A r, s \in rows : r.ref = s.ref => r = s,
         outbox' \in Records \cup {None}, OutboxReady',
         UNCHANGED <<claim, maths, pc, command, bundle, receipt, answer, tx>>
  PROVE  IInv'
<1>1. Keeps
  BY DEF Keeps
<1>2. TypeOK'
  BY DEF IInv, TypeOK
<1>3. Progress'
  BY DEF IInv, Progress, Sealed
<1>4. OneWriter' /\ RefsOnce'
  BY DEF IInv, OneWriter, RefsOnce
<1>5. VerifiedIsOneExecution'
  BY <1>1, VerifiedStays DEF IInv, Evidence
<1>6. StoredWhole'
  BY DEF StoredWhole, IInv, TypeOK
<1>7. QED BY <1>2, <1>3, <1>4, <1>5, <1>6 DEF IInv, Evidence

\* Losing a row, or restoring one or the message from another execution, is such damage.
LEMMA FaultHolds ==
  ASSUME IInv, LoseRow \/ \E f \in Exec : RestoreRow(f) \/ RestoreOutbox(f)
  PROVE  IInv'
<1>1. artifacts \subseteq Rows /\ \A r, s \in artifacts : r.ref = s.ref => r = s
  BY DEF IInv, TypeOK, RefsOnce
<1>2. OutboxReady /\ outbox \in Records \cup {None}
  BY DEF IInv, Evidence, TypeOK
<1>3. CASE LoseRow
  <2>1. PICK r \in artifacts : artifacts' = artifacts \ {r}
    BY <1>3 DEF LoseRow
  <2>2. Keeps
    BY <1>3 DEF LoseRow, Keeps
  <2>3. OutboxReady'
    BY <1>2, <1>3, <2>2, OutboxStays DEF LoseRow
  <2>4. QED BY <1>1, <1>2, <1>3, <2>1, <2>3, DamageHolds DEF LoseRow
<1>4. ASSUME NEW f \in Exec, RestoreRow(f) PROVE IInv'
  <2>1. PICK r \in artifacts, s \in Objects(f) :
          s.ref = r.ref /\ artifacts' = (artifacts \ {r}) \cup {s}
    BY <1>4 DEF RestoreRow
  <2>2. Keeps
    BY <1>4 DEF RestoreRow, Keeps
  <2>3. OutboxReady'
    BY <1>2, <1>4, <2>2, OutboxStays DEF RestoreRow
  <2>4. Sealed(f)
    BY <1>4 DEF RestoreRow, IInv, Progress, Sealed
  <2>5. s \in Rows
    BY <2>1, <2>4, ObjectsAreRows DEF IInv
  <2>6. QED BY <1>1, <1>2, <1>4, <2>1, <2>3, <2>5, DamageHolds DEF RestoreRow
<1>5. ASSUME NEW f \in Exec, RestoreOutbox(f) PROVE IInv'
  <2>1. outbox # None /\ outbox' = [outbox EXCEPT !.message = Ready(f)] /\ bundle[f] # None
    BY <1>5 DEF RestoreOutbox, Ready
  <2>2. Keeps
    BY <1>5 DEF RestoreOutbox, Keeps
  <2>3. Sealed(f)
    BY <2>1 DEF IInv, Progress, Sealed
  <2>4. Ready(f) \in Messages
    BY <2>3, ObjectsAreRows DEF IInv
  <2>5. outbox' \in Records /\ outbox'.message = Ready(f)
    BY <1>2, <2>1, <2>4 DEF Records
  <2>6. Ready(f)' = Ready(f) /\ bundle'[f] # None
    BY <2>1, <2>2, SealedStays
  <2>7. OutboxReady'
    BY <2>5, <2>6 DEF OutboxReady
  <2>8. QED BY <1>1, <1>5, <2>5, <2>7, DamageHolds DEF RestoreOutbox
<1>6. QED BY <1>3, <1>4, <1>5

-----------------------------------------------------------------------------
(* The theorems.                                                             *)

\* Before anything is calculated the store is empty.
LEMMA InitHolds ==
  ASSUME Init PROVE IInv
<1>1. TypeOK
  BY DEF Init, TypeOK
<1>2. Progress /\ RefsOnce /\ OneWriter /\ Evidence
  BY <1>1 DEF Init, TypeOK, Progress, Sealed, RefsOnce, OneWriter, Evidence, StoredWhole,
     OutboxReady,
     VerifiedIsOneExecution
<1>3. QED BY <1>1, <1>2 DEF IInv

\* Every step preserves the invariant.
LEMMA NextHolds ==
  ASSUME IInv, [Next]_vars PROVE IInv'
<1>1. CASE UNCHANGED vars
  <2>1. UNCHANGED <<claim, maths, pc, command, bundle, receipt, answer, store, faults>>
    BY <1>1 DEF vars, store, faults
  <2>2. Keeps
    BY <2>1 DEF Keeps
  <2>3. TypeOK' /\ Progress' /\ RefsOnce'
    BY <2>1 DEF IInv, TypeOK, Progress, Sealed, RefsOnce, store, faults
  <2>4. OneWriter'
    BY <2>1, <2>2, WriterStays DEF IInv, store
  <2>5. Evidence'
    BY <2>1, <2>2, EvidenceStays DEF IInv, store, faults
  <2>6. QED BY <2>3, <2>4, <2>5 DEF IInv
<1>2. ASSUME NEW e \in Exec, Step(e) PROVE IInv'
  BY <1>2, FindOutboxHolds, AdmitHolds, CalculateHolds, BeginHolds, WriteArtifactHolds,
     WriteOutboxHolds, CommitHolds, ReadBackHolds, VerifyHolds, AcknowledgeHolds DEF Step
<1>3. QED BY <1>1, <1>2, CrashHolds, FaultHolds DEF Next

\* Whatever executions run into each other, die or meet a damaged store.
THEOREM Invariance == Spec => []IInv
<1>1. Init => IInv
  BY InitHolds
<1>2. IInv /\ [Next]_vars => IInv'
  BY NextHolds
<1>3. QED BY <1>1, <1>2, PTL DEF Spec

\* While no row is damaged the store holds nothing, or everything one execution
\* wrote and the message that binds it
\* (SqliteInventoryEvidenceUnitOfWork.commit).
THEOREM StoresAreWhole == Spec => []StoredWhole
<1>1. IInv => StoredWhole
  BY DEF IInv, Evidence
<1>2. QED BY <1>1, Invariance, PTL

\* What a verification accepts is what one execution sealed, whatever rows were
\* lost, replaced or restored (ReadAndVerifyInventoryResultBundleUseCase).
THEOREM AnswersAreOneExecution == Spec => []VerifiedIsOneExecution
<1>1. IInv => VerifiedIsOneExecution
  BY DEF IInv, Evidence
<1>2. QED BY <1>1, Invariance, PTL

\* What the children of a calculation whose required part suffices come to: every
\* optional one can be stated failed, and children that can be compared make a
\* bundle bound to the claim.  Only decimal rates and a child that the command
\* resolved can hinder the comparison.
LEMMA RequiredCalculated ==
  ASSUME IInv, RequiredSuffices, NEW cmd \in Commands,
         NEW p \in [Challengers -> PpoOutcomes], NEW s \in [Scenarios -> StressOutcomes]
  PROVE  LET optional == ChallengerChildren(cmd, p) \cup ScenarioChildren(cmd, s)
             children == Required \cup optional
         IN /\ \A c \in optional : Succeeded(c) \/ FailureAllowed(c)
            /\ BoundToClaim(BundleOf(children))
            /\ Compared(children) \/ /\ claim.rates = "decimal"
                                     /\ cmd.challengers \cup cmd.scenarios # {}
<1> DEFINE optional == OptionalChildren(cmd, p, s)
           children == Required \cup optional
<1>1. optional = ChallengerChildren(cmd, p) \cup ScenarioChildren(cmd, s)
  BY DEF OptionalChildren
<1>2. maths.content \in {"whole", "fraction"} /\ maths.content \notin {"raises", "short"}
  BY DEF RequiredSuffices
<1>3. \A c \in optional : Succeeded(c) \/ FailureAllowed(c)
  BY OptionalSound DEF Sound
<1>4. /\ \A k \in children : k \in Children /\ ChildValid(k)
      /\ \A k \in children : Succeeded(k) => k.content \in {"whole", "fraction"}
      /\ \A k, l \in children : k.id = l.id => k = l
      /\ {k.id : k \in children} = Identities
      /\ \A k \in children : k.id \in {BaselineId, MathematicalId} => Succeeded(k)
  BY <1>2, ChildrenSound
<1>5. \A k \in Required : Succeeded(k) => k.content # "short" /\ CostStated(k.content)
  BY <1>2 DEF Required, RequiredSuffices, SuccessfulChild, CostStated
<1>6. cmd.challengers \cup cmd.scenarios = {} => \A k \in optional : ~Succeeded(k)
  BY DEF OptionalChildren, ChallengerChildren, ScenarioChildren, PpoChild, StressChild,
     Isolated, Raised, FailedChild, Succeeded
<1>7. optional \subseteq children
  OBVIOUS
<1>8. \A k \in children : k \in Required \/ k \in optional
  OBVIOUS
<1> HIDE DEF optional, children
<1>9. CASE claim.rates # "decimal"
  <2>1. Compared(children)
    BY <1>4, <1>9 DEF Compared, CostStated
  <2>2. BoundToClaim(BundleOf(children))
    BY <1>4, BundleSound DEF IInv, RequiredSuffices
  <2>3. QED BY <1>1, <1>3, <2>1, <2>2 DEF children
<1>10. CASE claim.rates = "decimal"
  <2>1. cmd.challengers \cup cmd.scenarios = {} => Compared(children)
    BY <1>5, <1>6, <1>8 DEF Compared
  <2>2. BoundToClaim(BundleOf(children))
    BY <1>4, BundleSound DEF IInv, RequiredSuffices
  <2>3. QED BY <1>1, <1>3, <1>10, <2>1, <2>2 DEF children
<1>11. QED BY <1>9, <1>10

\* A calculation whose required part suffices seals its bundle, whatever becomes
\* of the optional children, unless rates with decimals meet one of them.
LEMMA RequiredSeals ==
  ASSUME IInv, NEW e \in Exec, Calculate(e), RequiredSuffices
  PROVE  \/ Goto(e, "persist")
         \/ /\ Goto(e, "uncompared")
            /\ claim.rates = "decimal"
            /\ command[e].challengers \cup command[e].scenarios # {}
<1>1. PICK cmd \in Commands : cmd = command[e]
  BY DEF IInv, Progress, Calculate
<1>2. maths.content \notin {"raises", "short"}
  BY DEF RequiredSuffices
<1>3. QED BY <1>1, <1>2, RequiredCalculated DEF Calculate

\* Whatever challengers and scenarios raise or return, a Run whose required
\* children succeed is ended by them in one way only: the un-isolated comparison
\* of a resolved child with a cost profile whose rates have decimals.
THEOREM OptionalChildrenFailAlone == Spec => []OptionalEndsRunByCostOnly
<1>1. Init => OptionalEndsRunByCostOnly
  BY DEF Init, OptionalEndsRunByCostOnly
<1>2. IInv /\ OptionalEndsRunByCostOnly /\ [Next]_vars => OptionalEndsRunByCostOnly'
  <2> DEFINE Lost == {"uncalculated", "uncompared"}
  <2>1. SUFFICES ASSUME IInv, OptionalEndsRunByCostOnly, [Next]_vars,
                        NEW e \in Exec, pc'[e] \in Lost, RequiredSuffices'
                 PROVE  /\ pc'[e] = "uncompared"
                        /\ claim'.rates = "decimal"
                        /\ command'[e].challengers \cup command'[e].scenarios # {}
    BY DEF OptionalEndsRunByCostOnly
  <2>2. claim' = claim /\ maths' = maths
    BY <2>1 DEF vars, Next, Step, FindOutbox, Admit, Calculate, Begin, WriteArtifact, WriteOutbox,
       Commit, ReadBack, Verify, Acknowledge, Crash, LoseRow, RestoreRow, RestoreOutbox
  <2>3. RequiredSuffices
    BY <2>1, <2>2 DEF RequiredSuffices, CostStated
  <2>4. CASE pc[e] \in Lost
    <3>1. \A f \in Exec : Admit(f) => f # e
      BY <2>4 DEF Admit
    <3>2. command'[e] = command[e]
      BY <2>1, <3>1 DEF vars, Next, Step, FindOutbox, Admit, Calculate, Begin, WriteArtifact,
         WriteOutbox, Commit, ReadBack, Verify, Acknowledge, Crash, LoseRow, RestoreRow,
         RestoreOutbox, IInv, TypeOK
    <3>3. pc'[e] = pc[e]
      <4>1. ASSUME NEW f \in Exec, Step(f) \/ Crash(f)
            PROVE  f # e /\ \E to : Goto(f, to) \/ pc' = pc
        BY <2>4, <4>1 DEF Step, FindOutbox, Admit, Calculate, Begin, WriteArtifact, WriteOutbox,
           Commit, ReadBack, Verify, Acknowledge, Crash, Ended
      <4>2. ASSUME NEW f \in Exec, RestoreRow(f) \/ RestoreOutbox(f)
            PROVE  pc' = pc
        BY <4>2 DEF RestoreRow, RestoreOutbox
      <4>3. LoseRow \/ UNCHANGED vars => pc' = pc
        BY DEF LoseRow, vars
      <4>4. ASSUME NEW f \in Exec, f # e, NEW to, Goto(f, to)
            PROVE  pc'[e] = pc[e]
        BY <4>4 DEF Goto, IInv, TypeOK
      <4>5. QED BY <2>1, <4>1, <4>2, <4>3, <4>4 DEF Next
    <3>4. QED BY <2>1, <2>2, <2>3, <2>4, <3>2, <3>3 DEF OptionalEndsRunByCostOnly
  <2>5. CASE pc[e] \notin Lost
    <3>1. Calculate(e)
      <4>1. ASSUME NEW f \in Exec, Step(f), ~Calculate(f)
            PROVE  pc' = pc \/ \E to : to \notin Lost /\ Goto(f, to)
        <5>1. CASE FindOutbox(f) \/ Admit(f) \/ Begin(f)
          BY <5>1 DEF FindOutbox, Admit, Begin
        <5>2. CASE WriteArtifact(f) \/ WriteOutbox(f) \/ Commit(f)
          BY <5>2 DEF WriteArtifact, WriteOutbox, Commit
        <5>3. CASE ReadBack(f) \/ Verify(f) \/ Acknowledge(f)
          BY <5>3 DEF ReadBack, Verify, Acknowledge
        <5>4. QED BY <4>1, <5>1, <5>2, <5>3 DEF Step
      <4>2. ASSUME NEW f \in Exec, Crash(f)
            PROVE  Goto(f, "dead")
        BY <4>2 DEF Crash
      <4>3. pc' # pc
        BY <2>1, <2>5
      <4>4. ASSUME NEW f \in Exec, NEW to, to \notin Lost, Goto(f, to)
            PROVE  FALSE
        BY <2>1, <2>5, <4>4 DEF Goto, IInv, TypeOK
      <4>5. ASSUME NEW f \in Exec, Calculate(f)
            PROVE  f = e
        <5>1. pc' = pc \/ \E to : Goto(f, to)
          BY <4>5 DEF Calculate
        <5>2. QED BY <2>1, <2>5, <5>1 DEF Goto, IInv, TypeOK
      <4>6. \A f \in Exec : ~RestoreRow(f) /\ ~RestoreOutbox(f)
        BY <4>3 DEF RestoreRow, RestoreOutbox
      <4>7. ~LoseRow /\ ~UNCHANGED vars
        BY <4>3 DEF LoseRow, vars
      <4>8. PICK f \in Exec : Step(f) \/ Crash(f)
        BY <2>1, <4>6, <4>7 DEF Next
      <4>9. QED BY <4>1, <4>2, <4>3, <4>4, <4>5, <4>8
    <3>2. command' = command
      BY <3>1 DEF Calculate
    <3>3. \A to : Goto(e, to) => pc'[e] = to
      BY <2>1 DEF Goto, IInv, TypeOK
    <3>4. QED BY <2>1, <2>2, <2>3, <3>1, <3>2, <3>3, RequiredSeals
  <2>6. QED BY <2>4, <2>5
<1>3. QED BY <1>1, <1>2, Invariance, PTL DEF Spec
=============================================================================
