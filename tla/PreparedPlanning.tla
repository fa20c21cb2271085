--------------------------- MODULE PreparedPlanning ---------------------------
(***************************************************************************)
(* The projections of PsiPlanning over inputs that InputPreparation admits:  *)
(* a Run starts once its claim and the canonical set agree, and plans every  *)
(* item of the set.  The worlds without a request start from any prepared    *)
(* input at all.                                                             *)
(*                                                                          *)
(* The facts behind a claim are what happened in the warehouse and what was  *)
(* promised.  They are not read by the code: the property compares the plan  *)
(* with them.                                                                *)
(***************************************************************************)
EXTENDS PsiPlanning, InputPreparation

allVars == <<vars, inputVars>>

NoRequest == given = Nothing

-----------------------------------------------------------------------------
(* What the projections read of the canonical set.                          *)

\* The last day of a bucket.
End(c, b) == c.snapshots["calendar"].rows[b].end

PlanPolicy(c, i, b) ==
  LET r == CHOOSE q \in PolicyAt(c.snapshots["policies"].rows, i, Start[b]) : TRUE
  IN [lead |-> r.lead, multiple |-> r.multiple, moq |-> r.moq, cap |-> r.cap]

PlanOf(c, i) ==
  LET position == CHOOSE r \in c.snapshots["inventory"].rows : r.item = i
  IN [stock   |-> [available |-> position.available, reserved |-> position.reserved,
                   backorder |-> position.backorder],
      demand  |-> [b \in Bucket |-> DemandOf(c, i, b)],
      receipt |-> [b \in Bucket |-> Expected(c, i, Start[b], End(c, b))],
      policy  |-> [b \in Bucket |-> PlanPolicy(c, i, b)]] @@ Request.controls

-----------------------------------------------------------------------------
PreparedInit ==
  \/ given = Nothing /\ desk = <<>> /\ Init
  \/ /\ given \in World /\ desk = given.desk
     /\ plan = Nothing /\ phase = "WAITING" /\ baseline = <<>> /\ rows = <<>>
     /\ pending = Nothing /\ orders = {}

InputInit ==
  /\ PreparedInit
  /\ composed = <<>>
  /\ producer = IF NoRequest THEN "CLAIMED" ELSE "READING"
  /\ catalog = IF NoRequest THEN <<>> ELSE given.catalog
  /\ crashed = FALSE

\* The Platform claims what was published; outside development others publish the set.
InputReady ==
  producer = IF Deployment.environment = "DEVELOPMENT" THEN "PUBLISHED" ELSE "PREPARED"

StartRun ==
  /\ phase = "WAITING" /\ InputReady
  /\ RunAdmitted(given.claim, given.policies, Canonical)
  /\ \E i \in Universe(Canonical) :
       /\ plan' = PlanOf(Canonical, i)
       /\ pending' = [confirmed |-> plan'.receipt, recommended |-> [b \in Bucket |-> 0]]
  /\ phase' = "BASELINE"
  /\ producer' = "CLAIMED"
  /\ UNCHANGED <<baseline, rows, orders, given, desk, composed, catalog, crashed>>

RefuseRun ==
  /\ phase = "WAITING" /\ InputReady
  /\ ~RunAdmitted(given.claim, given.policies, Canonical)
  /\ producer' = "REFUSED"
  /\ UNCHANGED <<vars, given, desk, composed, catalog, crashed>>

Prepare == ReadSource \/ PrepareInput \/ PublishNext \/ CrashProducer \/ Recollect

PreparedNext ==
  \/ Next /\ UNCHANGED inputVars
  \/ ~NoRequest /\ phase = "WAITING" /\ Prepare /\ UNCHANGED vars
  \/ StartRun
  \/ RefuseRun

PreparedSpec == InputInit /\ [][PreparedNext]_allVars

-----------------------------------------------------------------------------
(* Properties.                                                              *)

Facts == given.facts

\* What lay in the warehouse at the cutoff: everything that had moved by then.
StockAtCutoff(i) ==
  Facts.base[i] + MapThenSumSet(LAMBDA m : m.qty,
                                {m \in Facts.moves : m.item = i /\ m.at <= Facts.cut})

\* Supply that a vendor has promised and that had not come by the cutoff.
Promised(i, first, last) ==
  MapThenSumSet(LAMBDA p : p.qty,
    {p \in Facts.purchases : /\ p.item = i /\ p.promised /\ p.arrived > Facts.cut
                             /\ first <= p.due /\ p.due <= last})

Wanted(i, b) == MapThenSumSet(LAMBDA o : o.qty, {o \in Facts.sold : o.item = i /\ o.week = b})

\* A forecast is for all that will be asked for: what is ordered already is part of it.
TruePlan(i) ==
  LET next(b) == IF b = Horizon THEN Facts.end ELSE Start[b + 1] - 1
  IN [stock   |-> [available |-> StockAtCutoff(i) - Facts.reserved[i],
                   reserved |-> Facts.reserved[i], backorder |-> Facts.backorder[i]],
      demand  |-> [b \in Bucket |->
                     [order |-> Wanted(i, b), forecast |-> Most(0, Facts.outlook[i] - Wanted(i, b))]],
      receipt |-> [b \in Bucket |-> Promised(i, Start[b], next(b))],
      policy  |-> Facts.terms[i]] @@ Request.controls

\* A Run plans with the facts: whatever document was late, replaced while the others
\* were read, made against another, of another scope or unit, or claimed for another
\* Run, the input of a plan that runs is the stock at the cutoff, the demand still to
\* come, the supply still to come and the terms in force.
PlanIsTrue == ~NoRequest /\ phase # "WAITING" => \E i \in Facts.items : plan = TruePlan(i)

\* What is published is the whole set, and a producer that is started again, whatever
\* the sources answer by then, never runs into its own files.
PublishedWhole ==
  /\ producer = "PUBLISHED" => \A n \in DOMAIN SiteOrder : Stored(SiteOrder[n])
  /\ producer = "CONFLICT" => given.catalog # <<>>

\* The input of a projection is accounted for: the plan is true, and what it was made
\* of is published as a whole.
InputAccounted == PlanIsTrue /\ PublishedWhole
=============================================================================
