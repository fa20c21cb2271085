--------------------------------- MODULE RunCost ---------------------------------
(***************************************************************************)
(* The landed cost of the orders of a Run, on top of PsiEvidence: what the   *)
(* claim pins, how every accepted order becomes a shipment with a price     *)
(* (run_inventory/landed_cost_pipeline.py), the evidence sealed over them,  *)
(* and the verification every later read makes                              *)
(* (inventory_evidence/run_cost.py).  A shipment of several lines is priced *)
(* and persisted on its own (calculate_landed_cost/artifacts.py).           *)
(*                                                                          *)
(* The inputs are resolved before the projection runs.  It reads nothing of *)
(* them and they are immutable, so resolving them after it is the same.     *)
(* A hash is the content it is taken of.  A Run has one item, a baseline,   *)
(* one recommendation and one challenger that failed.                       *)
(***************************************************************************)
EXTENDS PsiEvidence

CONSTANTS
  ChargeTypes,
  CostPlans,     \* plans whose Run is claimed with costs
  CostProposals, \* bounds what such a Run is proposed, by week
  Claims,        \* [input, content, asOf, profile] a Run may be claimed with
  OtherClaims,   \* those of the Runs whose documents may be mistaken for its own
  Revisions,     \* [content, valuation, environment] the Platform may answer
  Consignments   \* [revision, shipment] that may be persisted on their own

INSTANCE LandedCost

\* A Run is claimed with an input, a consignment is a shipment, and a revision
\* is nothing but its content, the day it is projected for and its environment.
ASSUME ClaimAssumption ==
  /\ \A c \in Claims : /\ "input" \in DOMAIN c /\ "shipment" \notin DOMAIN c
                       /\ c.input.template # None => "judgment" \in DOMAIN c.input.template
  /\ \A c \in Consignments : "shipment" \in DOMAIN c /\ "input" \notin DOMAIN c
  /\ \A r \in Revisions : r = [content |-> r.content, valuation |-> r.valuation,
                                environment |-> r.environment]

\* The numbers of a source: none is negative, and a bound or a rate that its
\* record does not need is not given.
SourceNumbers(content) ==
  /\ IsFiniteSet(content)
  /\ \A x \in content :
       /\ x.domain = "CUSTOMS_FX" => x.value.rate \in Nat
       /\ x.domain = "IMPORT_TAX_PROFILE" => x.value.rate \in Nat
       /\ x.domain = "ITEM_PHYSICAL_ATTRIBUTE" => x.value.weight \in Nat
       /\ x.domain = "LANE_CHARGE" =>
            x.value.amount \in Nat /\ {x.value.least, x.value.most} \subseteq Nat \cup {None}
       /\ x.domain = "CUSTOMS_TARIFF" =>
            {x.value.rate, x.value.specific, x.value.least, x.value.most} \subseteq Nat \cup {None}

\* A shipment as its contract reads one.
ShipmentRead(s) ==
  /\ {"lines", "rounding", "basis"} \subseteq DOMAIN s
  /\ s.lines \in Seq({s.lines[l] : l \in DOMAIN s.lines})
  /\ s.rounding \in {"HALF_UP", "HALF_EVEN", "DOWN", "UP"}
  /\ s.basis \in {"CUSTOMS_VALUE", "QUANTITY", "WEIGHT"}
  /\ \A l \in DOMAIN s.lines :
       LET line == s.lines[l]
       IN /\ {"quantity", "value", "charges"} \subseteq DOMAIN line
          /\ line.quantity \in Nat /\ line.value \in Nat /\ IsFiniteSet(line.charges)
          /\ \A c \in line.charges : "amount" \in DOMAIN c /\ c.amount \in Nat

\* What is claimed has passed the contracts it is read by.
ASSUME NumberAssumption ==
  /\ ChargeTypes \cap {"TRANSACTION_VALUE", "CUSTOMS_DUTY", "IMPORT_VAT"} = {}
  /\ \A c \in Claims :
       /\ SourceNumbers(c.content)
       /\ c.input.template # None => ShipmentRead(c.input.template)
       /\ c.profile \in [holding : Nat, backorder : Nat, fixed : Nat, variable : Nat]
  /\ \A c \in Consignments : SourceNumbers(c.revision.content) /\ ShipmentRead(c.shipment)

VARIABLES
  stage,       \* IDLE, RESOLVED, BUILT, STORED, ANSWERED, REFUSED or FAILED
  claim,       \* what the Run is claimed with, or the consignment
  revision,    \* the revision that was resolved
  evidence,    \* documents by reference, as they were built
  store,       \* documents by reference, as they are stored
  calculator,  \* the calculator that is installed
  answer       \* the documents a verification read

costVars == <<stage, claim, revision, evidence, store, calculator, answer>>
runVars == <<evidenceVars, costVars>>

-----------------------------------------------------------------------------
(* What the claim pins.                                                     *)

\* validate_run_cost_claim, over an input that is valid on its own.
InputFits(c) ==
  /\ c.input.content = c.content
  /\ c.input.valuation = c.asOf
  /\ c.input.profile = c.profile
  /\ c.input.template # None =>
       /\ c.input.template.currency = c.input.currency
       /\ c.input.template.judgment = c.input.judgment
       /\ Len(c.input.template.lines) = 1
       /\ c.input.template.lines[1].quantity = 1

\* validate_trade_cost_projection_runtime_binding: a revision is pinned by its
\* content, and is projected for the day of the claim.
RevisionFits(c, r) ==
  /\ r.content = c.content
  /\ r.valuation = c.asOf
  /\ r.environment = "DEVELOPMENT"

-----------------------------------------------------------------------------
(* The evidence.                                                            *)

Accepted(ds) == {w \in DOMAIN ds : ds[w].validation.accepted > 0}

\* A line of one unit, as many times over.
LineOf(unit, quantity) ==
  [unit EXCEPT !.quantity = quantity, !.value = @ * quantity,
               !.charges = {[c EXCEPT !.amount = @ * quantity] : c \in unit.charges}]

\* The shipment of an order: the template of one unit, as many times over.
Shipment(template, quantity) ==
  [template EXCEPT !.lines = <<LineOf(@[1], quantity)>>]

\* What the projection cost to run: holding, backorders and orders.
OperatingCost(psi, ds, profile) ==
  profile.holding * Total([b \in DOMAIN psi |-> psi[b].onHandClose], DOMAIN psi)
  + profile.backorder * Total([b \in DOMAIN psi |-> psi[b].backorderClose], DOMAIN psi)
  + profile.fixed * Cardinality(Accepted(ds))
  + profile.variable * Total([w \in DOMAIN ds |-> ds[w].validation.accepted], DOMAIN ds)

Unavailable(ds, why) ==
  [status |-> "NOT_AVAILABLE", total |-> None, why |-> why,
   orders |-> Cardinality(Accepted(ds))]

\* The prices of the orders of a child, by the week they were placed in.
Prices(input, r, ds) ==
  [w \in IF input.template = None THEN {} ELSE Accepted(ds) |->
     PriceShipment(r, Shipment(input.template, ds[w].validation.accepted))]

\* Defect: an order without a price is left out of the total.
MetricOfPriced(prices, psi, ds, profile) ==
  LET priced == {w \in DOMAIN prices : prices[w].status = "CALCULABLE"}
  IN [status |-> "AVAILABLE", why |-> "", orders |-> Cardinality(Accepted(ds)),
      total |-> OperatingCost(psi, ds, profile)
                + Total([w \in priced |-> prices[w].net], priced)]

\* A child has a total only when every order of it has a price.
Metric(prices, psi, ds, profile) ==
  IF \A w \in Accepted(ds) : w \in DOMAIN prices /\ prices[w].status = "CALCULABLE"
  THEN [status |-> "AVAILABLE", why |-> "", orders |-> Cardinality(Accepted(ds)),
        total |-> OperatingCost(psi, ds, profile)
                  + Total([w \in Accepted(ds) |-> prices[w].net], Accepted(ds))]
  ELSE Unavailable(ds, "LANDED_COST_NOT_CALCULABLE_OR_TEMPLATE_MISSING")

\* Each candidate against the baseline, which orders nothing.
CostDelta(base, candidate) ==
  IF base.status = "AVAILABLE" /\ candidate.status = "AVAILABLE"
  THEN [status |-> "AVAILABLE", delta |-> candidate.total - base.total, why |-> ""]
  ELSE [status |-> "NOT_AVAILABLE", delta |-> None,
        why |-> IF candidate.why = "" THEN base.why ELSE candidate.why]

\* What the projections of the Run came to.
Results == [baseline |-> BaselineChild, recommended |-> Child]

Metrics(results, prices, profile) ==
  [baseline |-> Metric(<<>>, results.baseline.psi, <<>>, profile),
   recommended |-> Metric(prices, results.recommended.psi,
                          results.recommended.action.decisions, profile),
   challenger |-> Unavailable(<<>>, "CANDIDATE_RESULT_FAILED")]

\* The documents of one shipment.  Its child is bound to the calculator.
ShipmentDocuments(run, r, s, key, by, price) ==
  [ref \in {"SHIPMENT", "PROJECTION", "CHILD"} \X {key} |->
     CASE ref[1] = "SHIPMENT" -> [run |-> run, body |-> s]
       [] ref[1] = "PROJECTION" -> [run |-> "ANY", body |-> r]
       [] ref[1] = "CHILD" -> [run |-> run, by |-> by, price |-> price]]

\* One order the program raises on fails the Run.
BuildRefused(prices) == \E w \in DOMAIN prices : prices[w].status = "REFUSED"

\* The documents of a Run that are of no shipment.
Sources == {"MANIFEST", "INPUT", "PROJECTION", "PROFILE"} \X {0}

\* build_run_cost_evidence: the sources, the shipment of every order, and the
\* manifest over them.
CostEvidence(run, results, input, r, profile, by, prices) ==
  LET child == results.recommended
      of(w) == ShipmentDocuments(
                 run, r, Shipment(input.template, child.action.decisions[w].validation.accepted),
                 w, by, prices[w])
      metrics == Metrics(results, prices, profile)
      manifest == [run |-> run, input |-> input, projection |-> r, profile |-> profile,
                   psi |-> child, children |-> [w \in DOMAIN prices |-> of(w)[<<"CHILD", w>>]],
                   metrics |-> metrics,
                   comparisons |-> [c \in {"recommended", "challenger"} |->
                                      CostDelta(metrics.baseline, metrics[c])]]
      own == [MANIFEST |-> manifest, INPUT |-> [run |-> "ANY", body |-> input],
              PROJECTION |-> [run |-> "ANY", body |-> r],
              PROFILE |-> [run |-> "ANY", body |-> profile]]
      shipped == {"SHIPMENT", "PROJECTION", "CHILD"} \X DOMAIN prices
  IN [ref \in Sources \cup shipped |-> IF ref \in Sources THEN own[ref[1]] ELSE of(ref[2])[ref]]

-----------------------------------------------------------------------------
(* The verification.                                                        *)

\* Defect: what is stored is answered as it is, if all of it is there.
VerifiedAsStored(c, documents, by) ==
  Sources \subseteq DOMAIN documents

\* Every document that was built is there, and is that one.
AllAmong(expected, documents) ==
  \A ref \in DOMAIN expected : ref \in DOMAIN documents /\ documents[ref] = expected[ref]

\* verify_run_cost_evidence: the sources are read, everything is built again
\* from them, and every document has to be the one that was built.
Verified(c, documents, by) ==
  /\ Sources \subseteq DOMAIN documents
  /\ LET input == documents[<<"INPUT", 0>>].body
         r == documents[<<"PROJECTION", 0>>].body
         profile == documents[<<"PROFILE", 0>>].body
     IN /\ profile = c.profile
        /\ input = c.input /\ RevisionFits(c, r)
        /\ ~BuildRefused(Prices(input, r, decisions))
        /\ AllAmong(CostEvidence("THIS", Results, input, r, profile, by,
                              Prices(input, r, decisions)),
                 documents)

\* ReadAndVerifyLandedCostChildArtifactUseCase, for the shipment that was asked
\* for: what it read is the price of that shipment.
ShipmentVerified(c, documents, by) ==
  LET refs == {"SHIPMENT", "PROJECTION", "CHILD"} \X {0}
  IN /\ refs \subseteq DOMAIN documents
     /\ LET s == documents[<<"SHIPMENT", 0>>]
            r == documents[<<"PROJECTION", 0>>].body
        IN /\ s.run = "THIS" /\ s.body = c.shipment
           /\ documents[<<"CHILD", 0>>] = evidence[<<"CHILD", 0>>]
           /\ documents[<<"CHILD", 0>>]
                = [run |-> "THIS", by |-> by, price |-> PriceShipment(r, s.body)]

-----------------------------------------------------------------------------
(* The steps.                                                               *)

NoDocuments == [ref \in {} |-> None]

CostInit ==
  /\ EvidenceInit
  /\ stage = "IDLE" /\ claim = None /\ revision = None
  /\ evidence = NoDocuments /\ store = NoDocuments
  /\ calculator = 1 /\ answer = None

\* A step of the projection.
Project == stage = "IDLE" /\ EvidenceNext /\ UNCHANGED costVars

\* What the Platform may answer for a claim.
Offers(c) ==
  Revisions \cup {[content |-> c.content, valuation |-> c.asOf, environment |-> "DEVELOPMENT"]}

\* The resolver reads what the claim names, or fails the Run.
Resolve(c, r) ==
  /\ stage = "IDLE" /\ source # None /\ slip = "NONE" /\ plan \in CostPlans
  /\ \A w \in DOMAIN decisions : decisions[w].proposal \in CostProposals[w]
  /\ claim' = c
  /\ IF InputFits(c) /\ RevisionFits(c, r)
     THEN stage' = "RESOLVED" /\ revision' = r
     ELSE stage' = "FAILED" /\ UNCHANGED revision
  /\ UNCHANGED <<evidenceVars, evidence, store, calculator, answer>>

\* The orders are priced, and the evidence is sealed in memory.
BuildEvidence ==
  /\ stage = "RESOLVED"
  /\ LET prices == Prices(claim.input, revision, decisions)
     IN IF BuildRefused(prices)
        THEN stage' = "FAILED" /\ UNCHANGED evidence
        ELSE /\ stage' = "BUILT"
             /\ evidence' = CostEvidence("THIS", Results, claim.input, revision,
                                         claim.profile, calculator, prices)
  /\ UNCHANGED <<evidenceVars, claim, revision, store, calculator, answer>>

\* It is verified again and committed with the bundle, in one transaction.
CommitEvidence ==
  /\ stage = "BUILT"
  /\ IF Verified(claim, evidence, calculator)
     THEN stage' = "STORED" /\ store' = evidence
     ELSE stage' = "FAILED" /\ UNCHANGED store
  /\ UNCHANGED <<evidenceVars, claim, revision, evidence, calculator, answer>>

\* A shipment is priced and persisted on its own, beside no projection.
PersistShipment(c) ==
  /\ stage = "IDLE" /\ phase = "BASELINE" /\ baseline = <<>> /\ plan \in CostPlans
  /\ claim' = c
  /\ LET price == PriceShipment(c.revision, c.shipment)
         built == ShipmentDocuments("THIS", c.revision, c.shipment, 0, calculator, price)
     IN IF price.status = "REFUSED"
        THEN stage' = "FAILED" /\ UNCHANGED <<evidence, store>>
        ELSE stage' = "STORED" /\ evidence' = built /\ store' = built
  /\ UNCHANGED <<evidenceVars, revision, calculator, answer>>

\* A later read, of a redispatch or of the publication.
Read ==
  LET holds == IF "shipment" \in DOMAIN claim THEN ShipmentVerified(claim, store, calculator)
                                              ELSE Verified(claim, store, calculator)
  IN /\ stage = "STORED"
     /\ IF holds THEN stage' = "ANSWERED" /\ answer' = store
                 ELSE stage' = "REFUSED" /\ UNCHANGED answer
     /\ UNCHANGED <<evidenceVars, claim, revision, evidence, store, calculator>>

\* Once, a document is not the one that was stored any more.
Damage(documents) ==
  /\ stage = "STORED" /\ store = evidence /\ calculator = 1
  /\ store' = documents
  /\ UNCHANGED <<evidenceVars, stage, claim, revision, evidence, calculator, answer>>

LoseDocument == \E ref \in DOMAIN store : Damage(Restrict(store, DOMAIN store \ {ref}))

\* It is the one of another order, or of a Run with another claim.
MisplaceDocument ==
  \E ref, other \in DOMAIN store :
    ref # other /\ ref[1] = other[1] /\ Damage([store EXCEPT ![ref] = store[other]])

ForeignDocument(c) ==
  LET r == [content |-> c.content, valuation |-> c.asOf, environment |-> "DEVELOPMENT"]
      prices == Prices(c.input, r, decisions)
      foreign == CostEvidence("OTHER", Results, c.input, r, c.profile, calculator, prices)
  IN /\ stage = "STORED" /\ "input" \in DOMAIN claim
     /\ InputFits(c) /\ ~BuildRefused(prices)
     /\ \E ref \in DOMAIN store \cap DOMAIN foreign :
          Damage([store EXCEPT ![ref] = foreign[ref]])

\* The calculator is replaced by a newer one.
Upgrade ==
  /\ stage = "STORED" /\ store = evidence /\ calculator = 1
  /\ calculator' = 2
  /\ UNCHANGED <<evidenceVars, stage, claim, revision, evidence, store, answer>>

CostNext ==
  \/ Project
  \/ \E c \in Claims : \E r \in Offers(c) : Resolve(c, r)
  \/ BuildEvidence
  \/ CommitEvidence
  \/ \E c \in Consignments : PersistShipment(c)
  \/ Read
  \/ LoseDocument
  \/ MisplaceDocument
  \/ \E c \in OtherClaims : ForeignDocument(c)
  \/ Upgrade

CostSpec == CostInit /\ [][CostNext]_runVars

-----------------------------------------------------------------------------
(* Properties.                                                              *)

\* The evidence, when it is sealed: no step changes it afterwards.
Costed == stage = "BUILT" \/ (stage = "STORED" /\ store = evidence)
OfRun == Costed /\ "input" \in DOMAIN claim
Manifest == evidence[<<"MANIFEST", 0>>]

\* The records of the claimed content that anyone could have known when the
\* cost was judged, and that were in force on the day it was valued.
Foreseen(content, day, judgment) ==
  LET by(d) == d = None \/ d <= judgment
      on(p) == p.from <= day /\ (p.to = None \/ day < p.to)
  IN {r \in content : /\ on(r) /\ r.doc # None
                      /\ on(r.doc) /\ r.doc.collected <= judgment /\ by(r.doc.published)}

\* No hindsight: whatever the Platform answers, a sealed cost is the one that
\* follows from the claimed input, the claimed profile and, of the claimed
\* revision, only what was known and in force.  A later record, or one of
\* another day, moves no price.
PricedAsClaimed ==
  OfRun /\ claim.input.template # None =>
    Manifest.metrics =
      Metrics(Results,
              Prices(claim.input,
                     [content |-> Foreseen(claim.content, claim.asOf, claim.input.judgment),
                      valuation |-> claim.asOf, environment |-> "DEVELOPMENT"],
                     decisions),
              claim.profile)

\* The amount of a type that a line of a price bears.
Bears(price, l, type) == (CHOOSE p \in price.rows[l].parts : p.type = type).amount

\* An amount is paid once, no line a unit more or less than its proportion of it.
PaidOnce(bears, paid, factor) ==
  LET whole == Total(factor, DOMAIN factor)
  IN /\ Total(bears, DOMAIN factor) = paid
     /\ \A l \in DOMAIN factor : /\ bears[l] * whole < paid * factor[l] + whole
                                 /\ paid * factor[l] < bears[l] * whole + whole

\* All of it, of every line and every lane, or none.
WholeOrNothing(price, r, s) ==
  IF price.status # "CALCULABLE"
  THEN price.net = None /\ \A l \in DOMAIN price.rows : price.rows[l].parts = {}
  ELSE /\ price.net = Total([l \in DOMAIN s.lines |-> price.rows[l].net], DOMAIN s.lines)
       /\ \A lane \in Lanes(r, s) :
            PaidOnce([l \in DOMAIN s.lines |-> Bears(price, l, lane.value.type)],
                     LaneTotal(r, s, lane.value), [l \in DOMAIN s.lines |-> Factor(r, s, l)])

\* A shipment is priced whole or not at all: every charge of its lane is paid
\* once, no line bears a unit more or less than its proportion of it, and a
\* line that cannot be priced leaves no amount on the others.
ShipmentIsWhole ==
  Costed =>
    \A ref \in {ref \in DOMAIN evidence : ref[1] = "CHILD"} :
      WholeOrNothing(evidence[ref].price, evidence[<<"PROJECTION", ref[2]>>].body,
                     evidence[<<"SHIPMENT", ref[2]>>].body)

\* The saving of a recommendation is about what it does: it is stated only if
\* every order the projection placed has its price, for its own quantity, and
\* then it is the difference of the two projections plus those prices.
SavingAccountsForOrders ==
  OfRun =>
    LET saving == Manifest.comparisons["recommended"]
        priced == {ref[2] : ref \in {ref \in DOMAIN evidence :
                     ref[1] = "CHILD" /\ evidence[ref].price.status = "CALCULABLE"}}
        named == {[placed |-> w, quantity |-> evidence[<<"SHIPMENT", w>>].body.lines[1].quantity] :
                    w \in priced}
        placed == {[placed |-> o.placed, quantity |-> o.quantity] : o \in orders}
        held(s) == Total([b \in DOMAIN s |-> s[b].eoh + plan.stock.reserved], DOMAIN s)
        owed(s) == Total([b \in DOMAIN s |-> s[b].backorderClose], DOMAIN s)
    IN /\ (saving.status = "AVAILABLE") = (named = placed)
       /\ saving.status = "AVAILABLE" =>
            saving.delta =
              claim.profile.holding * (held(rows) - held(baseline))
              + claim.profile.backorder * (owed(rows) - owed(baseline))
              + claim.profile.fixed * Cardinality(orders)
              + Total([o \in orders |-> claim.profile.variable * o.quantity
                                        + evidence[<<"CHILD", o.placed>>].price.net], orders)

\* What a later read answers is what was sealed, document by document, and it
\* is refused only if a document was harmed or another calculator is installed.
CostReadIsCostSealed ==
  /\ stage = "ANSWERED" =>
       \A ref \in DOMAIN evidence : ref \in DOMAIN answer /\ answer[ref] = evidence[ref]
  /\ stage = "REFUSED" => store # evidence \/ calculator # 1
=============================================================================
