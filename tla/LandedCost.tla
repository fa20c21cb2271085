------------------------------- MODULE LandedCost -------------------------------
(***************************************************************************)
(* What a shipment costs by the time it has arrived, from the records of one *)
(* approved revision of the trade sources                                   *)
(* (calculate_landed_cost/{projection,application,artifacts}.py).           *)
(*                                                                          *)
(* A record is [domain, country, key, from, to, doc, value]: the period it  *)
(* is in effect, and the document it was taken from, None when the source   *)
(* has no such document.  A domain of a country has one source.  Amounts    *)
(* are naturals in the smallest unit of their currency, rates whole         *)
(* percents.  A shipment has its lines in the order of their ids.           *)
(*                                                                          *)
(* A missing decision BLOCKS a line: its evidence is kept without an amount.*)
(* A contradiction REFUSES the shipment: the program raises.                *)
(***************************************************************************)
EXTENDS Integers, Sequences, FiniteSets, FiniteSetsExt, Functions

CONSTANTS
  None,         \* a date, document, rate or bound that is not given
  ChargeTypes   \* the charges a shipment has to account for (CHARGE_TYPES)

-----------------------------------------------------------------------------
(* The records.                                                             *)

\* Records of a key in effect on a day.  A rate holds from its effective date.
InEffect(revision, domain, country, key) ==
  {r \in revision.content :
     /\ r.domain = domain /\ r.country = country /\ r.key = key
     /\ r.from <= revision.valuation
     /\ r.to = None \/ revision.valuation < r.to}

\* Defect: a document may be newer than the judgment.
KnownLater(r, revision, judgment) ==
  /\ r.doc # None
  /\ r.doc.from <= revision.valuation
  /\ r.doc.to = None \/ revision.valuation < r.doc.to

\* The document of a record was there when the cost was judged, and holds.
Known(r, revision, judgment) ==
  /\ r.doc # None
  /\ r.doc.collected <= judgment
  /\ r.doc.published = None \/ r.doc.published <= judgment
  /\ r.doc.from <= revision.valuation
  /\ r.doc.to = None \/ revision.valuation < r.doc.to

Fx(revision, s) == InEffect(revision, "CUSTOMS_FX", s.country, s.currency)
Taxes(revision, s) == InEffect(revision, "IMPORT_TAX_PROFILE", s.country, s.site)
Lanes(revision, s) == InEffect(revision, "LANE_CHARGE", s.country, s.lane)
Classes(revision, s, line) == InEffect(revision, "ITEM_CLASSIFICATION", s.country, line.item)
Origins(revision, line) == InEffect(revision, "ITEM_ORIGIN", "KR", line.item)
Physicals(revision, line) == InEffect(revision, "ITEM_PHYSICAL_ATTRIBUTE", "KR", line.item)

\* Tariffs are looked up for a line whose classification and origin are known.
Tariffs(revision, s, line) ==
  IF Origins(revision, line) = {} THEN {}
  ELSE UNION {InEffect(revision, "CUSTOMS_TARIFF", s.country, c.value.code) :
                c \in Classes(revision, s, line)}

\* Those that apply to the origin.
Rules(revision, s, line) ==
  {t \in Tariffs(revision, s, line) :
     t.value.origin = None \/ \E o \in Origins(revision, line) : t.value.origin = o.value.country}

Single(S) == IF S = {} THEN None ELSE (CHOOSE r \in S : TRUE).value

\* The newest rate of each currency into the currency of the shipment.
Quotes(revision, s) ==
  {r \in Fx(revision, s) :
     \A q \in Fx(revision, s) : q.value.of = r.value.of => q.from <= r.from}

Rate(revision, s, currency) ==
  IF currency = s.currency THEN 100
  ELSE LET quoted == {q \in Quotes(revision, s) : q.value.of = currency}
       IN IF quoted = {} THEN None ELSE Single(quoted).rate

-----------------------------------------------------------------------------
(* Money.                                                                   *)

\* numerator / denominator in whole units.
Round(n, d, mode) ==
  LET q == n \div d
      r == n % d
  IN CASE mode = "DOWN" -> q
       [] mode = "UP" -> IF r > 0 THEN q + 1 ELSE q
       [] mode = "HALF_UP" -> IF 2 * r >= d THEN q + 1 ELSE q
       [] mode = "HALF_EVEN" -> IF 2 * r > d \/ (2 * r = d /\ q % 2 = 1) THEN q + 1 ELSE q

Converted(revision, s, amount, currency) ==
  Round(amount * Rate(revision, s, currency), 100, s.rounding)

Amounts(parts) == SumFunction([p \in parts |-> p.amount])

\* Duty by value, by quantity or both, within the bounds of the rule.
Duty(rule, customs, quantity, mode) ==
  LET raw == (IF rule.rate = None THEN 0 ELSE customs * rule.rate)
             + (IF rule.specific = None THEN 0 ELSE quantity * rule.specific * 100)
      floored == IF rule.least = None THEN raw ELSE Max({raw, rule.least * 100})
      capped == IF rule.most = None THEN floored ELSE Min({floored, rule.most * 100})
  IN Round(capped, 100, mode)

\* The rates a duty method needs are given, and no others.
RuleValid(rule) ==
  /\ (rule.rate # None) = (rule.method \in {"AD_VALOREM", "COMPOUND"})
  /\ (rule.specific # None) = (rule.method \in {"SPECIFIC", "COMPOUND"})
  /\ rule.rate # None => rule.rate <= 100
  /\ rule.least # None /\ rule.most # None => rule.least <= rule.most

-----------------------------------------------------------------------------
(* One line.                                                                *)

Unpriced(status) ==
  [status |-> status, parts |-> {}, customs |-> None, gross |-> None,
   recoverable |-> None, net |-> None]

\* What stops a line, in the order the program asks.
BlockingStatus(revision, s, line, charges) ==
  LET tax == Single(Taxes(revision, s))
      currencies == {line.currency} \cup {c.currency : c \in charges}
  IN CASE Classes(revision, s, line) = {} -> "UNVERIFIED_CLASSIFICATION"
       [] Origins(revision, line) = {} -> "UNVERIFIED_ORIGIN"
       [] tax = None -> "UNVERIFIED_TAX_RECOVERABILITY"
       [] tax.recovery = "UNVERIFIED" -> "UNVERIFIED_TAX_RECOVERABILITY"
       [] \E c \in currencies : Rate(revision, s, c) = None -> "MISSING_EXCHANGE_RATE"
       [] Rules(revision, s, line) = {} -> "NOT_CALCULABLE"
       [] OTHER -> "CALCULABLE"

Part(type, amount, customs, gross, recoverable) ==
  [type |-> type, amount |-> amount, customs |-> customs, gross |-> gross,
   recoverable |-> recoverable]

\* The value of the goods, and the charges as they are.
Goods(revision, s, line) ==
  Part("TRANSACTION_VALUE", Converted(revision, s, line.value, line.currency), TRUE, TRUE, FALSE)
Charged(revision, s, charges) ==
  {Part(c.type, Converted(revision, s, c.amount, c.currency), c.customs, c.gross, c.recoverable) :
     c \in charges}

\* Duty is owed on the customs value, import tax on it and, for some, the duty.
Levies(customs, duty, tax, mode) ==
  LET base == IF tax.onDuty THEN customs + duty ELSE customs
      levies == {Part("CUSTOMS_DUTY", duty, FALSE, TRUE, FALSE),
                 Part("IMPORT_VAT", Round(base * tax.rate, 100, mode), FALSE, TRUE,
                      tax.recovery = "VERIFIED_RECOVERABLE")}
  IN {p \in levies : p.amount > 0}

Assessed(customs, parts) ==
  LET gross == Amounts({p \in parts : p.gross})
      recoverable == Amounts({p \in parts : p.recoverable})
  IN [status |-> "CALCULABLE", parts |-> parts, customs |-> customs, gross |-> gross,
      recoverable |-> recoverable, net |-> gross - recoverable]

\* The components of a line with what it already bears, and their totals.
Levied(s, line, bears, customs, tax, rule) ==
  Assessed(customs,
           bears \cup Levies(customs, Duty(rule, customs, line.quantity, s.rounding), tax,
                            s.rounding))

Calculated(revision, s, line, bears) ==
  Levied(s, line, bears, Amounts({p \in bears : p.customs}), Single(Taxes(revision, s)),
         Single(Rules(revision, s, line)))

\* A line with these charges.
Assess(revision, s, line, charges) ==
  LET status == BlockingStatus(revision, s, line, charges)
  IN IF status # "CALCULABLE" THEN Unpriced(status)
     ELSE IF \/ Converted(revision, s, line.value, line.currency) = 0
             \/ ~RuleValid(Single(Rules(revision, s, line)))
             \/ Single(Taxes(revision, s)).rate > 100 THEN Unpriced("REFUSED")
     ELSE Calculated(revision, s, line,
                     {Goods(revision, s, line)} \cup Charged(revision, s, charges))

-----------------------------------------------------------------------------
(* A charge of the whole shipment.                                          *)

\* Defect: the units that rounding down leaves go to nobody.
AllocateDown(total, factor) ==
  LET whole == SumFunction(factor)
  IN [l \in DOMAIN factor |-> (total * factor[l]) \div whole]

\* Largest remainder: rounded down, and the units left over go to the largest
\* fractions, the earlier line first.
Allocate(total, factor) ==
  LET whole == SumFunction(factor)
      down == [l \in DOMAIN factor |-> (total * factor[l]) \div whole]
      fraction(l) == (total * factor[l]) % whole
      ahead(l) == {k \in DOMAIN factor :
                     fraction(k) > fraction(l) \/ (fraction(k) = fraction(l) /\ k < l)}
      left == total - SumFunction(down)
  IN [l \in DOMAIN factor |-> IF Cardinality(ahead(l)) < left THEN down[l] + 1 ELSE down[l]]

\* What a lane charges for the shipment, within its bounds.
LaneTotal(revision, s, lane) ==
  LET worth(a) == Converted(revision, s, a, lane.currency)
      floored == IF lane.least = None THEN worth(lane.amount)
                 ELSE Max({worth(lane.amount), worth(lane.least)})
  IN IF lane.most = None THEN floored ELSE Min({floored, worth(lane.most)})

\* By what a charge is divided: the customs value each line has on its own,
\* its quantity, or its weight.
Factor(revision, s, l) ==
  LET line == s.lines[l]
  IN CASE s.basis = "CUSTOMS_VALUE" -> Assess(revision, s, line, line.charges).customs
       [] s.basis = "QUANTITY" -> line.quantity
       [] s.basis = "WEIGHT" -> line.quantity * Single(Physicals(revision, line)).weight

-----------------------------------------------------------------------------
(* The shipment.                                                            *)

\* A shipment is sealed with one charge of each type, none of them exempt
\* (validate_shipment_input).
ShipmentValid(s) ==
  /\ s.lines # <<>>
  /\ \A l \in DOMAIN s.lines :
       LET line == s.lines[l]
       IN /\ line.quantity > 0 /\ line.value > 0
          /\ \A c, d \in line.charges : c.type = d.type => c = d
          /\ \A c \in line.charges :
               /\ c.type \notin s.exempt
               /\ c.recoverable \/ c.customs => c.gross

\* The records it consults contradict each other or the shipment, or one of
\* them was not known at the judgment.  The rates of a source are read in the
\* canonical order of its records, that of their dates
\* (trade_cost_projection.py:217): two of one currency and day meet.
SourcesRefused(revision, s) ==
  LET lanes == Lanes(revision, s)
      input == UNION {{c.type : c \in s.lines[l].charges} : l \in DOMAIN s.lines}
      known(S) == \A r \in S : Known(r, revision, s.judgment)
      one(S) == Cardinality(S) <= 1
  IN \/ ~(known(Fx(revision, s)) /\ known(Taxes(revision, s)) /\ known(lanes))
     \/ \E q, r \in Fx(revision, s) : q # r /\ q.value.of = r.value.of /\ q.from = r.from
     \/ ~one(Taxes(revision, s))
     \/ \E a, b \in lanes : a # b /\ a.value.type = b.value.type
     \/ \E a \in lanes : \/ a.value.type \in input
                         \/ /\ a.value.least # None /\ a.value.most # None
                            /\ a.value.least > a.value.most
     \/ \E l \in DOMAIN s.lines :
          LET line == s.lines[l]
          IN \/ ~known(Classes(revision, s, line) \cup Origins(revision, line)
                       \cup Tariffs(revision, s, line))
             \/ ~one(Classes(revision, s, line)) \/ ~one(Origins(revision, line))
             \/ ~one(Rules(revision, s, line))
             \/ \E t \in Rules(revision, s, line) :
                  t.value.currency # s.currency \/ t.value.rounding # s.rounding

\* What keeps the shipment from being priced: every charge is accounted for,
\* and no line of it is blocked.
Missing(revision, s) ==
  LET lanes == {r.value.type : r \in Lanes(revision, s)}
  IN {w \in {"LANE_CHARGE_NOT_FOUND", "CHARGE_COVERAGE_INCOMPLETE",
             "SHIPMENT_ALLOCATION_INPUT_INCOMPLETE"} :
        \/ w = "LANE_CHARGE_NOT_FOUND" /\ lanes = {}
        \/ /\ w = "CHARGE_COVERAGE_INCOMPLETE"
           /\ \E l \in DOMAIN s.lines :
                lanes \cup {c.type : c \in s.lines[l].charges} \cup s.exempt # ChargeTypes
        \/ /\ w = "SHIPMENT_ALLOCATION_INPUT_INCOMPLETE"
           /\ \E l \in DOMAIN s.lines :
                BlockingStatus(revision, s, s.lines[l], s.lines[l].charges) # "CALCULABLE"}

\* Once nothing is missing the lanes are read, and the physical attributes of
\* every item whatever the basis.
AllocationRefused(revision, s) ==
  \/ \E r \in Lanes(revision, s) :
       r.value.basis # "SHIPMENT" \/ Rate(revision, s, r.value.currency) = None
  \/ \E l \in DOMAIN s.lines :
       LET found == Physicals(revision, s.lines[l])
       IN \/ Cardinality(found) > 1
          \/ \E r \in found : ~Known(r, revision, s.judgment)
          \/ s.basis = "WEIGHT" /\ (found = {} \/ Single(found).uom # "KG")
  \/ \A l \in DOMAIN s.lines : Factor(revision, s, l) = 0

\* The charges of a line with its share of every lane charge.
ChargesOf(revision, s, l) ==
  s.lines[l].charges \cup
    {[type |-> r.value.type, currency |-> s.currency, customs |-> r.value.customs,
      gross |-> TRUE, recoverable |-> FALSE,
      amount |-> Allocate(LaneTotal(revision, s, r.value),
                          [k \in DOMAIN s.lines |-> Factor(revision, s, k)])[l]] :
       r \in Lanes(revision, s)}

\* What the lines cost together.
NetOf(rows) == SumFunction([l \in DOMAIN rows |-> rows[l].net])

Refusal == [status |-> "REFUSED", why |-> {}, rows |-> <<>>, net |-> None]

Outcome(revision, s, missing, first, last) ==
  LET blocked(a) == Unpriced(IF a.status = "CALCULABLE" THEN "NOT_CALCULABLE" ELSE a.status)
  IN CASE \/ ~ShipmentValid(s) \/ SourcesRefused(revision, s)
          \/ \E l \in DOMAIN first : first[l].status = "REFUSED"
          \/ s.exempt \cap {r.value.type : r \in Lanes(revision, s)} # {} -> Refusal
       [] OTHER ->
            IF missing # {}
            THEN [status |-> "NOT_CALCULABLE", why |-> missing, net |-> None,
                  rows |-> [l \in DOMAIN first |-> blocked(first[l])]]
            ELSE IF AllocationRefused(revision, s) THEN Refusal
            ELSE [status |-> "CALCULABLE", why |-> {}, rows |-> last,
                  net |-> NetOf(last)]

\* calculate_projection_shipment with the totals of build_landed_cost_child:
\* every line on its own charges, and with its share of those of the lane.
PriceShipment(revision, s) ==
  Outcome(revision, s, Missing(revision, s),
          [l \in DOMAIN s.lines |-> Assess(revision, s, s.lines[l], s.lines[l].charges)],
          [l \in DOMAIN s.lines |-> Assess(revision, s, s.lines[l], ChargesOf(revision, s, l))])
=============================================================================
