--------------------------- MODULE CanonicalEvidence ---------------------------
(***************************************************************************)
(* What the ingestion publishes of a retailer's sales, over extractions of *)
(* a source that goes on changing: order lines are placed, shipped in      *)
(* parts and delivered, and some records are faulty.  An extraction is     *)
(* staged (rows that fail a check are moved to quarantine), its locations  *)
(* are resolved, transforms/core.py builds the canonical sales and         *)
(* fulfilments with explicit zero rows, and Gate B decides whether the     *)
(* candidate may be published.                                             *)
(*                                                                         *)
(* A cell is a product at a store in a channel of one market.  Time is     *)
(* counted in instants: the early hours of local date d, which lie in the  *)
(* UTC date before, are 2d - 1, the rest of it is 2d, and its end 2d + 1.   *)
(***************************************************************************)
EXTENDS Naturals, Sequences, SequencesExt

CONSTANTS
    Cell,
    Window,         \* assortment row of a cell: [from, to, known]
    LastDate,
    Extracts,       \* dates in whose evening the source is extracted
    Hours,          \* of a shipment: 0 is an early hour, 1 a later one
    MaxLines,       \* bound: order lines
    MaxRows,        \* bound: fulfilment rows
    OrderSizes,     \* bound: units of a line
    ShipSizes,      \* bound: units of a shipment
    MaxFaults       \* bound: faulty records

Date == 1 .. LastDate

ASSUME EvidenceAssumption ==
    /\ IsFiniteSet(Cell) /\ LastDate \in Nat /\ Extracts \subseteq Date /\ Hours \subseteq {0, 1}
    /\ Window \in [Cell -> [from : Nat, to : Nat, known : Nat]]
    /\ MaxLines \in Nat /\ MaxRows \in Nat /\ MaxFaults \in Nat
    /\ OrderSizes \subseteq Nat \ {0} /\ ShipSizes \subseteq Nat \ {0}

VARIABLES
    date,
    lines,      \* order lines of the source
    rows,       \* fulfilment rows of the source, the parts of each line numbered
    faults,     \* faulty records among them
    extracts    \* what each extraction has landed and published:
                \* [at, lines, rows, faults, published, sales]

evidenceVars == <<date, lines, rows, faults, extracts>>

-----------------------------------------------------------------------------
\* The source.

InWindow(c, d) == Window[c].from <= d /\ d <= Window[c].to

UnitsOf(rws) == SumFunction([r \in rws |-> r.units])

PartsOf(rws, l) == {r \in rws : r.line = l}
ShippedOf(rws, l) == UnitsOf(PartsOf(rws, l))

\* Faults of a source: records that fail a staging check, location keys that
\* no topology declares, sales outside the assortment, lines shipped twice,
\* and shipments whose UTC date is before the business date of the sale.
LineIsFaulty(ln) == ~ln.valid \/ ~ln.keyed \/ ~InWindow(ln.cell, ln.on)
RowIsFaulty(lns, r) == ~r.valid \/ ~r.keyed \/ r.created < 2 * lns[r.line].on

Place(ln) ==
    /\ date <= LastDate
    /\ Len(lines) < MaxLines
    /\ lines' = Append(lines, ln)
    /\ faults' = IF LineIsFaulty(ln) THEN faults + 1 ELSE faults
    /\ faults' <= MaxFaults
    /\ UNCHANGED <<date, rows, extracts>>

Ship(r) ==
    /\ date <= LastDate
    /\ Cardinality(rows) < MaxRows
    /\ rows' = rows \cup {r}
    /\ faults' = IF RowIsFaulty(lines, r) \/ ShippedOf(rows', r.line) > lines[r.line].units
                 THEN faults + 1 ELSE faults
    /\ faults' <= MaxFaults
    /\ UNCHANGED <<date, lines, extracts>>

\* The shipment is delivered: its row is rewritten in the source.
Deliver(r) ==
    /\ date <= LastDate
    /\ r.delivered = 0
    /\ rows' = (rows \ {r}) \cup {[r EXCEPT !.delivered = 2 * date]}
    /\ UNCHANGED <<date, lines, faults, extracts>>

-----------------------------------------------------------------------------
\* Staging: the rows that are left when the quarantine is drained.

StagedLines(x) == {l \in DOMAIN x.lines : x.lines[l].valid}
StagedRows(x) == {r \in x.rows : r.valid}

\* Seeded fault in KnownAsOf: a delivery does not move the date it is known.
MutKnownAsOf(r) == r.created

\* The adapter: a delivery is known when it is made, not when it is created.
FulfilledAt(r) == IF r.delivered = 0 THEN r.created ELSE r.delivered
KnownAsOf(r) == IF FulfilledAt(r) > r.created THEN FulfilledAt(r) ELSE r.created

\* build_location_crosswalk raises for an unresolved key of a sale; those of
\* fulfilments are not among the relations it examines.
CrosswalkComplete(x) == \A l \in StagedLines(x) : x.lines[l].keyed

-----------------------------------------------------------------------------
\* The canonical candidate.

FulfilledUnits(x, l) ==
    LET all == ShippedOf(StagedRows(x), l) IN
    IF all < x.lines[l].units THEN all ELSE x.lines[l].units

FulfilledLines(x, c, d) ==
    {l \in StagedLines(x) : /\ x.lines[l].cell = c /\ x.lines[l].on = d
                            /\ FulfilledUnits(x, l) > 0}

LinesKnown(x, ls) == {KnownAsOf(r) : r \in {q \in StagedRows(x) : q.line \in ls}}

FulfilledIn(x, ls) == SumFunction([l \in ls |-> FulfilledUnits(x, l)])

\* Seeded fault in SalesRow: the row is known when its first fulfilment is.
MutSalesRow(x, c, d) ==
    LET ls == FulfilledLines(x, c, d) IN
    [cell |-> c, on |-> d, units |-> FulfilledIn(x, ls),
     known |-> Min(LinesKnown(x, ls))]

\* One row per cell and date, known when its last fulfilment is.
SalesRow(x, c, d) ==
    LET ls == FulfilledLines(x, c, d) IN
    [cell |-> c, on |-> d, units |-> FulfilledIn(x, ls),
     known |-> Max(LinesKnown(x, ls))]

ObservedSales(x) ==
    {SalesRow(x, cd[1], cd[2]) :
       cd \in {p \in Cell \X Date : FulfilledLines(x, p[1], p[2]) # {}}}

\* The dates of the market from the first to the last fulfilled sale.
DatesOf(observed) ==
    LET on == {r.on : r \in observed} IN
    {d \in Date : (\E e \in on : e <= d) /\ (\E e \in on : d <= e)}

ActiveDates(observed) == {p \in Cell \X DatesOf(observed) : InWindow(p[1], p[2])}

Later(a, b) == IF a > b THEN a ELSE b

ZeroRow(c, d) ==
    [cell |-> c, on |-> d, units |-> 0, known |-> Later(Window[c].known, 2 * d + 1)]

\* _densify_sales: zero rows for the active dates without an observed sale.
Densified(x, observed) ==
    {ZeroRow(p[1], p[2]) :
       p \in {q \in ActiveDates(observed) :
                ~\E r \in observed : r.cell = q[1] /\ r.on = q[2]}}

\* Canonical fulfilments: a supply key without a crosswalk row is lost in the
\* join.
Fulfillments(x) == {r \in StagedRows(x) : r.keyed}

Candidate(x) ==
    LET observed == ObservedSales(x) IN
    [sales |-> observed \cup Densified(x, observed),
     fulfillments |-> Fulfillments(x), calendar |-> DatesOf(observed)]

OfCell(x, rws, c, d) == {r \in rws : x.lines[r.line].cell = c /\ x.lines[r.line].on = d}

SalesUnits(sales, c, d) == UnitsOf({r \in sales : r.cell = c /\ r.on = d})

-----------------------------------------------------------------------------
\* Gate B, the rules about sales.

\* B03: active dates are dense, and nothing is sold outside the assortment.
DensityHolds(cand) ==
    /\ \A c \in Cell, d \in cand.calendar :
         Window[c].from <= d /\ d <= Window[c].to
           => \E r \in cand.sales : r.cell = c /\ r.on = d
    /\ \A r \in cand.sales :
         r.units > 0 => Window[r.cell].from <= r.on /\ r.on <= Window[r.cell].to

\* B05: no fact is known before its business date, in UTC days, and no
\* fulfilment before it was made.
PlacementHolds(cand) ==
    /\ \A r \in cand.sales : r.known \div 2 >= r.on
    /\ \A r \in cand.fulfillments : KnownAsOf(r) >= FulfilledAt(r)

\* B16: totals of the candidate against the staged control, each cell and date
\* against its fulfilments, and no line shipped beyond what was ordered.
TotalsReconcile(x, cand) ==
    UnitsOf(cand.sales) = FulfilledIn(x, StagedLines(x))

\* Seeded fault in FulfillmentsAgree: only that something was shipped of what
\* was sold.
MutFulfillmentsAgree(x, cand) ==
    \A r \in cand.sales :
      r.units > 0 => \E q \in cand.fulfillments :
                       x.lines[q.line].cell = r.cell /\ x.lines[q.line].on = r.on

FulfillmentsAgree(x, cand) ==
    \A c \in Cell, d \in Date :
      SalesUnits(cand.sales, c, d) = UnitsOf(OfCell(x, cand.fulfillments, c, d))

NothingOverfulfilled(x) ==
    \A l \in StagedLines(x) : ShippedOf(StagedRows(x), l) <= x.lines[l].units

GateB(x, cand) ==
    /\ DensityHolds(cand)
    /\ PlacementHolds(cand)
    /\ TotalsReconcile(x, cand)
    /\ FulfillmentsAgree(x, cand)
    /\ NothingOverfulfilled(x)

-----------------------------------------------------------------------------
\* In the evening of some dates the source is extracted, landed and ingested.
Extracted == [at |-> date, lines |-> lines, rows |-> rows, faults |-> faults]

Ingested(x) ==
    LET c == Candidate(x) IN
    [at |-> x.at, lines |-> x.lines, rows |-> x.rows, faults |-> x.faults,
     published |-> CrosswalkComplete(x) /\ GateB(x, c), sales |-> c.sales]

NightFalls ==
    /\ date <= LastDate
    /\ extracts' = IF date \in Extracts THEN Append(extracts, Ingested(Extracted)) ELSE extracts
    /\ date' = date + 1
    /\ UNCHANGED <<lines, rows, faults>>

EvidenceInit == date = 1 /\ lines = <<>> /\ rows = {} /\ faults = 0 /\ extracts = <<>>

\* The key of a record that goes to quarantine is never looked at.
EvidenceNext ==
    \/ \E c \in Cell, u \in OrderSizes, valid, keyed \in BOOLEAN :
         /\ valid \/ keyed
         /\ Place([cell |-> c, on |-> date, units |-> u, valid |-> valid, keyed |-> keyed])
    \/ \E l \in DOMAIN lines, u \in ShipSizes, h \in Hours, valid, keyed \in BOOLEAN :
         /\ valid \/ keyed
         /\ Ship([line |-> l, part |-> Cardinality(PartsOf(rows, l)) + 1, units |-> u,
                  created |-> 2 * date + h - 1, delivered |-> 0, valid |-> valid, keyed |-> keyed])
    \/ \E r \in rows : Deliver(r)
    \/ NightFalls

EvidenceSpec == EvidenceInit /\ [][EvidenceNext]_evidenceVars

-----------------------------------------------------------------------------
Publications == {x \in Range(extracts) : x.published}

\* What a later publication says was known at an earlier extraction, the
\* publication of that extraction said as well, for every date its calendar
\* reaches: a model trained as of that evening on the later publication sees
\* nothing that was still to come.
LaterViewHasNoNews ==
    \A x, y \in Publications :
      x.at < y.at =>
        \A r \in y.sales : r.known <= 2 * x.at /\ r.on \in DatesOf(x.sales) => r \in x.sales

\* Only an order in quarantine and an unresolved supply key of the same cell and
\* date can hide each other.
MayCancel(x, c, d) ==
    LET mine == OfCell(x, StagedRows(x), c, d) IN
    (\E r \in mine : ~x.lines[r.line].valid) /\ (\E r \in mine : ~r.keyed)

IsComplete(x) ==
    \A c \in Cell, d \in Date :
      SalesUnits(x.sales, c, d) = UnitsOf(OfCell(x, StagedRows(x), c, d)) \/ MayCancel(x, c, d)

\* Gate B decides right, in both directions.  Nothing shipped is silently left
\* out: in a publication the sales of every cell and date are all the units
\* shipped of them that have a valid record, also those of orders that are in
\* quarantine.  And the candidate of a source without faults is published,
\* whatever was still under way at its extraction.
GateDecidesRight ==
    \A x \in Range(extracts) :
      /\ x.published => IsComplete(x)
      /\ x.faults = 0 => x.published
=============================================================================
