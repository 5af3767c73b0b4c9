----------------------------- MODULE HourlyStats -----------------------------
(***************************************************************************)
(* One row of ip_stats_hourly: AggregateHourlyStats folds every crawl of   *)
(* an IP within the hour into it with one INSERT ... ON DUPLICATE KEY      *)
(* UPDATE statement.                                                       *)
(*                                                                         *)
(* GORM writes the assignments of clause.Assignments(map) in the order of  *)
(* their column names, and MySQL evaluates them from left to right: an     *)
(* expression sees the columns before it already updated.                  *)
(***************************************************************************)
EXTENDS Integers, FiniteSets, FiniteSetsExt

CONSTANTS
  Items,        \* the items that may be sold within the hour
  Price,        \* and their prices; 0 where the page showed none
  MaxInflow,    \* bound: new listings per crawl
  MaxCrawls     \* bound: crawls altogether

ASSUME PriceAssumption == IsFiniteSet(Items) /\ Price \in [Items -> Nat]
ASSUME CrawlBounds == MaxInflow \in Nat /\ MaxCrawls \in Nat

VARIABLES
  row,          \* the columns; "inserted" tells whether the row exists
  sold,         \* history: the items whose sale was folded in
  listed,       \* history: the new listings that were
  crawls

\* A ratio is kept as [num, den]; equal ratios need not be equal records.
Ratio(n, d) == [num |-> n, den |-> d]

\* The NULL of each column.
NoItem  == "null"
NoPrice == 0
NoRatio == Ratio(0, 0)

\* collectSoldItemsInfo: only a sale with a price enters the price statistics.
Priced(batch) == {i \in batch : Price[i] > 0}
Prices(batch) == {Price[i] : i \in Priced(batch)}

\* calculatePriceStatsWithItems: the extremes, with the item each came from.
MinPrice(batch) == IF Priced(batch) = {} THEN NoPrice ELSE Min(Prices(batch))
MaxPrice(batch) == IF Priced(batch) = {} THEN NoPrice ELSE Max(Prices(batch))
ItemsAt(batch, p) ==
  IF p = NoPrice THEN {NoItem} ELSE {i \in batch : Price[i] = p}

Empty ==
  [inserted |-> FALSE, inflow |-> 0, outflow |-> 0, liquidity |-> NoRatio,
   minPrice |-> NoPrice, minItem |-> NoItem, maxPrice |-> NoPrice,
   maxItem |-> NoItem,
   samples |-> 0]

-----------------------------------------------------------------------------

\* The record to insert.  LiquidityIndex is left NULL unless it is positive.
Fresh(in, batch, lo, hi) ==
  LET out == Cardinality(batch) IN
  [inserted |-> TRUE, inflow |-> in, outflow |-> out,
   liquidity |-> IF in > 0 /\ out > 0 THEN Ratio(out, in) ELSE NoRatio,
   minPrice |-> MinPrice(batch), minItem |-> lo,
   maxPrice |-> MaxPrice(batch), maxItem |-> hi,
   samples |-> Cardinality(Priced(batch))]

\* The assignments, one operator per column.
SetInflow(r, in) == [r EXCEPT !.inflow = @ + in]
SetLiquidity(r, in, out) ==
  [r EXCEPT !.liquidity = IF r.inflow + in > 0
                            THEN Ratio(r.outflow + out, r.inflow + in)
                            ELSE NoRatio]
\* Mutant: a NULL min_price is not expected.
Lower_NoNull(r, p) == p # NoPrice /\ p < r.minPrice
Lower(r, p)  == p # NoPrice /\ (r.minPrice = NoPrice \/ p < r.minPrice)
Higher(r, p) == p # NoPrice /\ (r.maxPrice = NoPrice \/ p > r.maxPrice)
SetMaxPrice(r, p)       == IF Higher(r, p) THEN [r EXCEPT !.maxPrice = p] ELSE r
SetMaxPriceItem(r, p, i) == IF Higher(r, p) THEN [r EXCEPT !.maxItem = i] ELSE r
SetMinPrice(r, p)       == IF Lower(r, p) THEN [r EXCEPT !.minPrice = p] ELSE r
SetMinPriceItem(r, p, i) == IF Lower(r, p) THEN [r EXCEPT !.minItem = i] ELSE r
SetOutflow(r, out)      == [r EXCEPT !.outflow = @ + out]
SetSamples(r, n)        == [r EXCEPT !.samples = @ + n]

\* inflow, liquidity_index, max_price, max_price_item, min_price,
\* min_price_item, outflow, sample_count.
Updated(r, in, batch, lo, hi) ==
  LET out == Cardinality(batch)
      a == SetLiquidity(SetInflow(r, in), in, out)
      b == SetMaxPriceItem(SetMaxPrice(a, MaxPrice(batch)), MaxPrice(batch), hi)
      c == SetMinPriceItem(SetMinPrice(b, MinPrice(batch)), MinPrice(batch), lo)
  IN  SetSamples(SetOutflow(c, out), Cardinality(Priced(batch)))

\* AggregateHourlyStats of a crawl with so many new listings and these sales.
\* An item is newly sold once: the state machine keeps it from a second time.
AggregateHourlyStats(in, batch) ==
  \E lo \in ItemsAt(batch, MinPrice(batch)), hi \in ItemsAt(batch, MaxPrice(batch)) :
    /\ crawls < MaxCrawls
    /\ row' = IF row.inserted THEN Updated(row, in, batch, lo, hi)
                              ELSE Fresh(in, batch, lo, hi)
    /\ sold' = sold \cup batch
    /\ listed' = listed + in
    /\ crawls' = crawls + 1

\* The bucket of the next hour has no row yet.
NextBucket == row' = Empty /\ sold' = {} /\ listed' = 0 /\ UNCHANGED crawls
-----------------------------------------------------------------------------

\* However the hour's sales are spread over its crawls, the row's extremes are
\* those of all of them and its counters their number.
RowSummarisesHour ==
  /\ row.minPrice = MinPrice(sold) /\ row.maxPrice = MaxPrice(sold)
  /\ row.outflow = Cardinality(sold) /\ row.samples = Cardinality(Priced(sold))
  /\ row.inflow = listed
=============================================================================
