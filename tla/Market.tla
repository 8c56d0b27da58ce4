------------------------------- MODULE Market -------------------------------
(***************************************************************************)
(* The price the market asks for a resource, from its base value and from  *)
(* how much of it there is and is wanted: calculate_price, in integers of  *)
(* a fixed width, with the pressure a market snapshot reports beside it.   *)
(***************************************************************************)
EXTENDS Width, FiniteSetsExt

AtLeast(a, b) == IF a >= b THEN a ELSE b

SaturatingTimes(a, b) == IF MultiplyOverflows(a, b) THEN MaxU64 ELSE a * b

BaseValue(base) == AtLeast(base, 1)

Premium(base, supply, demand) ==
  SaturatingTimes(BaseValue(base), demand - supply) \div AtLeast(demand, 1)

Discount(base, supply, demand) == SaturatingTimes(BaseValue(base), supply - demand) \div supply

(* A faulty variant: a small shortage rounds down to no premium at all.    *)
PriceRoundedDown(base, supply, demand) ==
  IF demand > supply THEN SaturatingAdd(BaseValue(base), Premium(base, supply, demand))
  ELSE BaseValue(base)

(* calculate_price.                                                        *)
Price(base, supply, demand) ==
  IF demand > supply
  THEN SaturatingAdd(BaseValue(base), AtLeast(Premium(base, supply, demand), 1))
  ELSE IF supply > demand
  THEN AtLeast(BaseValue(base) - AtMost(Discount(base, supply, demand), BaseValue(base)), 1)
  ELSE BaseValue(base)

(* classify_market_pressure.                                               *)
Pressure(supply, demand) ==
  IF demand > 0 /\ supply = 0 THEN "depleted"
  ELSE IF demand > supply THEN "shortage"
  ELSE IF supply > demand THEN "surplus"
  ELSE "balanced"

(* calculate_market_prices: what is stored or wanted, of the resources     *)
(* that have a base value.                                                 *)
Quotes(stored, demands, bases) ==
  [r \in {r \in DOMAIN bases : stored[r] > 0 \/ demands[r] > 0} |->
     [supply |-> stored[r], demand |-> demands[r], base |-> BaseValue(bases[r]),
      price |-> Price(bases[r], stored[r], demands[r])]]

(* make_market_report.                                                     *)
MarketReport(quotes) ==
  LET prices == {quotes[r].price : r \in DOMAIN quotes}
      total  == AtMost(MapThenSumSet(LAMBDA r : quotes[r].price, DOMAIN quotes), MaxU64)
  IN  IF prices = {} THEN [average |-> 0, min |-> 0, max |-> 0]
      ELSE [average |-> total \div Cardinality(DOMAIN quotes), min |-> Min(prices), max |-> Max(prices)]

(* The counts of make_market_snapshot.                                     *)
PressureCount(quotes, pressure) ==
  Cardinality({r \in DOMAIN quotes : Pressure(quotes[r].supply, quotes[r].demand) = pressure})

-----------------------------------------------------------------------------
(* No product of the two calculations saturates.                           *)
Exact(base, supply, demand) ==
  ~MultiplyOverflows(BaseValue(base), IF demand > supply THEN demand - supply ELSE supply - demand)

(* A price is never 0; it is above the base value under shortage and at    *)
(* most the base value under surplus, as far as the type goes.             *)
PriceInRange(base, supply, demand) ==
  LET price == Price(base, supply, demand)
  IN  /\ price \in 1 .. MaxU64
      /\ Pressure(supply, demand) = "balanced" => price = BaseValue(base)
      /\ Pressure(supply, demand) = "surplus" => price <= BaseValue(base)
      /\ Pressure(supply, demand) \in {"shortage", "depleted"} =>
           price > BaseValue(base) \/ price = MaxU64

(* More supply does not make it dearer, nor more demand cheaper.           *)
PriceIsMonotone(base, supply, demand) ==
  Exact(base, supply, demand) =>
    \A more \in U64 :
      /\ more >= supply /\ Exact(base, more, demand) =>
           Price(base, more, demand) <= Price(base, supply, demand)
      /\ more >= demand /\ Exact(base, supply, more) =>
           Price(base, supply, more) >= Price(base, supply, demand)
=============================================================================
