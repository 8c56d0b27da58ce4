------------------------------- MODULE Orders -------------------------------
(***************************************************************************)
(* match_orders: the buy and sell orders of a market, invalid ones left    *)
(* out, sorted so that the highest bid meets the cheapest offer first, and *)
(* matched pair by pair in two nested loops.                               *)
(*                                                                         *)
(* A state is one turn of the loops.  std::sort is not stable, so orders   *)
(* of the same price and resource come in any order: a choice of Init.     *)
(***************************************************************************)
EXTENDS Width, Sequences, FiniteSetsExt

CONSTANTS
  Good,         (* ids of resources                                          *)
  NoGood,       (* the empty resource id, which no valid order has           *)
  Rank,         (* where a resource stands in the order of the ids           *)
  Books         (* the orders of a call: [buys |-> ..., sells |-> ...]       *)

VARIABLES
  submitted,    (* the arguments of the call                                 *)
  buys,         (* buy_orders: valid, sorted, with what is left of them      *)
  sells,        (* sell_orders, likewise                                     *)
  at,           (* the pair the loops look at: [buy |-> i, sell |-> j]       *)
  trades,       (* OrderMatchResult::trades                                  *)
  totals        (* OrderMatchResult::total_quantity and total_value          *)

orderVars == <<submitted, buys, sells, at, trades, totals>>

Orders == [good : Good \cup {NoGood}, quantity : U64, limit : U64]

ASSUME OrdersAssumption ==
  /\ IsFiniteSet(Good)
  /\ NoGood \notin Good
  /\ Rank \in [Good -> Nat]
  /\ Books \subseteq [buys : Seq(Orders), sells : Seq(Orders)]

(* validate_order.                                                         *)
ValidOrder(o) ==
  /\ o.good # NoGood
  /\ o.quantity > 0
  /\ o.limit > 0
  /\ ~MultiplyOverflows(o.quantity, o.limit)

(* A faulty variant: bids sorted as offers are.                            *)
BidBeforeCheapest(o, p) ==
  o.limit < p.limit \/ (o.limit = p.limit /\ Rank[o.good] < Rank[p.good])

BidBefore(o, p) ==
  o.limit > p.limit \/ (o.limit = p.limit /\ Rank[o.good] < Rank[p.good])

OfferBefore(o, p) ==
  o.limit < p.limit \/ (o.limit = p.limit /\ Rank[o.good] < Rank[p.good])

(* Everything std::sort may make of the valid orders.                      *)
Rearranged(orders) ==
  LET valid == {k \in DOMAIN orders : ValidOrder(orders[k])}
      all   == 1 .. Cardinality(valid)
  IN  {[k \in all |-> orders[p[k]]] : p \in Bijection(all, valid)}

SortedBids ==
  {o \in Rearranged(submitted.buys) : \A j, k \in DOMAIN o : j < k => ~BidBefore(o[k], o[j])}

SortedOffers ==
  {o \in Rearranged(submitted.sells) : \A j, k \in DOMAIN o : j < k => ~OfferBefore(o[k], o[j])}

OrdersInit ==
  /\ submitted \in Books
  /\ buys \in SortedBids
  /\ sells \in SortedOffers
  /\ at = [buy |-> 1, sell |-> 1]
  /\ trades = << >>
  /\ totals = [quantity |-> 0, value |-> 0]

-----------------------------------------------------------------------------
Looking == at.buy \in DOMAIN buys

NextBuy == at' = [buy |-> at.buy + 1, sell |-> 1]

NextSell == at' = [at EXCEPT !.sell = at.sell + 1]

(* The conditions of the inner loop, in its order.                         *)
Meet(bid, offer) ==
  /\ bid.quantity > 0
  /\ offer.quantity > 0
  /\ bid.good = offer.good
  /\ bid.limit >= offer.limit

Filled(bid, offer) == AtMost(bid.quantity, offer.quantity)

TooDear(bid, offer) == MultiplyOverflows(Filled(bid, offer), offer.limit)

(* The buyer pays what the seller asks.                                    *)
Execution(bid, offer) ==
  [good |-> bid.good, quantity |-> Filled(bid, offer), unit |-> offer.limit,
   total |-> Filled(bid, offer) * offer.limit]

Less(order, n) == [order EXCEPT !.quantity = order.quantity - n]

(* Both totals are bare additions and may wrap around.                     *)
Trade ==
  LET bid   == buys[at.buy]
      offer == sells[at.sell]
      trade == Execution(bid, offer)
  IN  /\ Looking /\ at.sell \in DOMAIN sells
      /\ Meet(bid, offer)
      /\ ~TooDear(bid, offer)
      /\ trades' = Append(trades, trade)
      /\ totals' = [quantity |-> WrapAdd(totals.quantity, trade.quantity),
                    value    |-> WrapAdd(totals.value, trade.total)]
      /\ buys' = [buys EXCEPT ![at.buy] = Less(bid, trade.quantity)]
      /\ sells' = [sells EXCEPT ![at.sell] = Less(offer, trade.quantity)]
      /\ NextSell
      /\ UNCHANGED submitted

Pass ==
  /\ Looking /\ at.sell \in DOMAIN sells
  /\ buys[at.buy].quantity > 0
  /\ Meet(buys[at.buy], sells[at.sell]) => TooDear(buys[at.buy], sells[at.sell])
  /\ NextSell
  /\ UNCHANGED <<submitted, buys, sells, trades, totals>>

LeaveBuy ==
  /\ Looking
  /\ at.sell \notin DOMAIN sells \/ buys[at.buy].quantity = 0
  /\ NextBuy
  /\ UNCHANGED <<submitted, buys, sells, trades, totals>>

(* The call has returned its result.                                       *)
Returned == ~Looking

Idle == Returned /\ UNCHANGED orderVars

OrdersNext == Trade \/ Pass \/ LeaveBuy \/ Idle

OrdersSpec == OrdersInit /\ [][OrdersNext]_orderVars

-----------------------------------------------------------------------------
(* Sums over the orders and trades of one resource.                        *)

Sum(w) == MapThenSumSet(LAMBDA k : w[k], DOMAIN w)

Units(orders, good, Counts(_)) ==
  Sum([k \in DOMAIN orders |->
         IF orders[k].good = good /\ Counts(orders[k]) THEN orders[k].quantity ELSE 0])

BidsFrom(good, p) == Units(submitted.buys, good, LAMBDA o : ValidOrder(o) /\ o.limit >= p)

OffersUpTo(good, p) == Units(submitted.sells, good, LAMBDA o : ValidOrder(o) /\ o.limit <= p)

(* The units that can change hands at a price both sides accept: the       *)
(* crossing of the two curves of the submitted orders.                     *)
Volume(good) == Max({AtMost(BidsFrom(good, p), OffersUpTo(good, p)) : p \in U64})

(* What the cheapest Volume units were offered for.                        *)
Worth(good) ==
  Sum([p \in U64 |-> Volume(good) - AtMost(Volume(good), OffersUpTo(good, p))])

(* What changed hands: the units, those dearer than a price, and the money.*)
Traded(good) == Units(trades, good, LAMBDA t : TRUE)

TradedAbove(good, p) == Units(trades, good, LAMBDA t : t.unit > p)

Spent(good) == Sum([k \in DOMAIN trades |-> IF trades[k].good = good THEN trades[k].total ELSE 0])

(* Whatever order the sort leaves ties in, the call clears the market: it  *)
(* trades in each resource as many units as can be traded, the cheapest    *)
(* ones, so that no bid and offer that could still meet are left; nobody   *)
(* pays more than his limit (the units sold above a price are no more than *)
(* were bid for above it); and its totals are the sums of the trades, as   *)
(* wide as the type.  Until then, the validation of the orders makes the   *)
(* overflow guard of the loop, the "skipped overflowing trade execution",  *)
(* unreachable: a pair that meets always trades.                           *)
ClearsTheMarket ==
  /\ (Looking /\ at.sell \in DOMAIN sells) =>
       ~(Meet(buys[at.buy], sells[at.sell]) /\ TooDear(buys[at.buy], sells[at.sell]))
  /\ Returned =>
      /\ \A good \in Good :
           /\ Traded(good) = Volume(good)
           /\ Spent(good) = Worth(good)
           /\ \A p \in U64 : TradedAbove(good, p) <= BidsFrom(good, p + 1)
      /\ totals.quantity = Sum([good \in Good |-> Volume(good)]) % (MaxU64 + 1)
      /\ totals.value = Sum([good \in Good |-> Worth(good)]) % (MaxU64 + 1)
=============================================================================
