-------------------------- MODULE Contracts_proofs --------------------------
(***************************************************************************)
(* Theorems about the contract book, its accounts and the advice given     *)
(* about it, for every width, set of contracts, offers and order of calls. *)
(***************************************************************************)
EXTENDS ContractEconomy, SequenceTheorems, Iteration

-----------------------------------------------------------------------------
(* Arithmetic and storages stay within the width of their type.            *)

LEMMA DaysToTicksType ==
  ASSUME NEW d \in U64
  PROVE  DaysToTicks(d) \in U64
<1>1. d * TicksPerDay \in Nat
  BY WidthAssumption DEF U64
<1>2. QED
  BY <1>1, WidthAssumption DEF DaysToTicks, MultiplyOverflows, U64

LEMMA TicksOrType ==
  ASSUME NEW t \in U64, NEW d \in U64
  PROVE  TicksOr(t, d) \in U64
BY DaysToTicksType DEF TicksOr

LEMMA QuotientType ==
  ASSUME NEW a \in U64
  PROVE  a \div TicksPerDay \in U64
<1>1. a \in Nat /\ TicksPerDay \in Nat /\ TicksPerDay > 0 /\ a <= MaxU64 /\ MaxU64 \in Nat
  BY WidthAssumption DEF U64
<1>2. a \div TicksPerDay \in Nat /\ a \div TicksPerDay <= a
  BY <1>1
<1>3. QED
  BY <1>1, <1>2 DEF U64

LEMMA PutType ==
  ASSUME NEW s \in Storages, NEW r \in Resource, NEW n \in U64, CanAdd(s[r], n)
  PROVE  Put(s, r, n) \in Storages
BY WidthAssumption DEF Put, Storages, CanAdd, WrapAdd, U64

LEMMA TakeType ==
  ASSUME NEW s \in Storages, NEW r \in Resource, NEW n \in U64, CanTake(s, r, n)
  PROVE  Take(s, r, n) \in Storages
BY WidthAssumption DEF Take, Storages, CanTake, U64

LEMMA AdvanceType ==
  ASSUME NEW c \in Caravans, NEW ticks \in U64
  PROVE  Advance(c, ticks) \in Caravans
<1> DEFINE left == TicksLeft(c)
           after == left - AtMost(left, ticks)
<1>1. left \in U64
  BY TicksOrType DEF TicksLeft, Caravans
<1>2. after \in U64
  BY <1>1, WidthAssumption DEF AtMost, U64
<1>3. after \div TicksPerDay \in U64
  BY <1>2, QuotientType
<1> HIDE DEF left, after
<1>4. [c EXCEPT !.ticksLeft = after, !.daysLeft = after \div TicksPerDay] \in Caravans
  BY <1>2, <1>3 DEF Caravans
<1>5. QED
  BY <1>4 DEF Advance, after, left

LEMMA PushType ==
  ASSUME NEW l \in Ledgers, CanNumber(l), NEW type \in TradeTypes \cup {"contract_reward"},
         NEW r \in Resource, NEW q \in U64, NEW u \in U64, NEW t \in U64,
         NEW ref \in ContractId \cup {NoReference}
  PROVE  Push(l, type, r, q, u, t, ref) \in Ledgers
<1> DEFINE e == [sequence |-> l.next, type |-> type, resource |-> r,
                 quantity |-> q, unit |-> u, total |-> t, reference |-> ref]
<1>1. l.next \in U64 /\ l.next # MaxU64 /\ l.entries \in Seq(Entries)
  BY DEF Ledgers, CanNumber
<1>2. e \in Entries
  BY <1>1 DEF Entries
<1>3. Append(l.entries, e) \in Seq(Entries)
  BY <1>1, <1>2
<1>4. WrapAdd(l.next, 1) \in U64
  BY <1>1, WidthAssumption DEF WrapAdd, U64
<1>5. QED
  BY <1>3, <1>4 DEF Push, Ledgers

LEMMA WithStatusType ==
  ASSUME TypeOK, NEW i \in DOMAIN catalog, NEW status \in Statuses
  PROVE  /\ WithStatus(i, status) \in Seq(ContractRecords)
         /\ DOMAIN WithStatus(i, status) = DOMAIN catalog
<1>1. catalog \in Seq(ContractRecords) /\ catalog[i] \in ContractRecords
  BY DEF TypeOK
<1>2. [catalog[i] EXCEPT !.status = status] \in ContractRecords
  BY <1>1 DEF ContractRecords
<1>3. QED
  BY <1>1, <1>2 DEF WithStatus

LEMMA FailedAtType ==
  ASSUME TypeOK, NEW t
  PROVE  /\ FailedAt(t) \in Seq(ContractRecords)
         /\ DOMAIN FailedAt(t) = DOMAIN catalog
         /\ Len(FailedAt(t)) = Len(catalog)
<1>1. catalog \in Seq(ContractRecords) /\ DOMAIN catalog = 1 .. Len(catalog) /\ Len(catalog) \in Nat
  BY DEF TypeOK
<1>2. \A i \in 1 .. Len(catalog) : FailedAt(t)[i] \in ContractRecords
  <2> SUFFICES ASSUME NEW i \in 1 .. Len(catalog) PROVE FailedAt(t)[i] \in ContractRecords
    OBVIOUS
  <2>1. catalog[i] \in ContractRecords
    BY <1>1
  <2>2. [catalog[i] EXCEPT !.status = "failed"] \in ContractRecords
    BY <2>1 DEF ContractRecords, Statuses
  <2>3. QED
    BY <1>1, <2>1, <2>2 DEF FailedAt, FailedIn
<1>3. FailedAt(t) = [i \in 1 .. Len(catalog) |-> FailedAt(t)[i]]
  BY <1>1 DEF FailedAt, FailedIn
<1>4. FailedAt(t) \in Seq(ContractRecords)
  BY <1>1, <1>2, <1>3, IsASeq
<1>5. QED
  BY <1>1, <1>3, <1>4

LEMMA OfferType ==
  ASSUME NEW offer \in Offers
  PROVE  WithDueTicks(offer) \in ContractRecords
<1>1. offer \in ContractRecords
  BY ContractsAssumption
<1>2. offer.dueDay \in U64
  BY <1>1 DEF ContractRecords
<1>3. DaysToTicks(offer.dueDay) \in U64
  BY <1>2, DaysToTicksType
<1>4. [offer EXCEPT !.dueTicks = DaysToTicks(offer.dueDay)] \in ContractRecords
  BY <1>1, <1>3 DEF ContractRecords
<1>5. QED
  BY <1>1, <1>4 DEF WithDueTicks

LEMMA SettleBooksType ==
  ASSUME TypeOK, NEW i \in DOMAIN catalog, NEW mode, NEW goods \in Storages,
         CanSettle(i, goods, mode), SettleBooks(i, mode)
  PROVE  /\ catalog' \in Seq(ContractRecords)
         /\ wallet' \in U64
         /\ ledger' \in Ledgers
         /\ Delivered(i, goods) \in Storages
<1>1. catalog[i] \in ContractRecords /\ wallet \in U64 /\ ledger \in Ledgers
  BY DEF TypeOK
<1>2. /\ catalog[i].resource \in Resource /\ catalog[i].quantity \in U64
      /\ catalog[i].reward \in U64 /\ catalog[i].id \in ContractId
  BY <1>1 DEF ContractRecords
<1>3. catalog' \in Seq(ContractRecords)
  BY WithStatusType DEF SettleBooks, Statuses
<1>4. wallet' \in U64
  BY <1>1, <1>2, WidthAssumption DEF SettleBooks, Paid, CanSettle, CanAdd, WrapAdd, U64
<1>5. ledger' \in Ledgers
  <2>1. CASE mode = "ledger"
    <3>1. CanNumber(ledger)
      BY <2>1 DEF CanSettle, CanRecordReward
    <3>2. 0 \in U64
      BY WidthAssumption DEF U64
    <3>3. QED
      BY <1>1, <1>2, <2>1, <3>1, <3>2, PushType DEF SettleBooks, Recorded, RecordReward
  <2>2. CASE mode # "ledger"
    BY <1>1, <2>2 DEF SettleBooks, Recorded
  <2>3. QED
    BY <2>1, <2>2
<1>6. Delivered(i, goods) \in Storages
  BY <1>2, TakeType DEF CanSettle, Delivered
<1>7. QED
  BY <1>3, <1>4, <1>5, <1>6

LEMMA CaravanFulfilsType ==
  ASSUME TypeOK, NEW i \in DOMAIN catalog, NEW mode, NEW p \in DOMAIN fleet,
         FulfillFromArrivedCaravan(i, p, mode)
  PROVE  TypeOK'
<1> DEFINE unloaded == [fleet[p] EXCEPT !.cargo = Delivered(i, fleet[p].cargo)]
<1>1. fleet \in Seq(Caravans) /\ fleet[p] \in Caravans
  BY DEF TypeOK
<1>2. fleet[p].cargo \in Storages
  BY <1>1 DEF Caravans
<1>3. /\ catalog' \in Seq(ContractRecords) /\ wallet' \in U64 /\ ledger' \in Ledgers
      /\ Delivered(i, fleet[p].cargo) \in Storages
  BY <1>2, SettleBooksType DEF FulfillFromArrivedCaravan, CanSettleFromCaravan
<1>4. unloaded \in Caravans
  BY <1>1, <1>3 DEF Caravans
<1>5. fleet' \in Seq(Caravans)
  BY <1>1, <1>4 DEF FulfillFromArrivedCaravan
<1>6. QED
  BY <1>3, <1>5 DEF FulfillFromArrivedCaravan, SettleBooks, TypeOK

LEMMA TradeLedgerType ==
  ASSUME TypeOK, NEW type \in TradeTypes, NEW r \in Resource, NEW price \in Prices,
         NEW quantity \in U64, NEW mode, Priced(price, quantity), CanRecord(price, quantity, mode)
  PROVE  /\ price * quantity \in U64
         /\ RecordedTrade(type, r, price, quantity, mode) \in Ledgers
<1>1. price \in U64
  BY ContractsAssumption
<1>2. price * quantity \in Nat
  BY <1>1 DEF U64
<1>3. price * quantity \in U64
  BY <1>2, WidthAssumption DEF Priced, MultiplyOverflows, U64
<1>4. CASE mode = "ledger"
  <2>1. CanNumber(ledger)
    BY <1>4 DEF CanRecord, CanRecordTrade
  <2>2. QED
    BY <1>1, <1>3, <1>4, <2>1, PushType DEF RecordedTrade, RecordTrade, TypeOK
<1>5. CASE mode # "ledger"
  BY <1>3, <1>5 DEF RecordedTrade, TypeOK
<1>6. QED
  BY <1>3, <1>4, <1>5

LEMMA AdvanceTicksType ==
  ASSUME TypeOK, NEW ticks \in U64
  PROVE  /\ AdvanceTime(tick, ticks) \in U64
         /\ [p \in DOMAIN fleet |-> Advance(fleet[p], ticks)] \in Seq(Caravans)
<1>1. AdvanceTime(tick, ticks) \in U64
  BY WidthAssumption DEF AdvanceTime, SaturatingAdd, CanAdd, U64, TypeOK
<1>2. fleet \in Seq(Caravans) /\ DOMAIN fleet = 1 .. Len(fleet) /\ Len(fleet) \in Nat
  BY DEF TypeOK
<1>3. \A p \in 1 .. Len(fleet) : Advance(fleet[p], ticks) \in Caravans
  BY <1>2, AdvanceType
<1>4. QED
  BY <1>1, <1>2, <1>3, IsASeq

-----------------------------------------------------------------------------
(* Type correctness.                                                       *)

LEMMA TypeInit == Init => TypeOK
<1> SUFFICES ASSUME Init PROVE TypeOK
  OBVIOUS
<1>1. tick \in U64 /\ wallet \in U64
  BY WidthAssumption, ContractsAssumption DEF Init, U64
<1>2. fleet \in Seq(Caravans) /\ depot \in Storages
  BY ContractsAssumption DEF Init
<1>3. EmptyLedger \in Ledgers
  BY WidthAssumption DEF EmptyLedger, Ledgers, U64
<1>4. QED
  BY <1>1, <1>2, <1>3 DEF Init, TypeOK

LEMMA TypeStep == TypeOK /\ [Next]_vars => TypeOK'
<1> SUFFICES ASSUME TypeOK, [Next]_vars PROVE TypeOK'
  OBVIOUS
<1>1. ASSUME NEW offer \in Offers, AddContract(offer) PROVE TypeOK'
  BY <1>1, OfferType DEF AddContract, TypeOK
<1>2. ASSUME NEW i \in DOMAIN catalog, NEW status \in Statuses, MarkContract(i, status)
      PROVE  TypeOK'
  BY <1>2, WithStatusType DEF MarkContract, TypeOK
<1>3. ASSUME NEW i \in DOMAIN catalog, NEW mode \in Modes, FulfillFromStorage(i, mode)
      PROVE  TypeOK'
  <2>1. depot \in Storages
    BY DEF TypeOK
  <2>2. /\ catalog' \in Seq(ContractRecords) /\ wallet' \in U64 /\ ledger' \in Ledgers
        /\ Delivered(i, depot) \in Storages
    BY <1>3, <2>1, SettleBooksType DEF FulfillFromStorage
  <2>3. QED
    BY <1>3, <2>2 DEF FulfillFromStorage, SettleBooks, TypeOK
<1>4. ASSUME NEW i \in DOMAIN catalog, NEW mode \in Modes, NEW p \in DOMAIN fleet,
             FulfillFromArrivedCaravan(i, p, mode)
      PROVE  TypeOK'
  BY <1>4, CaravanFulfilsType
<1>5. ASSUME NEW t \in U64, FailOverdue(t) PROVE TypeOK'
  BY <1>5, FailedAtType DEF FailOverdue, TypeOK
<1>6. ASSUME NEW p \in DOMAIN fleet, NEW faction \in Faction, SetCaravanOwner(p, faction)
      PROVE  TypeOK'
  BY <1>6 DEF SetCaravanOwner, TypeOK
<1>7. ASSUME NEW r \in Resource, NEW price \in Prices, NEW quantity \in U64, NEW mode \in Modes,
             Buy(r, price, quantity, mode)
      PROVE  TypeOK'
  <2>1. price * quantity \in U64 /\ RecordedTrade("buy", r, price, quantity, mode) \in Ledgers
    BY <1>7, TradeLedgerType DEF Buy, TradeTypes
  <2>2. Put(depot, r, quantity) \in Storages
    BY <1>7, PutType DEF Buy, CanPut, TypeOK
  <2>3. wallet' \in U64
    BY <1>7, <2>1, WidthAssumption DEF Buy, TypeOK, U64
  <2>4. QED
    BY <1>7, <2>1, <2>2, <2>3 DEF Buy, TypeOK
<1>8. ASSUME NEW r \in Resource, NEW price \in Prices, NEW quantity \in U64, NEW mode \in Modes,
             Sell(r, price, quantity, mode)
      PROVE  TypeOK'
  <2>1. price * quantity \in U64 /\ RecordedTrade("sell", r, price, quantity, mode) \in Ledgers
    BY <1>8, TradeLedgerType DEF Sell, TradeTypes
  <2>2. Take(depot, r, quantity) \in Storages
    BY <1>8, TakeType DEF Sell, TypeOK
  <2>3. wallet' \in U64
    <3> DEFINE total == price * quantity
    <3> HIDE DEF total
    <3>1. total \in U64 /\ wallet \in U64 /\ CanAdd(wallet, total) /\ wallet' = WrapAdd(wallet, total)
      BY <1>8, <2>1 DEF Sell, TypeOK, total
    <3>2. QED
      BY <3>1, WidthAssumption DEF CanAdd, WrapAdd, U64
  <2>4. QED
    BY <1>8, <2>1, <2>2, <2>3 DEF Sell, TypeOK
<1>9. ASSUME NEW ticks \in U64, AdvanceTicks(ticks) PROVE TypeOK'
  BY <1>9, AdvanceTicksType, FailedAtType DEF AdvanceTicks, TypeOK
<1>10. CASE UNCHANGED vars
  BY <1>10 DEF vars, TypeOK
<1>11. QED
  BY <1>1, <1>2, <1>3, <1>4, <1>5, <1>6, <1>7, <1>8, <1>9, <1>10
  DEF Next, ContractCall, TradeCall, FulfillFromOwnedCaravan, Statuses

(* Every reachable state is well typed, through every call of              *)
(* Contracts.cpp, ContractRewards.cpp, Trade.cpp and advance_runtime_ticks.*)
(* Since the model subtracts as integers do, no subtraction of coins,      *)
(* goods or ways goes below zero.  Additions wrap around in the model as   *)
(* they do in the code, so that this does not say that none does:          *)
(* MeansMoveForSomething does.                                             *)
THEOREM TypeCorrect == Spec => []TypeOK
<1>1. QED
  BY TypeInit, TypeStep, PTL DEF Spec

-----------------------------------------------------------------------------
(* The catalog only grows and its terminal contracts never move.           *)

LEMMA StatusKept ==
  ASSUME TypeOK, NEW i \in DOMAIN catalog, NEW status \in Statuses, IsOpen(catalog[i]),
         catalog' = WithStatus(i, status)
  PROVE  /\ CatalogKept
         /\ DOMAIN catalog' = DOMAIN catalog
         /\ \A j \in DOMAIN catalog : catalog'[j].id = catalog[j].id
<1>1. catalog \in Seq(ContractRecords) /\ catalog' \in Seq(ContractRecords)
      /\ DOMAIN catalog' = DOMAIN catalog
  BY WithStatusType DEF TypeOK
<1>2. Len(catalog') = Len(catalog) /\ Len(catalog) \in Nat
  BY <1>1, WithStatusType DEF WithStatus
<1>3. \A j \in DOMAIN catalog : j # i => catalog'[j] = catalog[j]
  BY <1>1 DEF WithStatus
<1>4. catalog'[i] = [catalog[i] EXCEPT !.status = status]
  BY <1>1 DEF WithStatus
<1>5. catalog'[i].id = catalog[i].id
  <2>1. catalog[i] \in ContractRecords
    BY <1>1
  <2>2. QED
    BY <1>4, <2>1 DEF ContractRecords
<1>6. CatalogKept
  BY <1>2, <1>3, <1>4 DEF CatalogKept
<1>7. QED
  BY <1>1, <1>3, <1>5, <1>6

LEMMA FailedKept ==
  ASSUME TypeOK, NEW t, catalog' = FailedAt(t)
  PROVE  /\ CatalogKept
         /\ DOMAIN catalog' = DOMAIN catalog
         /\ \A j \in DOMAIN catalog : catalog'[j].id = catalog[j].id
<1>1. catalog \in Seq(ContractRecords) /\ DOMAIN catalog' = DOMAIN catalog
      /\ Len(catalog') = Len(catalog) /\ Len(catalog) \in Nat
  BY FailedAtType DEF TypeOK
<1>2. ASSUME NEW j \in DOMAIN catalog
      PROVE  /\ catalog'[j].id = catalog[j].id
             /\ \/ catalog'[j] = catalog[j]
                \/ /\ IsOpen(catalog[j])
                   /\ \E status \in Statuses : catalog'[j] = [catalog[j] EXCEPT !.status = status]
  <2>1. catalog[j] \in ContractRecords
    BY <1>1
  <2>2. catalog'[j] = IF IsOverdue(catalog[j], t)
                      THEN [catalog[j] EXCEPT !.status = "failed"] ELSE catalog[j]
    BY DEF FailedAt, FailedIn
  <2>3. CASE IsOverdue(catalog[j], t)
    <3>1. catalog'[j] = [catalog[j] EXCEPT !.status = "failed"] /\ IsOpen(catalog[j])
      BY <2>2, <2>3 DEF IsOverdue
    <3>2. catalog'[j].id = catalog[j].id
      BY <2>1, <3>1 DEF ContractRecords
    <3>3. QED
      BY <3>1, <3>2 DEF Statuses
  <2>4. CASE ~IsOverdue(catalog[j], t)
    BY <2>2, <2>4
  <2>5. QED
    BY <2>3, <2>4
<1>3. CatalogKept
  BY <1>1, <1>2 DEF CatalogKept
<1>4. QED
  BY <1>1, <1>2, <1>3

LEMMA OfferKept ==
  ASSUME TypeOK, NEW offer \in Offers, AddContract(offer)
  PROVE  CatalogKept
<1>1. catalog \in Seq(ContractRecords) /\ WithDueTicks(offer) \in ContractRecords
  BY OfferType DEF TypeOK
<1>2. catalog' = Append(catalog, WithDueTicks(offer))
  BY DEF AddContract
<1>3. \A j \in DOMAIN catalog : catalog'[j] = catalog[j]
  BY <1>1, <1>2
<1>4. Len(catalog') = Len(catalog) + 1 /\ Len(catalog) \in Nat
  BY <1>1, <1>2
<1>5. QED
  BY <1>3, <1>4 DEF CatalogKept

-----------------------------------------------------------------------------
(* What a step does to the book and to the ledger, whatever call it is.    *)

BookOnly ==
  /\ ledger' = ledger
  /\ \/ catalog' = catalog
     \/ \E offer \in Offers : AddContract(offer)
     \/ \E t \in U64 : catalog' = FailedAt(t)
     \/ \E i \in DOMAIN catalog, status \in Statuses :
          IsOpen(catalog[i]) /\ catalog' = WithStatus(i, status)

Rewarding(i) ==
  /\ IsOpen(catalog[i])
  /\ CanRecordReward(ledger, catalog[i].quantity, catalog[i].reward)
  /\ catalog' = WithStatus(i, "fulfilled")
  /\ ledger' = RecordReward(ledger, catalog[i].id, catalog[i].resource,
                            catalog[i].quantity, catalog[i].reward)

Trading(type, r, quantity, unit, total) ==
  /\ catalog' = catalog
  /\ CanRecordTrade(ledger, quantity, unit, total)
  /\ ledger' = RecordTrade(ledger, type, r, quantity, unit, total)

BookStep ==
  \/ BookOnly
  \/ \E i \in DOMAIN catalog : Rewarding(i)
  \/ \E type \in TradeTypes, r \in Resource, quantity, unit, total \in U64 :
       Trading(type, r, quantity, unit, total)

LEMMA SettleIsBookStep ==
  ASSUME NEW i \in DOMAIN catalog, NEW goods, NEW mode,
         CanSettle(i, goods, mode), SettleBooks(i, mode)
  PROVE  BookStep
<1>1. CASE mode = "ledger"
  BY <1>1 DEF BookStep, Rewarding, CanSettle, SettleBooks, Recorded
<1>2. CASE mode # "ledger"
  BY <1>2 DEF BookStep, BookOnly, CanSettle, SettleBooks, Recorded, Statuses
<1>3. QED
  BY <1>1, <1>2

LEMMA TradeIsBookStep ==
  ASSUME TypeOK, NEW type \in TradeTypes, NEW r \in Resource, NEW price \in Prices,
         NEW quantity \in U64, NEW mode \in Modes, Priced(price, quantity),
         CanRecord(price, quantity, mode), catalog' = catalog,
         ledger' = RecordedTrade(type, r, price, quantity, mode)
  PROVE  BookStep
<1>1. CASE mode = "ledger"
  <2>1. price \in U64 /\ price * quantity \in U64
    BY TradeLedgerType, ContractsAssumption
  <2>2. Trading(type, r, quantity, price, price * quantity)
    BY <1>1 DEF Trading, CanRecord, RecordedTrade
  <2>3. QED
    BY <2>1, <2>2 DEF BookStep
<1>2. CASE mode # "ledger"
  BY <1>2 DEF BookStep, BookOnly, RecordedTrade
<1>3. QED
  BY <1>1, <1>2

LEMMA EveryStepIsBookStep ==
  ASSUME TypeOK, [Next]_vars
  PROVE  BookStep
<1>1. ASSUME NEW offer \in Offers, AddContract(offer) PROVE BookStep
  BY <1>1 DEF AddContract, BookStep, BookOnly
<1>2. ASSUME NEW i \in DOMAIN catalog, NEW status \in Statuses, MarkContract(i, status)
      PROVE  BookStep
  BY <1>2 DEF MarkContract, BookStep, BookOnly
<1>3. ASSUME NEW i \in DOMAIN catalog, NEW mode \in Modes, FulfillFromStorage(i, mode)
      PROVE  BookStep
  BY <1>3, SettleIsBookStep DEF FulfillFromStorage
<1>4. ASSUME NEW i \in DOMAIN catalog, NEW mode \in Modes, NEW p \in DOMAIN fleet,
             FulfillFromArrivedCaravan(i, p, mode)
      PROVE  BookStep
  BY <1>4, SettleIsBookStep DEF FulfillFromArrivedCaravan, CanSettleFromCaravan
<1>5. ASSUME NEW t \in U64, FailOverdue(t) PROVE BookStep
  BY <1>5 DEF FailOverdue, BookStep, BookOnly
<1>6. ASSUME NEW p \in DOMAIN fleet, NEW faction \in Faction, SetCaravanOwner(p, faction)
      PROVE  BookStep
  BY <1>6 DEF SetCaravanOwner, BookStep, BookOnly
<1>7. ASSUME NEW r \in Resource, NEW price \in Prices, NEW quantity \in U64, NEW mode \in Modes,
             Buy(r, price, quantity, mode)
      PROVE  BookStep
  BY <1>7, TradeIsBookStep DEF Buy, TradeTypes
<1>8. ASSUME NEW r \in Resource, NEW price \in Prices, NEW quantity \in U64, NEW mode \in Modes,
             Sell(r, price, quantity, mode)
      PROVE  BookStep
  BY <1>8, TradeIsBookStep DEF Sell, TradeTypes
<1>9. ASSUME NEW ticks \in U64, AdvanceTicks(ticks) PROVE BookStep
  BY <1>9, AdvanceTicksType DEF AdvanceTicks, BookStep, BookOnly
<1>10. CASE UNCHANGED vars
  BY <1>10 DEF vars, BookStep, BookOnly
<1>11. QED
  BY <1>1, <1>2, <1>3, <1>4, <1>5, <1>6, <1>7, <1>8, <1>9, <1>10
  DEF Next, ContractCall, TradeCall, FulfillFromOwnedCaravan, Statuses

LEMMA BookStepKeepsCatalog ==
  ASSUME TypeOK, BookStep
  PROVE  CatalogKept
<1>1. Len(catalog) \in Nat
  BY DEF TypeOK
<1>2. CASE catalog' = catalog
  BY <1>1, <1>2 DEF CatalogKept
<1>3. ASSUME NEW i \in DOMAIN catalog, Rewarding(i) PROVE CatalogKept
  BY <1>3, StatusKept DEF Rewarding, Statuses
<1>4. QED
  BY <1>2, <1>3, StatusKept, FailedKept, OfferKept DEF BookStep, BookOnly, Trading

(* Once add_contract accepted a contract it stays in the catalog on its    *)
(* terms, and mark_contract_status, every fulfilment and the overdue sweep *)
(* of advance_runtime_ticks leave a contract alone that is no longer open. *)
THEOREM TerminalContractsAreFinal == Spec => TerminalIsFinal
<1>1. TypeOK /\ [Next]_vars => [CatalogKept]_vars
  BY EveryStepIsBookStep, BookStepKeepsCatalog
<1>2. QED
  BY <1>1, TypeCorrect, PTL DEF Spec, TerminalIsFinal

-----------------------------------------------------------------------------
(* Every contract of the book passed validate_resource_delivery_contract,  *)
(* and no call changes its terms.                                          *)

BookValid == \A i \in DOMAIN catalog : ValidContract(catalog[i])

LEMMA ValidWhateverTheStatus ==
  ASSUME NEW c \in ContractRecords, NEW status, ValidContract(c)
  PROVE  ValidContract([c EXCEPT !.status = status])
<1> DEFINE d == [c EXCEPT !.status = status]
<1>1. /\ d.issuer = c.issuer /\ d.receiver = c.receiver
      /\ d.quantity = c.quantity /\ d.reward = c.reward
      /\ d.dueDay = c.dueDay /\ d.dueTicks = c.dueTicks
  BY DEF ContractRecords
<1> HIDE DEF d
<1>2. ValidContract(d)
  BY <1>1 DEF ValidContract, DueTicks
<1>3. QED
  BY <1>2 DEF d

LEMMA BookValidStep == TypeOK /\ BookValid /\ BookStep => BookValid'
<1> SUFFICES ASSUME TypeOK, BookValid, BookStep PROVE BookValid'
  OBVIOUS
<1>1. catalog \in Seq(ContractRecords) /\ Len(catalog) \in Nat /\ DOMAIN catalog = 1 .. Len(catalog)
  BY DEF TypeOK
<1>2. CASE catalog' = catalog
  BY <1>2 DEF BookValid
<1>3. ASSUME CatalogKept, DOMAIN catalog' = DOMAIN catalog PROVE BookValid'
  <2>1. ASSUME NEW i \in DOMAIN catalog PROVE ValidContract(catalog'[i])
    <3>1. catalog[i] \in ContractRecords /\ ValidContract(catalog[i])
      BY <1>1 DEF BookValid
    <3>2. catalog'[i] = catalog[i]
          \/ \E status \in Statuses : catalog'[i] = [catalog[i] EXCEPT !.status = status]
      BY <1>3 DEF CatalogKept
    <3>3. QED
      BY <3>1, <3>2, ValidWhateverTheStatus
  <2>2. QED
    BY <1>3, <2>1 DEF BookValid
<1>4. ASSUME NEW offer \in Offers, AddContract(offer) PROVE BookValid'
  <2> DEFINE c == WithDueTicks(offer)
             n == Len(catalog)
  <2>1. c \in ContractRecords
    BY OfferType
  <2>2. catalog' = Append(catalog, c) /\ ValidContract(c)
    BY <1>4 DEF AddContract
  <2> HIDE DEF c
  <2>3. DOMAIN catalog' = 1 .. n + 1 /\ catalog'[n + 1] = c
        /\ \A i \in 1 .. n : catalog'[i] = catalog[i]
    BY <1>1, <2>1, <2>2
  <2> HIDE DEF n
  <2>4. \A i \in 1 .. n + 1 : i = n + 1 \/ i \in 1 .. n
    BY <1>1 DEF n
  <2>5. \A i \in 1 .. n : ValidContract(catalog[i])
    BY <1>1 DEF BookValid, n
  <2>6. QED
    BY <2>2, <2>3, <2>4, <2>5 DEF BookValid
<1>5. QED
  BY <1>2, <1>3, <1>4, StatusKept, FailedKept DEF BookStep, BookOnly, Rewarding, Trading, Statuses

-----------------------------------------------------------------------------
(* The ledger: entries are numbered from 1 without gaps.                   *)

LedgerNumbered ==
  /\ ledger.next = Len(ledger.entries) + 1
  /\ \A i \in DOMAIN ledger.entries :
       ValidPayload(ledger.entries[i]) /\ ledger.entries[i].sequence = i

LEMMA PushNumbered ==
  ASSUME TypeOK, LedgerNumbered, CanNumber(ledger), NEW type \in TradeTypes \cup {"contract_reward"},
         NEW r \in Resource, NEW q \in U64, NEW u \in U64, NEW t \in U64,
         NEW ref \in ContractId \cup {NoReference}, q > 0, t > 0,
         IF type \in TradeTypes THEN u > 0 /\ ref = NoReference ELSE u = 0 /\ ref # NoReference,
         ledger' = Push(ledger, type, r, q, u, t, ref)
  PROVE  LedgerNumbered'
<1> DEFINE e == [sequence |-> ledger.next, type |-> type, resource |-> r,
                 quantity |-> q, unit |-> u, total |-> t, reference |-> ref]
           n == Len(ledger.entries)
<1>1. ledger.entries \in Seq(Entries) /\ n \in Nat /\ DOMAIN ledger.entries = 1 .. n
  BY DEF TypeOK, Ledgers
<1>2. ledger.next \in U64 /\ ledger.next = n + 1 /\ ledger.next # MaxU64
  BY DEF TypeOK, Ledgers, LedgerNumbered, CanNumber
<1>3. ledger'.entries = Append(ledger.entries, e) /\ ledger'.next = n + 2
  BY <1>1, <1>2, WidthAssumption DEF Push, WrapAdd, U64
<1>4. e \in Entries
  BY <1>2 DEF Entries
<1>5. /\ Len(ledger'.entries) = n + 1
      /\ DOMAIN ledger'.entries = 1 .. n + 1
      /\ ledger'.entries[n + 1] = e
      /\ \A i \in 1 .. n : ledger'.entries[i] = ledger.entries[i]
  <2> HIDE DEF e, n
  <2>1. Len(ledger.entries) = n
    BY DEF n
  <2>2. QED
    BY <1>1, <1>3, <1>4, <2>1
<1>6. ValidPayload(e) /\ e.sequence = n + 1
  BY <1>1, <1>2 DEF ValidPayload
<1> HIDE DEF e, n
<1>7. \A i \in 1 .. n : ValidPayload(ledger.entries[i]) /\ ledger.entries[i].sequence = i
  BY <1>1 DEF LedgerNumbered
<1>8. \A i \in 1 .. n + 1 : i = n + 1 \/ i \in 1 .. n
  BY <1>1
<1>9. \A i \in 1 .. n + 1 : ValidPayload(ledger'.entries[i]) /\ ledger'.entries[i].sequence = i
  BY <1>5, <1>6, <1>7, <1>8
<1>10. ledger'.next = Len(ledger'.entries) + 1
  BY <1>1, <1>3, <1>5
<1>11. QED
  BY <1>5, <1>9, <1>10 DEF LedgerNumbered

LEMMA LedgerNumberedStep == TypeOK /\ LedgerNumbered /\ BookStep => LedgerNumbered'
<1> SUFFICES ASSUME TypeOK, LedgerNumbered, BookStep PROVE LedgerNumbered'
  OBVIOUS
<1>1. CASE BookOnly
  BY <1>1 DEF BookOnly, LedgerNumbered
<1>2. ASSUME NEW i \in DOMAIN catalog, Rewarding(i) PROVE LedgerNumbered'
  <2>1. catalog[i] \in ContractRecords
    BY DEF TypeOK
  <2>2. /\ catalog[i].resource \in Resource /\ catalog[i].quantity \in U64
        /\ catalog[i].reward \in U64 /\ catalog[i].id \in ContractId /\ 0 \in U64
    BY <2>1, WidthAssumption DEF ContractRecords, U64
  <2>3. CanNumber(ledger) /\ catalog[i].quantity > 0 /\ catalog[i].reward > 0
    BY <1>2 DEF Rewarding, CanRecordReward
  <2>4. "contract_reward" \notin TradeTypes /\ catalog[i].id # NoReference
    BY <2>2, NoReferenceAssumption DEF TradeTypes
  <2>5. QED
    BY <1>2, <2>2, <2>3, <2>4, PushNumbered DEF Rewarding, RecordReward
<1>3. ASSUME NEW type \in TradeTypes, NEW r \in Resource, NEW q \in U64, NEW u \in U64,
             NEW t \in U64, Trading(type, r, q, u, t)
      PROVE  LedgerNumbered'
  BY <1>3, PushNumbered DEF Trading, CanRecordTrade, RecordTrade
<1>4. QED
  BY <1>1, <1>2, <1>3 DEF BookStep

LEMMA NumberedSurvives == TypeOK /\ LedgerNumbered => LedgerSurvivesRestore
<1> SUFFICES ASSUME TypeOK, LedgerNumbered PROVE LedgerSurvivesRestore
  OBVIOUS
<1> DEFINE n == Len(ledger.entries)
<1>1. ledger.entries \in Seq(Entries) /\ n \in Nat /\ DOMAIN ledger.entries = 1 .. n
      /\ ledger.next \in U64 /\ ledger = [entries |-> ledger.entries, next |-> ledger.next]
  BY DEF TypeOK, Ledgers
<1>2. ledger.next = n + 1 /\ n + 1 <= MaxU64 /\ MaxU64 \in Nat
  BY <1>1, WidthAssumption DEF LedgerNumbered, U64
<1>3. AtMost(n + 1, MaxU64) = n + 1 /\ \A i \in 1 .. n : AtMost(i, MaxU64) = i
  BY <1>1, <1>2 DEF AtMost
<1>4. Restored(ledger.entries) = ledger
  BY <1>1, <1>2, <1>3 DEF Restored
<1>5. Restorable(ledger.entries)
  BY <1>1, <1>3 DEF Restorable, LedgerNumbered
<1>6. QED
  BY <1>4, <1>5 DEF LedgerSurvivesRestore

LEMMA LedgerNumberedInit == Init => LedgerNumbered
BY DEF Init, EmptyLedger, LedgerNumbered

(* Whatever trades and rewards EconomyLedger::record and                   *)
(* record_contract_reward appended, restore_entries accepts the entries    *)
(* and rebuilds the very same ledger, next sequence number included.       *)
THEOREM LedgerRoundTrips == Spec => []LedgerSurvivesRestore
<1>1. TypeOK /\ LedgerNumbered /\ [Next]_vars => LedgerNumbered'
  BY EveryStepIsBookStep, LedgerNumberedStep
<1>2. QED
  BY <1>1, LedgerNumberedInit, NumberedSurvives, TypeCorrect, PTL DEF Spec

-----------------------------------------------------------------------------
(* One id, one contract.                                                   *)

LEMMA UniqueStep == TypeOK /\ UniqueContracts /\ BookStep => UniqueContracts'
<1> SUFFICES ASSUME TypeOK, UniqueContracts, BookStep PROVE UniqueContracts'
  OBVIOUS
<1>1. CASE catalog' = catalog
  BY <1>1 DEF UniqueContracts
<1>2. ASSUME DOMAIN catalog' = DOMAIN catalog,
             \A j \in DOMAIN catalog : catalog'[j].id = catalog[j].id
      PROVE  UniqueContracts'
  BY <1>2 DEF UniqueContracts
<1>3. ASSUME NEW offer \in Offers, AddContract(offer) PROVE UniqueContracts'
  <2> DEFINE c == WithDueTicks(offer)
             n == Len(catalog)
  <2>1. catalog \in Seq(ContractRecords) /\ n \in Nat /\ DOMAIN catalog = 1 .. n
        /\ c \in ContractRecords
    BY OfferType DEF TypeOK
  <2>2. catalog' = Append(catalog, c) /\ \A i \in DOMAIN catalog : catalog[i].id # c.id
    BY <1>3 DEF AddContract, KnownContract
  <2> HIDE DEF c
  <2>3. /\ DOMAIN catalog' = 1 .. n + 1
        /\ catalog'[n + 1] = c
        /\ \A i \in 1 .. n : catalog'[i] = catalog[i]
    BY <2>1, <2>2
  <2> HIDE DEF n
  <2>4. \A i \in 1 .. n + 1 : i = n + 1 \/ i \in 1 .. n
    BY <2>1
  <2>5. QED
    BY <2>1, <2>2, <2>3, <2>4 DEF UniqueContracts
<1>4. QED
  BY <1>1, <1>2, <1>3, StatusKept, FailedKept DEF BookStep, BookOnly, Rewarding, Trading, Statuses

(* add_contract's duplicate check keeps ids unique through every call, so  *)
(* find_contract, which returns the first match, is never ambiguous.       *)
THEOREM ContractsStayUnique == Spec => []UniqueContracts
<1>1. TypeOK /\ UniqueContracts /\ [Next]_vars => UniqueContracts'
  BY EveryStepIsBookStep, UniqueStep
<1>2. Init => UniqueContracts
  BY DEF Init, UniqueContracts
<1>3. QED
  BY <1>1, <1>2, TypeCorrect, PTL DEF Spec

-----------------------------------------------------------------------------
(* One contract, one reward.                                               *)

(* A contract that was fulfilled stays, unchanged, where it is.            *)
LEMMA FulfilledStays ==
  ASSUME TypeOK, CatalogKept, catalog' \in Seq(ContractRecords),
         NEW e, NEW j \in DOMAIN catalog, PaysContract(e, catalog[j])
  PROVE  j \in DOMAIN catalog' /\ PaysContract(e, catalog'[j])
<1>1. ~IsOpen(catalog[j])
  BY DEF PaysContract, IsOpen
<1>2. catalog'[j] = catalog[j]
  BY <1>1 DEF CatalogKept
<1>3. DOMAIN catalog = 1 .. Len(catalog) /\ DOMAIN catalog' = 1 .. Len(catalog')
      /\ Len(catalog) \in Nat /\ Len(catalog') \in Nat /\ Len(catalog') >= Len(catalog)
  BY DEF TypeOK, CatalogKept
<1>4. j \in DOMAIN catalog'
  BY <1>3
<1>5. QED
  BY <1>2, <1>4

LEMMA PushKeepsEntries ==
  ASSUME TypeOK, CanNumber(ledger), NEW type \in TradeTypes \cup {"contract_reward"},
         NEW r \in Resource, NEW q \in U64, NEW u \in U64, NEW t \in U64,
         NEW ref \in ContractId \cup {NoReference},
         ledger' = Push(ledger, type, r, q, u, t, ref)
  PROVE  LET n == Len(ledger.entries)
             e == ledger'.entries[n + 1]
         IN  /\ DOMAIN ledger.entries = 1 .. n
             /\ DOMAIN ledger'.entries = 1 .. n + 1
             /\ n \in Nat
             /\ \A i \in 1 .. n : ledger'.entries[i] = ledger.entries[i]
             /\ e.type = type /\ e.resource = r /\ e.quantity = q
             /\ e.total = t /\ e.reference = ref
<1> DEFINE f == [sequence |-> ledger.next, type |-> type, resource |-> r,
                 quantity |-> q, unit |-> u, total |-> t, reference |-> ref]
           n == Len(ledger.entries)
<1>1. ledger.entries \in Seq(Entries) /\ n \in Nat /\ DOMAIN ledger.entries = 1 .. n
      /\ ledger.next \in U64
  BY DEF TypeOK, Ledgers
<1>2. f \in Entries /\ ledger'.entries = Append(ledger.entries, f)
  BY <1>1 DEF Entries, Push
<1>3. f.type = type /\ f.resource = r /\ f.quantity = q /\ f.total = t /\ f.reference = ref
  OBVIOUS
<1> HIDE DEF f
<1>4. /\ DOMAIN ledger'.entries = 1 .. n + 1
      /\ ledger'.entries[n + 1] = f
      /\ \A i \in 1 .. n : ledger'.entries[i] = ledger.entries[i]
  BY <1>1, <1>2
<1>5. QED
  BY <1>1, <1>3, <1>4

LEMMA OneRewardStep ==
  TypeOK /\ UniqueContracts /\ OneRewardPerContract /\ BookStep /\ TypeOK' => OneRewardPerContract'
<1> SUFFICES ASSUME TypeOK, UniqueContracts, OneRewardPerContract, BookStep, TypeOK'
             PROVE  OneRewardPerContract'
  OBVIOUS
<1>1. CatalogKept /\ catalog' \in Seq(ContractRecords)
  BY BookStepKeepsCatalog DEF TypeOK
<1>2. ASSUME ledger' = ledger PROVE OneRewardPerContract'
  <2>1. Rewards(ledger') = Rewards(ledger)
    BY <1>2
  <2>2. ASSUME NEW i \in Rewards(ledger)
        PROVE  \E j \in DOMAIN catalog' : PaysContract(ledger.entries[i], catalog'[j])
    BY <1>1, <2>2, FulfilledStays DEF OneRewardPerContract
  <2>3. QED
    BY <1>2, <2>1, <2>2 DEF OneRewardPerContract
<1>3. ASSUME NEW type \in TradeTypes, NEW r \in Resource, NEW q \in U64, NEW u \in U64,
             NEW t \in U64, Trading(type, r, q, u, t)
      PROVE  OneRewardPerContract'
  <2> DEFINE n == Len(ledger.entries)
  <2>1. CanNumber(ledger) /\ ledger' = Push(ledger, type, r, q, u, t, NoReference)
    BY <1>3 DEF Trading, CanRecordTrade, RecordTrade
  <2>2. /\ DOMAIN ledger.entries = 1 .. n /\ DOMAIN ledger'.entries = 1 .. n + 1 /\ n \in Nat
        /\ \A i \in 1 .. n : ledger'.entries[i] = ledger.entries[i]
        /\ ledger'.entries[n + 1].type = type
    BY <2>1, PushKeepsEntries
  <2>3. type # "contract_reward"
    BY DEF TradeTypes
  <2>4. Rewards(ledger') = Rewards(ledger)
    <3> HIDE DEF n
    <3>1. \A i \in 1 .. n + 1 : i = n + 1 \/ i \in 1 .. n
      BY <2>2
    <3>2. QED
      BY <2>2, <2>3, <3>1 DEF Rewards, IsReward
  <2>5. catalog' = catalog
    BY <1>3 DEF Trading
  <2>6. \A i \in Rewards(ledger) : ledger'.entries[i] = ledger.entries[i]
    BY <2>2 DEF Rewards
  <2>7. QED
    BY <2>4, <2>5, <2>6 DEF OneRewardPerContract
<1>4. ASSUME NEW j \in DOMAIN catalog, Rewarding(j) PROVE OneRewardPerContract'
  <2> DEFINE n == Len(ledger.entries)
             c == catalog[j]
  <2>1. c \in ContractRecords
    BY DEF TypeOK
  <2>2. /\ c.resource \in Resource /\ c.quantity \in U64 /\ c.reward \in U64
        /\ c.id \in ContractId /\ 0 \in U64 /\ c.status = "open"
    BY <1>4, <2>1, WidthAssumption DEF ContractRecords, U64, Rewarding, IsOpen
  <2>3. /\ CanNumber(ledger)
        /\ ledger' = Push(ledger, "contract_reward", c.resource, c.quantity, 0, c.reward, c.id)
    BY <1>4 DEF Rewarding, CanRecordReward, RecordReward
  <2>4. /\ DOMAIN ledger.entries = 1 .. n /\ DOMAIN ledger'.entries = 1 .. n + 1 /\ n \in Nat
        /\ \A i \in 1 .. n : ledger'.entries[i] = ledger.entries[i]
        /\ ledger'.entries[n + 1].type = "contract_reward"
        /\ ledger'.entries[n + 1].resource = c.resource
        /\ ledger'.entries[n + 1].quantity = c.quantity
        /\ ledger'.entries[n + 1].total = c.reward
        /\ ledger'.entries[n + 1].reference = c.id
    <3> HIDE DEF c
    <3>1. PICK r \in Resource, q \in U64, u \in U64, t \in U64, ref \in ContractId \cup {NoReference} :
            r = c.resource /\ q = c.quantity /\ u = 0 /\ t = c.reward /\ ref = c.id
      BY <2>2
    <3>2. PICK type \in TradeTypes \cup {"contract_reward"} : type = "contract_reward"
      OBVIOUS
    <3>3. CanNumber(ledger) /\ ledger' = Push(ledger, type, r, q, u, t, ref)
      BY <2>3, <3>1, <3>2
    <3>4. /\ DOMAIN ledger.entries = 1 .. n /\ DOMAIN ledger'.entries = 1 .. n + 1 /\ n \in Nat
          /\ \A i \in 1 .. n : ledger'.entries[i] = ledger.entries[i]
          /\ ledger'.entries[n + 1].type = type
          /\ ledger'.entries[n + 1].resource = r
          /\ ledger'.entries[n + 1].quantity = q
          /\ ledger'.entries[n + 1].total = t
          /\ ledger'.entries[n + 1].reference = ref
      <4> HIDE DEF c
      <4>1. QED
        BY <3>3, PushKeepsEntries
    <3>5. QED
      BY <3>1, <3>2, <3>4
  <2>5. j \in DOMAIN catalog' /\ catalog'[j] = [c EXCEPT !.status = "fulfilled"]
    BY <1>4, WithStatusType DEF Rewarding, WithStatus, TypeOK, Statuses
  <2>6. PaysContract(ledger'.entries[n + 1], catalog'[j])
    <3> HIDE DEF c, n
    <3>1. /\ catalog'[j].id = c.id /\ catalog'[j].status = "fulfilled"
          /\ catalog'[j].resource = c.resource /\ catalog'[j].quantity = c.quantity
          /\ catalog'[j].reward = c.reward
      BY <2>1, <2>5 DEF ContractRecords
    <3>2. QED
      BY <2>4, <3>1 DEF PaysContract
  <2>7. ASSUME NEW i \in Rewards(ledger) PROVE ledger.entries[i].reference # c.id
    <3>1. PICK k \in DOMAIN catalog : PaysContract(ledger.entries[i], catalog[k])
      BY <2>7 DEF OneRewardPerContract
    <3>2. catalog[k].status = "fulfilled" /\ catalog[k].id = ledger.entries[i].reference
      BY <3>1 DEF PaysContract
    <3>3. k # j
      BY <2>2, <3>2
    <3>4. QED
      BY <3>2, <3>3 DEF UniqueContracts
  <2>8. Rewards(ledger') = Rewards(ledger) \cup {n + 1}
    <3> HIDE DEF n
    <3>1. \A i : i \in 1 .. n + 1 <=> i = n + 1 \/ i \in 1 .. n
      BY <2>4
    <3>2. QED
      BY <2>4, <3>1 DEF Rewards, IsReward
  <2>9. /\ \A i \in Rewards(ledger) : ledger'.entries[i] = ledger.entries[i] /\ i # n + 1
    <3>1. Rewards(ledger) \subseteq 1 .. n
      BY <2>4 DEF Rewards
    <3>2. QED
      BY <2>4, <3>1
  <2> HIDE DEF n, c
  <2>10. ASSUME NEW i \in Rewards(ledger')
         PROVE  \E k \in DOMAIN catalog' : PaysContract(ledger'.entries[i], catalog'[k])
    <3>1. CASE i = n + 1
      BY <2>5, <2>6, <3>1
    <3>2. CASE i # n + 1
      <4>1. i \in Rewards(ledger)
        BY <2>8, <3>2
      <4>2. PICK k \in DOMAIN catalog : PaysContract(ledger.entries[i], catalog[k])
        BY <4>1 DEF OneRewardPerContract
      <4>3. QED
        BY <1>1, <2>9, <4>1, <4>2, FulfilledStays
    <3>3. QED
      BY <3>1, <3>2
  <2>11. ASSUME NEW i \in Rewards(ledger'), NEW k \in Rewards(ledger'),
                ledger'.entries[k].reference = ledger'.entries[i].reference
         PROVE  k = i
    BY <2>4, <2>7, <2>8, <2>9, <2>11 DEF OneRewardPerContract
  <2>12. QED
    BY <2>10, <2>11 DEF OneRewardPerContract
<1>5. QED
  BY <1>2, <1>3, <1>4 DEF BookStep, BookOnly

(* However often a host retries fulfill_contract_*_with_reward_and_ledger, *)
(* on whatever storage or caravan, each reward of the ledger belongs to    *)
(* one fulfilled contract, on its terms, and no contract has two.          *)
THEOREM NoContractPaidTwice == Spec => []OneRewardPerContract
<1>1. TypeOK /\ UniqueContracts /\ OneRewardPerContract /\ [Next]_vars => OneRewardPerContract'
  BY EveryStepIsBookStep, OneRewardStep, TypeStep
<1>2. Init => OneRewardPerContract
  BY DEF Init, EmptyLedger, OneRewardPerContract, Rewards
<1>3. QED
  BY <1>1, <1>2, TypeCorrect, ContractsStayUnique, PTL DEF Spec

-----------------------------------------------------------------------------
(* A host that settles and trades through the recording calls only, and    *)
(* the advice of EconomyDepth to any host.                                 *)

RecordingHost == Modes \subseteq {"ledger"}

-----------------------------------------------------------------------------
(* What a step of that host does to book, wallet and ledger.               *)

(* No coin moves and nothing is recorded.                                  *)
QuietStep ==
  /\ wallet' = wallet /\ ledger' = ledger
  /\ \/ catalog' = catalog
     \/ \E offer \in Offers : AddContract(offer)
     \/ \E t \in U64 : catalog' = FailedAt(t)
     \/ \E i \in DOMAIN catalog, status \in {"failed", "cancelled"} :
          IsOpen(catalog[i]) /\ catalog' = WithStatus(i, status)

RewardedStep(i) == Rewarding(i) /\ wallet' = wallet + catalog[i].reward

TradedStep(type, r, quantity, unit, total) ==
  /\ Trading(type, r, quantity, unit, total)
  /\ IF type = "buy" THEN wallet' + total = wallet ELSE wallet' = wallet + total

RecordedStep ==
  \/ QuietStep
  \/ \E i \in DOMAIN catalog : RewardedStep(i)
  \/ \E type \in TradeTypes, r \in Resource, quantity, unit, total \in U64 :
       TradedStep(type, r, quantity, unit, total)

LEMMA AddsExactly ==
  ASSUME NEW a \in U64, NEW b \in U64, CanAdd(a, b)
  PROVE  WrapAdd(a, b) = a + b
BY WidthAssumption DEF CanAdd, WrapAdd, U64

LEMMA SettleIsRecorded ==
  ASSUME TypeOK, NEW i \in DOMAIN catalog, NEW goods,
         CanSettle(i, goods, "ledger"), SettleBooks(i, "ledger")
  PROVE  RecordedStep
<1>1. wallet \in U64 /\ catalog[i] \in ContractRecords
  BY DEF TypeOK
<1>2. catalog[i].reward \in U64
  BY <1>1 DEF ContractRecords
<1>3. Rewarding(i) /\ CanAdd(wallet, catalog[i].reward) /\ wallet' = WrapAdd(wallet, catalog[i].reward)
  BY DEF Rewarding, CanSettle, SettleBooks, Recorded, Paid, PayingModes
<1>4. RewardedStep(i)
  BY <1>1, <1>2, <1>3, AddsExactly DEF RewardedStep
<1>5. QED
  BY <1>4 DEF RecordedStep

LEMMA TradeIsRecorded ==
  ASSUME TypeOK, NEW type \in TradeTypes, NEW r \in Resource, NEW price \in Prices,
         NEW quantity \in U64, Priced(price, quantity),
         CanRecord(price, quantity, "ledger"), catalog' = catalog,
         ledger' = RecordedTrade(type, r, price, quantity, "ledger"),
         IF type = "buy" THEN wallet' + price * quantity = wallet ELSE wallet' = wallet + price * quantity
  PROVE  RecordedStep
<1>1. price \in U64 /\ price * quantity \in U64
  BY TradeLedgerType, ContractsAssumption
<1>2. Trading(type, r, quantity, price, price * quantity)
  BY DEF Trading, CanRecord, RecordedTrade
<1>3. TradedStep(type, r, quantity, price, price * quantity)
  BY <1>2 DEF TradedStep
<1>4. QED
  BY <1>1, <1>3 DEF RecordedStep

LEMMA EveryStepIsRecorded ==
  ASSUME RecordingHost, TypeOK, [Next]_vars
  PROVE  RecordedStep
<1>1. ASSUME NEW offer \in Offers, AddContract(offer) PROVE RecordedStep
  BY <1>1 DEF AddContract, RecordedStep, QuietStep
<1>2. ASSUME NEW i \in DOMAIN catalog, NEW status \in {"failed", "cancelled"}, MarkContract(i, status)
      PROVE  RecordedStep
  BY <1>2 DEF MarkContract, RecordedStep, QuietStep
<1>3. ASSUME NEW i \in DOMAIN catalog, FulfillFromStorage(i, "ledger") PROVE RecordedStep
  BY <1>3, SettleIsRecorded DEF FulfillFromStorage
<1>4. ASSUME NEW i \in DOMAIN catalog, NEW p \in DOMAIN fleet, FulfillFromArrivedCaravan(i, p, "ledger")
      PROVE  RecordedStep
  BY <1>4, SettleIsRecorded DEF FulfillFromArrivedCaravan, CanSettleFromCaravan
<1>5. ASSUME NEW t \in U64, FailOverdue(t) PROVE RecordedStep
  BY <1>5 DEF FailOverdue, RecordedStep, QuietStep
<1>6. ASSUME NEW p \in DOMAIN fleet, NEW faction \in Faction, SetCaravanOwner(p, faction)
      PROVE  RecordedStep
  BY <1>6 DEF SetCaravanOwner, RecordedStep, QuietStep
<1>7. ASSUME NEW r \in Resource, NEW price \in Prices, NEW quantity \in U64, Buy(r, price, quantity, "ledger")
      PROVE  RecordedStep
  <2>1. wallet \in U64 /\ price * quantity \in U64
    BY <1>7, TradeLedgerType DEF TypeOK, Buy, TradeTypes
  <2>2. wallet' + price * quantity = wallet
    <3> DEFINE total == price * quantity
    <3>1. wallet \in Nat /\ total \in Nat /\ wallet' = wallet - total
      BY <1>7, <2>1 DEF Buy, U64
    <3> HIDE DEF total
    <3>2. wallet' + total = wallet
      BY <3>1
    <3>3. QED
      BY <3>2 DEF total
  <2>3. QED
    BY <1>7, <2>2, TradeIsRecorded DEF Buy, TradeTypes
<1>8. ASSUME NEW r \in Resource, NEW price \in Prices, NEW quantity \in U64, Sell(r, price, quantity, "ledger")
      PROVE  RecordedStep
  <2>1. wallet \in U64 /\ price * quantity \in U64
    BY <1>8, TradeLedgerType DEF TypeOK, Sell, TradeTypes
  <2>2. wallet' = wallet + price * quantity
    BY <1>8, <2>1, AddsExactly DEF Sell
  <2>3. QED
    BY <1>8, <2>2, TradeIsRecorded DEF Sell, TradeTypes
<1>9. ASSUME NEW ticks \in U64, AdvanceTicks(ticks) PROVE RecordedStep
  BY <1>9, AdvanceTicksType DEF AdvanceTicks, RecordedStep, QuietStep
<1>10. CASE UNCHANGED vars
  BY <1>10 DEF vars, RecordedStep, QuietStep
<1>11. QED
  BY <1>1, <1>2, <1>3, <1>4, <1>5, <1>6, <1>7, <1>8, <1>9, <1>10
  DEF Next, ContractCall, TradeCall, FulfillFromOwnedCaravan, RecordingHost

-----------------------------------------------------------------------------
(* Coins and entries.                                                      *)

LEMMA PushAppends ==
  ASSUME TypeOK, NEW type \in TradeTypes \cup {"contract_reward"}, NEW r \in Resource, NEW q \in U64,
         NEW u \in U64, NEW t \in U64, NEW ref \in ContractId \cup {NoReference},
         ledger' = Push(ledger, type, r, q, u, t, ref)
  PROVE  LET e == ledger'.entries[Len(ledger'.entries)]
         IN  /\ ledger'.entries = Append(ledger.entries, e)
             /\ e.type = type /\ e.total = t
<1> DEFINE f == [sequence |-> ledger.next, type |-> type, resource |-> r,
                 quantity |-> q, unit |-> u, total |-> t, reference |-> ref]
<1>1. ledger.entries \in Seq(Entries) /\ ledger.next \in U64
  BY DEF TypeOK, Ledgers
<1>2. f \in Entries /\ ledger'.entries = Append(ledger.entries, f)
  BY <1>1 DEF Entries, Push
<1>3. f.type = type /\ f.total = t
  OBVIOUS
<1> HIDE DEF f
<1>4. ledger'.entries[Len(ledger'.entries)] = f
  BY <1>1, <1>2
<1>5. QED
  BY <1>2, <1>3, <1>4

LEMMA RecordedCoins ==
  ASSUME TypeOK, RecordedStep
  PROVE  CoinsFollowEntries
<1>1. CASE QuietStep
  BY <1>1 DEF QuietStep, CoinsFollowEntries
<1>2. ASSUME NEW i \in DOMAIN catalog, RewardedStep(i) PROVE CoinsFollowEntries
  <2>1. catalog[i] \in ContractRecords /\ wallet \in U64
    BY DEF TypeOK
  <2>2. /\ catalog[i].resource \in Resource /\ catalog[i].quantity \in U64
        /\ catalog[i].reward \in U64 /\ catalog[i].id \in ContractId /\ 0 \in U64
    BY <2>1, WidthAssumption DEF ContractRecords, U64
  <2>3. LET e == ledger'.entries[Len(ledger'.entries)]
        IN  /\ ledger'.entries = Append(ledger.entries, e)
            /\ e.type = "contract_reward" /\ e.total = catalog[i].reward
    BY <1>2, <2>2, PushAppends DEF RewardedStep, Rewarding, RecordReward
  <2>4. wallet' + 0 = wallet + catalog[i].reward
    BY <1>2, <2>1, <2>2 DEF RewardedStep, U64
  <2>5. QED
    BY <2>3, <2>4 DEF CoinsFollowEntries, Earned, Spent
<1>3. ASSUME NEW type \in TradeTypes, NEW r \in Resource, NEW q \in U64, NEW u \in U64, NEW t \in U64,
             TradedStep(type, r, q, u, t)
      PROVE  CoinsFollowEntries
  <2>1. LET e == ledger'.entries[Len(ledger'.entries)]
        IN  /\ ledger'.entries = Append(ledger.entries, e)
            /\ e.type = type /\ e.total = t
    BY <1>3, PushAppends DEF TradedStep, Trading, RecordTrade
  <2>2. wallet \in Nat /\ t \in Nat
    BY DEF TypeOK, U64
  <2>3. CASE type = "buy"
    <3>1. wallet' + t = wallet + 0
      BY <1>3, <2>2, <2>3 DEF TradedStep
    <3>2. QED
      BY <2>1, <2>3, <3>1 DEF CoinsFollowEntries, Earned, Spent
  <2>4. CASE type # "buy"
    <3>1. wallet' + 0 = wallet + t
      BY <1>3, <2>2, <2>4 DEF TradedStep
    <3>2. QED
      BY <2>1, <2>4, <3>1 DEF CoinsFollowEntries, Earned, Spent
  <2>5. QED
    BY <2>3, <2>4
<1>4. QED
  BY <1>1, <1>2, <1>3 DEF RecordedStep

(* Coins of a host that only uses the recording calls move in a step as    *)
(* the entry appended in it says: trade_with_ledger and                    *)
(* fulfill_contract_*_with_reward_and_ledger commit wallet and ledger      *)
(* together, and neither addition wraps around.                            *)
THEOREM CoinsFollowTheLedger ==
  ASSUME RecordingHost
  PROVE  Spec => WalletFollowsLedger
<1>1. TypeOK /\ [Next]_vars => [CoinsFollowEntries]_vars
  BY EveryStepIsRecorded, RecordedCoins
<1>2. QED
  BY <1>1, TypeCorrect, PTL DEF Spec, WalletFollowsLedger

-----------------------------------------------------------------------------
(* The book Escrow sees, as a function of catalog and ledger.              *)

Has(cat, id) == \E i \in DOMAIN cat : cat[i].id = id

OneEach(cat) == \A i, j \in DOMAIN cat : cat[i].id = cat[j].id => i = j

Stands(status) ==
  CASE status = "open" -> "offered" [] status = "fulfilled" -> "settled" [] OTHER -> "dropped"

ShownState(cat, id) ==
  CASE ~Has(cat, id) -> "unknown"
    [] \E i \in DOMAIN cat : cat[i].id = id /\ IsOpen(cat[i]) -> "offered"
    [] \E i \in DOMAIN cat : cat[i].id = id /\ cat[i].status = "fulfilled" -> "settled"
    [] OTHER -> "dropped"

ShownPrice(cat, id) ==
  IF Has(cat, id) THEN cat[CHOOSE i \in DOMAIN cat : cat[i].id = id].reward ELSE 0

Shown(cat) == [id \in ContractId |-> ShownState(cat, id)]

ShownPrices(cat) == [id \in ContractId |-> ShownPrice(cat, id)]

ShownReceipts(l) ==
  {<<l.entries[i].sequence, l.entries[i].reference, l.entries[i].total>> : i \in Rewards(l)}

LEMMA BookIsShown ==
  /\ [id \in ContractId |-> EscrowState(id)] = Shown(catalog)
  /\ [id \in ContractId |-> EscrowState(id)]' = Shown(catalog')
  /\ [id \in ContractId |-> EscrowPrice(id)] = ShownPrices(catalog)
  /\ [id \in ContractId |-> EscrowPrice(id)]' = ShownPrices(catalog')
  /\ EscrowReceipts = ShownReceipts(ledger)
  /\ EscrowReceipts' = ShownReceipts(ledger')
<1>1. ASSUME NEW id \in ContractId
      PROVE  /\ EscrowState(id) = ShownState(catalog, id)
             /\ EscrowPrice(id) = ShownPrice(catalog, id)
  BY DEF EscrowState, EscrowPrice, ShownState, ShownPrice, KnownContract, Has
<1>2. ASSUME NEW id \in ContractId
      PROVE  /\ EscrowState(id)' = ShownState(catalog', id)
             /\ EscrowPrice(id)' = ShownPrice(catalog', id)
  <2>1. EscrowState(id)' = ShownState(catalog', id)
    BY DEF EscrowState, ShownState, KnownContract, Has
  <2>2. EscrowPrice(id)' = ShownPrice(catalog', id)
    BY DEF EscrowPrice, ShownPrice, KnownContract, Has
  <2>3. QED
    BY <2>1, <2>2
<1>3. EscrowReceipts = ShownReceipts(ledger)
  BY DEF EscrowReceipts, ShownReceipts
<1>4. EscrowReceipts' = ShownReceipts(ledger')
  BY DEF EscrowReceipts, ShownReceipts, Rewards
<1>5. QED
  BY <1>1, <1>2, <1>3, <1>4 DEF Shown, ShownPrices

LEMMA ShownAt ==
  ASSUME NEW cat, OneEach(cat), NEW i \in DOMAIN cat
  PROVE  /\ ShownState(cat, cat[i].id) = Stands(cat[i].status)
         /\ ShownPrice(cat, cat[i].id) = cat[i].reward
<1>1. Has(cat, cat[i].id) /\ \A j \in DOMAIN cat : cat[j].id = cat[i].id => j = i
  BY DEF Has, OneEach
<1>2. (CHOOSE j \in DOMAIN cat : cat[j].id = cat[i].id) = i
  BY <1>1
<1>3. ShownPrice(cat, cat[i].id) = cat[i].reward
  BY <1>1, <1>2 DEF ShownPrice
<1>4. CASE cat[i].status = "open"
  BY <1>1, <1>3, <1>4 DEF ShownState, Stands, IsOpen
<1>5. CASE cat[i].status = "fulfilled"
  BY <1>1, <1>3, <1>5 DEF ShownState, Stands, IsOpen
<1>6. CASE cat[i].status # "open" /\ cat[i].status # "fulfilled"
  BY <1>1, <1>3, <1>6 DEF ShownState, Stands, IsOpen
<1>7. QED
  BY <1>4, <1>5, <1>6

LEMMA ShownNowhere ==
  ASSUME NEW cat, NEW id, ~Has(cat, id)
  PROVE  ShownState(cat, id) = "unknown" /\ ShownPrice(cat, id) = 0
<1>1. ~\E i \in DOMAIN cat : cat[i].id = id
  BY DEF Has
<1>2. ShownState(cat, id) = "unknown"
  BY <1>1 DEF ShownState
<1>3. ShownPrice(cat, id) = 0
  BY DEF ShownPrice
<1>4. QED
  BY <1>2, <1>3

-----------------------------------------------------------------------------
(* Every step of that host is a step of Escrow.                            *)

LEMMA OfferShown ==
  ASSUME TypeOK, UniqueContracts, UniqueContracts', NEW offer \in Offers, AddContract(offer)
  PROVE  LET c == WithDueTicks(offer)
         IN  /\ c.id \in ContractId /\ c.reward \in U64 \ {0}
             /\ Shown(catalog)[c.id] = "unknown"
             /\ Shown(catalog') = [Shown(catalog) EXCEPT ![c.id] = "offered"]
             /\ ShownPrices(catalog') = [ShownPrices(catalog) EXCEPT ![c.id] = c.reward]
<1> DEFINE c == WithDueTicks(offer)
           n == Len(catalog) + 1
<1>1. c \in ContractRecords /\ catalog \in Seq(ContractRecords)
  BY OfferType DEF TypeOK
<1>2. ~Has(catalog, c.id) /\ IsOpen(c) /\ c.reward > 0 /\ catalog' = Append(catalog, c)
  BY DEF AddContract, ValidContract, KnownContract, Has
<1>3. c.id \in ContractId /\ c.reward \in U64 \ {0}
  BY <1>1, <1>2 DEF ContractRecords, U64
<1> HIDE DEF c
<1>4. /\ DOMAIN catalog' = 1 .. n /\ catalog'[n] = c /\ n \in DOMAIN catalog'
      /\ DOMAIN catalog = 1 .. Len(catalog) /\ Len(catalog) \in Nat
      /\ \A j \in DOMAIN catalog : j \in DOMAIN catalog' /\ catalog'[j] = catalog[j]
      /\ \A j \in DOMAIN catalog' : j = n \/ j \in DOMAIN catalog
  BY <1>1, <1>2
<1> HIDE DEF n
<1>5. OneEach(catalog) /\ OneEach(catalog')
  BY DEF UniqueContracts, OneEach
<1>6. ShownState(catalog', c.id) = "offered" /\ ShownPrice(catalog', c.id) = c.reward
  <2>1. PICK cat : cat = catalog' /\ OneEach(cat) /\ n \in DOMAIN cat /\ cat[n] = c
    BY <1>4, <1>5
  <2>2. ShownState(cat, c.id) = Stands(c.status) /\ ShownPrice(cat, c.id) = c.reward
    BY <2>1, ShownAt
  <2>3. Stands(c.status) = "offered"
    BY <1>2 DEF IsOpen, Stands
  <2>4. QED
    BY <2>1, <2>2, <2>3
<1>7. ASSUME NEW id \in ContractId, id # c.id
      PROVE  /\ ShownState(catalog', id) = ShownState(catalog, id)
             /\ ShownPrice(catalog', id) = ShownPrice(catalog, id)
  <2>1. CASE Has(catalog, id)
    <3>1. PICK j \in DOMAIN catalog : catalog[j].id = id
      BY <2>1 DEF Has
    <3>2. j \in DOMAIN catalog' /\ catalog'[j] = catalog[j]
      BY <1>4
    <3>3. QED
      BY <3>1, <3>2, <1>5, ShownAt
  <2>2. CASE ~Has(catalog, id)
    <3>1. ~Has(catalog', id)
      BY <2>2, <1>4, <1>7 DEF Has
    <3>2. QED
      BY <2>2, <3>1, ShownNowhere
  <2>3. QED
    BY <2>1, <2>2
<1>8. Shown(catalog)[c.id] = "unknown"
  BY <1>2, <1>3, ShownNowhere DEF Shown
<1>9. Shown(catalog') = [Shown(catalog) EXCEPT ![c.id] = "offered"]
  BY <1>6, <1>7 DEF Shown
<1>10. ShownPrices(catalog') = [ShownPrices(catalog) EXCEPT ![c.id] = c.reward]
  BY <1>6, <1>7 DEF ShownPrices
<1>11. QED
  BY <1>3, <1>8, <1>9, <1>10 DEF c

(* Contracts move in place: terms stay, and the ids that move are known.   *)
LEMMA MovedShown ==
  ASSUME NEW cat, NEW cat2, OneEach(cat), OneEach(cat2), DOMAIN cat2 = DOMAIN cat,
         \A j \in DOMAIN cat : cat2[j].id = cat[j].id /\ cat2[j].reward = cat[j].reward
  PROVE  /\ ShownPrices(cat2) = ShownPrices(cat)
         /\ \A j \in DOMAIN cat : ShownState(cat2, cat[j].id) = Stands(cat2[j].status)
         /\ \A id : (\A j \in DOMAIN cat : cat[j].id = id => cat2[j].status = cat[j].status)
                    => ShownState(cat2, id) = ShownState(cat, id)
<1>1. \A j \in DOMAIN cat : /\ ShownState(cat2, cat[j].id) = Stands(cat2[j].status)
                            /\ ShownPrice(cat2, cat[j].id) = cat[j].reward
                            /\ ShownState(cat, cat[j].id) = Stands(cat[j].status)
                            /\ ShownPrice(cat, cat[j].id) = cat[j].reward
  <2>1. TAKE j \in DOMAIN cat
  <2>2. j \in DOMAIN cat2 /\ cat2[j].id = cat[j].id /\ cat2[j].reward = cat[j].reward
    OBVIOUS
  <2>3. QED
    BY <2>2, ShownAt
<1>2. ASSUME NEW id PROVE Has(cat2, id) <=> Has(cat, id)
  BY DEF Has
<1>3. ASSUME NEW id PROVE ShownPrice(cat2, id) = ShownPrice(cat, id)
  <2>1. CASE Has(cat, id)
    BY <2>1, <1>1 DEF Has
  <2>2. CASE ~Has(cat, id)
    BY <2>2, <1>2, ShownNowhere
  <2>3. QED
    BY <2>1, <2>2
<1>4. ASSUME NEW id, \A j \in DOMAIN cat : cat[j].id = id => cat2[j].status = cat[j].status
      PROVE  ShownState(cat2, id) = ShownState(cat, id)
  <2>1. CASE Has(cat, id)
    <3>1. PICK j \in DOMAIN cat : cat[j].id = id
      BY <2>1 DEF Has
    <3>2. QED
      BY <3>1, <1>1, <1>4
  <2>2. CASE ~Has(cat, id)
    BY <2>2, <1>2, ShownNowhere
  <2>3. QED
    BY <2>1, <2>2
<1>5. QED
  BY <1>1, <1>3, <1>4 DEF ShownPrices

(* The contracts that left the open status without a payment are dropped.  *)
LEMMA DropShown ==
  ASSUME TypeOK, UniqueContracts, UniqueContracts', DOMAIN catalog' = DOMAIN catalog,
         \A j \in DOMAIN catalog :
           /\ catalog'[j].id = catalog[j].id /\ catalog'[j].reward = catalog[j].reward
           /\ \/ catalog'[j] = catalog[j]
              \/ IsOpen(catalog[j]) /\ catalog'[j].status \in {"failed", "cancelled"}
  PROVE  /\ \E C \in SUBSET ContractId :
              /\ \A c \in C : Shown(catalog)[c] = "offered"
              /\ Shown(catalog') = [c \in ContractId |-> IF c \in C THEN "dropped" ELSE Shown(catalog)[c]]
         /\ ShownPrices(catalog') = ShownPrices(catalog)
<1> DEFINE Ended(j) == IsOpen(catalog[j]) /\ catalog'[j].status \in {"failed", "cancelled"}
           C == {id \in ContractId : \E j \in DOMAIN catalog : catalog[j].id = id /\ Ended(j)}
<1>1. OneEach(catalog) /\ OneEach(catalog')
  BY DEF UniqueContracts, OneEach
<1>2. /\ ShownPrices(catalog') = ShownPrices(catalog)
      /\ \A j \in DOMAIN catalog : ShownState(catalog', catalog[j].id) = Stands(catalog'[j].status)
      /\ \A id : (\A j \in DOMAIN catalog : catalog[j].id = id => catalog'[j].status = catalog[j].status)
                 => ShownState(catalog', id) = ShownState(catalog, id)
  BY <1>1, MovedShown
<1>3. ASSUME NEW id \in C
      PROVE  ShownState(catalog, id) = "offered" /\ ShownState(catalog', id) = "dropped"
  <2>1. PICK j \in DOMAIN catalog : catalog[j].id = id /\ Ended(j)
    OBVIOUS
  <2>2. ShownState(catalog, id) = Stands("open")
    BY <1>1, <2>1, ShownAt DEF IsOpen
  <2>3. ShownState(catalog', id) = Stands(catalog'[j].status)
    BY <1>2, <2>1
  <2>4. QED
    BY <2>1, <2>2, <2>3 DEF Stands
<1>4. ASSUME NEW id \in ContractId, id \notin C
      PROVE  ShownState(catalog', id) = ShownState(catalog, id)
  <2>1. \A j \in DOMAIN catalog : catalog[j].id = id => catalog'[j] = catalog[j]
    BY <1>4
  <2>2. QED
    BY <1>2, <2>1
<1>5. \A c \in C : Shown(catalog)[c] = "offered"
  BY <1>3 DEF Shown
<1> HIDE DEF C
<1>6. Shown(catalog') = [c \in ContractId |-> IF c \in C THEN "dropped" ELSE Shown(catalog)[c]]
  BY <1>3, <1>4 DEF Shown
<1>7. C \in SUBSET ContractId
  BY DEF C
<1>8. QED
  BY <1>2, <1>5, <1>6, <1>7

LEMMA StatusDrops ==
  ASSUME TypeOK, NEW i \in DOMAIN catalog, NEW status \in Statuses, IsOpen(catalog[i]),
         catalog' = WithStatus(i, status), NEW j \in DOMAIN catalog
  PROVE  /\ catalog'[j].id = catalog[j].id /\ catalog'[j].reward = catalog[j].reward
         /\ IF j = i THEN catalog'[j].status = status ELSE catalog'[j] = catalog[j]
<1>1. catalog[i] \in ContractRecords /\ catalog \in Seq(ContractRecords)
  BY DEF TypeOK
<1>2. catalog'[j] = IF j = i THEN [catalog[i] EXCEPT !.status = status] ELSE catalog[j]
  BY <1>1 DEF WithStatus
<1>3. CASE j = i
  BY <1>1, <1>2, <1>3 DEF ContractRecords
<1>4. CASE j # i
  BY <1>2, <1>4
<1>5. QED
  BY <1>3, <1>4

LEMMA OverdueDrops ==
  ASSUME TypeOK, NEW t, catalog' = FailedAt(t), NEW j \in DOMAIN catalog
  PROVE  /\ catalog'[j].id = catalog[j].id /\ catalog'[j].reward = catalog[j].reward
         /\ \/ catalog'[j] = catalog[j]
            \/ IsOpen(catalog[j]) /\ catalog'[j].status \in {"failed", "cancelled"}
<1>1. catalog[j] \in ContractRecords
  BY DEF TypeOK
<1>2. catalog'[j] = IF IsOverdue(catalog[j], t) THEN [catalog[j] EXCEPT !.status = "failed"] ELSE catalog[j]
  BY DEF FailedAt, FailedIn
<1>3. CASE IsOverdue(catalog[j], t)
  BY <1>1, <1>2, <1>3 DEF ContractRecords, IsOverdue
<1>4. CASE ~IsOverdue(catalog[j], t)
  BY <1>2, <1>4
<1>5. QED
  BY <1>3, <1>4

LEMMA SettleShown ==
  ASSUME TypeOK, UniqueContracts, UniqueContracts', NEW i \in DOMAIN catalog, RewardedStep(i)
  PROVE  /\ catalog[i].id \in ContractId
         /\ Shown(catalog)[catalog[i].id] = "offered"
         /\ ShownPrices(catalog)[catalog[i].id] = catalog[i].reward
         /\ Shown(catalog') = [Shown(catalog) EXCEPT ![catalog[i].id] = "settled"]
         /\ ShownPrices(catalog') = ShownPrices(catalog)
<1>1. catalog[i] \in ContractRecords
  BY DEF TypeOK
<1>2. catalog[i].id \in ContractId
  BY <1>1 DEF ContractRecords
<1>3. OneEach(catalog) /\ OneEach(catalog')
  BY DEF UniqueContracts, OneEach
<1>4. IsOpen(catalog[i]) /\ catalog' = WithStatus(i, "fulfilled") /\ "fulfilled" \in Statuses
  BY DEF RewardedStep, Rewarding, Statuses
<1>5. DOMAIN catalog' = DOMAIN catalog
  BY <1>4, StatusKept
<1>6. \A j \in DOMAIN catalog :
        /\ catalog'[j].id = catalog[j].id /\ catalog'[j].reward = catalog[j].reward
        /\ IF j = i THEN catalog'[j].status = "fulfilled" ELSE catalog'[j] = catalog[j]
  BY <1>4, StatusDrops
<1>7. /\ ShownPrices(catalog') = ShownPrices(catalog)
      /\ \A j \in DOMAIN catalog : ShownState(catalog', catalog[j].id) = Stands(catalog'[j].status)
      /\ \A id : (\A j \in DOMAIN catalog : catalog[j].id = id => catalog'[j].status = catalog[j].status)
                 => ShownState(catalog', id) = ShownState(catalog, id)
  BY <1>3, <1>5, <1>6, MovedShown
<1>8. ShownState(catalog, catalog[i].id) = "offered" /\ ShownPrice(catalog, catalog[i].id) = catalog[i].reward
  BY <1>3, <1>4, ShownAt DEF IsOpen, Stands
<1>9. ShownState(catalog', catalog[i].id) = "settled"
  BY <1>6, <1>7 DEF Stands
<1>10. ASSUME NEW id \in ContractId, id # catalog[i].id
       PROVE  ShownState(catalog', id) = ShownState(catalog, id)
  BY <1>6, <1>7, <1>10
<1>11. Shown(catalog') = [Shown(catalog) EXCEPT ![catalog[i].id] = "settled"]
  BY <1>9, <1>10 DEF Shown
<1>12. QED
  BY <1>2, <1>7, <1>8, <1>11 DEF Shown, ShownPrices

LEMMA EntryAppended ==
  ASSUME TypeOK, NEW f \in Entries, ledger'.entries = Append(ledger.entries, f), NEW n, n = Len(ledger.entries)
  PROVE  /\ DOMAIN ledger.entries = 1 .. n /\ DOMAIN ledger'.entries = 1 .. n + 1 /\ n \in Nat
         /\ \A i \in 1 .. n : ledger'.entries[i] = ledger.entries[i]
         /\ ledger'.entries[n + 1] = f
<1>1. ledger.entries \in Seq(Entries)
  BY DEF TypeOK, Ledgers
<1>2. QED
  BY <1>1

LEMMA ReceiptAdded ==
  ASSUME TypeOK, LedgerNumbered, NEW r \in Resource,
         NEW q \in U64, NEW u \in U64, NEW t \in U64, NEW ref \in ContractId,
         ledger' = Push(ledger, "contract_reward", r, q, u, t, ref)
  PROVE  /\ ledger.next \in U64
         /\ \A old \in ShownReceipts(ledger) : old[1] # ledger.next
         /\ ShownReceipts(ledger') = ShownReceipts(ledger) \cup {<<ledger.next, ref, t>>}
<1> DEFINE n == Len(ledger.entries)
           f == [sequence |-> ledger.next, type |-> "contract_reward", resource |-> r,
                 quantity |-> q, unit |-> u, total |-> t, reference |-> ref]
<1>1. /\ DOMAIN ledger.entries = 1 .. n /\ DOMAIN ledger'.entries = 1 .. n + 1 /\ n \in Nat
      /\ \A i \in 1 .. n : ledger'.entries[i] = ledger.entries[i]
      /\ ledger'.entries[n + 1] = f
  <2>1. ledger.next \in U64
    BY DEF TypeOK, Ledgers
  <2>2. f \in Entries
    BY <2>1 DEF Entries
  <2>3. ledger'.entries = Append(ledger.entries, f)
    BY DEF Push
  <2> HIDE DEF f, n
  <2>4. n = Len(ledger.entries)
    BY DEF n
  <2>5. QED
    BY <2>2, <2>3, <2>4, EntryAppended
<1>2. ledger.next = n + 1 /\ ledger.next \in U64
  BY DEF LedgerNumbered, TypeOK, Ledgers
<1>3. f.sequence = ledger.next /\ f.type = "contract_reward" /\ f.total = t /\ f.reference = ref
  OBVIOUS
<1> HIDE DEF n, f
<1>4. \A i \in 1 .. n : ledger.entries[i].sequence = i
  BY <1>1 DEF LedgerNumbered
<1>5. Rewards(ledger') = Rewards(ledger) \cup {n + 1} /\ Rewards(ledger) \subseteq 1 .. n
  BY <1>1, <1>3 DEF Rewards, IsReward
<1>6. ASSUME NEW old \in ShownReceipts(ledger) PROVE old[1] # ledger.next
  <2>1. PICK i \in Rewards(ledger) :
          old = <<ledger.entries[i].sequence, ledger.entries[i].reference, ledger.entries[i].total>>
    BY DEF ShownReceipts
  <2>2. i \in 1 .. n
    BY <1>5
  <2>3. old[1] = ledger.entries[i].sequence
    BY <2>1
  <2>4. QED
    BY <1>1, <1>2, <1>4, <2>2, <2>3
<1>7. ShownReceipts(ledger') = ShownReceipts(ledger) \cup {<<ledger.next, ref, t>>}
  <2> DEFINE Slip(l, i) == <<l.entries[i].sequence, l.entries[i].reference, l.entries[i].total>>
  <2>1. \A i \in Rewards(ledger) : Slip(ledger', i) = Slip(ledger, i)
    BY <1>1, <1>5
  <2>2. Slip(ledger', n + 1) = <<ledger.next, ref, t>>
    BY <1>1, <1>2, <1>3
  <2>3. /\ ShownReceipts(ledger') = {Slip(ledger', i) : i \in Rewards(ledger')}
        /\ ShownReceipts(ledger) = {Slip(ledger, i) : i \in Rewards(ledger)}
    BY DEF ShownReceipts
  <2> HIDE DEF Slip
  <2>4. {Slip(ledger', i) : i \in Rewards(ledger')} =
        {Slip(ledger', i) : i \in Rewards(ledger)} \cup {Slip(ledger', n + 1)}
    BY <1>5
  <2>5. {Slip(ledger', i) : i \in Rewards(ledger)} = {Slip(ledger, i) : i \in Rewards(ledger)}
    BY <2>1
  <2>6. QED
    BY <2>2, <2>3, <2>4, <2>5
<1>8. QED
  BY <1>2, <1>6, <1>7

LEMMA ReceiptsKept ==
  ASSUME TypeOK, NEW type \in TradeTypes, NEW r \in Resource,
         NEW q \in U64, NEW u \in U64, NEW t \in U64,
         ledger' = Push(ledger, type, r, q, u, t, NoReference)
  PROVE  ShownReceipts(ledger') = ShownReceipts(ledger)
<1> DEFINE n == Len(ledger.entries)
           f == [sequence |-> ledger.next, type |-> type, resource |-> r,
                 quantity |-> q, unit |-> u, total |-> t, reference |-> NoReference]
<1>1. /\ DOMAIN ledger.entries = 1 .. n /\ DOMAIN ledger'.entries = 1 .. n + 1 /\ n \in Nat
      /\ \A i \in 1 .. n : ledger'.entries[i] = ledger.entries[i]
      /\ ledger'.entries[n + 1] = f
  <2>1. ledger.next \in U64
    BY DEF TypeOK, Ledgers
  <2>2. f \in Entries
    BY <2>1 DEF Entries
  <2>3. ledger'.entries = Append(ledger.entries, f)
    BY DEF Push
  <2> HIDE DEF f, n
  <2>4. n = Len(ledger.entries)
    BY DEF n
  <2>5. QED
    BY <2>2, <2>3, <2>4, EntryAppended
<1>2. f.type = type
  OBVIOUS
<1> HIDE DEF n, f
<1>3. Rewards(ledger') = Rewards(ledger) /\ Rewards(ledger) \subseteq 1 .. n
  BY <1>1, <1>2 DEF Rewards, IsReward, TradeTypes
<1>4. QED
  BY <1>1, <1>3 DEF ShownReceipts

EscrowInvariant == TypeOK /\ UniqueContracts /\ LedgerNumbered

LEMMA QuietImplements ==
  ASSUME EscrowInvariant, EscrowInvariant', QuietStep
  PROVE  [Book!ENext]_(Book!evars)
<1>1. wallet' = wallet /\ EscrowReceipts' = EscrowReceipts
  BY BookIsShown DEF QuietStep
<1>2. CASE catalog' = catalog
  <2>1. Book!evars' = Book!evars
    BY <1>1, <1>2, BookIsShown DEF Book!evars
  <2>2. QED
    BY <2>1
<1>3. ASSUME NEW offer \in Offers, AddContract(offer) PROVE Book!ENext
  <2> DEFINE c == WithDueTicks(offer)
  <2>1. /\ c.id \in ContractId /\ c.reward \in U64 \ {0}
        /\ Shown(catalog)[c.id] = "unknown"
        /\ Shown(catalog') = [Shown(catalog) EXCEPT ![c.id] = "offered"]
        /\ ShownPrices(catalog') = [ShownPrices(catalog) EXCEPT ![c.id] = c.reward]
    BY <1>3, OfferShown DEF EscrowInvariant
  <2>2. Book!Offer(c.id)
    BY <1>1, <2>1, BookIsShown DEF Book!Offer
  <2>3. QED
    BY <2>1, <2>2 DEF Book!ENext
<1>4. ASSUME DOMAIN catalog' = DOMAIN catalog,
             \A j \in DOMAIN catalog :
               /\ catalog'[j].id = catalog[j].id /\ catalog'[j].reward = catalog[j].reward
               /\ \/ catalog'[j] = catalog[j]
                  \/ IsOpen(catalog[j]) /\ catalog'[j].status \in {"failed", "cancelled"}
      PROVE  Book!ENext
  <2>1. PICK C \in SUBSET ContractId :
          /\ \A c \in C : Shown(catalog)[c] = "offered"
          /\ Shown(catalog') = [c \in ContractId |-> IF c \in C THEN "dropped" ELSE Shown(catalog)[c]]
    BY <1>4, DropShown DEF EscrowInvariant
  <2>2. ShownPrices(catalog') = ShownPrices(catalog)
    BY <1>4, DropShown DEF EscrowInvariant
  <2>3. Book!Drop(C)
    BY <1>1, <2>1, <2>2, BookIsShown DEF Book!Drop
  <2>4. QED
    BY <2>3 DEF Book!ENext
<1>5. ASSUME NEW t \in U64, catalog' = FailedAt(t) PROVE Book!ENext
  <2>1. DOMAIN catalog' = DOMAIN catalog
    BY <1>5, FailedKept DEF EscrowInvariant
  <2>2. QED
    BY <1>4, <1>5, <2>1, OverdueDrops DEF EscrowInvariant
<1>6. ASSUME NEW i \in DOMAIN catalog, NEW status \in {"failed", "cancelled"},
             IsOpen(catalog[i]), catalog' = WithStatus(i, status)
      PROVE  Book!ENext
  <2>1. status \in Statuses
    BY DEF Statuses
  <2>2. DOMAIN catalog' = DOMAIN catalog
    BY <1>6, <2>1, StatusKept DEF EscrowInvariant
  <2>3. ASSUME NEW j \in DOMAIN catalog
        PROVE  /\ catalog'[j].id = catalog[j].id /\ catalog'[j].reward = catalog[j].reward
               /\ IF j = i THEN catalog'[j].status = status ELSE catalog'[j] = catalog[j]
    BY <1>6, <2>1, StatusDrops DEF EscrowInvariant
  <2>4. QED
    BY <1>4, <1>6, <2>2, <2>3
<1>7. QED
  BY <1>2, <1>3, <1>5, <1>6 DEF QuietStep

LEMMA RewardImplements ==
  ASSUME EscrowInvariant, EscrowInvariant', NEW i \in DOMAIN catalog, RewardedStep(i)
  PROVE  Book!ENext
<1> DEFINE id == catalog[i].id
           paid == catalog[i].reward
<1>1. /\ id \in ContractId
      /\ Shown(catalog)[id] = "offered"
      /\ ShownPrices(catalog)[id] = paid
      /\ Shown(catalog') = [Shown(catalog) EXCEPT ![id] = "settled"]
      /\ ShownPrices(catalog') = ShownPrices(catalog)
  BY SettleShown DEF EscrowInvariant
<1>2. catalog[i] \in ContractRecords
  BY DEF EscrowInvariant, TypeOK
<1>3. catalog[i].resource \in Resource /\ catalog[i].quantity \in U64 /\ paid \in U64 /\ 0 \in U64
  BY <1>2, WidthAssumption DEF ContractRecords, U64
<1>4. /\ ledger' = Push(ledger, "contract_reward", catalog[i].resource, catalog[i].quantity, 0, paid, id)
      /\ wallet' = wallet + paid
  BY DEF RewardedStep, Rewarding, RecordReward
<1> HIDE DEF id, paid
<1>5. /\ ledger.next \in U64
      /\ \A old \in ShownReceipts(ledger) : old[1] # ledger.next
      /\ ShownReceipts(ledger') = ShownReceipts(ledger) \cup {<<ledger.next, id, paid>>}
  BY <1>1, <1>3, <1>4, ReceiptAdded DEF EscrowInvariant
<1>6. Book!Settle(id)
  BY <1>1, <1>4, <1>5, BookIsShown DEF Book!Settle
<1>7. QED
  BY <1>1, <1>6 DEF Book!ENext

LEMMA TradeImplements ==
  ASSUME EscrowInvariant, EscrowInvariant', NEW type \in TradeTypes, NEW r \in Resource,
         NEW q \in U64, NEW u \in U64, NEW t \in U64, TradedStep(type, r, q, u, t)
  PROVE  Book!ENext
<1>1. catalog' = catalog /\ wallet' \in U64
  BY DEF EscrowInvariant, TypeOK, TradedStep, Trading
<1>2. ledger' = Push(ledger, type, r, q, u, t, NoReference)
  BY DEF TradedStep, Trading, RecordTrade
<1>3. ShownReceipts(ledger') = ShownReceipts(ledger)
  BY <1>2, ReceiptsKept DEF EscrowInvariant
<1>4. Book!Trade
  BY <1>1, <1>3, BookIsShown DEF Book!Trade
<1>5. QED
  BY <1>4 DEF Book!ENext

LEMMA InitImplements == Init => Book!EInit
<1> SUFFICES ASSUME Init PROVE Book!EInit
  OBVIOUS
<1>1. catalog = << >> /\ ledger = EmptyLedger /\ wallet \in U64
  BY ContractsAssumption DEF Init
<1>2. \A id : ~Has(catalog, id)
  BY <1>1 DEF Has
<1>3. /\ Shown(catalog) = [c \in ContractId |-> "unknown"]
      /\ ShownPrices(catalog) = [c \in ContractId |-> 0]
  BY <1>2, ShownNowhere DEF Shown, ShownPrices
<1>4. ShownReceipts(ledger) = {}
  BY <1>1 DEF ShownReceipts, Rewards, EmptyLedger
<1>5. QED
  BY <1>1, <1>3, <1>4, BookIsShown DEF Book!EInit

(* A host that settles and trades through the recording calls runs the     *)
(* contract book Escrow describes, whatever the width of the integers, the *)
(* offers and the fleets: fulfill_contract_*_with_reward_and_ledger is the *)
(* one atomic settlement there is, each pays once and leaves one receipt   *)
(* with a fresh number, and a contract that ended is never paid.           *)
THEOREM RecordingHostImplementsEscrow ==
  ASSUME RecordingHost
  PROVE  Spec => ImplementsEscrow
<1>1. TypeOK /\ UniqueContracts /\ [Next]_vars => UniqueContracts'
  BY EveryStepIsBookStep, UniqueStep
<1>2. TypeOK /\ LedgerNumbered /\ [Next]_vars => LedgerNumbered'
  BY EveryStepIsBookStep, LedgerNumberedStep
<1>3. Init => EscrowInvariant
  BY TypeInit, LedgerNumberedInit DEF EscrowInvariant, Init, UniqueContracts
<1>4. EscrowInvariant /\ [Next]_vars => EscrowInvariant'
  BY <1>1, <1>2, TypeStep DEF EscrowInvariant
<1>5. EscrowInvariant /\ EscrowInvariant' /\ [Next]_vars => [Book!ENext]_(Book!evars)
  <2> SUFFICES ASSUME EscrowInvariant, EscrowInvariant', [Next]_vars
               PROVE  [Book!ENext]_(Book!evars)
    OBVIOUS
  <2>1. RecordedStep
    BY EveryStepIsRecorded DEF EscrowInvariant
  <2>2. QED
    BY <2>1, QuietImplements, RewardImplements, TradeImplements DEF RecordedStep
<1>6. QED
  BY <1>3, <1>4, <1>5, InitImplements, PTL DEF Spec, ImplementsEscrow, Book!ESpec


-----------------------------------------------------------------------------
(* What the sweep at a tick does to one contract.                          *)

LEMMA SweptContract ==
  ASSUME TypeOK, NEW i \in DOMAIN catalog, NEW t \in U64
  PROVE  /\ IsOverdue(catalog[i], t) <=> FailedAt(t)[i] # catalog[i]
         /\ IsOpen(catalog[i]) =>
              (IsOverdue(catalog[i], t) <=> FailedAt(t)[i].status = "failed")
<1>1. catalog[i] \in ContractRecords
  BY DEF TypeOK
<1>2. FailedAt(t)[i] = IF IsOverdue(catalog[i], t)
                       THEN [catalog[i] EXCEPT !.status = "failed"] ELSE catalog[i]
  BY DEF FailedAt, FailedIn
<1>3. [catalog[i] EXCEPT !.status = "failed"].status = "failed"
  BY <1>1 DEF ContractRecords
<1>4. QED
  BY <1>2, <1>3 DEF IsOverdue, IsOpen

LEMMA DueTicksType ==
  ASSUME NEW c \in ContractRecords
  PROVE  DueTicks(c) \in U64
BY TicksOrType DEF DueTicks, ContractRecords

(* The clock passes a deadline in n ticks iff fewer are left to it.        *)
LEMMA DeadlinePassed ==
  ASSUME NEW t \in U64, NEW n \in U64, NEW due \in U64
  PROVE  AdvanceTime(t, n) > due <=>
           \/ t > due
           \/ n > (IF t > due \/ t >= due THEN 0 ELSE due - t) /\ due < MaxU64
<1>1. t \in Nat /\ n \in Nat /\ due \in Nat /\ MaxU64 \in Nat
      /\ t <= MaxU64 /\ n <= MaxU64 /\ due <= MaxU64
  BY WidthAssumption DEF U64
<1>2. AdvanceTime(t, n) = IF t + n <= MaxU64 THEN t + n ELSE MaxU64
  BY <1>1 DEF AdvanceTime, SaturatingAdd, CanAdd
<1>3. QED
  BY <1>1, <1>2

LEMMA ForecastRight == TypeOK => DeadlineForecast
<1> SUFFICES ASSUME TypeOK PROVE DeadlineForecast
  OBVIOUS
<1>1. tick \in U64 /\ \A i \in DOMAIN catalog : catalog[i] \in ContractRecords
  BY DEF TypeOK
<1>2. ASSUME NEW i \in DOMAIN catalog, IsOpen(catalog[i]), NEW n \in U64
      PROVE  FailedAt(AdvanceTime(tick, n))[i].status = "failed" <=>
               \/ IsOverdue(catalog[i], tick)
               \/ n > TicksUntilDue(catalog[i], tick) /\ DueTicks(catalog[i]) < MaxU64
  <2>1. AdvanceTime(tick, n) \in U64
    BY AdvanceTicksType
  <2>2. FailedAt(AdvanceTime(tick, n))[i].status = "failed"
          <=> AdvanceTime(tick, n) > DueTicks(catalog[i])
    BY <1>2, <2>1, SweptContract DEF IsOverdue
  <2>3. DueTicks(catalog[i]) \in U64
    BY <1>1, DueTicksType
  <2>4. TicksUntilDue(catalog[i], tick) =
          IF tick > DueTicks(catalog[i]) \/ tick >= DueTicks(catalog[i])
          THEN 0 ELSE DueTicks(catalog[i]) - tick
    BY <1>2 DEF TicksUntilDue, IsOverdue
  <2>5. IsOverdue(catalog[i], tick) <=> tick > DueTicks(catalog[i])
    BY <1>2 DEF IsOverdue
  <2>6. QED
    BY <1>1, <2>2, <2>3, <2>4, <2>5, DeadlinePassed
<1>3. ASSUME NEW i \in DOMAIN catalog
      PROVE  (catalog[i].status = "open" /\ tick > 0 /\ tick > DueTicks(catalog[i]))
               <=> FailedAt(tick)[i] # catalog[i]
  <2>1. DueTicks(catalog[i]) \in U64
    BY <1>1, DueTicksType
  <2>2. tick > DueTicks(catalog[i]) => tick > 0
    BY <1>1, <2>1 DEF U64
  <2>3. QED
    BY <1>1, <2>2, SweptContract DEF IsOverdue, IsOpen
<1>4. OverdueIn(catalog, tick) = {i \in DOMAIN catalog : FailedAt(tick)[i] # catalog[i]}
  BY <1>3 DEF OverdueIn
<1>5. QED
  BY <1>2, <1>4 DEF DeadlineForecast

-----------------------------------------------------------------------------
(* Nothing missing is the same as enough to take.                          *)
LEMMA NothingMissing ==
  ASSUME NEW c \in ContractRecords, ValidContract(c), NEW goods \in Storages
  PROVE  MissingFrom(goods, c) = 0 <=> CanTake(goods, c.resource, c.quantity)
<1>1. c.resource \in Resource /\ c.quantity \in U64 /\ c.quantity > 0
  BY DEF ContractRecords, ValidContract
<1>2. goods[c.resource] \in U64
  BY <1>1 DEF Storages
<1>3. QED
  BY <1>1, <1>2 DEF MissingFrom, AtMost, CanTake, U64

LEMMA PlansRight == TypeOK /\ BookValid => PlansComeTrue
<1> SUFFICES ASSUME TypeOK, BookValid, NEW i \in DOMAIN catalog
             PROVE  /\ \A standing \in Standings :
                         DeliverableContract(catalog[i], tick, depot, standing) <=>
                           /\ CanSettle(i, depot, "plain")
                           /\ FailedAt(tick)[i] = catalog[i]
                           /\ AcceptedByFactions(catalog[i], standing)
                    /\ StoragePlan(catalog[i], depot) <=> CanSettle(i, depot, "plain")
                    /\ \A p \in DOMAIN fleet :
                         /\ CaravanPlan(catalog[i], p, NoFaction)
                              <=> CanSettleFromCaravan(i, p, "plain")
                         /\ \A faction \in Faction :
                              CaravanPlan(catalog[i], p, faction) <=>
                                OwnedBy(p, faction) /\ CanSettleFromCaravan(i, p, "plain")
  BY DEF PlansComeTrue
<1>1. catalog[i] \in ContractRecords /\ ValidContract(catalog[i]) /\ depot \in Storages /\ tick \in U64
  BY DEF TypeOK, BookValid
<1>2. ASSUME NEW goods \in Storages
      PROVE  CanSettle(i, goods, "plain") <=> IsOpen(catalog[i]) /\ MissingFrom(goods, catalog[i]) = 0
  BY <1>1, NothingMissing DEF CanSettle, PayingModes
<1>3. IsOverdue(catalog[i], tick) <=> FailedAt(tick)[i] # catalog[i]
  BY <1>1, SweptContract
<1>4. ASSUME NEW p \in DOMAIN fleet PROVE fleet[p].cargo \in Storages
  <2>1. fleet[p] \in Caravans
    BY DEF TypeOK
  <2>2. QED
    BY <2>1 DEF Caravans
<1>5. NoFaction \notin Faction
  BY ContractsAssumption
<1>6. \A standing \in Standings :
        DeliverableContract(catalog[i], tick, depot, standing) <=>
          /\ CanSettle(i, depot, "plain")
          /\ FailedAt(tick)[i] = catalog[i]
          /\ AcceptedByFactions(catalog[i], standing)
  BY <1>1, <1>2, <1>3 DEF DeliverableContract
<1>7. StoragePlan(catalog[i], depot) <=> CanSettle(i, depot, "plain")
  BY <1>1, <1>2 DEF StoragePlan
<1>8. ASSUME NEW p \in DOMAIN fleet
      PROVE  /\ CaravanPlan(catalog[i], p, NoFaction) <=> CanSettleFromCaravan(i, p, "plain")
             /\ \A faction \in Faction :
                  CaravanPlan(catalog[i], p, faction) <=>
                    OwnedBy(p, faction) /\ CanSettleFromCaravan(i, p, "plain")
  BY <1>2, <1>4, <1>5 DEF CaravanPlan, CanSettleFromCaravan, OwnedBy
<1>9. QED
  BY <1>6, <1>7, <1>8

(* make_contract_economy_assessment, plan_contract_flow_from_storage,      *)
(* plan_contract_flow_from_caravan and make_contract_lifecycle_summary     *)
(* foretell what fulfilment, the overdue sweep and an advance of the clock *)
(* then do to a contract, in every reachable state of book and storages.   *)
THEOREM AdviceIsRight == Spec => []AdviceHolds
<1>1. TypeOK /\ BookValid /\ [Next]_vars => BookValid'
  BY EveryStepIsBookStep, BookValidStep
<1>2. Init => BookValid
  BY DEF Init, BookValid
<1>3. TypeOK /\ BookValid => AdviceHolds
  BY ForecastRight, PlansRight DEF AdviceHolds
<1>4. QED
  BY <1>1, <1>2, <1>3, TypeCorrect, PTL DEF Spec

-----------------------------------------------------------------------------
(* Goods.                                                                  *)

LEMMA AmountsMoved ==
  ASSUME NEW s \in Storages, NEW r \in Resource, NEW n \in U64
  PROVE  /\ CanPut(s, r, n) => /\ Put(s, r, n) \in Storages /\ Put(s, r, n)[r] = s[r] + n
                               /\ \A x \in Resource \ {r} : Put(s, r, n)[x] = s[x]
         /\ CanTake(s, r, n) => /\ Take(s, r, n) \in Storages /\ Take(s, r, n)[r] + n = s[r]
                                /\ \A x \in Resource \ {r} : Take(s, r, n)[x] = s[x]
<1>1. s[r] \in U64
  BY DEF Storages
<1>2. ASSUME CanPut(s, r, n)
      PROVE  /\ Put(s, r, n) \in Storages /\ Put(s, r, n)[r] = s[r] + n
             /\ \A x \in Resource \ {r} : Put(s, r, n)[x] = s[x]
  <2>1. WrapAdd(s[r], n) = s[r] + n
    BY <1>1, <1>2, AddsExactly DEF CanPut
  <2>2. Put(s, r, n) \in Storages
    BY <1>2, PutType DEF CanPut
  <2>3. QED
    BY <2>1, <2>2 DEF Put, Storages
<1>3. ASSUME CanTake(s, r, n)
      PROVE  /\ Take(s, r, n) \in Storages /\ Take(s, r, n)[r] + n = s[r]
             /\ \A x \in Resource \ {r} : Take(s, r, n)[x] = s[x]
  <2>1. (s[r] - n) + n = s[r]
    BY <1>1, WidthAssumption DEF U64
  <2>2. Take(s, r, n) \in Storages
    BY <1>3, TakeType
  <2>3. QED
    BY <2>1, <2>2 DEF Take, Storages
<1>4. QED
  BY <1>2, <1>3

CargoOf(f, r) == [p \in 1 .. Len(f) |-> f[p].cargo[r]]

LEMMA FreightIsTotal ==
  ASSUME NEW f \in Seq(Caravans), NEW r \in Resource
  PROVE  /\ Len(f) \in Nat /\ CargoOf(f, r) \in [1 .. Len(f) -> Nat]
         /\ \E g \in [0 .. Len(f) -> Nat] : IsTotal(g, Len(f), CargoOf(f, r)) /\ Freight(f, r) = g[Len(f)]
<1> DEFINE N == Len(f)
           w == CargoOf(f, r)
           Eq(g) == g = [n \in 0 .. N |-> IF n = 0 THEN 0 ELSE g[n - 1] + f[n].cargo[r]]
           sum == CHOOSE g : Eq(g)
<1>1. N \in Nat /\ \A n \in 1 .. N : f[n] \in Caravans
  OBVIOUS
<1>2. \A n \in 1 .. N : f[n].cargo[r] \in Nat
  <2>1. \A c \in Caravans : c.cargo \in Storages
    BY DEF Caravans
  <2>2. \A s \in Storages : s[r] \in Nat
    BY WidthAssumption DEF Storages, U64
  <2>3. QED
    BY <1>1, <2>1, <2>2
<1>3. w \in [1 .. N -> Nat] /\ \A n \in 1 .. N : w[n] = f[n].cargo[r]
  BY <1>2 DEF CargoOf
<1> HIDE DEF N, w
<1>4. \A g : Eq(g) <=> IsTotal(g, N, w)
  <2>1. \A n \in 0 .. N : n # 0 => n \in 1 .. N
    BY <1>1
  <2>2. QED
    BY <1>3, <2>1 DEF IsTotal
<1>5. \E g : IsTotal(g, N, w)
  BY <1>1, <1>3, TotalExists
<1>6. Eq(sum)
  <2> HIDE DEF Eq
  <2>1. QED
    BY <1>4, <1>5, Zenon
<1>7. Freight(f, r) = sum[N]
  BY Zenon DEF Freight, N
<1> HIDE DEF sum
<1>8. IsTotal(sum, N, w)
  BY <1>4, <1>6
<1>9. sum \in [0 .. N -> Nat]
  BY <1>1, <1>3, <1>8, TotalIsNat
<1>10. QED
  BY <1>1, <1>3, <1>7, <1>8, <1>9 DEF N, w

LEMMA FreightType ==
  ASSUME NEW f \in Seq(Caravans), NEW r \in Resource
  PROVE  Freight(f, r) \in Nat
<1>1. Len(f) \in Nat
  OBVIOUS
<1>2. PICK g \in [0 .. Len(f) -> Nat] : Freight(f, r) = g[Len(f)]
  BY FreightIsTotal
<1>3. QED
  BY <1>1, <1>2

(* One caravan's cargo changes, and the sum by as much.                    *)
LEMMA FreightChanges ==
  ASSUME NEW f \in Seq(Caravans), NEW g \in Seq(Caravans), Len(g) = Len(f), NEW r \in Resource,
         NEW p \in 1 .. Len(f), \A q \in 1 .. Len(f) : q # p => g[q].cargo[r] = f[q].cargo[r]
  PROVE  Freight(g, r) + f[p].cargo[r] = Freight(f, r) + g[p].cargo[r]
<1>1. PICK N \in Nat : N = Len(f)
  OBVIOUS
<1>2. PICK w \in [1 .. N -> Nat] : w = CargoOf(f, r)
  BY <1>1, FreightIsTotal
<1>3. PICK v \in [1 .. N -> Nat] : v = CargoOf(g, r)
  BY <1>1, FreightIsTotal
<1>4. PICK a \in [0 .. N -> Nat] : IsTotal(a, N, w) /\ Freight(f, r) = a[N]
  BY <1>1, <1>2, FreightIsTotal
<1>5. PICK b \in [0 .. N -> Nat] : IsTotal(b, N, v) /\ Freight(g, r) = b[N]
  BY <1>1, <1>3, FreightIsTotal
<1>6. /\ \A q \in 1 .. N : w[q] = f[q].cargo[r] /\ v[q] = g[q].cargo[r]
      /\ p \in 1 .. N
  BY <1>1, <1>2, <1>3 DEF CargoOf
<1>7. \A q \in 1 .. N : q # p => v[q] = w[q]
  BY <1>1, <1>6
<1>8. b[N] + w[p] = a[N] + v[p]
  BY <1>4, <1>5, <1>6, <1>7, TotalGrows
<1>9. QED
  BY <1>4, <1>5, <1>6, <1>8

LEMMA FreightSame ==
  ASSUME NEW f \in Seq(Caravans), NEW g \in Seq(Caravans), Len(g) = Len(f), NEW r \in Resource,
         \A q \in 1 .. Len(f) : g[q].cargo[r] = f[q].cargo[r]
  PROVE  Freight(g, r) = Freight(f, r)
<1>1. PICK N \in Nat : N = Len(f)
  OBVIOUS
<1>2. PICK w \in [1 .. N -> Nat] : w = CargoOf(f, r)
  BY <1>1, FreightIsTotal
<1>3. CargoOf(g, r) = w
  BY <1>2 DEF CargoOf
<1>4. PICK a \in [0 .. N -> Nat] : IsTotal(a, N, w) /\ Freight(f, r) = a[N]
  BY <1>1, <1>2, FreightIsTotal
<1>5. PICK b \in [0 .. N -> Nat] : IsTotal(b, N, w) /\ Freight(g, r) = b[N]
  BY <1>1, <1>3, FreightIsTotal
<1>6. b[N] = a[N]
  BY <1>4, <1>5, TotalIsOne
<1>7. QED
  BY <1>4, <1>5, <1>6

(* A caravan gets other cargo.                                             *)
LEMMA ReloadedFleet ==
  ASSUME NEW f \in Seq(Caravans), NEW p \in DOMAIN f, NEW cargo \in Storages
  PROVE  LET g == [f EXCEPT ![p] = [f[p] EXCEPT !.cargo = cargo]]
         IN  /\ g \in Seq(Caravans) /\ Len(g) = Len(f)
             /\ g[p].cargo = cargo
             /\ \A q \in 1 .. Len(f) : q # p => g[q] = f[q]
<1> DEFINE c == [f[p] EXCEPT !.cargo = cargo]
           g == [f EXCEPT ![p] = c]
<1>1. f[p] \in Caravans /\ p \in 1 .. Len(f)
  OBVIOUS
<1>2. c \in Caravans /\ c.cargo = cargo
  BY <1>1 DEF Caravans
<1> HIDE DEF c
<1>3. g \in Seq(Caravans) /\ Len(g) = Len(f)
  BY <1>1, <1>2, ExceptSeq
<1>4. g[p] = c /\ \A q \in 1 .. Len(f) : q # p => g[q] = f[q]
  BY <1>1
<1>5. QED
  BY <1>2, <1>3, <1>4 DEF c

(* A settlement takes the contract's quantity out of the goods it is given. *)
LEMMA SettledGoods ==
  ASSUME TypeOK, NEW i \in DOMAIN catalog, NEW goods \in Storages, NEW mode, CanSettle(i, goods, mode)
  PROVE  /\ IsOpen(catalog[i]) /\ catalog[i].quantity \in U64 /\ Delivered(i, goods) \in Storages
         /\ Delivered(i, goods)[catalog[i].resource] + catalog[i].quantity = goods[catalog[i].resource]
         /\ \A x \in Resource : x # catalog[i].resource => Delivered(i, goods)[x] = goods[x]
<1>1. catalog[i] \in ContractRecords
  BY DEF TypeOK
<1>2. catalog[i].resource \in Resource /\ catalog[i].quantity \in U64
  BY <1>1 DEF ContractRecords
<1>3. IsOpen(catalog[i]) /\ CanTake(goods, catalog[i].resource, catalog[i].quantity)
  BY DEF CanSettle
<1>4. PICK r \in Resource, n \in U64 : r = catalog[i].resource /\ n = catalog[i].quantity
  BY <1>2
<1>5. /\ Take(goods, r, n) \in Storages /\ Take(goods, r, n)[r] + n = goods[r]
      /\ \A x \in Resource \ {r} : Take(goods, r, n)[x] = goods[x]
  BY <1>3, <1>4, AmountsMoved
<1>6. QED
  BY <1>3, <1>4, <1>5 DEF Delivered

LEMMA DepotAccounts ==
  ASSUME TypeOK, NEW i \in DOMAIN catalog, NEW mode, FulfillFromStorage(i, mode)
  PROVE  AccountsForGoods
<1>1. depot \in Storages /\ fleet \in Seq(Caravans)
  BY DEF TypeOK
<1>2. /\ CanSettle(i, depot, mode) /\ depot' = Delivered(i, depot) /\ fleet' = fleet
      /\ catalog' = WithStatus(i, "fulfilled")
  BY DEF FulfillFromStorage, SettleBooks
<1>3. /\ IsOpen(catalog[i]) /\ catalog[i].quantity \in U64 /\ Delivered(i, depot) \in Storages
      /\ Delivered(i, depot)[catalog[i].resource] + catalog[i].quantity = depot[catalog[i].resource]
      /\ \A x \in Resource : x # catalog[i].resource => Delivered(i, depot)[x] = depot[x]
  BY <1>1, <1>2, SettledGoods
<1>4. ASSUME NEW r \in Resource, depot'[r] + Freight(fleet', r) # depot[r] + Freight(fleet, r)
      PROVE  /\ catalog[i].resource = r
             /\ depot'[r] + Freight(fleet', r) + catalog[i].quantity = depot[r] + Freight(fleet, r)
  <2>1. catalog[i].resource = r
    BY <1>2, <1>3, <1>4
  <2>2. PICK a \in Nat, b \in Nat, q \in Nat, n \in Nat :
          a = Freight(fleet, r) /\ b = depot[r] /\ q = catalog[i].quantity /\ n = depot'[r]
    BY <1>1, <1>2, <1>3, FreightType, WidthAssumption DEF Storages, U64
  <2>3. n + q = b
    BY <1>2, <1>3, <2>1, <2>2
  <2>4. n + a + q = b + a
    BY <2>2, <2>3
  <2>5. QED
    BY <1>2, <2>1, <2>2, <2>4
<1>5. QED
  BY <1>2, <1>3, <1>4 DEF AccountsForGoods

(* A settlement from a caravan takes the quantity out of all the freight.  *)
LEMMA CaravanGives ==
  ASSUME TypeOK, NEW i \in DOMAIN catalog, NEW p \in DOMAIN fleet, NEW mode,
         FulfillFromArrivedCaravan(i, p, mode)
  PROVE  /\ fleet' \in Seq(Caravans) /\ Len(fleet') = Len(fleet)
         /\ depot' = depot /\ IsOpen(catalog[i]) /\ catalog' = WithStatus(i, "fulfilled")
         /\ catalog[i].quantity \in Nat
         /\ \A r \in Resource :
              Freight(fleet', r) # Freight(fleet, r) =>
                /\ catalog[i].resource = r
                /\ Freight(fleet', r) + catalog[i].quantity = Freight(fleet, r)
<1>1. fleet \in Seq(Caravans) /\ p \in 1 .. Len(fleet) /\ fleet[p] \in Caravans
  BY DEF TypeOK
<1>2. PICK goods \in Storages : goods = fleet[p].cargo
  BY <1>1 DEF Caravans
<1>3. /\ CanSettle(i, goods, mode) /\ depot' = depot /\ catalog' = WithStatus(i, "fulfilled")
      /\ fleet' = [fleet EXCEPT ![p] = [fleet[p] EXCEPT !.cargo = Delivered(i, goods)]]
  BY <1>2 DEF FulfillFromArrivedCaravan, CanSettleFromCaravan, SettleBooks
<1>4. /\ IsOpen(catalog[i]) /\ catalog[i].quantity \in U64 /\ Delivered(i, goods) \in Storages
      /\ Delivered(i, goods)[catalog[i].resource] + catalog[i].quantity = goods[catalog[i].resource]
      /\ \A x \in Resource : x # catalog[i].resource => Delivered(i, goods)[x] = goods[x]
  BY <1>3, SettledGoods
<1>5. PICK after \in Storages : after = Delivered(i, goods)
  BY <1>4
<1>6. PICK g \in Seq(Caravans) : /\ g = fleet' /\ Len(g) = Len(fleet) /\ g[p].cargo = after
                                 /\ \A q \in 1 .. Len(fleet) : q # p => g[q] = fleet[q]
  <2> DEFINE g == [fleet EXCEPT ![p] = [fleet[p] EXCEPT !.cargo = after]]
  <2>1. /\ g \in Seq(Caravans) /\ Len(g) = Len(fleet) /\ g[p].cargo = after
        /\ \A q \in 1 .. Len(fleet) : q # p => g[q] = fleet[q]
    BY <1>1, ReloadedFleet
  <2>2. g = fleet'
    BY <1>3, <1>5
  <2> HIDE DEF g
  <2>3. QED
    BY <2>1, <2>2
<1>7. ASSUME NEW r \in Resource
      PROVE  Freight(g, r) + goods[r] = Freight(fleet, r) + after[r]
  <2>1. \A q \in 1 .. Len(fleet) : q # p => g[q].cargo[r] = fleet[q].cargo[r]
    BY <1>6
  <2>2. Freight(g, r) + fleet[p].cargo[r] = Freight(fleet, r) + g[p].cargo[r]
    BY <1>1, <1>6, <2>1, FreightChanges
  <2>3. QED
    BY <1>2, <1>6, <2>2
<1>8. ASSUME NEW r \in Resource, Freight(g, r) # Freight(fleet, r)
      PROVE  /\ catalog[i].resource = r
             /\ Freight(g, r) + catalog[i].quantity = Freight(fleet, r)
  <2>1. PICK a \in Nat, c \in Nat, x \in Nat, y \in Nat, q \in Nat :
          /\ a = Freight(fleet, r) /\ c = Freight(g, r)
          /\ x = goods[r] /\ y = after[r] /\ q = catalog[i].quantity
    <3>1. Freight(fleet, r) \in Nat /\ Freight(g, r) \in Nat
      BY <1>1, <1>6, FreightType
    <3>2. goods[r] \in Nat /\ after[r] \in Nat /\ catalog[i].quantity \in Nat
      BY <1>2, <1>4, <1>5, WidthAssumption DEF Storages, U64
    <3>3. QED
      BY <3>1, <3>2
  <2>2. c + x = a + y
    BY <1>7, <2>1
  <2>3. x # y
    BY <1>8, <2>1, <2>2
  <2>4. catalog[i].resource = r
    BY <1>4, <1>5, <2>1, <2>3
  <2>5. y + q = x
    BY <1>4, <1>5, <2>1, <2>4
  <2>6. c + q = a
    <3>1. c + (y + q) = a + y
      BY <2>2, <2>5
    <3>2. QED
      BY <3>1
  <2>7. QED
    BY <2>1, <2>4, <2>6
<1>9. catalog[i].quantity \in Nat
  BY <1>4, WidthAssumption DEF U64
<1>10. QED
  BY <1>3, <1>4, <1>6, <1>8, <1>9

LEMMA CaravanAccounts ==
  ASSUME TypeOK, NEW i \in DOMAIN catalog, NEW p \in DOMAIN fleet, NEW mode,
         FulfillFromArrivedCaravan(i, p, mode)
  PROVE  AccountsForGoods
<1>1. /\ fleet' \in Seq(Caravans)
      /\ depot' = depot /\ IsOpen(catalog[i]) /\ catalog' = WithStatus(i, "fulfilled")
      /\ catalog[i].quantity \in Nat
      /\ \A r \in Resource :
           Freight(fleet', r) # Freight(fleet, r) =>
             /\ catalog[i].resource = r
             /\ Freight(fleet', r) + catalog[i].quantity = Freight(fleet, r)
  BY CaravanGives
<1>2. ASSUME NEW r \in Resource, depot'[r] + Freight(fleet', r) # depot[r] + Freight(fleet, r)
      PROVE  /\ catalog[i].resource = r
             /\ depot'[r] + Freight(fleet', r) + catalog[i].quantity = depot[r] + Freight(fleet, r)
  <2>1. PICK a \in Nat, c \in Nat, b \in Nat, q \in Nat :
          a = Freight(fleet, r) /\ c = Freight(fleet', r) /\ b = depot[r] /\ q = catalog[i].quantity
    <3>1. Freight(fleet, r) \in Nat /\ Freight(fleet', r) \in Nat
      BY <1>1, FreightType DEF TypeOK
    <3>2. depot[r] \in Nat
      BY WidthAssumption DEF TypeOK, Storages, U64
    <3>3. QED
      BY <1>1, <3>1, <3>2
  <2>2. catalog[i].resource = r /\ c + q = a
    BY <1>1, <1>2, <2>1
  <2>3. b + c + q = b + a
    BY <2>2
  <2>4. QED
    BY <1>1, <2>1, <2>2, <2>3
<1>3. QED
  BY <1>1, <1>2 DEF AccountsForGoods

LEMMA TradeTotal ==
  ASSUME NEW price \in U64, NEW quantity \in U64, Priced(price, quantity)
  PROVE  price * quantity \in U64 /\ price * quantity > 0
<1>1. PICK a \in Nat, b \in Nat : a = price /\ b = quantity /\ a > 0 /\ b > 0
  BY WidthAssumption DEF Priced, U64
<1>2. a * b \in Nat /\ a * b > 0
  BY <1>1
<1>3. ~(price * quantity > MaxU64)
  BY DEF Priced, MultiplyOverflows
<1>4. QED
  BY <1>1, <1>2, <1>3, WidthAssumption DEF U64

LEMMA TradeAccounts ==
  ASSUME TypeOK, NEW r \in Resource, NEW price \in Prices, NEW quantity \in U64, NEW mode,
         Buy(r, price, quantity, mode) \/ Sell(r, price, quantity, mode)
  PROVE  AccountsForGoods
<1>1. depot \in Storages /\ fleet \in Seq(Caravans) /\ wallet \in U64 /\ price \in U64
  BY ContractsAssumption DEF TypeOK
<1>2. Priced(price, quantity)
  BY DEF Buy, Sell
<1>3. PICK total \in U64 : total = price * quantity /\ total > 0
  BY <1>1, <1>2, TradeTotal
<1>4. fleet' = fleet /\ catalog' = catalog
  BY DEF Buy, Sell
<1>5. ASSUME NEW x \in Resource, depot'[x] + Freight(fleet', x) # depot[x] + Freight(fleet, x)
      PROVE  wallet' < wallet <=> depot'[x] + Freight(fleet', x) > depot[x] + Freight(fleet, x)
  <2>1. depot'[x] # depot[x]
    BY <1>4, <1>5
  <2>2. PICK a \in Nat, b \in Nat : a = Freight(fleet, x) /\ b = depot[x]
    BY <1>1, FreightType, WidthAssumption DEF Storages, U64
  <2>3. CASE Buy(r, price, quantity, mode)
    <3>1. CanPut(depot, r, quantity) /\ depot' = Put(depot, r, quantity) /\ quantity > 0
      BY <2>3 DEF Buy, Priced
    <3>2. x = r /\ depot'[r] = depot[r] + quantity
      BY <1>1, <2>1, <3>1, AmountsMoved
    <3>3. wallet' = wallet - total /\ wallet >= total
      BY <1>3, <2>3 DEF Buy
    <3>4. wallet' < wallet
      BY <1>1, <1>3, <3>3, WidthAssumption DEF U64
    <3>5. depot'[x] = b + quantity /\ b + quantity + a > b + a
      BY <2>2, <3>1, <3>2, WidthAssumption DEF U64
    <3>6. QED
      BY <1>4, <2>2, <3>4, <3>5
  <2>4. CASE Sell(r, price, quantity, mode)
    <3>1. CanTake(depot, r, quantity) /\ depot' = Take(depot, r, quantity) /\ quantity > 0
      BY <2>4 DEF Sell, Priced
    <3>2. x = r /\ depot'[r] + quantity = depot[r] /\ depot' \in Storages
      BY <1>1, <2>1, <3>1, AmountsMoved
    <3>3. wallet' = wallet + total
      BY <1>1, <1>3, <2>4, AddsExactly DEF Sell
    <3>4. ~(wallet' < wallet)
      BY <1>1, <1>3, <3>3, WidthAssumption DEF U64
    <3>5. PICK n \in Nat : n = depot'[x]
      BY <3>2, WidthAssumption DEF Storages, U64
    <3>6. n + quantity = b /\ ~(n + a > b + a)
      BY <2>2, <3>1, <3>2, <3>5, WidthAssumption DEF U64
    <3>7. QED
      BY <1>4, <2>2, <3>4, <3>5, <3>6
  <2>5. QED
    BY <2>3, <2>4
<1>6. QED
  BY <1>4, <1>5 DEF AccountsForGoods

LEMMA ClockAccounts ==
  ASSUME TypeOK, NEW ticks \in U64, AdvanceTicks(ticks)
  PROVE  AccountsForGoods
<1>1. fleet \in Seq(Caravans) /\ Len(fleet) \in Nat /\ DOMAIN fleet = 1 .. Len(fleet)
  BY DEF TypeOK
<1>2. fleet' = [p \in 1 .. Len(fleet) |-> Advance(fleet[p], ticks)] /\ depot' = depot
  BY <1>1 DEF AdvanceTicks
<1>3. \A p \in 1 .. Len(fleet) : fleet[p] \in Caravans
  BY <1>1
<1>4. \A c \in Caravans : Advance(c, ticks) \in Caravans /\ Advance(c, ticks).cargo = c.cargo
  <2>1. TAKE c \in Caravans
  <2>2. Advance(c, ticks) \in Caravans
    BY AdvanceType
  <2>3. Advance(c, ticks).cargo = c.cargo
    BY DEF Advance, Caravans
  <2>4. QED
    BY <2>2, <2>3
<1>5. PICK g \in Seq(Caravans) : g = fleet' /\ Len(g) = Len(fleet)
  BY <1>1, <1>2, <1>3, <1>4
<1>6. \A r \in Resource : Freight(g, r) = Freight(fleet, r)
  <2>1. TAKE r \in Resource
  <2>2. \A q \in 1 .. Len(fleet) : g[q].cargo[r] = fleet[q].cargo[r]
    BY <1>2, <1>3, <1>4, <1>5
  <2>3. QED
    BY <1>1, <1>5, <2>2, FreightSame
<1>7. QED
  BY <1>2, <1>5, <1>6 DEF AccountsForGoods

LEMMA AccountsForGoodsStep == TypeOK /\ [Next]_vars => [AccountsForGoods]_vars
<1> SUFFICES ASSUME TypeOK, Next PROVE AccountsForGoods
  OBVIOUS
<1>1. ASSUME depot' = depot, fleet' = fleet PROVE AccountsForGoods
  BY <1>1 DEF AccountsForGoods
<1>2. CASE \E offer \in Offers : AddContract(offer)
  BY <1>1, <1>2 DEF AddContract
<1>3. ASSUME NEW i \in DOMAIN catalog, ContractCall(i) PROVE AccountsForGoods
  <2>1. CASE \E status \in Statuses : MarkContract(i, status)
    BY <1>1, <2>1 DEF MarkContract
  <2>2. ASSUME NEW mode \in Modes, FulfillFromStorage(i, mode) PROVE AccountsForGoods
    BY <2>2, DepotAccounts
  <2>3. ASSUME NEW mode \in Modes, NEW p \in DOMAIN fleet, FulfillFromArrivedCaravan(i, p, mode)
        PROVE  AccountsForGoods
    BY <2>3, CaravanAccounts
  <2>4. QED
    BY <1>3, <2>1, <2>2, <2>3 DEF ContractCall, FulfillFromOwnedCaravan, Statuses
<1>4. CASE \E t \in U64 : FailOverdue(t)
  BY <1>1, <1>4 DEF FailOverdue
<1>5. CASE \E p \in DOMAIN fleet, faction \in Faction : SetCaravanOwner(p, faction)
  BY <1>1, <1>5 DEF SetCaravanOwner
<1>6. CASE TradeCall
  BY <1>6, TradeAccounts DEF TradeCall
<1>7. CASE \E ticks \in U64 : AdvanceTicks(ticks)
  BY <1>7, ClockAccounts
<1>8. QED
  BY <1>2, <1>3, <1>4, <1>5, <1>6, <1>7 DEF Next

-----------------------------------------------------------------------------
(* Coins come and go only for something.                                   *)

LEMMA RewardAccounts ==
  ASSUME TypeOK, NEW i \in DOMAIN catalog, NEW goods, NEW mode,
         CanSettle(i, goods, mode), SettleBooks(i, mode)
  PROVE  AccountsForCoins
<1>1. catalog[i] \in ContractRecords /\ wallet \in U64
  BY DEF TypeOK
<1>2. catalog[i].reward \in U64
  BY <1>1 DEF ContractRecords
<1>3. IsOpen(catalog[i]) /\ catalog' = WithStatus(i, "fulfilled")
  BY DEF CanSettle, SettleBooks
<1>4. CASE mode \in PayingModes
  <2>1. CanAdd(wallet, catalog[i].reward) /\ wallet' = WrapAdd(wallet, catalog[i].reward)
    BY <1>4 DEF CanSettle, SettleBooks, Paid
  <2>2. wallet' = wallet + catalog[i].reward
    BY <1>1, <1>2, <2>1, AddsExactly
  <2>3. QED
    BY <1>3, <2>2 DEF AccountsForCoins
<1>5. CASE mode \notin PayingModes
  BY <1>5 DEF SettleBooks, Paid, AccountsForCoins
<1>6. QED
  BY <1>4, <1>5

(* A price times an amount more is the price of what was there and of what *)
(* came.                                                                   *)
LEMMA WorthMore ==
  ASSUME NEW p \in Nat, NEW a \in Nat, NEW n \in Nat
  PROVE  p * (a + n) = p * a + p * n /\ p * a \in Nat /\ p * n \in Nat
OBVIOUS

LEMMA TradeAccountsForCoins ==
  ASSUME TypeOK, NEW r \in Resource, NEW price \in Prices, NEW quantity \in U64, NEW mode,
         Buy(r, price, quantity, mode) \/ Sell(r, price, quantity, mode)
  PROVE  AccountsForCoins
<1>1. depot \in Storages /\ wallet \in U64 /\ price \in U64
  BY ContractsAssumption DEF TypeOK
<1>2. Priced(price, quantity) /\ fleet' = fleet /\ catalog' = catalog
  BY DEF Buy, Sell
<1>3. PICK total \in U64 : total = price * quantity
  BY <1>1, <1>2, TradeTotal
<1>4. PICK p \in Nat, n \in Nat, t \in Nat, w \in Nat, a \in Nat :
        p = price /\ n = quantity /\ t = total /\ w = wallet /\ a = depot[r]
  BY <1>1, WidthAssumption DEF Storages, U64
<1>5. CASE Buy(r, price, quantity, mode)
  <2>1. CanPut(depot, r, quantity) /\ depot' = Put(depot, r, quantity)
    BY <1>5 DEF Buy
  <2>2. depot'[r] = a + n /\ \A x \in Resource \ {r} : depot'[x] = depot[x]
    BY <1>1, <1>4, <2>1, AmountsMoved
  <2>3. wallet' = w - t /\ w >= t
    BY <1>3, <1>4, <1>5 DEF Buy
  <2>4. p * (a + n) = p * a + t /\ p * a \in Nat
    BY <1>3, <1>4, WorthMore
  <2>5. (w - t) + (p * a + t) = w + p * a
    BY <2>4
  <2>6. wallet' + price * depot'[r] = wallet + price * depot[r]
    BY <1>4, <2>2, <2>3, <2>4, <2>5
  <2>7. QED
    BY <1>2, <2>2, <2>6 DEF AccountsForCoins
<1>6. CASE Sell(r, price, quantity, mode)
  <2>1. CanTake(depot, r, quantity) /\ depot' = Take(depot, r, quantity)
    BY <1>6 DEF Sell
  <2>2. /\ depot'[r] + quantity = depot[r] /\ depot' \in Storages
        /\ \A x \in Resource \ {r} : depot'[x] = depot[x]
    BY <1>1, <2>1, AmountsMoved
  <2>3. PICK b \in Nat : b = depot'[r]
    BY <2>2, WidthAssumption DEF Storages, U64
  <2>4. wallet' = w + t
    BY <1>1, <1>3, <1>4, <1>6, AddsExactly DEF Sell
  <2>5. p * a = p * b + t /\ p * b \in Nat
    BY <1>3, <1>4, <2>2, <2>3, WorthMore
  <2>6. (w + t) + p * b = w + (p * b + t)
    BY <2>5
  <2>7. wallet' + price * depot'[r] = wallet + price * depot[r]
    BY <1>4, <2>3, <2>4, <2>5, <2>6
  <2>8. QED
    BY <1>2, <2>2, <2>7 DEF AccountsForCoins
<1>7. QED
  BY <1>5, <1>6

LEMMA AccountsForCoinsStep == TypeOK /\ [Next]_vars => [AccountsForCoins]_vars
<1> SUFFICES ASSUME TypeOK, Next PROVE AccountsForCoins
  OBVIOUS
<1>1. ASSUME wallet' = wallet PROVE AccountsForCoins
  BY <1>1 DEF AccountsForCoins
<1>2. CASE \E offer \in Offers : AddContract(offer)
  BY <1>1, <1>2 DEF AddContract
<1>3. ASSUME NEW i \in DOMAIN catalog, ContractCall(i) PROVE AccountsForCoins
  <2>1. CASE \E status \in Statuses : MarkContract(i, status)
    BY <1>1, <2>1 DEF MarkContract
  <2>2. ASSUME NEW mode \in Modes, FulfillFromStorage(i, mode) PROVE AccountsForCoins
    BY <2>2, RewardAccounts DEF FulfillFromStorage
  <2>3. ASSUME NEW mode \in Modes, NEW p \in DOMAIN fleet, FulfillFromArrivedCaravan(i, p, mode)
        PROVE  AccountsForCoins
    BY <2>3, RewardAccounts DEF FulfillFromArrivedCaravan, CanSettleFromCaravan
  <2>4. QED
    BY <1>3, <2>1, <2>2, <2>3 DEF ContractCall, FulfillFromOwnedCaravan, Statuses
<1>4. CASE \E t \in U64 : FailOverdue(t)
  BY <1>1, <1>4 DEF FailOverdue
<1>5. CASE \E p \in DOMAIN fleet, faction \in Faction : SetCaravanOwner(p, faction)
  BY <1>1, <1>5 DEF SetCaravanOwner
<1>6. CASE TradeCall
  BY <1>6, TradeAccountsForCoins DEF TradeCall
<1>7. CASE \E ticks \in U64 : AdvanceTicks(ticks)
  BY <1>1, <1>7 DEF AdvanceTicks
<1>8. QED
  BY <1>2, <1>3, <1>4, <1>5, <1>6, <1>7 DEF Next

(* Whichever of its calls a host mixes, recorded or not: the goods of the  *)
(* host and its caravans change together only by a trade against coins or  *)
(* by exactly the quantity of the contract that the step fulfils, and      *)
(* coins by exactly its reward or by a trade at a price.  Where            *)
(* fulfill_contract_from_storage_with_reward, buy_resource and             *)
(* sell_resource add with a +, the checks before it keep the sum in range. *)
THEOREM MeansMoveForSomething == Spec => MeansForSomething
<1>1. TypeOK /\ [Next]_vars => [AccountsForGoods /\ AccountsForCoins]_vars
  BY AccountsForGoodsStep, AccountsForCoinsStep
<1>2. QED
  BY <1>1, TypeCorrect, PTL DEF Spec, MeansForSomething
=============================================================================
