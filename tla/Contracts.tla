----------------------------- MODULE Contracts -----------------------------
(***************************************************************************)
(* Delivery contracts, the caravans whose cargo settles them, the wallet   *)
(* their rewards are paid into and the ledger that records the payments.   *)
(*                                                                         *)
(* One action is one call of the API: a call that the code refuses changes *)
(* nothing, so its action is simply not enabled.  The calls come in any    *)
(* order from a host that keeps several contracts and caravans going.      *)
(***************************************************************************)
EXTENDS Ledger, Caravans

CONSTANTS
  Faction,        (* ids of factions                                         *)
  NoFaction,      (* the empty owner of a caravan nobody owns                *)
  Offers,         (* the contracts callers try to add, valid or not          *)
  Prices,         (* unit prices of the market                               *)
  Modes,          (* the settlement calls this host uses, see AllModes       *)
  InitialFleets,  (* the caravans the host starts with                       *)
  InitialDepots,  (* the host's own storage at the start                     *)
  InitialCoins    (* what the wallet may hold at the start                   *)

VARIABLES
  tick,           (* SimulationRuntime::time                                 *)
  fleet,          (* CaravanFleet::caravans, in order                        *)
  owner,          (* OwnershipCatalog::caravans                              *)
  catalog,        (* ContractCatalog::contracts, in order                    *)
  wallet,         (* Wallet::coins                                           *)
  ledger,         (* EconomyLedger                                           *)
  depot           (* a ResourceStorage of the host that trades and delivers  *)

vars == <<tick, fleet, owner, catalog, wallet, ledger, depot>>

-----------------------------------------------------------------------------
(* The ways to settle a contract: mark it by hand; take the goods; take    *)
(* the goods and pay; take the goods, pay and record the payment.          *)
AllModes == {"mark", "plain", "reward", "ledger"}

PayingModes == {"reward", "ledger"}

Statuses == {"open", "fulfilled", "failed", "cancelled"}

ContractRecords ==
  [id : ContractId, issuer : Faction, receiver : Faction, resource : Resource,
   quantity : U64, reward : U64, dueDay : U64, dueTicks : U64, status : Statuses]

ASSUME ContractsAssumption ==
  /\ NoFaction \notin Faction
  /\ Offers \subseteq ContractRecords
  /\ Prices \subseteq U64
  /\ Modes \subseteq AllModes
  /\ InitialFleets \subseteq Seq(Caravans)
  /\ InitialDepots \subseteq Storages
  /\ InitialCoins \subseteq U64

TypeOK ==
  /\ tick \in U64
  /\ fleet \in Seq(Caravans)
  /\ owner \in [CaravanId -> Faction \cup {NoFaction}]
  /\ catalog \in Seq(ContractRecords)
  /\ wallet \in U64
  /\ ledger \in Ledgers
  /\ depot \in Storages

Init ==
  /\ tick = 0
  /\ fleet \in InitialFleets
  /\ owner = [c \in CaravanId |-> NoFaction]
  /\ catalog = << >>
  /\ wallet \in InitialCoins
  /\ ledger = EmptyLedger
  /\ depot \in InitialDepots

-----------------------------------------------------------------------------
(* The contract book.                                                      *)

IsOpen(c) == c.status = "open"

DueTicks(c) == TicksOr(c.dueTicks, c.dueDay)

(* A faulty variant: the sweep does not look at the status.                *)
IsLate(c, t) == t > DueTicks(c)

IsOverdue(c, t) == IsOpen(c) /\ t > DueTicks(c)

KnownContract(id) == \E i \in DOMAIN catalog : catalog[i].id = id

(* validate_resource_delivery_contract.                                    *)
ValidContract(c) ==
  /\ c.issuer # c.receiver
  /\ c.quantity > 0
  /\ c.reward > 0
  /\ DueTicks(c) > 0
  /\ SameTravel(c.dueDay, c.dueTicks)

(* add_contract first fills in the due tick of a contract given in days.   *)
WithDueTicks(c) ==
  IF c.dueTicks = 0 /\ c.dueDay > 0 THEN [c EXCEPT !.dueTicks = DaysToTicks(c.dueDay)] ELSE c

AddContract(offer) ==
  LET c == WithDueTicks(offer)
  IN  /\ ValidContract(c)
      /\ IsOpen(c)
      /\ ~KnownContract(c.id)
      /\ catalog' = Append(catalog, c)
      /\ UNCHANGED <<tick, fleet, owner, wallet, ledger, depot>>

WithStatus(i, status) == [catalog EXCEPT ![i] = [catalog[i] EXCEPT !.status = status]]

(* mark_contract_status, behind cancel, fail and mark-as-fulfilled.        *)
MarkContract(i, status) ==
  /\ IsOpen(catalog[i])
  /\ catalog' = WithStatus(i, status)
  /\ UNCHANGED <<tick, fleet, owner, wallet, ledger, depot>>

(* A faulty variant: only a step that ends right after the deadline fails. *)
FailedInAtOnce(cat, t) ==
  [i \in DOMAIN cat |-> IF IsOverdue(cat[i], t) /\ ~IsOverdue(cat[i], t - 1)
                        THEN [cat[i] EXCEPT !.status = "failed"] ELSE cat[i]]

(* fail_overdue_open_contracts_at_tick, as a new catalog.                  *)
FailedIn(cat, t) ==
  [i \in DOMAIN cat |-> IF IsOverdue(cat[i], t) THEN [cat[i] EXCEPT !.status = "failed"] ELSE cat[i]]

FailedAt(t) == FailedIn(catalog, t)

FailOverdue(t) ==
  /\ catalog' = FailedAt(t)
  /\ UNCHANGED <<tick, fleet, owner, wallet, ledger, depot>>

-----------------------------------------------------------------------------
(* Settling a contract from a storage.                                     *)

(* Faulty variants: a contract that ended settles again, one settles       *)
(* without the goods, or into a wallet that cannot hold the reward.        *)
CanSettleAgain(i, goods, mode) ==
  /\ CanTake(goods, catalog[i].resource, catalog[i].quantity)
  /\ mode \in PayingModes => CanAdd(wallet, catalog[i].reward)
  /\ mode = "ledger" => CanRecordReward(ledger, catalog[i].quantity, catalog[i].reward)

CanSettleUnchecked(i, goods, mode) ==
  /\ IsOpen(catalog[i])
  /\ mode \in PayingModes => CanAdd(wallet, catalog[i].reward)
  /\ mode = "ledger" => CanRecordReward(ledger, catalog[i].quantity, catalog[i].reward)

CanSettleUnguarded(i, goods, mode) ==
  /\ IsOpen(catalog[i])
  /\ CanTake(goods, catalog[i].resource, catalog[i].quantity)
  /\ mode = "ledger" => CanRecordReward(ledger, catalog[i].quantity, catalog[i].reward)

(* Every check of fulfill_contract_from_storage, and of its variants that  *)
(* pay and that record.  The recording variant works on copies and commits *)
(* them only after the ledger accepted the entry.                          *)
CanSettle(i, goods, mode) ==
  /\ IsOpen(catalog[i])
  /\ CanTake(goods, catalog[i].resource, catalog[i].quantity)
  /\ mode \in PayingModes => CanAdd(wallet, catalog[i].reward)
  /\ mode = "ledger" => CanRecordReward(ledger, catalog[i].quantity, catalog[i].reward)

(* Faulty variants: the copy of the wallet is not committed; the reward is *)
(* taken out of the goods.                                                 *)
PaidNever(i, mode) == wallet

DeliveredReward(i, goods) == Take(goods, catalog[i].resource, catalog[i].reward)

Paid(i, mode) ==
  IF mode \in PayingModes THEN WrapAdd(wallet, catalog[i].reward) ELSE wallet

Recorded(i, mode) ==
  IF mode = "ledger"
  THEN RecordReward(ledger, catalog[i].id, catalog[i].resource, catalog[i].quantity, catalog[i].reward)
  ELSE ledger

Delivered(i, goods) == Take(goods, catalog[i].resource, catalog[i].quantity)

SettleBooks(i, mode) ==
  /\ catalog' = WithStatus(i, "fulfilled")
  /\ wallet' = Paid(i, mode)
  /\ ledger' = Recorded(i, mode)
  /\ UNCHANGED <<tick, owner>>

(* fulfill_contract_from_storage and its variants.                         *)
FulfillFromStorage(i, mode) ==
  /\ CanSettle(i, depot, mode)
  /\ depot' = Delivered(i, depot)
  /\ SettleBooks(i, mode)
  /\ UNCHANGED fleet

CanSettleFromCaravan(i, p, mode) ==
  Arrived(fleet[p]) /\ CanSettle(i, fleet[p].cargo, mode)

(* fulfill_contract_from_arrived_caravan and its variants.                 *)
FulfillFromArrivedCaravan(i, p, mode) ==
  /\ CanSettleFromCaravan(i, p, mode)
  /\ fleet' = [fleet EXCEPT ![p] = [fleet[p] EXCEPT !.cargo = Delivered(i, fleet[p].cargo)]]
  /\ SettleBooks(i, mode)
  /\ UNCHANGED depot

OwnedBy(p, faction) == faction # NoFaction /\ owner[fleet[p].id] = faction

(* fulfill_contract_from_owned_arrived_caravan and its variants.           *)
FulfillFromOwnedCaravan(i, p, faction, mode) ==
  /\ OwnedBy(p, faction)
  /\ FulfillFromArrivedCaravan(i, p, mode)

-----------------------------------------------------------------------------
(* Ownership, trade and time.                                              *)

SetCaravanOwner(p, faction) ==
  /\ owner' = [owner EXCEPT ![fleet[p].id] = faction]
  /\ UNCHANGED <<tick, fleet, catalog, wallet, ledger, depot>>

(* A trade of the host's storage at a market price.  The recording variant *)
(* (trade_with_ledger) commits its copies only if the ledger accepted.     *)
Priced(price, quantity) ==
  quantity > 0 /\ price > 0 /\ ~MultiplyOverflows(price, quantity)

RecordedTrade(type, r, price, quantity, mode) ==
  IF mode = "ledger" THEN RecordTrade(ledger, type, r, quantity, price, price * quantity) ELSE ledger

CanRecord(price, quantity, mode) ==
  mode = "ledger" => CanRecordTrade(ledger, quantity, price, price * quantity)

Buy(r, price, quantity, mode) ==
  /\ Priced(price, quantity)
  /\ wallet >= price * quantity
  /\ CanPut(depot, r, quantity)
  /\ CanRecord(price, quantity, mode)
  /\ depot' = Put(depot, r, quantity)
  /\ wallet' = wallet - price * quantity
  /\ ledger' = RecordedTrade("buy", r, price, quantity, mode)
  /\ UNCHANGED <<tick, fleet, owner, catalog>>

Sell(r, price, quantity, mode) ==
  /\ Priced(price, quantity)
  /\ CanAdd(wallet, price * quantity)
  /\ CanTake(depot, r, quantity)
  /\ CanRecord(price, quantity, mode)
  /\ depot' = Take(depot, r, quantity)
  /\ wallet' = WrapAdd(wallet, price * quantity)
  /\ ledger' = RecordedTrade("sell", r, price, quantity, mode)
  /\ UNCHANGED <<tick, fleet, owner, catalog>>

(* advance_runtime_ticks: the clock, every caravan, then the overdue       *)
(* contracts at the tick the clock reached.                                *)
AdvanceTicks(ticks) ==
  /\ tick' = AdvanceTime(tick, ticks)
  /\ fleet' = [p \in DOMAIN fleet |-> Advance(fleet[p], ticks)]
  /\ catalog' = FailedAt(tick')
  /\ UNCHANGED <<owner, wallet, ledger, depot>>

-----------------------------------------------------------------------------
(* The calls on one contract, on one caravan and on the host's storage.    *)

ContractCall(i) ==
  \/ \E status \in {"failed", "cancelled"} : MarkContract(i, status)
  \/ "mark" \in Modes /\ MarkContract(i, "fulfilled")
  \/ \E mode \in Modes \ {"mark"} :
       \/ FulfillFromStorage(i, mode)
       \/ \E p \in DOMAIN fleet :
            \/ FulfillFromArrivedCaravan(i, p, mode)
            \/ \E faction \in Faction : FulfillFromOwnedCaravan(i, p, faction, mode)

TradeCall ==
  \E r \in Resource, price \in Prices, quantity \in U64, mode \in Modes \cap {"plain", "ledger"} :
    Buy(r, price, quantity, mode) \/ Sell(r, price, quantity, mode)

Next ==
  \/ \E offer \in Offers : AddContract(offer)
  \/ \E i \in DOMAIN catalog : ContractCall(i)
  \/ \E t \in U64 : FailOverdue(t)
  \/ \E p \in DOMAIN fleet, faction \in Faction : SetCaravanOwner(p, faction)
  \/ TradeCall
  \/ \E ticks \in U64 : AdvanceTicks(ticks)

Spec == Init /\ [][Next]_vars

-----------------------------------------------------------------------------
(* What the contract book, the wallet and the ledger owe each other.       *)

Rewards(l) == {i \in DOMAIN l.entries : IsReward(l.entries[i])}

(* The terms an entry pays are those of a contract that was fulfilled.     *)
PaysContract(e, c) ==
  /\ c.id = e.reference
  /\ c.status = "fulfilled"
  /\ c.resource = e.resource
  /\ c.quantity = e.quantity
  /\ c.reward = e.total

(* Whatever the host calls, and however often it retries a settlement: a   *)
(* reward in the ledger is the reward of one fulfilled contract of the     *)
(* book on that contract's terms, and no contract is rewarded twice.       *)
OneRewardPerContract ==
  \A i \in Rewards(ledger) :
    /\ \E j \in DOMAIN catalog : PaysContract(ledger.entries[i], catalog[j])
    /\ \A k \in Rewards(ledger) :
         ledger.entries[k].reference = ledger.entries[i].reference => k = i

(* The ledger can always be written to a save and read back: every entry   *)
(* passes restore_entries and the restored ledger continues with the same  *)
(* sequence number, up to the exhaustion of the counter.                   *)
LedgerSurvivesRestore ==
  Restorable(ledger.entries) /\ Restored(ledger.entries) = ledger

(* Contract ids stay unique, so a lookup by id is never ambiguous.         *)
UniqueContracts ==
  \A i, j \in DOMAIN catalog : catalog[i].id = catalog[j].id => i = j

CatalogKept ==
  /\ Len(catalog') >= Len(catalog)
  /\ \A i \in DOMAIN catalog :
       \/ catalog'[i] = catalog[i]
       \/ /\ IsOpen(catalog[i])
          /\ \E status \in Statuses : catalog'[i] = [catalog[i] EXCEPT !.status = status]

(* A contract never leaves the book, its terms never change, and once it   *)
(* is fulfilled, failed or cancelled no late call moves it again.          *)
TerminalIsFinal == [][CatalogKept]_vars

(* Value of a ledger entry for the wallet.                                 *)
Earned(e) == IF e.type = "buy" THEN 0 ELSE e.total

Spent(e) == IF e.type = "buy" THEN e.total ELSE 0

CoinsFollowEntries ==
  \/ wallet' = wallet /\ ledger' = ledger
  \/ LET e == ledger'.entries[Len(ledger'.entries)]
     IN  /\ ledger'.entries = Append(ledger.entries, e)
         /\ wallet' + Spent(e) = wallet + Earned(e)

(* For a host that only uses the recording calls: coins move in a step     *)
(* exactly as the entry appended in that step says, never silently and     *)
(* never with a wrap-around.                                               *)
WalletFollowsLedger == [][CoinsFollowEntries]_vars

AccountsForCoins ==
  wallet' # wallet =>
    \/ \E i \in DOMAIN catalog :
         /\ IsOpen(catalog[i]) /\ catalog' = WithStatus(i, "fulfilled")
         /\ wallet' = wallet + catalog[i].reward
    \/ \E r \in Resource, price \in Prices :
         /\ wallet' + price * depot'[r] = wallet + price * depot[r]
         /\ \A x \in Resource \ {r} : depot'[x] = depot[x]
         /\ catalog' = catalog /\ fleet' = fleet

(* What the caravans carry of a resource, all together.                    *)
Freight(f, r) ==
  LET sum[n \in 0 .. Len(f)] == IF n = 0 THEN 0 ELSE sum[n - 1] + f[n].cargo[r]
  IN  sum[Len(f)]

AccountsForGoods ==
  \A r \in Resource :
    LET before == depot[r] + Freight(fleet, r)
        after  == depot'[r] + Freight(fleet', r)
    IN  after # before =>
          \/ /\ catalog' = catalog
             /\ wallet' < wallet <=> after > before
          \/ \E i \in DOMAIN catalog :
               /\ IsOpen(catalog[i]) /\ catalog' = WithStatus(i, "fulfilled")
               /\ catalog[i].resource = r
               /\ after + catalog[i].quantity = before

(* Goods and coins come and go only for something, whichever calls the    *)
(* host mixes.  The stock of a resource, the cargo of all caravans         *)
(* included, changes in a step by a trade that moved coins the other way,  *)
(* or by the one contract that this step fulfilled, and then by exactly    *)
(* its quantity.  Coins change by the exact reward of that contract, or by *)
(* a trade of one resource that leaves wallet and storage together worth   *)
(* the same at a price of the market: no sum of coins, or of goods that    *)
(* coins are paid for, wraps around, however full wallet and storage were, *)
(* in calls that record nothing too (fulfill_contract_from_storage and its *)
(* callers, buy_resource, sell_resource).                                  *)
MeansForSomething == [][AccountsForGoods /\ AccountsForCoins]_vars

-----------------------------------------------------------------------------
(* The abstract book this one implements, when the host settles through    *)
(* the recording calls only.                                               *)

EscrowState(id) ==
  CASE ~KnownContract(id) -> "unknown"
    [] \E i \in DOMAIN catalog : catalog[i].id = id /\ IsOpen(catalog[i]) -> "offered"
    [] \E i \in DOMAIN catalog : catalog[i].id = id /\ catalog[i].status = "fulfilled" -> "settled"
    [] OTHER -> "dropped"

EscrowPrice(id) ==
  IF KnownContract(id)
  THEN catalog[CHOOSE i \in DOMAIN catalog : catalog[i].id = id].reward
  ELSE 0

EscrowReceipts ==
  {<<ledger.entries[i].sequence, ledger.entries[i].reference, ledger.entries[i].total>> :
     i \in Rewards(ledger)}

Book == INSTANCE Escrow WITH
  Party <- ContractId, Coin <- U64, Serial <- U64,
  state <- [id \in ContractId |-> EscrowState(id)],
  price <- [id \in ContractId |-> EscrowPrice(id)],
  purse <- wallet,
  receipts <- EscrowReceipts

(* Every run of the contract calls is a run of the abstract book: nothing  *)
(* is paid twice, paid without settling, or settled after it ended.        *)
ImplementsEscrow == Book!ESpec
=============================================================================
