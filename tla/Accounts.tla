------------------------------ MODULE Accounts ------------------------------
(***************************************************************************)
(* What a host reads to keep its books: the summary of the ledger, by      *)
(* resource.  Its totals saturate; the net figures are signed and saturate *)
(* at half the width.                                                      *)
(***************************************************************************)
EXTENDS ContractEconomy

LOCAL INSTANCE SequencesExt
LOCAL INSTANCE FiniteSetsExt

MaxI64 == MaxU64 \div 2

(* saturating_signed_difference.                                           *)
SignedDifference(positive, negative) ==
  IF positive - negative > MaxI64 THEN MaxI64
  ELSE IF negative - positive > MaxI64 THEN -MaxI64 - 1
  ELSE positive - negative

SaturatingTotal(amounts) == FoldSeq(SaturatingAdd, 0, amounts)

-----------------------------------------------------------------------------
(* make_ledger_summary: LedgerResourceSummary of one resource.             *)

EntriesOf(l, type, r) == SelectSeq(l.entries, LAMBDA e : e.type = type /\ e.resource = r)

Quantity(l, type, r) ==
  LET es == EntriesOf(l, type, r) IN SaturatingTotal([k \in DOMAIN es |-> es[k].quantity])

Value(l, type, r) ==
  LET es == EntriesOf(l, type, r) IN SaturatingTotal([k \in DOMAIN es |-> es[k].total])

NetQuantity(l, r) ==
  SignedDifference(SaturatingAdd(Quantity(l, "sell", r), Quantity(l, "contract_reward", r)),
                   Quantity(l, "buy", r))

(* A faulty variant: rewards are left out of the net value.                *)
NetValueOfTrades(l, r) == SignedDifference(Value(l, "sell", r), Value(l, "buy", r))

NetValue(l, r) ==
  SignedDifference(SaturatingAdd(Value(l, "sell", r), Value(l, "contract_reward", r)),
                   Value(l, "buy", r))

-----------------------------------------------------------------------------
(* No total of the summary saturates, nor does a net figure.               *)
ExactFor(l, r) ==
  /\ \A type \in {"buy", "sell", "contract_reward"} : Value(l, type, r) < MaxU64
  /\ SaturatingAdd(Value(l, "sell", r), Value(l, "contract_reward", r)) < MaxU64
  /\ NetValue(l, r) \in -MaxI64 .. MaxI64 - 1
  /\ NetQuantity(l, r) \in -MaxI64 .. MaxI64 - 1

SumOver(Figure(_)) == MapThenSumSet(Figure, Resource)

(* The summary explains the host's means: in every step of a host that     *)
(* only uses the recording calls its coins change by what the net value    *)
(* changes, and its goods, in store and on the road, by what the net       *)
(* quantity changes, as long as nothing saturates.                         *)
SummaryExplainsMeans ==
  [][(\A r \in Resource : ExactFor(ledger, r) /\ ExactFor(ledger', r)) =>
       /\ wallet' - SumOver(LAMBDA r : NetValue(ledger', r)) =
            wallet - SumOver(LAMBDA r : NetValue(ledger, r))
       /\ \A r \in Resource :
            depot'[r] + SaturatingTotal([p \in DOMAIN fleet' |-> fleet'[p].cargo[r]]) + NetQuantity(ledger', r) =
              depot[r] + SaturatingTotal([p \in DOMAIN fleet |-> fleet[p].cargo[r]]) + NetQuantity(ledger, r)]_vars
=============================================================================
