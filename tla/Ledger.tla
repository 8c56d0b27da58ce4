------------------------------- MODULE Ledger -------------------------------
(***************************************************************************)
(* EconomyLedger: an append-only log of trades and contract rewards.  The  *)
(* class keeps entries_ and next_sequence_; a ledger here is the record    *)
(* of both.                                                                *)
(***************************************************************************)
EXTENDS Storage, Sequences

CONSTANTS
  ContractId,    (* ids a contract may have                                  *)
  NoReference    (* the empty reference_id of a trade entry                  *)

ASSUME NoReferenceAssumption == NoReference \notin ContractId

TradeTypes == {"buy", "sell"}

Entries ==
  [sequence : U64, type : TradeTypes \cup {"contract_reward"},
   resource : Resource, quantity : U64, unit : U64, total : U64,
   reference : ContractId \cup {NoReference}]

Ledgers == [entries : Seq(Entries), next : U64]

EmptyLedger == [entries |-> << >>, next |-> 1]

(* A faulty variant: the counter is never exhausted.                       *)
CanNumberAlways(l) == TRUE

(* The last sequence number is never handed out.                           *)
CanNumber(l) == l.next # MaxU64

Push(l, type, r, quantity, unit, total, reference) ==
  [entries |-> Append(l.entries,
     [sequence |-> l.next, type |-> type, resource |-> r,
      quantity |-> quantity, unit |-> unit, total |-> total,
      reference |-> reference]),
   next |-> WrapAdd(l.next, 1)]

(* EconomyLedger::record, of a trade that succeeded.                       *)
CanRecordTrade(l, quantity, unit, total) ==
  quantity > 0 /\ unit > 0 /\ total > 0 /\ CanNumber(l)

RecordTrade(l, type, r, quantity, unit, total) ==
  Push(l, type, r, quantity, unit, total, NoReference)

(* EconomyLedger::record_contract_reward.                                  *)
CanRecordReward(l, quantity, reward) ==
  quantity > 0 /\ reward > 0 /\ CanNumber(l)

RecordReward(l, c, r, quantity, reward) ==
  Push(l, "contract_reward", r, quantity, 0, reward, c)

(* ledger_entry_has_valid_payload.                                         *)
ValidPayload(e) ==
  /\ e.sequence > 0 /\ e.quantity > 0 /\ e.total > 0
  /\ IF e.type \in TradeTypes
     THEN e.unit > 0 /\ e.reference = NoReference
     ELSE e.unit = 0 /\ e.reference # NoReference

(* EconomyLedger::restore_entries accepts these entries: every payload is  *)
(* valid and the i-th sequence number is i (expected_sequence stops        *)
(* counting at the maximum).                                               *)
Restorable(es) ==
  \A i \in DOMAIN es : ValidPayload(es[i]) /\ es[i].sequence = AtMost(i, MaxU64)

(* The ledger restore_entries leaves when it accepts.                      *)
Restored(es) == [entries |-> es, next |-> AtMost(Len(es) + 1, MaxU64)]

IsReward(e) == e.type = "contract_reward"
=============================================================================
