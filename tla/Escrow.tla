------------------------------- MODULE Escrow -------------------------------
(***************************************************************************)
(* What a book of delivery contracts promises, without catalogs, caravans, *)
(* clocks or storages: every contract is offered once, ends at most once,  *)
(* and is paid, once, only when it is settled; a receipt is kept for every *)
(* payment.  The purse may also change by trade, which touches no contract *)
(* and leaves no receipt of one.                                           *)
(***************************************************************************)
EXTENDS Naturals

CONSTANTS
  Party,        (* the contracts there may be                                *)
  Coin,         (* amounts of coins                                          *)
  Serial        (* the numbers receipts carry                                *)

VARIABLES
  state,        (* where each contract stands                                *)
  price,        (* what each contract pays, once it is offered               *)
  purse,        (* the coins of whoever delivers                             *)
  receipts      (* <<serial, contract, coins>> of every payment              *)

evars == <<state, price, purse, receipts>>

EInit ==
  /\ state = [c \in Party |-> "unknown"]
  /\ price = [c \in Party |-> 0]
  /\ purse \in Coin
  /\ receipts = {}

Offer(c) ==
  /\ state[c] = "unknown"
  /\ state' = [state EXCEPT ![c] = "offered"]
  /\ \E p \in Coin \ {0} : price' = [price EXCEPT ![c] = p]
  /\ UNCHANGED <<purse, receipts>>

Settle(c) ==
  /\ state[c] = "offered"
  /\ state' = [state EXCEPT ![c] = "settled"]
  /\ purse' = purse + price[c]
  /\ \E n \in Serial :
       /\ \A old \in receipts : old[1] # n
       /\ receipts' = receipts \cup {<<n, c, price[c]>>}
  /\ UNCHANGED price

(* Contracts end without a payment, several at once when a deadline passes. *)
Drop(C) ==
  /\ \A c \in C : state[c] = "offered"
  /\ state' = [c \in Party |-> IF c \in C THEN "dropped" ELSE state[c]]
  /\ UNCHANGED <<price, purse, receipts>>

Trade ==
  /\ purse' \in Coin
  /\ UNCHANGED <<state, price, receipts>>

ENext ==
  \/ \E c \in Party : Offer(c) \/ Settle(c)
  \/ \E C \in SUBSET Party : Drop(C)
  \/ Trade

ESpec == EInit /\ [][ENext]_evars
=============================================================================
