------------------------------- MODULE MCBlocks -------------------------------
(***************************************************************************)
(* A small chain for TLC: two stakers, one of them also the sender of most *)
(* transactions, an address without an account, eras of eight blocks.       *)
(***************************************************************************)
EXTENDS Blocks

CONSTANTS ana, bob, cat, treasury, storage

MCAddresses == {ana, bob, cat, treasury, storage}
MCPlace == [a \in MCAddresses |->
             CASE a = ana -> 1 [] a = bob -> 2 [] a = cat -> 3
               [] a = treasury -> 4 [] a = storage -> 5]

(* Anything will do that both builder and verifier compute. *)
MCRoll(h, i) == 5 * h + 3 * i

MCGenesis ==
    [account |-> [a \in {ana, bob, treasury, storage} |->
                    [balance |-> CASE a = ana -> 12 [] a = bob -> 5
                                   [] a = treasury -> 5 [] a = storage -> 0,
                     counter |-> 0]],
     stake   |-> [v \in {ana, bob} |-> IF v = ana THEN 4 ELSE 1],
     record  |-> {}]

Transfer(from, to, n, amount) ==
    [code |-> "TRANSFER", sender |-> from, recipient |-> to,
     counter |-> n, amount |-> amount]
Deposit(from, n, amount) ==
    [code |-> "TREASURY_DEPOSIT", sender |-> from, recipient |-> treasury,
     counter |-> n, amount |-> amount]

(* A transfer to an account, one to an address without one that only a     *)
(* sender in funds can pay, a deposit, and one from the poorer staker.     *)
MCTransactions == {Transfer(ana, bob, 0, 2), Transfer(ana, cat, 1, 1),
                   Deposit(bob, 0, 1), Transfer(bob, ana, 0, 1)}

MCSize == [kind \in {"transaction", "account"} |-> 1]
=============================================================================
