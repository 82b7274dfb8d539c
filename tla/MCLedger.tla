------------------------------ MODULE MCLedger ------------------------------
(* A small instance of Ledger: `ana` pays `bob` through a channel, both    *)
(* transfer, to others and to themselves, and remove; everything may be    *)
(* submitted in any order and repeatedly.                                  *)
EXTENDS Ledger

CONSTANTS ana, bob, eve, storage

(* ---- The channel: top-ups, vouchers of one counter, closes ---- *)

Pair == <<ana, bob>>

MCChannels == {Pair}

MCSigned == {Pair} \X {[counter |-> 1, amount |-> 1],
                       [counter |-> 2, amount |-> 1],
                       [counter |-> 2, amount |-> 2]}

Update(n, amt, w, ok) ==
    [code |-> "CHANNEL_UPDATE", sender |-> ana, recipient |-> ana, counter |-> n,
     amount |-> amt, counterparty |-> bob, window |-> w, wellFormed |-> ok]

Close(n) ==
    [code |-> "CHANNEL_CLOSE", sender |-> ana, recipient |-> ana, counter |-> n,
     amount |-> 0, counterparty |-> bob]

Withdraw(n, vc, amt) ==
    [code |-> "CHANNEL_WITHDRAW", sender |-> bob, recipient |-> ana, counter |-> n,
     amount |-> 0, voucher |-> [counter |-> vc, amount |-> amt]]

Send(from, to, n, amt) ==
    [code |-> "TRANSFER", sender |-> from, recipient |-> to, counter |-> n, amount |-> amt]

Remove(from, to, n) ==
    [code |-> "STORAGE_REMOVE", sender |-> from, recipient |-> to, counter |-> n, amount |-> 0]

MCUsers == {ana, bob, eve}

(* `eve` has no account until ana or bob reaches her. *)
MCTransactions ==
    {Update(0, 1, KeepWindow, TRUE), Update(1, 0, 2, TRUE),
     Update(0, 1, 0, TRUE), Update(1, 1, 2, FALSE), Close(1)}
    \cup {Withdraw(0, 1, 1), Withdraw(0, 2, 1), Withdraw(0, 2, 2),
          Withdraw(1, 2, 2), Withdraw(1, 3, 1)}
    \cup {Send(ana, ana, 0, 2), Send(ana, eve, 1, 2), Send(bob, ana, 1, 2),
          Send(eve, ana, 0, 0), Remove(bob, eve, 0)}

MCInitialLive == {ana, bob, storage}

MCInitialBalance ==
    [a \in {ana, bob, eve, storage} |-> CASE a = ana -> 3 [] a = bob -> 2 [] OTHER -> 0]

MCInitialChannel == [p \in MCChannels |-> [balance |-> 2, counter |-> 0, window |-> 1]]

MCStorageFees == 0 .. 1
=============================================================================
