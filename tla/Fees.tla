-------------------------------- MODULE Fees --------------------------------
(***************************************************************************)
(* Fee settlement of a top-level transaction, the operator every ledger    *)
(* operation ends with (consensus/transaction/fees.py).  A sender owes     *)
(* three fees and possibly a transfer; it pays all of it, or as much of    *)
(* the fees as its balance reaches, in order.                              *)
(***************************************************************************)
EXTENDS Integers

(* The base fee every top-level transaction owes. *)
TxFee == 1

(* `min`; named after what it does here: the part of `due` that `balance`  *)
(* reaches.                                                                *)
PaidPart(balance, due) == IF balance < due THEN balance ELSE due

(***************************************************************************)
(* settle_fees: what is taken from a sender.  Python clamps a negative     *)
(* balance to 0 first; the operator is only used with balances that the    *)
(* type invariants show to be natural numbers.                             *)
(***************************************************************************)
Settle(balance, txFee, dataFee, storageFee, transfer) ==
    IF balance >= txFee + dataFee + storageFee + transfer
    THEN [ transaction |-> txFee,
           data        |-> dataFee,
           storage     |-> storageFee,
           transfer    |-> transfer,
           affordable  |-> TRUE ]
    ELSE LET afterTx   == balance - PaidPart(balance, txFee)
             afterData == afterTx - PaidPart(afterTx, dataFee)
         IN  [ transaction |-> PaidPart(balance, txFee),
               data        |-> PaidPart(afterTx, dataFee),
               storage     |-> PaidPart(afterData, storageFee),
               transfer    |-> 0,
               affordable  |-> FALSE ]

(* FeeSettlement.total: everything taken from the sender. *)
Total(s) == s.transaction + s.data + s.storage + s.transfer
=============================================================================
