------------------------------- MODULE Escrow -------------------------------
(***************************************************************************)
(* What a payment channel promises, without accounts, fees, transactions   *)
(* or failures.  A payer's coins are held for a payee.  Until the deadline *)
(* only vouchers take coins out, each at most once and in increasing order *)
(* of their counters; after it only the payer does, and takes everything.  *)
(* The deadline never moves back.                                          *)
(***************************************************************************)
EXTENDS Integers

CONSTANTS Channels,      \* the channels
          Signed,        \* <<channel, voucher>>: what the payers signed
          InitialHeld,   \* coins held at the start
          InitialDeadline

VARIABLES held,          \* channel -> coins in escrow
          deadline,      \* channel -> end of the payee's time
          now,           \* the time both sides see
          paid           \* the vouchers paid

vars == <<held, deadline, now, paid>>

Init == /\ held = InitialHeld
        /\ deadline = InitialDeadline
        /\ now = 0
        /\ paid = {}

(* f changes at c only, to a value no smaller. *)
Raises(f, c) == /\ f'[c] \in Nat
                /\ f'[c] >= f[c]
                /\ f' = [f EXCEPT ![c] = f'[c]]

Fund(c) == /\ Raises(held, c)
           /\ Raises(deadline, c)
           /\ UNCHANGED <<now, paid>>

Redeem(r) ==
    LET c == r[1]  v == r[2]
    IN  /\ now < deadline[c]
        /\ \A q \in paid : q[1] = c => q[2].counter < v.counter
        /\ v.amount <= held[c]
        /\ held' = [held EXCEPT ![c] = @ - v.amount]
        /\ paid' = paid \cup {r}
        /\ UNCHANGED <<deadline, now>>

Refund(c) ==
    /\ deadline[c] < now
    /\ held' = [held EXCEPT ![c] = 0]
    /\ UNCHANGED <<deadline, now, paid>>

Tick == /\ now' \in Nat
        /\ now' > now
        /\ UNCHANGED <<held, deadline, paid>>

Next == \/ \E c \in Channels : Fund(c) \/ Refund(c)
        \/ \E r \in Signed : Redeem(r)
        \/ Tick

Spec == Init /\ [][Next]_vars
=============================================================================
