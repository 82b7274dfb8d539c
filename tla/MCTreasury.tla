----------------------------- MODULE MCTreasury -----------------------------
(* Small instances of Treasury: `ana` borrows, `gus` guarantees and buys.  *)
EXTENDS Treasury

CONSTANTS ana, gus, treasury, nobody

MCUsers == {ana, gus}

Guarantor(u, amt, dur, price, expiry) ==
    [guarantor |-> u, amount |-> amt, duration |-> dur, price |-> price, expiry |-> expiry]

Unsecured(u, payment, interval, count, refs) ==
    [borrower |-> u, secured |-> FALSE, payment |-> payment, interval |-> interval,
     count |-> count, refs |-> refs]

Secured(u, payment, interval, count) ==
    [borrower |-> u, secured |-> TRUE, payment |-> payment, interval |-> interval,
     count |-> count, refs |-> {}]

Funds(a, b, t) == [x \in {ana, gus, treasury} |-> CASE x = ana -> a [] x = gus -> b [] OTHER -> t]

Empty == [stake |-> 0, interest |-> 0, loaned |-> 0, defaulted |-> 0, guaranteed |-> 0]

Records(ofAna, ofGus) == [u \in MCUsers |-> IF u = ana THEN ofAna ELSE ofGus]

MCAmounts == {1, 2}
MCRefunds == {0, 1}

(* ---- Three unsecured loans compete for two guarantees.  The guarantor    *)
(* can back both only with the interest its own secured loan earns it, and *)
(* `ana` can stake what her loans pay out.                                  *)

GA == Guarantor(gus, 3, 2, 1, 4)
GB == Guarantor(gus, 2, 2, 0, 5)

MCGuarantees == {GA, GB}
MCLoans == {Unsecured(ana, 2, 1, 2, {GA}), Unsecured(ana, 2, 2, 1, {GA, GB}),
            Unsecured(ana, 2, 2, 1, {GB}), Secured(gus, 2, 1, 1)}
MCBalance == Funds(3, 1, 6)
MCRecord == Records(Empty, [Empty EXCEPT !.interest = 4, !.stake = 2])
MCNoDeposits == {}
MCDeposits == {6}
MCKnown == {gus}

(* ---- Self-guarantees: a borrower backs its own loans ---- *)

GS == Guarantor(ana, 1, 1, 0, 4)

MCSelfGuarantees == {GS}
MCSelfLoans == {Unsecured(ana, 1, 1, 1, {GS}), Unsecured(ana, 2, 1, 1, {GS})}
MCSelfRecord == Records([Empty EXCEPT !.interest = 2], Empty)
=============================================================================
