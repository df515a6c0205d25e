---------------------------- MODULE SplitEngine ----------------------------
(***************************************************************************)
(* The two pure algorithms that divide a sale's cents: the split engine    *)
(* (payments/split), which gives each stakeholder its part when the sale   *)
(* is made, and the planning of a reversal (connect-reversal.service),     *)
(* which takes from each transfer its part of a refund or a dispute.       *)
(* A stakeholder that is absent, or whose part is zero, has no transfer;   *)
(* both are written as a part of 0.                                        *)
(***************************************************************************)
EXTENDS Integers

Roles == {"supplier", "affiliate", "coproducer", "manager", "seller"}

PercentRoles == {"affiliate", "coproducer", "manager"}

\* The input of calculateSplit that passes validateInput; bp are the basis
\* points of the roles paid by percentage.
Sale == {s \in [buyerPaid : Nat, saleValue : Nat, interest : Nat, fee : Nat,
                supplier : Nat, bp : [PercentRoles -> 0 .. 10000]] :
             s.fee <= s.saleValue}

Clamp(value, ceiling) ==
    IF value < 0 THEN 0 ELSE IF value > ceiling THEN ceiling ELSE value

\* Variant for the checks: the interest is left to the stakeholders.
AfterFeeOnly(s) == s.buyerPaid - s.fee

\* What is left once Kloel has taken its fee and the interest.
AfterKloel(s) == s.buyerPaid - (s.fee + s.interest)

SupplierPart(s) == Clamp(s.supplier, AfterKloel(s))

\* The commission base is the sale's value less the fee, whatever is left.
Commission(s, role) == ((s.saleValue - s.fee) * s.bp[role]) \div 10000

PercentPart(s, role, remaining) == Clamp(Commission(s, role), remaining)

\* Each part is taken from what the roles before it left; the seller has the
\* rest.  When the fee and interest exceed the price, Kloel keeps it all.
Split(s) ==
    LET toSupplier   == SupplierPart(s)
        rest1        == AfterKloel(s) - toSupplier
        toAffiliate  == PercentPart(s, "affiliate", rest1)
        rest2        == rest1 - toAffiliate
        toCoproducer == PercentPart(s, "coproducer", rest2)
        rest3        == rest2 - toCoproducer
        toManager    == PercentPart(s, "manager", rest3)
    IN  IF AfterKloel(s) < 0 THEN [role \in Roles |-> 0]
        ELSE [supplier |-> toSupplier, affiliate |-> toAffiliate,
              coproducer |-> toCoproducer, manager |-> toManager,
              seller |-> rest3 - toManager]

KloelTotal(s) == IF AfterKloel(s) < 0 THEN s.buyerPaid ELSE s.fee + s.interest

Total(lines) ==
    lines["supplier"] + lines["affiliate"] + lines["coproducer"] +
        lines["manager"] + lines["seller"]

----------------------------------------------------------------------------
\* Each line's share of a reversal of q out of the price p, rounded down, and
\* the remainder of that division.
Floors(lines, q, p) == [l \in Roles |-> (lines[l] * q) \div p]

Rests(lines, q, p) == [l \in Roles |-> (lines[l] * q) % p]

Priority == [supplier |-> 1, affiliate |-> 2, coproducer |-> 3, manager |-> 4, seller |-> 5]

\* Larger remainders first, ties by role.
Precedes(rest, k, l) ==
    rest[k] > rest[l] \/ (rest[k] = rest[l] /\ Priority[k] < Priority[l])

\* How many of the lines in the set go before l.
Rank(rest, partial, l) ==
    Total([k \in Roles |-> IF k \in partial /\ Precedes(rest, k, l) THEN 1 ELSE 0])

\* Variant: the extra cents are not handed out.
BonusForgotten(rest, partial, extra, l) == 0

\* One extra cent for each of the first lines, as long as there are any.  A
\* line already taken in full gets none.
Bonus(rest, partial, extra, l) ==
    IF l \in partial /\ Rank(rest, partial, l) < extra THEN 1 ELSE 0

\* planProportionalReversals, always of the ORIGINAL amounts of the lines.
\* The extra cents are the stakeholders' share of the reversal, rounded down
\* once, less the shares rounded down one by one.
Plan(lines, q, p) ==
    LET floor   == Floors(lines, q, p)
        rest    == Rests(lines, q, p)
        partial == {l \in Roles : floor[l] < lines[l]}
        extra   == (Total(lines) * q) \div p - Total(floor)
    IN  [l \in Roles |-> floor[l] + Bonus(rest, partial, extra, l)]
=============================================================================
