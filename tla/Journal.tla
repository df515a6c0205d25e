------------------------------ MODULE Journal ------------------------------
(***************************************************************************)
(* What the Connect ledger promises of its rows, whatever the interleaving *)
(* of its callers: an append-only journal in which a (reference, type)     *)
(* pair is posted at most once, and in which a pending credit is promoted  *)
(* at most once, by a MATURE row that repeats its account and amount.      *)
(* Promotion is the one permitted change of an existing row, and it only   *)
(* raises the row's matured flag.                                          *)
(***************************************************************************)
VARIABLE rows

Posted(ref, type) == \E r \in rows : r.ref = ref /\ r.type = type

Init == rows = {}

\* A row other than a promotion is added; every earlier row stays as it was.
Append ==
    \E new \in rows' :
        /\ ~Posted(new.ref, new.type)
        /\ new.type # "MATURE"
        /\ ~new.matured
        /\ rows' = rows \cup {new}

\* A pending credit is promoted: its flag is raised and its MATURE row added.
Promote ==
    \E credit \in rows, mature \in rows' :
        /\ credit.type = "CREDIT_PENDING"
        /\ ~credit.matured
        /\ mature.type = "MATURE"
        /\ mature.ref = credit.ref
        /\ mature.account = credit.account
        /\ mature.amount = credit.amount
        /\ ~Posted(credit.ref, "MATURE")
        /\ rows' = (rows \ {credit}) \cup {[credit EXCEPT !.matured = TRUE], mature}

Next == Append \/ Promote

Spec == Init /\ [][Next]_rows
=============================================================================
