-------------------------------- MODULE Book --------------------------------
(***************************************************************************)
(* What the marketplace treasury promises of its money, whatever the       *)
(* interleaving of its callers: no cent of a bucket changes without a row  *)
(* that says so, entered in the same step; a row is entered once under its *)
(* key and never changed or removed; and money passes from one bucket to   *)
(* the other by two rows that cancel out.                                  *)
(***************************************************************************)
EXTENDS Integers

CONSTANT Buckets

VARIABLES money, rows

Fresh(key) == \A row \in rows : row.key # key

Init ==
    /\ money = [b \in Buckets |-> 0]
    /\ rows = {}

\* One row and the money it stands for.
Enter ==
    \E row \in rows' :
        /\ Fresh(row.key)
        /\ rows' = rows \cup {row}
        /\ money' = [money EXCEPT ![row.bucket] = @ + row.cents]

\* Two rows that take from one bucket what they put into another.
Move ==
    \E out, in \in rows' :
        /\ Fresh(out.key) /\ Fresh(in.key) /\ out.key # in.key
        /\ out.bucket # in.bucket
        /\ out.cents = -in.cents
        /\ rows' = rows \cup {out, in}
        /\ money' = [money EXCEPT ![out.bucket] = @ - in.cents,
                                  ![in.bucket] = @ + in.cents]

Next == Enter \/ Move

Spec == Init /\ [][Next]_<<money, rows>>
=============================================================================
