-------------------------- MODULE MCPrepaidWallet --------------------------
(***************************************************************************)
(* A small instance of the prepaid wallet: an inline request whose id may  *)
(* be used again, and an ingestion, whose quotes one top-up covers only    *)
(* one at a time, so that charges and settlements are refused.             *)
(***************************************************************************)
EXTENDS PrepaidWallet, FiniteSetsExt

CONSTANTS page, source

Quotes == [r \in {page, source} |-> IF r = page THEN 3 ELSE 2]

\* Below the quote, equal to it (a catalogue price, or usage the provider did not
\* report), and above it.
Costs == [r \in {page, source} |-> IF r = page THEN {1, 3, 4} ELSE {3}]

\* Concurrent debits never over-spend, as the service's comment has it: the rows
\* of the wallet never spend more than its top-ups.  The code does not keep
\* this: two charges that read the same balance are both covered by it, and the
\* second overwrites the first one's new balance.
NeverOverspends ==
    TopUpCents * Cardinality(topped) + MapThenSumSet(Net, Requests) >= 0
=============================================================================
