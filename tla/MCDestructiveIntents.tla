------------------------ MODULE MCDestructiveIntents ------------------------
(***************************************************************************)
(* A small instance of the destructive intents: one product, to be         *)
(* archived by one intent and deleted by another.                          *)
(***************************************************************************)
EXTENDS DestructiveIntents

CONSTANTS archiving, deleting, prod

SameProduct == [i \in Intents |-> prod]
Kinds == [i \in Intents |-> IF i = deleting THEN "delete" ELSE "archive"]
=============================================================================
