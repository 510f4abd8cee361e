------------------------------ MODULE MCPubSub ------------------------------
(* One name, a pattern that matches it, one connection.                    *)
EXTENDS PubSub

MCQueueOf == [x \in Owners |-> IF x \in Ios THEN "user" ELSE "io"]
MCMatches == [k \in Patterns |-> Names]
=============================================================================
