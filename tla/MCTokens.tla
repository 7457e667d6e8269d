------------------------------ MODULE MCTokens ------------------------------
EXTENDS Tokens

MCPurses == [a \in User |-> IF a = "a" THEN 2 ELSE 5]
=============================================================================
