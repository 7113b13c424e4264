----------------------------- MODULE MCUserUsage -----------------------------
(* UserUsage with two connections from one address and one from another, which *)
(* would come first if the addresses alone were compared.                      *)
EXTENDS UserUsage

CONSTANTS a, b, c
MCIpOf == [x \in Conn |-> IF x = c THEN 1 ELSE 2]
MCMaxBytes == [x \in Conn |-> IF x = a THEN 1 ELSE 0]
=============================================================================
