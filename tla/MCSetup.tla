------------------------------- MODULE MCSetup -------------------------------
(* An instance of Setup for TLC: the wallet k, and the venue V1.                *)
EXTENDS Setup

CONSTANTS k, V1

Empty == [a \in Accounts |-> 0]
TradeLists == {<<V1>>}
NoTransfers == {}
AllCreated == Accounts
=============================================================================
