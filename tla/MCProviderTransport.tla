------------------------- MODULE MCProviderTransport -------------------------
(* Values for the model checker.                                            *)
EXTENDS ProviderTransport

CONSTANTS e1, e2, s1, i1, i2
=============================================================================
