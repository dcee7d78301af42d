--------------------------- MODULE MCClientStores ---------------------------
(* The stores and the parts around them on small sets.                      *)
EXTENDS ClientStores

MCTunnelCalls == <<"run", "rerun">>
MCHosted == [b1 |-> "a", b2 |-> "b"]
=============================================================================
