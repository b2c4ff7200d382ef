--------------------------- MODULE MCPaddockHost ---------------------------
(* Instances of PaddockHost for TLC: one exchange whose guest has a writer *)
(* for one key.                                                            *)
EXTENDS PaddockHost

CONSTANTS e1, w1, ka

OneExecution == {e1}
OneWriter == {w1}
AllOfOne == [w \in Writers |-> e1]
OneKey == {ka}
FullGrants == [k \in Keys |-> {"read", "write", "delete"}]
=============================================================================
