--------------------------- MODULE MCServerStore ---------------------------
(* Two Salmon servers, of which s1 is also handed out as a VPN Gate server and *)
(* s2 comes with the account; s1's address occurs in s2's, as 10.0.0.1 does in *)
(* 10.0.0.17.                                                                  *)
EXTENDS ServerStore

CONSTANTS s1, s2

MCServers == {s1, s2}
MCAccount == {s2}
MCGates == {s1}
MCContains == [a \in MCServers |-> IF a = s1 THEN {s1, s2} ELSE {a}]
MCDistinct == [a \in MCServers |-> {a}]
=============================================================================
