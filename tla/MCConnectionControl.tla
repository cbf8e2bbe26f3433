------------------------ MODULE MCConnectionControl ------------------------
(* ConnectionControl on small instances: two attempt threads, two Salmon      *)
(* servers (one of which may be unknown to the client at first) and one VPN   *)
(* Gate server, or two: one more than a cancelled attempt may dial.           *)
EXTENDS ConnectionControl, TLC

CONSTANTS t1, t2, s1, s2, g1, g2

MCThreads == {t1, t2}
MCOneThread == {t1}
MCServers == {s1, s2}
MCGates == {g1}
MCTwoGates == {g1, g2}
MCOneServer == {s1}
MCNoGates == {}

\* The slots are interchangeable, and so are the Salmon servers.
Symmetry == Permutations(MCThreads) \cup Permutations(MCServers)
=============================================================================
