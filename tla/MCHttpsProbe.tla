---------------------------- MODULE MCHttpsProbe ----------------------------
(* HttpsProbe with times that just fit: 4 rounds and the last test of 3 ticks *)
(* each and 2 for hanging up make 17, and the object lives for 15 + 3.        *)
EXTENDS HttpsProbe

ASSUME CallerIsQuick
=============================================================================
