---------------------------- MODULE MCManualMail ----------------------------
(* ManualMail with two requests that have callbacks and two of needServer's, one *)
(* attempt after the other.                                                      *)
EXTENDS ManualMail

CONSTANTS a1, a2, b1, b2

MCTwoAsync == {a1, a2}
MCTwoBlocking == {b1, b2}
=============================================================================
