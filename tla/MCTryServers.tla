---------------------------- MODULE MCTryServers ----------------------------
(* TryServers on lists of up to three servers, each either failed recently or *)
(* not. The directory server hands out a new server, or one already known.    *)
EXTENDS TryServers

CONSTANTS a, b, c

MCAddresses == {a, b, c}

\* A sort may produce any order, so one list of each length is enough.
MCUpToTwo == {<<>>, <<a>>, <<a, b>>}
MCUpToOne == {<<>>, <<a>>}
MCTwo == {<<a, b>>}

MCNew == {a, c}
MCNone == {}
=============================================================================
