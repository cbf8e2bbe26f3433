------------------------------- MODULE Sweep -------------------------------
(***************************************************************************)
(* What one pass over the known servers promises, whatever the order in    *)
(* which it takes them and however it finds out about each: every server   *)
(* is disposed of once, the sweep fails only when none is left, and a      *)
(* server that connected is never among those reported as failing. All of  *)
(* this only as long as nobody reorders the list under the sweep.          *)
(***************************************************************************)
CONSTANT Addresses

VARIABLES todo,      \* servers not disposed of
          reported,  \* servers the directory server is to be told about
          result     \* "trying", "connected", "failed", "gaveUp", "disturbed"

sweepVars == <<todo, reported, result>>

SweepInit == /\ todo \subseteq Addresses
             /\ reported = {}
             /\ result = IF todo = {} THEN "failed" ELSE "trying"

\* s did not connect; whether that is worth a report is for the sweep to say.
Dispose(s) == /\ result = "trying"
              /\ todo' = todo \ {s}
              /\ reported' \in {reported, reported \cup {s}}
              /\ UNCHANGED result

Connect(s) == /\ result = "trying"
              /\ result' = "connected"
              /\ UNCHANGED <<todo, reported>>

\* The user cancels, or the internet is in doubt.
GiveUp == /\ result = "trying"
          /\ result' = "gaveUp"
          /\ UNCHANGED <<todo, reported>>

Fail == /\ result = "trying"
        /\ todo = {}
        /\ result' = "failed"
        /\ UNCHANGED <<todo, reported>>

\* The next sweep starts from nothing.
Again == /\ result = "failed"
         /\ todo' \in (SUBSET Addresses) \ {{}}
         /\ reported' = {}
         /\ result' = "trying"

\* Another thread sorts the list: nothing more is promised.
Disturb == /\ todo' = {}
           /\ reported' = {}
           /\ result' = "disturbed"

SweepNext == \/ \E s \in todo : Dispose(s) \/ Connect(s)
             \/ GiveUp \/ Fail \/ Again \/ Disturb

SweepSpec == SweepInit /\ [][SweepNext]_sweepVars
=============================================================================
