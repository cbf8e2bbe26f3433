----------------------------- MODULE HttpsProbe -----------------------------
(***************************************************************************)
(* One dial: connectToVPNServer (control_softether.cpp) polls SoftEther's  *)
(* adapter while httpsCheckerThread asks the same server for a page. The   *)
(* two threads share one HTTPSArgPasser object on the heap. Its mutex      *)
(* okToDelete starts out owned by the caller; the checker deletes the      *)
(* object once it gets the mutex or has waited for it long enough.         *)
(*                                                                         *)
(* Time passes in ticks. A round of the caller's loop and its hanging up   *)
(* take at most RoundMax and HangupMax of them, the checker's wait and nap *)
(* at least WaitMax and Nap; the page may take any time.                   *)
(***************************************************************************)
EXTENDS Naturals

CONSTANTS
  Checks,     \* rounds of the loop: 80
  RoundMax,   \* one round: Sleep(100) and checkConnection()
  HangupMax,  \* accountdisconnect, Sleep(10) and what follows
  WaitMax,    \* the checker's timeout: 30 s
  Nap         \* its Sleep before the deletion: 1 s

ASSUME TimesAssumption == /\ Checks \in Nat /\ RoundMax \in Nat /\ HangupMax \in Nat
                          /\ WaitMax \in Nat /\ Nap \in Nat

VARIABLES
  vpnGate,     \* theServer.vpnGate: such a server is dialled without a probe
  callerPc,    \* where connectToVPNServer is
  connChecks,  \* rounds completed
  status,      \* what it returns
  checkerPc,   \* where httpsCheckerThread is; "gone": the object is deleted
  theResult,   \* theResult of the object
  sawLink,     \* history: checkConnection() has returned true
  callerAge,   \* ticks that the caller has been using the object, up to AgeMax
  stepAge,     \* ticks the caller has spent in its round, or hanging up
  checkerAge   \* ticks the checker has waited, or napped, up to the limit

ages == <<callerAge, stepAge, checkerAge>>
vars == <<vpnGate, callerPc, connChecks, status, checkerPc, theResult, sawLink, ages>>

----------------------------------------------------------------------------

Looping == {"test", "sleep", "won"}
HangingUp == {"hangup", "verdict", "release"}

\* The caller still has to look at the object or to release its mutex.
UsesObject == ~vpnGate /\ callerPc \in Looping \cup HangingUp

\* The soonest the object can be deleted while the caller still uses it.
AgeMax == WaitMax + Nap

AtMost(n, limit) == IF n < limit THEN n ELSE limit

Init == /\ vpnGate \in BOOLEAN
        /\ callerPc = "accountconnect"
        /\ connChecks = 0
        /\ status = "none"
        /\ checkerPc = "none"
        /\ theResult = "Unfinished"
        /\ sawLink = FALSE
        /\ callerAge = 0
        /\ stepAge = 0
        /\ checkerAge = 0

CallerGoto(from, to) == /\ callerPc = from
                        /\ callerPc' = to

Return(from, answer) == /\ CallerGoto(from, "returned")
                        /\ status' = answer

----------------------------------------------------------------------------
(* connectToVPNServer *)

\* "VPN Connection Setting does not exist."
NoSetting == /\ Return("accountconnect", "CLIENT_ERROR")
             /\ UNCHANGED <<vpnGate, connChecks, checkerPc, theResult, sawLink, ages>>

\* A Salmon server gets the object and the thread.
Begin == /\ CallerGoto("accountconnect", "test")
         /\ checkerPc' = IF vpnGate THEN "none" ELSE "probe"
         /\ UNCHANGED <<vpnGate, connChecks, status, theResult, sawLink, ages>>

\* Mutant: one round more than there are.
KeepPollingOnceMore == /\ CallerGoto("test", "sleep")
                       /\ theResult # "Failed"
                       /\ connChecks <= Checks
                       /\ UNCHANGED <<vpnGate, connChecks, status, checkerPc, theResult,
                                      sawLink, ages>>

\* The condition of the for loop ...
KeepPolling == /\ CallerGoto("test", "sleep")
               /\ theResult # "Failed"
               /\ connChecks < Checks
               /\ UNCHANGED <<vpnGate, connChecks, status, checkerPc, theResult,
                              sawLink, ages>>

StopPolling == /\ CallerGoto("test", "hangup")
               /\ theResult = "Failed" \/ connChecks >= Checks
               /\ stepAge' = 0
               /\ UNCHANGED <<vpnGate, connChecks, status, checkerPc, theResult,
                              sawLink, callerAge, checkerAge>>

\* ... its body: Sleep(100), and checkConnection() says no ...
NotYet == /\ CallerGoto("sleep", "test")
          /\ connChecks' = connChecks + 1
          /\ stepAge' = 0
          /\ UNCHANGED <<vpnGate, status, checkerPc, theResult, sawLink, callerAge,
                         checkerAge>>

\* ... or yes.
LinkSeen == /\ CallerGoto("sleep", "won")
            /\ sawLink' = TRUE
            /\ UNCHANGED <<vpnGate, connChecks, status, checkerPc, theResult, ages>>

\* The mutex is released; the object is not touched any more.
ReturnSuccess == /\ Return("won", "SUCCESS")
                 /\ UNCHANGED <<vpnGate, connChecks, checkerPc, theResult, sawLink, ages>>

\* accountdisconnect and Sleep(10)
HangUp == /\ CallerGoto("hangup", "verdict")
          /\ UNCHANGED <<vpnGate, connChecks, status, checkerPc, theResult, sawLink,
                         ages>>

\* Mutant: only a failed probe makes a server offline.
VerdictByFailure ==
  /\ CallerGoto("verdict", "release")
  /\ status' = IF theResult = "Failed" \/ vpnGate THEN "OFFLINE" ELSE "ERROR"
  /\ UNCHANGED <<vpnGate, connChecks, checkerPc, theResult, sawLink, ages>>

\* theResult is read: unfinished counts as failed.
Verdict == /\ CallerGoto("verdict", "release")
           /\ status' = IF ~vpnGate /\ theResult = "Succeeded" THEN "ERROR" ELSE "OFFLINE"
           /\ UNCHANGED <<vpnGate, connChecks, checkerPc, theResult, sawLink, ages>>

ReturnFailure == /\ CallerGoto("release", "returned")
                 /\ UNCHANGED <<vpnGate, connChecks, status, checkerPc, theResult,
                                sawLink, ages>>

----------------------------------------------------------------------------
(* httpsCheckerThread *)

\* checkSoftEtherHTTPS, and its answer
Probed(answer) == /\ checkerPc = "probe"
                  /\ checkerPc' = "wait"
                  /\ theResult' = answer
                  /\ UNCHANGED <<vpnGate, callerPc, connChecks, status, sawLink, ages>>

\* Mutant: the checker does not wait for the caller.
StopWaitingAtOnce ==
  /\ checkerPc = "wait"
  /\ checkerPc' = "nap"
  /\ checkerAge' = 0
  /\ UNCHANGED <<vpnGate, callerPc, connChecks, status, theResult, sawLink, callerAge,
                 stepAge>>

\* WaitForSingleObject(okToDelete, 30 * 1000): the caller has released it, or
\* the time is up. The result of the wait is not looked at.
StopWaiting == /\ checkerPc = "wait"
               /\ ~UsesObject \/ checkerAge >= WaitMax
               /\ checkerPc' = "nap"
               /\ checkerAge' = 0
               /\ UNCHANGED <<vpnGate, callerPc, connChecks, status, theResult, sawLink,
                              callerAge, stepAge>>

\* Mutant: the object of a successful probe is left to the caller.
DeleteIfFailed == /\ checkerPc = "nap"
                  /\ checkerAge >= Nap
                  /\ theResult = "Failed"
                  /\ checkerPc' = "gone"
                  /\ UNCHANGED <<vpnGate, callerPc, connChecks, status, theResult,
                                 sawLink, ages>>

\* Sleep(1000); delete storeResult
Delete == /\ checkerPc = "nap"
          /\ checkerAge >= Nap
          /\ checkerPc' = "gone"
          /\ UNCHANGED <<vpnGate, callerPc, connChecks, status, theResult, sawLink, ages>>

----------------------------------------------------------------------------
(* Time *)

CallerInTime == /\ callerPc \in Looping => stepAge < RoundMax
                /\ callerPc \in HangingUp => stepAge < HangupMax

Tick == /\ CallerInTime
        /\ IF UsesObject
           THEN callerAge' = AtMost(callerAge + 1, AgeMax) /\ stepAge' = stepAge + 1
           ELSE UNCHANGED <<callerAge, stepAge>>
        /\ checkerAge' = CASE checkerPc = "wait" -> AtMost(checkerAge + 1, WaitMax)
                           [] checkerPc = "nap"  -> AtMost(checkerAge + 1, Nap)
                           [] OTHER              -> checkerAge
        /\ UNCHANGED <<vpnGate, callerPc, connChecks, status, checkerPc, theResult,
                       sawLink>>

Caller == \/ NoSetting \/ Begin \/ KeepPolling \/ StopPolling \/ NotYet \/ LinkSeen
          \/ ReturnSuccess \/ HangUp \/ Verdict \/ ReturnFailure

Checker == \/ \E answer \in {"Succeeded", "Failed"} : Probed(answer)
           \/ StopWaiting \/ Delete

Done == callerPc = "returned" /\ checkerPc \in {"none", "gone"} /\ UNCHANGED vars

Next == Caller \/ Checker \/ Tick \/ Done

Spec == Init /\ [][Next]_vars

\* Both threads run, the page is fetched or given up, and time passes.
FairSpec == Spec /\ WF_vars(Caller) /\ WF_vars(Checker) /\ WF_vars(Tick)

----------------------------------------------------------------------------
(* Properties. *)

TypeOK ==
  /\ vpnGate \in BOOLEAN
  /\ callerPc \in {"accountconnect", "returned"} \cup Looping \cup HangingUp
  /\ connChecks \in 0..Checks
  /\ status \in {"none", "SUCCESS", "OFFLINE", "ERROR", "CLIENT_ERROR"}
  /\ checkerPc \in {"none", "probe", "wait", "nap", "gone"}
  /\ theResult \in {"Unfinished", "Succeeded", "Failed"}
  /\ sawLink \in BOOLEAN
  /\ callerAge \in 0..AgeMax
  /\ stepAge \in Nat
  /\ checkerAge \in Nat

\* The caller's time adds up to less than the checker's: the numbers behind
\* "no need to wait forever" (control_softether.cpp:485).
CallerIsQuick == (Checks + 1) * RoundMax + HangupMax < AgeMax

\* The object is not deleted under the caller, which reads its result and
\* releases its mutex: true if CallerIsQuick.
NoUseAfterDelete == UsesObject => checkerPc # "gone"

\* ERROR, which the directory server is told as "your server is up but does not
\* let me in", needs a page from a Salmon server and no connection; and success
\* is reported when and only when the adapter has a gateway.
StatusTruthful ==
  /\ status = "ERROR" => ~vpnGate /\ theResult = "Succeeded"
  /\ callerPc = "returned" => (status = "SUCCESS" <=> sawLink)

\* The dial returns, and its object is deleted.
DialEnds == <>(callerPc = "returned" /\ checkerPc \in {"none", "gone"})
=============================================================================
