-------------------------- MODULE HttpsProbeProofs --------------------------
(***************************************************************************)
(* Proofs about HttpsProbe, for any number of rounds and any times: what   *)
(* StatusTruthful says, and that the object outlives its use whenever the  *)
(* caller's time adds up to less than the checker's.                       *)
(***************************************************************************)
EXTENDS HttpsProbe, TLAPS

\* What is known at each place of the caller. The bounds on stepAge are what Tick
\* grants the code.
PhaseInv ==
  /\ vpnGate \/ callerPc = "accountconnect" => checkerPc = "none"
  /\ callerPc = "accountconnect" => connChecks = 0 /\ callerAge = 0 /\ stepAge = 0
  /\ checkerPc \in {"none", "probe"} => checkerAge = 0 /\ theResult = "Unfinished"
  /\ callerPc \in {"sleep", "won"} => connChecks < Checks
  /\ callerPc \in Looping => stepAge <= RoundMax
  /\ callerPc \in HangingUp => stepAge <= HangupMax

\* What is reported, and when: the answer is fixed after the last look.
StatusInv ==
  /\ callerPc \in Looping \cup {"accountconnect", "hangup", "verdict"} => status = "none"
  /\ callerPc = "release" => status \in {"OFFLINE", "ERROR"}
  /\ callerPc \notin {"won", "returned"} => ~sawLink
  /\ callerPc = "won" => sawLink
  /\ StatusTruthful

\* The caller's use of the object so far: whole rounds, and the one it is in.
CallerAgeInv ==
  /\ callerPc \in Looping => callerAge <= connChecks * RoundMax + stepAge
  /\ callerPc \in HangingUp => callerAge <= (Checks + 1) * RoundMax + stepAge

\* The checker, which starts after the caller, has not waited for longer than that.
CheckerAgeInv ==
  UsesObject => /\ checkerPc = "wait" => checkerAge <= callerAge
                /\ checkerPc = "nap" => WaitMax + checkerAge <= callerAge
                /\ checkerPc = "gone" => AgeMax <= callerAge

IInv == TypeOK /\ PhaseInv /\ StatusInv /\ CallerAgeInv /\ CheckerAgeInv

USE DEF ages, Looping, HangingUp

----------------------------------------------------------------------------

\* One round more is RoundMax more, and fewer rounds never take longer.
LEMMA RoundsAdd ==
  \A k \in 0..Checks : /\ (k + 1) * RoundMax = k * RoundMax + RoundMax
                       /\ k * RoundMax \in Nat
                       /\ k * RoundMax <= Checks * RoundMax
<1> TAKE k \in 0..Checks
<1>1. /\ k \in Nat /\ Checks \in Nat /\ RoundMax \in Nat
      /\ Checks - k \in Nat
  BY TimesAssumption
<1>2. (k + 1) * RoundMax = k * RoundMax + RoundMax
  BY <1>1
<1>3. k * RoundMax \in Nat /\ (Checks - k) * RoundMax \in Nat
  BY <1>1
<1>4. Checks * RoundMax = k * RoundMax + (Checks - k) * RoundMax
  BY <1>1
<1> QED
  BY <1>2, <1>3, <1>4

\* The invariant holds at the start.
LEMMA IInvInit == Init => IInv
<1> SUFFICES ASSUME Init PROVE IInv
  OBVIOUS
<1>1. TypeOK
  <2>1. AgeMax \in Nat /\ Checks \in Nat
    BY TimesAssumption DEF AgeMax
  <2>2. 0 \in 0..AgeMax /\ 0 \in 0..Checks /\ 0 \in Nat
    BY <2>1
  <2> QED
    BY <2>2 DEF Init, TypeOK
<1>2. PhaseInv /\ StatusInv
  BY DEF Init, PhaseInv, StatusInv, StatusTruthful
<1>3. CallerAgeInv /\ CheckerAgeInv
  BY DEF Init, CallerAgeInv, CheckerAgeInv, UsesObject
<1> QED
  BY <1>1, <1>2, <1>3 DEF IInv

\* Every step keeps it. Of the caller's steps, only NotYet and StopPolling change
\* the terms of its time; of the checker's, only StopWaiting and Delete.
LEMMA IInvStep == IInv /\ [Next]_vars => IInv'
<1> SUFFICES ASSUME IInv, [Next]_vars
             PROVE  IInv'
  OBVIOUS
<1>0. AgeMax \in Nat /\ AgeMax = WaitMax + Nap
  BY TimesAssumption DEF AgeMax
<1> USE <1>0, TimesAssumption DEF IInv
<1>1. CASE NoSetting
  <2>1. TypeOK'
    BY <1>1 DEF NoSetting, Return, CallerGoto, TypeOK, PhaseInv
  <2>2. PhaseInv'
    BY <1>1 DEF NoSetting, Return, CallerGoto, TypeOK, PhaseInv
  <2>3. StatusInv'
    BY <1>1 DEF NoSetting, Return, CallerGoto, TypeOK, PhaseInv, StatusInv, StatusTruthful
  <2>4. CallerAgeInv'
    BY <1>1 DEF NoSetting, Return, CallerGoto, TypeOK, PhaseInv, CallerAgeInv
  <2>5. CheckerAgeInv'
    BY <1>1 DEF NoSetting, Return, CallerGoto, TypeOK, PhaseInv, CheckerAgeInv, UsesObject
  <2> QED
    BY <2>1, <2>2, <2>3, <2>4, <2>5
<1>2. CASE Begin
  <2>1. TypeOK'
    BY <1>2 DEF Begin, CallerGoto, TypeOK, PhaseInv
  <2>2. PhaseInv'
    BY <1>2 DEF Begin, CallerGoto, TypeOK, PhaseInv
  <2>3. StatusInv'
    BY <1>2 DEF Begin, CallerGoto, TypeOK, PhaseInv, StatusInv, StatusTruthful
  <2>4. CallerAgeInv'
    BY <1>2 DEF Begin, CallerGoto, TypeOK, PhaseInv, CallerAgeInv
  <2>5. CheckerAgeInv'
    BY <1>2 DEF Begin, CallerGoto, TypeOK, PhaseInv, CheckerAgeInv, UsesObject
  <2> QED
    BY <2>1, <2>2, <2>3, <2>4, <2>5
<1>3. CASE KeepPolling
  <2>1. TypeOK'
    BY <1>3 DEF KeepPolling, CallerGoto, TypeOK, PhaseInv
  <2>2. PhaseInv'
    BY <1>3 DEF KeepPolling, CallerGoto, TypeOK, PhaseInv
  <2>3. StatusInv'
    BY <1>3 DEF KeepPolling, CallerGoto, TypeOK, PhaseInv, StatusInv, StatusTruthful
  <2>4. CallerAgeInv'
    BY <1>3, RoundsAdd DEF KeepPolling, CallerGoto, TypeOK, PhaseInv, CallerAgeInv
  <2>5. CheckerAgeInv'
    BY <1>3 DEF KeepPolling, CallerGoto, TypeOK, PhaseInv, CheckerAgeInv, UsesObject
  <2> QED
    BY <2>1, <2>2, <2>3, <2>4, <2>5
<1>4. CASE StopPolling
  <2>1. TypeOK'
    BY <1>4 DEF StopPolling, CallerGoto, TypeOK, PhaseInv
  <2>2. PhaseInv'
    BY <1>4 DEF StopPolling, CallerGoto, TypeOK, PhaseInv
  <2>3. StatusInv'
    BY <1>4 DEF StopPolling, CallerGoto, TypeOK, PhaseInv, StatusInv, StatusTruthful
  <2>4. CallerAgeInv'
    BY <1>4, RoundsAdd DEF StopPolling, CallerGoto, TypeOK, PhaseInv, CallerAgeInv
  <2>5. CheckerAgeInv'
    BY <1>4 DEF StopPolling, CallerGoto, TypeOK, PhaseInv, CheckerAgeInv, UsesObject
  <2> QED
    BY <2>1, <2>2, <2>3, <2>4, <2>5
<1>5. CASE NotYet
  <2>1. TypeOK'
    BY <1>5 DEF NotYet, CallerGoto, TypeOK, PhaseInv
  <2>2. PhaseInv'
    BY <1>5 DEF NotYet, CallerGoto, TypeOK, PhaseInv
  <2>3. StatusInv'
    BY <1>5 DEF NotYet, CallerGoto, TypeOK, PhaseInv, StatusInv, StatusTruthful
  <2>4. CallerAgeInv'
    BY <1>5, RoundsAdd DEF NotYet, CallerGoto, TypeOK, PhaseInv, CallerAgeInv
  <2>5. CheckerAgeInv'
    BY <1>5 DEF NotYet, CallerGoto, TypeOK, PhaseInv, CheckerAgeInv, UsesObject
  <2> QED
    BY <2>1, <2>2, <2>3, <2>4, <2>5
<1>6. CASE LinkSeen
  <2>1. TypeOK'
    BY <1>6 DEF LinkSeen, CallerGoto, TypeOK, PhaseInv
  <2>2. PhaseInv'
    BY <1>6 DEF LinkSeen, CallerGoto, TypeOK, PhaseInv
  <2>3. StatusInv'
    BY <1>6 DEF LinkSeen, CallerGoto, TypeOK, PhaseInv, StatusInv, StatusTruthful
  <2>4. CallerAgeInv'
    BY <1>6 DEF LinkSeen, CallerGoto, TypeOK, PhaseInv, CallerAgeInv
  <2>5. CheckerAgeInv'
    BY <1>6 DEF LinkSeen, CallerGoto, TypeOK, PhaseInv, CheckerAgeInv, UsesObject
  <2> QED
    BY <2>1, <2>2, <2>3, <2>4, <2>5
<1>7. CASE ReturnSuccess
  <2>1. TypeOK'
    BY <1>7 DEF ReturnSuccess, Return, CallerGoto, TypeOK, PhaseInv
  <2>2. PhaseInv'
    BY <1>7 DEF ReturnSuccess, Return, CallerGoto, TypeOK, PhaseInv
  <2>3. StatusInv'
    BY <1>7 DEF ReturnSuccess, Return, CallerGoto, TypeOK, PhaseInv, StatusInv, StatusTruthful
  <2>4. CallerAgeInv'
    BY <1>7 DEF ReturnSuccess, Return, CallerGoto, TypeOK, PhaseInv, CallerAgeInv
  <2>5. CheckerAgeInv'
    BY <1>7 DEF ReturnSuccess, Return, CallerGoto, TypeOK, PhaseInv, CheckerAgeInv, UsesObject
  <2> QED
    BY <2>1, <2>2, <2>3, <2>4, <2>5
<1>8. CASE HangUp
  <2>1. TypeOK'
    BY <1>8 DEF HangUp, CallerGoto, TypeOK, PhaseInv
  <2>2. PhaseInv'
    BY <1>8 DEF HangUp, CallerGoto, TypeOK, PhaseInv
  <2>3. StatusInv'
    BY <1>8 DEF HangUp, CallerGoto, TypeOK, PhaseInv, StatusInv, StatusTruthful
  <2>4. CallerAgeInv'
    BY <1>8 DEF HangUp, CallerGoto, TypeOK, PhaseInv, CallerAgeInv
  <2>5. CheckerAgeInv'
    BY <1>8 DEF HangUp, CallerGoto, TypeOK, PhaseInv, CheckerAgeInv, UsesObject
  <2> QED
    BY <2>1, <2>2, <2>3, <2>4, <2>5
<1>9. CASE Verdict
  <2>1. TypeOK'
    BY <1>9 DEF Verdict, CallerGoto, TypeOK, PhaseInv
  <2>2. PhaseInv'
    BY <1>9 DEF Verdict, CallerGoto, TypeOK, PhaseInv
  <2>3. StatusInv'
    BY <1>9 DEF Verdict, CallerGoto, TypeOK, PhaseInv, StatusInv, StatusTruthful
  <2>4. CallerAgeInv'
    BY <1>9 DEF Verdict, CallerGoto, TypeOK, PhaseInv, CallerAgeInv
  <2>5. CheckerAgeInv'
    BY <1>9 DEF Verdict, CallerGoto, TypeOK, PhaseInv, CheckerAgeInv, UsesObject
  <2> QED
    BY <2>1, <2>2, <2>3, <2>4, <2>5
<1>10. CASE ReturnFailure
  <2>1. TypeOK'
    BY <1>10 DEF ReturnFailure, CallerGoto, TypeOK, PhaseInv
  <2>2. PhaseInv'
    BY <1>10 DEF ReturnFailure, CallerGoto, TypeOK, PhaseInv
  <2>3. StatusInv'
    BY <1>10 DEF ReturnFailure, CallerGoto, TypeOK, PhaseInv, StatusInv, StatusTruthful
  <2>4. CallerAgeInv'
    BY <1>10 DEF ReturnFailure, CallerGoto, TypeOK, PhaseInv, CallerAgeInv
  <2>5. CheckerAgeInv'
    BY <1>10 DEF ReturnFailure, CallerGoto, TypeOK, PhaseInv, CheckerAgeInv, UsesObject
  <2> QED
    BY <2>1, <2>2, <2>3, <2>4, <2>5
<1>11. CASE \E answer \in {"Succeeded", "Failed"} : Probed(answer)
  <2>1. TypeOK'
    BY <1>11 DEF Probed, TypeOK, PhaseInv
  <2>2. PhaseInv'
    BY <1>11 DEF Probed, TypeOK, PhaseInv
  <2>3. StatusInv'
    BY <1>11 DEF Probed, TypeOK, PhaseInv, StatusInv, StatusTruthful
  <2>4. CallerAgeInv'
    BY <1>11 DEF Probed, TypeOK, PhaseInv, CallerAgeInv
  <2>5. CheckerAgeInv'
    BY <1>11 DEF Probed, TypeOK, PhaseInv, CheckerAgeInv, UsesObject
  <2> QED
    BY <2>1, <2>2, <2>3, <2>4, <2>5
<1>12. CASE StopWaiting
  <2>1. TypeOK'
    BY <1>12 DEF StopWaiting, TypeOK, PhaseInv, UsesObject
  <2>2. PhaseInv'
    BY <1>12 DEF StopWaiting, TypeOK, PhaseInv, UsesObject
  <2>3. StatusInv'
    BY <1>12 DEF StopWaiting, TypeOK, PhaseInv, StatusInv, StatusTruthful, UsesObject
  <2>4. CallerAgeInv'
    BY <1>12 DEF StopWaiting, TypeOK, PhaseInv, CallerAgeInv, UsesObject
  <2>5. CheckerAgeInv'
    BY <1>12 DEF StopWaiting, TypeOK, PhaseInv, CheckerAgeInv, UsesObject
  <2> QED
    BY <2>1, <2>2, <2>3, <2>4, <2>5
<1>13. CASE Delete
  <2>1. TypeOK'
    BY <1>13 DEF Delete, TypeOK, PhaseInv
  <2>2. PhaseInv'
    BY <1>13 DEF Delete, TypeOK, PhaseInv
  <2>3. StatusInv'
    BY <1>13 DEF Delete, TypeOK, PhaseInv, StatusInv, StatusTruthful
  <2>4. CallerAgeInv'
    BY <1>13 DEF Delete, TypeOK, PhaseInv, CallerAgeInv
  <2>5. CheckerAgeInv'
    BY <1>13 DEF Delete, TypeOK, PhaseInv, CheckerAgeInv, UsesObject
  <2> QED
    BY <2>1, <2>2, <2>3, <2>4, <2>5
<1>14. CASE Tick
  <2>1. TypeOK'
    BY <1>14 DEF Tick, CallerInTime, AtMost, TypeOK, PhaseInv, UsesObject
  <2>2. PhaseInv'
    BY <1>14 DEF Tick, CallerInTime, AtMost, TypeOK, PhaseInv, UsesObject
  <2>3. StatusInv'
    BY <1>14
    DEF Tick, CallerInTime, AtMost, TypeOK, PhaseInv, StatusInv, StatusTruthful,
        UsesObject
  <2>4. CallerAgeInv'
    BY <1>14, RoundsAdd
    DEF Tick, CallerInTime, AtMost, TypeOK, PhaseInv, CallerAgeInv, UsesObject
  <2>5. CheckerAgeInv'
    BY <1>14 DEF Tick, CallerInTime, AtMost, TypeOK, PhaseInv, CheckerAgeInv, UsesObject
  <2> QED
    BY <2>1, <2>2, <2>3, <2>4, <2>5
<1>15. CASE UNCHANGED vars
  BY <1>15
  DEF vars, TypeOK, PhaseInv, StatusInv, StatusTruthful, CallerAgeInv, CheckerAgeInv,
      UsesObject
<1> QED
  BY <1>1, <1>2, <1>3, <1>4, <1>5, <1>6, <1>7, <1>8, <1>9, <1>10, <1>11, <1>12, <1>13,
     <1>14, <1>15
  DEF Next, Caller, Checker, Done

\* Both threads' places and times stay in step.
LEMMA Invariance == Spec => []IInv
BY IInvInit, IInvStep, PTL DEF Spec

----------------------------------------------------------------------------

\* The rounds and ages of connectToVPNServer and httpsCheckerThread stay within their
\* bounds: the checker never waits for longer than its timeout and its nap, whatever
\* the caller does.
THEOREM Typing == Spec => []TypeOK
<1>1. IInv => TypeOK
  BY DEF IInv
<1> QED
  BY <1>1, Invariance, PTL

\* A dial reports what was observed: ERROR, "your server is up but does not let me
\* in", only of a Salmon server that served its page, and success when and only
\* when checkConnection() saw the adapter's gateway.
THEOREM Truthful == Spec => []StatusTruthful
<1>1. IInv => StatusTruthful
  BY DEF IInv, StatusInv
<1> QED
  BY <1>1, Invariance, PTL

\* connectToVPNServer never reads, and never releases the mutex of, an object that
\* httpsCheckerThread has deleted, provided its rounds and its hanging up together
\* take less than the checker's timeout and nap.
THEOREM ObjectOutlivesUse == CallerIsQuick => (Spec => []NoUseAfterDelete)
<1> SUFFICES ASSUME CallerIsQuick
             PROVE  Spec => []NoUseAfterDelete
  OBVIOUS
<1>1. IInv => NoUseAfterDelete
  <2> SUFFICES ASSUME IInv, UsesObject, checkerPc = "gone"
               PROVE  FALSE
    BY DEF NoUseAfterDelete
  <2>1. AgeMax <= callerAge
    BY DEF IInv, CheckerAgeInv
  <2>2. callerAge <= (Checks + 1) * RoundMax + HangupMax
    <3>1. /\ connChecks \in 0..Checks
          /\ callerAge \in Nat /\ stepAge \in Nat
          /\ AgeMax \in Nat
      BY TimesAssumption DEF IInv, TypeOK, AgeMax
    <3>2. (Checks + 1) * RoundMax = Checks * RoundMax + RoundMax
      BY RoundsAdd, TimesAssumption
    <3>3. CASE callerPc \in Looping
      <4>1. callerAge <= connChecks * RoundMax + stepAge /\ stepAge <= RoundMax
        BY <3>3 DEF IInv, CallerAgeInv, PhaseInv
      <4>2. /\ connChecks * RoundMax <= Checks * RoundMax
            /\ connChecks * RoundMax \in Nat /\ Checks * RoundMax \in Nat
        BY <3>1, RoundsAdd, TimesAssumption
      <4> QED
        BY <3>1, <3>2, <4>1, <4>2, TimesAssumption
    <3>4. CASE callerPc \in HangingUp
      BY <3>1, <3>4, TimesAssumption DEF IInv, CallerAgeInv, PhaseInv
    <3> QED
      BY <3>3, <3>4 DEF UsesObject
  <2> QED
    BY <2>1, <2>2, TimesAssumption DEF IInv, TypeOK, AgeMax, CallerIsQuick
<1> QED
  BY <1>1, Invariance, PTL
=============================================================================
