---------------------------- MODULE DirMailProofs ----------------------------
(***************************************************************************)
(* Proofs about DirMail, for any number of requests, looks and other       *)
(* mails.                                                                  *)
(***************************************************************************)
EXTENDS DirMail, TLAPS

\* How far a receiver is tells what it has and what its callback is told.
Progress ==
  \A r \in Requests :
    /\ received[r] => pc[r] \notin {"off", "lock", "look"}
    /\ pc[r] = "deliver" => received[r]
    /\ outcome[r] = "none" <=> pc[r] \in Undecided \cup {"off"}
    /\ outcome[r] = "SUCCESS" => received[r]

\* The case that CancelIsMeant leaves open.
CancelledTooLate == \E q \in cancelled : received[q] \/ outcome[q] = "FAIL"

\* Until a cancellation comes too late: the flag is up only while the receiver in the
\* inbox is one that was cancelled, with nobody else on the way to its callback and the
\* window hidden; and the window is shown only while there is somebody to be cancelled.
FlagIsMeant ==
  /\ \A r \in Requests : outcome[r] = "CANCEL" => r \in cancelled
  /\ cancelRecvFlag =>
       /\ ~waitingShown
       /\ \E h \in cancelled : pc[h] \in InMailbox
       /\ \A r \in Requests : pc[r] # "deliver"
  /\ waitingShown => \E h \in Requests :
                       \/ pc[h] \in InMailbox \cup {"deliver"}
                       \/ pc[h] = "callback" /\ outcome[h] # "CANCEL"

CancelInv == CancelledTooLate \/ FlagIsMeant

MailInv == TypeOK /\ OneReceiver /\ Progress

\* The groups of unchanged variables, opened in every step below.
USE DEF gui, receiver, mail, history

----------------------------------------------------------------------------

\* The variables keep to their values, the owner of the mutex is the receiver in the
\* inbox, and no receiver has a reply it has not taken.
LEMMA MailInvInit == Init => MailInv
<1> SUFFICES ASSUME Init
             PROVE  MailInv
  OBVIOUS
<1>1. TypeOK
  <2> USE MailBounds DEF Init, Undecided, InMailbox
  <2>1. /\ pc \in [Requests -> Undecided \cup {"off", "callback", "enable", "reset", "done"}]
        /\ outcome \in [Requests -> {"none", "SUCCESS", "CANCEL", "FAIL"}]
    OBVIOUS
  <2>2. looks \in [Requests -> 0..Looks] /\ received \in [Requests -> BOOLEAN]
    OBVIOUS
  <2>3. buttonsOn \in BOOLEAN /\ waitingShown \in BOOLEAN /\ cancelRecvFlag \in BOOLEAN
    OBVIOUS
  <2>4. /\ inbox \subseteq [no : Nat, id : Requests \cup {Other}]
        /\ arrived \in Nat /\ others \in 0..MaxOther
    OBVIOUS
  <2> QED
    BY <2>1, <2>2, <2>3, <2>4 DEF TypeOK
<1>2. OneReceiver /\ Progress
  BY RequestsAssumption DEF Init, OneReceiver, Progress, Undecided, InMailbox
<1> QED
  BY <1>1, <1>2 DEF MailInv

\* Every step keeps to them.
LEMMA MailInvStep == MailInv /\ [Next]_vars => MailInv'
<1> SUFFICES ASSUME MailInv, [Next]_vars
             PROVE  MailInv'
  OBVIOUS
<1> USE RequestsAssumption, MailBounds
    DEF MailInv, TypeOK, OneReceiver, Progress, Undecided, InMailbox
<1>1. CASE UNCHANGED vars
  BY <1>1 DEF vars
<1>2. ASSUME NEW r \in Requests, ClickSend(r)
      PROVE  MailInv'
  BY <1>2 DEF ClickSend, SendMessageToDirServ, Request
<1>3. ASSUME NEW r \in Requests, SendBlocking(r)
      PROVE  MailInv'
  BY <1>3 DEF SendBlocking, Request
<1>4. ASSUME NEW r \in Requests, Acquire(r)
      PROVE  MailInv'
  BY <1>4 DEF Acquire
<1>5. ASSUME NEW r \in Requests, Look(r)
      PROVE  MailInv'
  BY <1>5 DEF Look, Waits, TimeLeft
<1>6. ASSUME NEW r \in Requests, GotReply(r)
      PROVE  MailInv'
  BY <1>6 DEF GotReply
<1>7. ASSUME NEW r \in Requests, Deliver(r)
      PROVE  MailInv'
  BY <1>7 DEF Deliver, Conclude
<1>8. ASSUME NEW r \in Requests, StopCancelled(r)
      PROVE  MailInv'
  BY <1>8 DEF StopCancelled, Conclude, FlagHolders
<1>9. ASSUME NEW r \in Requests, LookAgain(r)
      PROVE  MailInv'
  BY <1>9 DEF LookAgain
<1>10. ASSUME NEW r \in Requests, TimeOut(r)
      PROVE  MailInv'
  BY <1>10 DEF TimeOut, Conclude
<1>11. ASSUME NEW r \in Requests, Callback(r)
      PROVE  MailInv'
  BY <1>11 DEF Callback, Waiting
<1>12. ASSUME NEW r \in Requests, NEW q \in Requests, CallbackSends(r, q)
      PROVE  MailInv'
  <2> USE <1>12 DEF CallbackSends, SendMessageToDirServ, Request, Waiting
  <2>1. TypeOK'
    <3>1. pc' \in [Requests -> Undecided \cup {"off", "callback", "enable", "reset", "done"}]
      OBVIOUS
    <3>2. buttonsOn' \in BOOLEAN
      OBVIOUS
    <3>3. /\ disturbed' \subseteq Requests /\ unsent' \subseteq Requests
          /\ unanswered' \subseteq Requests
      OBVIOUS
    <3> QED
      BY <3>1, <3>2, <3>3
  <2>2. OneReceiver'
    OBVIOUS
  <2>3. Progress'
    OBVIOUS
  <2> QED
    BY <2>1, <2>2, <2>3
<1>13. ASSUME NEW r \in Requests, EnableButtons(r)
      PROVE  MailInv'
  BY <1>13 DEF EnableButtons, Waiting
<1>14. ASSUME NEW r \in Requests, ResetFlag(r)
      PROVE  MailInv'
  BY <1>14 DEF ResetFlag, FlagHolders
<1>15. ASSUME NEW r \in Requests, ReplyArrives(r)
      PROVE  MailInv'
  BY <1>15 DEF ReplyArrives, NewMail
<1>16. CASE ClickCancelWaiting
  BY <1>16 DEF ClickCancelWaiting
<1>17. CASE OtherArrives
  BY <1>17 DEF OtherArrives, NewMail
<1> QED
  BY <1>1, <1>2, <1>3, <1>4, <1>5, <1>6, <1>7, <1>8, <1>9,
     <1>10, <1>11, <1>12, <1>13, <1>14, <1>15, <1>16, <1>17
  DEF Next, Receive, AllDone

\* So they hold in every reachable state.
LEMMA MailInvAlways == Spec => []MailInv
  BY MailInvInit, MailInvStep, PTL DEF Spec

\* The variables keep to their types, for any number of requests: a receiver looks no
\* more than Looks times, and only mails that were numbered are in the inbox.
THEOREM Typing == Spec => []TypeOK
<1>1. MailInv => TypeOK
  BY DEF MailInv
<1> QED
  BY <1>1, MailInvAlways, PTL

\* One receiver at a time is in the inbox, the one that owns recvThreadMutex, for any
\* number of requests.
THEOREM OneReceiverAtATime == Spec => []OneReceiver
<1>1. MailInv => OneReceiver
  BY DEF MailInv
<1> QED
  BY <1>1, MailInvAlways, PTL

----------------------------------------------------------------------------

\* A cancellation that came too late stays so: what a receiver has when it leaves the
\* inbox, and what its callback is told, do not change any more.
LEMMA TooLateForGood ==
  ASSUME MailInv, MailInv', [Next]_vars, CancelledTooLate
  PROVE  CancelledTooLate'
<1>1. PICK q \in cancelled : received[q] \/ outcome[q] = "FAIL"
  BY DEF CancelledTooLate
<1>2. cancelled \subseteq cancelled' /\ q \in Requests
  <2>1. cancelled \subseteq cancelled'
    BY DEF Next, vars, Receive, AllDone, ClickSend, SendBlocking, SendMessageToDirServ,
           Request, Acquire, Look, GotReply, Deliver, StopCancelled, LookAgain,
           TimeOut, Conclude, Callback, CallbackSends, EnableButtons, ResetFlag,
           ReplyArrives, ClickCancelWaiting, OtherArrives
  <2> QED
    BY <2>1, <1>1 DEF MailInv, TypeOK
<1>3. received[q] => received'[q]
  <2>1. CASE \E r \in Requests : Look(r)
    BY <2>1, <1>2 DEF Look, MailInv, TypeOK, Progress
  <2>2. CASE ~ \E r \in Requests : Look(r)
    <3>1. received' = received
      BY <2>2
      DEF Next, vars, Receive, AllDone, ClickSend, SendBlocking, SendMessageToDirServ,
          Request, Acquire, GotReply, Deliver, StopCancelled, LookAgain,
          TimeOut, Conclude, Callback, CallbackSends, EnableButtons, ResetFlag,
          ReplyArrives, ClickCancelWaiting, OtherArrives
    <3> QED
      BY <3>1
  <2> QED
    BY <2>1, <2>2
<1>4. outcome[q] = "FAIL" => outcome'[q] = "FAIL"
  <2>1. CASE \E r \in Requests : Deliver(r) \/ StopCancelled(r) \/ TimeOut(r)
    BY <2>1, <1>2
    DEF Deliver, StopCancelled, TimeOut, Conclude, MailInv, TypeOK, Progress,
        Undecided, InMailbox
  <2>2. CASE ~ \E r \in Requests : Deliver(r) \/ StopCancelled(r) \/ TimeOut(r)
    <3>1. outcome' = outcome
      BY <2>2
      DEF Next, vars, Receive, AllDone, ClickSend, SendBlocking, SendMessageToDirServ,
          Request, Acquire, Look, GotReply, LookAgain, Callback, CallbackSends,
          EnableButtons, ResetFlag, ReplyArrives, ClickCancelWaiting, OtherArrives
    <3> QED
      BY <3>1
  <2> QED
    BY <2>1, <2>2
<1> QED
  BY <1>1, <1>2, <1>3, <1>4 DEF CancelledTooLate

\* Until then, no step lets the flag reach a request that was not cancelled.
LEMMA FlagStaysMeant ==
  ASSUME MailInv, MailInv', [Next]_vars, FlagIsMeant, ~CancelledTooLate'
  PROVE  FlagIsMeant'
<1> USE DEF MailInv, TypeOK, OneReceiver, Progress, FlagIsMeant, Undecided, InMailbox
<1>1. CASE UNCHANGED vars
  BY <1>1 DEF vars
<1>2. ASSUME NEW r \in Requests, ClickSend(r)
      PROVE  FlagIsMeant'
  BY <1>2, RequestsAssumption DEF ClickSend, SendMessageToDirServ, Request
<1>3. ASSUME NEW r \in Requests, SendBlocking(r)
      PROVE  FlagIsMeant'
  BY <1>3, RequestsAssumption DEF SendBlocking, Request
<1>4. ASSUME NEW r \in Requests, Acquire(r)
      PROVE  FlagIsMeant'
  BY <1>4, RequestsAssumption DEF Acquire
<1>5. ASSUME NEW r \in Requests, Look(r)
      PROVE  FlagIsMeant'
  BY <1>5, RequestsAssumption DEF Look, Waits
<1>6. ASSUME NEW r \in Requests, GotReply(r)
      PROVE  FlagIsMeant'
  BY <1>6, RequestsAssumption DEF GotReply, CancelledTooLate
<1>7. ASSUME NEW r \in Requests, Deliver(r)
      PROVE  FlagIsMeant'
  BY <1>7, RequestsAssumption DEF Deliver, Conclude
<1>8. ASSUME NEW r \in Requests, StopCancelled(r)
      PROVE  FlagIsMeant'
  BY <1>8, RequestsAssumption DEF StopCancelled, Conclude
<1>9. ASSUME NEW r \in Requests, LookAgain(r)
      PROVE  FlagIsMeant'
  BY <1>9, RequestsAssumption DEF LookAgain
<1>10. ASSUME NEW r \in Requests, TimeOut(r)
      PROVE  FlagIsMeant'
  BY <1>10, RequestsAssumption DEF TimeOut, Conclude, CancelledTooLate
<1>11. ASSUME NEW r \in Requests, Callback(r)
      PROVE  FlagIsMeant'
  BY <1>11, RequestsAssumption DEF Callback
<1>12. ASSUME NEW r \in Requests, NEW q \in Requests, CallbackSends(r, q)
      PROVE  FlagIsMeant'
  BY <1>12, RequestsAssumption DEF CallbackSends, SendMessageToDirServ, Request
<1>13. ASSUME NEW r \in Requests, EnableButtons(r)
      PROVE  FlagIsMeant'
  BY <1>13, RequestsAssumption DEF EnableButtons
<1>14. ASSUME NEW r \in Requests, ResetFlag(r)
      PROVE  FlagIsMeant'
  BY <1>14, RequestsAssumption DEF ResetFlag
<1>15. ASSUME NEW r \in Requests, ReplyArrives(r)
      PROVE  FlagIsMeant'
  BY <1>15, RequestsAssumption DEF ReplyArrives
<1>16. CASE ClickCancelWaiting
  BY <1>16, RequestsAssumption DEF ClickCancelWaiting, CancelledTooLate
<1>17. CASE OtherArrives
  BY <1>17, RequestsAssumption DEF OtherArrives
<1> QED
  BY <1>1, <1>2, <1>3, <1>4, <1>5, <1>6, <1>7, <1>8, <1>9,
     <1>10, <1>11, <1>12, <1>13, <1>14, <1>15, <1>16, <1>17
  DEF Next, Receive, AllDone

\* A callback is told of a cancellation only if the user has cancelled, for any number
\* of requests. CancelIsMeant alone is not inductive: it does not say whose the flag is.
THEOREM CancelMeansCancel == Spec => []CancelIsMeant
<1>1. Init => CancelInv
  BY DEF Init, CancelInv, FlagIsMeant
<1>2. MailInv /\ MailInv' /\ CancelInv /\ [Next]_vars => CancelInv'
  BY TooLateForGood, FlagStaysMeant DEF CancelInv
<1>3. CancelInv => CancelIsMeant
  BY DEF CancelInv, CancelledTooLate, FlagIsMeant, CancelIsMeant
<1> QED
  BY <1>1, <1>2, <1>3, MailInvAlways, PTL DEF Spec

----------------------------------------------------------------------------

\* Who has not been sent has no trace, and what could not be sent has no reply.
Traces ==
  /\ \A r \in Requests : pc[r] = "off" => r \notin unsent \cup cancelled \cup unanswered
  /\ unanswered \cap unsent = {}
  /\ \A m \in inbox : m.id \in Requests => m.id \notin unsent /\ pc[m.id] # "off"

\* A request that no other thread has interfered with: what it did to the buttons or the
\* flag is still so.
Undisturbed == Requests \ (blocking \cup disturbed)

\* Its sending disabled the buttons, unless it failed.
ButtonsHold == \A q \in Waiting \cap Undisturbed : q \in unsent \/ ~buttonsOn

\* So one of two that wait could not be sent.
OneWaits == \A q, r \in Waiting \cap Undisturbed : q # r => q \in unsent \/ r \in unsent

\* Its cancellation put up the flag.
FlagHolds == \A r \in cancelled : pc[r] \in Undecided => r \in disturbed \/ cancelRecvFlag

KeptInv == Traces /\ ButtonsHold /\ OneWaits /\ FlagHolds

\* Nothing is sent, cancelled or in the inbox yet.
LEMMA KeptInvInit == Init => KeptInv
  BY DEF Init, KeptInv, Traces, Waiting, Awaited, Undisturbed, ButtonsHold, OneWaits,
         FlagHolds, Undecided, InMailbox

\* A request leaves traces only once it is sent, and a mail comes into the inbox only from
\* one that was.
LEMMA TracesStep ==
  ASSUME MailInv, Traces, [Next]_vars
  PROVE  Traces'
<1> USE RequestsAssumption DEF MailInv, TypeOK, Traces, Undecided, InMailbox
<1>1. CASE UNCHANGED vars
  BY <1>1 DEF vars
<1>2. ASSUME NEW r \in Requests, ClickSend(r)
      PROVE  Traces'
  BY <1>2 DEF ClickSend, SendMessageToDirServ, Request
<1>3. ASSUME NEW r \in Requests, SendBlocking(r)
      PROVE  Traces'
  BY <1>3 DEF SendBlocking, Request
<1>4. ASSUME NEW r \in Requests, Acquire(r)
      PROVE  Traces'
  BY <1>4 DEF Acquire
<1>5. ASSUME NEW r \in Requests, Look(r)
      PROVE  Traces'
  BY <1>5 DEF Look, Examined
<1>6. ASSUME NEW r \in Requests, GotReply(r)
      PROVE  Traces'
  BY <1>6 DEF GotReply
<1>7. ASSUME NEW r \in Requests, Deliver(r)
      PROVE  Traces'
  BY <1>7 DEF Deliver, Conclude
<1>8. ASSUME NEW r \in Requests, StopCancelled(r)
      PROVE  Traces'
  BY <1>8 DEF StopCancelled, Conclude, FlagHolders
<1>9. ASSUME NEW r \in Requests, LookAgain(r)
      PROVE  Traces'
  BY <1>9 DEF LookAgain
<1>10. ASSUME NEW r \in Requests, TimeOut(r)
      PROVE  Traces'
  BY <1>10 DEF TimeOut, Conclude
<1>11. ASSUME NEW r \in Requests, Callback(r)
      PROVE  Traces'
  BY <1>11 DEF Callback
<1>12. ASSUME NEW r \in Requests, NEW q \in Requests, CallbackSends(r, q)
      PROVE  Traces'
  BY <1>12 DEF CallbackSends, SendMessageToDirServ, Request
<1>13. ASSUME NEW r \in Requests, EnableButtons(r)
      PROVE  Traces'
  BY <1>13 DEF EnableButtons
<1>14. ASSUME NEW r \in Requests, ResetFlag(r)
      PROVE  Traces'
  BY <1>14 DEF ResetFlag, FlagHolders
<1>15. ASSUME NEW r \in Requests, ReplyArrives(r)
      PROVE  Traces'
  BY <1>15 DEF ReplyArrives, NewMail
<1>16. CASE ClickCancelWaiting
  BY <1>16 DEF ClickCancelWaiting
<1>17. CASE OtherArrives
  BY <1>17 DEF OtherArrives, NewMail
<1> QED
  BY <1>1, <1>2, <1>3, <1>4, <1>5, <1>6, <1>7, <1>8, <1>9,
     <1>10, <1>11, <1>12, <1>13, <1>14, <1>15, <1>16, <1>17
  DEF Next, Receive, AllDone

\* Whoever enables the buttons while a request waits disturbs it.
LEMMA ButtonsHoldStep ==
  ASSUME MailInv, ButtonsHold, [Next]_vars
  PROVE  ButtonsHold'
<1> USE RequestsAssumption DEF MailInv, TypeOK, ButtonsHold, Waiting, Awaited, Undisturbed, Undecided, InMailbox
<1>1. CASE UNCHANGED vars
  BY <1>1 DEF vars
<1>2. ASSUME NEW r \in Requests, ClickSend(r)
      PROVE  ButtonsHold'
  BY <1>2 DEF ClickSend, SendMessageToDirServ, Request
<1>3. ASSUME NEW r \in Requests, SendBlocking(r)
      PROVE  ButtonsHold'
  BY <1>3 DEF SendBlocking, Request
<1>4. ASSUME NEW r \in Requests, Acquire(r)
      PROVE  ButtonsHold'
  BY <1>4 DEF Acquire
<1>5. ASSUME NEW r \in Requests, Look(r)
      PROVE  ButtonsHold'
  BY <1>5 DEF Look, Examined
<1>6. ASSUME NEW r \in Requests, GotReply(r)
      PROVE  ButtonsHold'
  BY <1>6 DEF GotReply
<1>7. ASSUME NEW r \in Requests, Deliver(r)
      PROVE  ButtonsHold'
  BY <1>7 DEF Deliver, Conclude
<1>8. ASSUME NEW r \in Requests, StopCancelled(r)
      PROVE  ButtonsHold'
  BY <1>8 DEF StopCancelled, Conclude, FlagHolders
<1>9. ASSUME NEW r \in Requests, LookAgain(r)
      PROVE  ButtonsHold'
  BY <1>9 DEF LookAgain
<1>10. ASSUME NEW r \in Requests, TimeOut(r)
      PROVE  ButtonsHold'
  BY <1>10 DEF TimeOut, Conclude
<1>11. ASSUME NEW r \in Requests, Callback(r)
      PROVE  ButtonsHold'
  BY <1>11 DEF Callback
<1>12. ASSUME NEW r \in Requests, NEW q \in Requests, CallbackSends(r, q)
      PROVE  ButtonsHold'
  BY <1>12 DEF CallbackSends, SendMessageToDirServ, Request
<1>13. ASSUME NEW r \in Requests, EnableButtons(r)
      PROVE  ButtonsHold'
  BY <1>13 DEF EnableButtons
<1>14. ASSUME NEW r \in Requests, ResetFlag(r)
      PROVE  ButtonsHold'
  BY <1>14 DEF ResetFlag, FlagHolders
<1>15. ASSUME NEW r \in Requests, ReplyArrives(r)
      PROVE  ButtonsHold'
  BY <1>15 DEF ReplyArrives, NewMail
<1>16. CASE ClickCancelWaiting
  BY <1>16 DEF ClickCancelWaiting
<1>17. CASE OtherArrives
  BY <1>17 DEF OtherArrives, NewMail
<1> QED
  BY <1>1, <1>2, <1>3, <1>4, <1>5, <1>6, <1>7, <1>8, <1>9,
     <1>10, <1>11, <1>12, <1>13, <1>14, <1>15, <1>16, <1>17
  DEF Next, Receive, AllDone

\* With the buttons disabled nothing more is sent, but by a thread that disturbs whoever
\* waits.
LEMMA OneWaitsStep ==
  ASSUME MailInv, ButtonsHold, OneWaits, [Next]_vars
  PROVE  OneWaits'
<1> USE RequestsAssumption DEF MailInv, TypeOK, ButtonsHold, OneWaits, Waiting, Awaited, Undisturbed, Undecided,
            InMailbox
<1>1. CASE UNCHANGED vars
  BY <1>1 DEF vars
<1>2. ASSUME NEW r \in Requests, ClickSend(r)
      PROVE  OneWaits'
  BY <1>2 DEF ClickSend, SendMessageToDirServ, Request
<1>3. ASSUME NEW r \in Requests, SendBlocking(r)
      PROVE  OneWaits'
  BY <1>3 DEF SendBlocking, Request
<1>4. ASSUME NEW r \in Requests, Acquire(r)
      PROVE  OneWaits'
  BY <1>4 DEF Acquire
<1>5. ASSUME NEW r \in Requests, Look(r)
      PROVE  OneWaits'
  BY <1>5 DEF Look, Examined
<1>6. ASSUME NEW r \in Requests, GotReply(r)
      PROVE  OneWaits'
  BY <1>6 DEF GotReply
<1>7. ASSUME NEW r \in Requests, Deliver(r)
      PROVE  OneWaits'
  BY <1>7 DEF Deliver, Conclude
<1>8. ASSUME NEW r \in Requests, StopCancelled(r)
      PROVE  OneWaits'
  BY <1>8 DEF StopCancelled, Conclude, FlagHolders
<1>9. ASSUME NEW r \in Requests, LookAgain(r)
      PROVE  OneWaits'
  BY <1>9 DEF LookAgain
<1>10. ASSUME NEW r \in Requests, TimeOut(r)
      PROVE  OneWaits'
  BY <1>10 DEF TimeOut, Conclude
<1>11. ASSUME NEW r \in Requests, Callback(r)
      PROVE  OneWaits'
  BY <1>11 DEF Callback
<1>12. ASSUME NEW r \in Requests, NEW q \in Requests, CallbackSends(r, q)
      PROVE  OneWaits'
  BY <1>12 DEF CallbackSends, SendMessageToDirServ, Request
<1>13. ASSUME NEW r \in Requests, EnableButtons(r)
      PROVE  OneWaits'
  BY <1>13 DEF EnableButtons
<1>14. ASSUME NEW r \in Requests, ResetFlag(r)
      PROVE  OneWaits'
  BY <1>14 DEF ResetFlag, FlagHolders
<1>15. ASSUME NEW r \in Requests, ReplyArrives(r)
      PROVE  OneWaits'
  BY <1>15 DEF ReplyArrives, NewMail
<1>16. CASE ClickCancelWaiting
  BY <1>16 DEF ClickCancelWaiting
<1>17. CASE OtherArrives
  BY <1>17 DEF OtherArrives, NewMail
<1> QED
  BY <1>1, <1>2, <1>3, <1>4, <1>5, <1>6, <1>7, <1>8, <1>9,
     <1>10, <1>11, <1>12, <1>13, <1>14, <1>15, <1>16, <1>17
  DEF Next, Receive, AllDone

\* Whoever lowers the flag while it is up for another disturbs that one.
LEMMA FlagHoldsStep ==
  ASSUME MailInv, Traces, FlagHolds, [Next]_vars
  PROVE  FlagHolds'
<1> USE RequestsAssumption DEF MailInv, TypeOK, OneReceiver, Progress, Traces, FlagHolds, Undecided, InMailbox
<1>1. CASE UNCHANGED vars
  BY <1>1 DEF vars
<1>2. ASSUME NEW r \in Requests, ClickSend(r)
      PROVE  FlagHolds'
  BY <1>2 DEF ClickSend, SendMessageToDirServ, Request
<1>3. ASSUME NEW r \in Requests, SendBlocking(r)
      PROVE  FlagHolds'
  BY <1>3 DEF SendBlocking, Request
<1>4. ASSUME NEW r \in Requests, Acquire(r)
      PROVE  FlagHolds'
  BY <1>4 DEF Acquire
<1>5. ASSUME NEW r \in Requests, Look(r)
      PROVE  FlagHolds'
  BY <1>5 DEF Look, Examined
<1>6. ASSUME NEW r \in Requests, GotReply(r)
      PROVE  FlagHolds'
  BY <1>6 DEF GotReply
<1>7. ASSUME NEW r \in Requests, Deliver(r)
      PROVE  FlagHolds'
  BY <1>7 DEF Deliver, Conclude
<1>8. ASSUME NEW r \in Requests, StopCancelled(r)
      PROVE  FlagHolds'
  BY <1>8 DEF StopCancelled, Conclude, FlagHolders
<1>9. ASSUME NEW r \in Requests, LookAgain(r)
      PROVE  FlagHolds'
  BY <1>9 DEF LookAgain
<1>10. ASSUME NEW r \in Requests, TimeOut(r)
      PROVE  FlagHolds'
  BY <1>10 DEF TimeOut, Conclude
<1>11. ASSUME NEW r \in Requests, Callback(r)
      PROVE  FlagHolds'
  BY <1>11 DEF Callback
<1>12. ASSUME NEW r \in Requests, NEW q \in Requests, CallbackSends(r, q)
      PROVE  FlagHolds'
  BY <1>12 DEF CallbackSends, SendMessageToDirServ, Request
<1>13. ASSUME NEW r \in Requests, EnableButtons(r)
      PROVE  FlagHolds'
  BY <1>13 DEF EnableButtons
<1>14. ASSUME NEW r \in Requests, ResetFlag(r)
      PROVE  FlagHolds'
  BY <1>14 DEF ResetFlag, FlagHolders
<1>15. ASSUME NEW r \in Requests, ReplyArrives(r)
      PROVE  FlagHolds'
  BY <1>15 DEF ReplyArrives, NewMail
<1>16. CASE ClickCancelWaiting
  BY <1>16 DEF ClickCancelWaiting
<1>17. CASE OtherArrives
  BY <1>17 DEF OtherArrives, NewMail
<1> QED
  BY <1>1, <1>2, <1>3, <1>4, <1>5, <1>6, <1>7, <1>8, <1>9,
     <1>10, <1>11, <1>12, <1>13, <1>14, <1>15, <1>16, <1>17
  DEF Next, Receive, AllDone

----------------------------------------------------------------------------

\* So no reply is in danger but from a request that was disturbed.
LEMMA KeptInvAlways == Spec => []KeptInv
<1>1. MailInv /\ KeptInv /\ [Next]_vars => KeptInv'
  BY TracesStep, ButtonsHoldStep, OneWaitsStep, FlagHoldsStep DEF KeptInv
<1> QED
  BY <1>1, KeptInvInit, MailInvAlways, PTL DEF Spec

\* A receiver takes an awaited reply of another out of the inbox only if one of the two is
\* needServer's, its own could not be sent or a third thread interfered, for any number of
\* requests: either both wait, and of two that wait one could not be sent, which is not the
\* one with a reply; or the receiver was cancelled, and the flag is up.
THEOREM RepliesAreKept == Spec => ReplyKept
<1>1. ASSUME MailInv, KeptInv, NEW r \in Requests, NEW m \in inbox \ inbox',
             Look(r), m.id \in Waiting \ {r}
      PROVE  \/ r \in blocking \cup disturbed \cup unsent
             \/ m.id \in blocking \cup disturbed
  <2> DEFINE q == m.id
  <2>1. Deletes(r, m) /\ pc[r] = "look"
    BY <1>1 DEF Look
  <2>2. q \in Requests /\ q # r /\ q \in Waiting /\ q \notin unsent
    BY <1>1 DEF Waiting, KeptInv, Traces
  <2>3. ~cancelRecvFlag
    BY <2>1, <2>2 DEF Deletes
  <2>4. CASE r \in cancelled
    BY <1>1, <2>1, <2>3, <2>4 DEF KeptInv, FlagHolds, Undecided, InMailbox
  <2>5. CASE r \notin cancelled
    <3>1. r \in Waiting
      BY <2>1, <2>5 DEF Waiting, Awaited, Undecided, InMailbox
    <3> QED
      BY <1>1, <2>2, <3>1 DEF KeptInv, OneWaits, Undisturbed
  <2> QED
    BY <2>4, <2>5
<1>2. MailInv /\ KeptInv => [ \A r \in Requests : \A m \in inbox \ inbox' :
       Look(r) /\ m.id \in Waiting \ {r} =>
         r \in blocking \cup disturbed \cup unsent \/ m.id \in blocking \cup disturbed]_vars
  BY <1>1
<1> QED
  BY <1>2, MailInvAlways, KeptInvAlways, PTL DEF ReplyKept, Spec

=============================================================================
