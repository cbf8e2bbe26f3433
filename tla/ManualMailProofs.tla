--------------------------- MODULE ManualMailProofs ---------------------------
(***************************************************************************)
(* Proofs about ManualMail, for any number of requests of either kind.     *)
(***************************************************************************)
EXTENDS ManualMail, TLAPS

\* What TypeOK does not say: an event that is set comes with the text of a reply.
TypeInv == TypeOK /\ (responseReadyEvent => responseText \in Requests)

\* The request that the window shows, or whose reply is being processed.
Current(f) == shown = f \/ f \in BeingProcessed

\* Where the thread of a reply is tells what the windows look like.
OneAtATime ==
  /\ \A r \in Requests : state[r] = "unsent" => proc[r] = "off" /\ shown # r
  /\ \A f \in Requests : shown = f => proc[f] \in {"off", "read", "enable", "hide"}
  /\ \A f \in BeingProcessed :
       /\ shown \in {f, Nothing}
       /\ proc[f] \in {"read", "enable", "hide", "find"} => ~findOn
       /\ proc[f] \in {"test", "signal", "call"} => shown = Nothing
  /\ \A f, g \in BeingProcessed : f = g

\* The global object is the current request's.
RightAddressee ==
  /\ \A f \in Asyncs : Current(f) => ~shouldSignalWhenReady /\ manualEmailCallback = f
  /\ \A f \in Blocking : Current(f) => shouldSignalWhenReady /\ state[f] = "waiting"
  /\ \A f \in Requests : /\ proc[f] = "signal" => f \in Blocking
                         /\ proc[f] = "call" => f \in Asyncs

\* The event is set for the one thread that waits.
RightThread ==
  /\ \A b, c \in Blocking : state[b] = "waiting" /\ state[c] = "waiting" => b = c
  /\ responseReadyEvent => /\ responseText \in Blocking
                           /\ state[responseText] = "waiting"
                           /\ proc[responseText] = "done"

\* What holds as long as no request is sent while a reply is being processed.
Unhurried == OneAtATime /\ RightAddressee /\ RightThread /\ \A a \in answers : a[1] = a[2]

AddresseeInv == hurried = {} => Unhurried

\* The groups of unchanged variables, opened in every step below.
USE DEF helper, windows, history

----------------------------------------------------------------------------

\* Typing, with what makes it inductive.
LEMMA TypeInvAlways == Spec => []TypeInv
<1>1. Init => TypeInv
  BY RequestsAssumption DEF Init, TypeInv, TypeOK, Steps
<1>2. TypeInv /\ [Next]_vars => TypeInv'
  <2> SUFFICES ASSUME TypeInv, [Next]_vars
               PROVE  TypeInv'
    OBVIOUS
  <2> USE RequestsAssumption DEF TypeInv, TypeOK, Requests, Steps
  <2>1. CASE UNCHANGED vars
    BY <2>1 DEF vars
  <2>2. ASSUME NEW r \in Requests, ClickSend(r)
        PROVE  TypeInv'
    BY <2>2 DEF ClickSend, InitiateAsyncManualEmail, OpenManualMailWindow, Waiting
  <2>3. ASSUME NEW r \in Requests, BlockingManualSend(r)
        PROVE  TypeInv'
    BY <2>3 DEF BlockingManualSend, OpenManualMailWindow, Waiting
  <2>4. ASSUME NEW r \in Requests, BlockingManualRecv(r)
        PROVE  TypeInv'
    <3>1. <<r, responseText>> \in Requests \X Requests
      BY <2>4 DEF BlockingManualRecv
    <3>2. answers' \subseteq Requests \X Requests
      BY <2>4, <3>1 DEF BlockingManualRecv
    <3> QED
      BY <2>4, <3>2 DEF BlockingManualRecv
  <2>5. ASSUME NEW r \in Requests, ClickFind(r)
        PROVE  TypeInv'
    BY <2>5 DEF ClickFind
  <2>6. ASSUME NEW r \in Requests, ReadFails(r)
        PROVE  TypeInv'
    BY <2>6 DEF ReadFails, Go
  <2>7. ASSUME NEW r \in Requests, ReadFile(r)
        PROVE  TypeInv'
    BY <2>7 DEF ReadFile, Go
  <2>8. ASSUME NEW r \in Requests, EnableAllButtons(r)
        PROVE  TypeInv'
    BY <2>8 DEF EnableAllButtons, Go
  <2>9. ASSUME NEW r \in Requests, HideWindow(r)
        PROVE  TypeInv'
    BY <2>9 DEF HideWindow, Go
  <2>10. ASSUME NEW r \in Requests, EnableFind(r)
        PROVE  TypeInv'
    BY <2>10 DEF EnableFind, Go
  <2>11. ASSUME NEW r \in Requests, ResolveTest(r)
        PROVE  TypeInv'
    BY <2>11 DEF ResolveTest, Go
  <2>12. ASSUME NEW r \in Requests, ResolveSignal(r)
        PROVE  TypeInv'
    BY <2>12 DEF ResolveSignal, Go
  <2>13. ASSUME NEW r \in Requests, ResolveCall(r)
        PROVE  TypeInv'
    BY <2>13 DEF ResolveCall, Go
  <2>14. ASSUME NEW r \in Requests, Callback(r)
        PROVE  TypeInv'
    <3>1. CASE UNCHANGED <<helper, shown, findOn, state, history>>
      BY <2>14, <3>1 DEF Callback, InitiateAsyncManualEmail, OpenManualMailWindow, Go
    <3>2. ASSUME NEW q \in Requests, InitiateAsyncManualEmail(q)
          PROVE  TypeInv'
      BY <2>14, <3>2
      DEF Callback, InitiateAsyncManualEmail, OpenManualMailWindow, Go, Waiting
    <3> QED
      BY <2>14, <3>1, <3>2 DEF Callback
  <2> QED
    BY <2>1, <2>2, <2>3, <2>4, <2>5, <2>6, <2>7, <2>8, <2>9,
       <2>10, <2>11, <2>12, <2>13, <2>14
    DEF Next, ReadReply, Process
<1> QED
  BY <1>1, <1>2, PTL DEF Spec

\* Every reachable state is well typed: in particular the attempt's thread is never let
\* through without a reply.
THEOREM Typing == Spec => []TypeOK
<1>1. TypeInv => TypeOK
  BY DEF TypeInv
<1> QED
  BY <1>1, TypeInvAlways, PTL

----------------------------------------------------------------------------

\* No step sends a reply astray, as long as nobody hurries.
LEMMA UnhurriedStep ==
  ASSUME TypeInv, TypeInv', Unhurried, [Next]_vars, hurried' = {}
  PROVE  Unhurried'
<1> USE RequestsAssumption DEF TypeInv, TypeOK, Requests, Steps, BeingProcessed,
        Unhurried, OneAtATime, RightAddressee, RightThread, Current
<1>1. CASE UNCHANGED vars
  BY <1>1 DEF vars
<1>2. ASSUME NEW r \in Requests, ClickSend(r)
      PROVE  Unhurried'
  BY <1>2 DEF ClickSend, InitiateAsyncManualEmail, OpenManualMailWindow, Waiting
<1>3. ASSUME NEW r \in Requests, BlockingManualSend(r)
      PROVE  Unhurried'
  BY <1>3 DEF BlockingManualSend, OpenManualMailWindow, Waiting
<1>4. ASSUME NEW r \in Requests, BlockingManualRecv(r)
      PROVE  Unhurried'
  BY <1>4 DEF BlockingManualRecv, Waiting
<1>5. ASSUME NEW r \in Requests, ClickFind(r)
      PROVE  Unhurried'
  BY <1>5 DEF ClickFind
<1>6. ASSUME NEW r \in Requests, ReadFails(r)
      PROVE  Unhurried'
  BY <1>6 DEF ReadFails, Go
<1>7. ASSUME NEW r \in Requests, ReadFile(r)
      PROVE  Unhurried'
  BY <1>7 DEF ReadFile, Go
<1>8. ASSUME NEW r \in Requests, EnableAllButtons(r)
      PROVE  Unhurried'
  BY <1>8 DEF EnableAllButtons, Go
<1>9. ASSUME NEW r \in Requests, HideWindow(r)
      PROVE  Unhurried'
  BY <1>9 DEF HideWindow, Go
<1>10. ASSUME NEW r \in Requests, EnableFind(r)
      PROVE  Unhurried'
  BY <1>10 DEF EnableFind, Go
<1>11. ASSUME NEW r \in Requests, ResolveTest(r)
      PROVE  Unhurried'
  BY <1>11 DEF ResolveTest, Go
<1>12. ASSUME NEW r \in Requests, ResolveSignal(r)
      PROVE  Unhurried'
  BY <1>12 DEF ResolveSignal, Go
<1>13. ASSUME NEW r \in Requests, ResolveCall(r)
      PROVE  Unhurried'
  BY <1>13 DEF ResolveCall, Go
<1>14. ASSUME NEW r \in Requests, Callback(r)
      PROVE  Unhurried'
  <2>1. CASE UNCHANGED <<helper, shown, findOn, state, history>>
    BY <1>14, <2>1 DEF Callback, Go
  <2>2. ASSUME NEW q \in Requests, InitiateAsyncManualEmail(q)
        PROVE  Unhurried'
    <3>1. /\ q \in Asyncs
          /\ state[q] = "unsent"
          /\ BeingProcessed = {}
      BY <2>2 DEF InitiateAsyncManualEmail, OpenManualMailWindow
    <3>2. /\ proc' = [proc EXCEPT ![r] = "done"]
          /\ proc[r] = "callback"
          /\ r # q
      BY <1>14, <3>1 DEF Callback, Go
    <3>3. BeingProcessed' = {}
      BY <3>1, <3>2
    <3>4. OneAtATime' /\ RightAddressee'
      BY <2>2, <3>1, <3>2, <3>3 DEF InitiateAsyncManualEmail, OpenManualMailWindow
    <3>5. RightThread' /\ \A a \in answers' : a[1] = a[2]
      BY <2>2, <3>1, <3>2 DEF InitiateAsyncManualEmail, OpenManualMailWindow
    <3> QED
      BY <3>4, <3>5
  <2> QED
    BY <1>14, <2>1, <2>2 DEF Callback
<1> QED
  BY <1>1, <1>2, <1>3, <1>4, <1>5, <1>6, <1>7, <1>8, <1>9,
     <1>10, <1>11, <1>12, <1>13, <1>14
  DEF Next, ReadReply, Process

\* Every reply goes to the request it answers, for any number of requests, as long as
\* none is sent while a reply is being processed.
THEOREM RepliesFindTheirOwn == Spec => []OwnReply
<1>1. Init => TypeInv /\ AddresseeInv
  BY RequestsAssumption
  DEF Init, TypeInv, TypeOK, Steps, AddresseeInv, Unhurried, OneAtATime, RightAddressee,
      RightThread, Current, BeingProcessed, Requests
<1>2. TypeInv /\ TypeInv' /\ AddresseeInv /\ [Next]_vars => AddresseeInv'
  <2> SUFFICES ASSUME TypeInv, TypeInv', AddresseeInv, [Next]_vars, hurried' = {}
               PROVE  Unhurried'
    BY DEF AddresseeInv
  <2>1. hurried \subseteq hurried'
    BY DEF Next, vars, ClickSend, BlockingManualSend, BlockingManualRecv, ClickFind,
           InitiateAsyncManualEmail, OpenManualMailWindow, ReadReply, ReadFails,
           ReadFile, Process, EnableAllButtons, HideWindow, EnableFind, ResolveTest,
           ResolveSignal, ResolveCall, Callback, Go
  <2>2. Unhurried
    BY <2>1 DEF AddresseeInv
  <2> QED
    BY <2>2, UnhurriedStep
<1>3. AddresseeInv => OwnReply
  BY DEF AddresseeInv, Unhurried, OwnReply
<1> QED
  BY <1>1, <1>2, <1>3, TypeInvAlways, PTL DEF Spec

===============================================================================
