------------------------------ MODULE DirMail ------------------------------
(***************************************************************************)
(* Mail to the directory server and its replies (email.cpp): a request is  *)
(* sent with a random id, and a receiver thread of its own looks through   *)
(* the newest mails of the user's inbox for the reply with that id, once   *)
(* a second for some minutes. The mutex recvThreadMutex lets one receiver  *)
(* at a time into the inbox. All receivers share the flag by which the     *)
(* waiting window's Cancel button reaches them. A receiver deletes the     *)
(* Salmon mails that are not for it.                                       *)
(*                                                                         *)
(* Requests come from the windows, whose buttons are disabled meanwhile,   *)
(* from the callback of an earlier request, and from needServer, which     *)
(* runs in a connection attempt's thread and disables nothing.             *)
(***************************************************************************)
EXTENDS Naturals, FiniteSets

CONSTANTS
  Requests,   \* requests to the directory server, each with an id of its own
  NoReceiver, \* the mutex is free
  Other,      \* a mail that has nothing to do with Salmon
  Looks,      \* how often a receiver looks: 70 + 100 seconds' worth
  MaxOther    \* how many other mails may arrive

ASSUME RequestsAssumption == NoReceiver \notin Requests /\ Other \notin Requests
ASSUME MailBounds == Looks \in Nat \ {0} /\ MaxOther \in Nat

VARIABLES
  buttonsOn,       \* the windows' buttons are enabled
  waitingShown,    \* the waiting window, with its Cancel button, is shown
  cancelRecvFlag,
  recvThreadMutex, \* the receiver that owns it
  blocking,        \* the requests that are needServer's
  pc,              \* where each request's receiver is
  looks,           \* how often it has looked
  received,        \* it has taken its reply out of the inbox
  outcome,         \* what the callback is told
  inbox,           \* the mails in the inbox, each with its number and its id
  arrived,         \* the number of the newest mail
  unanswered,      \* requests that have reached the directory server
  others,          \* other mails that have arrived
  unsent,          \* history: requests that could not be sent
  cancelled,       \* history: requests the user cancelled
  disturbed        \* history: requests that another request's thread interfered with:
                   \* it enabled the buttons or sent a message while they waited, or
                   \* lowered the flag that was up for them

gui      == <<buttonsOn, waitingShown>>
receiver == <<looks, received, outcome>>
mail     == <<inbox, arrived, unanswered, others>>
history  == <<unsent, cancelled, disturbed>>
vars == <<gui, cancelRecvFlag, recvThreadMutex, blocking, pc, receiver, mail, history>>

InMailbox == {"look", "test"}
Undecided == InMailbox \cup {"lock", "deliver"}

\* The request's callback has not been called and the user still wants it.
Awaited(r) == pc[r] \in Undecided /\ r \notin cancelled

Waiting == {r \in Requests : Awaited(r)}

\* The requests other than r that the flag is up for.
FlagHolders(r) == {q \in cancelled \ {r} : pc[q] \in Undecided}

Init == /\ buttonsOn = TRUE
        /\ waitingShown = FALSE
        /\ cancelRecvFlag = FALSE
        /\ recvThreadMutex = NoReceiver
        /\ blocking = {}
        /\ pc = [r \in Requests |-> "off"]
        /\ looks = [r \in Requests |-> 0]
        /\ received = [r \in Requests |-> FALSE]
        /\ outcome = [r \in Requests |-> "none"]
        /\ inbox = {}
        /\ arrived = 0
        /\ unanswered = {}
        /\ others = 0
        /\ unsent = {}
        /\ cancelled = {}
        /\ disturbed = {}

----------------------------------------------------------------------------
(* Sending. *)

\* The mail reaches the directory server, or sendEmailToSalmonBackend fails; a
\* receiver is made in either case.
Request(r) == /\ pc[r] = "off"
              /\ \/ unanswered' = unanswered \cup {r} /\ UNCHANGED unsent
                 \/ unsent' = unsent \cup {r} /\ UNCHANGED unanswered
              /\ UNCHANGED <<recvThreadMutex, receiver, inbox, arrived, others,
                             cancelRecvFlag, cancelled>>

\* sendMessageToDirServ: a message that could not be sent enables the buttons.
SendMessageToDirServ(r) == /\ Request(r)
                           /\ buttonsOn' = (r \in unsent')
                           /\ UNCHANGED blocking

ClickSend(r) == /\ buttonsOn
                /\ SendMessageToDirServ(r)
                /\ pc' = [pc EXCEPT ![r] = "lock"]
                /\ UNCHANGED <<waitingShown, disturbed>>

\* needServer: sendAndRecvMailBlocking; attempts exclude each other.
SendBlocking(r) == /\ \A q \in blocking : pc[q] = "done"
                   /\ Request(r)
                   /\ pc' = [pc EXCEPT ![r] = "lock"]
                   /\ blocking' = blocking \cup {r}
                   /\ UNCHANGED <<gui, disturbed>>

----------------------------------------------------------------------------
(* Receiving: waitForEmailMessage. *)

\* Mutant: nothing keeps a second receiver out.
AcquireAnyway(r) ==
  /\ pc[r] = "lock"
  /\ pc' = [pc EXCEPT ![r] = "look"]
  /\ recvThreadMutex' = r
  /\ waitingShown' = TRUE
  /\ UNCHANGED <<buttonsOn, cancelRecvFlag, blocking, receiver, mail, history>>

Acquire(r) == /\ pc[r] = "lock"
              /\ recvThreadMutex = NoReceiver
              /\ pc' = [pc EXCEPT ![r] = "look"]
              /\ recvThreadMutex' = r
              /\ waitingShown' = TRUE
              /\ UNCHANGED <<buttonsOn, cancelRecvFlag, blocking, receiver, mail,
                             history>>

\* numPastEmailsToExamine: the two newest mails at the first look, one more at each
\* other.
Examined(r) == {m \in inbox : Cardinality({n \in inbox : n.no > m.no}) < 2 + looks[r]}

\* Mutant: a cancelled receiver goes on deleting.
DeletesAll(r, m) == m.id # Other

\* Its own reply; and any other Salmon mail, unless the flag is up.
Deletes(r, m) == m.id = r \/ (m.id # Other /\ ~cancelRecvFlag)

\* Mutant: one look too many.
OneMoreLook(r) == looks[r] <= Looks

\* Neither wait is over: 70 seconds, then another 100.
TimeLeft(r) == looks[r] < Looks

\* Mutant: firstWaitDone is never set, and the wait starts over for ever.
WaitsOver(r) == UNCHANGED looks

\* Time passes, and numPastEmailsToExamine grows.
Waits(r) == looks' = [looks EXCEPT ![r] = @ + 1]

\* emailAccountTryRecvMessage: take the reply, delete what looks stale.
Look(r) ==
  LET deleted == {m \in Examined(r) : Deletes(r, m)} IN
  /\ pc[r] = "look"
  /\ TimeLeft(r)
  /\ Waits(r)
  /\ received' = [received EXCEPT ![r] = \E m \in deleted : m.id = r]
  /\ inbox' = inbox \ deleted
  /\ pc' = [pc EXCEPT ![r] = "test"]
  /\ UNCHANGED <<gui, cancelRecvFlag, recvThreadMutex, blocking, outcome, arrived,
                 unanswered, others, history>>

\* The reply is there: out of the inbox before anything else is done with it.
GotReply(r) == /\ pc[r] = "test"
               /\ received[r]
               /\ pc' = [pc EXCEPT ![r] = "deliver"]
               /\ recvThreadMutex' = NoReceiver
               /\ UNCHANGED <<gui, cancelRecvFlag, blocking, receiver, mail, history>>

Conclude(r, from, code) == /\ pc[r] = from
                           /\ pc' = [pc EXCEPT ![r] = "callback"]
                           /\ outcome' = [outcome EXCEPT ![r] = code]

\* The flag decides what the callback is told.
Deliver(r) == /\ Conclude(r, "deliver", IF cancelRecvFlag THEN "CANCEL" ELSE "SUCCESS")
              /\ UNCHANGED <<gui, cancelRecvFlag, recvThreadMutex, blocking, looks,
                             received, mail, history>>

\* Mutant: the flag stays up for the next receiver.
KeepFlag(r) == /\ ~received[r]
               /\ cancelRecvFlag
               /\ Conclude(r, "test", "CANCEL")
               /\ recvThreadMutex' = NoReceiver
               /\ UNCHANGED <<cancelRecvFlag, blocking, gui, looks, received, mail, history>>

\* No reply yet, and the user has cancelled.
StopCancelled(r) == /\ ~received[r]
                    /\ cancelRecvFlag
                    /\ cancelRecvFlag' = FALSE
                    /\ Conclude(r, "test", "CANCEL")
                    /\ recvThreadMutex' = NoReceiver
                    /\ disturbed' = disturbed \cup FlagHolders(r)
                    /\ UNCHANGED <<blocking, gui, looks, received, mail, unsent, cancelled>>

\* No reply yet: Sleep(1000).
LookAgain(r) == /\ pc[r] = "test"
                /\ ~received[r]
                /\ ~cancelRecvFlag
                /\ pc' = [pc EXCEPT ![r] = "look"]
                /\ UNCHANGED <<gui, cancelRecvFlag, recvThreadMutex, blocking, receiver,
                               mail, history>>

\* Both waits are over.
TimeOut(r) == /\ ~TimeLeft(r)
              /\ Conclude(r, "look", "FAIL")
              /\ recvThreadMutex' = NoReceiver
              /\ UNCHANGED <<gui, cancelRecvFlag, blocking, looks, received, mail,
                             history>>

----------------------------------------------------------------------------
(* The callbacks (emailReplyCallbacks.cpp), as far as they touch the windows *)
(* and further requests, and what waitForEmailMessage does after them.       *)

\* A cancelled callback leaves the windows alone; needServer's attempt hides the
\* waiting window when it ends. Most callbacks enable the buttons themselves.
Callback(r) == /\ pc[r] = "callback"
               /\ pc' = [pc EXCEPT ![r] = "enable"]
               /\ waitingShown' = (waitingShown /\ outcome[r] = "CANCEL" /\ r \notin blocking)
               /\ buttonsOn' \in {buttonsOn, buttonsOn \/ r \notin blocking}
               /\ disturbed' = disturbed \cup {q \in Waiting : buttonsOn'}
               /\ UNCHANGED <<cancelRecvFlag, recvThreadMutex, blocking, receiver, mail,
                              unsent, cancelled>>

\* startRegMailCallback and finishRegMailCallback may send finishRegistration
\* from within the callback.
CallbackSends(r, q) ==
  /\ pc[r] = "callback"
  /\ outcome[r] = "SUCCESS"
  /\ r \notin blocking
  /\ SendMessageToDirServ(q)
  /\ pc' = [pc EXCEPT ![r] = "enable", ![q] = "lock"]
  /\ waitingShown' = FALSE
  /\ disturbed' = disturbed \cup Waiting

\* Mutant: the buttons are left to the callback.
EnableNothing(r) ==
  /\ pc[r] = "enable"
  /\ pc' = [pc EXCEPT ![r] = IF received[r] THEN "reset" ELSE "done"]
  /\ UNCHANGED <<gui, cancelRecvFlag, recvThreadMutex, blocking, receiver, mail,
                 history>>

\* enableAllButtonsAll
EnableButtons(r) ==
  /\ pc[r] = "enable"
  /\ buttonsOn' = TRUE
  /\ pc' = [pc EXCEPT ![r] = IF received[r] THEN "reset" ELSE "done"]
  /\ disturbed' = disturbed \cup Waiting
  /\ UNCHANGED <<waitingShown, cancelRecvFlag, recvThreadMutex, blocking, receiver,
                 mail, unsent, cancelled>>

\* cancelRecvFlag = false, after a reply
ResetFlag(r) == /\ pc[r] = "reset"
                /\ cancelRecvFlag' = FALSE
                /\ pc' = [pc EXCEPT ![r] = "done"]
                /\ disturbed' = disturbed \cup FlagHolders(r)
                /\ UNCHANGED <<gui, recvThreadMutex, blocking, receiver, mail, unsent,
                               cancelled>>

----------------------------------------------------------------------------
(* The user, the directory server and the rest of the world. *)

\* winProcWaiting: Cancel, or closing the window.
ClickCancelWaiting ==
  /\ waitingShown
  /\ waitingShown' = FALSE
  /\ cancelRecvFlag' = TRUE
  /\ buttonsOn' = TRUE
  /\ cancelled' = cancelled \cup {r \in Requests : pc[r] \in Undecided \cup {"callback"}}
  /\ UNCHANGED <<recvThreadMutex, pc, blocking, receiver, mail, unsent, disturbed>>

NewMail(id) == /\ inbox' = inbox \cup {[no |-> arrived + 1, id |-> id]}
               /\ arrived' = arrived + 1

\* A reply arrives. It may never, and replies may overtake each other.
ReplyArrives(r) == /\ r \in unanswered
                   /\ unanswered' = unanswered \ {r}
                   /\ NewMail(r)
                   /\ UNCHANGED <<gui, cancelRecvFlag, recvThreadMutex, blocking, pc,
                                  receiver, others, history>>

OtherArrives == /\ others < MaxOther
                /\ others' = others + 1
                /\ NewMail(Other)
                /\ UNCHANGED <<gui, cancelRecvFlag, recvThreadMutex, blocking, pc,
                               receiver, unanswered, history>>

\* The steps of r's receiver thread.
Receive(r) == \/ Acquire(r) \/ Look(r) \/ GotReply(r) \/ Deliver(r) \/ StopCancelled(r)
              \/ LookAgain(r) \/ TimeOut(r) \/ Callback(r)
              \/ \E q \in Requests : CallbackSends(r, q)
              \/ EnableButtons(r) \/ ResetFlag(r)

AllDone == /\ \A r \in Requests : pc[r] = "done"
           /\ UNCHANGED vars

Next == \/ \E r \in Requests : \/ ClickSend(r) \/ SendBlocking(r)
                               \/ Receive(r) \/ ReplyArrives(r)
        \/ ClickCancelWaiting \/ OtherArrives \/ AllDone

Spec == Init /\ [][Next]_vars

\* Threads run, and the mutex is handed out fairly: Windows queues its waiters.
FairSpec == /\ Spec
            /\ \A r \in Requests : WF_vars(Receive(r)) /\ SF_vars(Acquire(r))

----------------------------------------------------------------------------
(* Properties. *)

TypeOK ==
  /\ buttonsOn \in BOOLEAN
  /\ waitingShown \in BOOLEAN
  /\ cancelRecvFlag \in BOOLEAN
  /\ recvThreadMutex \in Requests \cup {NoReceiver}
  /\ blocking \subseteq Requests
  /\ pc \in [Requests -> Undecided \cup {"off", "callback", "enable", "reset", "done"}]
  /\ looks \in [Requests -> 0..Looks]
  /\ received \in [Requests -> BOOLEAN]
  /\ outcome \in [Requests -> {"none", "SUCCESS", "CANCEL", "FAIL"}]
  /\ inbox \subseteq [no : Nat, id : Requests \cup {Other}]
  /\ arrived \in Nat
  /\ unanswered \subseteq Requests
  /\ others \in 0..MaxOther
  /\ unsent \subseteq Requests
  /\ cancelled \subseteq Requests
  /\ disturbed \subseteq Requests

\* "trying to limit this thread to one invocation at a time" (email.cpp:317): one
\* receiver is in the inbox, and it is the one that owns the mutex.
OneReceiver ==
  \A r \in Requests : pc[r] \in InMailbox <=> recvThreadMutex = r

\* A reply is not deleted while its own receiver may still come for it: of two
\* requests from the windows the second can only follow the first's end or its
\* cancellation. What breaks this is needServer's request, which no disabled button
\* keeps back, one that could not be sent, which enables the buttons while its
\* receiver waits all the same, and a third request whose thread interferes with one
\* of the two.
ReplyKept ==
  [][\A r \in Requests : \A m \in inbox \ inbox' :
       Look(r) /\ m.id \in Waiting \ {r} =>
         r \in blocking \cup disturbed \cup unsent \/ m.id \in blocking \cup disturbed]_vars

\* A callback is told that the user has cancelled only if the user has: the flag
\* belongs to whoever is waiting and is not cleared by a receiver that times out,
\* so the one case in which another request takes it is a cancellation that came
\* too late for the request that was waiting, which had its reply or gave up.
CancelIsMeant ==
  \A r \in Requests :
    outcome[r] = "CANCEL" =>
      \/ r \in cancelled
      \/ \E q \in cancelled : received[q] \/ outcome[q] = "FAIL"

\* Whatever is sent, lost, late or cancelled, every request's callback is called
\* and its thread ends: one receiver never blocks the others for good.
EveryRequestEnds == \A r \in Requests : pc[r] = "lock" ~> pc[r] = "done"

\* The buttons that a request has disabled are enabled again.
ButtonsComeBack == ~buttonsOn ~> buttonsOn
=============================================================================
