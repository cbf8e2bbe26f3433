----------------------------- MODULE ManualMail -----------------------------
(***************************************************************************)
(* Mail to the directory server by the user's own hands                    *)
(* (manual_or_blocking_email.cpp, createWindowsManualEmail.cpp): a window  *)
(* shows the text to send, and the user later picks the file with the      *)
(* reply. One global object, gManualEmail, remembers to whom the next      *)
(* reply goes: to the attempt thread that waits for an event, or to a      *)
(* callback, which gets a thread of its own. A thread reads the picked     *)
(* file, gives the windows back and resolves the request.                  *)
(*                                                                         *)
(* The user is careful: the reply picked is the one to the request that    *)
(* the window shows. The assignments of one send are one step: each        *)
(* processing thread reads or undoes them after the step or before it.     *)
(* Closing the window ends the program, and is left out.                   *)
(***************************************************************************)
EXTENDS Naturals

CONSTANTS
  Asyncs,     \* requests with a callback
  Blocking,   \* requests of needServer, whose thread waits
  NoOp,       \* noOpMailCallback
  Nothing     \* no text

Requests == Asyncs \cup Blocking

ASSUME RequestsAssumption == /\ Asyncs \cap Blocking = {}
                             /\ {NoOp, Nothing} \cap Requests = {}

VARIABLES
  shouldSignalWhenReady, manualEmailCallback, responseReadyEvent, responseText,
  shown,      \* the request that the manual mail window shows, or Nothing: it is hidden
  findOn,     \* bttnManualEmailFindRecvd is enabled
  buttonsOn,  \* the buttons of the other windows are
  state,      \* of each request: unsent, waiting for its reply, or done
  proc,       \* where the thread is that processes the reply to a request
  answers,    \* history: <<r, f>>: r was given the reply to f
  overtaken,  \* history: requests before whose reply another was sent
  hurried     \* history: requests sent while a reply was being processed

helper  == <<shouldSignalWhenReady, manualEmailCallback, responseReadyEvent, responseText>>
windows == <<shown, findOn, buttonsOn>>
history == <<answers, overtaken, hurried>>
vars == <<helper, windows, state, proc, history>>

\* What a processing thread still has to do.
Steps == {"read", "enable", "hide", "find", "test", "signal", "call"}
BeingProcessed == {f \in Requests : proc[f] \in Steps}
Waiting == {r \in Requests : state[r] = "waiting"}

Init == /\ shouldSignalWhenReady = FALSE
        /\ manualEmailCallback = NoOp
        /\ responseReadyEvent = FALSE
        /\ responseText = Nothing
        /\ shown = Nothing
        /\ findOn = TRUE
        /\ buttonsOn = TRUE
        /\ state = [r \in Requests |-> "unsent"]
        /\ proc = [f \in Requests |-> "off"]
        /\ answers = {}
        /\ overtaken = {}
        /\ hurried = {}

----------------------------------------------------------------------------
(* Sending. *)

\* openManualMailWindow: whatever the window showed is overwritten.
OpenManualMailWindow(r) ==
  /\ state[r] = "unsent"
  /\ state' = [state EXCEPT ![r] = "waiting"]
  /\ buttonsOn' = FALSE
  /\ shown' = r
  /\ overtaken' = overtaken \cup Waiting
  /\ hurried' = IF BeingProcessed = {} THEN hurried ELSE hurried \cup {r}
  /\ UNCHANGED <<responseReadyEvent, responseText, findOn, answers>>

\* Mutant: the flag of a blocking request is left up.
InitiateKeepingFlag(r) == /\ r \in Asyncs
                          /\ manualEmailCallback' = r
                          /\ UNCHANGED shouldSignalWhenReady
                          /\ OpenManualMailWindow(r)

InitiateAsyncManualEmail(r) == /\ r \in Asyncs
                               /\ manualEmailCallback' = r
                               /\ shouldSignalWhenReady' = FALSE
                               /\ OpenManualMailWindow(r)

ClickSend(r) == /\ buttonsOn
                /\ InitiateAsyncManualEmail(r)
                /\ UNCHANGED proc

\* Mutant: needServer's request is remembered like a callback.
BlockingAsCallback(r) == /\ r \in Blocking
                         /\ manualEmailCallback' = r
                         /\ shouldSignalWhenReady' = FALSE
                         /\ OpenManualMailWindow(r)
                         /\ UNCHANGED proc

\* The send half of blockingManualSendRecv; attempts exclude each other.
BlockingManualSend(r) ==
  /\ r \in Blocking
  /\ Blocking \cap Waiting = {}
  /\ shouldSignalWhenReady' = TRUE
  /\ OpenManualMailWindow(r)
  /\ UNCHANGED <<manualEmailCallback, proc>>

\* Its other half: the event resets itself when the thread is let through.
BlockingManualRecv(r) ==
  /\ r \in Blocking \cap Waiting
  /\ responseReadyEvent
  /\ responseReadyEvent' = FALSE
  /\ state' = [state EXCEPT ![r] = "done"]
  /\ answers' = answers \cup {<<r, responseText>>}
  /\ UNCHANGED <<shouldSignalWhenReady, manualEmailCallback, responseText, windows,
                 proc, overtaken, hurried>>

----------------------------------------------------------------------------
(* The reply: winProcManualEmail and the thread processManualResponse. *)

\* The find button stays off until the thread is done with the windows.
ClickFind(f) == /\ f = shown
                /\ findOn
                /\ proc[f] = "off"
                /\ findOn' = FALSE
                /\ proc' = [proc EXCEPT ![f] = "read"]
                /\ UNCHANGED <<helper, shown, buttonsOn, state, history>>

Go(f, from, to) == proc[f] = from /\ proc' = [proc EXCEPT ![f] = to]

\* The file cannot be opened: it stays, and the user may try again.
ReadFails(f) == /\ Go(f, "read", "off")
                /\ findOn' = TRUE
                /\ UNCHANGED <<helper, shown, buttonsOn, state, history>>

\* The file is read and deleted.
ReadFile(f) == /\ Go(f, "read", "enable")
               /\ UNCHANGED <<helper, windows, state, history>>

EnableAllButtons(f) == /\ Go(f, "enable", "hide")
                       /\ buttonsOn' = TRUE
                       /\ UNCHANGED <<helper, shown, findOn, state, history>>

HideWindow(f) == /\ Go(f, "hide", "find")
                 /\ shown' = Nothing
                 /\ UNCHANGED <<helper, findOn, buttonsOn, state, history>>

\* Mutant: the find button is left off.
LeaveFindOff(f) == /\ Go(f, "find", "test")
                   /\ UNCHANGED <<helper, windows, state, history>>

EnableFind(f) == /\ Go(f, "find", "test")
                 /\ findOn' = TRUE
                 /\ UNCHANGED <<helper, shown, buttonsOn, state, history>>

\* resolve: the flag decides, after the windows have been given back.
ResolveTest(f) == /\ Go(f, "test", IF shouldSignalWhenReady THEN "signal" ELSE "call")
                  /\ UNCHANGED <<helper, windows, state, history>>

ResolveSignal(f) == /\ Go(f, "signal", "done")
                    /\ responseText' = f
                    /\ shouldSignalWhenReady' = FALSE
                    /\ responseReadyEvent' = TRUE
                    /\ UNCHANGED <<manualEmailCallback, windows, state, history>>

\* asyncCallCallback
ResolveCall(f) == /\ Go(f, "call", "callback")
                  /\ answers' = answers \cup ({<<manualEmailCallback, f>>} \ {<<NoOp, f>>})
                  /\ state' = [r \in Requests |->
                                 IF r = manualEmailCallback THEN "done" ELSE state[r]]
                  /\ UNCHANGED <<helper, windows, overtaken, hurried>>

\* The callback's thread. Some callbacks enable the buttons, and those of the
\* registration send the next request.
Callback(f) == /\ Go(f, "callback", "done")
               /\ \/ /\ buttonsOn' \in {buttonsOn, TRUE}
                     /\ UNCHANGED <<helper, shown, findOn, state, history>>
                  \/ \E r \in Requests : InitiateAsyncManualEmail(r)

----------------------------------------------------------------------------

ReadReply(f) == ReadFails(f) \/ ReadFile(f)
Process(f) == \/ EnableAllButtons(f) \/ HideWindow(f) \/ EnableFind(f)
              \/ ResolveTest(f) \/ ResolveSignal(f) \/ ResolveCall(f) \/ Callback(f)

Next == \E r \in Requests :
          \/ ClickSend(r) \/ BlockingManualSend(r) \/ BlockingManualRecv(r)
          \/ ClickFind(r) \/ ReadReply(r) \/ Process(r)

Spec == Init /\ [][Next]_vars

\* Threads run; the reply comes, and the user does what the window asks for, until
\* the file can be read.
FairSpec == /\ Spec
            /\ \A r \in Requests : /\ WF_vars(BlockingManualRecv(r))
                                   /\ WF_vars(ReadReply(r)) /\ SF_vars(ReadFile(r))
                                   /\ WF_vars(Process(r))
                                   /\ WF_vars(ClickFind(r))

----------------------------------------------------------------------------
(* Properties. *)

TypeOK == /\ shouldSignalWhenReady \in BOOLEAN
          /\ manualEmailCallback \in Asyncs \cup {NoOp}
          /\ responseReadyEvent \in BOOLEAN
          /\ responseText \in Requests \cup {Nothing}
          /\ shown \in Requests \cup {Nothing}
          /\ findOn \in BOOLEAN
          /\ buttonsOn \in BOOLEAN
          /\ state \in [Requests -> {"unsent", "waiting", "done"}]
          /\ proc \in [Requests -> Steps \cup {"off", "callback", "done"}]
          /\ answers \subseteq Requests \X Requests
          /\ overtaken \subseteq Requests
          /\ hurried \subseteq Requests

\* As long as no request is sent while a reply is being processed, every reply goes
\* to the request it answers, however the requests overwrite each other. One that
\* is sent just then may be taken for the one answered, as the thread enables the
\* buttons before it looks to whom the reply goes, and leave the event set for a
\* third.
OwnReply == hurried = {} => \A a \in answers : a[1] = a[2]

\* "to get the data back to whatever piece of logic initiated the send/recv, we need
\* some global stuff" (manual_or_blocking_email.h:30): every reply goes to the request
\* it answers.
ReplyToInitiator == \A a \in answers : a[1] = a[2]

\* A request gets its answer, be it needServer's blocked thread or a callback, if no
\* other request is sent before and none was being answered when it was sent: only
\* then can it lose its place in the one global object, or its window be hidden by
\* the thread of the reply before.
EveryRequestEnds ==
  \A r \in Requests :
    state[r] = "waiting" ~> state[r] = "done" \/ r \in overtaken \cup hurried
=============================================================================
