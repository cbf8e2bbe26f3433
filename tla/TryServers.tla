----------------------------- MODULE TryServers -----------------------------
(***************************************************************************)
(* tryConnectAnyServer (connect_attempt.cpp) with the list it walks: the   *)
(* two passes, the servers skipped because they failed within the last     *)
(* days, the double check of server and internet, the two sets of failures *)
(* that go into a needServer request, and the second sweep that            *)
(* connectionAttemptThread makes once it has been given a new server.      *)
(*                                                                         *)
(* ConnectionControl.tla has what surrounds a sweep: other attempts, the   *)
(* buttons, the VPN Gate servers, and what a dial does to SoftEther.       *)
(***************************************************************************)
EXTENDS Naturals, Sequences, FiniteSets, Functions

CONSTANTS
  Addresses,  \* servers' addresses
  Known,      \* lists of addresses the client may start with
  New,        \* addresses the directory server may hand out
  MaxSorts    \* how often a thread of an earlier attempt sorts the list

ASSUME KnownAssumption == \A list \in Known : /\ list \in Seq(Addresses)
                                              /\ IsInjective(list)
ASSUME NewAssumption == New \subseteq Addresses
ASSUME SortsAssumption == MaxSorts \in Nat

VARIABLES
  gKnownServers,             \* entries [addr, recent, failureCount]
  gCancelConnectionAttempt,
  pc,
  call,                      \* which of the two sweeps
  newServer,                 \* the address needServer got
  nowTryingSkippedOnes, ind, tryLater, okToNeedServer,
  triedAddrs, serverErrorAddrs, connectedSuccessfully,   \* the result
  dialled,                   \* history: the server the dial under way is for
  log,                       \* history: the answers of this sweep, until a sort
  before,                    \* history: the list when this sweep began
  sorts                      \* number of sorts by another thread

sweep  == <<nowTryingSkippedOnes, ind, tryLater, okToNeedServer>>
result == <<triedAddrs, serverErrorAddrs, connectedSuccessfully>>
caller == <<call, newServer>>
history == <<dialled, log, before, sorts>>
vars == <<gKnownServers, gCancelConnectionAttempt, pc, caller, sweep, result, history>>

Answers == {"SUCCESS", "OFFLINE", "ERROR", "CLIENT_ERROR"}

----------------------------------------------------------------------------
(* The list. recent: now - lastAttempt <= secondsTilNextAttempt, that is,   *)
(* a failure at most 2 to 7 days old. Its scores are left out: a sort may   *)
(* produce any order.                                                       *)

Entry(a, r, n) == [addr |-> a, recent |-> r, failureCount |-> n]
AddrsOf(list) == {list[k].addr : k \in DOMAIN list}
EntryOf(list, a) == CHOOSE e \in {list[k] : k \in DOMAIN list} : e.addr = a
Reorderings(list) == {[k \in DOMAIN list |-> list[p[k]]] :
                        p \in Bijection(DOMAIN list, DOMAIN list)}

\* gKnownServers[i] for the i of the current iteration
Current == IF nowTryingSkippedOnes THEN tryLater[ind] ELSE ind
Server == gKnownServers[Current]

\* The entry of the current iteration has just failed.
Failed(list) == [list EXCEPT ![Current].recent = TRUE,
                             ![Current].failureCount = @ + 1]

\* Mutant: a server that is already known is added once more.
AddVPNInfoTwice(list, a) == Append(list, Entry(a, FALSE, 0))

\* addVPNInfo: add or overwrite; lastAttempt = 0 makes it due at once.
AddVPNInfo(list, a) ==
  IF a \in AddrsOf(list)
  THEN [k \in DOMAIN list |-> IF list[k].addr = a THEN Entry(a, FALSE, 0) ELSE list[k]]
  ELSE Append(list, Entry(a, FALSE, 0))

----------------------------------------------------------------------------
(* One sweep. *)

\* getSConfig has read the list. An empty list is returned from at once.
Init ==
  /\ \E list \in Known : \E recent \in [DOMAIN list -> BOOLEAN] :
       gKnownServers = [k \in DOMAIN list |-> Entry(list[k], recent[k], 0)]
  /\ before = gKnownServers
  /\ gCancelConnectionAttempt = FALSE
  /\ pc = IF gKnownServers = <<>> THEN "return" ELSE "top"
  /\ call = 1
  /\ newServer = {}
  /\ nowTryingSkippedOnes = FALSE
  /\ ind = 1
  /\ tryLater = <<>>
  /\ okToNeedServer = TRUE
  /\ triedAddrs = {}
  /\ serverErrorAddrs = {}
  /\ connectedSuccessfully = FALSE
  /\ dialled = {}
  /\ log = <<>>
  /\ sorts = 0

Goto(from, to) == /\ pc = from
                  /\ pc' = to

MoreServers == ind <= IF nowTryingSkippedOnes THEN Len(tryLater) ELSE Len(gKnownServers)

\* The user cancelled: give up at the top of the loop.
StopForCancel ==
  /\ MoreServers
  /\ gCancelConnectionAttempt
  /\ Goto("top", "return")
  /\ UNCHANGED <<gKnownServers, gCancelConnectionAttempt, caller, sweep, result,
                 history>>

\* Mutant: a skipped server is not remembered.
SkipForgotten ==
  /\ MoreServers
  /\ ~gCancelConnectionAttempt
  /\ ~nowTryingSkippedOnes
  /\ Server.recent
  /\ ind' = ind + 1
  /\ Goto("top", "top")
  /\ UNCHANGED <<gKnownServers, gCancelConnectionAttempt, caller, nowTryingSkippedOnes,
                 tryLater, okToNeedServer, result, history>>

\* The first pass leaves likely-down servers for the second.
Skip ==
  /\ MoreServers
  /\ ~gCancelConnectionAttempt
  /\ ~nowTryingSkippedOnes
  /\ Server.recent
  /\ tryLater' = Append(tryLater, ind)
  /\ ind' = ind + 1
  /\ Goto("top", "top")
  /\ UNCHANGED <<gKnownServers, gCancelConnectionAttempt, caller, nowTryingSkippedOnes,
                 okToNeedServer, result, history>>

\* connectToVPNServer is called for the current entry.
CallDial == dialled' = IF sorts = 0 THEN {Server.addr} ELSE {}

\* Mutant: the first pass skips nothing.
ConnectRegardless ==
  /\ MoreServers
  /\ ~gCancelConnectionAttempt
  /\ Goto("top", "dial")
  /\ CallDial
  /\ UNCHANGED <<gKnownServers, gCancelConnectionAttempt, caller, sweep, result, log,
                 before, sorts>>

\* connectToVPNServer is called.
Connect ==
  /\ MoreServers
  /\ ~gCancelConnectionAttempt
  /\ nowTryingSkippedOnes \/ ~Server.recent
  /\ Goto("top", "dial")
  /\ CallDial
  /\ UNCHANGED <<gKnownServers, gCancelConnectionAttempt, caller, sweep, result, log,
                 before, sorts>>

\* Its answer, for the first dial or the double check, goes into the log; so do those
\* of the internet checks.
Log(try, answer) ==
  log' = IF sorts # 0 THEN log ELSE
         Append(log, [addr |-> CHOOSE a \in dialled : TRUE, try |-> try, answer |-> answer])

Answer(try, answer) == pc = try /\ Log(try, answer)

AnswerSuccess(try) ==
  /\ Answer(try, "SUCCESS")
  /\ gKnownServers' = [gKnownServers EXCEPT ![Current].failureCount = 0]
  /\ connectedSuccessfully' = TRUE
  /\ pc' = "return"
  /\ UNCHANGED <<gCancelConnectionAttempt, caller, sweep, triedAddrs, serverErrorAddrs,
                 dialled, before, sorts>>

\* Mutant: a server that seems offline is believed to be.
AnswerOfflineUnchecked(try) ==
  /\ Answer(try, "OFFLINE")
  /\ pc' = "net2"
  /\ UNCHANGED <<gKnownServers, gCancelConnectionAttempt, caller, sweep, result,
                 dialled, before, sorts>>

AnswerOffline(try) ==
  /\ Answer(try, "OFFLINE")
  /\ pc' = IF try = "dial" THEN "net1" ELSE "net2"
  /\ UNCHANGED <<gKnownServers, gCancelConnectionAttempt, caller, sweep, result,
                 dialled, before, sorts>>

\* Mutant: the entry of the server that has failed is not updated.
AnswerErrorUnrecorded ==
  /\ Answer("dial", "ERROR")
  /\ serverErrorAddrs' = serverErrorAddrs \cup {Server.addr}
  /\ ind' = ind + 1
  /\ pc' = "top"
  /\ UNCHANGED <<gKnownServers, gCancelConnectionAttempt, caller, nowTryingSkippedOnes,
                 tryLater, okToNeedServer, triedAddrs, connectedSuccessfully, dialled,
                 before, sorts>>

AnswerError ==
  /\ Answer("dial", "ERROR")
  /\ serverErrorAddrs' = serverErrorAddrs \cup {Server.addr}
  /\ gKnownServers' = Failed(gKnownServers)
  /\ ind' = ind + 1
  /\ pc' = "top"
  /\ UNCHANGED <<gCancelConnectionAttempt, caller, nowTryingSkippedOnes, tryLater,
                 okToNeedServer, triedAddrs, connectedSuccessfully, dialled, before,
                 sorts>>

\* Nothing is recorded: a client error, which needServer may mend; and an error
\* after the double check, where the code tests the first answer again.
AnswerIgnored(try, answer) ==
  /\ answer = "CLIENT_ERROR" \/ (answer = "ERROR" /\ try = "redial")
  /\ Answer(try, answer)
  /\ ind' = ind + 1
  /\ pc' = "top"
  /\ UNCHANGED <<gKnownServers, gCancelConnectionAttempt, caller, nowTryingSkippedOnes,
                 tryLater, okToNeedServer, result, dialled, before, sorts>>

\* connectedToInternet() after the first dial
InternetUp ==
  /\ Goto("net1", "redial")
  /\ Log("net1", "UP")
  /\ CallDial
  /\ UNCHANGED <<gKnownServers, gCancelConnectionAttempt, caller, sweep, result, before,
                 sorts>>

\* Mutant: the double check reports the server and stays with it.
StillOfflineStay ==
  /\ Goto("net2", "top")
  /\ Log("net2", "UP")
  /\ triedAddrs' = triedAddrs \cup {Server.addr}
  /\ gKnownServers' = Failed(gKnownServers)
  /\ UNCHANGED <<gCancelConnectionAttempt, caller, sweep, serverErrorAddrs,
                 connectedSuccessfully, dialled, before, sorts>>

\* ... and after the second: offline twice with the internet up twice.
StillOffline ==
  /\ Goto("net2", "top")
  /\ Log("net2", "UP")
  /\ triedAddrs' = triedAddrs \cup {Server.addr}
  /\ gKnownServers' = Failed(gKnownServers)
  /\ ind' = ind + 1
  /\ UNCHANGED <<gCancelConnectionAttempt, caller, nowTryingSkippedOnes, tryLater,
                 okToNeedServer, serverErrorAddrs, connectedSuccessfully, dialled, before,
                 sorts>>

\* No internet, at either check: the failure proves nothing.
InternetDown ==
  /\ pc \in {"net1", "net2"}
  /\ pc' = "top"
  /\ okToNeedServer' = FALSE
  /\ ind' = ind + 1
  /\ Log(pc, "DOWN")
  /\ UNCHANGED <<gKnownServers, gCancelConnectionAttempt, caller, nowTryingSkippedOnes,
                 tryLater, result, dialled, before, sorts>>

\* The end of the first pass: now the ones it skipped.
TrySkippedOnes ==
  /\ ~MoreServers
  /\ ~nowTryingSkippedOnes
  /\ Goto("top", "top")
  /\ nowTryingSkippedOnes' = TRUE
  /\ ind' = 1
  /\ UNCHANGED <<gKnownServers, gCancelConnectionAttempt, caller, tryLater,
                 okToNeedServer, result, history>>

\* The end of the second pass with the internet in doubt: as if cancelled.
PretendCancelled ==
  /\ ~MoreServers
  /\ nowTryingSkippedOnes
  /\ ~okToNeedServer
  /\ Goto("top", "return")
  /\ gCancelConnectionAttempt' = TRUE
  /\ UNCHANGED <<gKnownServers, caller, sweep, result, history>>

\* The end of the second pass: writeSConfigFromKnownServers sorts and saves.
AllFailed ==
  /\ ~MoreServers
  /\ nowTryingSkippedOnes
  /\ okToNeedServer
  /\ Goto("top", "return")
  /\ gKnownServers' \in Reorderings(gKnownServers)
  /\ UNCHANGED <<gCancelConnectionAttempt, caller, sweep, result, history>>

----------------------------------------------------------------------------
(* The caller: connectionAttemptThread. *)

\* Mutant: a second failure is not the end.
FinishUnlessFailed ==
  /\ connectedSuccessfully \/ gCancelConnectionAttempt
  /\ Goto("return", "done")
  /\ UNCHANGED <<gKnownServers, gCancelConnectionAttempt, caller, sweep, result,
                 history>>

\* Connected, or cancelled, or nothing more to try.
Finish ==
  /\ connectedSuccessfully \/ gCancelConnectionAttempt \/ call = 2
  /\ Goto("return", "done")
  /\ UNCHANGED <<gKnownServers, gCancelConnectionAttempt, caller, sweep, result,
                 history>>

\* The needServer request is sent, with the two sets.
NeedServer ==
  /\ ~connectedSuccessfully
  /\ ~gCancelConnectionAttempt
  /\ call = 1
  /\ Goto("return", "needServer")
  /\ UNCHANGED <<gKnownServers, gCancelConnectionAttempt, caller, sweep, result,
                 history>>

\* No server, or VPN Gate's.
NoSalmonServer ==
  /\ Goto("needServer", "done")
  /\ UNCHANGED <<gKnownServers, gCancelConnectionAttempt, caller, sweep, result,
                 history>>

\* parseNewSalmonServer adds the server, sorts and saves the list; then the
\* second sweep begins, with nothing of the first but the list.
NewSalmonServer(a) ==
  /\ Goto("needServer", "top")
  /\ gKnownServers' \in Reorderings(AddVPNInfo(gKnownServers, a))
  /\ before' = IF sorts = 0 THEN gKnownServers' ELSE <<>>
  /\ call' = 2
  /\ newServer' = {a}
  /\ nowTryingSkippedOnes' = FALSE
  /\ ind' = 1
  /\ tryLater' = <<>>
  /\ okToNeedServer' = TRUE
  /\ triedAddrs' = {}
  /\ serverErrorAddrs' = {}
  /\ connectedSuccessfully' = FALSE
  /\ dialled' = {}
  /\ log' = <<>>
  /\ UNCHANGED <<gCancelConnectionAttempt, sorts>>

----------------------------------------------------------------------------
(* Others. *)

\* bttnCancelConnect
UserCancels ==
  /\ pc # "done"
  /\ ~gCancelConnectionAttempt
  /\ gCancelConnectionAttempt' = TRUE
  /\ UNCHANGED <<gKnownServers, pc, caller, sweep, result, history>>

\* measureCurRTT_Thread of an earlier attempt ends with a sort of the list; no
\* lock keeps it from a sweep.
EarlierThreadSorts ==
  /\ pc # "done"
  /\ sorts < MaxSorts
  /\ sorts' = sorts + 1
  /\ gKnownServers' \in Reorderings(gKnownServers)
  /\ dialled' = {}
  /\ log' = <<>>
  /\ before' = <<>>
  /\ UNCHANGED <<gCancelConnectionAttempt, pc, caller, sweep, result>>

Sweeping == \/ StopForCancel \/ Skip \/ Connect
            \/ \E try \in {"dial", "redial"} :
                 \/ AnswerSuccess(try)
                 \/ AnswerOffline(try)
                 \/ \E answer \in Answers : AnswerIgnored(try, answer)
            \/ AnswerError
            \/ InternetUp \/ StillOffline \/ InternetDown
            \/ TrySkippedOnes \/ PretendCancelled \/ AllFailed

Calling == \/ Finish \/ NeedServer \/ NoSalmonServer
           \/ \E a \in New : NewSalmonServer(a)

\* The attempt is over; so is this module's interest in it.
Done == pc = "done" /\ UNCHANGED vars

Next == Sweeping \/ Calling \/ UserCancels \/ EarlierThreadSorts \/ Done

Spec == Init /\ [][Next]_vars

\* Dials, checks of the internet and the mail exchange all time out.
FairSpec == Spec /\ WF_vars(Sweeping \/ Calling)

----------------------------------------------------------------------------
(* Properties. *)

TypeOK ==
  /\ gKnownServers \in Seq([addr : Addresses, recent : BOOLEAN, failureCount : Nat])
  /\ before \in Seq([addr : Addresses, recent : BOOLEAN, failureCount : Nat])
  /\ IsInjective([k \in DOMAIN gKnownServers |-> gKnownServers[k].addr])
  /\ sorts = 0 => AddrsOf(before) = AddrsOf(gKnownServers)
  /\ gCancelConnectionAttempt \in BOOLEAN
  /\ pc \in {"top", "dial", "redial", "net1", "net2", "return", "needServer", "done"}
  /\ call \in 1..2
  /\ newServer \subseteq New
  /\ nowTryingSkippedOnes \in BOOLEAN
  /\ ind \in 1 .. Len(gKnownServers) + 1
  /\ pc \in {"dial", "redial", "net1", "net2"} => MoreServers
  /\ tryLater \in Seq(DOMAIN gKnownServers)
  /\ okToNeedServer \in BOOLEAN
  /\ triedAddrs \subseteq Addresses
  /\ serverErrorAddrs \subseteq Addresses
  /\ connectedSuccessfully \in BOOLEAN
  /\ dialled \subseteq Addresses
  /\ log \in Seq([addr : Addresses, try : {"dial", "redial", "net1", "net2"},
                  answer : Answers \cup {"UP", "DOWN"}])
  /\ sorts \in 0..MaxSorts

Dials(a) == {k \in DOMAIN log : log[k].addr = a /\ log[k].try = "dial"}
GotAnswer(a, try, answer) ==
  \E k \in DOMAIN log : log[k] = [addr |-> a, try |-> try, answer |-> answer]

\* No server is dialled twice in a sweep, but for the double check, and by the
\* time the directory server is asked every known server has been dialled: the
\* list is walked completely over the two passes (connect_attempt.cpp:66-68).
\* Not so when another thread sorts the list meanwhile: then a server is dialled
\* twice and another never, and the indices are all that is safe (TypeOK).
EveryServerTried ==
  sorts = 0 =>
    /\ \A a \in Addresses : Cardinality(Dials(a)) <= 1
    /\ pc = "needServer" => \A a \in AddrsOf(gKnownServers) : Dials(a) # {}

\* A server that failed in the last days is dialled only after every server
\* that did not, unless the list was sorted in between.
LikelyDownComeLast ==
  sorts = 0 => \A k \in DOMAIN log : EntryOf(before, log[k].addr).recent =>
    \A a \in AddrsOf(before) : ~EntryOf(before, a).recent => \E j \in Dials(a) : j < k

\* A server is reported as blocked only after being offline at both dials, with our own
\* internet up after each of them, and as erroneous only after an error; never as both. A server that has connected
\* is not reported. When the list is sorted during a dial, the answer is recorded
\* for, and reported of, the server that is now in the dialled one's place.
ReportsAreEarned ==
  sorts = 0 =>
  /\ triedAddrs \cap serverErrorAddrs = {}
  /\ \A a \in triedAddrs : /\ GotAnswer(a, "dial", "OFFLINE")
                           /\ GotAnswer(a, "net1", "UP")
                           /\ GotAnswer(a, "redial", "OFFLINE")
                           /\ GotAnswer(a, "net2", "UP")
  /\ \A a \in serverErrorAddrs : GotAnswer(a, "dial", "ERROR")

\* The failures that put a server off for days are exactly the reported ones,
\* each counted once; a server that has connected starts again from zero.
ReportedIsRecorded ==
  sorts = 0 => \A a \in AddrsOf(gKnownServers) :
    LET now == EntryOf(gKnownServers, a)
        was == EntryOf(before, a) IN
    IF a \in triedAddrs \cup serverErrorAddrs
    THEN now.recent /\ now.failureCount = was.failureCount + 1
    ELSE /\ now.recent = was.recent
         /\ now.failureCount = IF connectedSuccessfully /\ a \in dialled
                               THEN 0 ELSE was.failureCount

\* A sweep and the attempt around it end.
AttemptReturns == <>(pc = "done")

\* A sweep is a Sweep: it disposes of each server once and fails only when none
\* is left; but for a sort of the list, after which nothing is claimed.
NotDisposed ==
  IF nowTryingSkippedOnes
  THEN {gKnownServers[tryLater[k]].addr : k \in ind .. Len(tryLater)}
  ELSE {gKnownServers[k].addr : k \in ind .. Len(gKnownServers)}
         \cup {gKnownServers[tryLater[k]].addr : k \in DOMAIN tryLater}

SweepResult ==
  IF connectedSuccessfully THEN "connected"
  ELSE IF pc \in {"top", "dial", "redial", "net1", "net2"} THEN "trying"
  ELSE IF ~MoreServers /\ okToNeedServer THEN "failed" ELSE "gaveUp"

SweepOf == INSTANCE Sweep WITH
  todo     <- IF sorts = 0 THEN NotDisposed ELSE {},
  reported <- IF sorts = 0 THEN triedAddrs \cup serverErrorAddrs ELSE {},
  result   <- IF sorts = 0 THEN SweepResult ELSE "disturbed"

RefinesSweep == SweepOf!SweepSpec

\* What a comment says and the code does not do (run viol_unreported): a
\* failed server "which had some sort of error" is recorded as such.
ErrorsAreReported ==
  pc = "needServer" =>
    \A a \in Addresses : GotAnswer(a, "redial", "ERROR") => a \in serverErrorAddrs
=============================================================================
