------------------------- MODULE ConnectionControl -------------------------
(***************************************************************************)
(* The connection core of the Salmon client: the GUI thread's Connect,     *)
(* Cancel and Disconnect buttons (createWindowsMain.cpp), the connection   *)
(* attempt threads (connect_attempt.cpp), the threads that save the        *)
(* connected address, the monitor thread (control_softether.cpp), and the  *)
(* SoftEther VPN client they all drive through vpncmd.                     *)
(*                                                                         *)
(* Threads interleave between the reads and writes of the shared globals.  *)
(* The list of known servers is a set here and the order in which it is    *)
(* tried is left open: TryServers.tla has the list and its two passes.     *)
(***************************************************************************)
EXTENDS Naturals, FiniteSets

CONSTANTS
  Threads,       \* slots for connection attempt threads
  Monitor,       \* the monitor thread, as an owner of the mutex
  NoOwner,       \* the mutex is free
  Servers,       \* Salmon servers' addresses
  Gates,         \* VPN Gate servers' addresses
  NoServer,      \* no address: "", or "NONE" when previousaddr.txt is missing
  Impatient,     \* may the user click Connect while a thread is still busy?
  WithMonitor,   \* is the monitor thread running?
  MaxDrops,      \* how often an established session may be lost
  MaxRestarts    \* how often the program may exit and be started again

ASSUME ThreadsAssumption == /\ Monitor \notin Threads
                            /\ NoOwner \notin Threads \cup {Monitor}
ASSUME AddressAssumption == NoServer \notin Servers \cup Gates
ASSUME BoundsAssumption  == /\ Impatient \in BOOLEAN
                            /\ WithMonitor \in BOOLEAN
                            /\ MaxDrops \in Nat
                            /\ MaxRestarts \in Nat

VARIABLES
  gVPNConnected,            \* the program believes a server is connected
  gUserWantsConnection,     \* the monitor may reconnect by itself
  gCancelConnectionAttempt, \* an attempt should stop at its next check
  gConnectionStateMutex,    \* the thread that owns it
  gCurrentConnection,       \* gCurrentConnection.addr
  gKnownServers,            \* the addresses in gKnownServers
  previousAddr,             \* the contents of previousaddr.txt
  button,                   \* which of the three buttons is shown
  guiPc,                    \* where the GUI thread is
  monitorPc,                \* where the monitor thread is
  pc,                       \* where each attempt thread is
  stage,                    \* known list, renewed list, VPN Gate list
  todo,                     \* servers of the current list not yet taken up
  target,                   \* the server being tried
  secondTry,                \* is this the double check of target?
  okToNeedServer,           \* no server failed without internet
  rtt,                      \* attempts whose measureCurRTT_Thread is pending
  account,                  \* SoftEther: the setting using the VPN adapter
  linkUp,                   \* SoftEther: the adapter has a gateway
  cancelled,                \* history: attempts the user has cancelled
  goneOn,                   \* history: those that have gone on to dial since
  drops, restarts           \* how often each happened, against the bounds

flags    == <<gVPNConnected, gUserWantsConnection, gCancelConnectionAttempt>>
conn     == <<gCurrentConnection, previousAddr>>
gui      == <<button, guiPc>>
attempt  == <<stage, todo, target, secondTry, okToNeedServer>>
softEther == <<account, linkUp>>
history  == <<cancelled, goneOn>>
bounds   == <<drops, restarts>>
vars == <<flags, gConnectionStateMutex, conn, gKnownServers, gui, monitorPc,
          pc, attempt, rtt, softEther, history, bounds>>

----------------------------------------------------------------------------
(* Threads. *)

Addresses == Servers \cup Gates

\* Between WaitForSingleObject and ReleaseMutex of connectionAttemptThread.
AttemptSection ==
  {"config", "top", "dial", "poll", "won", "wonAddr", "hangup", "net1",
   "net2", "gaveUp", "decide", "needBox", "needWait", "gate",
   "gateLost", "sorry", "end", "endShow", "release"}
AttemptPc == AttemptSection \cup {"off", "start"}

\* Between the two calls on the mutex of monitorConnection.
MonitorSection == {"check", "seenUp", "seenDown", "test", "show", "rearm", "unlock"}
MonitorPc == MonitorSection \cup {"sleep", "wait", "spawn"}

\* Before the cancel flag is put back: the attempt is still at work.
AtWork == AttemptSection \ {"end", "endShow", "release"}

\* An attempt exists, or the monitor has decided to make one.
AttemptAlive == \/ \E t \in Threads : pc[t] # "off"
                \/ monitorPc \in {"show", "rearm", "spawn"}

\* Some thread has something left to do for an earlier click.
Busy == AttemptAlive \/ monitorPc # "sleep"

Goto(t, from, to) == /\ pc[t] = from
                     /\ pc' = [pc EXCEPT ![t] = to]

\* CreateThread(connectionAttemptThread): the new thread starts at its first
\* statement, the wait for the mutex.
Spawn(t) == /\ pc[t] = "off"
            /\ t \notin rtt
            /\ pc' = [pc EXCEPT ![t] = "start"]

----------------------------------------------------------------------------
(* vpncmd, as the code relies on it. *)

\* accountconnect: a session that is already using the adapter is in the way.
AccountConnect(s) == account' = IF account = NoServer THEN s ELSE account

\* accountdisconnect: no effect on a setting that is not in use.
AccountDisconnect(s) == IF account = s
                        THEN account' = NoServer /\ linkUp' = FALSE
                        ELSE UNCHANGED softEther

\* The attempt in progress succeeds.
LinkUp == /\ account # NoServer
          /\ ~linkUp
          /\ linkUp' = TRUE
          /\ UNCHANGED <<flags, gConnectionStateMutex, conn, gKnownServers, gui,
                         monitorPc, pc, attempt, rtt, account, history, bounds>>

\* The attempt in progress fails, and so has its one retry.
DialExpires == /\ account # NoServer
               /\ ~linkUp
               /\ account' = NoServer
               /\ UNCHANGED <<flags, gConnectionStateMutex, conn, gKnownServers, gui,
                              monitorPc, pc, attempt, rtt, linkUp, history, bounds>>

\* An established session is lost: SoftEther retries once (accountretryset
\* /num:1) or has given up.
LinkDown == /\ linkUp
            /\ drops < MaxDrops
            /\ linkUp' = FALSE
            /\ account' \in {account, NoServer}
            /\ drops' = drops + 1
            /\ UNCHANGED <<flags, gConnectionStateMutex, conn, gKnownServers, gui,
                           monitorPc, pc, attempt, rtt, history, restarts>>

----------------------------------------------------------------------------
(* Start of the program. *)

\* The first start on a machine: nothing connected, nothing saved.
Init ==
  /\ gKnownServers \in SUBSET Servers
  /\ previousAddr = NoServer
  /\ account = NoServer
  /\ linkUp = FALSE
  /\ drops = 0
  /\ restarts = 0
  /\ gVPNConnected = linkUp
  /\ gUserWantsConnection = linkUp
  /\ gCancelConnectionAttempt = FALSE
  /\ gConnectionStateMutex = NoOwner
  /\ gCurrentConnection = IF linkUp THEN previousAddr ELSE NoServer
  /\ button = IF linkUp THEN "Disconnect" ELSE "Connect"
  /\ guiPc = "idle"
  /\ monitorPc = "sleep"
  /\ pc = [t \in Threads |-> "off"]
  /\ stage = [t \in Threads |-> "known"]
  /\ todo = [t \in Threads |-> {}]
  /\ target = [t \in Threads |-> NoServer]
  /\ secondTry = [t \in Threads |-> FALSE]
  /\ okToNeedServer = [t \in Threads |-> TRUE]
  /\ rtt = {}
  /\ cancelled = {}
  /\ goneOn = {}

\* The program exits or is killed, at any point, and is started again. Its
\* threads are gone; SoftEther's session and the saved files stay, and
\* initSalmonClient looks at both.
Restart ==
  /\ restarts < MaxRestarts
  /\ restarts' = restarts + 1
  /\ gVPNConnected' = linkUp
  /\ gUserWantsConnection' = linkUp
  /\ gCancelConnectionAttempt' = FALSE
  /\ gConnectionStateMutex' = NoOwner
  /\ gCurrentConnection' = IF linkUp THEN previousAddr ELSE NoServer
  /\ button' = IF linkUp THEN "Disconnect" ELSE "Connect"
  /\ guiPc' = "idle"
  /\ monitorPc' = "sleep"
  /\ pc' = [t \in Threads |-> "off"]
  /\ stage' = [t \in Threads |-> "known"]
  /\ todo' = [t \in Threads |-> {}]
  /\ target' = [t \in Threads |-> NoServer]
  /\ secondTry' = [t \in Threads |-> FALSE]
  /\ okToNeedServer' = [t \in Threads |-> TRUE]
  /\ rtt' = {}
  /\ cancelled' = {}
  /\ goneOn' = {}
  /\ UNCHANGED <<gKnownServers, previousAddr, softEther, drops>>

----------------------------------------------------------------------------
(* The GUI thread: winProcMain. *)

\* bttnConnect
ClickConnect(t) ==
  /\ guiPc = "idle"
  /\ button = "Connect"
  /\ Impatient \/ ~Busy
  /\ button' = "Cancel"
  /\ gCancelConnectionAttempt' = FALSE
  /\ gUserWantsConnection' = TRUE
  /\ Spawn(t)
  /\ UNCHANGED <<gVPNConnected, gConnectionStateMutex, conn, gKnownServers, guiPc,
                 monitorPc, attempt, rtt, softEther, history, bounds>>

\* Mutant: Cancel only takes back the user's wish.
ClickCancelFlagless ==
  /\ guiPc = "idle"
  /\ button = "Cancel"
  /\ button' = "Connect"
  /\ gUserWantsConnection' = FALSE
  /\ cancelled' = {t \in Threads : pc[t] # "off"}
  /\ UNCHANGED <<gVPNConnected, gCancelConnectionAttempt, gConnectionStateMutex, conn,
                 gKnownServers, guiPc, monitorPc, pc, attempt, rtt, softEther, goneOn,
                 bounds>>

\* bttnCancelConnect
ClickCancel ==
  /\ guiPc = "idle"
  /\ button = "Cancel"
  /\ button' = "Connect"
  /\ gCancelConnectionAttempt' = TRUE
  /\ gUserWantsConnection' = FALSE
  /\ cancelled' = {t \in Threads : pc[t] # "off"}
  /\ UNCHANGED <<gVPNConnected, gConnectionStateMutex, conn, gKnownServers, guiPc,
                 monitorPc, pc, attempt, rtt, softEther, goneOn, bounds>>

\* bttnDisconnect, up to disconnectVPN()
ClickDisconnect ==
  /\ guiPc = "idle"
  /\ button = "Disconnect"
  /\ button' = "Connect"
  /\ gUserWantsConnection' = FALSE
  /\ guiPc' = IF gCurrentConnection = NoServer THEN "idle" ELSE "hangup"
  /\ UNCHANGED <<gVPNConnected, gCancelConnectionAttempt, gConnectionStateMutex, conn,
                 gKnownServers, monitorPc, pc, attempt, rtt, softEther, history,
                 bounds>>

\* disconnectVPN: the accountdisconnect command
DisconnectVPN ==
  /\ guiPc = "hangup"
  /\ guiPc' = "clear"
  /\ AccountDisconnect(gCurrentConnection)
  /\ UNCHANGED <<flags, gConnectionStateMutex, conn, gKnownServers, button, monitorPc,
                 pc, attempt, rtt, history, bounds>>

\* disconnectVPN: once the command has returned
DisconnectClearsFlag ==
  /\ guiPc = "clear"
  /\ guiPc' = "idle"
  /\ gVPNConnected' = FALSE
  /\ UNCHANGED <<gUserWantsConnection, gCancelConnectionAttempt, gConnectionStateMutex,
                 conn, gKnownServers, button, monitorPc, pc, attempt, rtt, softEther,
                 history, bounds>>

Gui == \/ \E t \in Threads : ClickConnect(t)
       \/ ClickCancel
       \/ ClickDisconnect
       \/ DisconnectVPN
       \/ DisconnectClearsFlag

----------------------------------------------------------------------------
(* The monitor thread: monitorConnection. *)

MonitorGoto(from, to) == /\ monitorPc = from
                         /\ monitorPc' = to

\* Every 5 seconds: anything to monitor?
MonitorWake ==
  /\ WithMonitor
  /\ gVPNConnected
  /\ MonitorGoto("sleep", "wait")
  /\ UNCHANGED <<flags, gConnectionStateMutex, conn, gKnownServers, gui, pc, attempt,
                 rtt, softEther, history, bounds>>

MonitorAcquire ==
  /\ gConnectionStateMutex = NoOwner
  /\ gConnectionStateMutex' = Monitor
  /\ MonitorGoto("wait", "check")
  /\ UNCHANGED <<flags, conn, gKnownServers, gui, pc, attempt, rtt, softEther,
                 history, bounds>>

\* checkConnection(), and then gVPNConnected = its result
MonitorCheck ==
  /\ MonitorGoto("check", IF linkUp THEN "seenUp" ELSE "seenDown")
  /\ UNCHANGED <<flags, gConnectionStateMutex, conn, gKnownServers, gui, pc, attempt,
                 rtt, softEther, history, bounds>>

MonitorStore ==
  /\ monitorPc \in {"seenUp", "seenDown"}
  /\ gVPNConnected' = (monitorPc = "seenUp")
  /\ monitorPc' = "test"
  /\ UNCHANGED <<gUserWantsConnection, gCancelConnectionAttempt, gConnectionStateMutex,
                 conn, gKnownServers, gui, pc, attempt, rtt, softEther, history,
                 bounds>>

\* Mutant: the test of the flag is the wrong way round.
MonitorTestNegated ==
  /\ MonitorGoto("test", IF gVPNConnected /\ gUserWantsConnection
                         THEN "show" ELSE "unlock")
  /\ UNCHANGED <<flags, gConnectionStateMutex, conn, gKnownServers, gui, pc, attempt,
                 rtt, softEther, history, bounds>>

\* if (!gVPNConnected && gUserWantsConnection)
MonitorTest ==
  /\ MonitorGoto("test", IF ~gVPNConnected /\ gUserWantsConnection
                         THEN "show" ELSE "unlock")
  /\ UNCHANGED <<flags, gConnectionStateMutex, conn, gKnownServers, gui, pc, attempt,
                 rtt, softEther, history, bounds>>

\* The buttons of a connection attempt.
MonitorShow ==
  /\ button' = "Cancel"
  /\ MonitorGoto("show", "rearm")
  /\ UNCHANGED <<flags, gConnectionStateMutex, conn, gKnownServers, guiPc, pc, attempt,
                 rtt, softEther, history, bounds>>

\* gCancelConnectionAttempt = false and ReleaseMutex, before CreateThread.
MonitorRearm ==
  /\ gCancelConnectionAttempt' = FALSE
  /\ gConnectionStateMutex' = NoOwner
  /\ MonitorGoto("rearm", "spawn")
  /\ UNCHANGED <<gVPNConnected, gUserWantsConnection, conn, gKnownServers, gui, pc,
                 attempt, rtt, softEther, history, bounds>>

MonitorSpawn(t) ==
  /\ MonitorGoto("spawn", "sleep")
  /\ Spawn(t)
  /\ UNCHANGED <<flags, gConnectionStateMutex, conn, gKnownServers, gui, attempt, rtt,
                 softEther, history, bounds>>

\* The other branch: ReleaseMutex and back to sleep.
MonitorUnlock ==
  /\ gConnectionStateMutex' = NoOwner
  /\ MonitorGoto("unlock", "sleep")
  /\ UNCHANGED <<flags, conn, gKnownServers, gui, pc, attempt, rtt, softEther,
                 history, bounds>>

MonitorStep == \/ MonitorWake \/ MonitorAcquire \/ MonitorCheck \/ MonitorStore
               \/ MonitorTest \/ MonitorShow \/ MonitorRearm \/ MonitorUnlock
               \/ \E t \in Threads : MonitorSpawn(t)

----------------------------------------------------------------------------
(* The attempt threads: connectionAttemptThread and what it calls. *)

\* What the steps of an attempt leave alone unless they say otherwise.
Elsewhere == UNCHANGED <<gUserWantsConnection, guiPc, monitorPc, previousAddr, bounds>>

\* A step that changes nothing but where the thread is.
Jump(t, from, to) ==
  /\ Goto(t, from, to)
  /\ Elsewhere
  /\ UNCHANGED <<flags, gConnectionStateMutex, conn, gKnownServers, button, attempt,
                 rtt, softEther, history>>

\* Mutant: the wait for the mutex times out.
AcquireAnyway(t) ==
  /\ gConnectionStateMutex' = t
  /\ Goto(t, "start", "config")
  /\ Elsewhere
  /\ UNCHANGED <<gVPNConnected, gCancelConnectionAttempt, gCurrentConnection,
                 gKnownServers, button, attempt, rtt, softEther, history>>

\* WaitForSingleObject(gConnectionStateMutex, INFINITE)
Acquire(t) ==
  /\ gConnectionStateMutex = NoOwner
  /\ gConnectionStateMutex' = t
  /\ Goto(t, "start", "config")
  /\ Elsewhere
  /\ UNCHANGED <<gVPNConnected, gCancelConnectionAttempt, gCurrentConnection,
                 gKnownServers, button, attempt, rtt, softEther, history>>

\* getSConfig, and the first call of tryConnectAnyServer.
ReadConfig(t) ==
  /\ Goto(t, "config", "top")
  /\ stage' = [stage EXCEPT ![t] = "known"]
  /\ todo' = [todo EXCEPT ![t] = gKnownServers]
  /\ okToNeedServer' = [okToNeedServer EXCEPT ![t] = TRUE]
  /\ Elsewhere
  /\ UNCHANGED <<gVPNConnected, gCancelConnectionAttempt, gConnectionStateMutex,
                 gCurrentConnection, gKnownServers, button, target, secondTry, rtt,
                 softEther, history>>

\* Mutant: the loop does not advance.
TakeUpAgain(t, s) == /\ target' = [target EXCEPT ![t] = s]
                     /\ UNCHANGED todo

\* The loops over gKnownServers and VPNGateServers go on to server s.
TakeUp(t, s) == /\ target' = [target EXCEPT ![t] = s]
                /\ todo' = [todo EXCEPT ![t] = @ \ {s}]

\* An attempt goes on to a dial: noted if its user has cancelled it.
GoOn(t) == /\ goneOn' = IF t \in cancelled THEN goneOn \cup {t} ELSE goneOn
           /\ UNCHANGED cancelled

\* Mutant: the flag is not looked at between servers.
NextServerUnchecked(t) ==
  /\ Goto(t, "top", "dial")
  /\ \E s \in todo[t] : TakeUp(t, s)
  /\ secondTry' = [secondTry EXCEPT ![t] = FALSE]
  /\ GoOn(t)
  /\ Elsewhere
  /\ UNCHANGED <<flags, gConnectionStateMutex, conn, gKnownServers, button, stage,
                 okToNeedServer, rtt, softEther>>

\* tryConnectAnyServer, top of the loop: give up if cancelled, else the next
\* server.
NextServer(t) ==
  /\ todo[t] # {}
  /\ \/ /\ gCancelConnectionAttempt
        /\ Goto(t, "top", "decide")
        /\ UNCHANGED <<todo, target, secondTry, history>>
     \/ /\ ~gCancelConnectionAttempt
        /\ Goto(t, "top", "dial")
        /\ \E s \in todo[t] : TakeUp(t, s)
        /\ secondTry' = [secondTry EXCEPT ![t] = FALSE]
        /\ GoOn(t)
  /\ Elsewhere
  /\ UNCHANGED <<flags, gConnectionStateMutex, conn, gKnownServers, button, stage,
                 okToNeedServer, rtt, softEther>>

\* Mutant: doubtful connectivity is not taken into account.
AllTriedRegardless(t) ==
  /\ todo[t] = {}
  /\ Jump(t, "top", "decide")

\* tryConnectAnyServer, after the loop: if some failure may have been our own
\* connectivity, tell the user and then pretend that they cancelled.
AllTried(t) ==
  /\ todo[t] = {}
  /\ Jump(t, "top", IF okToNeedServer[t] THEN "decide" ELSE "gaveUp")

GiveUp(t) ==
  /\ gCancelConnectionAttempt' = TRUE
  /\ Goto(t, "gaveUp", "decide")
  /\ Elsewhere
  /\ UNCHANGED <<gVPNConnected, gConnectionStateMutex, conn, gKnownServers, button,
                 attempt, rtt, softEther, history>>

\* connectToVPNServer: accountconnect. When there is no such setting it is
\* disconnected again and the result is CONNECT_SERVER_CLIENT_ERROR.
Dial(t) ==
  /\ \/ /\ Goto(t, "dial", "poll")
        /\ AccountConnect(target[t])
        /\ UNCHANGED linkUp
     \/ /\ Goto(t, "dial", IF stage[t] = "gate" THEN "gateLost" ELSE "top")
        /\ AccountDisconnect(target[t])
  /\ Elsewhere
  /\ UNCHANGED <<flags, gConnectionStateMutex, conn, gKnownServers, button, attempt,
                 rtt, history>>

\* connectToVPNServer: up to 80 times checkConnection, until it succeeds.
Poll(t) == Jump(t, "poll", IF linkUp THEN "won" ELSE "hangup")

\* connectToVPNServer: gVPNConnected = true ...
Won(t) ==
  /\ gVPNConnected' = TRUE
  /\ Goto(t, "won", "wonAddr")
  /\ Elsewhere
  /\ UNCHANGED <<gCancelConnectionAttempt, gConnectionStateMutex, gCurrentConnection,
                 gKnownServers, button, attempt, rtt, softEther, history>>

\* Mutant: the address is saved in the wrong variable's place, or not at all.
WonAddrWrongLocal(t) ==
  /\ gCurrentConnection' = todo[t]
  /\ rtt' = rtt \cup {t}
  /\ Goto(t, "wonAddr", "end")
  /\ Elsewhere
  /\ UNCHANGED <<gVPNConnected, gCancelConnectionAttempt, gConnectionStateMutex,
                 gKnownServers, button, attempt, softEther, history>>

WonAddrForgotten(t) ==
  /\ rtt' = rtt \cup {t}
  /\ Goto(t, "wonAddr", "end")
  /\ Elsewhere
  /\ UNCHANGED <<gVPNConnected, gCancelConnectionAttempt, gConnectionStateMutex,
                 gCurrentConnection, gKnownServers, button, attempt, softEther, history>>

\* ... then gCurrentConnection and the RTT thread. Every caller goes on to
\* EndConnAttemptThread.
WonAddr(t) ==
  /\ gCurrentConnection' = target[t]
  /\ rtt' = rtt \cup {t}
  /\ Goto(t, "wonAddr", "end")
  /\ Elsewhere
  /\ UNCHANGED <<gVPNConnected, gCancelConnectionAttempt, gConnectionStateMutex,
                 gKnownServers, button, attempt, softEther, history>>

\* Mutant: a failed server is left dialling.
HangupForgotten(t) ==
  \/ stage[t] = "gate" /\ Jump(t, "hangup", "gateLost")
  \/ stage[t] # "gate" /\ Jump(t, "hangup", IF secondTry[t] THEN "net2" ELSE "net1")
  \/ stage[t] # "gate" /\ Jump(t, "hangup", "top")

\* connectToVPNServer: accountdisconnect, then OFFLINE (a first one is double
\* checked, if there is internet) or ERROR, by what the HTTPS probe found.
Hangup(t) ==
  /\ \/ stage[t] = "gate" /\ Goto(t, "hangup", "gateLost")
     \/ stage[t] # "gate" /\ Goto(t, "hangup", IF secondTry[t] THEN "net2" ELSE "net1")
     \/ stage[t] # "gate" /\ Goto(t, "hangup", "top")
  /\ AccountDisconnect(target[t])
  /\ Elsewhere
  /\ UNCHANGED <<flags, gConnectionStateMutex, conn, gKnownServers, button, attempt,
                 rtt, history>>

\* connectedToInternet() after the first OFFLINE: try the server again.
InternetThenRetry(t) ==
  /\ Goto(t, "net1", "dial")
  /\ secondTry' = [secondTry EXCEPT ![t] = TRUE]
  /\ GoOn(t)
  /\ Elsewhere
  /\ UNCHANGED <<flags, gConnectionStateMutex, conn, gKnownServers, button, stage, todo,
                 target, okToNeedServer, rtt, softEther>>

\* connectedToInternet() after the second: the server counts as tried.
InternetThenTried(t) == Jump(t, "net2", "top")

\* Either check finds no internet.
NoInternet(t) ==
  /\ Goto(t, "net1", "top") \/ Goto(t, "net2", "top")
  /\ okToNeedServer' = [okToNeedServer EXCEPT ![t] = FALSE]
  /\ Elsewhere
  /\ UNCHANGED <<flags, gConnectionStateMutex, conn, gKnownServers, button, stage, todo,
                 target, secondTry, rtt, softEther, history>>

\* connectionAttemptThread, tryConnectAnyServer having failed.
Decide(t) == Jump(t, "decide", CASE gCancelConnectionAttempt -> "end"
                                  [] ~gCancelConnectionAttempt /\ stage[t] = "known" -> "needBox"
                                  [] OTHER -> "sorry")

\* The user dismisses "will ask for a new server"; the flag is checked again,
\* and needServer sends the request.
NeedBox(t) == Jump(t, "needBox", IF gCancelConnectionAttempt THEN "end" ELSE "needWait")

\* needServer: no request sent, no reply, or nothing usable in it.
NeedGotNone(t) == Jump(t, "needWait", "sorry")

\* needServer: a Salmon server; the second call of tryConnectAnyServer.
NeedGotSalmon(t) ==
  /\ Goto(t, "needWait", "top")
  /\ \E s \in Servers : gKnownServers' = gKnownServers \cup {s}
  /\ stage' = [stage EXCEPT ![t] = "renewed"]
  /\ todo' = [todo EXCEPT ![t] = gKnownServers']
  /\ okToNeedServer' = [okToNeedServer EXCEPT ![t] = TRUE]
  /\ Elsewhere
  /\ UNCHANGED <<flags, gConnectionStateMutex, conn, button, target, secondTry, rtt,
                 softEther, history>>

\* needServer: VPN Gate servers. The parsing stops after the first if the
\* attempt has been cancelled.
NeedGotGates(t) ==
  /\ Goto(t, "needWait", "gate")
  /\ \E some \in (SUBSET Gates) \ {{}} :
       /\ gCancelConnectionAttempt => Cardinality(some) = 1
       /\ todo' = [todo EXCEPT ![t] = some]
  /\ stage' = [stage EXCEPT ![t] = "gate"]
  /\ Elsewhere
  /\ UNCHANGED <<flags, gConnectionStateMutex, conn, gKnownServers, button, target,
                 secondTry, okToNeedServer, rtt, softEther, history>>

\* The loop over VPNGateServers: addVPNInfo, then connectToVPNServer.
NextGate(t) ==
  /\ \/ /\ todo[t] = {}
        /\ Goto(t, "gate", "end")
        /\ UNCHANGED <<todo, target, gKnownServers, history>>
     \/ /\ Goto(t, "gate", "dial")
        /\ \E s \in todo[t] : TakeUp(t, s) /\ gKnownServers' = gKnownServers \cup {s}
        /\ GoOn(t)
  /\ Elsewhere
  /\ UNCHANGED <<flags, gConnectionStateMutex, conn, button, stage, secondTry,
                 okToNeedServer, rtt, softEther>>

\* Mutant: the flag is not looked at after a VPN Gate server.
GateLostUnchecked(t) ==
  /\ gKnownServers' = gKnownServers \ {target[t]}
  /\ Goto(t, "gateLost", "gate")
  /\ Elsewhere
  /\ UNCHANGED <<flags, gConnectionStateMutex, conn, button, attempt, rtt, softEther,
                 history>>

\* It did not connect: it is erased from gKnownServers; the flag is checked.
GateLost(t) ==
  /\ gKnownServers' = gKnownServers \ {target[t]}
  /\ Goto(t, "gateLost", IF gCancelConnectionAttempt THEN "end" ELSE "gate")
  /\ Elsewhere
  /\ UNCHANGED <<flags, gConnectionStateMutex, conn, button, attempt, rtt, softEther,
                 history>>

\* The user dismisses "sorry, no servers available".
Sorry(t) == Jump(t, "sorry", "end")

\* EndConnAttemptThread: gCancelConnectionAttempt = false, the buttons, and
\* ReleaseMutex, where the thread and its locals end.
EndAttempt(t) ==
  /\ gCancelConnectionAttempt' = FALSE
  /\ Goto(t, "end", "endShow")
  /\ Elsewhere
  /\ UNCHANGED <<gVPNConnected, gConnectionStateMutex, conn, gKnownServers, button,
                 attempt, rtt, softEther, history>>

\* Mutant: the buttons always say that the attempt failed.
EndShowFailed(t) ==
  /\ button' = "Connect"
  /\ Goto(t, "endShow", "release")
  /\ Elsewhere
  /\ UNCHANGED <<flags, gConnectionStateMutex, conn, gKnownServers, attempt, rtt,
                 softEther, history>>

EndShow(t) ==
  /\ button' = IF gVPNConnected THEN "Disconnect" ELSE "Connect"
  /\ Goto(t, "endShow", "release")
  /\ Elsewhere
  /\ UNCHANGED <<flags, gConnectionStateMutex, conn, gKnownServers, attempt, rtt,
                 softEther, history>>

Release(t) ==
  /\ gConnectionStateMutex' = NoOwner
  /\ Goto(t, "release", "off")
  /\ stage' = [stage EXCEPT ![t] = "known"]
  /\ todo' = [todo EXCEPT ![t] = {}]
  /\ target' = [target EXCEPT ![t] = NoServer]
  /\ secondTry' = [secondTry EXCEPT ![t] = FALSE]
  /\ okToNeedServer' = [okToNeedServer EXCEPT ![t] = TRUE]
  /\ cancelled' = cancelled \ {t}
  /\ goneOn' = goneOn \ {t}
  /\ Elsewhere
  /\ UNCHANGED <<flags, conn, gKnownServers, button, rtt, softEther>>

\* measureCurRTT_Thread, up to the write of previousaddr.txt: only an address
\* still in gKnownServers is saved.
RttSaves(t) ==
  /\ t \in rtt
  /\ rtt' = rtt \ {t}
  /\ previousAddr' = IF gCurrentConnection \in gKnownServers
                     THEN gCurrentConnection ELSE previousAddr
  /\ UNCHANGED <<flags, gConnectionStateMutex, gCurrentConnection, gKnownServers, gui,
                 monitorPc, pc, attempt, softEther, history, bounds>>

AttemptStep(t) ==
  \/ Acquire(t) \/ ReadConfig(t) \/ NextServer(t) \/ AllTried(t) \/ GiveUp(t)
  \/ Dial(t) \/ Poll(t) \/ Won(t) \/ WonAddr(t) \/ Hangup(t)
  \/ InternetThenRetry(t) \/ InternetThenTried(t) \/ NoInternet(t)
  \/ Decide(t) \/ NeedBox(t) \/ NeedGotNone(t) \/ NeedGotSalmon(t)
  \/ NeedGotGates(t) \/ NextGate(t) \/ GateLost(t) \/ Sorry(t)
  \/ EndAttempt(t) \/ EndShow(t) \/ Release(t)

Next == \/ Gui \/ MonitorStep
        \/ \E t \in Threads : AttemptStep(t) \/ RttSaves(t)
        \/ LinkUp \/ DialExpires \/ LinkDown
        \/ Restart

Spec == Init /\ [][Next]_vars

\* Threads run; the user dismisses the message boxes of an attempt, and the
\* directory server's reply or the mail timeout arrives. A mutex of Windows is
\* handed over in about the order of the requests: no waiter starves. Nothing is
\* assumed of the user's clicks, of SoftEther or of the network.
Fairness == /\ WF_vars(DisconnectVPN) /\ WF_vars(DisconnectClearsFlag)
            /\ WF_vars(MonitorStep) /\ SF_vars(MonitorAcquire)
            /\ \A t \in Threads : WF_vars(AttemptStep(t)) /\ SF_vars(Acquire(t))
                                /\ WF_vars(RttSaves(t))

FairSpec == Spec /\ Fairness

----------------------------------------------------------------------------
(* Properties. *)

\* What the threads share.
SharedTypeOK ==
  /\ gVPNConnected \in BOOLEAN
  /\ gUserWantsConnection \in BOOLEAN
  /\ gCancelConnectionAttempt \in BOOLEAN
  /\ gConnectionStateMutex \in Threads \cup {Monitor, NoOwner}
  /\ gCurrentConnection \in Addresses \cup {NoServer}
  /\ gKnownServers \in SUBSET Addresses
  /\ button \in {"Connect", "Cancel", "Disconnect"}
  /\ guiPc \in {"idle", "hangup", "clear"}
  /\ monitorPc \in MonitorPc

\* The attempts and their locals.
AttemptTypeOK ==
  /\ pc \in [Threads -> AttemptPc]
  /\ stage \in [Threads -> {"known", "renewed", "gate"}]
  /\ todo \in [Threads -> SUBSET Addresses]
  /\ target \in [Threads -> Addresses \cup {NoServer}]
  /\ secondTry \in [Threads -> BOOLEAN]
  /\ okToNeedServer \in [Threads -> BOOLEAN]
  /\ rtt \in SUBSET Threads
  /\ cancelled \in SUBSET Threads
  /\ goneOn \in SUBSET Threads

\* What outlives the program, and the bounds.
OutsideTypeOK ==
  /\ previousAddr \in Addresses \cup {NoServer}
  /\ account \in Addresses \cup {NoServer}
  /\ linkUp \in BOOLEAN
  /\ drops \in Nat
  /\ restarts \in Nat

\* Every variable has its type.
TypeOK == SharedTypeOK /\ AttemptTypeOK /\ OutsideTypeOK

\* Attempts do not overlap, and none runs between the monitor's look at the
\* connection and its decision ("to keep the connection monitor thread from
\* stepping on the toes of an ongoing connection attempt").
AttemptsExclusive ==
  /\ \A t, u \in Threads :
       pc[t] \in AttemptSection /\ pc[u] \in AttemptSection => t = u
  /\ monitorPc \in MonitorSection => \A t \in Threads : pc[t] \notin AttemptSection

\* The directory server is asked for a new server only after every known server
\* was tried, and not if a failure may have been our own connectivity.
NeedServerJustified ==
  \A t \in Threads : pc[t] = "needWait" => todo[t] = {} /\ okToNeedServer[t]

\* An attempt whose user does not want a connection has been told to stop.
UnwantedIsCancelled ==
  \A t \in Threads : pc[t] \in AtWork => gUserWantsConnection \/ gCancelConnectionAttempt

\* The Disconnect button is only offered with the address of the server that is
\* connected in gCurrentConnection, so that pressing it ends that connection.
DisconnectHitsConnected ==
  button = "Disconnect" /\ linkUp => gCurrentConnection = account

\* When nothing is going on and the user wants a connection, the button shown
\* agrees with what the program believes of the connection.
ButtonAgrees ==
  /\ guiPc = "idle"
  /\ monitorPc \in {"sleep", "wait"}
  /\ \A t \in Threads : pc[t] = "off"
  /\ gUserWantsConnection
  => (button = "Disconnect" <=> gVPNConnected)

\* An attempt that connects to nobody leaves nothing dialling behind it: the next
\* server finds the adapter free.
AdapterFreeToDial ==
  \A t \in Threads : pc[t] = "dial" => account = NoServer

\* A cancelled attempt takes no other server from its list and sends no request to the
\* directory server. It may dial once more, no oftener: the flag is not looked at before
\* the double check of the server in hand (connect_attempt.cpp:122), nor before a VPN
\* Gate server is dialled (306-317), but only after it.
CancelHonoured ==
  [][\A t \in cancelled :
       /\ pc[t] # "dial" /\ pc'[t] = "dial" =>
            /\ t \notin goneOn
            /\ pc[t] = "gate" \/ (pc[t] = "net1" /\ target'[t] = target[t])
       /\ pc[t] # "needWait" => pc'[t] # "needWait"]_vars

\* Every attempt ends, and gives the mutex back.
AttemptEnds ==
  \A t \in Threads : pc[t] # "off" ~> pc[t] = "off"

\* A lost connection is noticed, whatever the monitor, the buttons and a running
\* attempt do meanwhile; and if the user still wants it, an attempt follows.
LossIsRepaired ==
  gVPNConnected /\ ~linkUp
    ~> linkUp \/ AttemptAlive \/ (~gVPNConnected /\ ~gUserWantsConnection)

=============================================================================
