------------------------- MODULE ConnectionSettings -------------------------
(***************************************************************************)
(* How Salmon makes the SoftEther "connection setting" of one server       *)
(* (createConnectionSetting, createVPNGateConnectionSetting in             *)
(* control_softether.cpp). It talks to SoftEther by running vpncmd; a      *)
(* command has its effect some time after vpncmd has returned ("SoftEther  *)
(* asynchronicity"), and nothing is assumed of the order (external). A     *)
(* command for a setting that does not exist has no effect, and neither    *)
(* has accountcreate for one that does: a setting left by another account, *)
(* or made by hand, is corrected field by field.                           *)
(*                                                                         *)
(* A setting is the set of its fields that are as wanted; accountset sets  *)
(* host, port and hub, which are one field here. A command that is given   *)
(* again before it has taken effect is one command.                        *)
(***************************************************************************)
EXTENDS Sequences

Kinds  == {"Salmon", "VPN Gate"}
Fields == {"exists", "certOn", "cert", "auth", "user", "place"}
Commands == (Fields \ {"exists"}) \cup {"create", "delete", "connect"}

VARIABLES
  kind,
  setting,  \* SoftEther's setting for the server
  pending,  \* commands that have not had their effect yet
  pc,       \* where the thread is that makes the setting
  todo,     \* the commands it gives before it looks again
  wiped,    \* history: the setting has been told to go
  dialled   \* history: the last dial: the setting, and what was still on its way to it

vars == <<kind, setting, pending, pc, todo, wiped, dialled>>

\* The server may have a setting already, with anything in it.
Init == /\ kind \in Kinds
        /\ setting \in {{}} \cup {s \in SUBSET Fields : "exists" \in s}
        /\ pending = {}
        /\ pc = "idle"
        /\ todo = <<>>
        /\ wiped = FALSE
        /\ dialled = {}

----------------------------------------------------------------------------
(* Commands: systemNice starts vpncmd and waits for it to return. *)

Give(command) == /\ pending' = pending \cup {command}
                 /\ UNCHANGED <<kind, setting, dialled>>

After(command) ==
  CASE command = "create"  -> IF "exists" \in setting THEN setting
                              ELSE {"exists", "user", "place"}
    [] command = "delete"  -> {}
    [] command = "connect" -> setting
    [] OTHER               -> IF "exists" \in setting THEN setting \cup {command}
                              ELSE setting

TakeEffect(command) ==
  /\ command \in pending
  /\ pending' = pending \ {command}
  /\ setting' = After(command)
  /\ dialled' = IF command = "connect"
                THEN {[has |-> setting, late |-> pending \ {"connect"}]}
                ELSE dialled
  /\ UNCHANGED <<kind, pc, todo, wiped>>

----------------------------------------------------------------------------
(* Making the setting. accountget shows what has taken effect by now. *)

AccountCreate == /\ pc = "idle"
                 /\ pc' = "enabling"
                 /\ Give("create")
                 /\ UNCHANGED <<todo, wiped>>

\* "Verify Server Certificate" is there, and does not say "Disable".
CertsEnabled == {"exists", "certOn"} \subseteq setting

\* Mutant: the loop only looks.
WaitForCerts == pc = "enabling" /\ ~CertsEnabled /\ UNCHANGED vars

\* The account does not exist yet, or does not check certificates: try again.
EnableCerts == /\ pc = "enabling"
               /\ ~CertsEnabled
               /\ Give("certOn")
               /\ UNCHANGED <<pc, todo, wiped>>

\* Mutant: what accountcreate was given is not given again.
TrustCreate(k) == <<"cert", "auth">>

\* Certificate, password or anonymous log-in, user name, address and hub.
Corrections(k) == IF k = "Salmon" THEN <<"cert", "auth", "user", "place">>
                  ELSE <<"cert", "auth", "place">>

SeeCertsEnabled == /\ pc = "enabling"
                   /\ CertsEnabled
                   /\ pc' = "correcting"
                   /\ todo' = Corrections(kind)
                   /\ UNCHANGED <<kind, setting, pending, wiped, dialled>>

Correct == /\ pc = "correcting"
           /\ todo # <<>>
           /\ todo' = Tail(todo)
           /\ Give(Head(todo))
           /\ UNCHANGED <<pc, wiped>>

\* The user name is not there: give the password and the user name again.
NameAgain == todo' = <<"auth", "user">> /\ UNCHANGED pc

\* With all commands given, a Salmon server's user name is waited for.
CheckName == /\ pc = "correcting"
             /\ todo = <<>>
             /\ IF kind = "VPN Gate" \/ {"exists", "user"} \subseteq setting
                THEN pc' = "made" /\ UNCHANGED todo
                ELSE NameAgain
             /\ UNCHANGED <<kind, setting, pending, wiped, dialled>>

----------------------------------------------------------------------------
(* Others. *)

\* connectToVPNServer, once the setting has been made.
AccountConnect == /\ pc = "made"
                  /\ Give("connect")
                  /\ UNCHANGED <<pc, todo, wiped>>

\* deleteConnectionSettings, from the GUI thread: the user wipes the configuration.
AccountDelete == /\ ~wiped
                 /\ wiped' = TRUE
                 /\ Give("delete")
                 /\ UNCHANGED <<pc, todo>>

Make == AccountCreate \/ EnableCerts \/ SeeCertsEnabled \/ Correct \/ CheckName

Next == Make \/ (\E c \in Commands : TakeEffect(c)) \/ AccountConnect \/ AccountDelete

Spec == Init /\ [][Next]_vars

\* SoftEther gets round to every command, and the thread runs.
FairSpec == Spec /\ (\A c \in Commands : WF_vars(TakeEffect(c))) /\ WF_vars(Make)

----------------------------------------------------------------------------
(* Properties. *)

\* Every variable has its type.
TypeOK == /\ kind \in Kinds
          /\ setting \subseteq Fields
          /\ pending \subseteq Commands
          /\ pc \in {"idle", "enabling", "correcting", "made"}
          /\ todo \in Seq(Commands)
          /\ wiped \in BOOLEAN
          /\ dialled \subseteq [has : SUBSET Fields, late : SUBSET Commands]

\* What the two loops have seen in the setting.
Awaited == {"exists", "certOn"} \cup (IF kind = "Salmon" THEN {"user"} ELSE {})

\* What the setting is to have. The user name that a VPN Gate server's setting had
\* before is not corrected.
Wanted == Awaited \cup {"cert", "auth", "place"}

\* "the connection setting should be pre-loaded with that ipaddr's cert, and the correct
\* username and password" (control_softether.cpp:504). The code waits for neither the
\* certificate nor the password nor the address before it dials, so it may dial without
\* them. But whatever was in the setting before, every dial has what has been waited
\* for, and what else it lacks has been asked for, not lost, and is only late.
DialledAsWanted ==
  ~wiped => \A dial \in dialled : /\ Awaited \subseteq dial.has
                                  /\ Wanted \subseteq dial.has \cup dial.late

\* The loops that wait for SoftEther end, however late and in whatever order it takes
\* the commands, and though those that come before the setting are lost; unless the
\* setting is deleted meanwhile: then they look for it for ever.
SettingIsMade == pc = "enabling" ~> pc = "made" \/ wiped
=============================================================================
