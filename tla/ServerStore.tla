---------------------------- MODULE ServerStore ----------------------------
(***************************************************************************)
(* What the client knows of its servers and where it keeps it: the list    *)
(* gKnownServers in memory, SConfig.txt with a copy of it, SalmonConfig.txt *)
(* with the account (salmon_config.cpp), and the connection settings of    *)
(* SoftEther. The operations are those of a session: start, login and      *)
(* registration, attempts with the servers and purges that needServer      *)
(* brings, measureCurRTT_Thread, and wiping. The program may be killed or  *)
(* closed at any step; a file is truncated when it is opened for writing   *)
(* and has its new contents only when it is closed.                        *)
(*                                                                         *)
(* Of the GUI, the callback of a login and an attempt one is at work at a  *)
(* time, and pc is where it is: the user waits for them before the next    *)
(* click. Nobody sees the thread that measures the RTT, and the user does  *)
(* not wait for it: it may save the list during the next attempt, or while *)
(* everything is wiped. There is one such thread at a time. The order of   *)
(* the list is left out: TryServers.tla has it. The directory server's     *)
(* replies, and so the lines of the files, are well-formed.                *)
(***************************************************************************)
EXTENDS Naturals, Sequences, FiniteSets

CONSTANTS
  Servers,    \* Salmon servers' addresses
  AccountServers, \* those that a login may bring
  Gates,      \* VPN Gate servers' addresses
  NoServer,   \* no address
  Contains    \* for an address, the addresses in whose text it occurs

Addresses == Servers \cup Gates

ASSUME StoreAssumption ==
  /\ AccountServers \subseteq Servers
  /\ NoServer \notin Addresses
  /\ Contains \in [Addresses -> SUBSET Addresses]
  /\ \A a \in Addresses : a \in Contains[a]

VARIABLES
  gKnownServers,      \* for each address, the number of its entries
  gBaseVPNPassword,   \* "none", "BLANK" or "good"
  gCurrentConnection, \* its address, until the last one to read it here has done so
  gServerInfoMutex,   \* its owner
  sConfig,            \* SConfig.txt; without entries when empty or missing
  salmonConfig,       \* SalmonConfig.txt
  settings,           \* SoftEther: the addresses with a connection setting
  shown,              \* the window shown; "gone" after a wipe
  pc,                 \* where the GUI, the callback or the attempt is
  rttPc,              \* where measureCurRTT_Thread is
  after,              \* return addresses
  account, entries,   \* locals: contents to be written to the two files
  target,             \* local: the address at hand
  toPurge, gates,     \* locals: the rest of a needServer reply
  asked,              \* local: needServer has been sent in this attempt
  purged,             \* history: servers we were told to forget
  wiped,              \* history: servers known when Wipe was clicked
  cut                 \* history: what a kill has cut short, or a wipe has overtaken

memory  == <<gKnownServers, gBaseVPNPassword, gCurrentConnection>>
files   == <<sConfig, salmonConfig>>
buffers == <<account, entries, target>>
reply   == <<toPurge, gates, asked>>
history == <<purged, wiped, cut>>
vars == <<memory, gServerInfoMutex, files, settings, shown, pc, rttPc, after,
          buffers, reply, history>>

----------------------------------------------------------------------------
(* Contents. *)

NoEntries == [a \in Addresses |-> 0]
AddrsOf(list) == {a \in Addresses : list[a] > 0}

\* list with one more entry for each of the addresses
PushBack(list, addrs) == [a \in Addresses |-> IF a \in addrs THEN list[a] + 1 ELSE list[a]]

\* A missing or empty SalmonConfig.txt, and one with only a trust level.
NoAccount    == [pw |-> "none", servers |-> {}]
BlankAccount == [pw |-> "BLANK", servers |-> {}]

Init ==
  /\ gKnownServers = NoEntries
  /\ gBaseVPNPassword = "none"
  /\ gCurrentConnection = NoServer
  /\ gServerInfoMutex = "nobody"
  /\ sConfig = NoEntries
  /\ salmonConfig = NoAccount
  /\ settings = {}
  /\ shown = "login"
  /\ pc = "off"
  /\ rttPc = "off"
  /\ after = <<>>
  /\ account = NoAccount
  /\ entries = NoEntries
  /\ target = NoServer
  /\ toPurge = {}
  /\ gates = {}
  /\ asked = FALSE
  /\ purged = {}
  /\ wiped = {}
  /\ cut = {}

Goto(from, to) == pc = from /\ pc' = to

\* A function returns; getSConfig's result matters to the login only.
Return == /\ pc' = Head(after)
          /\ after' = Tail(after)
ReturnWith(ok) == /\ pc' = IF Head(after) = "welcome" /\ ~ok THEN "mail" ELSE Head(after)
                  /\ after' = Tail(after)

Call(function, then) == /\ pc' = function
                        /\ after' = then

\* No thread that the user can see has anything left to do; none has.
Idle == pc = "idle"
Resting == Idle /\ rttPc = "off"

----------------------------------------------------------------------------
(* Start, trust level. *)

\* initSalmonClient, and trustLevelDisplayAndWriteFile(readTrustFromFile()).
\* checkTrustCountdown may write the level once more.
Start == /\ pc = "off"
         /\ \/ Call("trust", <<"idle">>)
            \/ Call("trust", <<"trust", "idle">>)
         /\ shown' = "login"
         /\ purged' = IF shown = "gone" THEN {} ELSE purged
         /\ wiped' = {}
         /\ UNCHANGED <<memory, gServerInfoMutex, files, settings, rttPc, buffers, reply,
                        cut>>

\* getRecMailCallback and redeemCodeMailCallback, whose replies may change it
TrustMailCallback == /\ Resting
                     /\ shown = "main"
                     /\ Call("trust", <<"idle">>)
                     /\ UNCHANGED <<memory, gServerInfoMutex, files, settings, shown,
                                    rttPc, buffers, reply, history>>

\* writeTrustToFile reads the file and opens it for writing. What is too short
\* for a password is replaced.
OpenForTrust == /\ Goto("trust", "trustFill")
                /\ account' = IF salmonConfig.pw = "good" THEN salmonConfig ELSE BlankAccount
                /\ salmonConfig' = NoAccount
                /\ UNCHANGED <<memory, gServerInfoMutex, sConfig, settings, shown, rttPc,
                               after, entries, target, reply, history>>

WriteTrust == /\ pc = "trustFill"
              /\ salmonConfig' = account
              /\ account' = NoAccount
              /\ Return
              /\ UNCHANGED <<memory, gServerInfoMutex, sConfig, settings, shown, rttPc,
                             entries, target, reply, history>>

----------------------------------------------------------------------------
(* getSConfig. *)

\* gKnownServers.clear()
Clear == /\ Goto("clear", "load")
         /\ gKnownServers' = NoEntries
         /\ UNCHANGED <<gBaseVPNPassword, gCurrentConnection, gServerInfoMutex, files,
                        settings, shown, rttPc, after, buffers, reply, history>>

\* readExistingSConfig: each address of the file once; then the password.
ReadExistingSConfig ==
  /\ pc = "load"
  /\ sConfig # NoEntries
  /\ gKnownServers' = PushBack(gKnownServers, AddrsOf(sConfig))
  /\ gBaseVPNPassword' = IF salmonConfig.pw = "none" THEN gBaseVPNPassword
                                                    ELSE salmonConfig.pw
  /\ ReturnWith(salmonConfig.pw # "none" /\ gKnownServers' # NoEntries)
  /\ UNCHANGED <<gCurrentConnection, gServerInfoMutex, files, settings, shown, rttPc,
                 buffers, reply, history>>

\* generate_S_from_SalmonConfig is called by getSConfig, or by the login callback.
Generating == pc = "generate" \/ (pc = "load" /\ sConfig = NoEntries)

\* Its first line is too short for a password: the file is deleted.
UnlinkSalmonConfig ==
  /\ Generating
  /\ salmonConfig.pw # "good"
  /\ salmonConfig' = NoAccount
  /\ ReturnWith(FALSE)
  /\ UNCHANGED <<memory, gServerInfoMutex, sConfig, settings, shown, rttPc, buffers,
                 reply, history>>

\* Mutant: "BLANK" is taken for a password.
GenerateFromAnything ==
  /\ Generating
  /\ gBaseVPNPassword' = salmonConfig.pw
  /\ gKnownServers' = PushBack(gKnownServers, salmonConfig.servers)
  /\ Call("save", <<"settings">> \o after)
  /\ UNCHANGED <<gCurrentConnection, gServerInfoMutex, files, settings, shown, rttPc,
                 buffers, reply, history>>

\* The account's servers are added to the list, the list is saved, and each server
\* gets its connection setting.
GenerateFromSalmonConfig ==
  /\ Generating
  /\ salmonConfig.pw = "good"
  /\ gBaseVPNPassword' = "good"
  /\ gKnownServers' = PushBack(gKnownServers, salmonConfig.servers)
  /\ Call("save", <<"settings">> \o after)
  /\ UNCHANGED <<gCurrentConnection, gServerInfoMutex, files, settings, shown, rttPc,
                 buffers, reply, history>>

\* createConnectionSetting for one server after the other
CreateConnectionSettings ==
  LET missing == AddrsOf(gKnownServers) \ settings IN
  /\ pc = "settings"
  /\ \/ missing = {} /\ Return /\ UNCHANGED settings
     \/ \E a \in missing : settings' = settings \cup {a} /\ UNCHANGED <<pc, after>>
  /\ UNCHANGED <<memory, gServerInfoMutex, files, shown, rttPc, buffers, reply, history>>

----------------------------------------------------------------------------
(* writeSConfigFromKnownServers: under the mutex, from opening to closing. *)

\* The work's call of it, and the RTT thread's.
OpenSConfig(thread, place) ==
  /\ place = "save"
  /\ gServerInfoMutex = "nobody"
  /\ gServerInfoMutex' = thread
  /\ sConfig' = NoEntries

\* Mutant: the mutex is kept.
WriteSConfigKeepMutex(thread, place) ==
  /\ place = "fill"
  /\ sConfig' = gKnownServers
  /\ UNCHANGED gServerInfoMutex

WriteSConfig(thread, place) ==
  /\ place = "fill"
  /\ sConfig' = gKnownServers
  /\ gServerInfoMutex' = "nobody"

SaveOpens == /\ OpenSConfig("work", pc)
             /\ pc' = "fill"
             /\ UNCHANGED <<memory, salmonConfig, settings, shown, rttPc, after, buffers,
                            reply, history>>

SaveCloses == /\ WriteSConfig("work", pc)
              /\ Return
              /\ UNCHANGED <<memory, salmonConfig, settings, shown, rttPc, buffers, reply,
                             history>>

\* measureCurRTT_Thread: nothing to do for a server that is not in the list.
RttFinds == /\ rttPc = "find"
            /\ rttPc' = IF gCurrentConnection \in AddrsOf(gKnownServers) THEN "save" ELSE "off"
            /\ gCurrentConnection' = NoServer
            /\ UNCHANGED <<gKnownServers, gBaseVPNPassword, gServerInfoMutex, files,
                           settings, shown, pc, after, buffers, reply, history>>

RttSaveOpens == /\ OpenSConfig("rtt", rttPc)
                /\ rttPc' = "fill"
                /\ UNCHANGED <<memory, salmonConfig, settings, shown, pc, after, buffers,
                               reply, history>>

RttSaveCloses == /\ WriteSConfig("rtt", rttPc)
                 /\ rttPc' = "off"
                 /\ UNCHANGED <<memory, salmonConfig, settings, shown, pc, after, buffers,
                                reply, history>>

----------------------------------------------------------------------------
(* Login and registration. *)

ClickLogin == /\ Resting
              /\ shown = "login"
              /\ Call("clear", <<"welcome", "idle">>)
              /\ UNCHANGED <<memory, gServerInfoMutex, files, settings, shown, rttPc,
                             buffers, reply, history>>

\* "there was enough config info present": the main window.
Welcome == /\ pc = "welcome"
           /\ shown' = "main"
           /\ Return
           /\ UNCHANGED <<memory, gServerInfoMutex, files, settings, rttPc, buffers, reply,
                          history>>

\* loginMailCallback: the reply has the account and its servers.
LoginMailCallback(addrs) ==
  /\ pc = "mail"
  /\ shown' = "main"
  /\ account' = [pw |-> "good", servers |-> addrs]
  /\ Call("account", <<"trust", "generate", "idle">>)
  /\ purged' = purged \ addrs
  /\ UNCHANGED <<memory, gServerInfoMutex, files, settings, rttPc, entries, target, reply,
                 wiped, cut>>

\* No reply, an error, or the user cancels.
LoginFails == /\ pc = "mail"
              /\ Return
              /\ UNCHANGED <<memory, gServerInfoMutex, files, settings, shown, rttPc,
                             buffers, reply, history>>

\* recRegMailCallback, which writes the trust level too, and finishRegMailCallback
RegisterMailCallback ==
  /\ Resting
  /\ shown = "login"
  /\ shown' = "main"
  /\ account' = [pw |-> "good", servers |-> {}]
  /\ \/ Call("account", <<"trust", "idle">>)
     \/ Call("account", <<"idle">>)
  /\ UNCHANGED <<memory, gServerInfoMutex, files, settings, rttPc, entries, target, reply,
                 history>>

\* The callbacks write SalmonConfig.txt anew.
OpenSalmonConfig == /\ Goto("account", "accountFill")
                    /\ salmonConfig' = NoAccount
                    /\ UNCHANGED <<memory, gServerInfoMutex, sConfig, settings, shown,
                                   rttPc, after, buffers, reply, history>>

WriteSalmonConfig == /\ pc = "accountFill"
                     /\ salmonConfig' = account
                     /\ account' = NoAccount
                     /\ Return
                     /\ UNCHANGED <<memory, gServerInfoMutex, sConfig, settings, shown,
                                    rttPc, entries, target, reply, history>>

----------------------------------------------------------------------------
(* An attempt: connectionAttemptThread. *)

ClickConnect == /\ Idle
                /\ shown = "main"
                /\ Call("clear", <<"sweep">>)
                /\ asked' = FALSE
                /\ UNCHANGED <<memory, gServerInfoMutex, files, settings, shown, rttPc,
                               buffers, toPurge, gates, history>>

\* connectToVPNServer succeeds and starts the RTT thread.
Connected(a) == /\ a \in settings
                /\ rttPc = "off"
                /\ gCurrentConnection' = a
                /\ rttPc' = "find"

SweepConnects == /\ Goto("sweep", "idle")
                 /\ \E a \in AddrsOf(gKnownServers) : Connected(a)
                 /\ UNCHANGED <<gKnownServers, gBaseVPNPassword, gServerInfoMutex, files,
                                settings, shown, after, buffers, reply, history>>

\* Cancelled, or the internet is in doubt.
SweepStops == /\ Goto("sweep", "idle")
              /\ UNCHANGED <<memory, gServerInfoMutex, files, settings, shown, rttPc, after,
                             buffers, reply, history>>

\* Nobody answers: the list is saved, and needServer sent if it has not been.
SweepFails ==
  LET then == IF asked THEN "idle" ELSE "ask" IN
  /\ pc = "sweep"
  /\ IF gKnownServers = NoEntries THEN pc' = then /\ UNCHANGED after
                                 ELSE Call("save", <<then>>)
  /\ UNCHANGED <<memory, gServerInfoMutex, files, settings, shown, rttPc, buffers, reply,
                 history>>

\* Mutant: an address that is in the list gets a second entry.
AddVPNInfoTwice(a) == /\ gServerInfoMutex = "nobody"
                      /\ gKnownServers' = PushBack(gKnownServers, {a})
                      /\ target' = a

\* addVPNInfo, under the mutex: add or overwrite the entry; its connection setting
\* is next.
AddVPNInfo(a) == /\ gServerInfoMutex = "nobody"
                 /\ gKnownServers' = PushBack(gKnownServers, {a} \ AddrsOf(gKnownServers))
                 /\ target' = a

\* Mutant: overwriting an entry creates no setting, nor does adding one.
AddedSettingForgotten ==
  /\ pc = "addSetting"
  /\ Return
  /\ UNCHANGED <<memory, gServerInfoMutex, files, settings, shown, rttPc, buffers, reply,
                 history>>

AddedSetting == /\ pc = "addSetting"
                /\ settings' = settings \cup {target}
                /\ Return
                /\ UNCHANGED <<memory, gServerInfoMutex, files, shown, rttPc, buffers,
                               reply, history>>

\* What may be purged, one server at most, by a reply that brings these servers.
Purges(brought) == {{}} \cup {{a} : a \in Addresses \ brought}

\* needServer: no reply, or one with neither a server nor VPN Gate's.
NeedServerGotNone ==
  /\ pc = "ask"
  /\ asked' = TRUE
  /\ toPurge' \in Purges({})
  /\ Call("purge", <<"idle">>)
  /\ UNCHANGED <<memory, gServerInfoMutex, files, settings, shown, rttPc, buffers, gates,
                 history>>

\* Mutant: the new server is not saved.
GotSalmonUnsaved(a) ==
  /\ pc = "ask"
  /\ asked' = TRUE
  /\ toPurge' \in Purges({a})
  /\ AddVPNInfo(a)
  /\ Call("addSetting", <<"purge", "sweep">>)
  /\ purged' = purged \ {a}
  /\ UNCHANGED <<gBaseVPNPassword, gCurrentConnection, gServerInfoMutex, files, settings,
                 shown, rttPc, account, entries, gates, wiped, cut>>

\* needServer: parseNewSalmonServer adds the server and saves the list; then the
\* purges, and the second sweep.
NeedServerGotSalmon(a) ==
  /\ pc = "ask"
  /\ asked' = TRUE
  /\ toPurge' \in Purges({a})
  /\ AddVPNInfo(a)
  /\ Call("addSetting", <<"save", "purge", "sweep">>)
  /\ purged' = purged \ {a}
  /\ UNCHANGED <<gBaseVPNPassword, gCurrentConnection, gServerInfoMutex, files, settings,
                 shown, rttPc, account, entries, gates, wiped, cut>>

\* needServer: VPN Gate servers, tried when the purges are done.
NeedServerGotGates ==
  /\ pc = "ask"
  /\ asked' = TRUE
  /\ gates' \in (SUBSET Gates) \ {{}}
  /\ toPurge' \in Purges(gates')
  /\ Call("purge", <<"gate">>)
  /\ purged' = purged \ gates'
  /\ UNCHANGED <<memory, gServerInfoMutex, files, settings, shown, rttPc, buffers, wiped,
                 cut>>

NextGate(g) == /\ pc = "gate"
               /\ g \in gates
               /\ gates' = gates \ {g}
               /\ AddVPNInfo(g)
               /\ Call("addSetting", <<"gateDial">>)
               /\ UNCHANGED <<gBaseVPNPassword, gCurrentConnection, gServerInfoMutex, files,
                              settings, shown, rttPc, account, entries, toPurge, asked,
                              history>>

NoMoreGates == /\ gates = {}
               /\ Goto("gate", "idle")
               /\ UNCHANGED <<memory, gServerInfoMutex, files, settings, shown, rttPc,
                              after, buffers, reply, history>>

\* A VPN Gate server that works is saved with the list.
GateConnects == /\ pc = "gateDial"
                /\ Connected(target)
                /\ Call("save", <<"idle">>)
                /\ UNCHANGED <<gKnownServers, gBaseVPNPassword, gServerInfoMutex, files,
                               settings, shown, buffers, reply, history>>

\* One that does not is erased; the attempt goes on or is cancelled.
GateFails == /\ pc = "gateDial"
             /\ gKnownServers' = [gKnownServers EXCEPT ![target] = @ - 1]
             /\ pc' \in {"gate", "idle"}
             /\ UNCHANGED <<gBaseVPNPassword, gCurrentConnection, gServerInfoMutex, files,
                            settings, shown, rttPc, after, buffers, reply, history>>

----------------------------------------------------------------------------
(* purgeServer edits the two files, without the mutex. *)

NothingToPurge == /\ pc = "purge"
                  /\ toPurge = {}
                  /\ Return
                  /\ UNCHANGED <<memory, gServerInfoMutex, files, settings, shown, rttPc,
                                 buffers, reply, history>>

\* An empty or missing SConfig.txt: SalmonConfig.txt is not looked at either.
PurgeReturnsEarly(a) == /\ pc = "purge"
                        /\ a \in toPurge
                        /\ sConfig = NoEntries
                        /\ toPurge' = toPurge \ {a}
                        /\ UNCHANGED <<memory, gServerInfoMutex, files, settings, shown,
                                       pc, rttPc, after, buffers, gates, asked, history>>

PurgeOpensSConfig(a) == /\ Goto("purge", "purgeFill")
                        /\ a \in toPurge
                        /\ sConfig # NoEntries
                        /\ toPurge' = toPurge \ {a}
                        /\ target' = a
                        /\ entries' = sConfig
                        /\ sConfig' = NoEntries
                        /\ UNCHANGED <<memory, gServerInfoMutex, salmonConfig, settings,
                                       shown, rttPc, after, account, gates, asked, history>>

\* Lines that contain the address are left out.
Strike(addrs) == addrs \ Contains[target]

\* Mutant: SalmonConfig.txt is forgotten.
PurgeSConfigOnly ==
  /\ Goto("purgeFill", "purge")
  /\ sConfig' = [a \in Addresses |-> IF a \in Strike({a}) THEN entries[a] ELSE 0]
  /\ purged' = purged \cup Contains[target]
  /\ UNCHANGED <<memory, gServerInfoMutex, salmonConfig, settings, shown, rttPc, after,
                 buffers, reply, wiped, cut>>

PurgeWritesSConfig ==
  /\ pc = "purgeFill"
  /\ sConfig' = [a \in Addresses |-> IF a \in Strike({a}) THEN entries[a] ELSE 0]
  /\ entries' = NoEntries
  /\ purged' = purged \cup Contains[target]
  /\ pc' = IF salmonConfig.pw = "none" THEN "purge" ELSE "purgeAccount"
  /\ UNCHANGED <<memory, gServerInfoMutex, salmonConfig, settings, shown, rttPc, after,
                 account, target, reply, wiped, cut>>

PurgeOpensSalmonConfig == /\ Goto("purgeAccount", "purgeAccountFill")
                          /\ account' = salmonConfig
                          /\ salmonConfig' = NoAccount
                          /\ UNCHANGED <<memory, gServerInfoMutex, sConfig, settings,
                                         shown, rttPc, after, entries, target, reply,
                                         history>>

PurgeWritesSalmonConfig ==
  /\ Goto("purgeAccountFill", "purge")
  /\ salmonConfig' = [account EXCEPT !.servers = Strike(@)]
  /\ account' = NoAccount
  /\ target' = NoServer
  /\ UNCHANGED <<memory, gServerInfoMutex, sConfig, settings, shown, rttPc, after, entries,
                 reply, history>>

----------------------------------------------------------------------------
(* Wiping, and the end of the program. *)

WipeClicked == /\ Idle
               /\ shown = "main"
               /\ wiped' = AddrsOf(gKnownServers) \cup AddrsOf(sConfig) \cup salmonConfig.servers
               /\ cut' = IF rttPc = "off" THEN cut ELSE cut \cup {"wipe"}
               /\ UNCHANGED <<memory, gServerInfoMutex, files, settings, shown, rttPc,
                              buffers, reply, purged>>

\* Mutant: the list is not brought up to date first.
ClickWipeAtOnce == WipeClicked /\ Call("wipeSettings", <<>>)

\* getSConfig, "so that we wipe everything described in the file"
ClickWipe == WipeClicked /\ Call("clear", <<"wipeSettings">>)

DeleteConnectionSettings ==
  /\ Goto("wipeSettings", "wipeSConfig")
  /\ settings' = settings \ AddrsOf(gKnownServers)
  /\ UNCHANGED <<memory, gServerInfoMutex, files, shown, rttPc, after, buffers, reply,
                 history>>

\* wipeConfig: one file after the other.
WipeSConfig == /\ Goto("wipeSConfig", "wipeAccount")
               /\ sConfig' = NoEntries
               /\ UNCHANGED <<memory, gServerInfoMutex, salmonConfig, settings, shown,
                              rttPc, after, buffers, reply, history>>

\* The memory and the threads of the process are gone.
ProcessEnds == /\ gKnownServers' = NoEntries
               /\ gBaseVPNPassword' = "none"
               /\ gCurrentConnection' = NoServer
               /\ gServerInfoMutex' = "nobody"
               /\ pc' = "off"
               /\ rttPc' = "off"
               /\ after' = <<>>
               /\ account' = NoAccount
               /\ entries' = NoEntries
               /\ target' = NoServer
               /\ toPurge' = {}
               /\ gates' = {}
               /\ asked' = FALSE

WipeSalmonConfig == /\ pc = "wipeAccount"
                    /\ salmonConfig' = NoAccount
                    /\ shown' = "gone"
                    /\ ProcessEnds
                    /\ UNCHANGED <<sConfig, settings, history>>

\* Steps at which SalmonConfig.txt is open for writing, and those at which there
\* may be a saved server without a connection setting.
AccountOpen == {"trustFill", "accountFill", "purgeAccountFill"}
SettingsOpen == {"settings", "addSetting", "wipeSConfig"}

\* The program is killed, or closed, which ends its threads.
Killed == /\ pc # "off"
          /\ ProcessEnds
          /\ cut' = cut \cup (IF pc \in AccountOpen THEN {"account"} ELSE {})
                        \cup (IF pc \in SettingsOpen THEN {"settings"} ELSE {})
                        \cup (IF pc = "purgeAccount" THEN {"purge"} ELSE {})
          /\ UNCHANGED <<files, settings, shown, purged, wiped>>

Attempt == \/ ClickConnect \/ SweepConnects \/ SweepStops \/ SweepFails
           \/ NeedServerGotNone \/ NeedServerGotGates
           \/ \E a \in Servers : NeedServerGotSalmon(a)
           \/ \E g \in Gates : NextGate(g)
           \/ AddedSetting \/ NoMoreGates \/ GateConnects \/ GateFails

Purge == \/ NothingToPurge
         \/ \E a \in Addresses : PurgeReturnsEarly(a) \/ PurgeOpensSConfig(a)
         \/ PurgeWritesSConfig \/ PurgeOpensSalmonConfig \/ PurgeWritesSalmonConfig

GetSConfig == \/ Clear \/ ReadExistingSConfig \/ UnlinkSalmonConfig
              \/ GenerateFromSalmonConfig \/ CreateConnectionSettings
              \/ SaveOpens \/ SaveCloses

Login == \/ ClickLogin \/ Welcome \/ LoginFails \/ RegisterMailCallback
         \/ \E addrs \in SUBSET AccountServers : LoginMailCallback(addrs)
         \/ OpenSalmonConfig \/ WriteSalmonConfig

Rtt == RttFinds \/ RttSaveOpens \/ RttSaveCloses

Wipe == ClickWipe \/ DeleteConnectionSettings \/ WipeSConfig \/ WipeSalmonConfig

Next == \/ Start \/ TrustMailCallback \/ OpenForTrust \/ WriteTrust
        \/ GetSConfig \/ Login \/ Attempt \/ Purge \/ Rtt \/ Wipe \/ Killed

Spec == Init /\ [][Next]_vars

----------------------------------------------------------------------------
(* Properties. *)

Places == {"off", "idle", "trust", "trustFill", "clear", "load", "generate", "save",
           "fill", "settings", "welcome", "mail", "account", "accountFill", "sweep",
           "ask", "addSetting", "gate", "gateDial", "purge", "purgeFill",
           "purgeAccount", "purgeAccountFill", "wipeSettings", "wipeSConfig",
           "wipeAccount"}
Accounts == [pw : {"none", "BLANK", "good"}, servers : SUBSET Addresses]

TypeOK ==
  /\ gKnownServers \in [Addresses -> Nat]
  /\ gBaseVPNPassword \in {"none", "BLANK", "good"}
  /\ gCurrentConnection \in Addresses \cup {NoServer}
  /\ gServerInfoMutex \in {"nobody", "work", "rtt"}
  /\ gServerInfoMutex = "work" <=> pc = "fill"
  /\ gServerInfoMutex = "rtt" <=> rttPc = "fill"
  /\ sConfig \in [Addresses -> Nat]
  /\ salmonConfig \in Accounts
  /\ settings \subseteq Addresses
  /\ shown \in {"login", "main", "gone"}
  /\ pc \in Places
  /\ rttPc \in {"off", "find", "save", "fill"}
  /\ after \in Seq(Places)
  /\ account \in Accounts
  /\ entries \in [Addresses -> Nat]
  /\ target \in Addresses \cup {NoServer}
  /\ toPurge \subseteq Addresses
  /\ gates \subseteq Gates
  /\ asked \in BOOLEAN
  /\ purged \subseteq Addresses
  /\ wiped \subseteq Addresses
  /\ cut \subseteq {"account", "settings", "purge", "wipe"}

\* No server has two entries, whatever has been generated, read, added and erased
\* since, and whichever kill came between ("prevent duplicates",
\* salmon_config.cpp:334): generate_S_from_SalmonConfig relies on its callers for
\* an empty list.
NoTwins == \A a \in Addresses : gKnownServers[a] <= 1 /\ sConfig[a] <= 1

\* When everything rests, a server in memory is also in SConfig.txt, and so will be
\* known after a restart, unless it has been purged there.
KnownIsSaved ==
  Resting /\ shown = "main" => AddrsOf(gKnownServers) \subseteq AddrsOf(sConfig) \cup purged

\* Who is about to rewrite SConfig.txt has all its servers in memory, but for VPN
\* Gate servers, which are erased when they do not work any more: except for the
\* RTT thread while the next attempt reads the list in, which has emptied it first
\* (salmon_config.cpp:159), without the mutex that the thread saves under.
SaveKeepsAll ==
  "save" \in {pc, rttPc} /\ pc # "load" =>
    AddrsOf(sConfig) \ Gates \subseteq AddrsOf(gKnownServers)

\* Saving and reading in, by threads that do not wait for each other, forget no server.
NothingForgotten == KnownIsSaved /\ SaveKeepsAll

\* A sweep knows every server of the account, even if a kill has emptied SConfig.txt
\* or cut a login short: but for a kill between the two halves of a purge, which
\* leaves the purged server in SalmonConfig.txt, and for one that the directory server
\* hands out as a VPN Gate server too, which is erased when it fails.
AccountServersKnown ==
  pc = "sweep" /\ "purge" \notin cut =>
    salmonConfig.servers \ Gates \subseteq AddrsOf(gKnownServers)

\* Every server that a sweep may dial has its connection setting: but for a kill
\* between the saving of the list and the creation of its settings, and for a wipe that
\* began while the RTT thread was about to save the list, which brings it back.
SettingsSurvive ==
  pc = "sweep" /\ {"settings", "wipe"} \cap cut = {} => AddrsOf(gKnownServers) \subseteq settings

\* Attempts work with the account's password: but for a kill while SalmonConfig.txt
\* was being rewritten. Then the next start writes "BLANK" into it, and a login that
\* finds SConfig.txt in place takes that for the password. Nor is anything said after a
\* wipe that began while the RTT thread was about to save, which brings SConfig.txt back.
PasswordSurvives ==
  pc = "sweep" /\ {"account", "wipe"} \cap cut = {} => gBaseVPNPassword = "good"

\* A wipe leaves nothing of the servers known at the time, in the files or in
\* SoftEther, but the settings of purged ones, of those whose purge a kill has cut
\* short, and of those that were handed out as VPN Gate servers too.
WipeForgets ==
  shown = "gone" /\ "wipe" \notin cut =>
    /\ sConfig = NoEntries
    /\ salmonConfig = NoAccount
    /\ "purge" \in cut \/ settings \cap wiped \subseteq purged \cup (AccountServers \cap Gates)

\* What a comment says and the code does not do (run viol_purge_undone): "forget any
\* servers the directory server wants us to forget" (connect_attempt.cpp:258).
PurgedStaysForgotten ==
  Resting /\ shown = "main" => purged \cap AddrsOf(sConfig) = {}
=============================================================================
