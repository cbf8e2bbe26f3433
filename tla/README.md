# Verification of the Salmon Windows client

Salmon finds VPN servers for users behind a censor. The Windows client
(`src/Salmon/`) keeps a list of servers it was given, connects to one of them by
driving the SoftEther VPN client through `vpncmd`, and talks to the directory
server by e-mail when it needs another server, an account or a recommendation.
This directory holds TLA+ models of the client's own logic, TLC configurations
that check them on small instances, and TLAPS proofs.

Everything is translated from the C++ source; comments in the modules name the
functions, and `PROJECT.json` ("map") gives the lines of every definition.

## 1. The system

### Threads

| thread | entry | made by |
|---|---|---|
| GUI | `WinMain`, `winProc*` | the program |
| monitor | `monitorConnection` | `initSalmonClient`, one for the life of the program |
| attempt | `connectionAttemptThread` | each click on Connect, and the monitor; any number may exist |
| RTT | `measureCurRTT_Thread` | each successful `connectToVPNServer` |
| HTTPS probe | `httpsCheckerThread` | each dial of a Salmon server |
| receiver | `recvThread` | each message to the directory server |
| manual reply | `processManualResponse` | each reply file the user picks, when mail goes by hand |
| manual callback | `manualCallbackCallerThread` | each such reply that has a callback |

They share plain globals (`salmon_globals.cpp`). There are three mutexes:
`gConnectionStateMutex` (attempts and monitor), `gServerInfoMutex` (some of the
writes to `gKnownServers`) and `recvThreadMutex` (receivers). The GUI thread takes
none of them before it writes the connection flags.

### Components

| component | state | operations | interacts with |
|---|---|---|---|
| connection control | `gVPNConnected`, `gUserWantsConnection`, `gCancelConnectionAttempt`, `gCurrentConnection`, `previousaddr.txt`, the three buttons | the three clicks, the attempt thread, the monitor, start and exit | SoftEther (commands, adapter state), server list, directory mail |
| trying servers | the list, `lastAttempt`, `secondsTilNextAttempt`, `failureCount`, the two sets of failures reported | `tryConnectAnyServer`, `buildNeedServerRequestString` | dial, internet check, server store |
| dialling one server | `HTTPSArgPasser`, up to 80 looks at the adapter | `connectToVPNServer`, `httpsCheckerThread` | SoftEther, HTTPS |
| server store | `gKnownServers`, `SConfig.txt`, `SalmonConfig.txt` | read, generate, write, sort, add, purge, wipe | attempts, RTT threads, GUI, mail replies |
| connection settings | SoftEther's account settings | `createConnectionSetting`, `createVPNGateConnectionSetting`, `deleteConnectionSettings` | vpncmd |
| directory mail | the mailbox, `cancelRecvFlag`, `recvThreadMutex`, enabled buttons | send, wait, try to receive, cancel, time out | GUI, reply callbacks, needServer |
| manual mail | `ManualEmailGlobalHelper` | start async, start blocking, resolve | GUI, needServer |
| reply callbacks | trust level, account data, windows | login, register, recommend, redeem | directory mail, server store |
| trust countdown | `TrustDaysEstimate.txt`, the trust line of `SalmonConfig.txt` | start, check, read, write | GUI, reply callbacks |

### What makes each part correct

* **Connection control**: attempts and the monitor exclude each other; the buttons
  tell the truth and reach what they name; a cancelled attempt stops, after one more dial
  at most; the directory
  server is asked only when every server has been tried and our own connectivity was
  not in doubt; a lost session is noticed and repaired; every attempt ends.
* **Trying servers**: each server is tried once, the ones that failed lately last;
  what is reported of a server was observed, and what was observed is reported.
* **Dialling**: the answer of a dial is true, the shared object outlives its use.
* **Server store**: nothing known is lost by a restart or a kill, nothing is doubled,
  what is purged or wiped is gone.
* **Directory mail**: a reply is not deleted before its receiver has had it, one
  receiver at a time is in the inbox, every request ends, the buttons come back.
* **Manual mail**: who sent a request is who gets the answer to it.
* **Connection settings**: the loops end, and whatever was in a setting before, no field
  that is wanted is forgotten or lost, even if the dial does not wait for all of them.

### What is hard here

* Attempts are queued without limit on one mutex and share one cancel flag.
* The GUI thread changes the flags that the attempts and the monitor test, at any
  moment, without a lock.
* An index into `gKnownServers` is kept across minutes of waiting while other
  threads sort, erase from or reload the list.
* SoftEther is a separate process: it outlives the program, retries by itself and
  gives no way to hang up "whatever is connected".
* `vpncmd` returns before its command has had its effect.
* One global object remembers to whom a reply that comes by hand goes, and the threads
  that read the replies give the windows back before they look at it.
* Mail replies arrive in any order, late or never; a receiver deletes what it takes
  for stale replies.
* Files are rewritten in place, so that an exit in the middle leaves half a file.

`PROJECT.json` lists each hazard with its line and the properties that cover it.

## 2. The modules

| module | models | composed with |
|---|---|---|
| `ConnectionControl` | buttons, attempt threads, monitor, hanging up, exit and restart, SoftEther's adapter | - |
| `ConnectionControlProofs` | theorems about it | extends it |
| `Sweep` | abstract specification of one pass over the servers | - |
| `TryServers` | `tryConnectAnyServer` in detail, both sweeps of an attempt, `needServer` | implements `Sweep` |
| `TryServersProofs` | theorems about it, with the refinement of `Sweep` | extends it |
| `HttpsProbe` | `connectToVPNServer` and `httpsCheckerThread` with the time they take | - |
| `HttpsProbeProofs` | theorems about it | extends it |
| `ServerStore` | the list, `SConfig.txt`, `SalmonConfig.txt`, which settings SoftEther has | - |
| `ServerStoreProofs` | theorems about it | extends it |
| `SurvivalProofs` | theorems about what an attempt still has after kills, purges and saves, and what a wipe leaves | extends `ServerStoreProofs` |
| `ConnectionSettings` | the making of a SoftEther connection setting against a late `vpncmd` | - |
| `ConnectionSettingsProofs` | theorems about it | extends it |
| `DirMail` | requests by mail and their receivers | - |
| `DirMailProofs` | theorems about it | extends it |
| `ManualMail` | requests that the user mails by hand | - |
| `ManualMailProofs` | theorems about it | extends it |
| `MC...` | the small instances TLC checks | extend their module |

In each of the modules of the program a thread has a program counter (`pc`, `guiPc`,
`monitorPc`, `rttPc`, `callerPc`, `checkerPc`) whose values name places between two
accesses to shared state, and an action is what the code does from one such place to
the next. Variables carry the names of the globals they model. Variables whose
comment says *history* are not in the program; they record what a property is about
and no guard reads them. Definitions whose comment begins with *Mutant* are faulty
variants of the definition after them; no specification uses them, and
`PROJECT.json` ("mutants") says which property notices each.

### ConnectionControl

| state | code |
|---|---|
| `gVPNConnected`, `gUserWantsConnection`, `gCancelConnectionAttempt`, `gCurrentConnection` | the globals of `salmon_globals.cpp` |
| `gConnectionStateMutex` | its owner |
| `gKnownServers` | the set of addresses in the list |
| `previousAddr` | `previousaddr.txt`, which outlives the program |
| `button` | which of Connect, Cancel, Disconnect is shown |
| `account`, `linkUp` | SoftEther: the setting that uses the adapter, and whether the adapter has a gateway |

The GUI's actions are the three clicks and the two halves of `disconnectVPN` (the
command, and the flag cleared after it has returned). The monitor's are one per step
of `monitorConnection`, from `Sleep` to `ReleaseMutex`: what it sees is stored, tested
and acted on in different steps. An attempt's are those of `connectionAttemptThread`,
`tryConnectAnyServer` and `connectToVPNServer`. An attempt thread that has ended frees
its slot. `measureCurRTT_Thread` is `RttSaves`, as far as the saved address is
concerned. `Restart` ends the process at any moment and starts it again: SoftEther and
`previousaddr.txt` stay as they are. `LinkUp`, `DialExpires` and `LinkDown` are
SoftEther's own.

### TryServers and Sweep

`gKnownServers` is a sequence of entries with the two facts a sweep looks at: whether
the server failed within its last 2 to 7 days, and its failure count. `top`, `dial`,
`redial`, `net1`, `net2` are the head of the loop, the two dials and the two internet
checks; the answers are inputs. Scores are left out, so that a sort may produce any
order; `EarlierThreadSorts` is the sort by the RTT thread of an earlier attempt.
`Sweep` is the promise: a pass disposes of each server once and fails only when none is
left. `RefinesSweep` maps the indices not yet walked to the abstract `todo`.

### HttpsProbe

The two threads of a dial and the heap object they share. Time is counted in ticks and
only bounds what the code bounds: a round of the polling loop takes at most `RoundMax`,
hanging up at most `HangupMax`, the checker waits at least `WaitMax` and sleeps at least
`Nap` before it deletes the object.

### ServerStore

| state | code |
|---|---|
| `gKnownServers` | for each address, how many entries it has |
| `sConfig`, `salmonConfig` | the two files: empty from `fopen("wt")` to `fclose` |
| `settings` | the addresses that have a connection setting in SoftEther |
| `gServerInfoMutex` | its owner |
| `after` | the call stack's return addresses: `getSConfig` and `writeSConfigFromKnownServers` are called from many places |
| `Contains` (a constant) | which addresses contain which as text, for `strstr` in `purgeServer` |

The actions are the steps of `getSConfig`, `readExistingSConfig`,
`generate_S_from_SalmonConfig`, `writeSConfigFromKnownServers`, `writeTrustToFile`,
`purgeServer`, `addVPNInfo`, `wipeConfig` and `deleteConnectionSettings` between two
accesses to a file or to SoftEther, and the callers in the windows, the reply callbacks
and the attempt. `Killed` ends the program at any of these steps. The user clicks when
what the windows show is idle; the thread that measures the RTT is not seen, and may
save the list while the next attempt reads it in or while everything is wiped. (A file
that is open cannot be unlinked on Windows, and one that is unlinked before is made
again: either way `SConfig.txt` is there after such a wipe.) What the replies contain is
well-formed.

### ConnectionSettings

A setting is the set of its fields that are as wanted, and what a command does to it is
`After`; SoftEther takes the commands in any order (`TakeEffect`). `AccountCreate`,
`EnableCerts`, `SeeCertsEnabled`, `Correct` and `CheckName` are the two functions that make
a setting, from one `vpncmd` to the next; `Corrections` is where they differ.
`AccountDelete` is a wipe in the GUI thread, at any moment.

### DirMail

The inbox is a set of numbered mails; a receiver looks at the newest ones, takes its own
reply, deletes other Salmon mails, and after `Looks` looks gives up. `cancelRecvFlag`,
the buttons and the waiting window are shared by all requests. The directory server and
other senders deliver at any moment or never; a mail may fail to be sent. `SendBlocking`
is `needServer`'s `sendAndRecvMailBlocking`; `CallbackSends` is a callback that sends
the next request.

### ManualMail

`shouldSignalWhenReady`, `manualEmailCallback`, `responseReadyEvent` and `responseText` are
the members of `ManualEmailGlobalHelper`; `shown`, `findOn` and `buttonsOn` what the user can
see and click. `proc` has, for the reply to each request, the place of the thread that
processes it: reading the file, enabling the buttons, hiding the window, enabling the find
button, and the halves of `resolve` are steps of their own, and other threads come in
between. The user is careful: the reply picked is the one to the request shown.

## 3. The runs

| run | instance | what it shows |
|---|---|---|
| `control_live` | one attempt slot, the monitor, a patient user, one loss, one restart, `FairSpec` | `TypeOK`; `AttemptsExclusive`; `NeedServerJustified`; `ButtonAgrees`; `AttemptEnds`, `LossIsRepaired` |
| `control_steady` | two attempt slots, two servers, two VPN Gate servers besides, no monitor | `UnwantedIsCancelled`, `DisconnectHitsConnected`, `AdapterFreeToDial`, `CancelHonoured` |
| `sweep` | up to two known servers and a third one, at most one foreign sort at any moment | `TypeOK` (the indices stay inside the list), `AttemptReturns`; without a sort the four properties of a sweep, and `RefinesSweep` |
| `probe` | times that just fit: (4+1)*3+2 < 15+3 | `NoUseAfterDelete`, `StatusTruthful`, `DialEnds` |
| `mail` | two requests, each from a window, a callback or `needServer`; two looks, another mail, failed mails; `FairSpec` | `OneReceiver`, `ReplyKept`, `CancelIsMeant`; `EveryRequestEnds`, `ButtonsComeBack` |
| `store` | two Salmon servers, one the account's, the other also a VPN Gate server, with an address that occurs in the account's; any number of kills, purges, logins | the seven properties of the store |
| `manual` | two requests with callbacks, two of `needServer`; `FairSpec` | `OwnReply`, `EveryRequestEnds` |
| `settings` | both kinds of server, every earlier setting; `FairSpec` | `DialledAsWanted`, `SettingIsMade` |
| `viol_cancel_lost`, `viol_unreported`, `viol_purge_undone`, `viol_manual` | | the findings below |

### Bounds and why they are enough

* Two attempt threads are what it takes for one to hold the mutex while another waits
  and a click concerns both. With a patient user a second one is the monitor's. Two
  servers tell "one failed, one left" apart from "none left"; the VPN Gate server adds
  the third stage, and the second one in `control_steady` is the one that a cancelled
  attempt must not get to. One loss and one restart bring every order of loss, restart, click
  and monitor step; each further one starts from a state already seen.
* In a sweep two known servers and a new one give both passes, an overwritten and an
  added entry, and every pair of answers. The order of a longer list changes nothing
  that a pair does not show, as a sort may produce any order.
* The times of `probe` are small multiples of what the code has (80 rounds of 100 ms and a
  `checkConnection`; 30 s and 1 s); the theorem below is for all of them.
* Two looks and another mail are enough for a reply to be below what one look sees, to be
  seen by the next (which examines one mail more), and for a receiver to time out with its reply in the inbox.
* In `store` nothing is bounded but the addresses, one purge per reply, one RTT thread at a
  time and `AccountServers`, those that a login may bring: files, list and settings are
  finite, and kills may be as many as one likes. The account's server is the one that a
  purge of the other strikes by mistake; the other comes from `needServer` as a Salmon server
  and as a VPN Gate server, so that what an erased entry does to a saved one is among the
  behaviours. Nothing relates three servers to each other, and the theorems are for any.
* In `manual` a blocked request and one with a callback are what it takes for one to take
  the other's place; the second of each kind is there because an event that is left set is
  only noticed by the next thread that waits.
* `settings` has no bound: the commands that are waiting are a set, and one that is given
  again is the same command.

### Fairness

Safety runs assume none. `control_live` assumes that threads run, that a mutex of
Windows is handed over roughly in the order of the requests (strong fairness of the
acquiring steps, since the mutex is free only from time to time), that the user
dismisses the message boxes of an attempt, and that a mail request ends (which `mail`
shows). Nothing is assumed of clicks, of SoftEther or of the network. `mail` assumes that
receivers run and get the mutex in turn; `probe` and `sweep` that their threads run and
that each external call returns, as they have time-outs of their own. `settings` assumes
that SoftEther gets round to each command at some time, and that the thread runs. `manual`
assumes that the threads run, that the directory server's reply comes, and that the user
does what the window asks for until the file can be read: nothing else ends such a
request, which has no time-out and no Cancel.

### Findings

* `viol_cancel_lost` (connect_attempt.cpp:333): an attempt that ends clears the cancel
  flag that all queued attempts share; the next one works for a user who cancelled.
* `viol_unreported` (connect_attempt.cpp:140): `conStatus` is tested where
  `conTry2Status` is meant; a server that was first OFFLINE and then ERROR is reported
  and recorded nowhere.
* `viol_purge_undone` (salmon_config.cpp:423): `purgeServer` edits the files, not the
  list, and the next save of the list puts the server back.
* `viol_manual` (createWindowsManualEmail.cpp:218): the thread that has read a reply gives the
  buttons back before it looks to whom the reply goes; a request sent in between is given
  it. Hiding the window comes after the buttons too, so that the new request is hidden with
  its buttons off, which nothing brings back.

### Also met while modelling

These have no run of their own.

* Cancel and Connect between the two looks at the flag (connect_attempt.cpp:91 and 277)
  make an attempt send `needServer` with servers untried. (`NeedServerJustified` with
  `Impatient = TRUE`; the proof below therefore has `~Impatient` as a hypothesis.)
* With three requests a reply can be lost in ways that two do not show, and `ReplyKept`
  names them by the history `disturbed`: `cancelRecvFlag` is reset after the mutex has been
  released (email.cpp:384), so that a receiver the user has cancelled goes on and deletes a
  later reply, in spite of email.cpp:285-286; and the end of one request enables the buttons
  (382), or its callback sends on (emailReplyCallbacks.cpp:376), while another still waits.
  A receiver whose mail could not be sent deletes the reply to its retry (email.cpp:164),
  as another exception in `ReplyKept` says; and a Cancel that comes too late for its request
  ends the next one (411), as that in `CancelIsMeant` does.
* A save by an earlier RTT thread while an attempt reads the list in writes an empty
  `SConfig.txt` (salmon_config.cpp:159): servers that are not in the account are lost. One
  during a wipe brings `SConfig.txt` back. Both are exceptions in `SaveKeepsAll` and
  `WipeForgets`.
* A server of the account that the directory server also hands out as a VPN Gate server is
  erased from the list when it fails as one (connect_attempt.cpp:324), and a save by the RTT
  thread takes it out of the file too: the next attempt does not know it.
  (Seen with `s2` both in `AccountServers` and in `Gates`; such servers are the exception in
  `AccountServersKnown` and `WipeForgets`.)
* A setting that is deleted by a wipe while it is being made is waited for without end
  (control_softether.cpp:342, 380), as `accountcreate` is not given again. A VPN Gate
  setting keeps the user name it had, in spite of the note at line 447. The code
  waits for certificate use and, for a Salmon server, the user name, and for nothing else: a
  dial may come before the certificate, the password or the address has had its effect,
  against line 504 ("the connection setting should be pre-loaded with that ipaddr's cert, and
  the correct username and password"). For the password the second loop (375) seems meant
  to wait, but `accountcreate` has already set the user name that it looks for.
  `DialledAsWanted` therefore says what a dial cannot lack, and that the rest is on its way.
  (`Wanted \subseteq dial.has` is violated. It has no run, as it is SoftEther's order of the
  commands, and not Salmon's, that decides.)
* An asynchronous request by hand takes the place of a blocking one (manual_or_blocking_email.cpp:
  118): `needServer`'s thread then waits for ever, with `gConnectionStateMutex` in hand. It
  takes a callback that sends, or one that enables the buttons, while `needServer` waits.
* The double check and the first VPN Gate server are dialled without a look at the cancel
  flag (connect_attempt.cpp:122, 317), although salmon_globals.cpp:65-68 says that it is
  looked at before each specific connection attempt. `CancelHonoured` names the two and
  bounds them: a cancelled attempt dials once more at most. Both do occur: the property is
  violated without either of its exceptions.
* The monitor tests, shows, and only then rearms (control_softether.cpp:620-631): a click
  in between is lost.
* An attempt queued behind a successful one dials although a session is up, and Disconnect
  then names the wrong server (control_softether.cpp:543, 586); a restart before
  `previousaddr.txt` has been written leaves a session that Disconnect cannot end (289).
* A sort by an earlier RTT thread makes a sweep dial one server twice and skip another.
  The second sweep dials more than the new server, against connect_attempt.cpp:296.
* A kill while `SalmonConfig.txt` is rewritten, at every start, makes `BLANK` the password
  (salmon_config.cpp:362, 577); a kill between line 259 and the creation of the settings
  leaves servers without settings for ever. Both are the exceptions in `PasswordSurvives`
  and `SettingsSurvive`.
* A purge strikes by substring (salmon_config.cpp:428) and ends early when `SConfig.txt` is
  empty (411). A wipe leaves the SoftEther settings of purged and of failed VPN Gate servers
  (control_softether.cpp:599).
* 80 looks at the adapter where a comment says 50 (control_softether.cpp:485, 535);
  the bandwidth read from the PSK's field (VPNInfo.cpp:158); a loop without a condition in
  a fallback (emailReplyCallbacks.cpp:250); the servers that failed most sorted to the top,
  where the comment wants those that were online (VPNInfo.cpp:44-50).

## 4. The proofs

`tlapm` checks the eight proof modules; nothing is left without a proof. Every theorem
is for any value of the constants that its module's assumptions allow.

**ConnectionControlProofs**, for any finite or infinite sets of threads and servers and
any bounds, from the assumptions `ThreadsAssumption` (the monitor and "no owner" are not
threads), `AddressAssumption` and `BoundsAssumption`:

* `Typing`: `Spec => []TypeOK`, by one step per action; `TypeOK` is inductive.
* `MutualExclusion`: `Spec => []AttemptsExclusive`. The property does not say who owns
  the mutex, so it is not inductive; `MutexInv` (a thread is in its section if and only
  if it owns the mutex) is, and implies it.
* `NeedServerOnlyWhenJustified`: `~Impatient => (Spec => []NeedServerJustified)`.
  `JustifiedInv` follows the two facts from where they are established (the end of the
  last pass) to where they are used, and needs `MutexInv` because the flags are written by
  other attempts, and the hypothesis because a click may write them.

The rest is under two hypotheses that say which users and sessions the theorems are about:

* `ButtonNeverLies`: `~Impatient => (Spec => []ButtonAgrees)`, with the monitor, losses and
  restarts. `ButtonInv` says what the button shows at each place of the monitor, which
  believes one thing and shows another between its steps.
* `UnwantedAreTold`, `DisconnectMeansIt`, `NothingInTheWay`, `CancelIsHeard`: under `Steady`
  (`~Impatient`, no monitor, no restart within the session) an attempt that nobody wants has
  been told to stop and dials once more at most, Disconnect names the connected server, and the adapter is
  free when a server is dialled. `SteadyInv` has one attempt at most (`OneAttempt`), the
  cancel flag up from the click to that attempt's end (`ToldToStop`), and an owner of the
  adapter at each place of the dial (`AdapterOwned`). `CancelIsHeard` also takes `HeardInv`: an
  attempt that has gone on to dial after it was cancelled (the history `goneOn`) still has the
  flag up, and is past the last place from which it dials without a look at it
  (`PastLastDial`). Section 3 lists what happens without these
  hypotheses.

**TryServersProofs**, for any addresses, any list of servers, any answers of the network and
any number of foreign sorts (`KnownAssumption`: the lists have no server twice;
`NewAssumption`, `SortsAssumption`). No induction over the list is needed, as the invariant
speaks of its positions:

* `Typing`: `Spec => []TypeOK`, whoever sorts the list when. That the position dialled is one
  of the list takes `IndexInv`: the skipped positions rise, and the first pass is past them
  all, so that there are no more of them than servers.
* `SweepInvariant`: `Spec => []IInv`, from which the next five follow. Until somebody sorts
  the list (`sorts = 0`), the positions that the sweep has still to visit (`Ahead`) tell
  everything: who has been dialled, whose entry is as it was, and who has been reported
  (`WalkInv`); a sweep that returns without a connection and without a cancellation has none
  left (`ReturnInv`); the log has one first dial for each server and what the double
  check relies on, the internet checks between the dials among it (`LogInv`).
* `EveryoneGetsATry` (`EveryServerTried`), `LikelyDownWait` (`LikelyDownComeLast`),
  `NobodyIsSlandered` (`ReportsAreEarned`) and `RecordsMatchReports`
  (`ReportedIsRecorded`).
* `SweepIsASweep`: `Spec => RefinesSweep`. Each step has one of five shapes (`SweepStep`), each
  of which is a step of `Sweep` or a stutter. The attempt to prove it showed that the result
  of the refinement mapping had been a `CASE` with overlapping guards, of which TLC happens
  to take the first; it now says which comes first.

**HttpsProbeProofs**, for any number of rounds and any times (`TimesAssumption`: natural
numbers):

* `Typing`: `Spec => []TypeOK`, with what each thread has done by the time it gets to a place.
* `Truthful`: whatever the times, an answer of a dial is what was observed.
* `ObjectOutlivesUse`: `CallerIsQuick => (Spec => []NoUseAfterDelete)`. The invariant is a
  sum: after k rounds the caller has used the object for at most `k * RoundMax` and the age
  of its current step, and the checker, which starts later, has not waited longer than the
  caller has been using it. `CallerIsQuick` says that 81 rounds and the hanging up
  take less than 31 s. With 100 ms of sleep per round that leaves some 280 ms for
  each `checkConnection`, which walks the adapters with `GetAdaptersInfo`; on a machine where
  that takes longer it does not hold, and neither does the conclusion.

**DirMailProofs**, for any requests, looks and other mails (`RequestsAssumption`: the
receiver's "nobody" and the other mails are not requests):

* `Typing` and `OneReceiverAtATime`: `Spec => []TypeOK` and `Spec => []OneReceiver`, which
  are inductive together with how far each receiver is (`Progress`).
* `RepliesAreKept`: `Spec => ReplyKept`, an action property. Of two requests that wait, with
  nobody having interfered with them, one could not be sent (`OneWaits`): for as long as one
  that was sent waits, the buttons are disabled (`ButtonsHold`). And a receiver that was
  cancelled has the flag up (`FlagHolds`), under which it deletes nothing of others. To get
  this far for more than two requests the property had to name what a third one can do
  (`disturbed`): without that it was true of the two requests of the run only.
* `CancelMeansCancel`: `Spec => []CancelIsMeant`. `FlagIsMeant` is not an invariant, as a
  cancellation may come when its request has its reply already; `CancelInv` is: until that
  happens the flag is up only while the receiver in the inbox is a cancelled one, nobody else
  is on the way to its callback, and the window with Cancel is shown only while there is
  somebody to cancel.

**ManualMailProofs**, for any sets of requests of the two kinds:

* `Typing`: `Spec => []TypeOK`, with one addition to make it inductive: an event that is set
  comes with the text of a reply.
* `RepliesFindTheirOwn`: `Spec => []OwnReply`. As long as no request has been sent while a
  reply was being processed (`hurried = {}`) one reply is processed at a time
  (`OneAtATime`), the global object is that of its request (`RightAddressee`), and a set
  event is for the one thread that waits (`RightThread`).

**ConnectionSettingsProofs**, for both kinds of server:

* `DialsTheWantedSetting`: `Spec => []DialledAsWanted`. `GivenInv` says of each field that is
  wanted that it is set, on its way, or still to be given, until a wipe, and of those that a
  loop has waited for that they are set. Every dial that SoftEther takes is judged, with the
  commands that it takes later (`late`); that such commands exist is in section 3.

**ServerStoreProofs** and **SurvivalProofs**, for any servers, any texts of addresses and any
number of kills (`StoreAssumption`):

* `Typing`: `Spec => []TypeOK`. The return addresses make it more than a matter of types:
  `StackInv` says which functions may have called which, so that every `Return` has somewhere
  to go; `TargetInv` that a VPN Gate server that is erased has an entry.
* `OneEntryEach`: `Spec => []NoTwins`. `generate_S_from_SalmonConfig` adds without looking, so
  the list must be empty when it is called (`EmptyInv`). After a failed login that is so only
  because an attempt to read `SConfig.txt` without a password cannot have found servers there
  (`PasswordInv`), since the start writes `BLANK` into an empty `SalmonConfig.txt` and an
  RTT thread runs only behind the main window (`LoginInv`).
* `PasswordOfTheAccount`: `Spec => []PasswordSurvives`. Until a kill or a wipe counts as an
  exception (`Uncut`), whoever has a list in `SConfig.txt` or a main window has the password,
  in `SalmonConfig.txt` or in what is about to be written there (`KeptInv`); nothing saves the
  list during a wipe (`WipeInv`); and a sweep has read it in (`ReadInInv`).
* `NothingIsForgotten`: `Spec => []NothingForgotten`. `RememberInv` follows one server at a time:
  if it is in the list, it is in `SConfig.txt`, purged there, or in what is about to be
  saved (`SavedAt`); if it is in the file, it is in the list by the time that anybody may save
  (`KnownAt`).
* `AccountIsKnown`: `Spec => []AccountServersKnown`.
  `HeldAt`: a server of the account is in the list, once that has been read in, and in
  `SConfig.txt`, once that has been written, until a purge has struck it from both;
  `AccountInv` says where the account is while `SalmonConfig.txt` is rewritten. That servers
  of an account may be VPN Gate servers as well (`Both`), and are then lost, came out of the
  proof; the property names them.
* `SettingsAreKept`: `Spec => []SettingsSurvive`. `SettingAt`: a server that is saved, known or
  the account's has its setting, or will have it before anybody else can save it; a
  generated list has all of the account (`GeneratedAt`).
* `WipeIsThorough`: `Spec => []WipeForgets`. `WipedAt` follows a server
  that was known at the click through the wipe: purged, or in the list, or in what the list
  will be read from, until its setting is deleted; when the window is gone, the files are
  empty (`GoneInv`).

## 5. What is only model-checked

* Liveness (`AttemptEnds`, `LossIsRepaired`, `AttemptReturns`, `DialEnds`, both
  `EveryRequestEnds`, `ButtonsComeBack`, `SettingIsMade`): out of the prover's reach.
* The four violations: a counterexample needs no proof.

Every other property of a run, its type invariants included, is stated by a theorem. Those with
a hypothesis (`~Impatient`, `Steady`, `CallerIsQuick`) are about the same users, sessions and
times as their runs, which satisfy it, and about any number of threads, servers and rounds.

## 6. What is not modelled

* `checkHTTPS.cpp`, `pipefile.c`, the IMAP and SMTP wrappers: I/O, whose outcomes are
  inputs of the models. libvmime, SHA-1 and OpenSSL are third-party.
* Windows' layout and the texts of `localization.cpp`.
* Two threads of which each fills or walks `gKnownServers` (a click on Connect during the
  login callback, emailReplyCallbacks.cpp:213; the Android and iOS mails, email.cpp:474; the
  RTT thread's index, control_softether.cpp:295): what a C++ vector does then is undefined.
  `TryServers` has what a foreign sort does to a sweep, `ServerStore` what a foreign save does.
* Wiping during an attempt, mails to Android and iOS devices, certificate files.
* The numbers: scores, round-trip times, dates, the trust level itself.

## 7. The plan

Done: the connection core first, as the part with the most threads; then what it calls
(sweep, dial), the mail it waits for, the store it reads, the settings it dials with and
mail by hand.

1. `Session`: `needServer` of an attempt composed with the receivers of `DirMail`, sharing
   the waiting window and its Cancel button.
2. Wiping and logging in during an attempt, as far as it is defined behaviour.
3. Proofs: an abstract store (what is remembered, what is forgotten) that `ServerStore`
   implements; an abstract mailbox for `DirMail` in which a reply goes to its request or is
   lost for a named reason.
