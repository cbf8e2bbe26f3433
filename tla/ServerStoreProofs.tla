--------------------------- MODULE ServerStoreProofs ---------------------------
(***************************************************************************)
(* Proofs about ServerStore, for any servers, any texts of their addresses *)
(* and any number of kills: its variables' types, with the work's places   *)
(* and return addresses, and that no server ever has two entries.          *)
(***************************************************************************)
EXTENDS ServerStore, TLAPS, SequenceTheorems

\* Who calls getSConfig, and where a needServer reply goes when it has been purged.
Getters == {<<"welcome", "idle">>, <<"sweep">>, <<"wipeSettings">>}
Purgers == {<<"idle">>, <<"sweep">>, <<"gate">>}
Savers  == {<<"settings", "welcome", "idle">>, <<"settings", "sweep">>,
            <<"settings", "wipeSettings">>, <<"settings", "idle">>,
            <<"ask">>, <<"idle">>, <<"purge", "sweep">>}
Trusters == {<<"idle">>, <<"trust", "idle">>, <<"generate", "idle">>}
Accounters == {<<"idle">>, <<"trust", "idle">>, <<"trust", "generate", "idle">>}

\* Every function has somewhere to return to.
StackInv ==
  /\ pc \in {"clear", "load"} => after \in Getters
  /\ pc \in {"trust", "trustFill"} => after \in Trusters
  /\ pc \in {"account", "accountFill"} => after \in Accounters
  /\ pc \in {"generate", "welcome", "mail"} => after = <<"idle">>
  /\ pc \in {"save", "fill"} => after \in Savers
  /\ pc = "settings" => after \in Getters \cup {<<"idle">>}
  /\ pc = "addSetting" => after \in {<<"save", "purge", "sweep">>, <<"gateDial">>}
  /\ pc \in {"purge", "purgeFill", "purgeAccount", "purgeAccountFill"} => after \in Purgers
  /\ pc \in {"off", "idle", "sweep", "ask", "gate", "gateDial", "wipeSettings",
             "wipeSConfig", "wipeAccount"} => after = <<>>

\* TypeOK without the return addresses, which StackInv has.
MemoryTyped ==
  /\ gKnownServers \in [Addresses -> Nat]
  /\ gBaseVPNPassword \in {"none", "BLANK", "good"}
  /\ gCurrentConnection \in Addresses \cup {NoServer}
  /\ gServerInfoMutex \in {"nobody", "work", "rtt"}
  /\ gServerInfoMutex = "work" <=> pc = "fill"
  /\ gServerInfoMutex = "rtt" <=> rttPc = "fill"
  /\ rttPc \in {"off", "find", "save", "fill"}

FilesTyped ==
  /\ sConfig \in [Addresses -> Nat]
  /\ salmonConfig \in Accounts
  /\ settings \subseteq Addresses
  /\ shown \in {"login", "main", "gone"}

LocalsTyped ==
  /\ account \in Accounts
  /\ entries \in [Addresses -> Nat]
  /\ target \in Addresses \cup {NoServer}
  /\ toPurge \subseteq Addresses
  /\ gates \subseteq Gates
  /\ asked \in BOOLEAN
  /\ purged \subseteq Addresses
  /\ wiped \subseteq Addresses
  /\ cut \subseteq {"account", "settings", "purge", "wipe"}

\* A VPN Gate server that is dialled has an entry, which may be erased; and there is
\* a server to purge.
TargetInv ==
  /\ pc = "gateDial" \/ (pc = "addSetting" /\ after = <<"gateDial">>) =>
       gKnownServers[target] > 0
  /\ pc \in {"addSetting", "gateDial", "purgeFill"} => target \in Addresses

StoreInv == StackInv /\ pc \in Places /\ MemoryTyped /\ FilesTyped /\ LocalsTyped /\ TargetInv

\* Before a login is done, what may be at work.
LoginInv ==
  /\ shown # "main" =>
       \/ pc \in {"off", "idle", "welcome", "mail"}
       \/ pc \in {"trust", "trustFill"} /\ after \in {<<"idle">>, <<"trust", "idle">>}
       \/ pc \in {"clear", "load", "settings"} /\ after = <<"welcome", "idle">>
       \/ pc \in {"save", "fill"} /\ after = <<"settings", "welcome", "idle">>
  /\ pc \in {"clear", "load"} /\ after = <<"welcome", "idle">> => shown = "login"
  /\ rttPc # "off" => shown = "main" /\ pc # "off"

\* A login that finds no password asks for mail, and adds the reply's servers to what
\* it has read: there is nothing in SConfig.txt then, since a start leaves at least
\* "BLANK" in SalmonConfig.txt.
PasswordInv ==
  /\ shown = "login" /\ pc \in {"idle", "clear", "load", "mail"} /\ salmonConfig.pw = "none" =>
       sConfig = NoEntries
  /\ pc = "trustFill" => account.pw # "none"

\* Until its callers generate the list, it is empty.
EmptyInv ==
  \/ pc \in {"load", "mail", "generate"}
  \/ /\ pc \in {"account", "accountFill", "trust", "trustFill"}
     /\ after \in {<<"generate", "idle">>, <<"trust", "generate", "idle">>}
  => gKnownServers = NoEntries

SingleInv == \A a \in Addresses : gKnownServers[a] <= 1 /\ sConfig[a] <= 1 /\ entries[a] <= 1

TwinsInv == LoginInv /\ PasswordInv /\ EmptyInv /\ SingleInv

\* The groups of unchanged variables, opened in every step below.
USE DEF memory, files, buffers, reply, history, Addresses

----------------------------------------------------------------------------

\* Return addresses, one after the other.
LEMMA Stacks ==
  /\ Head(<<"idle">>) = "idle" /\ Tail(<<"idle">>) = <<>>
  /\ Head(<<"sweep">>) = "sweep" /\ Tail(<<"sweep">>) = <<>>
  /\ Head(<<"ask">>) = "ask" /\ Tail(<<"ask">>) = <<>>
  /\ Head(<<"gate">>) = "gate" /\ Tail(<<"gate">>) = <<>>
  /\ Head(<<"gateDial">>) = "gateDial" /\ Tail(<<"gateDial">>) = <<>>
  /\ Head(<<"wipeSettings">>) = "wipeSettings" /\ Tail(<<"wipeSettings">>) = <<>>
  /\ Head(<<"welcome", "idle">>) = "welcome" /\ Tail(<<"welcome", "idle">>) = <<"idle">>
  /\ Head(<<"trust", "idle">>) = "trust" /\ Tail(<<"trust", "idle">>) = <<"idle">>
  /\ Head(<<"generate", "idle">>) = "generate" /\ Tail(<<"generate", "idle">>) = <<"idle">>
  /\ Head(<<"settings", "idle">>) = "settings" /\ Tail(<<"settings", "idle">>) = <<"idle">>
  /\ Head(<<"settings", "sweep">>) = "settings" /\ Tail(<<"settings", "sweep">>) = <<"sweep">>
  /\ Head(<<"settings", "wipeSettings">>) = "settings"
  /\ Tail(<<"settings", "wipeSettings">>) = <<"wipeSettings">>
  /\ Head(<<"purge", "sweep">>) = "purge" /\ Tail(<<"purge", "sweep">>) = <<"sweep">>
  /\ Head(<<"settings", "welcome", "idle">>) = "settings"
  /\ Tail(<<"settings", "welcome", "idle">>) = <<"welcome", "idle">>
  /\ Head(<<"save", "purge", "sweep">>) = "save"
  /\ Tail(<<"save", "purge", "sweep">>) = <<"purge", "sweep">>
  /\ Head(<<"trust", "generate", "idle">>) = "trust"
  /\ Tail(<<"trust", "generate", "idle">>) = <<"generate", "idle">>
  OBVIOUS

\* Tuples of one, two and three places are sequences.
LEMMA Tuples ==
  ASSUME NEW S, NEW x \in S, NEW y \in S, NEW z \in S
  PROVE  /\ <<x>> \in Seq(S) /\ Len(<<x>>) = 1 /\ <<x>>[1] = x
         /\ <<x, y>> \in Seq(S) /\ Len(<<x, y>>) = 2
         /\ <<x, y>>[1] = x /\ <<x, y>>[2] = y
         /\ <<x, y, z>> \in Seq(S) /\ Len(<<x, y, z>>) = 3
         /\ <<x, y, z>>[1] = x /\ <<x, y, z>>[2] = y /\ <<x, y, z>>[3] = z
<1>1. <<x>> \in Seq(S) /\ Len(<<x>>) = 1 /\ <<x>>[1] = x
  OBVIOUS
<1>2. <<x, y>> \in Seq(S) /\ Len(<<x, y>>) = 2 /\ <<x, y>>[1] = x /\ <<x, y>>[2] = y
  OBVIOUS
<1>3. /\ <<x, y, z>> \in Seq(S) /\ Len(<<x, y, z>>) = 3
      /\ <<x, y, z>>[1] = x /\ <<x, y, z>>[2] = y /\ <<x, y, z>>[3] = z
  OBVIOUS
<1> QED
  BY <1>1, <1>2, <1>3

\* A place before one or two others.
LEMMA OneAndOne ==
  ASSUME NEW x, NEW y
  PROVE  <<x>> \o <<y>> = <<x, y>>
<1> DEFINE S == {x, y}
<1>1. /\ <<x>> \in Seq(S) /\ Len(<<x>>) = 1 /\ <<x>>[1] = x
      /\ <<y>> \in Seq(S) /\ Len(<<y>>) = 1 /\ <<y>>[1] = y
      /\ <<x, y>> \in Seq(S) /\ Len(<<x, y>>) = 2
      /\ <<x, y>>[1] = x /\ <<x, y>>[2] = y
  BY Tuples
<1>2. /\ <<x>> \o <<y>> \in Seq(S)
      /\ Len(<<x>> \o <<y>>) = Len(<<x>>) + Len(<<y>>)
      /\ \A i \in 1 .. Len(<<x>>) + Len(<<y>>) :
           (<<x>> \o <<y>>)[i] = IF i <= Len(<<x>>) THEN <<x>>[i] ELSE <<y>>[i - Len(<<x>>)]
  BY <1>1, ConcatProperties
<1>3. (<<x>> \o <<y>>)[1] = x /\ (<<x>> \o <<y>>)[2] = y
  BY <1>1, <1>2
<1>4. \A i \in 1 .. 2 : (<<x>> \o <<y>>)[i] = <<x, y>>[i]
  BY <1>1, <1>3, \A i \in 1 .. 2 : i = 1 \/ i = 2
<1>5. <<x>> \o <<y>> \in Seq(S) /\ Len(<<x>> \o <<y>>) = 2
  BY <1>1, <1>2
<1>6. <<x, y>> \in Seq(S) /\ Len(<<x, y>>) = 2
  BY <1>1
<1> QED
  BY <1>4, <1>5, <1>6, SeqEqual

LEMMA OneAndTwo ==
  ASSUME NEW x, NEW y, NEW z
  PROVE  <<x>> \o <<y, z>> = <<x, y, z>>
<1> DEFINE S == {x, y, z}
<1>1. /\ <<x>> \in Seq(S) /\ Len(<<x>>) = 1 /\ <<x>>[1] = x
      /\ <<y, z>> \in Seq(S) /\ Len(<<y, z>>) = 2
      /\ <<y, z>>[1] = y /\ <<y, z>>[2] = z
      /\ <<x, y, z>> \in Seq(S) /\ Len(<<x, y, z>>) = 3
      /\ <<x, y, z>>[1] = x /\ <<x, y, z>>[2] = y /\ <<x, y, z>>[3] = z
  BY Tuples
<1>2. /\ <<x>> \o <<y, z>> \in Seq(S)
      /\ Len(<<x>> \o <<y, z>>) = Len(<<x>>) + Len(<<y, z>>)
      /\ \A i \in 1 .. Len(<<x>>) + Len(<<y, z>>) :
           (<<x>> \o <<y, z>>)[i] =
             IF i <= Len(<<x>>) THEN <<x>>[i] ELSE <<y, z>>[i - Len(<<x>>)]
  BY <1>1, ConcatProperties
<1>3. /\ (<<x>> \o <<y, z>>)[1] = x
      /\ (<<x>> \o <<y, z>>)[2] = y
      /\ (<<x>> \o <<y, z>>)[3] = z
  BY <1>1, <1>2
<1>4. \A i \in 1 .. 3 : (<<x>> \o <<y, z>>)[i] = <<x, y, z>>[i]
  BY <1>1, <1>3, \A i \in 1 .. 3 : i = 1 \/ i = 2 \/ i = 3
<1>5. <<x>> \o <<y, z>> \in Seq(S) /\ Len(<<x>> \o <<y, z>>) = 3
  BY <1>1, <1>2
<1>6. <<x, y, z>> \in Seq(S) /\ Len(<<x, y, z>>) = 3
  BY <1>1
<1> QED
  BY <1>4, <1>5, <1>6, SeqEqual

\* The calls of generate_S_from_SalmonConfig.
LEMMA MoreStacks ==
  /\ <<"settings">> \o <<"idle">> = <<"settings", "idle">>
  /\ <<"settings">> \o <<"sweep">> = <<"settings", "sweep">>
  /\ <<"settings">> \o <<"wipeSettings">> = <<"settings", "wipeSettings">>
  /\ <<"settings">> \o <<"welcome", "idle">> = <<"settings", "welcome", "idle">>
  BY OneAndOne, OneAndTwo

\* Where each function may return to.
LEMMA Returns ==
  ASSUME StackInv, pc' = Head(after)
  PROVE  /\ pc = "trustFill" => pc' \in {"idle", "trust", "generate"}
         /\ pc = "accountFill" => pc' \in {"idle", "trust"}
         /\ pc \in {"generate", "welcome", "mail"} => pc' = "idle"
         /\ pc = "fill" => pc' \in {"settings", "ask", "idle", "purge"}
         /\ pc = "settings" => pc' \in {"welcome", "sweep", "wipeSettings", "idle"}
         /\ pc = "load" => pc' \in {"welcome", "sweep", "wipeSettings"}
         /\ pc = "addSetting" => pc' = "save" \/ (pc' = "gateDial" /\ after = <<"gateDial">>)
         /\ pc = "purge" => pc' \in {"idle", "sweep", "gate"}
  BY Stacks DEF StackInv, Getters, Purgers, Savers, Trusters, Accounters

\* Some return addresses that are not the same.
LEMMA Apart ==
  /\ \A x \in {<<>>, <<"idle">>, <<"wipeSettings">>, <<"welcome", "idle">>} : x # <<"sweep">>
  /\ \A x \in {<<>>, <<"idle">>, <<"sweep">>, <<"welcome", "idle">>} : x # <<"wipeSettings">>
<1>1. <<>> # <<"sweep">> /\ <<>> # <<"wipeSettings">>
  OBVIOUS
<1>2. <<"welcome", "idle">> # <<"sweep">> /\ <<"welcome", "idle">> # <<"wipeSettings">>
  BY Stacks
<1>3. \A x, y \in {"idle", "sweep", "wipeSettings"} : <<x>> = <<y>> => x = y
  OBVIOUS
<1> QED
  BY <1>1, <1>2, <1>3

\* What a function returns to, and what that returns to.
LEMMA Unwinding ==
  ASSUME StackInv, pc' = Head(after), after' = Tail(after)
  PROVE  /\ pc = "trustFill" =>
              \/ pc' \in {"idle"} /\ after' = <<>>
              \/ pc' \in {"trust", "generate"} /\ after' = <<"idle">>
         /\ pc = "accountFill" =>
              \/ pc' = "idle" /\ after' = <<>>
              \/ pc' = "trust" /\ after' \in {<<"idle">>, <<"generate", "idle">>}
         /\ pc \in {"generate", "welcome", "mail"} => pc' = "idle" /\ after' = <<>>
         /\ pc = "fill" =>
              /\ \/ /\ pc' = "settings"
                    /\ after' \in {<<"welcome", "idle">>, <<"sweep">>, <<"wipeSettings">>, <<"idle">>}
                 \/ pc' \in {"ask", "idle"} /\ after' = <<>>
                 \/ pc' = "purge" /\ after' = <<"sweep">>
              /\ pc' = "ask" => after = <<"ask">>
              /\ pc' = "purge" => after = <<"purge", "sweep">>
              /\ pc' = "settings" /\ after' = <<"sweep">> => after = <<"settings", "sweep">>
              /\ after' = <<"wipeSettings">> => after = <<"settings", "wipeSettings">>
         /\ pc \in {"load", "settings"} =>
              /\ \/ pc' = "welcome" /\ after' = <<"idle">>
                 \/ pc' \in {"sweep", "wipeSettings", "idle"} /\ after' = <<>>
              /\ pc' = "sweep" => after = <<"sweep">>
              /\ pc' = "wipeSettings" => after = <<"wipeSettings">>
         /\ pc = "addSetting" =>
              \/ /\ after = <<"save", "purge", "sweep">>
                 /\ pc' = "save" /\ after' = <<"purge", "sweep">>
              \/ pc' = "gateDial" /\ after' = <<>>
         /\ pc = "purge" =>
              /\ pc' \in {"idle", "sweep", "gate"} /\ after' = <<>>
              /\ pc' = "sweep" => after = <<"sweep">>
<1> USE Stacks DEF StackInv, Getters, Purgers, Savers, Trusters, Accounters
<1>1. CASE pc = "trustFill"
  BY <1>1
<1>2. CASE pc = "accountFill"
  BY <1>2
<1>3. CASE pc \in {"generate", "welcome", "mail"}
  BY <1>3
<1>4. CASE pc = "fill"
  <2>1. after \in Savers
    BY <1>4
  <2>2. CASE after \in {<<"settings", "welcome", "idle">>, <<"settings", "sweep">>,
                       <<"settings", "wipeSettings">>, <<"settings", "idle">>}
    <3>1. pc' = "settings"
      BY <2>2
    <3>2. /\ after' \in {<<"welcome", "idle">>, <<"sweep">>, <<"wipeSettings">>, <<"idle">>}
          /\ after' = <<"sweep">> => after = <<"settings", "sweep">>
          /\ after' = <<"wipeSettings">> => after = <<"settings", "wipeSettings">>
      <4>1. CASE after = <<"settings", "welcome", "idle">>
        BY <4>1, Apart
      <4>2. CASE after = <<"settings", "sweep">>
        BY <4>2, Apart
      <4>3. CASE after = <<"settings", "wipeSettings">>
        BY <4>3, Apart
      <4>4. CASE after = <<"settings", "idle">>
        BY <4>4, Apart
      <4> QED
        BY <2>2, <4>1, <4>2, <4>3, <4>4
    <3> QED
      BY <1>4, <3>1, <3>2
  <2>3. CASE after \in {<<"ask">>, <<"idle">>}
    <3>1. CASE after = <<"ask">>
      BY <1>4, <3>1, Apart
    <3>2. CASE after = <<"idle">>
      BY <1>4, <3>2, Apart
    <3> QED
      BY <2>3, <3>1, <3>2
  <2>4. CASE after = <<"purge", "sweep">>
    BY <1>4, <2>4
  <2> QED
    BY <2>1, <2>2, <2>3, <2>4
<1>5. CASE pc \in {"load", "settings"}
  <2>1. after \in Getters \cup {<<"idle">>}
    BY <1>5
  <2> QED
    BY <1>5, <2>1
<1>6. CASE pc = "addSetting"
  BY <1>6
<1>7. CASE pc = "purge"
  <2>1. after \in Purgers
    BY <1>7
  <2> QED
    BY <1>7, <2>1
<1>8. CASE pc \notin {"trustFill", "accountFill", "generate", "welcome", "mail", "fill", "load",
                      "settings", "addSetting", "purge"}
  BY <1>8
<1> QED
  BY <1>1, <1>2, <1>3, <1>4, <1>5, <1>6, <1>7, <1>8

\* Calls and returns keep to it.
LEMMA StackStep ==
  ASSUME StackInv, pc \in Places, [Next]_vars
  PROVE  StackInv' /\ pc' \in Places
<1> USE DEF StackInv, Places, Getters, Purgers, Savers, Trusters, Accounters
<1>1. CASE UNCHANGED vars
  BY <1>1 DEF vars
<1>2. CASE Start
  BY <1>2, Stacks, MoreStacks DEF Start, Call
<1>3. CASE TrustMailCallback
  BY <1>3, Stacks, MoreStacks DEF TrustMailCallback, Call, Resting, Idle
<1>4. CASE OpenForTrust
  BY <1>4, Stacks, MoreStacks DEF OpenForTrust, Goto
<1>5. CASE WriteTrust
  <2>1. pc = "trustFill" /\ pc' = Head(after) /\ after' = Tail(after)
    BY <1>5 DEF WriteTrust, Return
  <2> QED
    BY <2>1, Unwinding
<1>6. CASE Clear
  BY <1>6, Stacks, MoreStacks DEF Clear, Goto
<1>7. CASE ReadExistingSConfig
  <2>1. /\ pc = "load" /\ after' = Tail(after)
        /\ pc' = Head(after) \/ (Head(after) = "welcome" /\ pc' = "mail")
    BY <1>7 DEF ReadExistingSConfig, ReturnWith
  <2>2. after \in Getters
    BY <2>1
  <2>3. CASE pc' = Head(after)
    BY <2>1, <2>3, Unwinding
  <2>4. CASE Head(after) = "welcome" /\ pc' = "mail"
    <3>1. after = <<"welcome", "idle">>
      BY <2>2, <2>4, Stacks
    <3> QED
      BY <2>1, <2>4, <3>1, Stacks
  <2> QED
    BY <2>1, <2>3, <2>4
<1>8. CASE UnlinkSalmonConfig
  <2>1. /\ pc \in {"generate", "load"} /\ after' = Tail(after)
        /\ pc' = Head(after) \/ (Head(after) = "welcome" /\ pc' = "mail")
    BY <1>8 DEF UnlinkSalmonConfig, Generating, ReturnWith
  <2>2. after \in Getters \cup {<<"idle">>}
    BY <2>1
  <2>3. CASE pc' = Head(after)
    BY <2>1, <2>3, Unwinding
  <2>4. CASE Head(after) = "welcome" /\ pc' = "mail"
    <3>1. after = <<"welcome", "idle">>
      BY <2>2, <2>4, Stacks
    <3> QED
      BY <2>1, <2>4, <3>1, Stacks
  <2> QED
    BY <2>1, <2>3, <2>4
<1>9. CASE GenerateFromSalmonConfig
  BY <1>9, Stacks, MoreStacks DEF GenerateFromSalmonConfig, Generating, Call, PushBack
<1>10. CASE CreateConnectionSettings
  <2>1. /\ pc = "settings"
        /\ (pc' = Head(after) /\ after' = Tail(after)) \/ UNCHANGED <<pc, after>>
    BY <1>10 DEF CreateConnectionSettings, Return
  <2>2. CASE UNCHANGED <<pc, after>>
    BY <2>2, <2>1
  <2>3. CASE pc' = Head(after) /\ after' = Tail(after)
    BY <2>1, <2>3, Unwinding
  <2> QED
    BY <2>1, <2>2, <2>3
<1>11. CASE SaveOpens
  BY <1>11, Stacks, MoreStacks DEF SaveOpens, OpenSConfig
<1>12. CASE SaveCloses
  <2>1. pc = "fill" /\ pc' = Head(after) /\ after' = Tail(after)
    BY <1>12 DEF SaveCloses, WriteSConfig, Return
  <2> QED
    BY <2>1, Unwinding
<1>13. CASE ClickLogin
  BY <1>13, Stacks, MoreStacks DEF ClickLogin, Resting, Idle, Call
<1>14. CASE Welcome
  <2>1. pc = "welcome" /\ pc' = Head(after) /\ after' = Tail(after)
    BY <1>14 DEF Welcome, Return
  <2> QED
    BY <2>1, Unwinding
<1>15. CASE LoginFails
  <2>1. pc = "mail" /\ pc' = Head(after) /\ after' = Tail(after)
    BY <1>15 DEF LoginFails, Return
  <2> QED
    BY <2>1, Unwinding
<1>16. CASE RegisterMailCallback
  BY <1>16, Stacks, MoreStacks DEF RegisterMailCallback, Resting, Idle, Call
<1>17. ASSUME NEW addrs \in SUBSET AccountServers, LoginMailCallback(addrs)
      PROVE  StackInv' /\ pc' \in Places
  BY <1>17, Stacks, MoreStacks DEF LoginMailCallback, Call
<1>18. CASE OpenSalmonConfig
  BY <1>18, Stacks, MoreStacks DEF OpenSalmonConfig, Goto
<1>19. CASE WriteSalmonConfig
  <2>1. pc = "accountFill" /\ pc' = Head(after) /\ after' = Tail(after)
    BY <1>19 DEF WriteSalmonConfig, Return
  <2> QED
    BY <2>1, Unwinding
<1>20. CASE ClickConnect
  BY <1>20, Stacks, MoreStacks DEF ClickConnect, Idle, Call
<1>21. CASE SweepConnects
  BY <1>21, Stacks, MoreStacks DEF SweepConnects, Goto, Connected, AddrsOf
<1>22. CASE SweepStops
  BY <1>22, Stacks, MoreStacks DEF SweepStops, Goto
<1>23. CASE SweepFails
  BY <1>23, Stacks, MoreStacks DEF SweepFails, Call
<1>24. CASE NeedServerGotNone
  BY <1>24, Stacks, MoreStacks DEF NeedServerGotNone, Call, Purges
<1>25. CASE NeedServerGotGates
  BY <1>25, Stacks, MoreStacks DEF NeedServerGotGates, Call, Purges
<1>26. ASSUME NEW a \in Servers, NeedServerGotSalmon(a)
      PROVE  StackInv' /\ pc' \in Places
  BY <1>26, Stacks, MoreStacks
  DEF NeedServerGotSalmon, Call, Purges, AddVPNInfo, PushBack, AddrsOf
<1>27. ASSUME NEW g \in Gates, NextGate(g)
      PROVE  StackInv' /\ pc' \in Places
  BY <1>27, Stacks, MoreStacks DEF NextGate, Call, AddVPNInfo, PushBack, AddrsOf
<1>28. CASE AddedSetting
  <2>1. pc = "addSetting" /\ pc' = Head(after) /\ after' = Tail(after)
    BY <1>28 DEF AddedSetting, Return
  <2> QED
    BY <2>1, Unwinding
<1>29. CASE NoMoreGates
  BY <1>29, Stacks, MoreStacks DEF NoMoreGates, Goto
<1>30. CASE GateConnects
  BY <1>30, Stacks, MoreStacks DEF GateConnects, Connected, Call
<1>31. CASE GateFails
  BY <1>31, Stacks, MoreStacks DEF GateFails
<1>32. CASE NothingToPurge
  <2>1. pc = "purge" /\ pc' = Head(after) /\ after' = Tail(after)
    BY <1>32 DEF NothingToPurge, Return
  <2> QED
    BY <2>1, Unwinding
<1>33. ASSUME NEW a \in Addresses, PurgeReturnsEarly(a)
      PROVE  StackInv' /\ pc' \in Places
  BY <1>33, Stacks, MoreStacks DEF PurgeReturnsEarly
<1>34. ASSUME NEW a \in Addresses, PurgeOpensSConfig(a)
      PROVE  StackInv' /\ pc' \in Places
  BY <1>34, Stacks, MoreStacks DEF PurgeOpensSConfig, Goto
<1>35. CASE PurgeWritesSConfig
  BY <1>35, Stacks, MoreStacks DEF PurgeWritesSConfig, Strike
<1>36. CASE PurgeOpensSalmonConfig
  BY <1>36, Stacks, MoreStacks DEF PurgeOpensSalmonConfig, Goto
<1>37. CASE PurgeWritesSalmonConfig
  BY <1>37, Stacks, MoreStacks DEF PurgeWritesSalmonConfig, Goto, Strike
<1>38. CASE RttFinds
  BY <1>38, Stacks, MoreStacks DEF RttFinds
<1>39. CASE RttSaveOpens
  BY <1>39, Stacks, MoreStacks DEF RttSaveOpens, OpenSConfig
<1>40. CASE RttSaveCloses
  BY <1>40, Stacks, MoreStacks DEF RttSaveCloses, WriteSConfig
<1>41. CASE ClickWipe
  BY <1>41, Stacks, MoreStacks DEF ClickWipe, WipeClicked, Idle, Call, AddrsOf
<1>42. CASE DeleteConnectionSettings
  BY <1>42, Stacks, MoreStacks DEF DeleteConnectionSettings, Goto, AddrsOf
<1>43. CASE WipeSConfig
  BY <1>43, Stacks, MoreStacks DEF WipeSConfig, Goto
<1>44. CASE WipeSalmonConfig
  BY <1>44, Stacks, MoreStacks DEF WipeSalmonConfig, ProcessEnds
<1>45. CASE Killed
  BY <1>45, Stacks, MoreStacks DEF Killed, ProcessEnds, AccountOpen, SettingsOpen
<1> QED
  BY <1>1, <1>2, <1>3, <1>4, <1>5, <1>6, <1>7, <1>8, <1>9, <1>10, <1>11, <1>12,
     <1>13, <1>14, <1>15, <1>16, <1>17, <1>18, <1>19, <1>20, <1>21, <1>22, <1>23, <1>24,
     <1>25, <1>26, <1>27, <1>28, <1>29, <1>30, <1>31, <1>32, <1>33, <1>34, <1>35, <1>36,
     <1>37, <1>38, <1>39, <1>40, <1>41, <1>42, <1>43, <1>44, <1>45
  DEF Next, GetSConfig, Login, Attempt, Purge, Rtt, Wipe

\* Every step keeps its variables in their sets.
LEMMA TypeStep ==
  ASSUME StoreInv, [Next]_vars
  PROVE  MemoryTyped' /\ FilesTyped' /\ LocalsTyped' /\ TargetInv'
<1> USE StoreAssumption DEF StoreInv, MemoryTyped, FilesTyped, LocalsTyped, TargetInv, StoreAssumption,
                            NoEntries, NoAccount, BlankAccount, Accounts
<1>1. CASE UNCHANGED vars
  BY <1>1 DEF vars
<1>2. CASE Start
  BY <1>2 DEF Start, Call
<1>3. CASE TrustMailCallback
  BY <1>3 DEF TrustMailCallback, Call, Resting, Idle
<1>4. CASE OpenForTrust
  BY <1>4 DEF OpenForTrust, Goto
<1>5. CASE WriteTrust
  <2>1. pc = "trustFill" /\ pc' = Head(after)
    BY <1>5 DEF WriteTrust, Return
  <2>2. pc' \in {"idle", "trust", "generate"}
    BY <2>1, Returns
  <2>3. /\ salmonConfig' \in Accounts /\ account' \in Accounts
        /\ UNCHANGED <<memory, gServerInfoMutex, sConfig, settings, shown, rttPc, entries,
                       target, reply, history>>
    BY <1>5 DEF WriteTrust
  <2> QED
    BY <2>1, <2>2, <2>3
<1>6. CASE Clear
  BY <1>6 DEF Clear, Goto
<1>7. CASE ReadExistingSConfig
  <2>1. pc = "load" /\ (pc' = "mail" \/ pc' = Head(after))
    BY <1>7 DEF ReadExistingSConfig, ReturnWith
  <2>2. pc' \in {"mail", "welcome", "sweep", "wipeSettings"}
    BY <2>1, Returns
  <2>3. gKnownServers' \in [Addresses -> Nat]
    BY <1>7 DEF ReadExistingSConfig, PushBack
  <2>4. gBaseVPNPassword' \in {"none", "BLANK", "good"}
    BY <1>7 DEF ReadExistingSConfig
  <2> QED
    BY <1>7, <2>1, <2>2, <2>3, <2>4 DEF ReadExistingSConfig
<1>8. CASE UnlinkSalmonConfig
  <2>1. /\ pc \in {"generate", "load"}
        /\ pc' = "mail" \/ pc' = Head(after)
    BY <1>8 DEF UnlinkSalmonConfig, Generating, ReturnWith
  <2>2. pc' \in {"idle", "mail", "welcome", "sweep", "wipeSettings"}
    BY <2>1, Returns
  <2> QED
    BY <1>8, <2>1, <2>2 DEF UnlinkSalmonConfig
<1>9. CASE GenerateFromSalmonConfig
  BY <1>9 DEF GenerateFromSalmonConfig, Generating, Call, PushBack
<1>10. CASE CreateConnectionSettings
  <2>1. /\ pc = "settings"
        /\ pc' = Head(after) \/ pc' = pc
        /\ settings' \subseteq Addresses
    BY <1>10 DEF CreateConnectionSettings, Return, AddrsOf
  <2>2. pc' \in {"settings", "welcome", "sweep", "wipeSettings", "idle"}
    BY <2>1, Returns
  <2>3. UNCHANGED <<memory, gServerInfoMutex, files, shown, rttPc, buffers, reply, history>>
    BY <1>10 DEF CreateConnectionSettings
  <2> QED
    BY <2>1, <2>2, <2>3
<1>11. CASE SaveOpens
  BY <1>11 DEF SaveOpens, OpenSConfig
<1>12. CASE SaveCloses
  <2>1. pc' = Head(after)
    BY <1>12 DEF SaveCloses, WriteSConfig, Return
  <2> QED
    BY <1>12, <2>1, Returns DEF SaveCloses, WriteSConfig, Return
<1>13. CASE ClickLogin
  BY <1>13 DEF ClickLogin, Resting, Idle, Call
<1>14. CASE Welcome
  <2>1. pc' = Head(after)
    BY <1>14 DEF Welcome, Return
  <2> QED
    BY <1>14, <2>1, Returns DEF Welcome, Return
<1>15. CASE LoginFails
  <2>1. pc' = Head(after)
    BY <1>15 DEF LoginFails, Return
  <2> QED
    BY <1>15, <2>1, Returns DEF LoginFails, Return
<1>16. CASE RegisterMailCallback
  BY <1>16 DEF RegisterMailCallback, Resting, Idle, Call
<1>17. ASSUME NEW addrs \in SUBSET AccountServers, LoginMailCallback(addrs)
      PROVE  MemoryTyped' /\ FilesTyped' /\ LocalsTyped' /\ TargetInv'
  BY <1>17 DEF LoginMailCallback, Call
<1>18. CASE OpenSalmonConfig
  BY <1>18 DEF OpenSalmonConfig, Goto
<1>19. CASE WriteSalmonConfig
  <2>1. pc = "accountFill" /\ pc' = Head(after)
    BY <1>19 DEF WriteSalmonConfig, Return
  <2>2. pc' \in {"idle", "trust"}
    BY <2>1, Returns
  <2>3. /\ salmonConfig' \in Accounts /\ account' \in Accounts
        /\ UNCHANGED <<memory, gServerInfoMutex, sConfig, settings, shown, rttPc, entries,
                       target, reply, history>>
    BY <1>19 DEF WriteSalmonConfig
  <2> QED
    BY <2>1, <2>2, <2>3
<1>20. CASE ClickConnect
  BY <1>20 DEF ClickConnect, Idle, Call
<1>21. CASE SweepConnects
  BY <1>21 DEF SweepConnects, Goto, Connected, AddrsOf
<1>22. CASE SweepStops
  BY <1>22 DEF SweepStops, Goto
<1>23. CASE SweepFails
  BY <1>23 DEF SweepFails, Call
<1>24. CASE NeedServerGotNone
  BY <1>24 DEF NeedServerGotNone, Call, Purges
<1>25. CASE NeedServerGotGates
  BY <1>25 DEF NeedServerGotGates, Call, Purges
<1>26. ASSUME NEW a \in Servers, NeedServerGotSalmon(a)
      PROVE  MemoryTyped' /\ FilesTyped' /\ LocalsTyped' /\ TargetInv'
  BY <1>26 DEF NeedServerGotSalmon, Call, Purges, AddVPNInfo, PushBack, AddrsOf
<1>27. ASSUME NEW g \in Gates, NextGate(g)
      PROVE  MemoryTyped' /\ FilesTyped' /\ LocalsTyped' /\ TargetInv'
  BY <1>27 DEF NextGate, Call, AddVPNInfo, PushBack, AddrsOf
<1>28. CASE AddedSetting
  <2>1. pc = "addSetting" /\ pc' = Head(after)
    BY <1>28 DEF AddedSetting, Return
  <2>2. pc' = "save" \/ (pc' = "gateDial" /\ after = <<"gateDial">>)
    BY <2>1, Returns
  <2>3. /\ UNCHANGED <<memory, gServerInfoMutex, files, shown, rttPc, buffers, reply, history>>
        /\ settings' \subseteq Addresses
    <3>1. settings' = settings \cup {target}
      BY <1>28 DEF AddedSetting
    <3> QED
      BY <1>28, <2>1, <3>1 DEF AddedSetting
  <2> QED
    BY <2>1, <2>2, <2>3
<1>29. CASE NoMoreGates
  BY <1>29 DEF NoMoreGates, Goto
<1>30. CASE GateConnects
  BY <1>30 DEF GateConnects, Connected, Call
<1>31. CASE GateFails
  BY <1>31 DEF GateFails
<1>32. CASE NothingToPurge
  <2>1. pc' = Head(after)
    BY <1>32 DEF NothingToPurge, Return
  <2> QED
    BY <1>32, <2>1, Returns DEF NothingToPurge, Return
<1>33. ASSUME NEW a \in Addresses, PurgeReturnsEarly(a)
      PROVE  MemoryTyped' /\ FilesTyped' /\ LocalsTyped' /\ TargetInv'
  BY <1>33 DEF PurgeReturnsEarly
<1>34. ASSUME NEW a \in Addresses, PurgeOpensSConfig(a)
      PROVE  MemoryTyped' /\ FilesTyped' /\ LocalsTyped' /\ TargetInv'
  BY <1>34 DEF PurgeOpensSConfig, Goto
<1>35. CASE PurgeWritesSConfig
  <2>1. sConfig' \in [Addresses -> Nat] /\ entries' \in [Addresses -> Nat]
    BY <1>35 DEF PurgeWritesSConfig
  <2>2. purged' \subseteq Addresses
    <3>1. pc = "purgeFill" /\ purged' = purged \cup Contains[target]
      BY <1>35 DEF PurgeWritesSConfig
    <3> QED
      BY <3>1
  <2> QED
    BY <1>35, <2>1, <2>2 DEF PurgeWritesSConfig
<1>36. CASE PurgeOpensSalmonConfig
  BY <1>36 DEF PurgeOpensSalmonConfig, Goto
<1>37. CASE PurgeWritesSalmonConfig
  BY <1>37 DEF PurgeWritesSalmonConfig, Goto, Strike
<1>38. CASE RttFinds
  BY <1>38 DEF RttFinds
<1>39. CASE RttSaveOpens
  BY <1>39 DEF RttSaveOpens, OpenSConfig
<1>40. CASE RttSaveCloses
  BY <1>40 DEF RttSaveCloses, WriteSConfig
<1>41. CASE ClickWipe
  BY <1>41 DEF ClickWipe, WipeClicked, Idle, Call, AddrsOf
<1>42. CASE DeleteConnectionSettings
  BY <1>42 DEF DeleteConnectionSettings, Goto, AddrsOf
<1>43. CASE WipeSConfig
  BY <1>43 DEF WipeSConfig, Goto
<1>44. CASE WipeSalmonConfig
  BY <1>44 DEF WipeSalmonConfig, ProcessEnds
<1>45. CASE Killed
  BY <1>45 DEF Killed, ProcessEnds, AccountOpen, SettingsOpen
<1> QED
  BY <1>1, <1>2, <1>3, <1>4, <1>5, <1>6, <1>7, <1>8, <1>9, <1>10, <1>11, <1>12,
     <1>13, <1>14, <1>15, <1>16, <1>17, <1>18, <1>19, <1>20, <1>21, <1>22, <1>23, <1>24,
     <1>25, <1>26, <1>27, <1>28, <1>29, <1>30, <1>31, <1>32, <1>33, <1>34, <1>35, <1>36,
     <1>37, <1>38, <1>39, <1>40, <1>41, <1>42, <1>43, <1>44, <1>45
  DEF Next, GetSConfig, Login, Attempt, Purge, Rtt, Wipe

\* Every step keeps a login's list empty until its servers are added.
LEMMA LoginStep ==
  ASSUME StoreInv, TwinsInv, [Next]_vars, StoreInv'
  PROVE  LoginInv' /\ PasswordInv' /\ EmptyInv'
<1> USE StoreAssumption DEF StoreInv, StackInv, TwinsInv, LoginInv, PasswordInv, EmptyInv, NoAccount,
                            BlankAccount, Getters, Purgers, Savers, Trusters, Accounters
<1>1. CASE UNCHANGED vars
  BY <1>1 DEF vars
<1>2. CASE Start
  BY <1>2, Stacks, MoreStacks DEF Start, Call
<1>3. CASE TrustMailCallback
  BY <1>3, Stacks, MoreStacks DEF TrustMailCallback, Call, Resting, Idle
<1>4. CASE OpenForTrust
  BY <1>4, Stacks, MoreStacks DEF OpenForTrust, Goto
<1>5. CASE WriteTrust
  <2>1. /\ pc = "trustFill" /\ pc' = Head(after) /\ after' = Tail(after)
        /\ salmonConfig' = account
        /\ UNCHANGED <<gKnownServers, sConfig, shown, rttPc>>
    BY <1>5 DEF WriteTrust, Return
  <2>2. \/ after = <<"idle">> /\ pc' = "idle" /\ after' = <<>>
        \/ after = <<"trust", "idle">> /\ pc' = "trust" /\ after' = <<"idle">>
        \/ after = <<"generate", "idle">> /\ pc' = "generate" /\ after' = <<"idle">>
    BY <2>1, Stacks
  <2> QED
    BY <2>1, <2>2
<1>6. CASE Clear
  BY <1>6, Stacks, MoreStacks DEF Clear, Goto
<1>7. CASE ReadExistingSConfig
  <2>1. /\ pc = "load" /\ after' = Tail(after) /\ sConfig # NoEntries
        /\ pc' = Head(after) \/ (Head(after) = "welcome" /\ pc' = "mail")
        /\ pc' = "mail" => salmonConfig.pw = "none" \/ gKnownServers' = NoEntries
        /\ gKnownServers' = PushBack(gKnownServers, AddrsOf(sConfig))
        /\ UNCHANGED <<sConfig, salmonConfig, shown, rttPc>>
    BY <1>7, Returns DEF ReadExistingSConfig, ReturnWith
  <2>2. gKnownServers' # NoEntries
    <3>1. gKnownServers = NoEntries
      BY <2>1
    <3>2. PICK a \in Addresses : sConfig[a] > 0
      BY <2>1 DEF NoEntries, FilesTyped
    <3>3. gKnownServers'[a] = 1
      BY <2>1, <3>1, <3>2 DEF PushBack, AddrsOf, NoEntries
    <3> QED
      BY <3>3 DEF NoEntries
  <2>3. \/ after = <<"welcome", "idle">> /\ pc' \in {"welcome", "mail"} /\ after' = <<"idle">>
        \/ after # <<"welcome", "idle">> /\ pc' \in {"sweep", "wipeSettings"} /\ after' = <<>>
    BY <2>1, Stacks
  <2>4. pc' # "mail"
    BY <2>1, <2>2, <2>3
  <2> QED
    BY <2>1, <2>3, <2>4
<1>8. CASE UnlinkSalmonConfig
  BY <1>8, Stacks, MoreStacks DEF UnlinkSalmonConfig, Generating, ReturnWith
<1>9. CASE GenerateFromSalmonConfig
  BY <1>9, Stacks, MoreStacks DEF GenerateFromSalmonConfig, Generating, Call, PushBack
<1>10. CASE CreateConnectionSettings
  BY <1>10, Stacks, MoreStacks DEF CreateConnectionSettings, Return, AddrsOf
<1>11. CASE SaveOpens
  BY <1>11, Stacks, MoreStacks DEF SaveOpens, OpenSConfig
<1>12. CASE SaveCloses
  BY <1>12, Stacks, MoreStacks DEF SaveCloses, WriteSConfig, Return
<1>13. CASE ClickLogin
  BY <1>13, Stacks, MoreStacks DEF ClickLogin, Resting, Idle, Call
<1>14. CASE Welcome
  BY <1>14, Stacks, MoreStacks DEF Welcome, Return
<1>15. CASE LoginFails
  BY <1>15, Stacks, MoreStacks DEF LoginFails, Return
<1>16. CASE RegisterMailCallback
  BY <1>16, Stacks, MoreStacks DEF RegisterMailCallback, Resting, Idle, Call
<1>17. ASSUME NEW addrs \in SUBSET AccountServers, LoginMailCallback(addrs)
      PROVE  LoginInv' /\ PasswordInv' /\ EmptyInv'
  BY <1>17, Stacks, MoreStacks DEF LoginMailCallback, Call
<1>18. CASE OpenSalmonConfig
  BY <1>18, Stacks, MoreStacks DEF OpenSalmonConfig, Goto
<1>19. CASE WriteSalmonConfig
  <2>1. /\ pc = "accountFill" /\ pc' = Head(after) /\ after' = Tail(after)
        /\ UNCHANGED <<gKnownServers, sConfig, shown, rttPc>>
    BY <1>19 DEF WriteSalmonConfig, Return
  <2>2. \/ after = <<"idle">> /\ pc' = "idle" /\ after' = <<>>
        \/ after = <<"trust", "idle">> /\ pc' = "trust" /\ after' = <<"idle">>
        \/ /\ after = <<"trust", "generate", "idle">>
           /\ pc' = "trust" /\ after' = <<"generate", "idle">>
    BY <2>1, Stacks
  <2>3. shown = "main"
    BY <2>1
  <2> QED
    BY <2>1, <2>2, <2>3
<1>20. CASE ClickConnect
  BY <1>20, Stacks, MoreStacks DEF ClickConnect, Idle, Call
<1>21. CASE SweepConnects
  BY <1>21, Stacks, MoreStacks DEF SweepConnects, Goto, Connected, AddrsOf
<1>22. CASE SweepStops
  BY <1>22, Stacks, MoreStacks DEF SweepStops, Goto
<1>23. CASE SweepFails
  BY <1>23, Stacks, MoreStacks DEF SweepFails, Call
<1>24. CASE NeedServerGotNone
  BY <1>24, Stacks, MoreStacks DEF NeedServerGotNone, Call, Purges
<1>25. CASE NeedServerGotGates
  BY <1>25, Stacks, MoreStacks DEF NeedServerGotGates, Call, Purges
<1>26. ASSUME NEW a \in Servers, NeedServerGotSalmon(a)
      PROVE  LoginInv' /\ PasswordInv' /\ EmptyInv'
  BY <1>26, Stacks, MoreStacks
  DEF NeedServerGotSalmon, Call, Purges, AddVPNInfo, PushBack, AddrsOf
<1>27. ASSUME NEW g \in Gates, NextGate(g)
      PROVE  LoginInv' /\ PasswordInv' /\ EmptyInv'
  BY <1>27, Stacks, MoreStacks DEF NextGate, Call, AddVPNInfo, PushBack, AddrsOf
<1>28. CASE AddedSetting
  BY <1>28, Stacks, MoreStacks DEF AddedSetting, Return
<1>29. CASE NoMoreGates
  BY <1>29, Stacks, MoreStacks DEF NoMoreGates, Goto
<1>30. CASE GateConnects
  BY <1>30, Stacks, MoreStacks DEF GateConnects, Connected, Call
<1>31. CASE GateFails
  BY <1>31, Stacks, MoreStacks DEF GateFails
<1>32. CASE NothingToPurge
  BY <1>32, Stacks, MoreStacks DEF NothingToPurge, Return
<1>33. ASSUME NEW a \in Addresses, PurgeReturnsEarly(a)
      PROVE  LoginInv' /\ PasswordInv' /\ EmptyInv'
  BY <1>33, Stacks, MoreStacks DEF PurgeReturnsEarly
<1>34. ASSUME NEW a \in Addresses, PurgeOpensSConfig(a)
      PROVE  LoginInv' /\ PasswordInv' /\ EmptyInv'
  BY <1>34, Stacks, MoreStacks DEF PurgeOpensSConfig, Goto
<1>35. CASE PurgeWritesSConfig
  BY <1>35, Stacks, MoreStacks DEF PurgeWritesSConfig, Strike
<1>36. CASE PurgeOpensSalmonConfig
  BY <1>36, Stacks, MoreStacks DEF PurgeOpensSalmonConfig, Goto
<1>37. CASE PurgeWritesSalmonConfig
  BY <1>37, Stacks, MoreStacks DEF PurgeWritesSalmonConfig, Goto, Strike
<1>38. CASE RttFinds
  BY <1>38, Stacks, MoreStacks DEF RttFinds
<1>39. CASE RttSaveOpens
  BY <1>39, Stacks, MoreStacks DEF RttSaveOpens, OpenSConfig
<1>40. CASE RttSaveCloses
  BY <1>40, Stacks, MoreStacks DEF RttSaveCloses, WriteSConfig
<1>41. CASE ClickWipe
  BY <1>41, Stacks, MoreStacks DEF ClickWipe, WipeClicked, Idle, Call, AddrsOf
<1>42. CASE DeleteConnectionSettings
  BY <1>42, Stacks, MoreStacks DEF DeleteConnectionSettings, Goto, AddrsOf
<1>43. CASE WipeSConfig
  BY <1>43, Stacks, MoreStacks DEF WipeSConfig, Goto
<1>44. CASE WipeSalmonConfig
  BY <1>44, Stacks, MoreStacks DEF WipeSalmonConfig, ProcessEnds
<1>45. CASE Killed
  BY <1>45, Stacks, MoreStacks DEF Killed, ProcessEnds, AccountOpen, SettingsOpen
<1> QED
  BY <1>1, <1>2, <1>3, <1>4, <1>5, <1>6, <1>7, <1>8, <1>9, <1>10, <1>11, <1>12,
     <1>13, <1>14, <1>15, <1>16, <1>17, <1>18, <1>19, <1>20, <1>21, <1>22, <1>23, <1>24,
     <1>25, <1>26, <1>27, <1>28, <1>29, <1>30, <1>31, <1>32, <1>33, <1>34, <1>35, <1>36,
     <1>37, <1>38, <1>39, <1>40, <1>41, <1>42, <1>43, <1>44, <1>45
  DEF Next, GetSConfig, Login, Attempt, Purge, Rtt, Wipe

\* Every step keeps the entries of a server to one.
LEMMA SingleStep ==
  ASSUME StoreInv, TwinsInv, [Next]_vars
  PROVE  SingleInv'
<1> USE DEF StoreInv, MemoryTyped, FilesTyped, LocalsTyped, TwinsInv, EmptyInv, SingleInv, NoEntries
<1>1. CASE UNCHANGED vars
  BY <1>1 DEF vars
<1>2. CASE Start
  BY <1>2 DEF Start, Call
<1>3. CASE TrustMailCallback
  BY <1>3 DEF TrustMailCallback, Call, Resting, Idle
<1>4. CASE OpenForTrust
  BY <1>4 DEF OpenForTrust, Goto
<1>5. CASE WriteTrust
  BY <1>5 DEF WriteTrust, Return
<1>6. CASE Clear
  BY <1>6 DEF Clear, Goto
<1>7. CASE ReadExistingSConfig
  BY <1>7 DEF ReadExistingSConfig, ReturnWith, PushBack
<1>8. CASE UnlinkSalmonConfig
  BY <1>8 DEF UnlinkSalmonConfig, Generating, ReturnWith
<1>9. CASE GenerateFromSalmonConfig
  BY <1>9 DEF GenerateFromSalmonConfig, Generating, Call, PushBack
<1>10. CASE CreateConnectionSettings
  BY <1>10 DEF CreateConnectionSettings, Return, AddrsOf
<1>11. CASE SaveOpens
  BY <1>11 DEF SaveOpens, OpenSConfig
<1>12. CASE SaveCloses
  BY <1>12 DEF SaveCloses, WriteSConfig, Return
<1>13. CASE ClickLogin
  BY <1>13 DEF ClickLogin, Resting, Idle, Call
<1>14. CASE Welcome
  BY <1>14 DEF Welcome, Return
<1>15. CASE LoginFails
  BY <1>15 DEF LoginFails, Return
<1>16. CASE RegisterMailCallback
  BY <1>16 DEF RegisterMailCallback, Resting, Idle, Call
<1>17. ASSUME NEW addrs \in SUBSET AccountServers, LoginMailCallback(addrs)
      PROVE  SingleInv'
  BY <1>17 DEF LoginMailCallback, Call
<1>18. CASE OpenSalmonConfig
  BY <1>18 DEF OpenSalmonConfig, Goto
<1>19. CASE WriteSalmonConfig
  BY <1>19 DEF WriteSalmonConfig, Return
<1>20. CASE ClickConnect
  BY <1>20 DEF ClickConnect, Idle, Call
<1>21. CASE SweepConnects
  BY <1>21 DEF SweepConnects, Goto, Connected, AddrsOf
<1>22. CASE SweepStops
  BY <1>22 DEF SweepStops, Goto
<1>23. CASE SweepFails
  BY <1>23 DEF SweepFails, Call
<1>24. CASE NeedServerGotNone
  BY <1>24 DEF NeedServerGotNone, Call, Purges
<1>25. CASE NeedServerGotGates
  BY <1>25 DEF NeedServerGotGates, Call, Purges
<1>26. ASSUME NEW a \in Servers, NeedServerGotSalmon(a)
      PROVE  SingleInv'
  BY <1>26 DEF NeedServerGotSalmon, Call, Purges, AddVPNInfo, PushBack, AddrsOf
<1>27. ASSUME NEW g \in Gates, NextGate(g)
      PROVE  SingleInv'
  BY <1>27 DEF NextGate, Call, AddVPNInfo, PushBack, AddrsOf
<1>28. CASE AddedSetting
  BY <1>28 DEF AddedSetting, Return
<1>29. CASE NoMoreGates
  BY <1>29 DEF NoMoreGates, Goto
<1>30. CASE GateConnects
  BY <1>30 DEF GateConnects, Connected, Call
<1>31. CASE GateFails
  BY <1>31 DEF GateFails
<1>32. CASE NothingToPurge
  BY <1>32 DEF NothingToPurge, Return
<1>33. ASSUME NEW a \in Addresses, PurgeReturnsEarly(a)
      PROVE  SingleInv'
  BY <1>33 DEF PurgeReturnsEarly
<1>34. ASSUME NEW a \in Addresses, PurgeOpensSConfig(a)
      PROVE  SingleInv'
  BY <1>34 DEF PurgeOpensSConfig, Goto
<1>35. CASE PurgeWritesSConfig
  BY <1>35 DEF PurgeWritesSConfig, Strike
<1>36. CASE PurgeOpensSalmonConfig
  BY <1>36 DEF PurgeOpensSalmonConfig, Goto
<1>37. CASE PurgeWritesSalmonConfig
  BY <1>37 DEF PurgeWritesSalmonConfig, Goto, Strike
<1>38. CASE RttFinds
  BY <1>38 DEF RttFinds
<1>39. CASE RttSaveOpens
  BY <1>39 DEF RttSaveOpens, OpenSConfig
<1>40. CASE RttSaveCloses
  BY <1>40 DEF RttSaveCloses, WriteSConfig
<1>41. CASE ClickWipe
  BY <1>41 DEF ClickWipe, WipeClicked, Idle, Call, AddrsOf
<1>42. CASE DeleteConnectionSettings
  BY <1>42 DEF DeleteConnectionSettings, Goto, AddrsOf
<1>43. CASE WipeSConfig
  BY <1>43 DEF WipeSConfig, Goto
<1>44. CASE WipeSalmonConfig
  BY <1>44 DEF WipeSalmonConfig, ProcessEnds
<1>45. CASE Killed
  BY <1>45 DEF Killed, ProcessEnds, AccountOpen, SettingsOpen
<1> QED
  BY <1>1, <1>2, <1>3, <1>4, <1>5, <1>6, <1>7, <1>8, <1>9, <1>10, <1>11, <1>12,
     <1>13, <1>14, <1>15, <1>16, <1>17, <1>18, <1>19, <1>20, <1>21, <1>22, <1>23, <1>24,
     <1>25, <1>26, <1>27, <1>28, <1>29, <1>30, <1>31, <1>32, <1>33, <1>34, <1>35, <1>36,
     <1>37, <1>38, <1>39, <1>40, <1>41, <1>42, <1>43, <1>44, <1>45
  DEF Next, GetSConfig, Login, Attempt, Purge, Rtt, Wipe

\* All return addresses are sequences of places.
LEMMA AfterTyped ==
  ASSUME StackInv, pc \in Places
  PROVE  after \in Seq(Places)
<1>1. <<>> \in Seq(Places)
  OBVIOUS
<1>2. /\ \A x \in Places : <<x>> \in Seq(Places)
      /\ \A x, y \in Places : <<x, y>> \in Seq(Places)
      /\ \A x, y, z \in Places : <<x, y, z>> \in Seq(Places)
  BY Tuples
<1>3. after \in {<<>>} \cup Getters \cup Purgers \cup Savers \cup Trusters \cup Accounters
               \cup {<<"save", "purge", "sweep">>, <<"gateDial">>}
  BY DEF StackInv, Places, Getters, Trusters, Accounters
<1>4. /\ {"idle", "welcome", "sweep", "wipeSettings", "gate", "settings", "ask"} \subseteq Places
      /\ {"purge", "trust", "generate", "save", "gateDial"} \subseteq Places
  BY DEF Places
<1> HIDE DEF Places
<1>5. Getters \subseteq Seq(Places) /\ Purgers \subseteq Seq(Places)
  BY <1>2, <1>4 DEF Getters, Purgers
<1>6. Savers \subseteq Seq(Places)
  BY <1>2, <1>4 DEF Savers
<1>7. Trusters \subseteq Seq(Places) /\ Accounters \subseteq Seq(Places)
  BY <1>2, <1>4 DEF Trusters, Accounters
<1>8. {<<"save", "purge", "sweep">>, <<"gateDial">>} \subseteq Seq(Places)
  BY <1>2, <1>4
<1> QED
  BY <1>1, <1>3, <1>5, <1>6, <1>7, <1>8

\* A fresh installation has the invariants.
LEMMA StoreStart ==
  ASSUME Init
  PROVE  StoreInv /\ TwinsInv
<1> USE StoreAssumption DEF Init, NoEntries, NoAccount
<1>1. StackInv /\ pc \in Places
  BY DEF StackInv, Places
<1>2. MemoryTyped /\ FilesTyped /\ LocalsTyped /\ TargetInv
  BY DEF MemoryTyped, FilesTyped, LocalsTyped, TargetInv, Accounts
<1>3. TwinsInv
  BY DEF TwinsInv, LoginInv, PasswordInv, EmptyInv, SingleInv
<1> QED
  BY <1>1, <1>2, <1>3 DEF StoreInv

\* The invariants hold through every login, attempt, purge, wipe and kill.
THEOREM StoreInvariant == Spec => [](StoreInv /\ TwinsInv)
<1>1. Init => StoreInv /\ TwinsInv
  BY StoreStart
<1>2. StoreInv /\ TwinsInv /\ [Next]_vars => (StoreInv /\ TwinsInv)'
  <2> SUFFICES ASSUME StoreInv, TwinsInv, [Next]_vars
               PROVE  StoreInv' /\ TwinsInv'
    OBVIOUS
  <2>1. StackInv' /\ pc' \in Places
    BY StackStep DEF StoreInv
  <2>2. StoreInv'
    BY <2>1, TypeStep DEF StoreInv
  <2>3. LoginInv' /\ PasswordInv' /\ EmptyInv' /\ SingleInv'
    BY <2>2, LoginStep, SingleStep
  <2> QED
    BY <2>2, <2>3 DEF TwinsInv
<1> QED
  BY <1>1, <1>2, PTL DEF Spec

\* Every variable stays in its set: the mutex has the owner that is writing SConfig.txt,
\* every function has a place to return to, and the lists in memory and in the
\* file are counts of entries, however the RTT thread, kills and wipes come between.
THEOREM Typing == Spec => []TypeOK
<1>1. StoreInv => TypeOK
  BY AfterTyped DEF StoreInv, MemoryTyped, FilesTyped, LocalsTyped, TypeOK
<1> QED
  BY <1>1, StoreInvariant, PTL

\* No server has two entries in memory or in SConfig.txt, although
\* generate_S_from_SalmonConfig adds to the list without looking (salmon_config.cpp).
THEOREM OneEntryEach == Spec => []NoTwins
<1>1. TwinsInv => NoTwins
  BY DEF TwinsInv, SingleInv, NoTwins
<1> QED
  BY <1>1, StoreInvariant, PTL

================================================================================
