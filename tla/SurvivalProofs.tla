---------------------------- MODULE SurvivalProofs ----------------------------
(***************************************************************************)
(* Proofs about ServerStore, for any servers and any number of kills: what *)
(* an attempt still has of the password, the list, the account's servers   *)
(* and the connection settings, whatever has been killed, purged and saved *)
(* before it, and what a wipe leaves.                                      *)
(***************************************************************************)
EXTENDS ServerStoreProofs

\* A wipe, from the click on.
Wiping == \/ pc \in {"wipeSettings", "wipeSConfig", "wipeAccount"}
          \/ after \in {<<"wipeSettings">>, <<"settings", "wipeSettings">>}

\* Nothing saves the list during a wipe, if the RTT thread had nothing to do at the click.
WipeInv == /\ Wiping => rttPc = "off"
           /\ pc = "wipeAccount" => sConfig = NoEntries

\* Without the RTT thread at work, nobody saves the list during a wipe.
QuietInv == "wipe" \notin cut => WipeInv

\* getSConfig has generated the list, and creates the settings next.
Generators == {<<"settings", "welcome", "idle">>, <<"settings", "sweep">>,
               <<"settings", "wipeSettings">>, <<"settings", "idle">>}
Generated == pc = "settings" \/ (pc \in {"save", "fill"} /\ after \in Generators)

USE DEF memory, files, buffers, reply, history, Addresses

----------------------------------------------------------------------------
(* Calls, cuts and wipes. *)

\* What getSConfig returns to, with a list or without.
LEMMA ReturnsFromRead ==
  ASSUME StackInv, pc \in {"generate", "load"}, after' = Tail(after),
         pc' = Head(after) \/ (Head(after) = "welcome" /\ pc' = "mail")
  PROVE  \/ pc = "generate" /\ pc' = "idle" /\ after' = <<>>
         \/ /\ pc = "load" /\ after = <<"welcome", "idle">>
            /\ pc' \in {"welcome", "mail"} /\ after' = <<"idle">>
         \/ pc = "load" /\ after = <<"sweep">> /\ pc' = "sweep" /\ after' = <<>>
         \/ pc = "load" /\ after = <<"wipeSettings">> /\ pc' = "wipeSettings" /\ after' = <<>>
<1> USE Stacks
    DEF StackInv, Getters
<1>1. CASE pc = "generate"
  BY <1>1
<1>2. CASE pc = "load" /\ after = <<"welcome", "idle">>
  BY <1>2
<1>3. CASE pc = "load" /\ after = <<"sweep">>
  BY <1>3
<1>4. CASE pc = "load" /\ after = <<"wipeSettings">>
  BY <1>4
<1> QED
  BY <1>1, <1>2, <1>3, <1>4

\* What it calls when it generates the list.
LEMMA GeneratesNext ==
  ASSUME StackInv, pc \in {"generate", "load"}, after' = <<"settings">> \o after
  PROVE  \/ after = <<"welcome", "idle">> /\ after' = <<"settings", "welcome", "idle">>
         \/ after = <<"sweep">> /\ after' = <<"settings", "sweep">>
         \/ after = <<"wipeSettings">> /\ after' = <<"settings", "wipeSettings">>
         \/ after = <<"idle">> /\ after' = <<"settings", "idle">>
<1>1. after \in {<<"welcome", "idle">>, <<"sweep">>, <<"wipeSettings">>, <<"idle">>}
  BY DEF StackInv, Getters
<1> QED
  BY <1>1, MoreStacks

\* Return addresses that begin differently are different.
LEMMA MoreApart ==
  /\ \A x \in Generators : x \notin {<<"ask">>, <<"idle">>, <<"purge", "sweep">>, <<>>,
                                     <<"save", "purge", "sweep">>, <<"gateDial">>}
  /\ <<"save", "purge", "sweep">> # <<"gateDial">>
<1>1. \A x \in Generators : Head(x) = "settings" /\ x # <<>>
  <2>1. /\ <<"settings", "welcome", "idle">> # <<>> /\ <<"settings", "sweep">> # <<>>
        /\ <<"settings", "wipeSettings">> # <<>> /\ <<"settings", "idle">> # <<>>
    OBVIOUS
  <2> QED
    BY <2>1, Stacks DEF Generators
<1>2. /\ Head(<<"ask">>) = "ask" /\ Head(<<"idle">>) = "idle"
      /\ Head(<<"purge", "sweep">>) = "purge" /\ Head(<<"gateDial">>) = "gateDial"
      /\ Head(<<"save", "purge", "sweep">>) = "save"
  BY Stacks
<1> QED
  BY <1>1, <1>2

\* And from those of a wipe.
LEMMA WipeApart ==
  \A x \in {<<>>, <<"idle">>, <<"generate", "idle">>, <<"trust", "idle">>, <<"welcome", "idle">>,
             <<"sweep">>, <<"purge", "sweep">>} :
    x \notin {<<"wipeSettings">>, <<"settings", "wipeSettings">>}
<1>1. \A x \in {<<"idle">>, <<"generate", "idle">>, <<"trust", "idle">>, <<"welcome", "idle">>,
                 <<"sweep">>, <<"purge", "sweep">>} :
        Head(x) \notin {"wipeSettings", "settings"}
  BY Stacks
<1>2. <<>> # <<"wipeSettings">> /\ <<>> # <<"settings", "wipeSettings">>
  OBVIOUS
<1> QED
  BY <1>1, <1>2, Stacks

\* What is not on the way to generate_S_from_SalmonConfig.
LEMMA FreshApart ==
  \A x \in Generators \cup Getters \cup Purgers \cup {<<>>, <<"gateDial">>} :
    x \notin {<<"generate", "idle">>, <<"trust", "generate", "idle">>}
<1>1. \A x \in Generators \cup Getters \cup Purgers \cup {<<"gateDial">>} :
        Head(x) \notin {"generate", "trust"}
  BY Stacks DEF Generators, Getters, Purgers
<1>2. <<>> # <<"generate", "idle">> /\ <<>> # <<"trust", "generate", "idle">>
  OBVIOUS
<1> QED
  BY <1>1, <1>2, Stacks

\* A kill cuts, and never mends.
LEMMA CutGrows ==
  ASSUME [Next]_vars
  PROVE  cut \subseteq cut'
<1>1. CASE UNCHANGED vars
  BY <1>1 DEF vars
<1>2. CASE Start
  BY <1>2 DEF Start, Call
<1>3. CASE TrustMailCallback
  BY <1>3 DEF TrustMailCallback, Call, Resting, Idle
<1>4. CASE OpenForTrust
  BY <1>4 DEF OpenForTrust, Goto
<1>5. CASE WriteTrust
  BY <1>5 DEF WriteTrust, Return
<1>6. CASE Clear
  BY <1>6 DEF Clear, Goto
<1>7. CASE ReadExistingSConfig
  BY <1>7 DEF ReadExistingSConfig, ReturnWith, PushBack
<1>8. CASE UnlinkSalmonConfig
  BY <1>8 DEF UnlinkSalmonConfig, Generating, ReturnWith
<1>9. CASE GenerateFromSalmonConfig
  BY <1>9 DEF GenerateFromSalmonConfig, Generating, Call, PushBack
<1>10. CASE CreateConnectionSettings
  BY <1>10 DEF CreateConnectionSettings, Return, AddrsOf
<1>11. CASE SaveOpens
  BY <1>11 DEF SaveOpens, OpenSConfig
<1>12. CASE SaveCloses
  BY <1>12 DEF SaveCloses, WriteSConfig, Return
<1>13. CASE ClickLogin
  BY <1>13 DEF ClickLogin, Resting, Idle, Call
<1>14. CASE Welcome
  BY <1>14 DEF Welcome, Return
<1>15. CASE LoginFails
  BY <1>15 DEF LoginFails, Return
<1>16. CASE RegisterMailCallback
  BY <1>16 DEF RegisterMailCallback, Resting, Idle, Call
<1>17. ASSUME NEW addrs \in SUBSET AccountServers, LoginMailCallback(addrs)
      PROVE  cut \subseteq cut'
  BY <1>17 DEF LoginMailCallback, Call
<1>18. CASE OpenSalmonConfig
  BY <1>18 DEF OpenSalmonConfig, Goto
<1>19. CASE WriteSalmonConfig
  BY <1>19 DEF WriteSalmonConfig, Return
<1>20. CASE ClickConnect
  BY <1>20 DEF ClickConnect, Idle, Call
<1>21. CASE SweepConnects
  BY <1>21 DEF SweepConnects, Goto, Connected, AddrsOf
<1>22. CASE SweepStops
  BY <1>22 DEF SweepStops, Goto
<1>23. CASE SweepFails
  BY <1>23 DEF SweepFails, Call
<1>24. CASE NeedServerGotNone
  BY <1>24 DEF NeedServerGotNone, Call, Purges
<1>25. CASE NeedServerGotGates
  BY <1>25 DEF NeedServerGotGates, Call, Purges
<1>26. ASSUME NEW a \in Servers, NeedServerGotSalmon(a)
      PROVE  cut \subseteq cut'
  BY <1>26 DEF NeedServerGotSalmon, Call, Purges, AddVPNInfo, PushBack, AddrsOf
<1>27. ASSUME NEW g \in Gates, NextGate(g)
      PROVE  cut \subseteq cut'
  BY <1>27 DEF NextGate, Call, AddVPNInfo, PushBack, AddrsOf
<1>28. CASE AddedSetting
  BY <1>28 DEF AddedSetting, Return
<1>29. CASE NoMoreGates
  BY <1>29 DEF NoMoreGates, Goto
<1>30. CASE GateConnects
  BY <1>30 DEF GateConnects, Connected, Call
<1>31. CASE GateFails
  BY <1>31 DEF GateFails
<1>32. CASE NothingToPurge
  BY <1>32 DEF NothingToPurge, Return
<1>33. ASSUME NEW a \in Addresses, PurgeReturnsEarly(a)
      PROVE  cut \subseteq cut'
  BY <1>33 DEF PurgeReturnsEarly
<1>34. ASSUME NEW a \in Addresses, PurgeOpensSConfig(a)
      PROVE  cut \subseteq cut'
  BY <1>34 DEF PurgeOpensSConfig, Goto
<1>35. CASE PurgeWritesSConfig
  BY <1>35 DEF PurgeWritesSConfig, Strike
<1>36. CASE PurgeOpensSalmonConfig
  BY <1>36 DEF PurgeOpensSalmonConfig, Goto
<1>37. CASE PurgeWritesSalmonConfig
  BY <1>37 DEF PurgeWritesSalmonConfig, Goto, Strike
<1>38. CASE RttFinds
  BY <1>38 DEF RttFinds
<1>39. CASE RttSaveOpens
  BY <1>39 DEF RttSaveOpens, OpenSConfig
<1>40. CASE RttSaveCloses
  BY <1>40 DEF RttSaveCloses, WriteSConfig
<1>41. CASE ClickWipe
  BY <1>41 DEF ClickWipe, WipeClicked, Idle, Call, AddrsOf
<1>42. CASE DeleteConnectionSettings
  BY <1>42 DEF DeleteConnectionSettings, Goto, AddrsOf
<1>43. CASE WipeSConfig
  BY <1>43 DEF WipeSConfig, Goto
<1>44. CASE WipeSalmonConfig
  BY <1>44 DEF WipeSalmonConfig, ProcessEnds
<1>45. CASE Killed
  BY <1>45 DEF Killed, ProcessEnds, AccountOpen, SettingsOpen
<1> QED
  BY <1>1, <1>2, <1>3, <1>4, <1>5, <1>6, <1>7, <1>8, <1>9, <1>10, <1>11, <1>12,
     <1>13, <1>14, <1>15, <1>16, <1>17, <1>18, <1>19, <1>20, <1>21, <1>22, <1>23, <1>24,
     <1>25, <1>26, <1>27, <1>28, <1>29, <1>30, <1>31, <1>32, <1>33, <1>34, <1>35, <1>36,
     <1>37, <1>38, <1>39, <1>40, <1>41, <1>42, <1>43, <1>44, <1>45
  DEF Next, GetSConfig, Login, Attempt, Purge, Rtt, Wipe

\* While everything is wiped, nobody saves the list.
LEMMA QuietStep ==
  ASSUME StoreInv, TwinsInv, "wipe" \notin cut', WipeInv, [Next]_vars
  PROVE  WipeInv'
<1> USE Stacks, MoreStacks
    DEF StoreInv, StackInv, TwinsInv, LoginInv, WipeInv, Wiping, Getters, Purgers, Savers,
        Trusters, Accounters
<1>1. CASE UNCHANGED vars
  BY <1>1 DEF vars
<1>2. CASE Start
  BY <1>2 DEF Start, Call
<1>3. CASE TrustMailCallback
  BY <1>3 DEF TrustMailCallback, Call, Resting, Idle
<1>4. CASE OpenForTrust
  BY <1>4 DEF OpenForTrust, Goto
<1>5. CASE WriteTrust
  <2>1. /\ pc = "trustFill" /\ pc' = Head(after) /\ after' = Tail(after)
        /\ UNCHANGED <<rttPc, sConfig>>
    BY <1>5 DEF WriteTrust, Return
  <2> QED
    BY <2>1, Unwinding, WipeApart
<1>6. CASE Clear
  BY <1>6 DEF Clear, Goto
<1>7. CASE ReadExistingSConfig
  <2>1. /\ pc = "load" /\ after' = Tail(after)
        /\ pc' = Head(after) \/ (Head(after) = "welcome" /\ pc' = "mail")
        /\ UNCHANGED <<rttPc, sConfig>>
    BY <1>7 DEF ReadExistingSConfig, ReturnWith, PushBack, AddrsOf
  <2> QED
    BY <2>1, ReturnsFromRead, WipeApart
<1>8. CASE UnlinkSalmonConfig
  <2>1. /\ pc \in {"generate", "load"} /\ after' = Tail(after)
        /\ pc' = Head(after) \/ (Head(after) = "welcome" /\ pc' = "mail")
        /\ UNCHANGED <<rttPc, sConfig>>
    BY <1>8 DEF UnlinkSalmonConfig, Generating, ReturnWith
  <2> QED
    BY <2>1, ReturnsFromRead, WipeApart
<1>9. CASE GenerateFromSalmonConfig
  <2>1. /\ pc \in {"generate", "load"} /\ pc' = "save" /\ after' = <<"settings">> \o after
        /\ UNCHANGED <<rttPc, sConfig>>
    BY <1>9 DEF GenerateFromSalmonConfig, Generating, Call, PushBack
  <2> QED
    BY <2>1, GeneratesNext, MoreApart, Apart
<1>10. CASE CreateConnectionSettings
  <2>1. /\ pc = "settings"
        /\ (pc' = Head(after) /\ after' = Tail(after)) \/ UNCHANGED <<pc, after>>
        /\ UNCHANGED <<rttPc, sConfig>>
    BY <1>10 DEF CreateConnectionSettings, Return, AddrsOf
  <2> QED
    BY <2>1, Unwinding, WipeApart
<1>11. CASE SaveOpens
  BY <1>11 DEF SaveOpens, OpenSConfig
<1>12. CASE SaveCloses
  <2>1. /\ pc = "fill" /\ pc' = Head(after) /\ after' = Tail(after)
        /\ UNCHANGED <<rttPc>>
    BY <1>12 DEF SaveCloses, WriteSConfig, Return
  <2> QED
    BY <2>1, Unwinding, WipeApart
<1>13. CASE ClickLogin
  BY <1>13 DEF ClickLogin, Resting, Idle, Call
<1>14. CASE Welcome
  <2>1. /\ pc = "welcome" /\ pc' = Head(after) /\ after' = Tail(after)
        /\ UNCHANGED <<rttPc, sConfig>>
    BY <1>14 DEF Welcome, Return
  <2> QED
    BY <2>1, Unwinding, WipeApart
<1>15. CASE LoginFails
  <2>1. /\ pc = "mail" /\ pc' = Head(after) /\ after' = Tail(after)
        /\ UNCHANGED <<rttPc, sConfig>>
    BY <1>15 DEF LoginFails, Return
  <2> QED
    BY <2>1, Unwinding, WipeApart
<1>16. CASE RegisterMailCallback
  BY <1>16 DEF RegisterMailCallback, Resting, Idle, Call
<1>17. ASSUME NEW addrs \in SUBSET AccountServers, LoginMailCallback(addrs)
      PROVE  WipeInv'
  BY <1>17 DEF LoginMailCallback, Call
<1>18. CASE OpenSalmonConfig
  BY <1>18 DEF OpenSalmonConfig, Goto
<1>19. CASE WriteSalmonConfig
  <2>1. /\ pc = "accountFill" /\ pc' = Head(after) /\ after' = Tail(after)
        /\ UNCHANGED <<rttPc, sConfig>>
    BY <1>19 DEF WriteSalmonConfig, Return
  <2> QED
    BY <2>1, Unwinding, WipeApart
<1>20. CASE ClickConnect
  BY <1>20 DEF ClickConnect, Idle, Call
<1>21. CASE SweepConnects
  BY <1>21 DEF SweepConnects, Goto, Connected, AddrsOf
<1>22. CASE SweepStops
  BY <1>22 DEF SweepStops, Goto
<1>23. CASE SweepFails
  BY <1>23 DEF SweepFails, Call
<1>24. CASE NeedServerGotNone
  BY <1>24 DEF NeedServerGotNone, Call, Purges
<1>25. CASE NeedServerGotGates
  BY <1>25 DEF NeedServerGotGates, Call, Purges
<1>26. ASSUME NEW a \in Servers, NeedServerGotSalmon(a)
      PROVE  WipeInv'
  BY <1>26 DEF NeedServerGotSalmon, Call, Purges, AddVPNInfo, PushBack, AddrsOf
<1>27. ASSUME NEW g \in Gates, NextGate(g)
      PROVE  WipeInv'
  BY <1>27 DEF NextGate, Call, AddVPNInfo, PushBack, AddrsOf
<1>28. CASE AddedSetting
  <2>1. /\ pc = "addSetting" /\ pc' = Head(after) /\ after' = Tail(after)
        /\ UNCHANGED <<rttPc, sConfig>>
    BY <1>28 DEF AddedSetting, Return
  <2> QED
    BY <2>1, Unwinding, WipeApart
<1>29. CASE NoMoreGates
  BY <1>29 DEF NoMoreGates, Goto
<1>30. CASE GateConnects
  BY <1>30 DEF GateConnects, Connected, Call
<1>31. CASE GateFails
  BY <1>31 DEF GateFails
<1>32. CASE NothingToPurge
  <2>1. /\ pc = "purge" /\ pc' = Head(after) /\ after' = Tail(after)
        /\ UNCHANGED <<rttPc, sConfig>>
    BY <1>32 DEF NothingToPurge, Return
  <2> QED
    BY <2>1, Unwinding, WipeApart
<1>33. ASSUME NEW a \in Addresses, PurgeReturnsEarly(a)
      PROVE  WipeInv'
  BY <1>33 DEF PurgeReturnsEarly
<1>34. ASSUME NEW a \in Addresses, PurgeOpensSConfig(a)
      PROVE  WipeInv'
  BY <1>34 DEF PurgeOpensSConfig, Goto
<1>35. CASE PurgeWritesSConfig
  BY <1>35 DEF PurgeWritesSConfig, Strike
<1>36. CASE PurgeOpensSalmonConfig
  BY <1>36 DEF PurgeOpensSalmonConfig, Goto
<1>37. CASE PurgeWritesSalmonConfig
  BY <1>37 DEF PurgeWritesSalmonConfig, Goto, Strike
<1>38. CASE RttFinds
  BY <1>38 DEF RttFinds
<1>39. CASE RttSaveOpens
  BY <1>39 DEF RttSaveOpens, OpenSConfig
<1>40. CASE RttSaveCloses
  BY <1>40 DEF RttSaveCloses, WriteSConfig
<1>41. CASE ClickWipe
  BY <1>41 DEF ClickWipe, WipeClicked, Idle, Call, AddrsOf
<1>42. CASE DeleteConnectionSettings
  BY <1>42 DEF DeleteConnectionSettings, Goto, AddrsOf
<1>43. CASE WipeSConfig
  BY <1>43 DEF WipeSConfig, Goto
<1>44. CASE WipeSalmonConfig
  BY <1>44 DEF WipeSalmonConfig, ProcessEnds
<1>45. CASE Killed
  BY <1>45 DEF Killed, ProcessEnds, AccountOpen, SettingsOpen
<1> QED
  BY <1>1, <1>2, <1>3, <1>4, <1>5, <1>6, <1>7, <1>8, <1>9, <1>10, <1>11, <1>12,
     <1>13, <1>14, <1>15, <1>16, <1>17, <1>18, <1>19, <1>20, <1>21, <1>22, <1>23, <1>24,
     <1>25, <1>26, <1>27, <1>28, <1>29, <1>30, <1>31, <1>32, <1>33, <1>34, <1>35, <1>36,
     <1>37, <1>38, <1>39, <1>40, <1>41, <1>42, <1>43, <1>44, <1>45
  DEF Next, GetSConfig, Login, Attempt, Purge, Rtt, Wipe

\* And that is so as long as no wipe is clicked before the RTT thread has saved.
LEMMA QuietInvariant == Spec => []QuietInv
<1>1. Init => QuietInv
  BY DEF Init, QuietInv, WipeInv, Wiping
<1>2. (StoreInv /\ TwinsInv) /\ QuietInv /\ [Next]_vars => QuietInv'
  BY CutGrows, QuietStep DEF QuietInv
<1> QED
  BY <1>1, <1>2, StoreInvariant, PTL DEF Spec

----------------------------------------------------------------------------
(* The password. *)

\* Nothing has cut short a rewriting of SalmonConfig.txt, or overtaken a wipe.
Uncut == "account" \notin cut /\ "wipe" \notin cut

\* The account's password is in SalmonConfig.txt, or about to be written there.
HasPassword ==
  IF pc \in AccountOpen \cup {"account"} THEN account.pw = "good"
                                          ELSE salmonConfig.pw = "good"

\* Once a list has been saved, or a login has come so far, there is a password.
KeptInv ==
  /\ \/ shown = "main" /\ pc # "off"
     \/ sConfig # NoEntries
     \/ pc \in {"save", "fill", "settings", "welcome"}
     => HasPassword
  /\ pc \in {"mail", "account"} =>
       rttPc = "off" /\ (sConfig # NoEntries => salmonConfig.pw = "good")

\* An attempt, from the first sweep on.
Attempting == \/ pc \in {"sweep", "ask"}
              \/ after \in {<<"settings", "sweep">>, <<"ask">>, <<"purge", "sweep">>,
                            <<"save", "purge", "sweep">>}
              \/ after = <<"sweep">> /\ pc \notin {"clear", "load"}

ReadInInv == Attempting => gBaseVPNPassword = "good"

KeepInv == Uncut => KeptInv /\ ReadInInv

\* Every step but a cut keeps the password where it is needed.
LEMMA KeepStep ==
  ASSUME StoreInv, TwinsInv, Uncut, Uncut', WipeInv, KeptInv, ReadInInv, [Next]_vars
  PROVE  KeptInv' /\ ReadInInv'
<1> USE DEF StoreInv, StackInv, TwinsInv, LoginInv, WipeInv, KeptInv, ReadInInv, Uncut,
        HasPassword, Wiping, Attempting, AccountOpen, NoAccount, BlankAccount, Getters,
        Purgers, Savers, Trusters, Accounters
<1>1. CASE UNCHANGED vars
  BY <1>1 DEF vars
<1>2. CASE Start
  BY <1>2, Stacks, MoreStacks DEF Start, Call
<1>3. CASE TrustMailCallback
  BY <1>3, Stacks, MoreStacks DEF TrustMailCallback, Call, Resting, Idle
<1>4. CASE OpenForTrust
  BY <1>4, Stacks, MoreStacks DEF OpenForTrust, Goto
<1>5. CASE WriteTrust
  <2>1. /\ pc = "trustFill" /\ pc' = Head(after) /\ after' = Tail(after)
        /\ salmonConfig' = account
        /\ UNCHANGED <<sConfig, gBaseVPNPassword, shown, rttPc, cut>>
    BY <1>5 DEF WriteTrust, Return
  <2> QED
    BY <2>1, Unwinding
<1>6. CASE Clear
  BY <1>6, Stacks, MoreStacks DEF Clear, Goto
<1>7. CASE ReadExistingSConfig
  <2>1. /\ pc = "load" /\ after' = Tail(after) /\ sConfig # NoEntries
        /\ pc' = Head(after) \/ (Head(after) = "welcome" /\ pc' = "mail")
        /\ gBaseVPNPassword' = IF salmonConfig.pw = "none" THEN gBaseVPNPassword
                                                          ELSE salmonConfig.pw
        /\ UNCHANGED <<sConfig, salmonConfig, shown, rttPc>>
    BY <1>7 DEF ReadExistingSConfig, ReturnWith
  <2>2. salmonConfig.pw = "good"
    BY <2>1
  <2>3. gBaseVPNPassword' = "good"
    BY <2>1, <2>2
  <2>4. CASE pc' = Head(after)
    BY <2>1, <2>2, <2>3, <2>4, Unwinding
  <2>5. CASE Head(after) = "welcome" /\ pc' = "mail"
    <3>1. after = <<"welcome", "idle">> /\ after' = <<"idle">>
      BY <2>1, <2>5, Stacks
    <3>2. shown = "login" /\ rttPc = "off"
      BY <2>1, <3>1
    <3> QED
      BY <2>1, <2>2, <2>5, <3>1, <3>2
  <2> QED
    BY <2>1, <2>4, <2>5
<1>8. CASE UnlinkSalmonConfig
  <2>1. /\ pc \in {"generate", "load"} /\ after' = Tail(after) /\ salmonConfig.pw # "good"
        /\ pc = "load" => sConfig = NoEntries
        /\ Head(after) = "welcome" => pc' = "mail"
        /\ UNCHANGED <<sConfig, shown, rttPc>>
    BY <1>8 DEF UnlinkSalmonConfig, Generating, ReturnWith
  <2>2. shown # "main"
    BY <2>1
  <2>3. pc = "load" /\ after = <<"welcome", "idle">> /\ rttPc = "off"
    BY <2>1, <2>2
  <2>4. sConfig = NoEntries /\ pc' = "mail" /\ after' = <<"idle">>
    BY <2>1, <2>3, Stacks
  <2> QED
    BY <2>1, <2>2, <2>3, <2>4
<1>9. CASE GenerateFromSalmonConfig
  <2>1. /\ pc \in {"generate", "load"} /\ pc' = "save" /\ after' = <<"settings">> \o after
        /\ salmonConfig.pw = "good" /\ gBaseVPNPassword' = "good"
        /\ UNCHANGED <<sConfig, salmonConfig, shown, rttPc>>
    BY <1>9 DEF GenerateFromSalmonConfig, Generating, Call
  <2>2. /\ after' \in {<<"settings", "welcome", "idle">>, <<"settings", "sweep">>,
                       <<"settings", "wipeSettings">>, <<"settings", "idle">>}
        /\ after' = <<"settings", "wipeSettings">> => after = <<"wipeSettings">>
    <3>1. after \in {<<"welcome", "idle">>, <<"sweep">>, <<"wipeSettings">>, <<"idle">>}
      BY <2>1
    <3>2. CASE after = <<"wipeSettings">>
      BY <2>1, <3>2, MoreStacks
    <3>3. CASE after \in {<<"welcome", "idle">>, <<"sweep">>, <<"idle">>}
      <4>1. after' \in {<<"settings", "welcome", "idle">>, <<"settings", "sweep">>,
                         <<"settings", "idle">>}
        BY <2>1, <3>3, MoreStacks
      <4>2. after' # <<"settings", "wipeSettings">>
        BY <4>1, Stacks, Apart
      <4> QED
        BY <4>1, <4>2
    <3> QED
      BY <3>1, <3>2, <3>3
  <2> QED
    BY <2>1, <2>2
<1>10. CASE CreateConnectionSettings
  <2>1. /\ pc = "settings"
        /\ (pc' = Head(after) /\ after' = Tail(after)) \/ UNCHANGED <<pc, after>>
        /\ UNCHANGED <<sConfig, salmonConfig, gBaseVPNPassword, account, shown, rttPc>>
    BY <1>10 DEF CreateConnectionSettings, Return
  <2>2. CASE UNCHANGED <<pc, after>>
    BY <2>1, <2>2
  <2>3. CASE pc' = Head(after) /\ after' = Tail(after)
    BY <2>1, <2>3, Unwinding
  <2> QED
    BY <2>1, <2>2, <2>3
<1>11. CASE SaveOpens
  BY <1>11, Stacks, MoreStacks DEF SaveOpens, OpenSConfig
<1>12. CASE SaveCloses
  <2>1. /\ pc = "fill" /\ pc' = Head(after) /\ after' = Tail(after)
        /\ UNCHANGED <<salmonConfig, gBaseVPNPassword, account, shown, rttPc, cut>>
    BY <1>12 DEF SaveCloses, WriteSConfig, Return
  <2>2. salmonConfig.pw = "good" /\ HasPassword'
    BY <2>1, Unwinding
  <2>3. KeptInv'
    BY <2>1, <2>2, Unwinding
  <2>4. ReadInInv'
    BY <2>1, Unwinding
  <2> QED
    BY <2>3, <2>4
<1>13. CASE ClickLogin
  BY <1>13, Stacks, MoreStacks DEF ClickLogin, Resting, Idle, Call
<1>14. CASE Welcome
  <2>1. /\ pc = "welcome" /\ pc' = Head(after) /\ after' = Tail(after)
        /\ UNCHANGED <<salmonConfig, sConfig, gBaseVPNPassword, account, rttPc, cut>>
    BY <1>14 DEF Welcome, Return
  <2>2. pc' = "idle" /\ after' = <<>>
    BY <2>1, Unwinding
  <2>3. salmonConfig.pw = "good" /\ HasPassword'
    BY <2>1, <2>2
  <2> QED
    BY <2>1, <2>2, <2>3
<1>15. CASE LoginFails
  <2>1. /\ pc = "mail" /\ pc' = Head(after) /\ after' = Tail(after)
        /\ UNCHANGED <<salmonConfig, sConfig, gBaseVPNPassword, account, shown, rttPc, cut>>
    BY <1>15 DEF LoginFails, Return
  <2>2. pc' = "idle" /\ after' = <<>>
    BY <2>1, Unwinding
  <2> QED
    BY <2>1, <2>2
<1>16. CASE RegisterMailCallback
  BY <1>16, Stacks, MoreStacks DEF RegisterMailCallback, Resting, Idle, Call
<1>17. ASSUME NEW addrs \in SUBSET AccountServers, LoginMailCallback(addrs)
      PROVE  KeptInv' /\ ReadInInv'
  BY <1>17, Stacks, MoreStacks DEF LoginMailCallback, Call
<1>18. CASE OpenSalmonConfig
  BY <1>18, Stacks, MoreStacks DEF OpenSalmonConfig, Goto
<1>19. CASE WriteSalmonConfig
  <2>1. /\ pc = "accountFill" /\ pc' = Head(after) /\ after' = Tail(after)
        /\ salmonConfig' = account
        /\ UNCHANGED <<sConfig, gBaseVPNPassword, shown, rttPc, cut>>
    BY <1>19 DEF WriteSalmonConfig, Return
  <2> QED
    BY <2>1, Unwinding
<1>20. CASE ClickConnect
  BY <1>20, Stacks, MoreStacks DEF ClickConnect, Idle, Call
<1>21. CASE SweepConnects
  BY <1>21, Stacks, MoreStacks DEF SweepConnects, Goto, Connected, AddrsOf
<1>22. CASE SweepStops
  BY <1>22, Stacks, MoreStacks DEF SweepStops, Goto
<1>23. CASE SweepFails
  BY <1>23, Stacks, MoreStacks DEF SweepFails, Call
<1>24. CASE NeedServerGotNone
  BY <1>24, Stacks, MoreStacks DEF NeedServerGotNone, Call, Purges
<1>25. CASE NeedServerGotGates
  BY <1>25, Stacks, MoreStacks DEF NeedServerGotGates, Call, Purges
<1>26. ASSUME NEW a \in Servers, NeedServerGotSalmon(a)
      PROVE  KeptInv' /\ ReadInInv'
  BY <1>26, Stacks, MoreStacks
    DEF NeedServerGotSalmon, Call, Purges, AddVPNInfo, PushBack, AddrsOf
<1>27. ASSUME NEW g \in Gates, NextGate(g)
      PROVE  KeptInv' /\ ReadInInv'
  BY <1>27, Stacks, MoreStacks DEF NextGate, Call, AddVPNInfo, PushBack, AddrsOf
<1>28. CASE AddedSetting
  <2>1. /\ pc = "addSetting" /\ pc' = Head(after) /\ after' = Tail(after)
        /\ UNCHANGED <<salmonConfig, sConfig, gBaseVPNPassword, account, shown, rttPc, cut>>
    BY <1>28 DEF AddedSetting, Return
  <2> QED
    BY <2>1, Unwinding
<1>29. CASE NoMoreGates
  BY <1>29, Stacks, MoreStacks DEF NoMoreGates, Goto
<1>30. CASE GateConnects
  BY <1>30, Stacks, MoreStacks DEF GateConnects, Connected, Call
<1>31. CASE GateFails
  BY <1>31, Stacks, MoreStacks DEF GateFails
<1>32. CASE NothingToPurge
  <2>1. /\ pc = "purge" /\ pc' = Head(after) /\ after' = Tail(after)
        /\ UNCHANGED <<salmonConfig, sConfig, gBaseVPNPassword, account, shown, rttPc, cut>>
    BY <1>32 DEF NothingToPurge, Return
  <2> QED
    BY <2>1, Unwinding
<1>33. ASSUME NEW a \in Addresses, PurgeReturnsEarly(a)
      PROVE  KeptInv' /\ ReadInInv'
  BY <1>33, Stacks, MoreStacks DEF PurgeReturnsEarly
<1>34. ASSUME NEW a \in Addresses, PurgeOpensSConfig(a)
      PROVE  KeptInv' /\ ReadInInv'
  BY <1>34, Stacks, MoreStacks DEF PurgeOpensSConfig, Goto
<1>35. CASE PurgeWritesSConfig
  BY <1>35, Stacks, MoreStacks DEF PurgeWritesSConfig, Strike
<1>36. CASE PurgeOpensSalmonConfig
  BY <1>36, Stacks, MoreStacks DEF PurgeOpensSalmonConfig, Goto
<1>37. CASE PurgeWritesSalmonConfig
  BY <1>37, Stacks, MoreStacks DEF PurgeWritesSalmonConfig, Goto, Strike
<1>38. CASE RttFinds
  BY <1>38, Stacks, MoreStacks DEF RttFinds
<1>39. CASE RttSaveOpens
  BY <1>39, Stacks, MoreStacks DEF RttSaveOpens, OpenSConfig
<1>40. CASE RttSaveCloses
  BY <1>40, Stacks, MoreStacks DEF RttSaveCloses, WriteSConfig
<1>41. CASE ClickWipe
  BY <1>41, Stacks, MoreStacks DEF ClickWipe, WipeClicked, Idle, Call, AddrsOf
<1>42. CASE DeleteConnectionSettings
  BY <1>42, Stacks, MoreStacks DEF DeleteConnectionSettings, Goto, AddrsOf
<1>43. CASE WipeSConfig
  BY <1>43, Stacks, MoreStacks DEF WipeSConfig, Goto
<1>44. CASE WipeSalmonConfig
  BY <1>44, Stacks, MoreStacks DEF WipeSalmonConfig, ProcessEnds
<1>45. CASE Killed
  BY <1>45, Stacks, MoreStacks DEF Killed, ProcessEnds, AccountOpen, SettingsOpen
<1> QED
  BY <1>1, <1>2, <1>3, <1>4, <1>5, <1>6, <1>7, <1>8, <1>9, <1>10, <1>11, <1>12,
     <1>13, <1>14, <1>15, <1>16, <1>17, <1>18, <1>19, <1>20, <1>21, <1>22, <1>23, <1>24,
     <1>25, <1>26, <1>27, <1>28, <1>29, <1>30, <1>31, <1>32, <1>33, <1>34, <1>35, <1>36,
     <1>37, <1>38, <1>39, <1>40, <1>41, <1>42, <1>43, <1>44, <1>45
  DEF Next, GetSConfig, Login, Attempt, Purge, Rtt, Wipe

\* Attempts work with the account's password, unless a kill came while SalmonConfig.txt
\* was open for writing, or a wipe before the RTT thread had saved.
THEOREM PasswordOfTheAccount == Spec => []PasswordSurvives
<1>1. Init => KeepInv
  BY DEF Init, KeepInv, KeptInv, ReadInInv, Attempting, NoEntries
<1>2. (StoreInv /\ TwinsInv) /\ QuietInv /\ KeepInv /\ [Next]_vars => KeepInv'
  BY CutGrows, KeepStep DEF KeepInv, QuietInv, Uncut
<1>3. KeepInv => PasswordSurvives
  BY DEF KeepInv, QuietInv, Uncut, ReadInInv, Attempting, PasswordSurvives
<1> QED
  BY <1>1, <1>2, <1>3, StoreInvariant, QuietInvariant, PTL DEF Spec

----------------------------------------------------------------------------
(* The list, the account and the settings, one server at a time. *)

\* A server is in the list, in SConfig.txt, in the account.
Knows(a) == gKnownServers[a] > 0
Saved(a) == sConfig[a] > 0
OfAccount(a) == a \in salmonConfig.servers \/ a \in account.servers

\* The RTT thread has truncated SConfig.txt, and will fill it from the list.
Truncated == rttPc = "fill" /\ sConfig = NoEntries

\* So will the work; and a VPN Gate server is being tried.
Saving == pc \in {"save", "fill"} \/ (pc = "addSetting" /\ after = <<"save", "purge", "sweep">>)
GateAtHand == pc = "gateDial" \/ (pc = "addSetting" /\ after = <<"gateDial">>)

\* A sweep is under way, or what follows it.
Swept == \/ pc \in {"sweep", "ask", "addSetting", "gate", "gateDial", "purge",
                    "purgeFill", "purgeAccount", "purgeAccountFill"}
         \/ pc \in {"save", "fill"} /\ ~Generated

\* A login that waits for mail, or has had some, found nothing in SConfig.txt.
FreshInv ==
  /\ \/ pc \in {"mail", "generate"}
     \/ after \in {<<"generate", "idle">>, <<"trust", "generate", "idle">>}
     => sConfig = NoEntries /\ rttPc = "off"
  /\ pc = "off" => gKnownServers = NoEntries
  /\ GateAtHand => target \in Gates

\* What is known has been saved, or is about to be.
SavedAt(a) ==
  /\ Knows(a) => \/ Truncated \/ Saving \/ Saved(a) \/ a \in purged
                 \/ GateAtHand /\ a = target
                 \/ pc \in {"purgeFill", "wipeSettings", "wipeSConfig", "wipeAccount"}
  /\ Knows(a) /\ pc = "ask" => Truncated \/ Saved(a)
  /\ Knows(a) /\ pc = "purgeFill" => entries[a] > 0 \/ a \in purged

\* What is saved is known, as soon as somebody may save again.
KnownAt(a) ==
  /\ Saved(a) /\ pc # "load" /\ (rttPc # "off" \/ Swept \/ Generated) => Knows(a) \/ a \in Gates
  /\ entries[a] > 0 /\ pc = "purgeFill" => Knows(a) \/ a \in Gates

RememberInv == FreshInv /\ \A a \in Addresses : SavedAt(a) /\ KnownAt(a)

\* The account is at hand only while it is being written, and not in the file then;
\* without password it has no servers.
AccountInv ==
  /\ pc \notin AccountOpen \cup {"account"} => account.servers = {}
  /\ pc \in AccountOpen => salmonConfig.servers = {}
  /\ salmonConfig.pw # "good" => salmonConfig.servers = {}
  /\ account.pw # "good" => account.servers = {}
  /\ salmonConfig.servers \cup account.servers \subseteq AccountServers

\* Places where a list that is needed need not have been read in.
Unread == {"off", "idle", "trust", "trustFill", "account", "accountFill", "clear", "load",
           "generate", "mail", "welcome"}
\* A server of the account is in the list, once that has been read in, and in
\* SConfig.txt, if that has been written, until a purge has struck it from both.
HeldAt(a) ==
  OfAccount(a) =>
    /\ Knows(a) \/ (gKnownServers = NoEntries /\ pc \in Unread)
    /\ \/ sConfig = NoEntries \/ Saved(a)
       \/ pc \in {"purgeAccount", "purgeAccountFill"} /\ a \in Contains[target]
    /\ pc = "purgeFill" => entries[a] > 0

\* Servers that are erased when they fail although an account has them.
Both == AccountServers \cap Gates

HeldInv == "purge" \notin cut => \A a \in Addresses \ Both : HeldAt(a)

\* A generated list has all of the account, and of what is saved.
GeneratedAt(a) == /\ Generated /\ OfAccount(a) => Knows(a)
                  /\ pc = "settings" /\ Saved(a) => Knows(a)

GeneratedInv == \A a \in Addresses : GeneratedAt(a)

\* A server that is saved, known or the account's has its connection setting, or will
\* have it before anybody else can save it; but for the end of a wipe.
SettingAt(a) ==
  /\ Saved(a) => \/ a \in settings
                 \/ rttPc = "off" /\ pc = "settings"
                 \/ pc = "wipeSConfig"
                 \/ pc = "addSetting" /\ a = target
  /\ Knows(a) => \/ a \in settings
                 \/ rttPc = "off" /\ Generated
                 \/ pc \in {"wipeSConfig", "wipeAccount"}
                 \/ pc = "addSetting" /\ a = target
  /\ OfAccount(a) => \/ a \in settings
                     \/ rttPc = "off" /\ pc = "settings"
                     \/ pc \in {"wipeSConfig", "wipeAccount"}
                     \/ rttPc = "off" /\ sConfig = NoEntries /\ ~Swept
  /\ pc = "purgeFill" /\ entries[a] > 0 => a \in settings

SettingsInv == {"settings", "wipe"} \cap cut = {} => \A a \in Addresses : SettingAt(a)

\* A server to be wiped will be read in, has been, and has lost its setting.
WipedAt(a) ==
  a \in wiped =>
    /\ pc \in {"clear", "load"} /\ after = <<"wipeSettings">> =>
         \/ a \in purged \/ Saved(a)
         \/ sConfig = NoEntries /\ a \in salmonConfig.servers
    /\ Wiping /\ pc \notin {"clear", "load", "wipeSConfig", "wipeAccount"} =>
         a \in purged \/ Knows(a)
    /\ pc \in {"wipeSConfig", "wipeAccount"} \/ shown = "gone" =>
         a \in purged \/ a \notin settings

WipedInv == {"wipe", "purge"} \cap cut = {} => \A a \in Addresses \ Both : WipedAt(a)

\* When the window is gone, the files are empty.
GoneInv == shown = "gone" => pc = "off" /\ sConfig = NoEntries /\ salmonConfig = NoAccount

\* A login asks for mail only when SConfig.txt is empty, and the user waits for it.
LEMMA FreshStep ==
  ASSUME StoreInv, TwinsInv, FreshInv, [Next]_vars
  PROVE  FreshInv'
<1> USE Stacks, MoreStacks
    DEF StoreInv, StackInv, TwinsInv, LoginInv, FreshInv, GateAtHand, Getters, Purgers,
        Savers, Trusters, Accounters, Generators
<1>1. CASE UNCHANGED vars
  BY <1>1 DEF vars
<1>2. CASE Start
  BY <1>2 DEF Start, Call
<1>3. CASE TrustMailCallback
  BY <1>3 DEF TrustMailCallback, Call, Resting, Idle
<1>4. CASE OpenForTrust
  BY <1>4 DEF OpenForTrust, Goto
<1>5. CASE WriteTrust
  <2>1. /\ pc = "trustFill" /\ pc' = Head(after) /\ after' = Tail(after)
        /\ UNCHANGED <<sConfig, rttPc, target>>
    BY <1>5 DEF WriteTrust, Return
  <2> QED
    BY <2>1, Unwinding, MoreStacks, FreshApart
<1>6. CASE Clear
  BY <1>6 DEF Clear, Goto
<1>7. CASE ReadExistingSConfig
  <2>1. /\ pc = "load" /\ after' = Tail(after)
        /\ pc' = Head(after) \/ (Head(after) = "welcome" /\ pc' = "mail")
        /\ UNCHANGED <<sConfig, rttPc, target>>
    BY <1>7 DEF ReadExistingSConfig, ReturnWith, PushBack
  <2>2. Head(after) = "welcome" /\ pc' = "mail" =>
          salmonConfig.pw = "none" \/ gKnownServers' = NoEntries
    BY <1>7 DEF ReadExistingSConfig, ReturnWith, PushBack
  <2>3. gKnownServers' # NoEntries
    BY <1>7 DEF ReadExistingSConfig, PushBack, AddrsOf, NoEntries, MemoryTyped, FilesTyped
  <2>4. after = <<"welcome", "idle">> => shown = "login" /\ salmonConfig.pw # "none"
    BY <1>7, <2>1 DEF ReadExistingSConfig, PasswordInv
  <2> QED
    BY <2>1, <2>2, <2>3, <2>4, ReturnsFromRead, FreshApart
<1>8. CASE UnlinkSalmonConfig
  <2>1. /\ pc \in {"generate", "load"} /\ after' = Tail(after)
        /\ pc' = Head(after) \/ (Head(after) = "welcome" /\ pc' = "mail")
        /\ pc = "load" => sConfig = NoEntries
        /\ UNCHANGED <<sConfig, rttPc, target>>
    BY <1>8 DEF UnlinkSalmonConfig, Generating, ReturnWith
  <2> QED
    BY <2>1, ReturnsFromRead, FreshApart
<1>9. CASE GenerateFromSalmonConfig
  <2>1. /\ pc \in {"generate", "load"} /\ pc' = "save" /\ after' = <<"settings">> \o after
        /\ UNCHANGED <<sConfig, rttPc, target>>
    BY <1>9 DEF GenerateFromSalmonConfig, Generating, Call, PushBack
  <2> QED
    BY <2>1, GeneratesNext, FreshApart
<1>10. CASE CreateConnectionSettings
  <2>1. /\ pc = "settings"
        /\ (pc' = Head(after) /\ after' = Tail(after)) \/ UNCHANGED <<pc, after>>
        /\ UNCHANGED <<sConfig, rttPc, target>>
    BY <1>10 DEF CreateConnectionSettings, Return, AddrsOf
  <2> QED
    BY <2>1, Unwinding, FreshApart
<1>11. CASE SaveOpens
  BY <1>11 DEF SaveOpens, OpenSConfig
<1>12. CASE SaveCloses
  <2>1. /\ pc = "fill" /\ pc' = Head(after) /\ after' = Tail(after)
        /\ UNCHANGED target
    BY <1>12 DEF SaveCloses, WriteSConfig, Return
  <2> QED
    BY <2>1, Unwinding, FreshApart
<1>13. CASE ClickLogin
  BY <1>13 DEF ClickLogin, Resting, Idle, Call
<1>14. CASE Welcome
  <2>1. /\ pc = "welcome" /\ pc' = Head(after) /\ after' = Tail(after)
        /\ UNCHANGED <<sConfig, rttPc, target>>
    BY <1>14 DEF Welcome, Return
  <2> QED
    BY <2>1, Unwinding, MoreStacks, FreshApart
<1>15. CASE LoginFails
  <2>1. /\ pc = "mail" /\ pc' = Head(after) /\ after' = Tail(after)
        /\ UNCHANGED <<sConfig, rttPc, target>>
    BY <1>15 DEF LoginFails, Return
  <2> QED
    BY <2>1, Unwinding, MoreStacks, FreshApart
<1>16. CASE RegisterMailCallback
  BY <1>16 DEF RegisterMailCallback, Resting, Idle, Call
<1>17. ASSUME NEW addrs \in SUBSET AccountServers, LoginMailCallback(addrs)
      PROVE  FreshInv'
  BY <1>17 DEF LoginMailCallback, Call
<1>18. CASE OpenSalmonConfig
  BY <1>18 DEF OpenSalmonConfig, Goto
<1>19. CASE WriteSalmonConfig
  <2>1. /\ pc = "accountFill" /\ pc' = Head(after) /\ after' = Tail(after)
        /\ UNCHANGED <<sConfig, rttPc, target>>
    BY <1>19 DEF WriteSalmonConfig, Return
  <2> QED
    BY <2>1, Unwinding, MoreStacks, FreshApart
<1>20. CASE ClickConnect
  BY <1>20 DEF ClickConnect, Idle, Call
<1>21. CASE SweepConnects
  BY <1>21 DEF SweepConnects, Goto, Connected, AddrsOf
<1>22. CASE SweepStops
  BY <1>22 DEF SweepStops, Goto
<1>23. CASE SweepFails
  BY <1>23 DEF SweepFails, Call
<1>24. CASE NeedServerGotNone
  BY <1>24 DEF NeedServerGotNone, Call, Purges
<1>25. CASE NeedServerGotGates
  BY <1>25 DEF NeedServerGotGates, Call, Purges
<1>26. ASSUME NEW a \in Servers, NeedServerGotSalmon(a)
      PROVE  FreshInv'
  BY <1>26 DEF NeedServerGotSalmon, Call, Purges, AddVPNInfo, PushBack, AddrsOf
<1>27. ASSUME NEW g \in Gates, NextGate(g)
      PROVE  FreshInv'
  BY <1>27 DEF NextGate, Call, AddVPNInfo, PushBack, AddrsOf
<1>28. CASE AddedSetting
  <2>1. /\ pc = "addSetting" /\ pc' = Head(after) /\ after' = Tail(after)
        /\ UNCHANGED <<sConfig, rttPc, target>>
    BY <1>28 DEF AddedSetting, Return
  <2> QED
    BY <2>1, Unwinding, MoreStacks, FreshApart
<1>29. CASE NoMoreGates
  BY <1>29 DEF NoMoreGates, Goto
<1>30. CASE GateConnects
  BY <1>30 DEF GateConnects, Connected, Call
<1>31. CASE GateFails
  BY <1>31 DEF GateFails
<1>32. CASE NothingToPurge
  <2>1. /\ pc = "purge" /\ pc' = Head(after) /\ after' = Tail(after)
        /\ UNCHANGED <<sConfig, rttPc, target>>
    BY <1>32 DEF NothingToPurge, Return
  <2> QED
    BY <2>1, Unwinding, MoreStacks, FreshApart
<1>33. ASSUME NEW a \in Addresses, PurgeReturnsEarly(a)
      PROVE  FreshInv'
  BY <1>33 DEF PurgeReturnsEarly
<1>34. ASSUME NEW a \in Addresses, PurgeOpensSConfig(a)
      PROVE  FreshInv'
  BY <1>34 DEF PurgeOpensSConfig, Goto
<1>35. CASE PurgeWritesSConfig
  BY <1>35 DEF PurgeWritesSConfig, Strike
<1>36. CASE PurgeOpensSalmonConfig
  BY <1>36 DEF PurgeOpensSalmonConfig, Goto
<1>37. CASE PurgeWritesSalmonConfig
  BY <1>37 DEF PurgeWritesSalmonConfig, Goto, Strike
<1>38. CASE RttFinds
  BY <1>38 DEF RttFinds
<1>39. CASE RttSaveOpens
  BY <1>39 DEF RttSaveOpens, OpenSConfig
<1>40. CASE RttSaveCloses
  BY <1>40 DEF RttSaveCloses, WriteSConfig
<1>41. CASE ClickWipe
  BY <1>41 DEF ClickWipe, WipeClicked, Idle, Call, AddrsOf
<1>42. CASE DeleteConnectionSettings
  BY <1>42 DEF DeleteConnectionSettings, Goto, AddrsOf
<1>43. CASE WipeSConfig
  BY <1>43 DEF WipeSConfig, Goto
<1>44. CASE WipeSalmonConfig
  BY <1>44 DEF WipeSalmonConfig, ProcessEnds
<1>45. CASE Killed
  BY <1>45 DEF Killed, ProcessEnds, AccountOpen, SettingsOpen
<1> QED
  BY <1>1, <1>2, <1>3, <1>4, <1>5, <1>6, <1>7, <1>8, <1>9, <1>10, <1>11, <1>12,
     <1>13, <1>14, <1>15, <1>16, <1>17, <1>18, <1>19, <1>20, <1>21, <1>22, <1>23, <1>24,
     <1>25, <1>26, <1>27, <1>28, <1>29, <1>30, <1>31, <1>32, <1>33, <1>34, <1>35, <1>36,
     <1>37, <1>38, <1>39, <1>40, <1>41, <1>42, <1>43, <1>44, <1>45
  DEF Next, GetSConfig, Login, Attempt, Purge, Rtt, Wipe

\* The account comes from the file or the mail, and goes back to the file.
LEMMA AccountStep ==
  ASSUME StoreInv, AccountInv, [Next]_vars
  PROVE  AccountInv'
<1> USE StoreAssumption, Returns
    DEF StoreInv, AccountInv, AccountOpen, FilesTyped, LocalsTyped, Accounts, NoAccount,
        BlankAccount
<1>1. CASE UNCHANGED vars
  BY <1>1 DEF vars
<1>2. CASE Start
  BY <1>2 DEF Start, Call
<1>3. CASE TrustMailCallback
  BY <1>3 DEF TrustMailCallback, Call, Resting, Idle
<1>4. CASE OpenForTrust
  BY <1>4 DEF OpenForTrust, Goto
<1>5. CASE WriteTrust
  BY <1>5 DEF WriteTrust, Return
<1>6. CASE Clear
  BY <1>6 DEF Clear, Goto
<1>7. CASE ReadExistingSConfig
  BY <1>7 DEF ReadExistingSConfig, ReturnWith, PushBack
<1>8. CASE UnlinkSalmonConfig
  BY <1>8 DEF UnlinkSalmonConfig, Generating, ReturnWith
<1>9. CASE GenerateFromSalmonConfig
  BY <1>9 DEF GenerateFromSalmonConfig, Generating, Call, PushBack
<1>10. CASE CreateConnectionSettings
  BY <1>10 DEF CreateConnectionSettings, Return, AddrsOf
<1>11. CASE SaveOpens
  BY <1>11 DEF SaveOpens, OpenSConfig
<1>12. CASE SaveCloses
  BY <1>12 DEF SaveCloses, WriteSConfig, Return
<1>13. CASE ClickLogin
  BY <1>13 DEF ClickLogin, Resting, Idle, Call
<1>14. CASE Welcome
  BY <1>14 DEF Welcome, Return
<1>15. CASE LoginFails
  BY <1>15 DEF LoginFails, Return
<1>16. CASE RegisterMailCallback
  BY <1>16 DEF RegisterMailCallback, Resting, Idle, Call
<1>17. ASSUME NEW addrs \in SUBSET AccountServers, LoginMailCallback(addrs)
      PROVE  AccountInv'
  BY <1>17 DEF LoginMailCallback, Call
<1>18. CASE OpenSalmonConfig
  BY <1>18 DEF OpenSalmonConfig, Goto
<1>19. CASE WriteSalmonConfig
  BY <1>19 DEF WriteSalmonConfig, Return
<1>20. CASE ClickConnect
  BY <1>20 DEF ClickConnect, Idle, Call
<1>21. CASE SweepConnects
  BY <1>21 DEF SweepConnects, Goto, Connected, AddrsOf
<1>22. CASE SweepStops
  BY <1>22 DEF SweepStops, Goto
<1>23. CASE SweepFails
  BY <1>23 DEF SweepFails, Call
<1>24. CASE NeedServerGotNone
  BY <1>24 DEF NeedServerGotNone, Call, Purges
<1>25. CASE NeedServerGotGates
  BY <1>25 DEF NeedServerGotGates, Call, Purges
<1>26. ASSUME NEW a \in Servers, NeedServerGotSalmon(a)
      PROVE  AccountInv'
  BY <1>26 DEF NeedServerGotSalmon, Call, Purges, AddVPNInfo, PushBack, AddrsOf
<1>27. ASSUME NEW g \in Gates, NextGate(g)
      PROVE  AccountInv'
  BY <1>27 DEF NextGate, Call, AddVPNInfo, PushBack, AddrsOf
<1>28. CASE AddedSetting
  BY <1>28 DEF AddedSetting, Return
<1>29. CASE NoMoreGates
  BY <1>29 DEF NoMoreGates, Goto
<1>30. CASE GateConnects
  BY <1>30 DEF GateConnects, Connected, Call
<1>31. CASE GateFails
  BY <1>31 DEF GateFails
<1>32. CASE NothingToPurge
  BY <1>32 DEF NothingToPurge, Return
<1>33. ASSUME NEW a \in Addresses, PurgeReturnsEarly(a)
      PROVE  AccountInv'
  BY <1>33 DEF PurgeReturnsEarly
<1>34. ASSUME NEW a \in Addresses, PurgeOpensSConfig(a)
      PROVE  AccountInv'
  BY <1>34 DEF PurgeOpensSConfig, Goto
<1>35. CASE PurgeWritesSConfig
  BY <1>35 DEF PurgeWritesSConfig, Strike
<1>36. CASE PurgeOpensSalmonConfig
  BY <1>36 DEF PurgeOpensSalmonConfig, Goto
<1>37. CASE PurgeWritesSalmonConfig
  BY <1>37 DEF PurgeWritesSalmonConfig, Goto, Strike
<1>38. CASE RttFinds
  BY <1>38 DEF RttFinds
<1>39. CASE RttSaveOpens
  BY <1>39 DEF RttSaveOpens, OpenSConfig
<1>40. CASE RttSaveCloses
  BY <1>40 DEF RttSaveCloses, WriteSConfig
<1>41. CASE ClickWipe
  BY <1>41 DEF ClickWipe, WipeClicked, Idle, Call, AddrsOf
<1>42. CASE DeleteConnectionSettings
  BY <1>42 DEF DeleteConnectionSettings, Goto, AddrsOf
<1>43. CASE WipeSConfig
  BY <1>43 DEF WipeSConfig, Goto
<1>44. CASE WipeSalmonConfig
  BY <1>44 DEF WipeSalmonConfig, ProcessEnds
<1>45. CASE Killed
  BY <1>45 DEF Killed, ProcessEnds, AccountOpen, SettingsOpen
<1> QED
  BY <1>1, <1>2, <1>3, <1>4, <1>5, <1>6, <1>7, <1>8, <1>9, <1>10, <1>11, <1>12,
     <1>13, <1>14, <1>15, <1>16, <1>17, <1>18, <1>19, <1>20, <1>21, <1>22, <1>23, <1>24,
     <1>25, <1>26, <1>27, <1>28, <1>29, <1>30, <1>31, <1>32, <1>33, <1>34, <1>35, <1>36,
     <1>37, <1>38, <1>39, <1>40, <1>41, <1>42, <1>43, <1>44, <1>45
  DEF Next, GetSConfig, Login, Attempt, Purge, Rtt, Wipe

\* Every step keeps each server in the file as long as it is known, and in memory as
\* long as it may be saved: the RTT thread and the purges write what they have read,
\* or what is known.
LEMMA RememberStep ==
  ASSUME StoreInv, TwinsInv, FreshInv, NEW x \in Addresses, SavedAt(x), KnownAt(x), [Next]_vars
  PROVE  SavedAt(x)' /\ KnownAt(x)'
<1> USE Stacks, MoreStacks
    DEF StoreInv, StackInv, MemoryTyped, FilesTyped, LocalsTyped, TargetInv, TwinsInv,
        EmptyInv, SingleInv, FreshInv, SavedAt, KnownAt, Knows, Saved, Truncated, Saving,
        GateAtHand, Generators, Generated, Swept, NoEntries
<1>1. CASE UNCHANGED vars
  BY <1>1 DEF vars
<1>2. CASE Start
  BY <1>2 DEF Start, Call
<1>3. CASE TrustMailCallback
  BY <1>3 DEF TrustMailCallback, Call, Resting, Idle
<1>4. CASE OpenForTrust
  BY <1>4 DEF OpenForTrust, Goto
<1>5. CASE WriteTrust
  <2>1. /\ pc = "trustFill" /\ pc' = Head(after) /\ after' = Tail(after)
        /\ UNCHANGED <<gKnownServers, sConfig, rttPc, target, entries, purged>>
    BY <1>5 DEF WriteTrust, Return
  <2> QED
    BY <2>1, Unwinding, MoreApart
<1>6. CASE Clear
  BY <1>6 DEF Clear, Goto
<1>7. CASE ReadExistingSConfig
  <2>1. /\ pc = "load" /\ after' = Tail(after)
        /\ pc' = Head(after) \/ (Head(after) = "welcome" /\ pc' = "mail")
        /\ Knows(x)' <=> Saved(x)
        /\ UNCHANGED <<sConfig, rttPc, target, entries, purged>>
    BY <1>7 DEF ReadExistingSConfig, ReturnWith, PushBack, AddrsOf
  <2> QED
    BY <2>1, ReturnsFromRead, MoreApart
<1>8. CASE UnlinkSalmonConfig
  <2>1. /\ pc \in {"generate", "load"} /\ after' = Tail(after)
        /\ pc' = Head(after) \/ (Head(after) = "welcome" /\ pc' = "mail")
        /\ sConfig = NoEntries
        /\ UNCHANGED <<gKnownServers, sConfig, rttPc, target, entries, purged>>
    BY <1>8 DEF UnlinkSalmonConfig, Generating, ReturnWith
  <2> QED
    BY <2>1, ReturnsFromRead, MoreApart
<1>9. CASE GenerateFromSalmonConfig
  <2>1. /\ pc \in {"generate", "load"} /\ pc' = "save" /\ after' = <<"settings">> \o after
        /\ sConfig = NoEntries
        /\ UNCHANGED <<sConfig, rttPc, target, entries, purged>>
    BY <1>9 DEF GenerateFromSalmonConfig, Generating, Call, PushBack
  <2> QED
    BY <2>1, GeneratesNext, MoreApart
<1>10. CASE CreateConnectionSettings
  <2>1. /\ pc = "settings"
        /\ (pc' = Head(after) /\ after' = Tail(after)) \/ UNCHANGED <<pc, after>>
        /\ UNCHANGED <<gKnownServers, sConfig, rttPc, target, entries, purged>>
    BY <1>10 DEF CreateConnectionSettings, Return, AddrsOf
  <2> QED
    BY <2>1, Unwinding, MoreApart
<1>11. CASE SaveOpens
  BY <1>11 DEF SaveOpens, OpenSConfig
<1>12. CASE SaveCloses
  <2>1. /\ pc = "fill" /\ pc' = Head(after) /\ after' = Tail(after) /\ sConfig' = gKnownServers
        /\ UNCHANGED <<gKnownServers, rttPc, target, entries, purged>>
    BY <1>12 DEF SaveCloses, WriteSConfig, Return
  <2> QED
    BY <2>1, Unwinding, MoreApart
<1>13. CASE ClickLogin
  BY <1>13 DEF ClickLogin, Resting, Idle, Call
<1>14. CASE Welcome
  <2>1. /\ pc = "welcome" /\ pc' = Head(after) /\ after' = Tail(after)
        /\ UNCHANGED <<gKnownServers, sConfig, rttPc, target, entries, purged>>
    BY <1>14 DEF Welcome, Return
  <2> QED
    BY <2>1, Unwinding, MoreApart
<1>15. CASE LoginFails
  <2>1. /\ pc = "mail" /\ pc' = Head(after) /\ after' = Tail(after)
        /\ UNCHANGED <<gKnownServers, sConfig, rttPc, target, entries, purged>>
    BY <1>15 DEF LoginFails, Return
  <2> QED
    BY <2>1, Unwinding, MoreApart
<1>16. CASE RegisterMailCallback
  BY <1>16 DEF RegisterMailCallback, Resting, Idle, Call
<1>17. ASSUME NEW addrs \in SUBSET AccountServers, LoginMailCallback(addrs)
      PROVE  SavedAt(x)' /\ KnownAt(x)'
  BY <1>17 DEF LoginMailCallback, Call
<1>18. CASE OpenSalmonConfig
  BY <1>18 DEF OpenSalmonConfig, Goto
<1>19. CASE WriteSalmonConfig
  <2>1. /\ pc = "accountFill" /\ pc' = Head(after) /\ after' = Tail(after)
        /\ UNCHANGED <<gKnownServers, sConfig, rttPc, target, entries, purged>>
    BY <1>19 DEF WriteSalmonConfig, Return
  <2> QED
    BY <2>1, Unwinding, MoreApart
<1>20. CASE ClickConnect
  BY <1>20 DEF ClickConnect, Idle, Call
<1>21. CASE SweepConnects
  BY <1>21 DEF SweepConnects, Goto, Connected, AddrsOf
<1>22. CASE SweepStops
  BY <1>22 DEF SweepStops, Goto
<1>23. CASE SweepFails
  BY <1>23 DEF SweepFails, Call
<1>24. CASE NeedServerGotNone
  BY <1>24 DEF NeedServerGotNone, Call, Purges
<1>25. CASE NeedServerGotGates
  BY <1>25 DEF NeedServerGotGates, Call, Purges
<1>26. ASSUME NEW a \in Servers, NeedServerGotSalmon(a)
      PROVE  SavedAt(x)' /\ KnownAt(x)'
  BY <1>26 DEF NeedServerGotSalmon, Call, Purges, AddVPNInfo, PushBack, AddrsOf
<1>27. ASSUME NEW g \in Gates, NextGate(g)
      PROVE  SavedAt(x)' /\ KnownAt(x)'
  BY <1>27 DEF NextGate, Call, AddVPNInfo, PushBack, AddrsOf
<1>28. CASE AddedSetting
  <2>1. /\ pc = "addSetting" /\ pc' = Head(after) /\ after' = Tail(after)
        /\ UNCHANGED <<gKnownServers, sConfig, rttPc, target, entries, purged>>
    BY <1>28 DEF AddedSetting, Return
  <2> QED
    BY <2>1, Unwinding, MoreApart
<1>29. CASE NoMoreGates
  BY <1>29 DEF NoMoreGates, Goto
<1>30. CASE GateConnects
  BY <1>30 DEF GateConnects, Connected, Call
<1>31. CASE GateFails
  BY <1>31 DEF GateFails
<1>32. CASE NothingToPurge
  <2>1. /\ pc = "purge" /\ pc' = Head(after) /\ after' = Tail(after)
        /\ UNCHANGED <<gKnownServers, sConfig, rttPc, target, entries, purged>>
    BY <1>32 DEF NothingToPurge, Return
  <2> QED
    BY <2>1, Unwinding, MoreApart
<1>33. ASSUME NEW a \in Addresses, PurgeReturnsEarly(a)
      PROVE  SavedAt(x)' /\ KnownAt(x)'
  BY <1>33 DEF PurgeReturnsEarly
<1>34. ASSUME NEW a \in Addresses, PurgeOpensSConfig(a)
      PROVE  SavedAt(x)' /\ KnownAt(x)'
  BY <1>34 DEF PurgeOpensSConfig, Goto
<1>35. CASE PurgeWritesSConfig
  BY <1>35 DEF PurgeWritesSConfig, Strike
<1>36. CASE PurgeOpensSalmonConfig
  BY <1>36 DEF PurgeOpensSalmonConfig, Goto
<1>37. CASE PurgeWritesSalmonConfig
  BY <1>37 DEF PurgeWritesSalmonConfig, Goto, Strike
<1>38. CASE RttFinds
  BY <1>38 DEF RttFinds
<1>39. CASE RttSaveOpens
  BY <1>39 DEF RttSaveOpens, OpenSConfig
<1>40. CASE RttSaveCloses
  BY <1>40 DEF RttSaveCloses, WriteSConfig
<1>41. CASE ClickWipe
  BY <1>41 DEF ClickWipe, WipeClicked, Idle, Call, AddrsOf
<1>42. CASE DeleteConnectionSettings
  BY <1>42 DEF DeleteConnectionSettings, Goto, AddrsOf
<1>43. CASE WipeSConfig
  BY <1>43 DEF WipeSConfig, Goto
<1>44. CASE WipeSalmonConfig
  BY <1>44 DEF WipeSalmonConfig, ProcessEnds
<1>45. CASE Killed
  BY <1>45 DEF Killed, ProcessEnds, AccountOpen, SettingsOpen
<1> QED
  BY <1>1, <1>2, <1>3, <1>4, <1>5, <1>6, <1>7, <1>8, <1>9, <1>10, <1>11, <1>12,
     <1>13, <1>14, <1>15, <1>16, <1>17, <1>18, <1>19, <1>20, <1>21, <1>22, <1>23, <1>24,
     <1>25, <1>26, <1>27, <1>28, <1>29, <1>30, <1>31, <1>32, <1>33, <1>34, <1>35, <1>36,
     <1>37, <1>38, <1>39, <1>40, <1>41, <1>42, <1>43, <1>44, <1>45
  DEF Next, GetSConfig, Login, Attempt, Purge, Rtt, Wipe

\* The account's servers stay in the list and in SConfig.txt, unless a kill cuts a
\* purge in two.
LEMMA HeldStep ==
  ASSUME StoreInv, TwinsInv, FreshInv, AccountInv, "purge" \notin cut',
         NEW x \in Addresses, x \notin Both, HeldAt(x), [Next]_vars
  PROVE  HeldAt(x)'
<1> USE Stacks, MoreStacks
    DEF StoreInv, StackInv, MemoryTyped, FilesTyped, LocalsTyped, TargetInv, TwinsInv,
        EmptyInv, FreshInv, AccountInv, HeldAt, Knows, Saved, OfAccount, Unread, GateAtHand,
        NoEntries, Both, NoAccount, BlankAccount, AccountOpen, Accounts
<1>1. CASE UNCHANGED vars
  BY <1>1 DEF vars
<1>2. CASE Start
  BY <1>2 DEF Start, Call
<1>3. CASE TrustMailCallback
  BY <1>3 DEF TrustMailCallback, Call, Resting, Idle
<1>4. CASE OpenForTrust
  BY <1>4 DEF OpenForTrust, Goto
<1>5. CASE WriteTrust
  <2>1. /\ pc = "trustFill" /\ pc' = Head(after) /\ after' = Tail(after)
        /\ salmonConfig' = account
        /\ account' = NoAccount
        /\ UNCHANGED <<gKnownServers, sConfig, entries, target>>
    BY <1>5 DEF WriteTrust, Return
  <2> QED
    BY <2>1, Unwinding, MoreApart
<1>6. CASE Clear
  BY <1>6 DEF Clear, Goto
<1>7. CASE ReadExistingSConfig
  <2>1. /\ pc = "load" /\ after' = Tail(after)
        /\ pc' = Head(after) \/ (Head(after) = "welcome" /\ pc' = "mail")
        /\ Saved(x) => Knows(x)'
        /\ sConfig # NoEntries
        /\ UNCHANGED <<sConfig, entries, target, salmonConfig, account>>
    BY <1>7 DEF ReadExistingSConfig, ReturnWith, PushBack, AddrsOf
  <2> QED
    BY <2>1, ReturnsFromRead
<1>8. CASE UnlinkSalmonConfig
  <2>1. /\ pc \in {"generate", "load"} /\ after' = Tail(after)
        /\ pc' = Head(after) \/ (Head(after) = "welcome" /\ pc' = "mail")
        /\ salmonConfig' = NoAccount
        /\ UNCHANGED <<gKnownServers, sConfig, entries, target, account>>
    BY <1>8 DEF UnlinkSalmonConfig, Generating, ReturnWith
  <2> QED
    BY <2>1, ReturnsFromRead
<1>9. CASE GenerateFromSalmonConfig
  <2>1. /\ pc \in {"generate", "load"} /\ pc' = "save"
        /\ x \in salmonConfig.servers => Knows(x)'
        /\ UNCHANGED <<sConfig, entries, target, salmonConfig, account>>
    BY <1>9 DEF GenerateFromSalmonConfig, Generating, Call, PushBack
  <2> QED
    BY <2>1
<1>10. CASE CreateConnectionSettings
  <2>1. /\ pc = "settings"
        /\ (pc' = Head(after) /\ after' = Tail(after)) \/ UNCHANGED <<pc, after>>
        /\ UNCHANGED <<gKnownServers, sConfig, entries, target, salmonConfig, account>>
    BY <1>10 DEF CreateConnectionSettings, Return, AddrsOf
  <2> QED
    BY <2>1, Unwinding, MoreApart
<1>11. CASE SaveOpens
  BY <1>11 DEF SaveOpens, OpenSConfig
<1>12. CASE SaveCloses
  <2>1. /\ pc = "fill" /\ pc' = Head(after) /\ after' = Tail(after) /\ sConfig' = gKnownServers
        /\ UNCHANGED <<gKnownServers, entries, target, salmonConfig, account>>
    BY <1>12 DEF SaveCloses, WriteSConfig, Return
  <2> QED
    BY <2>1, Unwinding, MoreApart
<1>13. CASE ClickLogin
  BY <1>13 DEF ClickLogin, Resting, Idle, Call
<1>14. CASE Welcome
  <2>1. /\ pc = "welcome" /\ pc' = Head(after) /\ after' = Tail(after)
        /\ UNCHANGED <<gKnownServers, sConfig, entries, target, salmonConfig, account>>
    BY <1>14 DEF Welcome, Return
  <2> QED
    BY <2>1, Unwinding, MoreApart
<1>15. CASE LoginFails
  <2>1. /\ pc = "mail" /\ pc' = Head(after) /\ after' = Tail(after)
        /\ UNCHANGED <<gKnownServers, sConfig, entries, target, salmonConfig, account>>
    BY <1>15 DEF LoginFails, Return
  <2> QED
    BY <2>1, Unwinding, MoreApart
<1>16. CASE RegisterMailCallback
  BY <1>16 DEF RegisterMailCallback, Resting, Idle, Call
<1>17. ASSUME NEW addrs \in SUBSET AccountServers, LoginMailCallback(addrs)
      PROVE  HeldAt(x)'
  BY <1>17 DEF LoginMailCallback, Call
<1>18. CASE OpenSalmonConfig
  BY <1>18 DEF OpenSalmonConfig, Goto
<1>19. CASE WriteSalmonConfig
  <2>1. /\ pc = "accountFill" /\ pc' = Head(after) /\ after' = Tail(after)
        /\ salmonConfig' = account
        /\ account' = NoAccount
        /\ UNCHANGED <<gKnownServers, sConfig, entries, target>>
    BY <1>19 DEF WriteSalmonConfig, Return
  <2> QED
    BY <2>1, Unwinding, MoreApart
<1>20. CASE ClickConnect
  BY <1>20 DEF ClickConnect, Idle, Call
<1>21. CASE SweepConnects
  BY <1>21 DEF SweepConnects, Goto, Connected, AddrsOf
<1>22. CASE SweepStops
  BY <1>22 DEF SweepStops, Goto
<1>23. CASE SweepFails
  BY <1>23 DEF SweepFails, Call
<1>24. CASE NeedServerGotNone
  BY <1>24 DEF NeedServerGotNone, Call, Purges
<1>25. CASE NeedServerGotGates
  BY <1>25 DEF NeedServerGotGates, Call, Purges
<1>26. ASSUME NEW a \in Servers, NeedServerGotSalmon(a)
      PROVE  HeldAt(x)'
  BY <1>26 DEF NeedServerGotSalmon, Call, Purges, AddVPNInfo, PushBack, AddrsOf
<1>27. ASSUME NEW g \in Gates, NextGate(g)
      PROVE  HeldAt(x)'
  BY <1>27 DEF NextGate, Call, AddVPNInfo, PushBack, AddrsOf
<1>28. CASE AddedSetting
  <2>1. /\ pc = "addSetting" /\ pc' = Head(after) /\ after' = Tail(after)
        /\ UNCHANGED <<gKnownServers, sConfig, entries, target, salmonConfig, account>>
    BY <1>28 DEF AddedSetting, Return
  <2> QED
    BY <2>1, Unwinding, MoreApart
<1>29. CASE NoMoreGates
  BY <1>29 DEF NoMoreGates, Goto
<1>30. CASE GateConnects
  BY <1>30 DEF GateConnects, Connected, Call
<1>31. CASE GateFails
  BY <1>31 DEF GateFails
<1>32. CASE NothingToPurge
  <2>1. /\ pc = "purge" /\ pc' = Head(after) /\ after' = Tail(after)
        /\ UNCHANGED <<gKnownServers, sConfig, entries, target, salmonConfig, account>>
    BY <1>32 DEF NothingToPurge, Return
  <2> QED
    BY <2>1, Unwinding, MoreApart
<1>33. ASSUME NEW a \in Addresses, PurgeReturnsEarly(a)
      PROVE  HeldAt(x)'
  BY <1>33 DEF PurgeReturnsEarly
<1>34. ASSUME NEW a \in Addresses, PurgeOpensSConfig(a)
      PROVE  HeldAt(x)'
  BY <1>34 DEF PurgeOpensSConfig, Goto
<1>35. CASE PurgeWritesSConfig
  BY <1>35 DEF PurgeWritesSConfig, Strike
<1>36. CASE PurgeOpensSalmonConfig
  BY <1>36 DEF PurgeOpensSalmonConfig, Goto
<1>37. CASE PurgeWritesSalmonConfig
  BY <1>37 DEF PurgeWritesSalmonConfig, Goto, Strike
<1>38. CASE RttFinds
  BY <1>38 DEF RttFinds
<1>39. CASE RttSaveOpens
  BY <1>39 DEF RttSaveOpens, OpenSConfig
<1>40. CASE RttSaveCloses
  BY <1>40 DEF RttSaveCloses, WriteSConfig
<1>41. CASE ClickWipe
  BY <1>41 DEF ClickWipe, WipeClicked, Idle, Call, AddrsOf
<1>42. CASE DeleteConnectionSettings
  BY <1>42 DEF DeleteConnectionSettings, Goto, AddrsOf
<1>43. CASE WipeSConfig
  BY <1>43 DEF WipeSConfig, Goto
<1>44. CASE WipeSalmonConfig
  BY <1>44 DEF WipeSalmonConfig, ProcessEnds
<1>45. CASE Killed
  <2>1. /\ pc' = "off" /\ gKnownServers' = NoEntries /\ account' = NoAccount
        /\ UNCHANGED <<sConfig, salmonConfig>>
    BY <1>45 DEF Killed, ProcessEnds
  <2>2. pc # "purgeAccount"
    BY <1>45 DEF Killed
  <2> QED
    BY <2>1, <2>2
<1> QED
  BY <1>1, <1>2, <1>3, <1>4, <1>5, <1>6, <1>7, <1>8, <1>9, <1>10, <1>11, <1>12,
     <1>13, <1>14, <1>15, <1>16, <1>17, <1>18, <1>19, <1>20, <1>21, <1>22, <1>23, <1>24,
     <1>25, <1>26, <1>27, <1>28, <1>29, <1>30, <1>31, <1>32, <1>33, <1>34, <1>35, <1>36,
     <1>37, <1>38, <1>39, <1>40, <1>41, <1>42, <1>43, <1>44, <1>45
  DEF Next, GetSConfig, Login, Attempt, Purge, Rtt, Wipe

\* A list that has just been generated has every server of the account.
LEMMA GeneratedStep ==
  ASSUME StoreInv, AccountInv, NEW x \in Addresses, GeneratedAt(x), [Next]_vars
  PROVE  GeneratedAt(x)'
<1> USE Stacks, MoreStacks
    DEF StoreInv, StackInv, MemoryTyped, FilesTyped, LocalsTyped, AccountInv, GeneratedAt,
        Knows, Saved, OfAccount, Generated, Generators, NoEntries, NoAccount, AccountOpen,
        Getters, Purgers, Savers, Trusters, Accounters
<1>1. CASE UNCHANGED vars
  BY <1>1 DEF vars
<1>2. CASE Start
  BY <1>2 DEF Start, Call
<1>3. CASE TrustMailCallback
  BY <1>3 DEF TrustMailCallback, Call, Resting, Idle
<1>4. CASE OpenForTrust
  BY <1>4 DEF OpenForTrust, Goto
<1>5. CASE WriteTrust
  <2>1. /\ pc = "trustFill" /\ pc' = Head(after) /\ after' = Tail(after)
        /\ salmonConfig' = account
        /\ account' = NoAccount
        /\ UNCHANGED <<gKnownServers, sConfig>>
    BY <1>5 DEF WriteTrust, Return
  <2> QED
    BY <2>1, Unwinding, MoreApart
<1>6. CASE Clear
  BY <1>6 DEF Clear, Goto
<1>7. CASE ReadExistingSConfig
  <2>1. /\ pc = "load" /\ after' = Tail(after)
        /\ pc' = Head(after) \/ (Head(after) = "welcome" /\ pc' = "mail")
        /\ UNCHANGED <<sConfig, salmonConfig, account>>
    BY <1>7 DEF ReadExistingSConfig, ReturnWith, PushBack, AddrsOf
  <2> QED
    BY <2>1, ReturnsFromRead, WipeApart
<1>8. CASE UnlinkSalmonConfig
  <2>1. /\ pc \in {"generate", "load"} /\ after' = Tail(after)
        /\ pc' = Head(after) \/ (Head(after) = "welcome" /\ pc' = "mail")
        /\ salmonConfig' = NoAccount
        /\ UNCHANGED <<gKnownServers, sConfig, account>>
    BY <1>8 DEF UnlinkSalmonConfig, Generating, ReturnWith
  <2> QED
    BY <2>1, ReturnsFromRead, WipeApart
<1>9. CASE GenerateFromSalmonConfig
  <2>1. /\ pc \in {"generate", "load"} /\ pc' = "save" /\ after' = <<"settings">> \o after
        /\ x \in salmonConfig.servers => Knows(x)'
        /\ UNCHANGED <<sConfig, salmonConfig, account>>
    BY <1>9 DEF GenerateFromSalmonConfig, Generating, Call, PushBack
  <2> QED
    BY <2>1, GeneratesNext, MoreApart, Apart
<1>10. CASE CreateConnectionSettings
  <2>1. /\ pc = "settings"
        /\ (pc' = Head(after) /\ after' = Tail(after)) \/ UNCHANGED <<pc, after>>
        /\ UNCHANGED <<gKnownServers, sConfig, salmonConfig, account>>
    BY <1>10 DEF CreateConnectionSettings, Return, AddrsOf
  <2> QED
    BY <2>1, Unwinding, MoreApart
<1>11. CASE SaveOpens
  BY <1>11 DEF SaveOpens, OpenSConfig
<1>12. CASE SaveCloses
  <2>1. /\ pc = "fill" /\ pc' = Head(after) /\ after' = Tail(after)
        /\ sConfig' = gKnownServers
        /\ UNCHANGED <<gKnownServers, salmonConfig, account>>
    BY <1>12 DEF SaveCloses, WriteSConfig, Return
  <2> QED
    BY <2>1, Unwinding, MoreApart
<1>13. CASE ClickLogin
  BY <1>13 DEF ClickLogin, Resting, Idle, Call
<1>14. CASE Welcome
  <2>1. /\ pc = "welcome" /\ pc' = Head(after) /\ after' = Tail(after)
        /\ UNCHANGED <<gKnownServers, sConfig, salmonConfig, account>>
    BY <1>14 DEF Welcome, Return
  <2> QED
    BY <2>1, Unwinding, MoreApart
<1>15. CASE LoginFails
  <2>1. /\ pc = "mail" /\ pc' = Head(after) /\ after' = Tail(after)
        /\ UNCHANGED <<gKnownServers, sConfig, salmonConfig, account>>
    BY <1>15 DEF LoginFails, Return
  <2> QED
    BY <2>1, Unwinding, MoreApart
<1>16. CASE RegisterMailCallback
  BY <1>16 DEF RegisterMailCallback, Resting, Idle, Call
<1>17. ASSUME NEW addrs \in SUBSET AccountServers, LoginMailCallback(addrs)
      PROVE  GeneratedAt(x)'
  BY <1>17 DEF LoginMailCallback, Call
<1>18. CASE OpenSalmonConfig
  BY <1>18 DEF OpenSalmonConfig, Goto
<1>19. CASE WriteSalmonConfig
  <2>1. /\ pc = "accountFill" /\ pc' = Head(after) /\ after' = Tail(after)
        /\ salmonConfig' = account
        /\ account' = NoAccount
        /\ UNCHANGED <<gKnownServers, sConfig>>
    BY <1>19 DEF WriteSalmonConfig, Return
  <2> QED
    BY <2>1, Unwinding, MoreApart
<1>20. CASE ClickConnect
  BY <1>20 DEF ClickConnect, Idle, Call
<1>21. CASE SweepConnects
  BY <1>21 DEF SweepConnects, Goto, Connected, AddrsOf
<1>22. CASE SweepStops
  BY <1>22 DEF SweepStops, Goto
<1>23. CASE SweepFails
  BY <1>23 DEF SweepFails, Call
<1>24. CASE NeedServerGotNone
  BY <1>24 DEF NeedServerGotNone, Call, Purges
<1>25. CASE NeedServerGotGates
  BY <1>25 DEF NeedServerGotGates, Call, Purges
<1>26. ASSUME NEW a \in Servers, NeedServerGotSalmon(a)
      PROVE  GeneratedAt(x)'
  BY <1>26 DEF NeedServerGotSalmon, Call, Purges, AddVPNInfo, PushBack, AddrsOf
<1>27. ASSUME NEW g \in Gates, NextGate(g)
      PROVE  GeneratedAt(x)'
  BY <1>27 DEF NextGate, Call, AddVPNInfo, PushBack, AddrsOf
<1>28. CASE AddedSetting
  <2>1. /\ pc = "addSetting" /\ pc' = Head(after) /\ after' = Tail(after)
        /\ UNCHANGED <<gKnownServers, sConfig, salmonConfig, account>>
    BY <1>28 DEF AddedSetting, Return
  <2> QED
    BY <2>1, Unwinding, MoreApart
<1>29. CASE NoMoreGates
  BY <1>29 DEF NoMoreGates, Goto
<1>30. CASE GateConnects
  BY <1>30 DEF GateConnects, Connected, Call
<1>31. CASE GateFails
  BY <1>31 DEF GateFails
<1>32. CASE NothingToPurge
  <2>1. /\ pc = "purge" /\ pc' = Head(after) /\ after' = Tail(after)
        /\ UNCHANGED <<gKnownServers, sConfig, salmonConfig, account>>
    BY <1>32 DEF NothingToPurge, Return
  <2> QED
    BY <2>1, Unwinding, MoreApart
<1>33. ASSUME NEW a \in Addresses, PurgeReturnsEarly(a)
      PROVE  GeneratedAt(x)'
  BY <1>33 DEF PurgeReturnsEarly
<1>34. ASSUME NEW a \in Addresses, PurgeOpensSConfig(a)
      PROVE  GeneratedAt(x)'
  BY <1>34 DEF PurgeOpensSConfig, Goto
<1>35. CASE PurgeWritesSConfig
  BY <1>35 DEF PurgeWritesSConfig, Strike
<1>36. CASE PurgeOpensSalmonConfig
  BY <1>36 DEF PurgeOpensSalmonConfig, Goto
<1>37. CASE PurgeWritesSalmonConfig
  BY <1>37 DEF PurgeWritesSalmonConfig, Goto, Strike
<1>38. CASE RttFinds
  BY <1>38 DEF RttFinds
<1>39. CASE RttSaveOpens
  BY <1>39 DEF RttSaveOpens, OpenSConfig
<1>40. CASE RttSaveCloses
  BY <1>40 DEF RttSaveCloses, WriteSConfig
<1>41. CASE ClickWipe
  BY <1>41 DEF ClickWipe, WipeClicked, Idle, Call, AddrsOf
<1>42. CASE DeleteConnectionSettings
  BY <1>42 DEF DeleteConnectionSettings, Goto, AddrsOf
<1>43. CASE WipeSConfig
  BY <1>43 DEF WipeSConfig, Goto
<1>44. CASE WipeSalmonConfig
  BY <1>44 DEF WipeSalmonConfig, ProcessEnds
<1>45. CASE Killed
  BY <1>45 DEF Killed, ProcessEnds, AccountOpen, SettingsOpen
<1> QED
  BY <1>1, <1>2, <1>3, <1>4, <1>5, <1>6, <1>7, <1>8, <1>9, <1>10, <1>11, <1>12,
     <1>13, <1>14, <1>15, <1>16, <1>17, <1>18, <1>19, <1>20, <1>21, <1>22, <1>23, <1>24,
     <1>25, <1>26, <1>27, <1>28, <1>29, <1>30, <1>31, <1>32, <1>33, <1>34, <1>35, <1>36,
     <1>37, <1>38, <1>39, <1>40, <1>41, <1>42, <1>43, <1>44, <1>45
  DEF Next, GetSConfig, Login, Attempt, Purge, Rtt, Wipe

\* A server has its connection setting before anybody can read it from SConfig.txt,
\* unless a kill comes while the settings are created or deleted.
LEMMA SettingStep ==
  ASSUME StoreInv, TwinsInv, FreshInv, AccountInv, WipeInv, NEW x \in Addresses,
         GeneratedAt(x), SettingAt(x),
         {"settings", "wipe"} \cap cut' = {}, [Next]_vars
  PROVE  SettingAt(x)'
<1> USE Stacks, MoreStacks
    DEF StoreInv, StackInv, MemoryTyped, FilesTyped, LocalsTyped, TargetInv, TwinsInv,
        EmptyInv, LoginInv, FreshInv, AccountInv, WipeInv, Wiping, GeneratedAt, SettingAt,
        Knows, Saved, OfAccount, Generated, Generators, Swept, NoEntries, NoAccount,
        BlankAccount, AccountOpen, SettingsOpen, Accounts, Getters
<1>1. CASE UNCHANGED vars
  BY <1>1 DEF vars
<1>2. CASE Start
  BY <1>2 DEF Start, Call
<1>3. CASE TrustMailCallback
  BY <1>3 DEF TrustMailCallback, Call, Resting, Idle
<1>4. CASE OpenForTrust
  BY <1>4 DEF OpenForTrust, Goto
<1>5. CASE WriteTrust
  <2>1. /\ pc = "trustFill" /\ pc' = Head(after) /\ after' = Tail(after)
        /\ salmonConfig' = account
        /\ account' = NoAccount
        /\ UNCHANGED <<gKnownServers, sConfig, settings, rttPc, target, entries>>
    BY <1>5 DEF WriteTrust, Return
  <2> QED
    BY <2>1, Unwinding, MoreApart
<1>6. CASE Clear
  BY <1>6 DEF Clear, Goto
<1>7. CASE ReadExistingSConfig
  <2>1. /\ pc = "load" /\ after' = Tail(after)
        /\ pc' = Head(after) \/ (Head(after) = "welcome" /\ pc' = "mail")
        /\ sConfig # NoEntries
        /\ Knows(x)' => Saved(x) \/ Knows(x)
        /\ UNCHANGED <<sConfig, settings, salmonConfig, account, rttPc, target, entries>>
    BY <1>7 DEF ReadExistingSConfig, ReturnWith, PushBack, AddrsOf
  <2> QED
    BY <2>1, ReturnsFromRead, WipeApart
<1>8. CASE UnlinkSalmonConfig
  <2>1. /\ pc \in {"generate", "load"} /\ after' = Tail(after)
        /\ pc' = Head(after) \/ (Head(after) = "welcome" /\ pc' = "mail")
        /\ salmonConfig' = NoAccount
        /\ UNCHANGED <<gKnownServers, sConfig, settings, account, rttPc, target, entries>>
    BY <1>8 DEF UnlinkSalmonConfig, Generating, ReturnWith
  <2> QED
    BY <2>1, ReturnsFromRead, WipeApart
<1>9. CASE GenerateFromSalmonConfig
  <2>1. /\ pc \in {"generate", "load"} /\ pc' = "save" /\ after' = <<"settings">> \o after
        /\ Knows(x)' <=> Knows(x) \/ x \in salmonConfig.servers
        /\ sConfig = NoEntries
        /\ UNCHANGED <<sConfig, settings, salmonConfig, account, rttPc, target, entries>>
    BY <1>9 DEF GenerateFromSalmonConfig, Generating, Call, PushBack
  <2> QED
    BY <2>1, GeneratesNext, MoreApart, Apart
<1>10. CASE CreateConnectionSettings
  <2>1. /\ pc = "settings"
        /\ \/ pc' = Head(after) /\ after' = Tail(after)
              /\ (Knows(x) => x \in settings')
           \/ UNCHANGED <<pc, after>>
        /\ x \in settings => x \in settings'
        /\ UNCHANGED <<gKnownServers, sConfig, salmonConfig, account, rttPc, target, entries>>
    BY <1>10 DEF CreateConnectionSettings, Return, AddrsOf
  <2>2. CASE UNCHANGED <<pc, after>>
    BY <2>1, <2>2
  <2>3. CASE pc' = Head(after) /\ after' = Tail(after) /\ (Knows(x) => x \in settings')
    BY <2>1, <2>3, Unwinding, MoreApart
  <2> QED
    BY <2>1, <2>2, <2>3
<1>11. CASE SaveOpens
  BY <1>11 DEF SaveOpens, OpenSConfig
<1>12. CASE SaveCloses
  <2>1. /\ pc = "fill" /\ pc' = Head(after) /\ after' = Tail(after)
        /\ sConfig' = gKnownServers
        /\ UNCHANGED <<gKnownServers, settings, salmonConfig, account, rttPc, target, entries>>
    BY <1>12 DEF SaveCloses, WriteSConfig, Return
  <2> QED
    BY <2>1, Unwinding, MoreApart
<1>13. CASE ClickLogin
  BY <1>13 DEF ClickLogin, Resting, Idle, Call
<1>14. CASE Welcome
  <2>1. /\ pc = "welcome" /\ pc' = Head(after) /\ after' = Tail(after)
        /\ UNCHANGED <<gKnownServers, sConfig, settings, salmonConfig, account, rttPc, target,
                       entries>>
    BY <1>14 DEF Welcome, Return
  <2> QED
    BY <2>1, Unwinding, MoreApart
<1>15. CASE LoginFails
  <2>1. /\ pc = "mail" /\ pc' = Head(after) /\ after' = Tail(after)
        /\ UNCHANGED <<gKnownServers, sConfig, settings, salmonConfig, account, rttPc, target,
                       entries>>
    BY <1>15 DEF LoginFails, Return
  <2> QED
    BY <2>1, Unwinding, MoreApart
<1>16. CASE RegisterMailCallback
  BY <1>16 DEF RegisterMailCallback, Resting, Idle, Call
<1>17. ASSUME NEW addrs \in SUBSET AccountServers, LoginMailCallback(addrs)
      PROVE  SettingAt(x)'
  BY <1>17 DEF LoginMailCallback, Call
<1>18. CASE OpenSalmonConfig
  BY <1>18 DEF OpenSalmonConfig, Goto
<1>19. CASE WriteSalmonConfig
  <2>1. /\ pc = "accountFill" /\ pc' = Head(after) /\ after' = Tail(after)
        /\ salmonConfig' = account
        /\ account' = NoAccount
        /\ UNCHANGED <<gKnownServers, sConfig, settings, rttPc, target, entries>>
    BY <1>19 DEF WriteSalmonConfig, Return
  <2> QED
    BY <2>1, Unwinding, MoreApart
<1>20. CASE ClickConnect
  BY <1>20 DEF ClickConnect, Idle, Call
<1>21. CASE SweepConnects
  BY <1>21 DEF SweepConnects, Goto, Connected, AddrsOf
<1>22. CASE SweepStops
  BY <1>22 DEF SweepStops, Goto
<1>23. CASE SweepFails
  BY <1>23 DEF SweepFails, Call
<1>24. CASE NeedServerGotNone
  BY <1>24 DEF NeedServerGotNone, Call, Purges
<1>25. CASE NeedServerGotGates
  BY <1>25 DEF NeedServerGotGates, Call, Purges
<1>26. ASSUME NEW a \in Servers, NeedServerGotSalmon(a)
      PROVE  SettingAt(x)'
  BY <1>26 DEF NeedServerGotSalmon, Call, Purges, AddVPNInfo, PushBack, AddrsOf
<1>27. ASSUME NEW g \in Gates, NextGate(g)
      PROVE  SettingAt(x)'
  BY <1>27 DEF NextGate, Call, AddVPNInfo, PushBack, AddrsOf
<1>28. CASE AddedSetting
  <2>1. /\ pc = "addSetting" /\ pc' = Head(after) /\ after' = Tail(after)
        /\ x \in settings' <=> x \in settings \/ x = target
        /\ UNCHANGED <<gKnownServers, sConfig, salmonConfig, account, rttPc, target, entries>>
    BY <1>28 DEF AddedSetting, Return
  <2> QED
    BY <2>1, Unwinding, MoreApart
<1>29. CASE NoMoreGates
  BY <1>29 DEF NoMoreGates, Goto
<1>30. CASE GateConnects
  BY <1>30 DEF GateConnects, Connected, Call
<1>31. CASE GateFails
  BY <1>31 DEF GateFails
<1>32. CASE NothingToPurge
  <2>1. /\ pc = "purge" /\ pc' = Head(after) /\ after' = Tail(after)
        /\ UNCHANGED <<gKnownServers, sConfig, settings, salmonConfig, account, rttPc, target,
                       entries>>
    BY <1>32 DEF NothingToPurge, Return
  <2> QED
    BY <2>1, Unwinding, MoreApart
<1>33. ASSUME NEW a \in Addresses, PurgeReturnsEarly(a)
      PROVE  SettingAt(x)'
  BY <1>33 DEF PurgeReturnsEarly
<1>34. ASSUME NEW a \in Addresses, PurgeOpensSConfig(a)
      PROVE  SettingAt(x)'
  BY <1>34 DEF PurgeOpensSConfig, Goto
<1>35. CASE PurgeWritesSConfig
  BY <1>35 DEF PurgeWritesSConfig, Strike
<1>36. CASE PurgeOpensSalmonConfig
  BY <1>36 DEF PurgeOpensSalmonConfig, Goto
<1>37. CASE PurgeWritesSalmonConfig
  BY <1>37 DEF PurgeWritesSalmonConfig, Goto, Strike
<1>38. CASE RttFinds
  BY <1>38 DEF RttFinds
<1>39. CASE RttSaveOpens
  BY <1>39 DEF RttSaveOpens, OpenSConfig
<1>40. CASE RttSaveCloses
  BY <1>40 DEF RttSaveCloses, WriteSConfig
<1>41. CASE ClickWipe
  BY <1>41 DEF ClickWipe, WipeClicked, Idle, Call, AddrsOf
<1>42. CASE DeleteConnectionSettings
  BY <1>42 DEF DeleteConnectionSettings, Goto, AddrsOf
<1>43. CASE WipeSConfig
  BY <1>43 DEF WipeSConfig, Goto
<1>44. CASE WipeSalmonConfig
  BY <1>44 DEF WipeSalmonConfig, ProcessEnds
<1>45. CASE Killed
  BY <1>45 DEF Killed, ProcessEnds, AccountOpen, SettingsOpen
<1> QED
  BY <1>1, <1>2, <1>3, <1>4, <1>5, <1>6, <1>7, <1>8, <1>9, <1>10, <1>11, <1>12,
     <1>13, <1>14, <1>15, <1>16, <1>17, <1>18, <1>19, <1>20, <1>21, <1>22, <1>23, <1>24,
     <1>25, <1>26, <1>27, <1>28, <1>29, <1>30, <1>31, <1>32, <1>33, <1>34, <1>35, <1>36,
     <1>37, <1>38, <1>39, <1>40, <1>41, <1>42, <1>43, <1>44, <1>45
  DEF Next, GetSConfig, Login, Attempt, Purge, Rtt, Wipe

\* When the window is gone, so are the files.
LEMMA GoneStep ==
  ASSUME StoreInv, TwinsInv, WipeInv, "wipe" \notin cut', GoneInv, [Next]_vars
  PROVE  GoneInv'
<1> USE Stacks, MoreStacks
    DEF StoreInv, StackInv, TwinsInv, LoginInv, WipeInv, Wiping, GoneInv
<1>1. CASE UNCHANGED vars
  BY <1>1 DEF vars
<1>2. CASE Start
  BY <1>2 DEF Start, Call
<1>3. CASE TrustMailCallback
  BY <1>3 DEF TrustMailCallback, Call, Resting, Idle
<1>4. CASE OpenForTrust
  BY <1>4 DEF OpenForTrust, Goto
<1>5. CASE WriteTrust
  BY <1>5 DEF WriteTrust, Return
<1>6. CASE Clear
  BY <1>6 DEF Clear, Goto
<1>7. CASE ReadExistingSConfig
  BY <1>7 DEF ReadExistingSConfig, ReturnWith, PushBack
<1>8. CASE UnlinkSalmonConfig
  BY <1>8 DEF UnlinkSalmonConfig, Generating, ReturnWith
<1>9. CASE GenerateFromSalmonConfig
  BY <1>9 DEF GenerateFromSalmonConfig, Generating, Call, PushBack
<1>10. CASE CreateConnectionSettings
  BY <1>10 DEF CreateConnectionSettings, Return, AddrsOf
<1>11. CASE SaveOpens
  BY <1>11 DEF SaveOpens, OpenSConfig
<1>12. CASE SaveCloses
  BY <1>12 DEF SaveCloses, WriteSConfig, Return
<1>13. CASE ClickLogin
  BY <1>13 DEF ClickLogin, Resting, Idle, Call
<1>14. CASE Welcome
  BY <1>14 DEF Welcome, Return
<1>15. CASE LoginFails
  BY <1>15 DEF LoginFails, Return
<1>16. CASE RegisterMailCallback
  BY <1>16 DEF RegisterMailCallback, Resting, Idle, Call
<1>17. ASSUME NEW addrs \in SUBSET AccountServers, LoginMailCallback(addrs)
      PROVE  GoneInv'
  BY <1>17 DEF LoginMailCallback, Call
<1>18. CASE OpenSalmonConfig
  BY <1>18 DEF OpenSalmonConfig, Goto
<1>19. CASE WriteSalmonConfig
  BY <1>19 DEF WriteSalmonConfig, Return
<1>20. CASE ClickConnect
  BY <1>20 DEF ClickConnect, Idle, Call
<1>21. CASE SweepConnects
  BY <1>21 DEF SweepConnects, Goto, Connected, AddrsOf
<1>22. CASE SweepStops
  BY <1>22 DEF SweepStops, Goto
<1>23. CASE SweepFails
  BY <1>23 DEF SweepFails, Call
<1>24. CASE NeedServerGotNone
  BY <1>24 DEF NeedServerGotNone, Call, Purges
<1>25. CASE NeedServerGotGates
  BY <1>25 DEF NeedServerGotGates, Call, Purges
<1>26. ASSUME NEW a \in Servers, NeedServerGotSalmon(a)
      PROVE  GoneInv'
  BY <1>26 DEF NeedServerGotSalmon, Call, Purges, AddVPNInfo, PushBack, AddrsOf
<1>27. ASSUME NEW g \in Gates, NextGate(g)
      PROVE  GoneInv'
  BY <1>27 DEF NextGate, Call, AddVPNInfo, PushBack, AddrsOf
<1>28. CASE AddedSetting
  BY <1>28 DEF AddedSetting, Return
<1>29. CASE NoMoreGates
  BY <1>29 DEF NoMoreGates, Goto
<1>30. CASE GateConnects
  BY <1>30 DEF GateConnects, Connected, Call
<1>31. CASE GateFails
  BY <1>31 DEF GateFails
<1>32. CASE NothingToPurge
  BY <1>32 DEF NothingToPurge, Return
<1>33. ASSUME NEW a \in Addresses, PurgeReturnsEarly(a)
      PROVE  GoneInv'
  BY <1>33 DEF PurgeReturnsEarly
<1>34. ASSUME NEW a \in Addresses, PurgeOpensSConfig(a)
      PROVE  GoneInv'
  BY <1>34 DEF PurgeOpensSConfig, Goto
<1>35. CASE PurgeWritesSConfig
  BY <1>35 DEF PurgeWritesSConfig, Strike
<1>36. CASE PurgeOpensSalmonConfig
  BY <1>36 DEF PurgeOpensSalmonConfig, Goto
<1>37. CASE PurgeWritesSalmonConfig
  BY <1>37 DEF PurgeWritesSalmonConfig, Goto, Strike
<1>38. CASE RttFinds
  BY <1>38 DEF RttFinds
<1>39. CASE RttSaveOpens
  BY <1>39 DEF RttSaveOpens, OpenSConfig
<1>40. CASE RttSaveCloses
  BY <1>40 DEF RttSaveCloses, WriteSConfig
<1>41. CASE ClickWipe
  BY <1>41 DEF ClickWipe, WipeClicked, Idle, Call, AddrsOf
<1>42. CASE DeleteConnectionSettings
  BY <1>42 DEF DeleteConnectionSettings, Goto, AddrsOf
<1>43. CASE WipeSConfig
  BY <1>43 DEF WipeSConfig, Goto
<1>44. CASE WipeSalmonConfig
  BY <1>44 DEF WipeSalmonConfig, ProcessEnds
<1>45. CASE Killed
  BY <1>45 DEF Killed, ProcessEnds, AccountOpen, SettingsOpen
<1> QED
  BY <1>1, <1>2, <1>3, <1>4, <1>5, <1>6, <1>7, <1>8, <1>9, <1>10, <1>11, <1>12,
     <1>13, <1>14, <1>15, <1>16, <1>17, <1>18, <1>19, <1>20, <1>21, <1>22, <1>23, <1>24,
     <1>25, <1>26, <1>27, <1>28, <1>29, <1>30, <1>31, <1>32, <1>33, <1>34, <1>35, <1>36,
     <1>37, <1>38, <1>39, <1>40, <1>41, <1>42, <1>43, <1>44, <1>45
  DEF Next, GetSConfig, Login, Attempt, Purge, Rtt, Wipe

\* The list that is read in for a wipe has all that was known when it was clicked.
LEMMA WipedStep ==
  ASSUME StoreInv, TwinsInv, FreshInv, AccountInv, WipeInv, GoneInv, NEW x \in Addresses,
         SavedAt(x), HeldAt(x), WipedAt(x),
         {"wipe", "purge"} \cap cut' = {}, [Next]_vars
  PROVE  WipedAt(x)'
<1> USE Stacks, MoreStacks
    DEF StoreInv, StackInv, MemoryTyped, FilesTyped, LocalsTyped, TwinsInv, LoginInv,
        EmptyInv, FreshInv, AccountInv, WipeInv, Wiping, GoneInv, SavedAt, HeldAt, WipedAt,
        Knows, Saved, OfAccount, Truncated, Saving, GateAtHand, Generated, NoEntries,
        NoAccount, AccountOpen, Getters, Purgers, Savers, Trusters, Accounters
<1>1. CASE UNCHANGED vars
  BY <1>1 DEF vars
<1>2. CASE Start
  BY <1>2 DEF Start, Call
<1>3. CASE TrustMailCallback
  BY <1>3 DEF TrustMailCallback, Call, Resting, Idle
<1>4. CASE OpenForTrust
  BY <1>4 DEF OpenForTrust, Goto
<1>5. CASE WriteTrust
  <2>1. /\ pc = "trustFill" /\ pc' = Head(after) /\ after' = Tail(after)
        /\ salmonConfig' = account
        /\ UNCHANGED <<gKnownServers, sConfig, settings, wiped, purged, shown, cut>>
    BY <1>5 DEF WriteTrust, Return
  <2> QED
    BY <2>1, Unwinding, WipeApart
<1>6. CASE Clear
  BY <1>6 DEF Clear, Goto
<1>7. CASE ReadExistingSConfig
  <2>1. /\ pc = "load" /\ after' = Tail(after)
        /\ pc' = Head(after) \/ (Head(after) = "welcome" /\ pc' = "mail")
        /\ sConfig # NoEntries
        /\ Saved(x) => Knows(x)'
        /\ UNCHANGED <<sConfig, settings, salmonConfig, wiped, purged, shown, cut>>
    BY <1>7 DEF ReadExistingSConfig, ReturnWith, PushBack, AddrsOf
  <2> QED
    BY <2>1, ReturnsFromRead, WipeApart
<1>8. CASE UnlinkSalmonConfig
  <2>1. /\ pc \in {"generate", "load"} /\ after' = Tail(after)
        /\ pc' = Head(after) \/ (Head(after) = "welcome" /\ pc' = "mail")
        /\ sConfig = NoEntries /\ salmonConfig.pw # "good"
        /\ UNCHANGED <<gKnownServers, sConfig, settings, wiped, purged, shown, cut>>
    BY <1>8 DEF UnlinkSalmonConfig, Generating, ReturnWith
  <2> QED
    BY <2>1, ReturnsFromRead, WipeApart
<1>9. CASE GenerateFromSalmonConfig
  <2>1. /\ pc \in {"generate", "load"} /\ pc' = "save" /\ after' = <<"settings">> \o after
        /\ x \in salmonConfig.servers => Knows(x)'
        /\ sConfig = NoEntries
        /\ UNCHANGED <<sConfig, settings, salmonConfig, wiped, purged, shown, cut>>
    BY <1>9 DEF GenerateFromSalmonConfig, Generating, Call, PushBack
  <2> QED
    BY <2>1, GeneratesNext, MoreApart, Apart
<1>10. CASE CreateConnectionSettings
  <2>1. /\ pc = "settings"
        /\ (pc' = Head(after) /\ after' = Tail(after)) \/ UNCHANGED <<pc, after>>
        /\ UNCHANGED <<gKnownServers, sConfig, salmonConfig, wiped, purged, shown, cut>>
    BY <1>10 DEF CreateConnectionSettings, Return, AddrsOf
  <2> QED
    BY <2>1, Unwinding, WipeApart
<1>11. CASE SaveOpens
  BY <1>11 DEF SaveOpens, OpenSConfig
<1>12. CASE SaveCloses
  <2>1. /\ pc = "fill" /\ pc' = Head(after) /\ after' = Tail(after)
        /\ UNCHANGED <<gKnownServers, settings, salmonConfig, wiped, purged, shown, cut>>
    BY <1>12 DEF SaveCloses, WriteSConfig, Return
  <2> QED
    BY <2>1, Unwinding, WipeApart
<1>13. CASE ClickLogin
  BY <1>13 DEF ClickLogin, Resting, Idle, Call
<1>14. CASE Welcome
  <2>1. /\ pc = "welcome" /\ pc' = Head(after) /\ after' = Tail(after) /\ shown' = "main"
        /\ UNCHANGED <<gKnownServers, sConfig, settings, salmonConfig, wiped, purged, cut>>
    BY <1>14 DEF Welcome, Return
  <2> QED
    BY <2>1, Unwinding, WipeApart
<1>15. CASE LoginFails
  <2>1. /\ pc = "mail" /\ pc' = Head(after) /\ after' = Tail(after)
        /\ UNCHANGED <<gKnownServers, sConfig, settings, salmonConfig, wiped, purged, shown,
                       cut>>
    BY <1>15 DEF LoginFails, Return
  <2> QED
    BY <2>1, Unwinding, WipeApart
<1>16. CASE RegisterMailCallback
  BY <1>16 DEF RegisterMailCallback, Resting, Idle, Call
<1>17. ASSUME NEW addrs \in SUBSET AccountServers, LoginMailCallback(addrs)
      PROVE  WipedAt(x)'
  BY <1>17 DEF LoginMailCallback, Call
<1>18. CASE OpenSalmonConfig
  BY <1>18 DEF OpenSalmonConfig, Goto
<1>19. CASE WriteSalmonConfig
  <2>1. /\ pc = "accountFill" /\ pc' = Head(after) /\ after' = Tail(after)
        /\ salmonConfig' = account
        /\ UNCHANGED <<gKnownServers, sConfig, settings, wiped, purged, shown, cut>>
    BY <1>19 DEF WriteSalmonConfig, Return
  <2> QED
    BY <2>1, Unwinding, WipeApart
<1>20. CASE ClickConnect
  BY <1>20 DEF ClickConnect, Idle, Call
<1>21. CASE SweepConnects
  BY <1>21 DEF SweepConnects, Goto, Connected, AddrsOf
<1>22. CASE SweepStops
  BY <1>22 DEF SweepStops, Goto
<1>23. CASE SweepFails
  BY <1>23 DEF SweepFails, Call
<1>24. CASE NeedServerGotNone
  BY <1>24 DEF NeedServerGotNone, Call, Purges
<1>25. CASE NeedServerGotGates
  BY <1>25 DEF NeedServerGotGates, Call, Purges
<1>26. ASSUME NEW a \in Servers, NeedServerGotSalmon(a)
      PROVE  WipedAt(x)'
  BY <1>26 DEF NeedServerGotSalmon, Call, Purges, AddVPNInfo, PushBack, AddrsOf
<1>27. ASSUME NEW g \in Gates, NextGate(g)
      PROVE  WipedAt(x)'
  BY <1>27 DEF NextGate, Call, AddVPNInfo, PushBack, AddrsOf
<1>28. CASE AddedSetting
  <2>1. /\ pc = "addSetting" /\ pc' = Head(after) /\ after' = Tail(after)
        /\ UNCHANGED <<gKnownServers, sConfig, salmonConfig, wiped, purged, shown, cut>>
    BY <1>28 DEF AddedSetting, Return
  <2> QED
    BY <2>1, Unwinding, WipeApart
<1>29. CASE NoMoreGates
  BY <1>29 DEF NoMoreGates, Goto
<1>30. CASE GateConnects
  BY <1>30 DEF GateConnects, Connected, Call
<1>31. CASE GateFails
  BY <1>31 DEF GateFails
<1>32. CASE NothingToPurge
  <2>1. /\ pc = "purge" /\ pc' = Head(after) /\ after' = Tail(after)
        /\ UNCHANGED <<gKnownServers, sConfig, settings, salmonConfig, wiped, purged, shown,
                       cut>>
    BY <1>32 DEF NothingToPurge, Return
  <2> QED
    BY <2>1, Unwinding, WipeApart
<1>33. ASSUME NEW a \in Addresses, PurgeReturnsEarly(a)
      PROVE  WipedAt(x)'
  BY <1>33 DEF PurgeReturnsEarly
<1>34. ASSUME NEW a \in Addresses, PurgeOpensSConfig(a)
      PROVE  WipedAt(x)'
  BY <1>34 DEF PurgeOpensSConfig, Goto
<1>35. CASE PurgeWritesSConfig
  BY <1>35 DEF PurgeWritesSConfig, Strike
<1>36. CASE PurgeOpensSalmonConfig
  BY <1>36 DEF PurgeOpensSalmonConfig, Goto
<1>37. CASE PurgeWritesSalmonConfig
  BY <1>37 DEF PurgeWritesSalmonConfig, Goto, Strike
<1>38. CASE RttFinds
  BY <1>38 DEF RttFinds
<1>39. CASE RttSaveOpens
  BY <1>39 DEF RttSaveOpens, OpenSConfig
<1>40. CASE RttSaveCloses
  BY <1>40 DEF RttSaveCloses, WriteSConfig
<1>41. CASE ClickWipe
  BY <1>41 DEF ClickWipe, WipeClicked, Idle, Call, AddrsOf
<1>42. CASE DeleteConnectionSettings
  BY <1>42 DEF DeleteConnectionSettings, Goto, AddrsOf
<1>43. CASE WipeSConfig
  BY <1>43 DEF WipeSConfig, Goto
<1>44. CASE WipeSalmonConfig
  BY <1>44 DEF WipeSalmonConfig, ProcessEnds
<1>45. CASE Killed
  BY <1>45 DEF Killed, ProcessEnds, AccountOpen, SettingsOpen
<1> QED
  BY <1>1, <1>2, <1>3, <1>4, <1>5, <1>6, <1>7, <1>8, <1>9, <1>10, <1>11, <1>12,
     <1>13, <1>14, <1>15, <1>16, <1>17, <1>18, <1>19, <1>20, <1>21, <1>22, <1>23, <1>24,
     <1>25, <1>26, <1>27, <1>28, <1>29, <1>30, <1>31, <1>32, <1>33, <1>34, <1>35, <1>36,
     <1>37, <1>38, <1>39, <1>40, <1>41, <1>42, <1>43, <1>44, <1>45
  DEF Next, GetSConfig, Login, Attempt, Purge, Rtt, Wipe

----------------------------------------------------------------------------

\* What holds whatever is cut.
ListInv == RememberInv /\ AccountInv /\ GeneratedInv

\* It is an invariant.
LEMMA ListInvariant == Spec => []ListInv
<1>1. Init => ListInv
  BY DEF Init, ListInv, RememberInv, AccountInv, GeneratedInv, FreshInv, SavedAt, KnownAt,
         GeneratedAt, Knows, Saved, OfAccount, Generated, Swept, GateAtHand, NoEntries,
         NoAccount, AccountOpen
<1>2. (StoreInv /\ TwinsInv) /\ ListInv /\ [Next]_vars => ListInv'
  <2> SUFFICES ASSUME StoreInv, TwinsInv, ListInv, [Next]_vars
               PROVE  ListInv'
    OBVIOUS
  <2>1. FreshInv' /\ AccountInv'
    BY FreshStep, AccountStep DEF ListInv, RememberInv
  <2>2. \A x \in Addresses : SavedAt(x)' /\ KnownAt(x)'
    BY RememberStep DEF ListInv, RememberInv
  <2>3. \A x \in Addresses : GeneratedAt(x)'
    BY GeneratedStep DEF ListInv, GeneratedInv
  <2> QED
    BY <2>1, <2>2, <2>3 DEF ListInv, RememberInv, GeneratedInv
<1> QED
  BY <1>1, <1>2, StoreInvariant, PTL DEF Spec

\* The account's servers stay in what an attempt reads.
LEMMA HeldInvariant == Spec => []HeldInv
<1>1. Init => HeldInv
  BY DEF Init, HeldInv, HeldAt, OfAccount, NoAccount
<1>2. (StoreInv /\ TwinsInv) /\ ListInv /\ HeldInv /\ [Next]_vars => HeldInv'
  BY CutGrows, HeldStep DEF HeldInv, ListInv, RememberInv
<1> QED
  BY <1>1, <1>2, StoreInvariant, ListInvariant, PTL DEF Spec

\* Saving and reading in, by threads that do not wait for each other, forget no
\* server: what is known when all is at rest is in SConfig.txt or was purged there,
\* and who is about to rewrite the file (writeSConfigFromKnownServers) has all of it
\* in memory.
THEOREM NothingIsForgotten == Spec => []NothingForgotten
<1>1. ListInv => NothingForgotten
  <2> SUFFICES ASSUME ListInv
               PROVE  NothingForgotten
    OBVIOUS
  <2> USE DEF ListInv, RememberInv, Knows, Saved, AddrsOf
  <2>1. KnownIsSaved
    BY DEF KnownIsSaved, Resting, Idle, SavedAt, Truncated, Saving, GateAtHand
  <2>2. SaveKeepsAll
    BY DEF SaveKeepsAll, KnownAt, Swept, Generated
  <2> QED
    BY <2>1, <2>2 DEF NothingForgotten
<1> QED
  BY <1>1, ListInvariant, PTL

\* A sweep knows every server of the account, whatever a kill has left of SConfig.txt,
\* but for a kill between the two halves of purgeServer, and but for one that was tried
\* as a VPN Gate server: if it does not work it is erased from the list, which the RTT
\* thread may save before the next attempt reads it in.
THEOREM AccountIsKnown == Spec => []AccountServersKnown
<1>1. AccountInv /\ HeldInv => AccountServersKnown
  BY StoreAssumption
     DEF HeldInv, HeldAt, AccountInv, OfAccount, Knows, Unread, AccountServersKnown, AddrsOf,
         Both
<1>2. ListInv => AccountInv
  BY DEF ListInv
<1> QED
  BY <1>1, <1>2, ListInvariant, HeldInvariant, PTL

\* Every server that a sweep may dial has its connection setting, but for a kill while
\* the settings of a saved list are created (createConnectionSetting), or after they
\* have been deleted.
THEOREM SettingsAreKept == Spec => []SettingsSurvive
<1>1. Init => SettingsInv
  BY DEF Init, SettingsInv, SettingAt, Knows, Saved, OfAccount, NoEntries, NoAccount
<1>2. (StoreInv /\ TwinsInv) /\ ListInv /\ QuietInv /\ SettingsInv /\ [Next]_vars =>
        SettingsInv'
  BY CutGrows, SettingStep
     DEF SettingsInv, ListInv, RememberInv, GeneratedInv, QuietInv
<1>3. SettingsInv => SettingsSurvive
  BY DEF SettingsInv, SettingAt, Generated, Knows, AddrsOf, SettingsSurvive
<1> QED
  BY <1>1, <1>2, <1>3, StoreInvariant, ListInvariant, QuietInvariant, PTL DEF Spec

\* A wipe empties both files and deletes the setting of every server that was known
\* when it was clicked, but for those purged before, unless a kill has cut a purge in
\* two or the RTT thread saves the list once more, and with the same exception.
THEOREM WipeIsThorough == Spec => []WipeForgets
<1> DEFINE Gone == "wipe" \notin cut => GoneInv
<1>1. Init => Gone /\ WipedInv
  BY DEF Init, GoneInv, WipedInv, WipedAt
<1>2. (StoreInv /\ TwinsInv) /\ QuietInv /\ Gone /\ [Next]_vars => Gone'
  BY CutGrows, GoneStep DEF QuietInv
<1>3. (StoreInv /\ TwinsInv) /\ ListInv /\ QuietInv /\ HeldInv /\ Gone /\ WipedInv /\ [Next]_vars =>
        WipedInv'
  BY CutGrows, WipedStep DEF WipedInv, ListInv, RememberInv, QuietInv, HeldInv
<1>4. Gone /\ WipedInv /\ (StoreInv /\ TwinsInv) => WipeForgets
  BY DEF GoneInv, WipedInv, WipedAt, WipeForgets, StoreInv, LocalsTyped, Both
<1>5. Spec => []HeldInv
  BY HeldInvariant
<1> QED
  BY <1>1, <1>2, <1>3, <1>4, <1>5, StoreInvariant, ListInvariant, QuietInvariant, PTL DEF Spec
===============================================================================
