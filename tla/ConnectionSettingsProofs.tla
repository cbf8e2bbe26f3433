----------------------- MODULE ConnectionSettingsProofs -----------------------
(***************************************************************************)
(* Proofs about ConnectionSettings: however SoftEther delays and reorders  *)
(* the commands, a dial has what has been waited for, and no field that it *)
(* should have has been forgotten or lost.                                 *)
(***************************************************************************)
EXTENDS ConnectionSettings, Naturals, TLAPS

\* The commands whose effect a dial relies on, beyond those waited for before them.
Needed == {"cert", "auth", "place"} \cup (IF kind = "Salmon" THEN {"user"} ELSE {})

\* A command that is still to be given.
Due(c) == \E i \in 1 .. Len(todo) : todo[i] = c

\* Until the setting is wiped, nothing that it has is lost; what has been waited for is
\* there, and what has not is there, on its way or still to be given. Once the setting is
\* made nothing is left to be given, and only then is it dialled.
GivenInv ==
  /\ "delete" \notin pending
  /\ pc \in {"correcting", "made"} => {"exists", "certOn"} \subseteq setting
  /\ pc = "correcting" => \A c \in Needed : c \in setting \cup pending \/ Due(c)
  /\ pc = "made" => Awaited \subseteq setting /\ Needed \subseteq setting \cup pending
  /\ "connect" \in pending => pc = "made"
  /\ \A i \in 1 .. Len(todo) : todo[i] # "connect" /\ todo[i] # "delete"
  /\ DialledAsWanted

SettingInv == ~wiped => GivenInv

----------------------------------------------------------------------------

\* What is given at once is a sequence of commands.
LEMMA CommandSequences ==
  /\ <<>> \in Seq(Commands)
  /\ <<"cert", "auth", "user", "place">> \in Seq(Commands)
  /\ <<"cert", "auth", "place">> \in Seq(Commands)
  /\ <<"auth", "user">> \in Seq(Commands)
<1>1. {"cert", "auth", "user", "place"} \subseteq Commands
  BY DEF Commands, Fields
<1> QED
  BY <1>1

\* Every reachable state is well typed.
LEMMA Typing == Spec => []TypeOK
<1>1. Init => TypeOK
  <2> SUFFICES ASSUME Init PROVE TypeOK
    OBVIOUS
  <2>1. setting \subseteq Fields
    BY DEF Init
  <2>2. todo \in Seq(Commands)
    BY DEF Init
  <2> QED
    BY <2>1, <2>2 DEF Init, TypeOK
<1>2. TypeOK /\ [Next]_vars => TypeOK'
  <2> SUFFICES ASSUME TypeOK, [Next]_vars
               PROVE  TypeOK'
    OBVIOUS
  <2> USE DEF TypeOK, Give
  <2>1. CASE UNCHANGED vars
    BY <2>1 DEF vars
  <2>2. CASE Make
    <3>1. CASE AccountCreate \/ EnableCerts
      BY <3>1 DEF AccountCreate, EnableCerts, Commands, Fields
    <3>2. CASE SeeCertsEnabled
      <4>1. todo' \in Seq(Commands)
        BY <3>2, CommandSequences DEF SeeCertsEnabled, Corrections
      <4> QED
        BY <3>2, <4>1 DEF SeeCertsEnabled
    <3>3. CASE Correct
      <4>1. Head(todo) \in Commands /\ Tail(todo) \in Seq(Commands)
        BY <3>3 DEF Correct
      <4> QED
        BY <3>3, <4>1 DEF Correct
    <3>4. CASE CheckName
      <4>1. todo' \in Seq(Commands)
        BY <3>4, CommandSequences DEF CheckName, NameAgain
      <4> QED
        BY <3>4, <4>1 DEF CheckName, NameAgain
    <3> QED
      BY <2>2, <3>1, <3>2, <3>3, <3>4 DEF Make
  <2>3. ASSUME NEW c \in Commands, TakeEffect(c)
        PROVE  TypeOK'
    BY <2>3 DEF TakeEffect, After, Commands, Fields
  <2>4. CASE AccountConnect \/ AccountDelete
    BY <2>4 DEF AccountConnect, AccountDelete, Commands
  <2> QED
    BY <2>1, <2>2, <2>3, <2>4 DEF Next
<1> QED
  BY <1>1, <1>2, PTL DEF Spec

\* Each step keeps what a dial relies on.
LEMMA SettingInvStep ==
  ASSUME TypeOK, TypeOK', SettingInv, [Next]_vars, ~wiped'
  PROVE  GivenInv'
<1>1. wiped => wiped'
  <2>1. CASE Make
    BY <2>1 DEF Make, AccountCreate, EnableCerts, SeeCertsEnabled, Correct, CheckName
  <2>2. CASE ~Make
    BY <2>2 DEF Next, vars, TakeEffect, AccountConnect, AccountDelete
  <2> QED
    BY <2>1, <2>2
<1>0. ~wiped /\ GivenInv
  BY <1>1 DEF SettingInv
<1> USE <1>0 DEF TypeOK, GivenInv, Needed, Due, Give, DialledAsWanted, Wanted, Awaited
<1>2. CASE UNCHANGED vars
  BY <1>2 DEF vars
<1>3. CASE AccountCreate
  BY <1>3 DEF AccountCreate
<1>4. CASE EnableCerts
  BY <1>4 DEF EnableCerts
<1>5. CASE SeeCertsEnabled
  <2>1. /\ pc' = "correcting"
        /\ {"exists", "certOn"} \subseteq setting
        /\ UNCHANGED <<kind, setting, pending, wiped, dialled>>
        /\ todo' = Corrections(kind)
    BY <1>5 DEF SeeCertsEnabled, CertsEnabled
  <2>2. CASE kind = "Salmon"
    <3>1. todo' = <<"cert", "auth", "user", "place">>
      BY <2>1, <2>2 DEF Corrections
    <3>2. /\ Len(todo') = 4
          /\ todo'[1] = "cert" /\ todo'[2] = "auth"
          /\ todo'[3] = "user" /\ todo'[4] = "place"
      BY <3>1
    <3>3. \A c \in Needed' : Due(c)'
      <4>1. 1 \in 1 .. 4 /\ 2 \in 1 .. 4 /\ 3 \in 1 .. 4 /\ 4 \in 1 .. 4
        OBVIOUS
      <4>2. Needed' = {"cert", "auth", "user", "place"}
        BY <2>1, <2>2
      <4> HIDE DEF Needed
      <4> QED
        BY <3>2, <4>1, <4>2
    <3>4. \A i \in 1 .. Len(todo') : todo'[i] # "connect" /\ todo'[i] # "delete"
      BY <3>1
    <3> QED
      BY <1>5, <2>1, <3>3, <3>4 DEF SeeCertsEnabled
  <2>3. CASE kind # "Salmon"
    <3>1. todo' = <<"cert", "auth", "place">>
      BY <2>1, <2>3 DEF Corrections
    <3>2. /\ Len(todo') = 3
          /\ todo'[1] = "cert" /\ todo'[2] = "auth" /\ todo'[3] = "place"
      BY <3>1
    <3> QED
      BY <1>5, <2>1, <2>3, <3>2 DEF SeeCertsEnabled
  <2> QED
    BY <2>2, <2>3
<1>6. CASE Correct
  <2>1. /\ pc = "correcting" /\ pc' = pc
        /\ todo # <<>> /\ todo' = Tail(todo)
        /\ pending' = pending \cup {Head(todo)}
        /\ UNCHANGED <<kind, setting, wiped, dialled>>
    BY <1>6 DEF Correct
  <2>2. /\ Len(todo) >= 1 /\ Head(todo) = todo[1]
        /\ Len(todo') = Len(todo) - 1
        /\ \A i \in 1 .. Len(todo') : todo'[i] = todo[i + 1]
    BY <2>1
  <2>3. Head(todo) \notin {"connect", "delete"}
    BY <2>2
  <2>4. \A i \in 1 .. Len(todo') : todo'[i] # "connect" /\ todo'[i] # "delete"
    BY <2>2
  <2>5. ASSUME NEW c \in Needed, Due(c)
        PROVE  c \in pending' \/ Due(c)'
    <3>1. PICK i \in 1 .. Len(todo) : todo[i] = c
      BY <2>5
    <3>2. CASE i = 1
      BY <2>1, <2>2, <3>1, <3>2
    <3>3. CASE i # 1
      <4>1. i - 1 \in 1 .. Len(todo') /\ todo'[i - 1] = c
        BY <2>2, <3>1, <3>3
      <4> QED
        BY <4>1
    <3> QED
      BY <3>2, <3>3
  <2>6. \A c \in Needed' : c \in setting' \cup pending' \/ Due(c)'
    <3>1. Needed' = Needed
      BY <2>1
    <3> HIDE DEF Needed, Due
    <3> QED
      BY <2>1, <2>5, <3>1
  <2> QED
    BY <2>1, <2>3, <2>4, <2>6
<1>7. CASE CheckName
  <2>1. /\ pc = "correcting"
        /\ todo = <<>>
        /\ UNCHANGED <<kind, setting, pending, wiped, dialled>>
        /\ \/ pc' = "made" /\ todo' = todo
           \/ pc' = pc /\ todo' = <<"auth", "user">>
    BY <1>7 DEF CheckName, NameAgain
  <2>2. \A c \in Needed : c \in setting \cup pending
    <3>1. Len(todo) = 0
      BY <2>1
    <3> QED
      BY <2>1, <3>1
  <2>3. \A i \in 1 .. Len(todo') : todo'[i] # "connect" /\ todo'[i] # "delete"
    BY <2>1
  <2>4. pc' = "made" => Awaited \subseteq setting
    BY <1>7 DEF CheckName, NameAgain
  <2>5. Awaited' = Awaited /\ Needed' = Needed /\ Wanted' = Wanted
    BY <2>1
  <2> HIDE DEF Awaited, Needed, Wanted
  <2> QED
    BY <2>1, <2>2, <2>3, <2>4, <2>5
<1>8. ASSUME NEW c \in Commands, TakeEffect(c)
      PROVE  GivenInv'
  BY <1>8 DEF TakeEffect, After, Commands, Fields
<1>9. CASE AccountConnect
  BY <1>9 DEF AccountConnect
<1>10. ~AccountDelete
  BY DEF AccountDelete
<1> QED
  BY <1>2, <1>3, <1>4, <1>5, <1>6, <1>7, <1>8, <1>9, <1>10 DEF Next, Make

\* Whatever was in the setting before, and whenever SoftEther takes the commands, no dial
\* comes before what has been waited for, and what it lacks of the certificate, the
\* log-in and the address has been asked for and is still on its way: it may be dialled
\* without them, but nothing is forgotten or lost.
THEOREM DialsTheWantedSetting == Spec => []DialledAsWanted
<1>1. Init => SettingInv
  BY DEF Init, SettingInv, GivenInv, DialledAsWanted
<1>2. TypeOK /\ TypeOK' /\ SettingInv /\ [Next]_vars => SettingInv'
  BY SettingInvStep DEF SettingInv
<1>3. SettingInv => DialledAsWanted
  BY DEF SettingInv, GivenInv, DialledAsWanted
<1> QED
  BY <1>1, <1>2, <1>3, Typing, PTL DEF Spec

===============================================================================
