---------------------- MODULE ConnectionControlProofs ----------------------
(***************************************************************************)
(* Proofs about ConnectionControl, for any number of attempt threads,      *)
(* servers, session losses and restarts: first for users of any patience,  *)
(* then for those who wait for an attempt to end before the next.          *)
(***************************************************************************)
EXTENDS ConnectionControl, TLAPS

\* Who is where in its section is who owns the mutex. AttemptsExclusive alone is
\* not inductive: it does not say that the mutex is taken.
MutexInv ==
  /\ \A t \in Threads : pc[t] \in AttemptSection <=> gConnectionStateMutex = t
  /\ monitorPc \in MonitorSection <=> gConnectionStateMutex = Monitor

\* The groups of unchanged variables, opened in every step below.
USE DEF Addresses, Elsewhere, flags, conn, gui, attempt, softEther, history, GoOn, bounds

----------------------------------------------------------------------------

\* Every reachable state is well typed: no thread's program counter, local or
\* shared global ever leaves the values the code can give it.
THEOREM Typing == Spec => []TypeOK
<1>1. Init => TypeOK
  <2> SUFFICES ASSUME Init PROVE TypeOK
    OBVIOUS
  <2>1. SharedTypeOK
    BY DEF Init, SharedTypeOK, MonitorPc
  <2>2. AttemptTypeOK
    BY DEF Init, AttemptTypeOK, AttemptPc
  <2>3. OutsideTypeOK
    BY DEF Init, OutsideTypeOK
  <2> QED
    BY <2>1, <2>2, <2>3 DEF TypeOK
<1>2. TypeOK /\ [Next]_vars => TypeOK'
  <2> SUFFICES ASSUME TypeOK, [Next]_vars
               PROVE  TypeOK'
    OBVIOUS
  <2> USE DEF TypeOK, SharedTypeOK, AttemptTypeOK, OutsideTypeOK, MonitorPc, MonitorSection, AttemptPc, AttemptSection
  <2>1. CASE UNCHANGED vars
    BY <2>1 DEF vars
  <2>2. CASE \E t \in Threads : ClickConnect(t)
    BY <2>2 DEF ClickConnect, Spawn
  <2>3. CASE ClickCancel
    <3>1. SharedTypeOK'
      BY <2>3 DEF ClickCancel
    <3>2. AttemptTypeOK'
      BY <2>3 DEF ClickCancel
    <3>3. OutsideTypeOK'
      BY <2>3 DEF ClickCancel
    <3> QED
      BY <3>1, <3>2, <3>3
  <2>4. CASE ClickDisconnect
    <3>1. SharedTypeOK'
      BY <2>4 DEF ClickDisconnect
    <3>2. AttemptTypeOK'
      BY <2>4 DEF ClickDisconnect
    <3>3. OutsideTypeOK'
      BY <2>4 DEF ClickDisconnect
    <3> QED
      BY <3>1, <3>2, <3>3
  <2>5. CASE DisconnectVPN
    <3>1. SharedTypeOK'
      BY <2>5 DEF DisconnectVPN, AccountDisconnect
    <3>2. AttemptTypeOK'
      BY <2>5 DEF DisconnectVPN, AccountDisconnect
    <3>3. OutsideTypeOK'
      BY <2>5 DEF DisconnectVPN, AccountDisconnect
    <3> QED
      BY <3>1, <3>2, <3>3
  <2>6. CASE DisconnectClearsFlag
    <3>1. SharedTypeOK'
      BY <2>6 DEF DisconnectClearsFlag
    <3>2. AttemptTypeOK'
      BY <2>6 DEF DisconnectClearsFlag
    <3>3. OutsideTypeOK'
      BY <2>6 DEF DisconnectClearsFlag
    <3> QED
      BY <3>1, <3>2, <3>3
  <2>7. CASE MonitorWake
    BY <2>7 DEF MonitorWake, MonitorGoto
  <2>8. CASE MonitorAcquire
    BY <2>8 DEF MonitorAcquire, MonitorGoto
  <2>9. CASE MonitorCheck
    BY <2>9 DEF MonitorCheck, MonitorGoto
  <2>10. CASE MonitorStore
    BY <2>10 DEF MonitorStore
  <2>11. CASE MonitorTest
    BY <2>11 DEF MonitorTest, MonitorGoto
  <2>12. CASE MonitorShow
    BY <2>12 DEF MonitorShow, MonitorGoto
  <2>13. CASE MonitorRearm
    <3>1. SharedTypeOK'
      BY <2>13 DEF MonitorRearm, MonitorGoto
    <3>2. AttemptTypeOK'
      BY <2>13 DEF MonitorRearm, MonitorGoto
    <3>3. OutsideTypeOK'
      BY <2>13 DEF MonitorRearm, MonitorGoto
    <3> QED
      BY <3>1, <3>2, <3>3
  <2>14. CASE MonitorUnlock
    BY <2>14 DEF MonitorUnlock, MonitorGoto
  <2>15. CASE \E t \in Threads : MonitorSpawn(t)
    BY <2>15 DEF MonitorSpawn, MonitorGoto, Spawn
  <2>16. CASE \E t \in Threads : Acquire(t)
    BY <2>16 DEF Acquire, Goto
  <2>17. CASE \E t \in Threads : ReadConfig(t)
    BY <2>17 DEF ReadConfig, Goto
  <2>18. CASE \E t \in Threads : NextServer(t)
    <3>1. SharedTypeOK'
      BY <2>18 DEF NextServer, Goto, TakeUp
    <3>2. AttemptTypeOK'
      <4>1. pc' \in [Threads -> AttemptPc]
        BY <2>18 DEF NextServer, Goto, TakeUp
      <4>2. todo' \in [Threads -> SUBSET Addresses] /\ target' \in [Threads -> Addresses \cup {NoServer}]
        BY <2>18 DEF NextServer, Goto, TakeUp
      <4>3. secondTry' \in [Threads -> BOOLEAN]
        BY <2>18 DEF NextServer, Goto, TakeUp
      <4> QED
        BY <4>1, <4>2, <4>3, <2>18 DEF NextServer, Goto, TakeUp
    <3>3. OutsideTypeOK'
      BY <2>18 DEF NextServer, Goto, TakeUp
    <3> QED
      BY <3>1, <3>2, <3>3
  <2>19. CASE \E t \in Threads : AllTried(t)
    BY <2>19 DEF AllTried, Jump, Goto
  <2>20. CASE \E t \in Threads : GiveUp(t)
    BY <2>20 DEF GiveUp, Goto
  <2>21. CASE \E t \in Threads : Dial(t)
    <3>1. SharedTypeOK'
      BY <2>21 DEF Dial, Goto, AccountConnect, AccountDisconnect
    <3>2. AttemptTypeOK'
      BY <2>21 DEF Dial, Goto, AccountConnect, AccountDisconnect
    <3>3. OutsideTypeOK'
      <4>1. previousAddr' \in Addresses \cup {NoServer} /\ account' \in Addresses \cup {NoServer}
        BY <2>21 DEF Dial, Goto, AccountConnect, AccountDisconnect
      <4>2. linkUp' \in BOOLEAN
        BY <2>21 DEF Dial, Goto, AccountConnect, AccountDisconnect
      <4> QED
        BY <4>1, <4>2, <2>21 DEF Dial, Goto, AccountConnect, AccountDisconnect
    <3> QED
      BY <3>1, <3>2, <3>3
  <2>22. CASE \E t \in Threads : Poll(t)
    BY <2>22 DEF Poll, Jump, Goto
  <2>23. CASE \E t \in Threads : Won(t)
    BY <2>23 DEF Won, Goto
  <2>24. CASE \E t \in Threads : WonAddr(t)
    BY <2>24 DEF WonAddr, Goto
  <2>25. CASE \E t \in Threads : Hangup(t)
    <3>1. SharedTypeOK'
      BY <2>25 DEF Hangup, Goto, AccountDisconnect
    <3>2. AttemptTypeOK'
      BY <2>25 DEF Hangup, Goto, AccountDisconnect
    <3>3. OutsideTypeOK'
      BY <2>25 DEF Hangup, Goto, AccountDisconnect
    <3> QED
      BY <3>1, <3>2, <3>3
  <2>26. CASE \E t \in Threads : InternetThenRetry(t)
    BY <2>26 DEF InternetThenRetry, Goto
  <2>27. CASE \E t \in Threads : InternetThenTried(t)
    BY <2>27 DEF InternetThenTried, Jump, Goto
  <2>28. CASE \E t \in Threads : NoInternet(t)
    BY <2>28 DEF NoInternet, Goto
  <2>29. CASE \E t \in Threads : Decide(t)
    BY <2>29 DEF Decide, Jump, Goto
  <2>30. CASE \E t \in Threads : NeedBox(t)
    BY <2>30 DEF NeedBox, Jump, Goto
  <2>31. CASE \E t \in Threads : NeedGotNone(t)
    BY <2>31 DEF NeedGotNone, Jump, Goto
  <2>32. CASE \E t \in Threads : NeedGotSalmon(t)
    BY <2>32 DEF NeedGotSalmon, Goto
  <2>33. CASE \E t \in Threads : NeedGotGates(t)
    BY <2>33 DEF NeedGotGates, Goto
  <2>34. CASE \E t \in Threads : NextGate(t)
    BY <2>34 DEF NextGate, Goto, TakeUp
  <2>35. CASE \E t \in Threads : GateLost(t)
    BY <2>35 DEF GateLost, Goto
  <2>36. CASE \E t \in Threads : Sorry(t)
    BY <2>36 DEF Sorry, Jump, Goto
  <2>37. CASE \E t \in Threads : EndAttempt(t)
    <3>1. SharedTypeOK'
      BY <2>37 DEF EndAttempt, Goto
    <3>2. AttemptTypeOK'
      BY <2>37 DEF EndAttempt, Goto
    <3>3. OutsideTypeOK'
      BY <2>37 DEF EndAttempt, Goto
    <3> QED
      BY <3>1, <3>2, <3>3
  <2>38. CASE \E t \in Threads : EndShow(t)
    BY <2>38 DEF EndShow, Goto
  <2>39. CASE \E t \in Threads : Release(t)
    BY <2>39 DEF Release, Goto
  <2>40. CASE \E t \in Threads : RttSaves(t)
    BY <2>40 DEF RttSaves
  <2>41. CASE LinkUp
    BY <2>41 DEF LinkUp
  <2>42. CASE DialExpires
    BY <2>42 DEF DialExpires
  <2>43. CASE LinkDown
    <3>1. SharedTypeOK'
      BY <2>43 DEF LinkDown
    <3>2. AttemptTypeOK'
      BY <2>43 DEF LinkDown
    <3>3. OutsideTypeOK'
      <4>1. previousAddr' \in Addresses \cup {NoServer} /\ account' \in Addresses \cup {NoServer}
        BY <2>43 DEF LinkDown
      <4>2. linkUp' \in BOOLEAN
        BY <2>43 DEF LinkDown
      <4>3. drops' \in Nat /\ restarts' \in Nat
        BY <2>43 DEF LinkDown
      <4> QED
        BY <4>1, <4>2, <4>3
    <3> QED
      BY <3>1, <3>2, <3>3
  <2>44. CASE Restart
    <3>1. SharedTypeOK'
      BY <2>44 DEF Restart
    <3>2. AttemptTypeOK'
      BY <2>44 DEF Restart
    <3>3. OutsideTypeOK'
      BY <2>44 DEF Restart
    <3> QED
      BY <3>1, <3>2, <3>3
  <2> QED
    BY <2>1, <2>2, <2>3, <2>4, <2>5, <2>6, <2>7, <2>8, <2>9, <2>10, <2>11, <2>12, <2>13,
       <2>14, <2>15, <2>16, <2>17, <2>18, <2>19, <2>20, <2>21, <2>22, <2>23, <2>24,
       <2>25, <2>26, <2>27, <2>28, <2>29, <2>30, <2>31, <2>32, <2>33, <2>34, <2>35,
       <2>36, <2>37, <2>38, <2>39, <2>40, <2>41, <2>42, <2>43, <2>44
       DEF Next, Gui, MonitorStep, AttemptStep
<1> QED
  BY <1>1, <1>2, PTL DEF Spec

\* The inductive invariant of the mutex.
LEMMA MutexInvariant == Spec => []MutexInv
<1>1. Init => MutexInv
  BY ThreadsAssumption DEF Init, MutexInv, MonitorSection, AttemptSection
<1>2. TypeOK /\ MutexInv /\ [Next]_vars => MutexInv'
  <2> SUFFICES ASSUME TypeOK, MutexInv, [Next]_vars
               PROVE  MutexInv'
    OBVIOUS
  <2> USE ThreadsAssumption DEF TypeOK, SharedTypeOK, AttemptTypeOK, OutsideTypeOK, MutexInv, MonitorPc, MonitorSection, AttemptPc, AttemptSection
  <2>1. CASE UNCHANGED vars
    BY <2>1 DEF vars
  <2>2. CASE \E t \in Threads : ClickConnect(t)
    BY <2>2 DEF ClickConnect, Spawn
  <2>3. CASE ClickCancel
    BY <2>3 DEF ClickCancel
  <2>4. CASE ClickDisconnect
    BY <2>4 DEF ClickDisconnect
  <2>5. CASE DisconnectVPN
    BY <2>5 DEF DisconnectVPN, AccountDisconnect
  <2>6. CASE DisconnectClearsFlag
    BY <2>6 DEF DisconnectClearsFlag
  <2>7. CASE MonitorWake
    BY <2>7 DEF MonitorWake, MonitorGoto
  <2>8. CASE MonitorAcquire
    BY <2>8 DEF MonitorAcquire, MonitorGoto
  <2>9. CASE MonitorCheck
    BY <2>9 DEF MonitorCheck, MonitorGoto
  <2>10. CASE MonitorStore
    BY <2>10 DEF MonitorStore
  <2>11. CASE MonitorTest
    BY <2>11 DEF MonitorTest, MonitorGoto
  <2>12. CASE MonitorShow
    BY <2>12 DEF MonitorShow, MonitorGoto
  <2>13. CASE MonitorRearm
    BY <2>13 DEF MonitorRearm, MonitorGoto
  <2>14. CASE MonitorUnlock
    BY <2>14 DEF MonitorUnlock, MonitorGoto
  <2>15. CASE \E t \in Threads : MonitorSpawn(t)
    BY <2>15 DEF MonitorSpawn, MonitorGoto, Spawn
  <2>16. CASE \E t \in Threads : Acquire(t)
    BY <2>16 DEF Acquire, Goto
  <2>17. CASE \E t \in Threads : ReadConfig(t)
    BY <2>17 DEF ReadConfig, Goto
  <2>18. CASE \E t \in Threads : NextServer(t)
    BY <2>18 DEF NextServer, Goto, TakeUp
  <2>19. CASE \E t \in Threads : AllTried(t)
    BY <2>19 DEF AllTried, Jump, Goto
  <2>20. CASE \E t \in Threads : GiveUp(t)
    BY <2>20 DEF GiveUp, Goto
  <2>21. CASE \E t \in Threads : Dial(t)
    BY <2>21 DEF Dial, Goto, AccountConnect, AccountDisconnect
  <2>22. CASE \E t \in Threads : Poll(t)
    BY <2>22 DEF Poll, Jump, Goto
  <2>23. CASE \E t \in Threads : Won(t)
    BY <2>23 DEF Won, Goto
  <2>24. CASE \E t \in Threads : WonAddr(t)
    BY <2>24 DEF WonAddr, Goto
  <2>25. CASE \E t \in Threads : Hangup(t)
    BY <2>25 DEF Hangup, Goto, AccountDisconnect
  <2>26. CASE \E t \in Threads : InternetThenRetry(t)
    BY <2>26 DEF InternetThenRetry, Goto
  <2>27. CASE \E t \in Threads : InternetThenTried(t)
    BY <2>27 DEF InternetThenTried, Jump, Goto
  <2>28. CASE \E t \in Threads : NoInternet(t)
    BY <2>28 DEF NoInternet, Goto
  <2>29. CASE \E t \in Threads : Decide(t)
    BY <2>29 DEF Decide, Jump, Goto
  <2>30. CASE \E t \in Threads : NeedBox(t)
    BY <2>30 DEF NeedBox, Jump, Goto
  <2>31. CASE \E t \in Threads : NeedGotNone(t)
    BY <2>31 DEF NeedGotNone, Jump, Goto
  <2>32. CASE \E t \in Threads : NeedGotSalmon(t)
    BY <2>32 DEF NeedGotSalmon, Goto
  <2>33. CASE \E t \in Threads : NeedGotGates(t)
    BY <2>33 DEF NeedGotGates, Goto
  <2>34. CASE \E t \in Threads : NextGate(t)
    BY <2>34 DEF NextGate, Goto, TakeUp
  <2>35. CASE \E t \in Threads : GateLost(t)
    BY <2>35 DEF GateLost, Goto
  <2>36. CASE \E t \in Threads : Sorry(t)
    BY <2>36 DEF Sorry, Jump, Goto
  <2>37. CASE \E t \in Threads : EndAttempt(t)
    BY <2>37 DEF EndAttempt, Goto
  <2>38. CASE \E t \in Threads : EndShow(t)
    BY <2>38 DEF EndShow, Goto
  <2>39. CASE \E t \in Threads : Release(t)
    BY <2>39 DEF Release, Goto
  <2>40. CASE \E t \in Threads : RttSaves(t)
    BY <2>40 DEF RttSaves
  <2>41. CASE LinkUp
    BY <2>41 DEF LinkUp
  <2>42. CASE DialExpires
    BY <2>42 DEF DialExpires
  <2>43. CASE LinkDown
    BY <2>43 DEF LinkDown
  <2>44. CASE Restart
    BY <2>44 DEF Restart
  <2> QED
    BY <2>1, <2>2, <2>3, <2>4, <2>5, <2>6, <2>7, <2>8, <2>9, <2>10, <2>11, <2>12, <2>13,
       <2>14, <2>15, <2>16, <2>17, <2>18, <2>19, <2>20, <2>21, <2>22, <2>23, <2>24,
       <2>25, <2>26, <2>27, <2>28, <2>29, <2>30, <2>31, <2>32, <2>33, <2>34, <2>35,
       <2>36, <2>37, <2>38, <2>39, <2>40, <2>41, <2>42, <2>43, <2>44
       DEF Next, Gui, MonitorStep, AttemptStep
<1> QED
  BY <1>1, <1>2, Typing, PTL DEF Spec

\* At most one attempt is between taking and releasing gConnectionStateMutex, and
\* none while the monitor checks the connection and decides whether to reconnect.
THEOREM MutualExclusion == Spec => []AttemptsExclusive
<1>1. MutexInv => AttemptsExclusive
  BY ThreadsAssumption DEF MutexInv, AttemptsExclusive
<1> QED
  BY <1>1, MutexInvariant, PTL

\* Between a failed tryConnectAnyServer and the request: the attempt has tried all
\* and trusts its connectivity, or it will see the cancel flag.
JustifiedInv ==
  \A t \in Threads :
    \/ pc[t] = "decide" /\ ~gCancelConnectionAttempt
    \/ pc[t] \in {"needBox", "needWait"}
    => todo[t] = {} /\ okToNeedServer[t]

\* If the user does not click Connect while a thread is busy, the directory server
\* is asked for a server only when every known one was tried and none failed for
\* want of internet. The mutex is what keeps the monitor and other attempts from
\* clearing the cancel flag between its two reads.
THEOREM NeedServerOnlyWhenJustified ==
  ~Impatient => (Spec => []NeedServerJustified)
<1> SUFFICES ASSUME ~Impatient
             PROVE  Spec => []NeedServerJustified
  OBVIOUS
<1>1. Init => JustifiedInv
  BY DEF Init, JustifiedInv
<1>2. TypeOK /\ MutexInv /\ JustifiedInv /\ [Next]_vars => JustifiedInv'
  <2> SUFFICES ASSUME TypeOK, MutexInv, JustifiedInv, [Next]_vars
               PROVE  JustifiedInv'
    OBVIOUS
  <2> USE DEF TypeOK, SharedTypeOK, AttemptTypeOK, OutsideTypeOK, JustifiedInv
  <2>1. CASE UNCHANGED vars
    BY <2>1 DEF vars
  <2>2. CASE \E t \in Threads : ClickConnect(t)
    BY <2>2 DEF ClickConnect, Spawn, Busy, AttemptAlive
  <2>3. CASE ClickCancel
    BY <2>3 DEF ClickCancel
  <2>4. CASE ClickDisconnect
    BY <2>4 DEF ClickDisconnect
  <2>5. CASE DisconnectVPN
    BY <2>5 DEF DisconnectVPN, AccountDisconnect
  <2>6. CASE DisconnectClearsFlag
    BY <2>6 DEF DisconnectClearsFlag
  <2>7. CASE MonitorWake
    BY <2>7 DEF MonitorWake, MonitorGoto
  <2>8. CASE MonitorAcquire
    BY <2>8 DEF MonitorAcquire, MonitorGoto
  <2>9. CASE MonitorCheck
    BY <2>9 DEF MonitorCheck, MonitorGoto
  <2>10. CASE MonitorStore
    BY <2>10 DEF MonitorStore
  <2>11. CASE MonitorTest
    BY <2>11 DEF MonitorTest, MonitorGoto
  <2>12. CASE MonitorShow
    BY <2>12 DEF MonitorShow, MonitorGoto
  <2>13. CASE MonitorRearm
    BY <2>13, ThreadsAssumption
    DEF MonitorRearm, MonitorGoto, MutexInv, MonitorSection, AttemptSection
  <2>14. CASE MonitorUnlock
    BY <2>14 DEF MonitorUnlock, MonitorGoto
  <2>15. CASE \E t \in Threads : MonitorSpawn(t)
    BY <2>15 DEF MonitorSpawn, MonitorGoto, Spawn
  <2>16. CASE \E t \in Threads : Acquire(t)
    BY <2>16 DEF Acquire, Goto
  <2>17. CASE \E t \in Threads : ReadConfig(t)
    BY <2>17 DEF ReadConfig, Goto
  <2>18. CASE \E t \in Threads : NextServer(t)
    BY <2>18 DEF NextServer, Goto, TakeUp
  <2>19. CASE \E t \in Threads : AllTried(t)
    BY <2>19 DEF AllTried, Jump, Goto
  <2>20. CASE \E t \in Threads : GiveUp(t)
    BY <2>20 DEF GiveUp, Goto
  <2>21. CASE \E t \in Threads : Dial(t)
    BY <2>21 DEF Dial, Goto, AccountConnect, AccountDisconnect
  <2>22. CASE \E t \in Threads : Poll(t)
    BY <2>22 DEF Poll, Jump, Goto
  <2>23. CASE \E t \in Threads : Won(t)
    BY <2>23 DEF Won, Goto
  <2>24. CASE \E t \in Threads : WonAddr(t)
    BY <2>24 DEF WonAddr, Goto
  <2>25. CASE \E t \in Threads : Hangup(t)
    BY <2>25 DEF Hangup, Goto, AccountDisconnect
  <2>26. CASE \E t \in Threads : InternetThenRetry(t)
    BY <2>26 DEF InternetThenRetry, Goto
  <2>27. CASE \E t \in Threads : InternetThenTried(t)
    BY <2>27 DEF InternetThenTried, Jump, Goto
  <2>28. CASE \E t \in Threads : NoInternet(t)
    BY <2>28 DEF NoInternet, Goto
  <2>29. CASE \E t \in Threads : Decide(t)
    BY <2>29 DEF Decide, Jump, Goto
  <2>30. CASE \E t \in Threads : NeedBox(t)
    BY <2>30 DEF NeedBox, Jump, Goto
  <2>31. CASE \E t \in Threads : NeedGotNone(t)
    BY <2>31 DEF NeedGotNone, Jump, Goto
  <2>32. CASE \E t \in Threads : NeedGotSalmon(t)
    BY <2>32 DEF NeedGotSalmon, Goto
  <2>33. CASE \E t \in Threads : NeedGotGates(t)
    BY <2>33 DEF NeedGotGates, Goto
  <2>34. CASE \E t \in Threads : NextGate(t)
    BY <2>34 DEF NextGate, Goto, TakeUp
  <2>35. CASE \E t \in Threads : GateLost(t)
    BY <2>35 DEF GateLost, Goto
  <2>36. CASE \E t \in Threads : Sorry(t)
    BY <2>36 DEF Sorry, Jump, Goto
  <2>37. CASE \E t \in Threads : EndAttempt(t)
    BY <2>37 DEF EndAttempt, Goto, MutexInv, MonitorSection, AttemptSection
  <2>38. CASE \E t \in Threads : EndShow(t)
    BY <2>38 DEF EndShow, Goto
  <2>39. CASE \E t \in Threads : Release(t)
    BY <2>39 DEF Release, Goto
  <2>40. CASE \E t \in Threads : RttSaves(t)
    BY <2>40 DEF RttSaves
  <2>41. CASE LinkUp
    BY <2>41 DEF LinkUp
  <2>42. CASE DialExpires
    BY <2>42 DEF DialExpires
  <2>43. CASE LinkDown
    BY <2>43 DEF LinkDown
  <2>44. CASE Restart
    BY <2>44 DEF Restart
  <2> QED
    BY <2>1, <2>2, <2>3, <2>4, <2>5, <2>6, <2>7, <2>8, <2>9, <2>10, <2>11, <2>12, <2>13,
       <2>14, <2>15, <2>16, <2>17, <2>18, <2>19, <2>20, <2>21, <2>22, <2>23, <2>24,
       <2>25, <2>26, <2>27, <2>28, <2>29, <2>30, <2>31, <2>32, <2>33, <2>34, <2>35,
       <2>36, <2>37, <2>38, <2>39, <2>40, <2>41, <2>42, <2>43, <2>44
       DEF Next, Gui, MonitorStep, AttemptStep
<1>3. JustifiedInv => NeedServerJustified
  BY DEF JustifiedInv, NeedServerJustified
<1> QED
  BY <1>1, <1>2, <1>3, Typing, MutexInvariant, PTL DEF Spec

----------------------------------------------------------------------------
(* A user who clicks Connect only when the last attempt is over: that the  *)
(* button shown agrees with what the program believes; and, for one        *)
(* session without the monitor, whom Cancel and Disconnect reach.          *)

\* The buttons, whatever the monitor does: a click on Disconnect takes back the wish
\* before it is carried out; what the monitor is about to look at was believed to be
\* connected; and with no attempt under way the button says what is believed, from the
\* moment at which an attempt shows it to the monitor's next look.
ButtonInv ==
  /\ guiPc # "idle" => ~gUserWantsConnection
  /\ monitorPc \in {"wait", "unlock"} /\ gUserWantsConnection => gVPNConnected
  /\ (\A t \in Threads : pc[t] \in {"off", "release"}) /\ gUserWantsConnection =>
       /\ monitorPc \in {"sleep", "wait", "unlock"} =>
            (button = "Disconnect" <=> gVPNConnected)
       /\ monitorPc \in {"check", "seenUp", "seenDown", "test"} => button = "Disconnect"

\* One session, without the monitor.
Steady == ~Impatient /\ ~WithMonitor /\ MaxRestarts = 0

\* Who is alive: one attempt at most, and nobody's buttons are in its way.
OneAttempt ==
  /\ monitorPc = "sleep"
  /\ \A t, u \in Threads : pc[t] # "off" /\ pc[u] # "off" => t = u
  /\ guiPc # "idle" \/ button = "Disconnect" =>
       \A t \in Threads : pc[t] \in {"off", "release"}

\* What the attempt has been told. The flag is only put back when it has ended.
ToldToStop ==
  \A t \in Threads :
    /\ t \in cancelled => pc[t] # "off"
    /\ pc[t] \in AtWork \cup {"start"} =>
         /\ gUserWantsConnection \/ gCancelConnectionAttempt
         /\ t \in cancelled => gCancelConnectionAttempt

Dialling == {"poll", "won", "wonAddr", "hangup"}

\* Whose the adapter is: of the server being dialled, or of the one that the program
\* believes to be connected and whose Disconnect button is, or has been, shown.
AdapterOwned ==
  /\ linkUp => account # NoServer
  /\ \A t \in Threads :
       /\ pc[t] \in Dialling => account \in {NoServer, target[t]}
       /\ pc[t] \in ({"start"} \cup AtWork) \ Dialling => account = NoServer
       /\ pc[t] = "wonAddr" => gVPNConnected
       /\ pc[t] \in {"end", "endShow"} /\ account # NoServer =>
            gVPNConnected /\ gCurrentConnection = account
  /\ (\A t \in Threads : pc[t] \in {"off", "release"}) /\ account # NoServer =>
       gCurrentConnection = account /\ (button = "Disconnect" \/ guiPc = "hangup")

SteadyInv == OneAttempt /\ ToldToStop /\ AdapterOwned

----------------------------------------------------------------------------

\* No step of a patient user, the monitor or an attempt makes the button lie.
LEMMA ButtonStep ==
  ASSUME ~Impatient, TypeOK, MutexInv, ButtonInv, [Next]_vars
  PROVE  ButtonInv'
<1> USE ThreadsAssumption
    DEF TypeOK, SharedTypeOK, AttemptTypeOK, OutsideTypeOK, ButtonInv, MutexInv,
        AttemptSection, AttemptPc, MonitorSection, MonitorPc
<1>1. CASE UNCHANGED vars
  BY <1>1 DEF vars
<1>2. CASE \E t \in Threads : ClickConnect(t)
  BY <1>2 DEF ClickConnect, Spawn, Busy, AttemptAlive
<1>3. CASE ClickCancel
  BY <1>3 DEF ClickCancel
<1>4. CASE ClickDisconnect
  BY <1>4 DEF ClickDisconnect
<1>5. CASE DisconnectVPN
  BY <1>5 DEF DisconnectVPN, AccountDisconnect
<1>6. CASE DisconnectClearsFlag
  BY <1>6 DEF DisconnectClearsFlag
<1>7. CASE MonitorWake
  BY <1>7 DEF MonitorWake, MonitorGoto
<1>8. CASE MonitorAcquire
  BY <1>8 DEF MonitorAcquire, MonitorGoto
<1>9. CASE MonitorCheck
  BY <1>9 DEF MonitorCheck, MonitorGoto
<1>10. CASE MonitorStore
  BY <1>10 DEF MonitorStore
<1>11. CASE MonitorTest
  BY <1>11 DEF MonitorTest, MonitorGoto
<1>12. CASE MonitorShow
  BY <1>12 DEF MonitorShow, MonitorGoto
<1>13. CASE MonitorRearm
  BY <1>13 DEF MonitorRearm, MonitorGoto
<1>14. CASE MonitorUnlock
  BY <1>14 DEF MonitorUnlock, MonitorGoto
<1>15. CASE \E t \in Threads : MonitorSpawn(t)
  BY <1>15 DEF MonitorSpawn, MonitorGoto, Spawn
<1>16. CASE \E t \in Threads : Acquire(t)
  BY <1>16 DEF Acquire, Goto
<1>17. CASE \E t \in Threads : ReadConfig(t)
  BY <1>17 DEF ReadConfig, Goto
<1>18. CASE \E t \in Threads : NextServer(t)
  BY <1>18 DEF NextServer, Goto, TakeUp
<1>19. CASE \E t \in Threads : AllTried(t)
  BY <1>19 DEF AllTried, Jump, Goto
<1>20. CASE \E t \in Threads : GiveUp(t)
  BY <1>20 DEF GiveUp, Goto
<1>21. CASE \E t \in Threads : Dial(t)
  BY <1>21 DEF Dial, Goto, AccountConnect, AccountDisconnect
<1>22. CASE \E t \in Threads : Poll(t)
  BY <1>22 DEF Poll, Jump, Goto
<1>23. CASE \E t \in Threads : Won(t)
  BY <1>23 DEF Won, Goto
<1>24. CASE \E t \in Threads : WonAddr(t)
  BY <1>24 DEF WonAddr, Goto
<1>25. CASE \E t \in Threads : Hangup(t)
  BY <1>25 DEF Hangup, Goto, AccountDisconnect
<1>26. CASE \E t \in Threads : InternetThenRetry(t)
  BY <1>26 DEF InternetThenRetry, Goto
<1>27. CASE \E t \in Threads : InternetThenTried(t)
  BY <1>27 DEF InternetThenTried, Jump, Goto
<1>28. CASE \E t \in Threads : NoInternet(t)
  BY <1>28 DEF NoInternet, Goto
<1>29. CASE \E t \in Threads : Decide(t)
  BY <1>29 DEF Decide, Jump, Goto
<1>30. CASE \E t \in Threads : NeedBox(t)
  BY <1>30 DEF NeedBox, Jump, Goto
<1>31. CASE \E t \in Threads : NeedGotNone(t)
  BY <1>31 DEF NeedGotNone, Jump, Goto
<1>32. CASE \E t \in Threads : NeedGotSalmon(t)
  BY <1>32 DEF NeedGotSalmon, Goto
<1>33. CASE \E t \in Threads : NeedGotGates(t)
  BY <1>33 DEF NeedGotGates, Goto
<1>34. CASE \E t \in Threads : NextGate(t)
  BY <1>34 DEF NextGate, Goto, TakeUp
<1>35. CASE \E t \in Threads : GateLost(t)
  BY <1>35 DEF GateLost, Goto
<1>36. CASE \E t \in Threads : Sorry(t)
  BY <1>36 DEF Sorry, Jump, Goto
<1>37. CASE \E t \in Threads : EndAttempt(t)
  BY <1>37 DEF EndAttempt, Goto
<1>38. CASE \E t \in Threads : EndShow(t)
  BY <1>38 DEF EndShow, Goto
<1>39. CASE \E t \in Threads : Release(t)
  BY <1>39 DEF Release, Goto
<1>40. CASE \E t \in Threads : RttSaves(t)
  BY <1>40 DEF RttSaves
<1>41. CASE LinkUp
  BY <1>41 DEF LinkUp
<1>42. CASE DialExpires
  BY <1>42 DEF DialExpires
<1>43. CASE LinkDown
  BY <1>43 DEF LinkDown
<1>44. CASE Restart
  BY <1>44 DEF Restart
<1> QED
  BY <1>1, <1>2, <1>3, <1>4, <1>5, <1>6, <1>7, <1>8, <1>9, <1>10, <1>11, <1>12,
     <1>13, <1>14, <1>15, <1>16, <1>17, <1>18, <1>19, <1>20, <1>21, <1>22, <1>23, <1>24,
     <1>25, <1>26, <1>27, <1>28, <1>29, <1>30, <1>31, <1>32, <1>33, <1>34, <1>35, <1>36,
     <1>37, <1>38, <1>39, <1>40, <1>41, <1>42, <1>43, <1>44
  DEF Next, Gui, MonitorStep, AttemptStep

\* With a patient user, the button agrees with what the program believes of the
\* connection whenever nothing is going on, monitor and restarts included.
THEOREM ButtonNeverLies == ~Impatient => (Spec => []ButtonAgrees)
<1> SUFFICES ASSUME ~Impatient
             PROVE  Spec => []ButtonAgrees
  OBVIOUS
<1>1. Init => ButtonInv
  BY DEF Init, ButtonInv
<1>2. TypeOK /\ MutexInv /\ ButtonInv /\ [Next]_vars => ButtonInv'
  BY ButtonStep
<1>3. ButtonInv => ButtonAgrees
  BY DEF ButtonInv, ButtonAgrees
<1> QED
  BY <1>1, <1>2, <1>3, Typing, MutexInvariant, PTL DEF Spec

----------------------------------------------------------------------------

\* No step of one session without the monitor breaks its invariant.
LEMMA SteadyStep ==
  ASSUME Steady, TypeOK, SteadyInv, [Next]_vars
  PROVE  SteadyInv'
<1> USE ThreadsAssumption
    DEF Steady, TypeOK, SharedTypeOK, AttemptTypeOK, OutsideTypeOK, SteadyInv,
        OneAttempt, ToldToStop, AdapterOwned, AtWork, AttemptSection, AttemptPc,
        Dialling
<1>1. CASE UNCHANGED vars
  BY <1>1 DEF vars
<1>2. CASE \E t \in Threads : ClickConnect(t)
  BY <1>2 DEF ClickConnect, Spawn, Busy, AttemptAlive
<1>3. CASE ClickCancel
  BY <1>3 DEF ClickCancel
<1>4. CASE ClickDisconnect
  BY <1>4 DEF ClickDisconnect
<1>5. CASE DisconnectVPN
  BY <1>5 DEF DisconnectVPN, AccountDisconnect
<1>6. CASE DisconnectClearsFlag
  BY <1>6 DEF DisconnectClearsFlag
<1>7. CASE MonitorWake
  BY <1>7 DEF MonitorWake, MonitorGoto
<1>8. CASE MonitorAcquire
  BY <1>8 DEF MonitorAcquire, MonitorGoto
<1>9. CASE MonitorCheck
  BY <1>9 DEF MonitorCheck, MonitorGoto
<1>10. CASE MonitorStore
  BY <1>10 DEF MonitorStore
<1>11. CASE MonitorTest
  BY <1>11 DEF MonitorTest, MonitorGoto
<1>12. CASE MonitorShow
  BY <1>12 DEF MonitorShow, MonitorGoto
<1>13. CASE MonitorRearm
  BY <1>13 DEF MonitorRearm, MonitorGoto
<1>14. CASE MonitorUnlock
  BY <1>14 DEF MonitorUnlock, MonitorGoto
<1>15. CASE \E t \in Threads : MonitorSpawn(t)
  BY <1>15 DEF MonitorSpawn, MonitorGoto, Spawn
<1>16. CASE \E t \in Threads : Acquire(t)
  BY <1>16 DEF Acquire, Goto
<1>17. CASE \E t \in Threads : ReadConfig(t)
  BY <1>17 DEF ReadConfig, Goto
<1>18. CASE \E t \in Threads : NextServer(t)
  BY <1>18 DEF NextServer, Goto, TakeUp
<1>19. CASE \E t \in Threads : AllTried(t)
  BY <1>19 DEF AllTried, Jump, Goto
<1>20. CASE \E t \in Threads : GiveUp(t)
  BY <1>20 DEF GiveUp, Goto
<1>21. CASE \E t \in Threads : Dial(t)
  BY <1>21 DEF Dial, Goto, AccountConnect, AccountDisconnect
<1>22. CASE \E t \in Threads : Poll(t)
  BY <1>22 DEF Poll, Jump, Goto
<1>23. CASE \E t \in Threads : Won(t)
  BY <1>23 DEF Won, Goto
<1>24. CASE \E t \in Threads : WonAddr(t)
  BY <1>24 DEF WonAddr, Goto
<1>25. CASE \E t \in Threads : Hangup(t)
  BY <1>25 DEF Hangup, Goto, AccountDisconnect
<1>26. CASE \E t \in Threads : InternetThenRetry(t)
  BY <1>26 DEF InternetThenRetry, Goto
<1>27. CASE \E t \in Threads : InternetThenTried(t)
  BY <1>27 DEF InternetThenTried, Jump, Goto
<1>28. CASE \E t \in Threads : NoInternet(t)
  BY <1>28 DEF NoInternet, Goto
<1>29. CASE \E t \in Threads : Decide(t)
  BY <1>29 DEF Decide, Jump, Goto
<1>30. CASE \E t \in Threads : NeedBox(t)
  BY <1>30 DEF NeedBox, Jump, Goto
<1>31. CASE \E t \in Threads : NeedGotNone(t)
  BY <1>31 DEF NeedGotNone, Jump, Goto
<1>32. CASE \E t \in Threads : NeedGotSalmon(t)
  BY <1>32 DEF NeedGotSalmon, Goto
<1>33. CASE \E t \in Threads : NeedGotGates(t)
  BY <1>33 DEF NeedGotGates, Goto
<1>34. CASE \E t \in Threads : NextGate(t)
  BY <1>34 DEF NextGate, Goto, TakeUp
<1>35. CASE \E t \in Threads : GateLost(t)
  BY <1>35 DEF GateLost, Goto
<1>36. CASE \E t \in Threads : Sorry(t)
  BY <1>36 DEF Sorry, Jump, Goto
<1>37. CASE \E t \in Threads : EndAttempt(t)
  BY <1>37 DEF EndAttempt, Goto
<1>38. CASE \E t \in Threads : EndShow(t)
  BY <1>38 DEF EndShow, Goto
<1>39. CASE \E t \in Threads : Release(t)
  BY <1>39 DEF Release, Goto
<1>40. CASE \E t \in Threads : RttSaves(t)
  BY <1>40 DEF RttSaves
<1>41. CASE LinkUp
  BY <1>41 DEF LinkUp
<1>42. CASE DialExpires
  BY <1>42 DEF DialExpires
<1>43. CASE LinkDown
  BY <1>43 DEF LinkDown
<1>44. CASE Restart
  BY <1>44 DEF Restart
<1> QED
  BY <1>1, <1>2, <1>3, <1>4, <1>5, <1>6, <1>7, <1>8, <1>9, <1>10, <1>11, <1>12,
     <1>13, <1>14, <1>15, <1>16, <1>17, <1>18, <1>19, <1>20, <1>21, <1>22, <1>23, <1>24,
     <1>25, <1>26, <1>27, <1>28, <1>29, <1>30, <1>31, <1>32, <1>33, <1>34, <1>35, <1>36,
     <1>37, <1>38, <1>39, <1>40, <1>41, <1>42, <1>43, <1>44
  DEF Next, Gui, MonitorStep, AttemptStep

\* The invariant of such a session.
LEMMA SteadyAlways == ASSUME Steady PROVE Spec => []SteadyInv
<1>1. Init => SteadyInv
  BY DEF Init, SteadyInv, OneAttempt, ToldToStop, AdapterOwned, AtWork, AttemptSection,
         Dialling
<1>2. TypeOK /\ SteadyInv /\ [Next]_vars => SteadyInv'
  BY SteadyStep
<1> QED
  BY <1>1, <1>2, Typing, PTL DEF Spec

\* An attempt at work that nobody wants any more has been told to stop.
THEOREM UnwantedAreTold == Steady => (Spec => []UnwantedIsCancelled)
<1> SUFFICES ASSUME Steady
             PROVE  Spec => []UnwantedIsCancelled
  OBVIOUS
<1>1. SteadyInv => UnwantedIsCancelled
  BY DEF SteadyInv, ToldToStop, UnwantedIsCancelled
<1> QED
  BY <1>1, SteadyAlways, PTL

\* Disconnect ends the connection that there is.
THEOREM DisconnectMeansIt == Steady => (Spec => []DisconnectHitsConnected)
<1> SUFFICES ASSUME Steady
             PROVE  Spec => []DisconnectHitsConnected
  OBVIOUS
<1>1. SteadyInv => DisconnectHitsConnected
  BY DEF SteadyInv, OneAttempt, AdapterOwned, DisconnectHitsConnected
<1> QED
  BY <1>1, SteadyAlways, PTL

\* Each server is dialled with the adapter free.
THEOREM NothingInTheWay == Steady => (Spec => []AdapterFreeToDial)
<1> SUFFICES ASSUME Steady
             PROVE  Spec => []AdapterFreeToDial
  OBVIOUS
<1>1. SteadyInv => AdapterFreeToDial
  BY DEF SteadyInv, AdapterOwned, AdapterFreeToDial, AtWork, AttemptSection,
         Dialling
<1> QED
  BY <1>1, SteadyAlways, PTL

\* Where an attempt can be that has gone on to dial after its user had cancelled it.
PastLastDial == {"dial", "poll", "won", "wonAddr", "hangup", "net2", "top", "gaveUp",
                 "decide", "gateLost", "end", "endShow", "release"}

\* The last dial is a double check or that of a VPN Gate server, after which the flag is
\* looked at.
HeardAt(t) ==
  /\ pc[t] \in {"gate", "gateLost"} => stage[t] = "gate"
  /\ t \in goneOn => /\ t \in cancelled
                     /\ pc[t] \in PastLastDial
                     /\ pc[t] \in {"dial", "poll", "hangup"} => stage[t] = "gate" \/ secondTry[t]

HeardInv == \A t \in Threads : HeardAt(t)

\* A step of one attempt leaves what has been noted of the others as it is.
LEMMA OthersStay ==
  ASSUME TypeOK, NEW t \in Threads, NEW u \in Threads, u # t, AttemptStep(u)
  PROVE  /\ pc'[t] = pc[t]
         /\ stage'[t] = stage[t]
         /\ secondTry'[t] = secondTry[t]
         /\ t \in goneOn' <=> t \in goneOn
         /\ t \in cancelled' <=> t \in cancelled
<1> USE DEF TypeOK, AttemptTypeOK, Goto, Jump, TakeUp
<1>1. \E place : pc' = [pc EXCEPT ![u] = place]
  BY DEF AttemptStep, Acquire, ReadConfig, NextServer, AllTried, GiveUp, Dial, Poll, Won,
          WonAddr, Hangup, InternetThenRetry, InternetThenTried, NoInternet, Decide,
          NeedBox, NeedGotNone, NeedGotSalmon, NeedGotGates, NextGate, GateLost, Sorry,
          EndAttempt, EndShow, Release
<1>2. stage' = stage \/ \E value : stage' = [stage EXCEPT ![u] = value]
  BY DEF AttemptStep, Acquire, ReadConfig, NextServer, AllTried, GiveUp, Dial, Poll, Won,
          WonAddr, Hangup, InternetThenRetry, InternetThenTried, NoInternet, Decide,
          NeedBox, NeedGotNone, NeedGotSalmon, NeedGotGates, NextGate, GateLost, Sorry,
          EndAttempt, EndShow, Release
<1>3. secondTry' = secondTry \/ \E value : secondTry' = [secondTry EXCEPT ![u] = value]
  BY DEF AttemptStep, Acquire, ReadConfig, NextServer, AllTried, GiveUp, Dial, Poll, Won,
          WonAddr, Hangup, InternetThenRetry, InternetThenTried, NoInternet, Decide,
          NeedBox, NeedGotNone, NeedGotSalmon, NeedGotGates, NextGate, GateLost, Sorry,
          EndAttempt, EndShow, Release
<1>4. goneOn' \in {goneOn, goneOn \cup {u}, goneOn \ {u}}
  BY DEF AttemptStep, Acquire, ReadConfig, NextServer, AllTried, GiveUp, Dial, Poll, Won,
          WonAddr, Hangup, InternetThenRetry, InternetThenTried, NoInternet, Decide,
          NeedBox, NeedGotNone, NeedGotSalmon, NeedGotGates, NextGate, GateLost, Sorry,
          EndAttempt, EndShow, Release
<1>5. cancelled' \in {cancelled, cancelled \ {u}}
  BY DEF AttemptStep, Acquire, ReadConfig, NextServer, AllTried, GiveUp, Dial, Poll, Won,
          WonAddr, Hangup, InternetThenRetry, InternetThenTried, NoInternet, Decide,
          NeedBox, NeedGotNone, NeedGotSalmon, NeedGotGates, NextGate, GateLost, Sorry,
          EndAttempt, EndShow, Release
<1> QED
  BY <1>1, <1>2, <1>3, <1>4, <1>5

\* No step of such a session breaks it.
LEMMA HeardStep ==
  ASSUME Steady, TypeOK, SteadyInv, HeardInv, [Next]_vars
  PROVE  HeardInv'
<1> SUFFICES ASSUME NEW t \in Threads
             PROVE  HeardAt(t)'
  BY DEF HeardInv
<1>1. HeardAt(t) /\ (t \in cancelled /\ pc[t] \in AtWork => gCancelConnectionAttempt)
  BY DEF HeardInv, SteadyInv, ToldToStop
<1> USE <1>1 DEF HeardAt, PastLastDial
<1>2. ASSUME NEW u \in Threads, AttemptStep(u)
      PROVE  HeardAt(t)'
  <2>1. CASE u = t
    BY <1>2, <2>1
    DEF TypeOK, AttemptTypeOK, Goto, Jump, TakeUp, AtWork, AttemptSection,
        AttemptStep, Acquire, ReadConfig, NextServer, AllTried, GiveUp, Dial, Poll, Won,
          WonAddr, Hangup, InternetThenRetry, InternetThenTried, NoInternet, Decide,
          NeedBox, NeedGotNone, NeedGotSalmon, NeedGotGates, NextGate, GateLost, Sorry,
          EndAttempt, EndShow, Release
  <2>2. CASE u # t
    BY <1>2, <2>2, OthersStay
  <2> QED
    BY <2>1, <2>2
<1>3. CASE \E u \in Threads : ClickConnect(u) \/ MonitorSpawn(u)
  BY <1>3 DEF ClickConnect, MonitorSpawn, Spawn, TypeOK, AttemptTypeOK
<1>4. ~Restart
  BY DEF Restart, Steady, TypeOK, OutsideTypeOK
<1>5. CASE UNCHANGED <<pc, stage, secondTry, history>>
  BY <1>5
<1>6. CASE ClickCancel
  BY <1>6 DEF ClickCancel
<1> QED
  BY <1>2, <1>3, <1>4, <1>5, <1>6
  DEF Next, Gui, MonitorStep, ClickCancel, ClickDisconnect, DisconnectVPN, DisconnectClearsFlag, MonitorWake,
        MonitorAcquire, MonitorCheck, MonitorStore, MonitorTest, MonitorShow, MonitorRearm,
        MonitorUnlock, RttSaves, LinkUp, DialExpires, LinkDown, vars

\* A cancelled attempt takes no other server from its list, sends no request, and dials
\* once more at most: nobody else puts the flag back before the attempt has seen it, and
\* it looks at the flag after every server and after every double check.
THEOREM CancelIsHeard == Steady => (Spec => CancelHonoured)
<1> SUFFICES ASSUME Steady
             PROVE  Spec => CancelHonoured
  OBVIOUS
<1> DEFINE HeardBy(t) ==
             /\ pc[t] # "dial" /\ pc'[t] = "dial" =>
                  /\ t \notin goneOn
                  /\ pc[t] = "gate" \/ (pc[t] = "net1" /\ target'[t] = target[t])
             /\ pc[t] # "needWait" => pc'[t] # "needWait"
<1>1. Init => HeardInv
  BY DEF Init, HeardInv, HeardAt
<1>2. TypeOK /\ SteadyInv /\ HeardInv /\ [Next]_vars => HeardInv'
  BY HeardStep
<1>3. TypeOK /\ SteadyInv /\ HeardInv /\ [Next]_vars
        => [\A t \in cancelled : HeardBy(t)]_vars
  <2> SUFFICES ASSUME TypeOK, SteadyInv, HeardInv, Next, NEW t \in cancelled
               PROVE  HeardBy(t)
    OBVIOUS
  <2>1. /\ t \in Threads /\ HeardAt(t)
        /\ pc[t] \in AtWork \cup {"start"} => gCancelConnectionAttempt
    BY DEF TypeOK, AttemptTypeOK, SteadyInv, ToldToStop, HeardInv
  <2>2. ASSUME NEW u \in Threads, AttemptStep(u)
        PROVE  HeardBy(t)
    <3>1. CASE u = t
      BY <2>1, <2>2, <3>1
      DEF TypeOK, AttemptTypeOK, Goto, Jump, TakeUp, AtWork, AttemptSection, HeardAt,
          PastLastDial, AttemptStep, Acquire, ReadConfig, NextServer, AllTried, GiveUp, Dial, Poll, Won,
          WonAddr, Hangup, InternetThenRetry, InternetThenTried, NoInternet, Decide,
          NeedBox, NeedGotNone, NeedGotSalmon, NeedGotGates, NextGate, GateLost, Sorry,
          EndAttempt, EndShow, Release
    <3>2. CASE u # t
      BY <2>1, <2>2, <3>2, OthersStay
    <3> QED
      BY <3>1, <3>2
  <2>3. CASE \E u \in Threads : ClickConnect(u) \/ MonitorSpawn(u)
    BY <2>1, <2>3 DEF ClickConnect, MonitorSpawn, Spawn, TypeOK, AttemptTypeOK
  <2>4. ~Restart
    BY DEF Restart, Steady, TypeOK, OutsideTypeOK
  <2>5. CASE UNCHANGED pc
    BY <2>1, <2>5
  <2> QED
    BY <2>2, <2>3, <2>4, <2>5
    DEF Next, Gui, MonitorStep, ClickCancel, ClickDisconnect, DisconnectVPN, DisconnectClearsFlag, MonitorWake,
        MonitorAcquire, MonitorCheck, MonitorStore, MonitorTest, MonitorShow, MonitorRearm,
        MonitorUnlock, RttSaves, LinkUp, DialExpires, LinkDown
<1> QED
  BY <1>1, <1>2, <1>3, SteadyAlways, Typing, PTL DEF Spec, CancelHonoured

================================================================================
