--------------------------- MODULE TryServersProofs ---------------------------
(***************************************************************************)
(* Proofs about TryServers, for any list of servers, whatever the          *)
(* directory server hands out and however often the list is sorted: every  *)
(* index stays good, and as long as nobody sorts the list during a sweep,  *)
(* the sweep does what Sweep.tla promises, tries every server, likely-down *)
(* ones last, and reports and records what it has found and nothing else.  *)
(***************************************************************************)
EXTENDS TryServers, TLAPS, FiniteSetTheorems

DialPlaces == {"dial", "redial", "net1", "net2"}
SweepPlaces == {"top"} \cup DialPlaces

Entries == [addr : Addresses, recent : BOOLEAN, failureCount : Nat]
Lines == [addr : Addresses, try : DialPlaces, answer : Answers \cup {"UP", "DOWN"}]

\* No server has two entries.
Distinct(list) == \A i, j \in DOMAIN list : list[i].addr = list[j].addr => i = j

Dialled(lines, a) == \E k \in DOMAIN lines : lines[k].addr = a /\ lines[k].try = "dial"

\* The positions whose servers have yet to be disposed of.
Ahead == IF nowTryingSkippedOnes
         THEN {tryLater[k] : k \in ind .. Len(tryLater)}
         ELSE (ind .. Len(gKnownServers)) \cup {tryLater[k] : k \in DOMAIN tryLater}

\* TypeOK in parts: the list, the place in the sweep, what has been seen.
ListOK ==
  /\ gKnownServers \in Seq(Entries)
  /\ before \in Seq(Entries)
  /\ Distinct(gKnownServers)
  /\ sorts = 0 => AddrsOf(before) = AddrsOf(gKnownServers)

PlaceOK ==
  /\ gCancelConnectionAttempt \in BOOLEAN
  /\ pc \in SweepPlaces \cup {"return", "needServer", "done"}
  /\ call \in 1..2
  /\ newServer \subseteq New
  /\ nowTryingSkippedOnes \in BOOLEAN
  /\ ind \in 1 .. Len(gKnownServers) + 1
  /\ pc \in DialPlaces => MoreServers
  /\ tryLater \in Seq(DOMAIN gKnownServers)
  /\ okToNeedServer \in BOOLEAN
  /\ connectedSuccessfully \in BOOLEAN
  /\ sorts \in 0..MaxSorts

SeenOK ==
  /\ triedAddrs \subseteq Addresses
  /\ serverErrorAddrs \subseteq Addresses
  /\ dialled \subseteq Addresses
  /\ log \in Seq(Lines)

\* The skipped positions rise, and the first pass is past all of them: so there
\* are no more of them than servers.
IndexInv ==
  /\ \A i, j \in DOMAIN tryLater : i < j => tryLater[i] < tryLater[j]
  /\ Len(tryLater) <= Len(gKnownServers)
  /\ ~nowTryingSkippedOnes => /\ Len(tryLater) < ind
                              /\ \A j \in DOMAIN tryLater : tryLater[j] < ind

\* The dial under way is that of the current server, which the first pass does not
\* dial if it has failed recently.
DialInv ==
  sorts = 0 /\ pc \in DialPlaces =>
    /\ dialled = {Server.addr}
    /\ nowTryingSkippedOnes \/ ~Server.recent

\* A sweep that has returned without a connection and without a cancellation has
\* come to the end of both passes, with the internet never in doubt.
Exhausted == /\ ~MoreServers
             /\ okToNeedServer
             /\ nowTryingSkippedOnes \/ Len(gKnownServers) = 0

ReturnInv ==
  /\ connectedSuccessfully => pc \in {"return", "done"}
  /\ pc = "return" /\ ~connectedSuccessfully /\ ~gCancelConnectionAttempt => Exhausted
  /\ pc = "needServer" => Exhausted

\* During a sweep that nobody has disturbed, every server is where it was, has been
\* dialled if and only if the sweep is past it, and is as it was if it is not.
Walked ==
  /\ DOMAIN before = DOMAIN gKnownServers
  /\ \A k \in DOMAIN gKnownServers :
       /\ before[k].addr = gKnownServers[k].addr
       /\ Dialled(log, gKnownServers[k].addr) <=>
            k \notin Ahead \/ (k = Current /\ pc \in {"redial", "net1", "net2"})
  /\ \A k \in Ahead :
       /\ gKnownServers[k] = before[k]
       /\ gKnownServers[k].addr \notin triedAddrs \cup serverErrorAddrs
  /\ \A j \in DOMAIN tryLater : before[tryLater[j]].recent

WalkInv == sorts = 0 /\ pc \in SweepPlaces => Walked

\* The log of a sweep that nobody has disturbed: one first dial for each server; the
\* one that is being checked was offline; what has been reported was found out; and
\* a sweep that is exhausted has dialled them all.
DialsOnce == \A i, j \in DOMAIN log :
  log[i].try = "dial" /\ log[j].try = "dial" /\ log[i].addr = log[j].addr => i = j

SeenOffline ==
  /\ pc \in {"redial", "net1", "net2"} => \A a \in dialled : GotAnswer(a, "dial", "OFFLINE")
  /\ pc \in {"redial", "net2"} => \A a \in dialled : GotAnswer(a, "net1", "UP")
  /\ pc = "net2" => \A a \in dialled : GotAnswer(a, "redial", "OFFLINE")

Earned ==
  /\ \A a \in triedAddrs : /\ GotAnswer(a, "dial", "OFFLINE")
                           /\ GotAnswer(a, "net1", "UP")
                           /\ GotAnswer(a, "redial", "OFFLINE")
                           /\ GotAnswer(a, "net2", "UP")
  /\ \A a \in serverErrorAddrs : GotAnswer(a, "dial", "ERROR")

AllDialled ==
  pc \in {"return", "needServer"} /\ Exhausted /\ ~connectedSuccessfully =>
    \A a \in AddrsOf(gKnownServers) : Dialled(log, a)

LogInv == sorts = 0 => DialsOnce /\ SeenOffline /\ Earned /\ AllDialled

IInv == /\ TypeOK
        /\ IndexInv
        /\ DialInv
        /\ ReturnInv
        /\ WalkInv
        /\ LogInv
        /\ LikelyDownComeLast
        /\ ReportedIsRecorded

USE DEF caller, sweep, result, history, Goto

----------------------------------------------------------------------------
(* The list, whatever is in it. *)

\* Distinct is the third conjunct of TypeOK.
LEMMA DistinctIs ==
  ASSUME NEW list
  PROVE  Distinct(list) <=> IsInjective([k \in DOMAIN list |-> list[k].addr])
BY DEF Distinct, IsInjective

\* The entry of an address is the one that has it.
LEMMA EntryIs ==
  ASSUME NEW list, Distinct(list), NEW k \in DOMAIN list
  PROVE  EntryOf(list, list[k].addr) = list[k]
<1> DEFINE E == {list[j] : j \in DOMAIN list}
<1>1. list[k] \in E
  OBVIOUS
<1>2. \A e \in E : e.addr = list[k].addr => e = list[k]
  BY DEF Distinct
<1>3. (CHOOSE e \in E : e.addr = list[k].addr) = list[k]
  BY <1>1, <1>2, Zenon
<1> QED
  BY <1>3 DEF EntryOf

\* A sort keeps every server, with its entry, and makes none twice.
LEMMA Reordered ==
  ASSUME NEW list \in Seq(Entries), Distinct(list), NEW new \in Reorderings(list)
  PROVE  /\ new \in Seq(Entries) /\ Len(new) = Len(list) /\ DOMAIN new = DOMAIN list
         /\ Distinct(new)
         /\ AddrsOf(new) = AddrsOf(list)
         /\ \A a : EntryOf(new, a) = EntryOf(list, a)
<1>1. PICK p \in Bijection(DOMAIN list, DOMAIN list) :
        new = [k \in DOMAIN list |-> list[p[k]]]
  BY DEF Reorderings
<1>2. /\ p \in [DOMAIN list -> DOMAIN list]
      /\ \A i, j \in DOMAIN list : p[i] = p[j] => i = j
      /\ \A i \in DOMAIN list : \E j \in DOMAIN list : p[j] = i
  BY <1>1 DEF Bijection, Injection, Surjection, IsInjective
<1>3. /\ DOMAIN list = 1 .. Len(list) /\ Len(list) \in Nat
      /\ \A k \in DOMAIN list : list[k] \in Entries
  OBVIOUS
<1>4. /\ DOMAIN new = DOMAIN list
      /\ \A k \in DOMAIN list : new[k] = list[p[k]] /\ p[k] \in DOMAIN list
  BY <1>1, <1>2
<1>5. new \in Seq(Entries) /\ Len(new) = Len(list)
  BY <1>1, <1>2, <1>3
<1>6. Distinct(new)
  <2>1. ASSUME NEW i \in DOMAIN list, NEW j \in DOMAIN list, new[i].addr = new[j].addr
        PROVE  i = j
    <3>1. list[p[i]].addr = list[p[j]].addr /\ p[i] \in DOMAIN list /\ p[j] \in DOMAIN list
      BY <1>4, <2>1
    <3>2. p[i] = p[j]
      BY <3>1 DEF Distinct
    <3> QED
      BY <1>2, <3>2
  <2> QED
    BY <1>4, <2>1 DEF Distinct
<1>7. {new[k] : k \in DOMAIN new} = {list[k] : k \in DOMAIN list}
  BY <1>2, <1>4
<1>8. AddrsOf(new) = AddrsOf(list)
  BY <1>2, <1>4 DEF AddrsOf
<1>9. \A a : EntryOf(new, a) = EntryOf(list, a)
  BY <1>7 DEF EntryOf
<1> QED
  BY <1>4, <1>5, <1>6, <1>8, <1>9

\* So does addVPNInfo, which makes one server more at most.
LEMMA Added ==
  ASSUME NEW list \in Seq(Entries), Distinct(list), NEW a \in Addresses
  PROVE  /\ AddVPNInfo(list, a) \in Seq(Entries)
         /\ Distinct(AddVPNInfo(list, a))
         /\ AddVPNInfo(list, a) # <<>>
<1> DEFINE new == AddVPNInfo(list, a)
           e == Entry(a, FALSE, 0)
<1>1. e \in Entries /\ e.addr = a
  BY DEF Entry, Entries
<1>0. /\ DOMAIN list = 1 .. Len(list) /\ Len(list) \in Nat
      /\ \A k \in DOMAIN list : list[k] \in Entries
  OBVIOUS
<1>4. new = IF a \in AddrsOf(list)
            THEN [k \in DOMAIN list |-> IF list[k].addr = a THEN e ELSE list[k]]
            ELSE Append(list, e)
  BY DEF AddVPNInfo
<1> HIDE DEF new, e
<1>2. CASE a \in AddrsOf(list)
  <2>1. PICK i \in DOMAIN list : list[i].addr = a
    BY <1>2 DEF AddrsOf
  <2>2. new = [k \in DOMAIN list |-> IF list[k].addr = a THEN e ELSE list[k]]
    BY <1>2, <1>4
  <2>3. /\ DOMAIN new = DOMAIN list
        /\ \A k \in DOMAIN list : new[k] \in Entries /\ new[k].addr = list[k].addr
    BY <1>0, <1>1, <2>2
  <2>4. new \in Seq(Entries)
    BY <1>0, <2>3, <2>2
  <2>5. Distinct(new)
    BY <2>3 DEF Distinct
  <2>6. new # <<>>
    BY <2>1, <2>3
  <2> QED
    BY <2>4, <2>5, <2>6 DEF new
<1>3. CASE a \notin AddrsOf(list)
  <2>1. new = Append(list, e)
    BY <1>3, <1>4
  <2>2. new \in Seq(Entries) /\ new # <<>> /\ DOMAIN new = 1 .. Len(list) + 1
    BY <2>1, <1>1
  <2>3. \A k \in DOMAIN list : new[k] = list[k] /\ list[k].addr # a
    BY <2>1, <1>3 DEF AddrsOf
  <2>4. new[Len(list) + 1].addr = a
    BY <2>1, <1>1
  <2>5. Distinct(new)
    BY <2>2, <2>3, <2>4 DEF Distinct
  <2> QED
    BY <2>2, <2>5 DEF new
<1> QED
  BY <1>2, <1>3 DEF new

----------------------------------------------------------------------------
(* Every index stays good, sorted list or not. *)

\* The parts are the whole.
LEMMA TypeParts == /\ TypeOK <=> ListOK /\ PlaceOK /\ SeenOK
                   /\ TypeOK' <=> ListOK' /\ PlaceOK' /\ SeenOK'
<1>1. /\ Distinct(gKnownServers) <=>
           IsInjective([k \in DOMAIN gKnownServers |-> gKnownServers[k].addr])
      /\ Distinct(gKnownServers') <=>
           IsInjective([k \in DOMAIN gKnownServers' |-> gKnownServers'[k].addr])
  BY DistinctIs
<1>2. TypeOK <=> ListOK /\ PlaceOK /\ SeenOK
  BY <1>1, Zenon
     DEF TypeOK, ListOK, PlaceOK, SeenOK, Entries, Lines, SweepPlaces, DialPlaces
<1>3. TypeOK' <=> ListOK' /\ PlaceOK' /\ SeenOK'
  BY <1>1, Zenon
     DEF TypeOK, ListOK, PlaceOK, SeenOK, Entries, Lines, SweepPlaces, DialPlaces
<1> QED
  BY <1>2, <1>3

\* As long as there are more servers there is one to be tried, and it is ahead.
LEMMA CurrentIs ==
  ASSUME ListOK, PlaceOK, IndexInv
  PROVE  /\ Ahead \subseteq DOMAIN gKnownServers
         /\ MoreServers => /\ Current \in DOMAIN gKnownServers
                           /\ Current \in Ahead
                           /\ Server \in Entries
BY DEF ListOK, PlaceOK, IndexInv, MoreServers, Current, Server, Ahead

\* An entry is its three fields; what is written to two of them, one after the other.
LEMMA EntryWritten ==
  ASSUME NEW list \in Seq(Entries), NEW i \in DOMAIN list
  PROVE  /\ [list EXCEPT ![i].failureCount = 0] =
              [list EXCEPT ![i] = Entry(list[i].addr, list[i].recent, 0)]
         /\ [list EXCEPT ![i].recent = TRUE, ![i].failureCount = @ + 1] =
              [list EXCEPT ![i] = Entry(list[i].addr, TRUE, list[i].failureCount + 1)]
<1> DEFINE d == [list[i] EXCEPT !.failureCount = 0]
           r == [list[i] EXCEPT !.recent = TRUE]
           e == [r EXCEPT !.failureCount = @ + 1]
<1>1. \A f \in Entries : f = Entry(f.addr, f.recent, f.failureCount)
  BY DEF Entries, Entry
<1>2. list[i] \in Entries
  OBVIOUS
<1>3. d \in Entries /\ d.addr = list[i].addr /\ d.recent = list[i].recent /\ d.failureCount = 0
  BY <1>2 DEF Entries
<1>4. /\ e \in Entries /\ e.addr = list[i].addr /\ e.recent = TRUE
      /\ e.failureCount = list[i].failureCount + 1
  <2>1. /\ r \in Entries /\ r.addr = list[i].addr /\ r.recent = TRUE
        /\ r.failureCount = list[i].failureCount
    BY <1>2 DEF Entries
  <2> HIDE DEF r
  <2> QED
    BY <2>1 DEF Entries
<1>5. /\ [list EXCEPT ![i].failureCount = 0] = [list EXCEPT ![i] = d]
      /\ [list EXCEPT ![i].recent = TRUE, ![i].failureCount = @ + 1] = [list EXCEPT ![i] = e]
  OBVIOUS
<1>6. d = Entry(d.addr, d.recent, d.failureCount) /\ e = Entry(e.addr, e.recent, e.failureCount)
  BY <1>1, <1>3, <1>4
<1> HIDE DEF d, e
<1> QED
  BY <1>3, <1>4, <1>5, <1>6

\* A server that fails is due in some days and has one failure more; one that has
\* connected has none.
FailedEntry == Entry(Server.addr, TRUE, Server.failureCount + 1)
ConnectedEntry == Entry(Server.addr, Server.recent, 0)

\* What a failure and a success write to the entry.
LEMMA WrittenIs ==
  ASSUME ListOK, PlaceOK, IndexInv, MoreServers
  PROVE  /\ FailedEntry \in Entries
         /\ FailedEntry.addr = Server.addr
         /\ Failed(gKnownServers) = [gKnownServers EXCEPT ![Current] = FailedEntry]
         /\ ConnectedEntry \in Entries
         /\ ConnectedEntry.addr = Server.addr
         /\ [gKnownServers EXCEPT ![Current].failureCount = 0] =
              [gKnownServers EXCEPT ![Current] = ConnectedEntry]
<1>1. Current \in DOMAIN gKnownServers /\ Server \in Entries /\ gKnownServers \in Seq(Entries)
  BY CurrentIs DEF ListOK
<1>2. /\ FailedEntry \in Entries /\ FailedEntry.addr = Server.addr
      /\ ConnectedEntry \in Entries /\ ConnectedEntry.addr = Server.addr
  BY <1>1 DEF FailedEntry, ConnectedEntry, Entry, Entries
<1>3. /\ Failed(gKnownServers) = [gKnownServers EXCEPT ![Current] = FailedEntry]
      /\ [gKnownServers EXCEPT ![Current].failureCount = 0] =
           [gKnownServers EXCEPT ![Current] = ConnectedEntry]
  BY <1>1, EntryWritten DEF Failed, FailedEntry, ConnectedEntry, Server
<1> QED
  BY <1>2, <1>3

\* What writing to the entry of the current server does to the list.
LEMMA WrittenTo ==
  ASSUME ListOK, PlaceOK, IndexInv, MoreServers, NEW e \in Entries, e.addr = Server.addr,
         gKnownServers' = [gKnownServers EXCEPT ![Current] = e]
  PROVE  /\ gKnownServers' \in Seq(Entries)
         /\ Len(gKnownServers') = Len(gKnownServers)
         /\ DOMAIN gKnownServers' = DOMAIN gKnownServers
         /\ \A k \in DOMAIN gKnownServers : gKnownServers'[k].addr = gKnownServers[k].addr
         /\ \A k \in DOMAIN gKnownServers : k # Current => gKnownServers'[k] = gKnownServers[k]
         /\ Distinct(gKnownServers')
         /\ AddrsOf(gKnownServers') = AddrsOf(gKnownServers)
         /\ EntryOf(gKnownServers', Server.addr) = e
         /\ \A a \in AddrsOf(gKnownServers) \ {Server.addr} :
              EntryOf(gKnownServers', a) = EntryOf(gKnownServers, a)
<1>1. Current \in DOMAIN gKnownServers /\ gKnownServers \in Seq(Entries)
      /\ Distinct(gKnownServers) /\ Server = gKnownServers[Current]
      /\ e.addr = gKnownServers[Current].addr
  BY CurrentIs DEF ListOK, Server
<1>2. /\ gKnownServers' \in Seq(Entries) /\ Len(gKnownServers') = Len(gKnownServers)
      /\ DOMAIN gKnownServers' = DOMAIN gKnownServers
      /\ gKnownServers'[Current] = e
      /\ \A k \in DOMAIN gKnownServers : k # Current => gKnownServers'[k] = gKnownServers[k]
  BY <1>1
<1>3. \A k \in DOMAIN gKnownServers : gKnownServers'[k].addr = gKnownServers[k].addr
  BY <1>1, <1>2
<1>4. Distinct(gKnownServers')
  BY <1>1, <1>2, <1>3 DEF Distinct
<1>5. AddrsOf(gKnownServers') = AddrsOf(gKnownServers)
  BY <1>2, <1>3 DEF AddrsOf
<1>6. EntryOf(gKnownServers', Server.addr) = e
  BY <1>1, <1>2, <1>4, EntryIs
<1>7. ASSUME NEW a \in AddrsOf(gKnownServers) \ {Server.addr}
      PROVE  EntryOf(gKnownServers', a) = EntryOf(gKnownServers, a)
  <2>1. PICK k \in DOMAIN gKnownServers : gKnownServers[k].addr = a
    BY DEF AddrsOf
  <2>2. k # Current /\ gKnownServers'[k] = gKnownServers[k] /\ k \in DOMAIN gKnownServers'
    BY <2>1, <1>1, <1>2
  <2>3. EntryOf(gKnownServers, a) = gKnownServers[k]
    BY <1>1, <2>1, EntryIs
  <2>4. EntryOf(gKnownServers', a) = gKnownServers'[k]
    BY <2>1, <2>2, <1>4, EntryIs
  <2> QED
    BY <2>2, <2>3, <2>4
<1> QED
  BY <1>2, <1>3, <1>4, <1>5, <1>6, <1>7

----------------------------------------------------------------------------
(* Steps, one fact at a time. *)

\* The steps that may change the list, and how.
ListKept == UNCHANGED <<gKnownServers, before, sorts>>
ListConnected == /\ UNCHANGED <<before, sorts>>
                 /\ pc \in {"dial", "redial"} /\ pc' = "return"
                 /\ gKnownServers' = [gKnownServers EXCEPT ![Current] = ConnectedEntry]
ListFailed == /\ UNCHANGED <<before, sorts>>
              /\ pc \in {"dial", "net2"} /\ pc' = "top"
              /\ gKnownServers' = [gKnownServers EXCEPT ![Current] = FailedEntry]
ListSaved == /\ UNCHANGED <<before, sorts>>
             /\ pc = "top" /\ pc' = "return"
             /\ gKnownServers' \in Reorderings(gKnownServers)
ListGrown == /\ pc = "needServer" /\ pc' = "top" /\ sorts' = sorts
             /\ before' = IF sorts = 0 THEN gKnownServers' ELSE <<>>
             /\ \E a \in New : gKnownServers' \in Reorderings(AddVPNInfo(gKnownServers, a))
ListDisturbed == /\ sorts' = sorts + 1 /\ before' = <<>>
                 /\ gKnownServers' \in Reorderings(gKnownServers)

\* What a step does to the list: nothing, a write to the current entry, the sort at the end
\* of a sweep, a new server, or a sort by somebody else.
LEMMA ListStep ==
  ASSUME ListOK, PlaceOK, IndexInv, Next \/ UNCHANGED vars
  PROVE  \/ ListKept \/ ListConnected \/ ListFailed \/ ListSaved \/ ListGrown
         \/ ListDisturbed
<1> USE DEF ListKept, ListConnected, ListFailed, ListSaved, ListGrown, ListDisturbed
<1>1. CASE StopForCancel
  BY <1>1 DEF StopForCancel
<1>2. CASE Skip
  BY <1>2 DEF Skip
<1>3. CASE Connect
  BY <1>3 DEF Connect, CallDial
<1>4. CASE \E try \in {"dial", "redial"} : AnswerSuccess(try)
  BY <1>4, WrittenIs DEF PlaceOK, DialPlaces, AnswerSuccess, Answer, Log
<1>5. CASE \E try \in {"dial", "redial"} : AnswerOffline(try)
  BY <1>5 DEF AnswerOffline, Answer, Log
<1>6. CASE \E try \in {"dial", "redial"}, answer \in Answers : AnswerIgnored(try, answer)
  BY <1>6 DEF AnswerIgnored, Answer, Log
<1>7. CASE AnswerError
  BY <1>7, WrittenIs DEF PlaceOK, DialPlaces, AnswerError, Answer, Log
<1>8. CASE InternetUp
  BY <1>8 DEF InternetUp, CallDial
<1>9. CASE StillOffline
  BY <1>9, WrittenIs DEF PlaceOK, DialPlaces, StillOffline
<1>10. CASE InternetDown
  BY <1>10 DEF InternetDown, Log
<1>11. CASE TrySkippedOnes
  BY <1>11 DEF TrySkippedOnes
<1>12. CASE PretendCancelled
  BY <1>12 DEF PretendCancelled
<1>13. CASE AllFailed
  BY <1>13 DEF AllFailed
<1>14. CASE Finish
  BY <1>14 DEF Finish
<1>15. CASE NeedServer
  BY <1>15 DEF NeedServer
<1>16. CASE NoSalmonServer
  BY <1>16 DEF NoSalmonServer
<1>17. CASE \E a \in New : NewSalmonServer(a)
  BY <1>17 DEF NewSalmonServer
<1>18. CASE UserCancels
  BY <1>18 DEF UserCancels
<1>19. CASE EarlierThreadSorts
  BY <1>19 DEF EarlierThreadSorts
<1>20. CASE UNCHANGED vars
  BY <1>20 DEF vars
<1> QED
  BY <1>1, <1>2, <1>3, <1>4, <1>5, <1>6, <1>7, <1>8, <1>9, <1>10, <1>11, <1>12, <1>13,
     <1>14, <1>15, <1>16, <1>17, <1>18, <1>19, <1>20
     DEF Next, Sweeping, Calling, Done

\* So the list stays well typed, and only a new server makes it longer.
LEMMA ListTyped ==
  ASSUME ListOK, PlaceOK, IndexInv, Next \/ UNCHANGED vars
  PROVE  /\ ListOK'
         /\ ListGrown \/ (/\ Len(gKnownServers') = Len(gKnownServers)
                          /\ DOMAIN gKnownServers' = DOMAIN gKnownServers)
         /\ ListGrown => gKnownServers' # <<>>
<1> DEFINE Kept == /\ Len(gKnownServers') = Len(gKnownServers)
                  /\ DOMAIN gKnownServers' = DOMAIN gKnownServers
<1>1. ASSUME ListKept
      PROVE  ListOK' /\ Kept
  BY <1>1 DEF ListKept, ListOK
<1>2. ASSUME ListConnected \/ ListFailed
      PROVE  ListOK' /\ Kept
  <2>1. MoreServers
    BY <1>2 DEF ListConnected, ListFailed, PlaceOK, DialPlaces
  <2>2. PICK e \in Entries : /\ e.addr = Server.addr
                             /\ gKnownServers' = [gKnownServers EXCEPT ![Current] = e]
    BY <1>2, <2>1, WrittenIs DEF ListConnected, ListFailed
  <2>3. /\ gKnownServers' \in Seq(Entries) /\ Len(gKnownServers') = Len(gKnownServers)
        /\ DOMAIN gKnownServers' = DOMAIN gKnownServers
        /\ Distinct(gKnownServers')
        /\ AddrsOf(gKnownServers') = AddrsOf(gKnownServers)
    BY <2>1, <2>2, WrittenTo
  <2> QED
    BY <1>2, <2>3 DEF ListConnected, ListFailed, ListOK
<1>3. ASSUME ListSaved \/ ListDisturbed
      PROVE  ListOK' /\ Kept
  <2>1. gKnownServers' \in Reorderings(gKnownServers)
    BY <1>3 DEF ListSaved, ListDisturbed
  <2>2. /\ gKnownServers' \in Seq(Entries) /\ Len(gKnownServers') = Len(gKnownServers)
        /\ DOMAIN gKnownServers' = DOMAIN gKnownServers
        /\ Distinct(gKnownServers')
        /\ AddrsOf(gKnownServers') = AddrsOf(gKnownServers)
    BY <2>1, Reordered DEF ListOK
  <2>3. /\ before' \in Seq(Entries)
        /\ sorts' = 0 => before' = before /\ sorts = 0
    <3>1. sorts \in Nat /\ before \in Seq(Entries) /\ <<>> \in Seq(Entries)
      BY SortsAssumption DEF PlaceOK, ListOK
    <3>2. (sorts' = sorts /\ before' = before) \/ (sorts' = sorts + 1 /\ before' = <<>>)
      BY <1>3 DEF ListSaved, ListDisturbed
    <3>3. CASE sorts' = sorts /\ before' = before
      BY <3>1, <3>3
    <3>4. CASE sorts' = sorts + 1 /\ before' = <<>>
      BY <3>1, <3>4
    <3> QED
      BY <3>2, <3>3, <3>4
  <2> QED
    BY <2>2, <2>3 DEF ListOK
<1>4. ASSUME ListGrown
      PROVE  ListOK' /\ gKnownServers' # <<>>
  <2>1. PICK a \in New : gKnownServers' \in Reorderings(AddVPNInfo(gKnownServers, a))
    BY <1>4 DEF ListGrown
  <2> DEFINE new == AddVPNInfo(gKnownServers, a)
  <2>2. new \in Seq(Entries) /\ Distinct(new) /\ new # <<>>
    BY Added, NewAssumption DEF ListOK
  <2> HIDE DEF new
  <2>3. /\ gKnownServers' \in Seq(Entries) /\ Len(gKnownServers') = Len(new)
        /\ Distinct(gKnownServers')
    BY <2>1, <2>2, Reordered DEF new
  <2>4. gKnownServers' # <<>>
    BY <2>2, <2>3
  <2> QED
    BY <1>4, <2>3, <2>4 DEF ListGrown, ListOK
<1> QED
  BY <1>1, <1>2, <1>3, <1>4, ListStep

\* What the log gets.
LEMMA LogIs ==
  ASSUME DialInv, pc \in DialPlaces, NEW try, NEW answer, Log(try, answer)
  PROVE  log' = IF sorts # 0 THEN log
                ELSE Append(log, [addr |-> Server.addr, try |-> try, answer |-> answer])
<1>1. CASE sorts # 0
  BY <1>1 DEF Log
<1>2. CASE sorts = 0
  <2>1. dialled = {Server.addr}
    BY <1>2 DEF DialInv
  <2> DEFINE x == CHOOSE a \in dialled : TRUE
  <2>2. x = Server.addr
    BY <2>1
  <2>3. log' = Append(log, [addr |-> x, try |-> try, answer |-> answer])
    BY <1>2 DEF Log
  <2> HIDE DEF x
  <2> QED
    BY <1>2, <2>2, <2>3
<1> QED
  BY <1>1, <1>2

\* The place in the sweep stays a good one.
LEMMA PlaceTyped ==
  ASSUME ListOK, PlaceOK, IndexInv, Next \/ UNCHANGED vars
  PROVE  PlaceOK' /\ IndexInv'
<1> USE DEF PlaceOK, IndexInv, MoreServers, SweepPlaces, DialPlaces, ListGrown
<1>0. /\ ListGrown \/ (/\ Len(gKnownServers') = Len(gKnownServers)
                       /\ DOMAIN gKnownServers' = DOMAIN gKnownServers)
      /\ gKnownServers \in Seq(Entries) /\ gKnownServers' \in Seq(Entries)
  BY ListTyped DEF ListOK
<1>1. CASE StopForCancel
  BY <1>1, <1>0 DEF StopForCancel
<1>2. CASE Skip
  BY <1>2, <1>0 DEF Skip
<1>3. CASE Connect
  BY <1>3, <1>0 DEF Connect, CallDial
<1>4. CASE \E try \in {"dial", "redial"} : AnswerSuccess(try)
  BY <1>4, <1>0 DEF AnswerSuccess, Answer, Log
<1>5. CASE \E try \in {"dial", "redial"} : AnswerOffline(try)
  BY <1>5, <1>0 DEF AnswerOffline, Answer, Log
<1>6. CASE \E try \in {"dial", "redial"}, answer \in Answers : AnswerIgnored(try, answer)
  BY <1>6, <1>0 DEF AnswerIgnored, Answer, Log
<1>7. CASE AnswerError
  BY <1>7, <1>0 DEF AnswerError, Answer, Log
<1>8. CASE InternetUp
  BY <1>8, <1>0 DEF InternetUp, CallDial
<1>9. CASE StillOffline
  BY <1>9, <1>0 DEF StillOffline
<1>10. CASE InternetDown
  <2>1. /\ pc \in {"net1", "net2"} /\ pc' = "top" /\ ind' = ind + 1 /\ okToNeedServer' = FALSE
        /\ UNCHANGED <<gKnownServers, gCancelConnectionAttempt, call, newServer,
                       nowTryingSkippedOnes, tryLater, connectedSuccessfully, sorts>>
    BY <1>10 DEF InternetDown
  <2>2. PlaceOK'
    <3>1. ind' \in 1 .. Len(gKnownServers') + 1 /\ pc' \notin DialPlaces
      BY <1>0, <2>1
    <3> QED
      BY <2>1, <3>1
  <2>3. IndexInv'
    BY <1>0, <2>1
  <2> QED
    BY <2>2, <2>3
<1>11. CASE TrySkippedOnes
  BY <1>11, <1>0 DEF TrySkippedOnes
<1>12. CASE PretendCancelled
  BY <1>12, <1>0 DEF PretendCancelled
<1>13. CASE AllFailed
  BY <1>13, <1>0 DEF AllFailed
<1>14. CASE Finish
  BY <1>14, <1>0 DEF Finish
<1>15. CASE NeedServer
  BY <1>15, <1>0 DEF NeedServer
<1>16. CASE NoSalmonServer
  BY <1>16, <1>0 DEF NoSalmonServer
<1>17. CASE \E a \in New : NewSalmonServer(a)
  <2>1. /\ pc' = "top" /\ ind' = 1 /\ tryLater' = <<>> /\ call' = 2 /\ sorts' = sorts
        /\ nowTryingSkippedOnes' = FALSE /\ okToNeedServer' = TRUE
        /\ connectedSuccessfully' = FALSE /\ newServer' \subseteq New
        /\ UNCHANGED gCancelConnectionAttempt
    BY <1>17 DEF NewSalmonServer
  <2>2. Len(gKnownServers') \in Nat /\ <<>> \in Seq(DOMAIN gKnownServers')
    BY <1>0
  <2>3. PlaceOK'
    <3>1. tryLater' \in Seq(DOMAIN gKnownServers') /\ ind' \in 1 .. Len(gKnownServers') + 1
      BY <2>1, <2>2
    <3>2. /\ gCancelConnectionAttempt' \in BOOLEAN /\ sorts' \in 0..MaxSorts
          /\ call' \in 1..2 /\ pc' \in SweepPlaces /\ pc' \notin DialPlaces
      BY <2>1
    <3> QED
      BY <2>1, <3>1, <3>2
  <2>4. IndexInv'
    BY <2>1, <2>2
  <2> QED
    BY <2>3, <2>4
<1>18. CASE UserCancels
  BY <1>18, <1>0 DEF UserCancels
<1>19. CASE EarlierThreadSorts
  BY <1>19, <1>0, SortsAssumption DEF EarlierThreadSorts
<1>20. CASE UNCHANGED vars
  BY <1>20, <1>0 DEF vars
<1> QED
  BY <1>1, <1>2, <1>3, <1>4, <1>5, <1>6, <1>7, <1>8, <1>9, <1>10, <1>11, <1>12, <1>13,
     <1>14, <1>15, <1>16, <1>17, <1>18, <1>19, <1>20
  DEF Next, Sweeping, Calling, Done

\* What has been seen stays well typed, and the dial under way is the current one's.
LEMMA SeenTyped ==
  ASSUME ListOK, PlaceOK, SeenOK, IndexInv, DialInv, Next \/ UNCHANGED vars
  PROVE  SeenOK' /\ DialInv'
<1> USE DEF SeenOK, DialInv, SweepPlaces, DialPlaces, MoreServers, Server, Current
<1>0. /\ MoreServers => Server \in Entries /\ Server.addr \in Addresses
      /\ pc \in DialPlaces => MoreServers
      /\ sorts \in Nat /\ <<>> \in Seq(Lines)
  BY CurrentIs, SortsAssumption DEF PlaceOK, Entries
<1>l. ASSUME NEW try \in DialPlaces, NEW answer \in Answers \cup {"UP", "DOWN"}, Log(try, answer),
             pc \in DialPlaces
      PROVE  log' \in Seq(Lines)
  <2>1. [addr |-> Server.addr, try |-> try, answer |-> answer] \in Lines
    BY <1>0, <1>l DEF Lines
  <2>2. log' = IF sorts # 0 THEN log
               ELSE Append(log, [addr |-> Server.addr, try |-> try, answer |-> answer])
    BY <1>l, LogIs
  <2> HIDE DEF Lines
  <2> QED
    BY <2>1, <2>2
<1>1. CASE StopForCancel
  BY <1>1, <1>0 DEF StopForCancel
<1>2. CASE Skip
  BY <1>2, <1>0 DEF Skip
<1>3. CASE Connect
  BY <1>3, <1>0 DEF Connect, CallDial
<1>4. CASE \E try \in {"dial", "redial"} : AnswerSuccess(try)
  <2>1. PICK try \in {"dial", "redial"} : AnswerSuccess(try)
    BY <1>4
  <2>2. pc = try /\ Log(try, "SUCCESS") /\ try \in DialPlaces
    BY <2>1 DEF AnswerSuccess, Answer
  <2>3. log' \in Seq(Lines)
    BY <1>l, <2>2 DEF Answers
  <2> QED
    BY <2>1, <2>3 DEF AnswerSuccess
<1>5. CASE \E try \in {"dial", "redial"} : AnswerOffline(try)
  <2>1. PICK try \in {"dial", "redial"} : AnswerOffline(try)
    BY <1>5
  <2>2. pc = try /\ Log(try, "OFFLINE") /\ try \in DialPlaces
    BY <2>1 DEF AnswerOffline, Answer
  <2>3. log' \in Seq(Lines)
    BY <1>l, <2>2 DEF Answers
  <2> QED
    <3>1. SeenOK'
      BY <2>1, <2>3 DEF AnswerOffline
    <3>2. /\ UNCHANGED <<gKnownServers, nowTryingSkippedOnes, ind, tryLater, dialled, sorts>>
          /\ pc \in DialPlaces
      BY <2>1, <2>2 DEF AnswerOffline
    <3> QED
      BY <3>1, <3>2
<1>6. CASE \E try \in {"dial", "redial"}, answer \in Answers : AnswerIgnored(try, answer)
  <2>1. PICK try \in {"dial", "redial"}, answer \in Answers : AnswerIgnored(try, answer)
    BY <1>6
  <2>2. pc = try /\ Log(try, answer) /\ try \in DialPlaces
    BY <2>1 DEF AnswerIgnored, Answer
  <2>3. log' \in Seq(Lines)
    BY <1>l, <2>2
  <2> QED
    BY <2>1, <2>3 DEF AnswerIgnored
<1>7. CASE AnswerError
  <2>2. pc = "dial" /\ Log("dial", "ERROR") /\ "dial" \in DialPlaces
    BY <1>7 DEF AnswerError, Answer
  <2>3. log' \in Seq(Lines)
    BY <1>l, <2>2 DEF Answers
  <2> QED
    BY <1>7, <1>0, <2>2, <2>3 DEF AnswerError
<1>8. CASE InternetUp
  <2>2. pc = "net1" /\ Log("net1", "UP") /\ pc \in DialPlaces
    BY <1>8 DEF InternetUp
  <2>3. log' \in Seq(Lines)
    BY <1>l, <2>2
  <2> QED
    BY <1>8, <1>0, <2>2, <2>3 DEF InternetUp, CallDial
<1>9. CASE StillOffline
  <2>2. pc = "net2" /\ Log("net2", "UP") /\ pc \in DialPlaces
    BY <1>9 DEF StillOffline
  <2>3. log' \in Seq(Lines)
    BY <1>l, <2>2
  <2> QED
    BY <1>9, <1>0, <2>2, <2>3 DEF StillOffline
<1>10. CASE InternetDown
  <2>2. pc \in {"net1", "net2"} /\ Log(pc, "DOWN") /\ pc \in DialPlaces
    BY <1>10 DEF InternetDown
  <2>3. log' \in Seq(Lines)
    BY <1>l, <2>2
  <2> QED
    BY <1>10, <2>3 DEF InternetDown
<1>11. CASE TrySkippedOnes
  BY <1>11, <1>0 DEF TrySkippedOnes
<1>12. CASE PretendCancelled
  BY <1>12, <1>0 DEF PretendCancelled
<1>13. CASE AllFailed
  BY <1>13, <1>0 DEF AllFailed
<1>14. CASE Finish
  BY <1>14, <1>0 DEF Finish
<1>15. CASE NeedServer
  BY <1>15, <1>0 DEF NeedServer
<1>16. CASE NoSalmonServer
  BY <1>16, <1>0 DEF NoSalmonServer
<1>17. CASE \E a \in New : NewSalmonServer(a)
  BY <1>17, <1>0 DEF NewSalmonServer
<1>18. CASE UserCancels
  BY <1>18, <1>0 DEF UserCancels
<1>19. CASE EarlierThreadSorts
  BY <1>19, <1>0 DEF EarlierThreadSorts
<1>20. CASE UNCHANGED vars
  BY <1>20, <1>0 DEF vars
<1> QED
  BY <1>1, <1>2, <1>3, <1>4, <1>5, <1>6, <1>7, <1>8, <1>9, <1>10, <1>11, <1>12, <1>13,
     <1>14, <1>15, <1>16, <1>17, <1>18, <1>19, <1>20
  DEF Next, Sweeping, Calling, Done

\* The first sweep begins at the head of the list with nothing skipped.
LEMMA InitTyped == Init => ListOK /\ PlaceOK /\ SeenOK /\ IndexInv /\ DialInv
<1> SUFFICES ASSUME Init
             PROVE  ListOK /\ PlaceOK /\ SeenOK /\ IndexInv /\ DialInv
  OBVIOUS
<1>1. PICK list \in Known : \E recent \in [DOMAIN list -> BOOLEAN] :
        gKnownServers = [k \in DOMAIN list |-> Entry(list[k], recent[k], 0)]
  BY DEF Init
<1>2. PICK recent \in [DOMAIN list -> BOOLEAN] :
        gKnownServers = [k \in DOMAIN list |-> Entry(list[k], recent[k], 0)]
  BY <1>1
<1>3. /\ list \in Seq(Addresses) /\ DOMAIN list = 1 .. Len(list) /\ Len(list) \in Nat
      /\ \A i, j \in DOMAIN list : list[i] = list[j] => i = j
  BY KnownAssumption DEF IsInjective
<1>4. \A k \in DOMAIN list : /\ Entry(list[k], recent[k], 0) \in Entries
                             /\ Entry(list[k], recent[k], 0).addr = list[k]
  BY <1>3 DEF Entry, Entries
<1>5. /\ gKnownServers \in Seq(Entries) /\ DOMAIN gKnownServers = DOMAIN list
      /\ \A k \in DOMAIN list : gKnownServers[k].addr = list[k]
  BY <1>2, <1>3, <1>4
<1>6. Distinct(gKnownServers)
  BY <1>3, <1>5 DEF Distinct
<1>7. ListOK
  BY <1>5, <1>6 DEF Init, ListOK
<1>8. PlaceOK
  <2>1. <<>> \in Seq(DOMAIN gKnownServers) /\ Len(gKnownServers) \in Nat
    BY <1>5
  <2>2. /\ gCancelConnectionAttempt = FALSE /\ pc \in {"return", "top"} /\ call = 1
        /\ newServer = {} /\ nowTryingSkippedOnes = FALSE /\ ind = 1 /\ tryLater = <<>>
        /\ okToNeedServer = TRUE /\ connectedSuccessfully = FALSE /\ sorts = 0
    BY DEF Init
  <2>3. tryLater \in Seq(DOMAIN gKnownServers) /\ ind \in 1 .. Len(gKnownServers) + 1
    BY <2>1, <2>2
  <2>4. /\ pc \in SweepPlaces \cup {"return", "needServer", "done"} /\ pc \notin DialPlaces
        /\ sorts \in 0..MaxSorts /\ call \in 1..2 /\ newServer \subseteq New
    BY <2>2, SortsAssumption DEF SweepPlaces, DialPlaces
  <2> QED
    BY <2>2, <2>3, <2>4 DEF PlaceOK
<1>9. SeenOK /\ IndexInv /\ DialInv
  BY <1>5 DEF Init, SeenOK, IndexInv, DialInv, DialPlaces
<1> QED
  BY <1>7, <1>8, <1>9

\* Every reachable state is well typed, whoever sorts the list when: the position
\* dialled is always one of the list, the skipped positions are positions of the
\* list, and no server has two entries.
THEOREM Typing == Spec => []TypeOK
<1> DEFINE T == ListOK /\ PlaceOK /\ SeenOK /\ IndexInv /\ DialInv
<1>1. Init => T
  BY InitTyped
<1>2. T /\ [Next]_vars => T'
  BY ListTyped, PlaceTyped, SeenTyped
<1>3. T => TypeOK
  BY TypeParts
<1> QED
  BY <1>1, <1>2, <1>3, PTL DEF Spec

----------------------------------------------------------------------------
(* What a sweep that nobody disturbs has done so far. *)

\* How a sweep comes to its end.
LEMMA ReturnStep ==
  ASSUME ListOK, PlaceOK, IndexInv, ReturnInv, Next \/ UNCHANGED vars
  PROVE  ReturnInv'
<1> USE DEF ReturnInv, Exhausted, MoreServers, PlaceOK, DialPlaces, ListGrown
<1>0. ListGrown \/ Len(gKnownServers') = Len(gKnownServers)
  BY ListTyped
<1>1. CASE StopForCancel
  BY <1>1, <1>0 DEF StopForCancel
<1>2. CASE Skip
  BY <1>2, <1>0 DEF Skip
<1>3. CASE Connect
  BY <1>3, <1>0 DEF Connect, CallDial
<1>4. CASE \E try \in {"dial", "redial"} : AnswerSuccess(try)
  BY <1>4, <1>0 DEF AnswerSuccess, Answer, Log
<1>5. CASE \E try \in {"dial", "redial"} : AnswerOffline(try)
  BY <1>5, <1>0 DEF AnswerOffline, Answer, Log
<1>6. CASE \E try \in {"dial", "redial"}, answer \in Answers : AnswerIgnored(try, answer)
  BY <1>6, <1>0 DEF AnswerIgnored, Answer, Log
<1>7. CASE AnswerError
  BY <1>7, <1>0 DEF AnswerError, Answer, Log
<1>8. CASE InternetUp
  BY <1>8, <1>0 DEF InternetUp, CallDial
<1>9. CASE StillOffline
  BY <1>9, <1>0 DEF StillOffline
<1>10. CASE InternetDown
  BY <1>10, <1>0 DEF InternetDown, Log
<1>11. CASE TrySkippedOnes
  BY <1>11, <1>0 DEF TrySkippedOnes
<1>12. CASE PretendCancelled
  BY <1>12, <1>0 DEF PretendCancelled
<1>13. CASE AllFailed
  BY <1>13, <1>0 DEF AllFailed
<1>14. CASE Finish
  BY <1>14, <1>0 DEF Finish
<1>15. CASE NeedServer
  BY <1>15, <1>0 DEF NeedServer
<1>16. CASE NoSalmonServer
  BY <1>16, <1>0 DEF NoSalmonServer
<1>17. CASE \E a \in New : NewSalmonServer(a)
  BY <1>17, <1>0 DEF NewSalmonServer
<1>18. CASE UserCancels
  BY <1>18, <1>0 DEF UserCancels
<1>19. CASE EarlierThreadSorts
  BY <1>19, <1>0 DEF EarlierThreadSorts
<1>20. CASE UNCHANGED vars
  BY <1>20, <1>0 DEF vars
<1> QED
  BY <1>1, <1>2, <1>3, <1>4, <1>5, <1>6, <1>7, <1>8, <1>9, <1>10, <1>11, <1>12, <1>13,
     <1>14, <1>15, <1>16, <1>17, <1>18, <1>19, <1>20
  DEF Next, Sweeping, Calling, Done

\* A server that is done with is ahead no more, and no other is.
LEMMA AheadLess ==
  ASSUME ListOK, PlaceOK, IndexInv, MoreServers, ind' = ind + 1,
         UNCHANGED <<nowTryingSkippedOnes, tryLater>>,
         Len(gKnownServers') = Len(gKnownServers)
  PROVE  Ahead' = Ahead \ {Current}
<1>1. CASE nowTryingSkippedOnes
  <2>1. /\ Current = tryLater[ind] /\ ind \in 1 .. Len(tryLater) /\ Len(tryLater) \in Nat
        /\ Ahead = {tryLater[k] : k \in ind .. Len(tryLater)}
        /\ Ahead' = {tryLater[k] : k \in ind + 1 .. Len(tryLater)}
    BY <1>1 DEF PlaceOK, Ahead, MoreServers, Current
  <2>2. ASSUME NEW k \in ind + 1 .. Len(tryLater)
        PROVE  tryLater[k] # tryLater[ind]
    <3>1. k \in DOMAIN tryLater /\ ind \in DOMAIN tryLater /\ ind < k
      BY <2>1 DEF PlaceOK
    <3>2. tryLater[ind] < tryLater[k]
      BY <3>1 DEF IndexInv
    <3>3. tryLater[ind] \in Nat /\ tryLater[k] \in Nat
      BY <3>1 DEF PlaceOK, ListOK
    <3> QED
      BY <3>2, <3>3
  <2> QED
    BY <2>1, <2>2
<1>2. CASE ~nowTryingSkippedOnes
  <2>1. /\ Current = ind /\ ind \in 1 .. Len(gKnownServers) /\ Len(gKnownServers) \in Nat
        /\ Ahead = (ind .. Len(gKnownServers)) \cup {tryLater[k] : k \in DOMAIN tryLater}
        /\ Ahead' = (ind + 1 .. Len(gKnownServers)) \cup {tryLater[k] : k \in DOMAIN tryLater}
    BY <1>2 DEF ListOK, PlaceOK, Ahead, MoreServers, Current
  <2>2. \A k \in DOMAIN tryLater : tryLater[k] < ind /\ tryLater[k] \in Nat
    BY <1>2 DEF IndexInv, PlaceOK
  <2> QED
    BY <2>1, <2>2
<1> QED
  BY <1>1, <1>2

\* A server that is skipped is ahead still, and the second pass has those that
\* the first one skipped.
LEMMA AheadKept ==
  ASSUME ListOK, PlaceOK, IndexInv, Skip \/ TrySkippedOnes
  PROVE  Ahead' = Ahead
<1>1. CASE Skip
  <2>1. /\ Ahead = (ind .. Len(gKnownServers)) \cup {tryLater[k] : k \in DOMAIN tryLater}
        /\ Ahead' = (ind + 1 .. Len(gKnownServers)) \cup {tryLater'[k] : k \in DOMAIN tryLater'}
        /\ ind \in 1 .. Len(gKnownServers) /\ Len(gKnownServers) \in Nat
    BY <1>1 DEF Skip, Ahead, PlaceOK, MoreServers, ListOK
  <2>2. /\ DOMAIN tryLater' = 1 .. Len(tryLater) + 1 /\ tryLater'[Len(tryLater) + 1] = ind
        /\ DOMAIN tryLater = 1 .. Len(tryLater) /\ Len(tryLater) \in Nat
        /\ \A k \in DOMAIN tryLater : tryLater'[k] = tryLater[k]
    BY <1>1 DEF Skip, PlaceOK
  <2>3. {tryLater'[k] : k \in DOMAIN tryLater'} = {tryLater[k] : k \in DOMAIN tryLater} \cup {ind}
    BY <2>2
  <2>4. ind .. Len(gKnownServers) = (ind + 1 .. Len(gKnownServers)) \cup {ind}
    BY <2>1
  <2> QED
    BY <2>1, <2>3, <2>4, Zenon
<1>2. CASE TrySkippedOnes
  <2>1. /\ ind .. Len(gKnownServers) = {}
        /\ Ahead = (ind .. Len(gKnownServers)) \cup {tryLater[k] : k \in DOMAIN tryLater}
        /\ Ahead' = {tryLater[k] : k \in 1 .. Len(tryLater)}
        /\ DOMAIN tryLater = 1 .. Len(tryLater)
    BY <1>2 DEF TrySkippedOnes, Ahead, PlaceOK, MoreServers, ListOK
  <2> QED
    BY <2>1
<1> QED
  BY <1>1, <1>2

\* How the log grows.
LEMMA LogGrows ==
  ASSUME PlaceOK, SeenOK, DialInv, sorts = 0, pc \in DialPlaces,
         NEW try, NEW answer, Log(try, answer)
  PROVE  /\ DOMAIN log = 1 .. Len(log) /\ Len(log) \in Nat
         /\ DOMAIN log' = 1 .. Len(log) + 1
         /\ \A k \in DOMAIN log : log'[k] = log[k]
         /\ log'[Len(log) + 1] = [addr |-> Server.addr, try |-> try, answer |-> answer]
         /\ \A a : Dialled(log', a) <=> Dialled(log, a) \/ (a = Server.addr /\ try = "dial")
         /\ \A a, t, w : GotAnswer(a, t, w) => GotAnswer(a, t, w)'
         /\ \A a : a = Server.addr => GotAnswer(a, try, answer)'
<1> DEFINE line == [addr |-> Server.addr, try |-> try, answer |-> answer]
<1>1. log' = Append(log, line) /\ log \in Seq(Lines)
  BY LogIs DEF SeenOK
<1>2. line.addr = Server.addr /\ line.try = try
  OBVIOUS
<1> HIDE DEF line
<1>3. /\ DOMAIN log = 1 .. Len(log) /\ Len(log) \in Nat
      /\ DOMAIN log' = 1 .. Len(log) + 1
      /\ \A k \in DOMAIN log : log'[k] = log[k]
      /\ log'[Len(log) + 1] = line
  BY <1>1
<1>4. \A a : Dialled(log', a) <=> Dialled(log, a) \/ (a = Server.addr /\ try = "dial")
  BY <1>2, <1>3 DEF Dialled
<1>5. \A a, t, w : GotAnswer(a, t, w) => GotAnswer(a, t, w)'
  BY <1>3 DEF GotAnswer
<1>6. \A a : a = Server.addr => GotAnswer(a, try, answer)'
  BY <1>3 DEF GotAnswer, line
<1> QED
  BY <1>3, <1>4, <1>5, <1>6 DEF line

\* One server more is done with.
LEMMA WalkedOn ==
  ASSUME ListOK, PlaceOK, IndexInv, Walked, pc \in DialPlaces, pc' = "top", ind' = ind + 1,
         UNCHANGED <<before, nowTryingSkippedOnes, tryLater>>,
         Len(gKnownServers') = Len(gKnownServers),
         DOMAIN gKnownServers' = DOMAIN gKnownServers,
         \A k \in DOMAIN gKnownServers :
            /\ gKnownServers'[k].addr = gKnownServers[k].addr
            /\ k # Current => gKnownServers'[k] = gKnownServers[k],
         \A a : Dialled(log', a) <=> Dialled(log, a) \/ a = Server.addr,
         triedAddrs' \cup serverErrorAddrs' \subseteq
           triedAddrs \cup serverErrorAddrs \cup {Server.addr}
  PROVE  Walked'
<1>1. /\ MoreServers /\ Current \in DOMAIN gKnownServers /\ Server = gKnownServers[Current]
      /\ Ahead \subseteq DOMAIN gKnownServers
  BY CurrentIs DEF PlaceOK, Server
<1>2. Ahead' = Ahead \ {Current}
  BY <1>1, AheadLess
<1>3. \A k \in DOMAIN gKnownServers : k # Current => gKnownServers[k].addr # Server.addr
  BY <1>1 DEF ListOK, Distinct
<1>4. ASSUME NEW k \in DOMAIN gKnownServers
      PROVE  /\ before'[k].addr = gKnownServers'[k].addr
             /\ Dialled(log', gKnownServers'[k].addr) <=>
                  k \notin Ahead' \/ (k = Current' /\ pc' \in {"redial", "net1", "net2"})
  <2>1. Dialled(log', gKnownServers'[k].addr) <=>
          Dialled(log, gKnownServers[k].addr) \/ k = Current
    BY <1>1, <1>3
  <2>2. Dialled(log, gKnownServers[k].addr) \/ k = Current <=> k \notin Ahead \ {Current}
    BY DEF Walked
  <2> QED
    BY <1>2, <2>1, <2>2 DEF Walked
<1>5. ASSUME NEW k \in Ahead'
      PROVE  /\ gKnownServers'[k] = before'[k]
             /\ gKnownServers'[k].addr \notin triedAddrs' \cup serverErrorAddrs'
  BY <1>1, <1>2, <1>3 DEF Walked
<1> QED
  BY <1>4, <1>5 DEF Walked

\* The server that is being dialled has one position.
LEMMA OnlyCurrent ==
  ASSUME ListOK, PlaceOK, IndexInv, MoreServers
  PROVE  /\ Current \in DOMAIN gKnownServers /\ Current \in Ahead
         /\ Server = gKnownServers[Current]
         /\ Server.addr \in AddrsOf(gKnownServers)
         /\ \A k \in DOMAIN gKnownServers : gKnownServers[k].addr = Server.addr <=> k = Current
<1>1. /\ Current \in DOMAIN gKnownServers /\ Current \in Ahead
      /\ Server = gKnownServers[Current]
  BY CurrentIs DEF Server
<1> QED
  BY <1>1 DEF ListOK, Distinct, AddrsOf

\* The steps that neither move on nor touch the list or the log.
LEMMA WalkedSame ==
  ASSUME Walked, UNCHANGED <<gKnownServers, before, log, tryLater, triedAddrs, serverErrorAddrs>>,
         Ahead' = Ahead,
         (pc \in {"redial", "net1", "net2"} <=> pc' \in {"redial", "net1", "net2"}),
         pc \in {"redial", "net1", "net2"} => Current' = Current
  PROVE  Walked'
BY DEF Walked

\* Every step of the sweep leaves the servers it is past dialled and the rest as they were.
LEMMA WalkStep ==
  ASSUME ListOK, PlaceOK, SeenOK, IndexInv, DialInv, WalkInv, Next \/ UNCHANGED vars
  PROVE  WalkInv'
<1> SUFFICES ASSUME sorts' = 0, pc' \in SweepPlaces
             PROVE  Walked'
  BY DEF WalkInv
<1>a. sorts \in Nat /\ (pc \in DialPlaces => MoreServers)
      /\ (pc \in {"redial", "net1", "net2"} => pc \in DialPlaces)
      /\ (pc \in DialPlaces => pc \in SweepPlaces)
  BY SortsAssumption DEF PlaceOK, DialPlaces, SweepPlaces
<1>b. sorts = 0 /\ pc \in SweepPlaces => Walked
  BY DEF WalkInv
<1>c. Walked /\ pc \in {"redial", "net1", "net2"} => Dialled(log, Server.addr)
  BY <1>a, OnlyCurrent DEF Walked
<1>d. ASSUME sorts = 0, pc \in DialPlaces, NEW try, NEW answer, Log(try, answer)
      PROVE  \A a : Dialled(log', a) <=> Dialled(log, a) \/ (a = Server.addr /\ try = "dial")
  BY <1>d, LogGrows
<1>1. CASE StopForCancel
  BY <1>1 DEF StopForCancel, SweepPlaces, DialPlaces
<1>2. CASE Skip
  <2>1. /\ Walked /\ Ahead' = Ahead /\ pc = "top" /\ pc' = "top"
        /\ tryLater' = Append(tryLater, ind) /\ Current = ind /\ gKnownServers[ind].recent
        /\ UNCHANGED <<gKnownServers, before, log, triedAddrs, serverErrorAddrs>>
    BY <1>2, <1>b, AheadKept DEF Skip, Server, Current, SweepPlaces
  <2>2. MoreServers
    BY <1>2 DEF Skip
  <2>3. before[ind].recent
    BY <2>1, <2>2, OnlyCurrent DEF Walked
  <2>4. \A j \in DOMAIN tryLater' : before[tryLater'[j]].recent
    BY <2>1, <2>3 DEF Walked, PlaceOK
  <2> QED
    BY <2>1, <2>4 DEF Walked
<1>3. CASE Connect
  BY <1>3, <1>b, WalkedSame DEF Connect, CallDial, Ahead, Current, SweepPlaces
<1>4. CASE \E try \in {"dial", "redial"} : AnswerSuccess(try)
  BY <1>4 DEF AnswerSuccess, Answer, Log, SweepPlaces, DialPlaces
<1>5. CASE \E try \in {"dial", "redial"} : AnswerOffline(try)
  <2>1. PICK try \in {"dial", "redial"} : AnswerOffline(try)
    BY <1>5
  <2>2. /\ pc = try /\ Log(try, "OFFLINE") /\ pc \in DialPlaces /\ sorts = 0 /\ MoreServers
        /\ pc' \in {"net1", "net2"}
        /\ UNCHANGED <<gKnownServers, before, nowTryingSkippedOnes, ind, tryLater,
                       triedAddrs, serverErrorAddrs>>
    BY <2>1, <1>a DEF AnswerOffline, Answer, DialPlaces
  <2>3. \A a : Dialled(log', a) <=> Dialled(log, a) \/ (a = Server.addr /\ try = "dial")
    BY <1>d, <2>2
  <2>4. Ahead' = Ahead /\ Current' = Current
    BY <2>2 DEF Ahead, Current
  <2>5. Walked
    BY <2>2, <1>a, <1>b
  <2>6. \A k \in DOMAIN gKnownServers :
          Dialled(log', gKnownServers[k].addr) <=> k \notin Ahead \/ k = Current
    <3>1. CASE try = "dial"
      BY <2>2, <2>3, <2>5, <3>1, OnlyCurrent DEF Walked
    <3>2. CASE try = "redial"
      BY <2>2, <2>3, <2>5, <3>2 DEF Walked
    <3> QED
      BY <3>1, <3>2
  <2> QED
    BY <2>2, <2>4, <2>5, <2>6 DEF Walked
<1>6. CASE \E try \in {"dial", "redial"}, answer \in Answers : AnswerIgnored(try, answer)
  <2>1. PICK try \in {"dial", "redial"}, answer \in Answers : AnswerIgnored(try, answer)
    BY <1>6
  <2>2. /\ pc = try /\ Log(try, answer) /\ pc \in DialPlaces /\ sorts = 0 /\ MoreServers
        /\ pc' = "top" /\ ind' = ind + 1 /\ gKnownServers' = gKnownServers
        /\ UNCHANGED <<before, nowTryingSkippedOnes, tryLater>>
        /\ Len(gKnownServers') = Len(gKnownServers)
        /\ DOMAIN gKnownServers' = DOMAIN gKnownServers
        /\ triedAddrs' \cup serverErrorAddrs' \subseteq
             triedAddrs \cup serverErrorAddrs \cup {Server.addr}
    BY <2>1, <1>a DEF AnswerIgnored, Answer, DialPlaces
  <2>4. Walked
    BY <2>2, <1>a, <1>b
  <2>5. \A a : Dialled(log', a) <=> Dialled(log, a) \/ a = Server.addr
    BY <1>c, <1>d, <2>2, <2>4
  <2>6. \A k \in DOMAIN gKnownServers :
          /\ gKnownServers'[k].addr = gKnownServers[k].addr
          /\ k # Current => gKnownServers'[k] = gKnownServers[k]
    BY <2>2
  <2> QED
    BY <2>2, <2>4, <2>5, <2>6, WalkedOn
<1>7. CASE AnswerError
  <2>1. /\ pc = "dial" /\ pc \in DialPlaces /\ MoreServers
    BY <1>7, <1>a DEF AnswerError, Answer, DialPlaces
  <2>3. /\ gKnownServers' = [gKnownServers EXCEPT ![Current] = FailedEntry]
        /\ FailedEntry \in Entries /\ FailedEntry.addr = Server.addr
    BY <1>7, <2>1, WrittenIs DEF AnswerError
  <2>2. /\ pc = "dial" /\ Log("dial", "ERROR") /\ pc \in DialPlaces /\ sorts = 0
        /\ MoreServers /\ pc' = "top" /\ ind' = ind + 1
        /\ UNCHANGED <<before, nowTryingSkippedOnes, tryLater>>
        /\ Len(gKnownServers') = Len(gKnownServers)
        /\ DOMAIN gKnownServers' = DOMAIN gKnownServers
        /\ triedAddrs' \cup serverErrorAddrs' \subseteq
             triedAddrs \cup serverErrorAddrs \cup {Server.addr}
    BY <1>7, <2>1, <2>3, WrittenTo DEF AnswerError, Answer
  <2>4. Walked
    BY <2>2, <1>a, <1>b
  <2>5. \A a : Dialled(log', a) <=> Dialled(log, a) \/ a = Server.addr
    BY <1>d, <2>2
  <2>6. \A k \in DOMAIN gKnownServers :
          /\ gKnownServers'[k].addr = gKnownServers[k].addr
          /\ k # Current => gKnownServers'[k] = gKnownServers[k]
    BY <2>1, <2>3, WrittenTo
  <2> QED
    BY <2>2, <2>4, <2>5, <2>6, WalkedOn
<1>8. CASE InternetUp
  <2>1. /\ pc = "net1" /\ pc \in DialPlaces /\ pc' = "redial" /\ sorts = 0
        /\ Log("net1", "UP")
        /\ UNCHANGED <<gKnownServers, before, nowTryingSkippedOnes, ind, tryLater,
                       triedAddrs, serverErrorAddrs>>
    BY <1>8 DEF InternetUp, DialPlaces
  <2>2. Ahead' = Ahead /\ Current' = Current
    BY <2>1 DEF Ahead, Current
  <2>3. Walked
    BY <2>1, <1>a, <1>b
  <2>4. \A a : Dialled(log', a) <=> Dialled(log, a)
    BY <1>d, <2>1
  <2> QED
    BY <2>1, <2>2, <2>3, <2>4 DEF Walked
<1>9. CASE StillOffline
  <2>1. /\ pc = "net2" /\ pc \in DialPlaces /\ MoreServers
    BY <1>9, <1>a DEF StillOffline, DialPlaces
  <2>3. /\ gKnownServers' = [gKnownServers EXCEPT ![Current] = FailedEntry]
        /\ FailedEntry \in Entries /\ FailedEntry.addr = Server.addr
    BY <1>9, <2>1, WrittenIs DEF StillOffline
  <2>2. /\ pc = "net2" /\ pc \in DialPlaces /\ sorts = 0 /\ Log("net2", "UP")
        /\ MoreServers /\ pc' = "top" /\ ind' = ind + 1
        /\ UNCHANGED <<before, nowTryingSkippedOnes, tryLater>>
        /\ Len(gKnownServers') = Len(gKnownServers)
        /\ DOMAIN gKnownServers' = DOMAIN gKnownServers
        /\ triedAddrs' \cup serverErrorAddrs' \subseteq
             triedAddrs \cup serverErrorAddrs \cup {Server.addr}
    BY <1>9, <2>1, <2>3, WrittenTo DEF StillOffline
  <2>4. Walked
    BY <2>2, <1>a, <1>b
  <2>5. \A a : Dialled(log', a) <=> Dialled(log, a) \/ a = Server.addr
    BY <1>c, <1>d, <2>2, <2>4
  <2>6. \A k \in DOMAIN gKnownServers :
          /\ gKnownServers'[k].addr = gKnownServers[k].addr
          /\ k # Current => gKnownServers'[k] = gKnownServers[k]
    BY <2>1, <2>3, WrittenTo
  <2> QED
    BY <2>2, <2>4, <2>5, <2>6, WalkedOn
<1>10. CASE InternetDown
  <2>2. /\ pc \in {"net1", "net2"} /\ Log(pc, "DOWN") /\ pc \in DialPlaces /\ sorts = 0
        /\ MoreServers /\ pc' = "top" /\ ind' = ind + 1 /\ gKnownServers' = gKnownServers
        /\ UNCHANGED <<before, nowTryingSkippedOnes, tryLater>>
        /\ Len(gKnownServers') = Len(gKnownServers)
        /\ DOMAIN gKnownServers' = DOMAIN gKnownServers
        /\ triedAddrs' \cup serverErrorAddrs' \subseteq
             triedAddrs \cup serverErrorAddrs \cup {Server.addr}
    BY <1>10, <1>a DEF InternetDown, DialPlaces
  <2>4. Walked
    BY <2>2, <1>a, <1>b
  <2>5. \A a : Dialled(log', a) <=> Dialled(log, a) \/ a = Server.addr
    BY <1>c, <1>d, <2>2, <2>4
  <2>6. \A k \in DOMAIN gKnownServers :
          /\ gKnownServers'[k].addr = gKnownServers[k].addr
          /\ k # Current => gKnownServers'[k] = gKnownServers[k]
    BY <2>2
  <2> QED
    BY <2>2, <2>4, <2>5, <2>6, WalkedOn
<1>11. CASE TrySkippedOnes
  BY <1>11, <1>b, AheadKept, WalkedSame DEF TrySkippedOnes, SweepPlaces
<1>12. CASE PretendCancelled
  BY <1>12 DEF PretendCancelled, SweepPlaces, DialPlaces
<1>13. CASE AllFailed
  BY <1>13 DEF AllFailed, SweepPlaces, DialPlaces
<1>14. CASE Finish
  BY <1>14 DEF Finish, SweepPlaces, DialPlaces
<1>15. CASE NeedServer
  BY <1>15 DEF NeedServer, SweepPlaces, DialPlaces
<1>16. CASE NoSalmonServer
  BY <1>16 DEF NoSalmonServer, SweepPlaces, DialPlaces
<1>17. CASE \E a \in New : NewSalmonServer(a)
  <2>1. /\ ListGrown /\ sorts = 0 /\ before' = gKnownServers' /\ log' = <<>> /\ pc' = "top"
        /\ nowTryingSkippedOnes' = FALSE /\ ind' = 1 /\ tryLater' = <<>>
        /\ triedAddrs' = {} /\ serverErrorAddrs' = {}
    BY <1>17 DEF NewSalmonServer, ListGrown
  <2>2. gKnownServers' \in Seq(Entries)
    BY ListTyped DEF ListOK
  <2>3. Ahead' = DOMAIN gKnownServers'
    <3>1. /\ {tryLater'[k] : k \in DOMAIN tryLater'} = {}
          /\ 1 .. Len(gKnownServers') = DOMAIN gKnownServers'
      BY <2>1, <2>2
    <3>2. Ahead' = (1 .. Len(gKnownServers')) \cup {tryLater'[k] : k \in DOMAIN tryLater'}
      BY <2>1 DEF Ahead
    <3> QED
      BY <3>1, <3>2
  <2>4. \A a : ~Dialled(log', a)
    BY <2>1 DEF Dialled
  <2> QED
    BY <2>1, <2>3, <2>4 DEF Walked
<1>18. CASE UserCancels
  BY <1>18, <1>b, WalkedSame DEF UserCancels, Ahead, Current, SweepPlaces
<1>19. CASE EarlierThreadSorts
  BY <1>19, <1>a DEF EarlierThreadSorts
<1>20. CASE UNCHANGED vars
  BY <1>20, <1>b, WalkedSame DEF vars, Ahead, Current, SweepPlaces
<1> QED
  BY <1>1, <1>2, <1>3, <1>4, <1>5, <1>6, <1>7, <1>8, <1>9, <1>10, <1>11, <1>12, <1>13,
     <1>14, <1>15, <1>16, <1>17, <1>18, <1>19, <1>20
     DEF Next, Sweeping, Calling, Done

\* One more line in the log.
LEMMA LogStays ==
  ASSUME PlaceOK, SeenOK, DialInv, WalkInv, LogInv, ListOK, IndexInv,
         sorts = 0, pc \in DialPlaces, NEW try, NEW answer, Log(try, answer), try = pc
  PROVE  /\ DialsOnce'
         /\ dialled = {Server.addr}
         /\ \A a, t, w : GotAnswer(a, t, w) => GotAnswer(a, t, w)'
         /\ \A a \in dialled : GotAnswer(a, try, answer)'
<1>1. /\ DOMAIN log = 1 .. Len(log) /\ Len(log) \in Nat
      /\ DOMAIN log' = 1 .. Len(log) + 1
      /\ \A k \in DOMAIN log : log'[k] = log[k]
      /\ log'[Len(log) + 1] = [addr |-> Server.addr, try |-> try, answer |-> answer]
      /\ \A a, t, w : GotAnswer(a, t, w) => GotAnswer(a, t, w)'
      /\ \A a : a = Server.addr => GotAnswer(a, try, answer)'
  BY LogGrows
<1>2. dialled = {Server.addr}
  BY DEF DialInv
<1>3. try = "dial" => ~Dialled(log, Server.addr)
  BY OnlyCurrent DEF WalkInv, Walked, PlaceOK, SweepPlaces
<1>4. \A k \in DOMAIN log : log[k].try = "dial" => try # "dial" \/ log[k].addr # Server.addr
  BY <1>3 DEF Dialled
<1>5. DialsOnce
  BY DEF LogInv
<1>6. DialsOnce'
  BY <1>1, <1>4, <1>5 DEF DialsOnce
<1> QED
  BY <1>1, <1>2, <1>6

\* Every step adds to the log and the reports only what was found out.
LEMMA LogStep ==
  ASSUME ListOK, PlaceOK, SeenOK, IndexInv, DialInv, ReturnInv, WalkInv, LogInv,
         Next \/ UNCHANGED vars
  PROVE  LogInv'
<1> SUFFICES ASSUME sorts' = 0
             PROVE  DialsOnce' /\ SeenOffline' /\ Earned' /\ AllDialled'
  BY DEF LogInv
<1>a. sorts \in Nat /\ (pc \in DialPlaces => MoreServers)
  BY SortsAssumption DEF PlaceOK
<1>b. sorts = 0 => DialsOnce /\ SeenOffline /\ Earned /\ AllDialled
  BY DEF LogInv
<1>c. ASSUME log' = log
      PROVE  /\ \A a, t, w : GotAnswer(a, t, w)' <=> GotAnswer(a, t, w)
             /\ DialsOnce => DialsOnce'
  BY <1>c DEF GotAnswer, DialsOnce
<1>1. CASE StopForCancel
  BY <1>1, <1>b, <1>c
     DEF StopForCancel, SeenOffline, Earned, AllDialled, Exhausted, MoreServers
<1>2. CASE Skip
  BY <1>2, <1>b, <1>c DEF Skip, SeenOffline, Earned, AllDialled, Exhausted, MoreServers
<1>3. CASE Connect
  BY <1>3, <1>b, <1>c
     DEF Connect, CallDial, SeenOffline, Earned, AllDialled, Exhausted, MoreServers
<1>4. CASE \E try \in {"dial", "redial"} : AnswerSuccess(try)
  <2>1. PICK try \in {"dial", "redial"} : AnswerSuccess(try)
    BY <1>4
  <2>2. /\ pc = try /\ Log(try, "SUCCESS") /\ pc \in DialPlaces /\ sorts = 0 /\ pc' = "return"
        /\ connectedSuccessfully' = TRUE /\ UNCHANGED <<triedAddrs, serverErrorAddrs>>
    BY <2>1 DEF AnswerSuccess, Answer, DialPlaces
  <2>3. /\ DialsOnce' /\ dialled = {Server.addr}
        /\ \A a, t, w : GotAnswer(a, t, w) => GotAnswer(a, t, w)'
        /\ \A a \in dialled : GotAnswer(a, try, "SUCCESS")'
    BY <2>2, LogStays
  <2> QED
    BY <1>b, <2>2, <2>3 DEF SeenOffline, Earned, AllDialled
<1>5. CASE \E try \in {"dial", "redial"} : AnswerOffline(try)
  <2>1. PICK try \in {"dial", "redial"} : AnswerOffline(try)
    BY <1>5
  <2>2. /\ pc = try /\ Log(try, "OFFLINE") /\ pc \in DialPlaces /\ sorts = 0
        /\ pc' = IF try = "dial" THEN "net1" ELSE "net2"
        /\ UNCHANGED <<triedAddrs, serverErrorAddrs, dialled>>
    BY <2>1 DEF AnswerOffline, Answer, DialPlaces
  <2>3. /\ DialsOnce' /\ dialled = {Server.addr}
        /\ \A a, t, w : GotAnswer(a, t, w) => GotAnswer(a, t, w)'
        /\ \A a \in dialled : GotAnswer(a, try, "OFFLINE")'
    BY <2>2, LogStays
  <2> QED
    BY <1>b, <2>2, <2>3 DEF SeenOffline, Earned, AllDialled
<1>6. CASE \E try \in {"dial", "redial"}, answer \in Answers : AnswerIgnored(try, answer)
  <2>1. PICK try \in {"dial", "redial"}, answer \in Answers : AnswerIgnored(try, answer)
    BY <1>6
  <2>2. /\ pc = try /\ Log(try, answer) /\ pc \in DialPlaces /\ sorts = 0 /\ pc' = "top"
        /\ UNCHANGED <<triedAddrs, serverErrorAddrs>>
    BY <2>1 DEF AnswerIgnored, Answer, DialPlaces
  <2>3. /\ DialsOnce' /\ dialled = {Server.addr}
        /\ \A a, t, w : GotAnswer(a, t, w) => GotAnswer(a, t, w)'
        /\ \A a \in dialled : GotAnswer(a, try, answer)'
    BY <2>2, LogStays
  <2> QED
    BY <1>b, <2>2, <2>3 DEF SeenOffline, Earned, AllDialled
<1>7. CASE AnswerError
  <2>2. /\ pc = "dial" /\ Log("dial", "ERROR") /\ pc \in DialPlaces /\ sorts = 0 /\ pc' = "top"
        /\ triedAddrs' = triedAddrs /\ serverErrorAddrs' = serverErrorAddrs \cup {Server.addr}
    BY <1>7 DEF AnswerError, Answer, DialPlaces
  <2>3. /\ DialsOnce' /\ dialled = {Server.addr}
        /\ \A a, t, w : GotAnswer(a, t, w) => GotAnswer(a, t, w)'
        /\ \A a \in dialled : GotAnswer(a, "dial", "ERROR")'
    BY <2>2, LogStays
  <2> QED
    BY <1>b, <2>2, <2>3 DEF SeenOffline, Earned, AllDialled
<1>8. CASE InternetUp
  <2>1. /\ pc = "net1" /\ pc \in DialPlaces /\ pc' = "redial" /\ sorts = 0
        /\ Log("net1", "UP")
        /\ dialled' = {Server.addr} /\ UNCHANGED <<triedAddrs, serverErrorAddrs>>
    BY <1>8 DEF InternetUp, CallDial, DialPlaces
  <2>2. /\ DialsOnce' /\ dialled = {Server.addr}
        /\ \A a, t, w : GotAnswer(a, t, w) => GotAnswer(a, t, w)'
        /\ \A a \in dialled : GotAnswer(a, "net1", "UP")'
    BY <2>1, LogStays
  <2> QED
    BY <1>b, <2>1, <2>2 DEF SeenOffline, Earned, AllDialled
<1>9. CASE StillOffline
  <2>1. /\ pc = "net2" /\ pc \in DialPlaces /\ pc' = "top" /\ sorts = 0
        /\ Log("net2", "UP")
        /\ triedAddrs' = triedAddrs \cup {Server.addr}
        /\ serverErrorAddrs' = serverErrorAddrs
    BY <1>9 DEF StillOffline, DialPlaces
  <2>2. /\ DialsOnce' /\ dialled = {Server.addr}
        /\ \A a, t, w : GotAnswer(a, t, w) => GotAnswer(a, t, w)'
        /\ \A a \in dialled : GotAnswer(a, "net2", "UP")'
    BY <2>1, LogStays
  <2> QED
    BY <1>b, <2>1, <2>2 DEF SeenOffline, Earned, AllDialled
<1>10. CASE InternetDown
  <2>2. /\ pc \in {"net1", "net2"} /\ Log(pc, "DOWN") /\ pc \in DialPlaces /\ sorts = 0
        /\ pc' = "top" /\ UNCHANGED <<triedAddrs, serverErrorAddrs>>
    BY <1>10 DEF InternetDown, DialPlaces
  <2>3. /\ DialsOnce' /\ dialled = {Server.addr}
        /\ \A a, t, w : GotAnswer(a, t, w) => GotAnswer(a, t, w)'
    BY <2>2, LogStays
  <2> QED
    BY <1>b, <2>2, <2>3 DEF SeenOffline, Earned, AllDialled
<1>11. CASE TrySkippedOnes
  BY <1>11, <1>b, <1>c
     DEF TrySkippedOnes, SeenOffline, Earned, AllDialled, Exhausted, MoreServers
<1>12. CASE PretendCancelled
  BY <1>12, <1>b, <1>c
     DEF PretendCancelled, SeenOffline, Earned, AllDialled, Exhausted, MoreServers
<1>13. CASE AllFailed
  <2>1. /\ pc = "top" /\ pc' = "return" /\ sorts = 0 /\ log' = log
        /\ nowTryingSkippedOnes /\ ~MoreServers
        /\ gKnownServers' \in Reorderings(gKnownServers)
        /\ UNCHANGED <<triedAddrs, serverErrorAddrs>>
    BY <1>13 DEF AllFailed
  <2>2. AddrsOf(gKnownServers') = AddrsOf(gKnownServers)
    BY <2>1, Reordered DEF ListOK
  <2>3. Ahead = {}
    BY <2>1 DEF Ahead, MoreServers, PlaceOK
  <2>4. \A a \in AddrsOf(gKnownServers) : Dialled(log, a)
    BY <2>1, <2>3 DEF WalkInv, Walked, SweepPlaces, AddrsOf
  <2> QED
    BY <1>b, <1>c, <2>1, <2>2, <2>4 DEF SeenOffline, Earned, AllDialled
<1>14. CASE Finish
  BY <1>14, <1>b, <1>c DEF Finish, SeenOffline, Earned, AllDialled, Exhausted, MoreServers
<1>15. CASE NeedServer
  BY <1>15, <1>b, <1>c
     DEF NeedServer, SeenOffline, Earned, AllDialled, Exhausted, MoreServers
<1>16. CASE NoSalmonServer
  BY <1>16, <1>b, <1>c
     DEF NoSalmonServer, SeenOffline, Earned, AllDialled, Exhausted, MoreServers
<1>17. CASE \E a \in New : NewSalmonServer(a)
  BY <1>17 DEF NewSalmonServer, DialsOnce, SeenOffline, Earned, AllDialled
<1>18. CASE UserCancels
  BY <1>18, <1>b, <1>c
     DEF UserCancels, SeenOffline, Earned, AllDialled, Exhausted, MoreServers
<1>19. CASE EarlierThreadSorts
  BY <1>19, <1>a DEF EarlierThreadSorts
<1>20. CASE UNCHANGED vars
  BY <1>20, <1>b, <1>c DEF vars, SeenOffline, Earned, AllDialled, Exhausted, MoreServers
<1> QED
  BY <1>1, <1>2, <1>3, <1>4, <1>5, <1>6, <1>7, <1>8, <1>9, <1>10, <1>11, <1>12, <1>13,
     <1>14, <1>15, <1>16, <1>17, <1>18, <1>19, <1>20
     DEF Next, Sweeping, Calling, Done

\* During the sweep the history has what the list had.
LEMMA BeforeIs ==
  ASSUME ListOK, Walked
  PROVE  \A k \in DOMAIN gKnownServers : /\ EntryOf(before, gKnownServers[k].addr) = before[k]
                                         /\ k \in DOMAIN before
<1>1. Distinct(before)
  BY DEF Distinct, ListOK, Walked
<1> QED
  BY <1>1, EntryIs DEF Walked

\* When a server is dialled that failed recently, every other has been dialled.
LEMMA LateLine ==
  ASSUME ListOK, PlaceOK, SeenOK, IndexInv, DialInv, WalkInv, LikelyDownComeLast,
         sorts = 0, pc \in DialPlaces, NEW try, NEW answer, Log(try, answer), before' = before
  PROVE  LikelyDownComeLast'
<1>1. /\ DOMAIN log = 1 .. Len(log) /\ Len(log) \in Nat
      /\ DOMAIN log' = 1 .. Len(log) + 1
      /\ \A k \in DOMAIN log : log'[k] = log[k]
      /\ log'[Len(log) + 1] = [addr |-> Server.addr, try |-> try, answer |-> answer]
      /\ log'[Len(log) + 1].addr = Server.addr
  BY LogGrows
<1>2. Walked /\ MoreServers
  BY DEF WalkInv, PlaceOK, SweepPlaces
<1>3. ASSUME NEW k \in DOMAIN log', EntryOf(before, log'[k].addr).recent,
             NEW a \in AddrsOf(before), ~EntryOf(before, a).recent
      PROVE  \E j \in DOMAIN log' : log'[j].addr = a /\ log'[j].try = "dial" /\ j < k
  <2>1. CASE k \in DOMAIN log
    <3>1. \E j \in DOMAIN log : log[j].addr = a /\ log[j].try = "dial" /\ j < k
      BY <1>1, <1>3, <2>1 DEF LikelyDownComeLast, Dials
    <3> QED
      BY <1>1, <3>1
  <2>2. CASE k = Len(log) + 1
    <3>1. EntryOf(before, Server.addr).recent
      BY <1>1, <1>3, <2>2
    <3>2. Server.recent
      BY <1>2, <3>1, OnlyCurrent, BeforeIs DEF Walked
    <3>3. nowTryingSkippedOnes
      BY <3>2 DEF DialInv
    <3>4. PICK m \in DOMAIN gKnownServers : gKnownServers[m].addr = a
      BY DEF ListOK, AddrsOf
    <3>5. ~before[m].recent
      BY <1>2, <1>3, <3>4, BeforeIs
    <3>6. m \notin Ahead
      BY <1>2, <3>3, <3>5 DEF Ahead, Walked, PlaceOK
    <3>7. Dialled(log, a)
      BY <1>2, <3>4, <3>6 DEF Walked
    <3> QED
      BY <1>1, <2>2, <3>7 DEF Dialled
  <2> QED
    BY <1>1, <2>1, <2>2
<1> QED
  BY <1>3 DEF LikelyDownComeLast, Dials

\* Every step keeps likely-down servers to the last.
LEMMA LateStep ==
  ASSUME ListOK, PlaceOK, SeenOK, IndexInv, DialInv, WalkInv, LikelyDownComeLast,
         Next \/ UNCHANGED vars
  PROVE  LikelyDownComeLast'
<1> SUFFICES ASSUME sorts' = 0
             PROVE  LikelyDownComeLast'
  BY DEF LikelyDownComeLast
<1>a. sorts \in Nat
  BY SortsAssumption DEF PlaceOK
<1>b. ASSUME sorts = 0, before' = before, log' = log
      PROVE  LikelyDownComeLast'
  BY <1>b DEF LikelyDownComeLast, Dials
<1>1. CASE StopForCancel
  BY <1>1, <1>b DEF StopForCancel
<1>2. CASE Skip
  BY <1>2, <1>b DEF Skip
<1>3. CASE Connect
  BY <1>3, <1>b DEF Connect, CallDial
<1>4. CASE \E try \in {"dial", "redial"} : AnswerSuccess(try)
  BY <1>4, LateLine DEF AnswerSuccess, Answer, DialPlaces
<1>5. CASE \E try \in {"dial", "redial"} : AnswerOffline(try)
  BY <1>5, LateLine DEF AnswerOffline, Answer, DialPlaces
<1>6. CASE \E try \in {"dial", "redial"}, answer \in Answers : AnswerIgnored(try, answer)
  BY <1>6, LateLine DEF AnswerIgnored, Answer, DialPlaces
<1>7. CASE AnswerError
  BY <1>7, LateLine DEF AnswerError, Answer, DialPlaces
<1>8. CASE InternetUp
  BY <1>8, LateLine DEF InternetUp, CallDial, DialPlaces
<1>9. CASE StillOffline
  BY <1>9, LateLine DEF StillOffline, DialPlaces
<1>10. CASE InternetDown
  BY <1>10, LateLine DEF InternetDown, DialPlaces
<1>11. CASE TrySkippedOnes
  BY <1>11, <1>b DEF TrySkippedOnes
<1>12. CASE PretendCancelled
  BY <1>12, <1>b DEF PretendCancelled
<1>13. CASE AllFailed
  BY <1>13, <1>b DEF AllFailed
<1>14. CASE Finish
  BY <1>14, <1>b DEF Finish
<1>15. CASE NeedServer
  BY <1>15, <1>b DEF NeedServer
<1>16. CASE NoSalmonServer
  BY <1>16, <1>b DEF NoSalmonServer
<1>17. CASE \E a \in New : NewSalmonServer(a)
  BY <1>17 DEF NewSalmonServer, LikelyDownComeLast
<1>18. CASE UserCancels
  BY <1>18, <1>b DEF UserCancels
<1>19. CASE EarlierThreadSorts
  BY <1>19, <1>a DEF EarlierThreadSorts
<1>20. CASE UNCHANGED vars
  BY <1>20, <1>b DEF vars
<1> QED
  BY <1>1, <1>2, <1>3, <1>4, <1>5, <1>6, <1>7, <1>8, <1>9, <1>10, <1>11, <1>12, <1>13,
     <1>14, <1>15, <1>16, <1>17, <1>18, <1>19, <1>20
     DEF Next, Sweeping, Calling, Done

\* What is said of the list's entry for a.
RecordOf(a) ==
  LET now == EntryOf(gKnownServers, a)
      was == EntryOf(before, a) IN
  IF a \in triedAddrs \cup serverErrorAddrs
  THEN now.recent /\ now.failureCount = was.failureCount + 1
  ELSE /\ now.recent = was.recent
       /\ now.failureCount = IF connectedSuccessfully /\ a \in dialled
                             THEN 0 ELSE was.failureCount

\* The property, server by server.
LEMMA RecordIs ==
  /\ ReportedIsRecorded <=> (sorts = 0 => \A a \in AddrsOf(gKnownServers) : RecordOf(a))
  /\ ReportedIsRecorded' <=> (sorts' = 0 => \A a \in AddrsOf(gKnownServers') : RecordOf(a)')
BY DEF ReportedIsRecorded, RecordOf

\* A server that failed is recorded, and the rest stays as it was.
LEMMA FailureRecorded ==
  ASSUME ListOK, PlaceOK, IndexInv, Walked, MoreServers, ~connectedSuccessfully,
         \A a \in AddrsOf(gKnownServers) : RecordOf(a),
         gKnownServers' = [gKnownServers EXCEPT ![Current] = FailedEntry],
         UNCHANGED <<before, connectedSuccessfully>>,
         triedAddrs' \cup serverErrorAddrs' = triedAddrs \cup serverErrorAddrs \cup {Server.addr}
  PROVE  \A a \in AddrsOf(gKnownServers') : RecordOf(a)'
<1>1. /\ FailedEntry \in Entries /\ FailedEntry.addr = Server.addr
      /\ FailedEntry.recent = TRUE /\ FailedEntry.failureCount = Server.failureCount + 1
  BY WrittenIs DEF FailedEntry, Entry
<1>2. /\ AddrsOf(gKnownServers') = AddrsOf(gKnownServers)
      /\ EntryOf(gKnownServers', Server.addr) = FailedEntry
      /\ \A a \in AddrsOf(gKnownServers) \ {Server.addr} :
           EntryOf(gKnownServers', a) = EntryOf(gKnownServers, a)
  BY <1>1, WrittenTo
<1>3. EntryOf(before, Server.addr) = Server
  BY OnlyCurrent, BeforeIs DEF Walked
<1>4. \A a : a = Server.addr => RecordOf(a)'
  BY <1>1, <1>2, <1>3 DEF RecordOf
<1>5. ASSUME NEW a \in AddrsOf(gKnownServers), a # Server.addr
      PROVE  RecordOf(a)'
  BY <1>2, <1>5 DEF RecordOf
<1> QED
  BY <1>2, <1>4, <1>5

\* A server that connected starts again from zero.
LEMMA SuccessRecorded ==
  ASSUME ListOK, PlaceOK, IndexInv, Walked, MoreServers, ~connectedSuccessfully,
         \A a \in AddrsOf(gKnownServers) : RecordOf(a), dialled = {Server.addr},
         gKnownServers' = [gKnownServers EXCEPT ![Current] = ConnectedEntry],
         UNCHANGED <<before, dialled, triedAddrs, serverErrorAddrs>>,
         connectedSuccessfully' = TRUE
  PROVE  \A a \in AddrsOf(gKnownServers') : RecordOf(a)'
<1>1. /\ ConnectedEntry \in Entries /\ ConnectedEntry.addr = Server.addr
      /\ ConnectedEntry.recent = Server.recent /\ ConnectedEntry.failureCount = 0
  BY WrittenIs DEF ConnectedEntry, Entry
<1>2. /\ AddrsOf(gKnownServers') = AddrsOf(gKnownServers)
      /\ EntryOf(gKnownServers', Server.addr) = ConnectedEntry
      /\ \A a \in AddrsOf(gKnownServers) \ {Server.addr} :
           EntryOf(gKnownServers', a) = EntryOf(gKnownServers, a)
  BY <1>1, WrittenTo
<1>3. EntryOf(before, Server.addr) = Server /\ Server.addr \notin triedAddrs \cup serverErrorAddrs
  BY OnlyCurrent, BeforeIs DEF Walked
<1>4. \A a : a = Server.addr => RecordOf(a)'
  BY <1>1, <1>2, <1>3 DEF RecordOf
<1>5. ASSUME NEW a \in AddrsOf(gKnownServers), a # Server.addr
      PROVE  RecordOf(a)'
  BY <1>2, <1>5 DEF RecordOf
<1> QED
  BY <1>2, <1>4, <1>5

\* Every step records what it reports.
LEMMA RecordStep ==
  ASSUME ListOK, PlaceOK, IndexInv, DialInv, ReturnInv, WalkInv, ReportedIsRecorded,
         Next \/ UNCHANGED vars
  PROVE  ReportedIsRecorded'
<1> SUFFICES ASSUME sorts' = 0
             PROVE  \A a \in AddrsOf(gKnownServers') : RecordOf(a)'
  BY RecordIs
<1>a. sorts \in Nat /\ (pc \in DialPlaces => MoreServers)
  BY SortsAssumption DEF PlaceOK
<1>b. sorts = 0 => \A a \in AddrsOf(gKnownServers) : RecordOf(a)
  BY RecordIs
<1>c. ASSUME sorts = 0, UNCHANGED <<gKnownServers, before, triedAddrs, serverErrorAddrs,
                                    connectedSuccessfully>>,
             dialled' = dialled \/ ~connectedSuccessfully
      PROVE  \A a \in AddrsOf(gKnownServers') : RecordOf(a)'
  BY <1>b, <1>c DEF RecordOf
<1>d. pc \in SweepPlaces => ~connectedSuccessfully
  BY DEF ReturnInv, SweepPlaces, DialPlaces
<1>e. sorts = 0 /\ pc \in DialPlaces => Walked /\ dialled = {Server.addr}
  BY DEF WalkInv, DialInv, SweepPlaces
<1>1. CASE StopForCancel
  BY <1>1, <1>c DEF StopForCancel
<1>2. CASE Skip
  BY <1>2, <1>c DEF Skip
<1>3. CASE Connect
  BY <1>3, <1>c, <1>d DEF Connect, CallDial, SweepPlaces, DialPlaces
<1>4. CASE \E try \in {"dial", "redial"} : AnswerSuccess(try)
  <2>1. PICK try \in {"dial", "redial"} : AnswerSuccess(try)
    BY <1>4
  <2>2. /\ pc \in DialPlaces /\ pc \in SweepPlaces /\ sorts = 0 /\ MoreServers
        /\ gKnownServers' = [gKnownServers EXCEPT ![Current].failureCount = 0]
        /\ UNCHANGED <<before, dialled, triedAddrs, serverErrorAddrs>>
        /\ connectedSuccessfully' = TRUE
    BY <2>1, <1>a DEF AnswerSuccess, Answer, DialPlaces, SweepPlaces
  <2>3. gKnownServers' = [gKnownServers EXCEPT ![Current] = ConnectedEntry]
    BY <2>2, WrittenIs
  <2> QED
    BY <1>b, <1>d, <1>e, <2>2, <2>3, SuccessRecorded
<1>5. CASE \E try \in {"dial", "redial"} : AnswerOffline(try)
  BY <1>5, <1>c DEF AnswerOffline, Answer, Log
<1>6. CASE \E try \in {"dial", "redial"}, answer \in Answers : AnswerIgnored(try, answer)
  BY <1>6, <1>c DEF AnswerIgnored, Answer, Log
<1>7. CASE AnswerError
  <2>2. /\ pc \in DialPlaces /\ pc \in SweepPlaces /\ sorts = 0 /\ MoreServers
        /\ gKnownServers' = Failed(gKnownServers)
        /\ UNCHANGED <<before, connectedSuccessfully>>
        /\ triedAddrs' \cup serverErrorAddrs' =
             triedAddrs \cup serverErrorAddrs \cup {Server.addr}
    BY <1>7, <1>a DEF AnswerError, Answer, DialPlaces, SweepPlaces
  <2>3. gKnownServers' = [gKnownServers EXCEPT ![Current] = FailedEntry]
    BY <2>2, WrittenIs
  <2> QED
    BY <1>b, <1>d, <1>e, <2>2, <2>3, FailureRecorded
<1>8. CASE InternetUp
  BY <1>8, <1>c, <1>d DEF InternetUp, CallDial, SweepPlaces, DialPlaces
<1>9. CASE StillOffline
  <2>2. /\ pc \in DialPlaces /\ pc \in SweepPlaces /\ sorts = 0 /\ MoreServers
        /\ gKnownServers' = Failed(gKnownServers)
        /\ UNCHANGED <<before, connectedSuccessfully>>
        /\ triedAddrs' \cup serverErrorAddrs' =
             triedAddrs \cup serverErrorAddrs \cup {Server.addr}
    BY <1>9, <1>a DEF StillOffline, DialPlaces, SweepPlaces
  <2>3. gKnownServers' = [gKnownServers EXCEPT ![Current] = FailedEntry]
    BY <2>2, WrittenIs
  <2> QED
    BY <1>b, <1>d, <1>e, <2>2, <2>3, FailureRecorded
<1>10. CASE InternetDown
  BY <1>10, <1>c DEF InternetDown, Log
<1>11. CASE TrySkippedOnes
  BY <1>11, <1>c DEF TrySkippedOnes
<1>12. CASE PretendCancelled
  BY <1>12, <1>c DEF PretendCancelled
<1>13. CASE AllFailed
  <2>1. /\ sorts = 0 /\ pc \in SweepPlaces /\ gKnownServers' \in Reorderings(gKnownServers)
        /\ UNCHANGED <<before, dialled, triedAddrs, serverErrorAddrs, connectedSuccessfully>>
    BY <1>13 DEF AllFailed, SweepPlaces
  <2>2. /\ AddrsOf(gKnownServers') = AddrsOf(gKnownServers)
        /\ \A a : EntryOf(gKnownServers', a) = EntryOf(gKnownServers, a)
    BY <2>1, Reordered DEF ListOK
  <2> QED
    BY <1>b, <2>1, <2>2 DEF RecordOf
<1>14. CASE Finish
  BY <1>14, <1>c DEF Finish
<1>15. CASE NeedServer
  BY <1>15, <1>c DEF NeedServer
<1>16. CASE NoSalmonServer
  BY <1>16, <1>c DEF NoSalmonServer
<1>17. CASE \E a \in New : NewSalmonServer(a)
  <2>1. /\ sorts = 0 /\ before' = gKnownServers' /\ connectedSuccessfully' = FALSE
        /\ triedAddrs' = {} /\ serverErrorAddrs' = {}
    BY <1>17 DEF NewSalmonServer
  <2> QED
    BY <2>1 DEF RecordOf
<1>18. CASE UserCancels
  BY <1>18, <1>c DEF UserCancels
<1>19. CASE EarlierThreadSorts
  BY <1>19, <1>a DEF EarlierThreadSorts
<1>20. CASE UNCHANGED vars
  BY <1>20, <1>c DEF vars
<1> QED
  BY <1>1, <1>2, <1>3, <1>4, <1>5, <1>6, <1>7, <1>8, <1>9, <1>10, <1>11, <1>12, <1>13,
     <1>14, <1>15, <1>16, <1>17, <1>18, <1>19, <1>20
     DEF Next, Sweeping, Calling, Done

----------------------------------------------------------------------------
(* Everything together. *)

\* The invariant holds before the first dial.
LEMMA InitAll == Init => IInv
<1> SUFFICES ASSUME Init
             PROVE  IInv
  OBVIOUS
<1>1. ListOK /\ PlaceOK /\ SeenOK /\ IndexInv /\ DialInv
  BY InitTyped
<1>2. /\ before = gKnownServers /\ pc = IF gKnownServers = <<>> THEN "return" ELSE "top"
      /\ nowTryingSkippedOnes = FALSE /\ ind = 1 /\ tryLater = <<>> /\ okToNeedServer = TRUE
      /\ triedAddrs = {} /\ serverErrorAddrs = {} /\ connectedSuccessfully = FALSE
      /\ log = <<>>
  BY DEF Init
<1>3. TypeOK
  BY <1>1, TypeParts
<1>4. /\ gKnownServers \in Seq(Entries)
      /\ gKnownServers = <<>> => Len(gKnownServers) = 0 /\ DOMAIN gKnownServers = {}
  BY <1>1 DEF ListOK
<1>5. ReturnInv
  BY <1>2, <1>4 DEF ReturnInv, Exhausted, MoreServers
<1>6. Ahead = DOMAIN gKnownServers
  <2>1. {tryLater[k] : k \in DOMAIN tryLater} = {}
    BY <1>2
  <2>2. 1 .. Len(gKnownServers) = DOMAIN gKnownServers
    BY <1>4
  <2> QED
    BY <1>2, <2>1, <2>2 DEF Ahead
<1>7. WalkInv
  BY <1>2, <1>6 DEF WalkInv, Walked, Dialled
<1>8. LogInv
  BY <1>2, <1>4 DEF LogInv, DialsOnce, SeenOffline, Earned, AllDialled, AddrsOf
<1>9. LikelyDownComeLast /\ ReportedIsRecorded
  BY <1>2, RecordIs DEF LikelyDownComeLast, RecordOf
<1> QED
  BY <1>1, <1>3, <1>5, <1>7, <1>8, <1>9 DEF IInv

\* The inductive invariant: where the sweep is tells which servers have been dialled, what
\* the log holds of them and what the list has recorded, until somebody sorts the list.
THEOREM SweepInvariant == Spec => []IInv
<1>1. Init => IInv
  BY InitAll
<1>2. IInv /\ [Next]_vars => IInv'
  <2> SUFFICES ASSUME IInv, Next \/ UNCHANGED vars
               PROVE  IInv'
    OBVIOUS
  <2>1. ListOK /\ PlaceOK /\ SeenOK
    BY TypeParts DEF IInv
  <2>2. ListOK' /\ PlaceOK' /\ SeenOK' /\ IndexInv' /\ DialInv'
    BY <2>1, ListTyped, PlaceTyped, SeenTyped DEF IInv
  <2>3. TypeOK'
    BY <2>2, TypeParts
  <2>4. ReturnInv' /\ WalkInv' /\ LogInv'
    BY <2>1, ReturnStep, WalkStep, LogStep DEF IInv
  <2>5. LikelyDownComeLast' /\ ReportedIsRecorded'
    BY <2>1, LateStep, RecordStep DEF IInv
  <2> QED
    BY <2>2, <2>3, <2>4, <2>5 DEF IInv
<1> QED
  BY <1>1, <1>2, PTL DEF Spec

\* No server is dialled twice in a sweep, but for the double check, and by the time
\* the directory server is asked every known server has been dialled: both passes of
\* tryConnectAnyServer together walk the whole list, whatever it is.
THEOREM EveryoneGetsATry == Spec => []EveryServerTried
<1>1. IInv => EveryServerTried
  <2> SUFFICES ASSUME IInv, sorts = 0
               PROVE  /\ \A a \in Addresses : Cardinality(Dials(a)) <= 1
                      /\ pc = "needServer" => \A a \in AddrsOf(gKnownServers) : Dials(a) # {}
    BY DEF EveryServerTried
  <2>1. DialsOnce /\ AllDialled /\ ReturnInv
    BY DEF IInv, LogInv
  <2>2. ASSUME NEW a \in Addresses
        PROVE  Cardinality(Dials(a)) <= 1
    <3>1. CASE Dials(a) = {}
      BY <3>1, FS_EmptySet
    <3>2. CASE Dials(a) # {}
      <4>1. PICK k \in Dials(a) : TRUE
        BY <3>2
      <4>2. Dials(a) = {k}
        BY <2>1, <4>1 DEF Dials, DialsOnce
      <4> QED
        BY <4>2, FS_Singleton
    <3> QED
      BY <3>1, <3>2
  <2>3. pc = "needServer" => \A a \in AddrsOf(gKnownServers) : Dials(a) # {}
    BY <2>1 DEF AllDialled, ReturnInv, Dialled, Dials
  <2> QED
    BY <2>2, <2>3
<1> QED
  BY <1>1, SweepInvariant, PTL

\* A server that failed within the last days is dialled only after every server that
\* did not: what the first pass puts off, it puts off behind all the rest.
THEOREM LikelyDownWait == Spec => []LikelyDownComeLast
<1>1. IInv => LikelyDownComeLast
  BY DEF IInv
<1> QED
  BY <1>1, SweepInvariant, PTL

\* Only what was observed is reported to the directory server: both dials offline, or
\* an error, and never both of one server.
THEOREM NobodyIsSlandered == Spec => []ReportsAreEarned
<1>1. IInv => ReportsAreEarned
  <2> SUFFICES ASSUME IInv, sorts = 0
               PROVE  ReportsAreEarned
    BY DEF ReportsAreEarned
  <2>1. DialsOnce /\ Earned
    BY DEF IInv, LogInv
  <2>2. ASSUME NEW a \in triedAddrs, a \in serverErrorAddrs
        PROVE  FALSE
    <3>1. PICK i \in DOMAIN log : log[i] = [addr |-> a, try |-> "dial", answer |-> "OFFLINE"]
      BY <2>1 DEF Earned, GotAnswer
    <3>2. PICK j \in DOMAIN log : log[j] = [addr |-> a, try |-> "dial", answer |-> "ERROR"]
      BY <2>1, <2>2 DEF Earned, GotAnswer
    <3>3. i = j
      BY <2>1, <3>1, <3>2 DEF DialsOnce
    <3>4. log[i].answer = "OFFLINE" /\ log[j].answer = "ERROR"
      BY <3>1, <3>2
    <3> QED
      BY <3>3, <3>4
  <2> QED
    BY <2>1, <2>2 DEF ReportsAreEarned, Earned
<1> QED
  BY <1>1, SweepInvariant, PTL

\* The failures recorded in the list, which put a server off for days, are exactly the
\* reported ones, each counted once.
THEOREM RecordsMatchReports == Spec => []ReportedIsRecorded
<1>1. IInv => ReportedIsRecorded
  BY DEF IInv
<1> QED
  BY <1>1, SweepInvariant, PTL

----------------------------------------------------------------------------
(* The refinement: what the variables of Sweep stand for, and each step. *)

Todo == IF sorts = 0 THEN NotDisposed ELSE {}
Reported == IF sorts = 0 THEN triedAddrs \cup serverErrorAddrs ELSE {}
Result == IF sorts = 0 THEN SweepResult ELSE "disturbed"

\* A step of Sweep, or one that it does not see.
SweepStep ==
  \/ Todo' = Todo /\ Reported' = Reported /\ Result' = Result
  \/ \E s \in Todo : /\ Result = "trying" /\ Result' = "trying"
                     /\ Todo' = Todo \ {s}
                     /\ Reported' \in {Reported, Reported \cup {s}}
  \/ /\ Result = "trying" /\ Todo' = Todo /\ Reported' = Reported
     /\ \/ Result' = "connected" /\ Todo # {}
        \/ Result' = "gaveUp"
        \/ Result' = "failed" /\ Todo = {}
  \/ /\ Result = "failed" /\ Result' = "trying"
     /\ Todo' \in (SUBSET Addresses) \ {{}} /\ Reported' = {}
  \/ Todo' = {} /\ Reported' = {} /\ Result' = "disturbed"

\* The shapes a step of the sweep has are steps of Sweep.
LEMMA SweepStepIs == SweepStep => [SweepOf!SweepNext]_(SweepOf!sweepVars)
<1> SUFFICES ASSUME SweepStep
             PROVE  SweepOf!SweepNext \/ UNCHANGED SweepOf!sweepVars
  OBVIOUS
<1> USE DEF Todo, Reported, Result
<1>1. CASE Todo' = Todo /\ Reported' = Reported /\ Result' = Result
  BY <1>1 DEF SweepOf!sweepVars
<1>2. CASE \E s \in Todo : /\ Result = "trying" /\ Result' = "trying"
                           /\ Todo' = Todo \ {s}
                           /\ Reported' \in {Reported, Reported \cup {s}}
  BY <1>2 DEF SweepOf!SweepNext, SweepOf!Dispose
<1>3. CASE /\ Result = "trying" /\ Todo' = Todo /\ Reported' = Reported
           /\ \/ Result' = "connected" /\ Todo # {}
              \/ Result' = "gaveUp"
              \/ Result' = "failed" /\ Todo = {}
  BY <1>3 DEF SweepOf!SweepNext, SweepOf!Connect, SweepOf!GiveUp, SweepOf!Fail
<1>4. CASE /\ Result = "failed" /\ Result' = "trying"
           /\ Todo' \in (SUBSET Addresses) \ {{}} /\ Reported' = {}
  BY <1>4 DEF SweepOf!SweepNext, SweepOf!Again
<1>5. CASE Todo' = {} /\ Reported' = {} /\ Result' = "disturbed"
  BY <1>5 DEF SweepOf!SweepNext, SweepOf!Disturb
<1> QED
  BY <1>1, <1>2, <1>3, <1>4, <1>5 DEF SweepStep

\* The servers not disposed of are those ahead.
LEMMA TodoIs ==
  /\ PlaceOK => NotDisposed = {gKnownServers[k].addr : k \in Ahead}
  /\ PlaceOK' => NotDisposed' = {gKnownServers'[k].addr : k \in Ahead'}
BY DEF NotDisposed, Ahead, PlaceOK

\* Every step of the sweep has one of these shapes.
LEMMA RefineStep ==
  ASSUME ListOK, PlaceOK, SeenOK, IndexInv, DialInv, ReturnInv, WalkInv,
         PlaceOK', ReturnInv', Next \/ UNCHANGED vars
  PROVE  SweepStep
<1>a. sorts \in Nat /\ (pc \in DialPlaces => MoreServers) /\ DialPlaces \subseteq SweepPlaces
      /\ (pc \in SweepPlaces => ~connectedSuccessfully)
      /\ gKnownServers \in Seq(Entries)
  BY SortsAssumption DEF PlaceOK, SweepPlaces, ReturnInv, DialPlaces, ListOK
<1>b. CASE sorts' # 0
  <2>1. CASE sorts = 0
    BY <1>b, <2>1 DEF SweepStep, Todo, Reported, Result
  <2>2. CASE sorts # 0
    BY <1>b, <2>2 DEF SweepStep, Todo, Reported, Result
  <2> QED
    BY <2>1, <2>2
<1>c. CASE sorts' = 0 /\ sorts # 0
  BY <1>a, <1>c, ListStep
     DEF ListKept, ListConnected, ListFailed, ListSaved, ListGrown, ListDisturbed
<1>d. CASE sorts' = 0 /\ sorts = 0
  <2>0. /\ Todo = {gKnownServers[k].addr : k \in Ahead}
        /\ Todo' = {gKnownServers'[k].addr : k \in Ahead'}
        /\ Reported = triedAddrs \cup serverErrorAddrs
        /\ Reported' = triedAddrs' \cup serverErrorAddrs'
        /\ Result = SweepResult /\ Result' = SweepResult'
    BY <1>d, TodoIs DEF Todo, Reported, Result
  <2>a. ASSUME gKnownServers' = gKnownServers, Ahead' = Ahead,
               UNCHANGED <<triedAddrs, serverErrorAddrs>>, SweepResult' = SweepResult
        PROVE  SweepStep
    BY <2>0, <2>a DEF SweepStep
  <2>b. ASSUME pc \in DialPlaces, pc' = "top", ind' = ind + 1,
               UNCHANGED <<nowTryingSkippedOnes, tryLater, connectedSuccessfully>>,
               Len(gKnownServers') = Len(gKnownServers),
               \A k \in DOMAIN gKnownServers : gKnownServers'[k].addr = gKnownServers[k].addr,
               triedAddrs' \cup serverErrorAddrs' \in
                 {triedAddrs \cup serverErrorAddrs,
                  triedAddrs \cup serverErrorAddrs \cup {Server.addr}}
        PROVE  SweepStep
    <3>1. /\ Current \in Ahead /\ Ahead \subseteq DOMAIN gKnownServers
          /\ Server = gKnownServers[Current]
          /\ \A k \in DOMAIN gKnownServers : gKnownServers[k].addr = Server.addr <=> k = Current
      BY <1>a, <2>b, OnlyCurrent, CurrentIs
    <3>2. Ahead' = Ahead \ {Current}
      BY <1>a, <2>b, AheadLess
    <3>3. Todo' = Todo \ {Server.addr} /\ Server.addr \in Todo
      BY <2>0, <2>b, <3>1, <3>2
    <3>4. SweepResult = "trying" /\ SweepResult' = "trying"
      BY <1>a, <2>b DEF SweepResult, SweepPlaces, DialPlaces
    <3> QED
      BY <2>0, <2>b, <3>3, <3>4 DEF SweepStep
  <2>1. CASE StopForCancel
    <3>1. Ahead' = Ahead /\ SweepResult = "trying" /\ SweepResult' = "gaveUp"
      BY <2>1, <1>a
         DEF StopForCancel, Ahead, SweepResult, MoreServers, SweepPlaces, DialPlaces
    <3> QED
      BY <2>1, <2>0, <3>1 DEF StopForCancel, SweepStep
  <2>2. CASE Skip
    BY <2>2, <2>a, <1>a, AheadKept DEF Skip, SweepResult, SweepPlaces
  <2>3. CASE Connect
    BY <2>3, <2>a, <1>a
       DEF Connect, CallDial, Ahead, SweepResult, MoreServers, SweepPlaces, DialPlaces
  <2>4. CASE \E try \in {"dial", "redial"} : AnswerSuccess(try)
    <3>1. PICK try \in {"dial", "redial"} : AnswerSuccess(try)
      BY <2>4
    <3>2. /\ pc \in DialPlaces /\ MoreServers /\ pc' = "return" /\ connectedSuccessfully' = TRUE
          /\ gKnownServers' = [gKnownServers EXCEPT ![Current] = ConnectedEntry]
          /\ UNCHANGED <<nowTryingSkippedOnes, ind, tryLater, triedAddrs, serverErrorAddrs>>
      BY <3>1, <1>a, WrittenIs DEF AnswerSuccess, Answer, DialPlaces
    <3>3. /\ Len(gKnownServers') = Len(gKnownServers)
          /\ \A k \in DOMAIN gKnownServers : gKnownServers'[k].addr = gKnownServers[k].addr
      BY <3>2, WrittenIs, WrittenTo
    <3>4. Ahead' = Ahead /\ Current \in Ahead /\ Ahead \subseteq DOMAIN gKnownServers
      BY <3>2, <3>3, CurrentIs DEF Ahead
    <3>5. Todo' = Todo /\ Todo # {}
      BY <2>0, <3>3, <3>4
    <3>6. SweepResult = "trying" /\ SweepResult' = "connected"
      BY <1>a, <3>2 DEF SweepResult, SweepPlaces, DialPlaces
    <3> QED
      BY <2>0, <3>2, <3>5, <3>6 DEF SweepStep
  <2>5. CASE \E try \in {"dial", "redial"} : AnswerOffline(try)
    BY <2>5, <2>a, <1>a
       DEF AnswerOffline, Answer, Log, Ahead, SweepResult, MoreServers, SweepPlaces,
           DialPlaces
  <2>6. CASE \E try \in {"dial", "redial"}, answer \in Answers : AnswerIgnored(try, answer)
    BY <2>6, <2>b DEF AnswerIgnored, Answer, DialPlaces
  <2>7. CASE AnswerError
    <3>1. pc \in DialPlaces /\ MoreServers /\ gKnownServers' = Failed(gKnownServers)
      BY <2>7, <1>a DEF AnswerError, Answer, DialPlaces
    <3>2. /\ Len(gKnownServers') = Len(gKnownServers)
          /\ \A k \in DOMAIN gKnownServers : gKnownServers'[k].addr = gKnownServers[k].addr
      BY <3>1, WrittenIs, WrittenTo
    <3> QED
      BY <2>7, <2>b, <3>1, <3>2 DEF AnswerError, Answer
  <2>8. CASE InternetUp
    BY <2>8, <2>a, <1>a
       DEF InternetUp, CallDial, Ahead, SweepResult, MoreServers, SweepPlaces,
           DialPlaces
  <2>9. CASE StillOffline
    <3>1. pc \in DialPlaces /\ MoreServers /\ gKnownServers' = Failed(gKnownServers)
      BY <2>9, <1>a DEF StillOffline, DialPlaces
    <3>2. /\ Len(gKnownServers') = Len(gKnownServers)
          /\ \A k \in DOMAIN gKnownServers : gKnownServers'[k].addr = gKnownServers[k].addr
      BY <3>1, WrittenIs, WrittenTo
    <3> QED
      BY <2>9, <2>b, <3>1, <3>2 DEF StillOffline
  <2>10. CASE InternetDown
    BY <2>10, <2>b DEF InternetDown, DialPlaces
  <2>11. CASE TrySkippedOnes
    BY <2>11, <2>a, <1>a, AheadKept DEF TrySkippedOnes, SweepResult, SweepPlaces
  <2>12. CASE PretendCancelled
    <3>1. Ahead' = Ahead /\ SweepResult = "trying" /\ SweepResult' = "gaveUp"
      BY <2>12, <1>a
         DEF PretendCancelled, Ahead, SweepResult, MoreServers, SweepPlaces, DialPlaces
    <3> QED
      BY <2>12, <2>0, <3>1 DEF PretendCancelled, SweepStep
  <2>13. CASE AllFailed
    <3>1. /\ ~MoreServers /\ nowTryingSkippedOnes /\ okToNeedServer /\ pc = "top"
          /\ pc' = "return"
          /\ UNCHANGED <<nowTryingSkippedOnes, ind, tryLater, okToNeedServer, triedAddrs,
                         serverErrorAddrs, connectedSuccessfully>>
      BY <2>13 DEF AllFailed
    <3>2. Ahead = {} /\ Ahead' = {}
      BY <3>1 DEF Ahead, MoreServers, PlaceOK
    <3>3. SweepResult = "trying" /\ SweepResult' = "failed"
      BY <1>a, <3>1 DEF SweepResult, MoreServers, SweepPlaces, DialPlaces
    <3>4. Todo = {} /\ Todo' = {}
      BY <2>0, <3>2
    <3> QED
      BY <2>0, <3>1, <3>3, <3>4 DEF SweepStep
  <2>14. CASE Finish
    BY <2>14, <2>a, <1>a
       DEF Finish, Ahead, SweepResult, MoreServers, SweepPlaces, DialPlaces
  <2>15. CASE NeedServer
    BY <2>15, <2>a, <1>a
       DEF NeedServer, Ahead, SweepResult, MoreServers, SweepPlaces, DialPlaces
  <2>16. CASE NoSalmonServer
    BY <2>16, <2>a, <1>a
       DEF NoSalmonServer, Ahead, SweepResult, MoreServers, SweepPlaces, DialPlaces
  <2>17. CASE \E a \in New : NewSalmonServer(a)
    <3>1. /\ ListGrown /\ pc = "needServer" /\ pc' = "top" /\ connectedSuccessfully' = FALSE
          /\ nowTryingSkippedOnes' = FALSE /\ ind' = 1 /\ tryLater' = <<>>
          /\ triedAddrs' = {} /\ serverErrorAddrs' = {}
      BY <2>17 DEF NewSalmonServer, ListGrown
    <3>2. gKnownServers' \in Seq(Entries) /\ gKnownServers' # <<>>
      BY <3>1, ListTyped DEF ListOK
    <3>3. 1 \in Ahead' /\ Ahead' \subseteq DOMAIN gKnownServers'
      <4>1. {tryLater'[k] : k \in DOMAIN tryLater'} = {}
        BY <3>1
      <4>2. /\ 1 .. Len(gKnownServers') = DOMAIN gKnownServers'
            /\ 1 \in 1 .. Len(gKnownServers')
        BY <3>2
      <4> QED
        BY <3>1, <4>1, <4>2 DEF Ahead
    <3>4. Todo' \in (SUBSET Addresses) \ {{}}
      <4>1. \A k \in DOMAIN gKnownServers' : gKnownServers'[k].addr \in Addresses
        <5>1. \A k \in DOMAIN gKnownServers' : gKnownServers'[k] \in Entries
          BY <3>2
        <5> QED
          BY <5>1 DEF Entries
      <4>2. Todo' \subseteq Addresses
        BY <2>0, <3>3, <4>1
      <4>3. Todo' # {}
        BY <2>0, <3>3
      <4> QED
        BY <4>2, <4>3
    <3>5. SweepResult = "failed" /\ SweepResult' = "trying"
      BY <3>1 DEF SweepResult, ReturnInv, Exhausted, SweepPlaces, DialPlaces
    <3>6. Reported' = {}
      BY <2>0, <3>1
    <3> QED
      BY <2>0, <3>4, <3>5, <3>6 DEF SweepStep
  <2>18. CASE UserCancels
    BY <2>18, <2>a, <1>a
       DEF UserCancels, Ahead, SweepResult, MoreServers, SweepPlaces, DialPlaces
  <2>19. CASE EarlierThreadSorts
    BY <2>19, <1>a, <1>d DEF EarlierThreadSorts
  <2>20. CASE UNCHANGED vars
    BY <2>20, <2>a, <1>a DEF vars, Ahead, SweepResult, MoreServers, SweepPlaces, DialPlaces
  <2> QED
    BY <2>1, <2>2, <2>3, <2>4, <2>5, <2>6, <2>7, <2>8, <2>9, <2>10, <2>11, <2>12, <2>13,
       <2>14, <2>15, <2>16, <2>17, <2>18, <2>19, <2>20
       DEF Next, Sweeping, Calling, Done
<1> QED
  BY <1>b, <1>c, <1>d

\* A sweep is a Sweep: it disposes of each server once, says that it failed only when
\* none is left, and starts again only after that, as long as nobody sorts the list.
THEOREM SweepIsASweep == Spec => RefinesSweep
<1>1. Init => SweepOf!SweepInit
  <2> SUFFICES ASSUME Init
               PROVE  SweepOf!SweepInit
    OBVIOUS
  <2>1. PlaceOK /\ ListOK /\ IndexInv /\ ReturnInv
    BY InitTyped, InitAll DEF IInv
  <2>2. /\ pc = IF gKnownServers = <<>> THEN "return" ELSE "top"
        /\ nowTryingSkippedOnes = FALSE /\ ind = 1 /\ tryLater = <<>> /\ okToNeedServer = TRUE
        /\ triedAddrs = {} /\ serverErrorAddrs = {} /\ connectedSuccessfully = FALSE
        /\ sorts = 0
    BY DEF Init
  <2>3. gKnownServers \in Seq(Entries)
    BY <2>1 DEF ListOK
  <2>4. Ahead = DOMAIN gKnownServers
    <3>1. {tryLater[k] : k \in DOMAIN tryLater} = {}
      BY <2>2
    <3>2. 1 .. Len(gKnownServers) = DOMAIN gKnownServers
      BY <2>3
    <3> QED
      BY <2>2, <3>1, <3>2 DEF Ahead
  <2>5. NotDisposed = {gKnownServers[k].addr : k \in DOMAIN gKnownServers}
    BY <2>1, <2>4, TodoIs
  <2>6. NotDisposed \subseteq Addresses /\ (NotDisposed = {} <=> gKnownServers = <<>>)
    <3>1. \A k \in DOMAIN gKnownServers : gKnownServers[k].addr \in Addresses
      <4>1. \A k \in DOMAIN gKnownServers : gKnownServers[k] \in Entries
        BY <2>3
      <4> QED
        BY <4>1 DEF Entries
    <3>2. DOMAIN gKnownServers = {} <=> gKnownServers = <<>>
      BY <2>3
    <3> QED
      BY <2>5, <3>1, <3>2
  <2>8. gKnownServers = <<>> => ~MoreServers
    BY <2>2, <2>3 DEF MoreServers
  <2>9. SweepResult = IF NotDisposed = {} THEN "failed" ELSE "trying"
    BY <2>2, <2>6, <2>8 DEF SweepResult, SweepPlaces, DialPlaces
  <2> QED
    BY <2>2, <2>6, <2>9 DEF SweepOf!SweepInit
<1>2. IInv /\ IInv' /\ [Next]_vars => [SweepOf!SweepNext]_(SweepOf!sweepVars)
  <2> SUFFICES ASSUME IInv, IInv', Next \/ UNCHANGED vars
               PROVE  [SweepOf!SweepNext]_(SweepOf!sweepVars)
    OBVIOUS
  <2>1. ListOK /\ PlaceOK /\ SeenOK /\ PlaceOK'
    BY TypeParts DEF IInv
  <2>2. SweepStep
    BY <2>1, RefineStep DEF IInv
  <2> QED
    BY <2>2, SweepStepIs
<1>3. Spec => []IInv
  BY SweepInvariant
<1> QED
  BY <1>1, <1>2, <1>3, PTL DEF Spec, RefinesSweep, SweepOf!SweepSpec
=============================================================================
