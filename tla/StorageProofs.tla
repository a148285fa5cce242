--------------------------- MODULE StorageProofs ---------------------------
(***************************************************************************)
(* What is stored lasts: proofs about UserLibrary, ChatHistory and         *)
(* ListingStore, for any number of hosts, users, messages, addresses,      *)
(* lines and rows, and crashes anywhere.                                   *)
(***************************************************************************)
EXTENDS UserLibrary, ChatHistory, ListingStore, SequenceTheorems, TLAPS

-----------------------------------------------------------------------------
(* UserLibrary.  What RegistrationKept says of the table has to be         *)
(* recovered from the file after a crash, so the invariant says what the   *)
(* file holds: one line for each registration that went through, and none  *)
(* for one that has not, be it under way, failed or cut off.               *)

(* The file has a line for a host exactly if it is registered, and one. *)
FileHolds ==
    /\ \A i \in DOMAIN userFile : registered[userFile[i].host] = userFile[i].user
    /\ \A i, j \in DOMAIN userFile : (userFile[i].host = userFile[j].host) => (i = j)
    /\ \A h \in Hosts : (registered[h] # noUser) => \E i \in DOMAIN userFile : userFile[i].host = h

(* A registration under way is in the table, and new. *)
Fresh ==
    (registering # noUser) =>
        /\ registering \in [host : Hosts, user : Users]
        /\ registered[registering.host] = noUser
        /\ users[registering.host] = registering.user

LibraryInv == LibraryTypeOK /\ RegistrationKept /\ FileHolds /\ Fresh

(* The lines of the file. *)
LEMMA LinesTyped ==
    ASSUME LibraryTypeOK
    PROVE  /\ DOMAIN userFile = 1..Len(userFile) /\ Len(userFile) \in Nat
           /\ \A i \in DOMAIN userFile : userFile[i].host \in Hosts /\ userFile[i].user \in Users
<1> DEFINE Lines == [host : Hosts, user : Users]
<1>1. \A l \in Lines : l.host \in Hosts /\ l.user \in Users
  OBVIOUS
<1>2. userFile \in Seq(Lines)
  BY DEF LibraryTypeOK
<1> HIDE DEF Lines
<1>3. /\ userFile \in [1..Len(userFile) -> Lines]
      /\ DOMAIN userFile = 1..Len(userFile) /\ Len(userFile) \in Nat
  BY <1>2, LenProperties
<1> QED
  BY <1>1, <1>3

(* The file brings back every registration: a host that is registered gets *)
(* its user, whatever the table had.                                       *)
LEMMA Reparsed ==
    ASSUME LibraryInv, NEW table \in [Hosts -> Users \cup {noUser}]
    PROVE  /\ parseFile(table) \in [Hosts -> Users \cup {noUser}]
           /\ \A h \in Hosts : (registered[h] # noUser) => (parseFile(table)[h] = registered[h])
<1>1. \A i \in DOMAIN userFile : userFile[i].host \in Hosts /\ userFile[i].user \in Users
  BY LinesTyped DEF LibraryInv
<1>2. DOMAIN userFile = 1..Len(userFile) /\ Len(userFile) \in Nat
  BY LinesTyped DEF LibraryInv
<1>3. ASSUME NEW h \in Hosts
      PROVE  /\ parseFile(table)[h] \in Users \cup {noUser}
             /\ (registered[h] # noUser) => (parseFile(table)[h] = registered[h])
  <2> DEFINE lines == { i \in DOMAIN userFile : userFile[i].host = h }
  <2>1. parseFile(table)[h] = IF lines = {} THEN table[h] ELSE userFile[Max(lines)].user
    BY DEF parseFile
  <2>2. CASE lines = {}
    <3>1. registered[h] = noUser
      BY <2>2 DEF LibraryInv, FileHolds
    <3> QED
      BY <2>1, <2>2, <3>1
  <2>3. CASE lines # {}
    <3>1. PICK i \in DOMAIN userFile : userFile[i].host = h
      BY <2>3
    <3>2. lines = {i}
      BY <3>1 DEF LibraryInv, FileHolds
    <3>3. i \in Nat
      BY <1>2, <3>1
    <3> HIDE DEF lines
    <3>4. Max(lines) = i
      BY <3>2, <3>3 DEF Max
    <3>5. registered[h] = userFile[i].user
      BY <3>1 DEF LibraryInv, FileHolds
    <3> QED
      BY <1>1, <2>1, <2>3, <3>1, <3>4, <3>5
  <2> QED
    BY <2>2, <2>3
<1> QED
  BY <1>3 DEF parseFile

(* An empty library. *)
LEMMA LibraryInitially == LibraryInit => LibraryInv
<1> SUFFICES ASSUME LibraryInit PROVE LibraryInv
  OBVIOUS
<1>1. LibraryTypeOK
  BY DEF LibraryInit, LibraryTypeOK
<1>2. DOMAIN userFile = {}
  BY DEF LibraryInit
<1> QED
  BY <1>1, <1>2 DEF LibraryInv, LibraryInit, RegistrationKept, FileHolds, Fresh

(* Registration, crash and reload keep table and file together. *)
LEMMA LibraryStep == LibraryInv /\ [LibraryNext]_uvars => LibraryInv'
<1> SUFFICES ASSUME LibraryInv, [LibraryNext]_uvars PROVE LibraryInv'
  OBVIOUS
<1>1. ASSUME NEW h \in Hosts, NEW u \in Users, toHashtable(h, u) PROVE LibraryInv'
  <2>1. /\ registering = noUser /\ users[h] = noUser
        /\ users' = [users EXCEPT ![h] = u]
        /\ registering' = [host |-> h, user |-> u]
        /\ UNCHANGED <<userFile, registered>>
    BY <1>1 DEF toHashtable
  <2>2. LibraryTypeOK'
    BY <2>1 DEF LibraryInv, LibraryTypeOK
  <2>3. registered[h] = noUser
    BY <2>1 DEF LibraryInv, RegistrationKept
  <2>4. users'[h] = u /\ \A g \in Hosts : (g # h) => (users'[g] = users[g])
    BY <2>1 DEF LibraryInv, LibraryTypeOK
  <2>5. RegistrationKept'
    BY <2>1, <2>3, <2>4 DEF LibraryInv, RegistrationKept
  <2>6. FileHolds'
    BY <2>1 DEF LibraryInv, FileHolds
  <2>7. Fresh'
    BY <2>1, <2>3, <2>4 DEF Fresh
  <2> QED
    BY <2>2, <2>5, <2>6, <2>7 DEF LibraryInv
<1>2. CASE writeToFile
  <2>1. /\ registering # noUser
        /\ userFile' = Append(userFile, registering)
        /\ registered' = [registered EXCEPT ![registering.host] = registering.user]
        /\ registering' = noUser
        /\ UNCHANGED users
    BY <1>2 DEF writeToFile
  <2> DEFINE h == registering.host
             u == registering.user
             n == Len(userFile)
  <2>2. /\ registering \in [host : Hosts, user : Users]
        /\ h \in Hosts /\ u \in Users
        /\ registered[h] = noUser /\ users[h] = u
    BY <2>1 DEF LibraryInv, Fresh
  <2>3. /\ userFile' \in Seq([host : Hosts, user : Users])
        /\ DOMAIN userFile = 1..n /\ n \in Nat
        /\ DOMAIN userFile' = 1..(n + 1)
        /\ \A i \in 1..n : userFile'[i] = userFile[i]
        /\ userFile'[n + 1] = registering
    <3>1. userFile \in Seq([host : Hosts, user : Users])
      BY DEF LibraryInv, LibraryTypeOK
    <3>2. /\ Append(userFile, registering) \in Seq([host : Hosts, user : Users])
          /\ Len(Append(userFile, registering)) = n + 1
          /\ \A i \in 1..n : Append(userFile, registering)[i] = userFile[i]
          /\ Append(userFile, registering)[n + 1] = registering
      BY <2>2, <3>1, AppendProperties
    <3> QED
      BY <2>1, <3>1, <3>2, LenProperties
  <2>4. /\ registered' \in [Hosts -> Users \cup {noUser}]
        /\ registered'[h] = u
        /\ \A g \in Hosts : (g # h) => (registered'[g] = registered[g])
    BY <2>1, <2>2 DEF LibraryInv, LibraryTypeOK
  <2> HIDE DEF h, u, n
  <2>5. \A i \in 1..n : userFile[i].host \in Hosts /\ userFile[i].user \in Users
    BY <2>3, LinesTyped DEF LibraryInv
  <2>6. \A i \in 1..n : userFile[i].host # h
    BY <2>2, <2>3, <2>5, LibraryAssumption DEF LibraryInv, FileHolds
  <2>7. userFile'[n + 1].host = h /\ userFile'[n + 1].user = u
    BY <2>3 DEF h, u
  <2>8. \A i : (i \in DOMAIN userFile') <=> (i \in 1..n \/ i = n + 1)
    BY <2>3
  <2>9. LibraryTypeOK'
    BY <2>1, <2>3, <2>4 DEF LibraryInv, LibraryTypeOK
  <2>10. RegistrationKept'
    BY <2>1, <2>2, <2>4 DEF LibraryInv, RegistrationKept
  <2>11. \A i \in DOMAIN userFile' : registered'[userFile'[i].host] = userFile'[i].user
    BY <2>3, <2>4, <2>5, <2>6, <2>7, <2>8 DEF LibraryInv, FileHolds
  <2>12. \A i, j \in DOMAIN userFile' : (userFile'[i].host = userFile'[j].host) => (i = j)
    BY <2>3, <2>6, <2>7, <2>8 DEF LibraryInv, FileHolds
  <2>13. \A g \in Hosts : (registered'[g] # noUser) => \E i \in DOMAIN userFile' : userFile'[i].host = g
    <3> SUFFICES ASSUME NEW g \in Hosts, registered'[g] # noUser
                 PROVE  \E i \in DOMAIN userFile' : userFile'[i].host = g
      OBVIOUS
    <3>1. CASE g = h
      BY <2>7, <2>8, <3>1
    <3>2. CASE g # h
      <4>1. PICK i \in DOMAIN userFile : userFile[i].host = g
        BY <2>4, <3>2 DEF LibraryInv, FileHolds
      <4> QED
        BY <2>3, <2>8, <4>1
    <3> QED
      BY <3>1, <3>2
  <2>14. Fresh'
    BY <2>1 DEF Fresh
  <2> QED
    BY <2>9, <2>10, <2>11, <2>12, <2>13, <2>14 DEF LibraryInv, FileHolds
<1>3. CASE WriteFails
  BY <1>3 DEF WriteFails, LibraryInv, LibraryTypeOK, RegistrationKept, FileHolds, Fresh
<1>4. ASSUME NEW table \in [Hosts -> Users \cup {noUser}], users' = parseFile(table),
             registering' = noUser, UNCHANGED <<userFile, registered>>
      PROVE  LibraryInv'
  <2>1. /\ users' \in [Hosts -> Users \cup {noUser}]
        /\ \A h \in Hosts : (registered[h] # noUser) => (users'[h] = registered[h])
    BY <1>4, Reparsed
  <2>2. LibraryTypeOK'
    BY <1>4, <2>1 DEF LibraryInv, LibraryTypeOK
  <2>3. RegistrationKept'
    BY <1>4, <2>1 DEF RegistrationKept
  <2>4. FileHolds' /\ Fresh'
    BY <1>4 DEF LibraryInv, FileHolds, Fresh
  <2> QED
    BY <2>2, <2>3, <2>4 DEF LibraryInv
<1>5. CASE Reload
  BY <1>4, <1>5 DEF Reload, LibraryInv, LibraryTypeOK
<1>6. CASE Killed
  <2>1. [h \in Hosts |-> noUser] \in [Hosts -> Users \cup {noUser}]
    OBVIOUS
  <2> QED
    BY <1>4, <1>6, <2>1 DEF Killed
<1>7. CASE UNCHANGED uvars
  BY <1>7 DEF uvars, LibraryInv, LibraryTypeOK, RegistrationKept, FileHolds, Fresh
<1> QED
  BY <1>1, <1>2, <1>3, <1>5, <1>6, <1>7 DEF LibraryNext

(* A host whose registration went through has the user it registered, for  *)
(* ever: after failed writes of others, reloads and crashes at any point.  *)
THEOREM RegistrationsLast == LibrarySpec => []RegistrationKept
<1>1. LibraryInv => RegistrationKept
  BY DEF LibraryInv
<1> QED
  BY <1>1, LibraryInitially, LibraryStep, PTL DEF LibrarySpec

-----------------------------------------------------------------------------
(* ChatHistory.  A message is acknowledged by the last step of its insert, *)
(* long after the commit: the call has to remember that its row is in.     *)

Committed(m) == \E i \in DOMAIN chat : chat[i] = m

(* A call of insert works on a message, and has its row once it committed. *)
CallInv ==
    (doing # idle /\ doing.op # "startup") =>
        /\ doing.msg \in History
        /\ (doing.op = "committed") => Committed(doing.msg)

HistoryInv ==
    /\ HistoryTypeOK
    /\ CallInv
    /\ \A m \in acknowledged : Committed(m)

LEMMA HistoryInitially == HistoryInit => HistoryInv
<1> SUFFICES ASSUME HistoryInit PROVE HistoryInv
  OBVIOUS
<1>1. HistoryTypeOK
  BY EmptySeq DEF HistoryInit, HistoryTypeOK
<1> QED
  BY <1>1 DEF HistoryInit, HistoryInv, CallInv

(* A new row leaves those before it where they are. *)
LEMMA RowAdded ==
    ASSUME NEW T, NEW s \in Seq(T), NEW e \in T
    PROVE  /\ Append(s, e) \in Seq(T)
           /\ \A i \in DOMAIN s : i \in DOMAIN Append(s, e) /\ Append(s, e)[i] = s[i]
           /\ \E i \in DOMAIN Append(s, e) : Append(s, e)[i] = e
<1>1. /\ Append(s, e) \in Seq(T) /\ Len(Append(s, e)) = Len(s) + 1
      /\ \A i \in 1..Len(s) : Append(s, e)[i] = s[i]
      /\ Append(s, e)[Len(s) + 1] = e
  BY AppendProperties
<1>2. DOMAIN s = 1..Len(s) /\ DOMAIN Append(s, e) = 1..Len(Append(s, e)) /\ Len(s) \in Nat
  BY <1>1, LenProperties
<1> QED
  BY <1>1, <1>2

(* The rows of the history are never taken away: every step of a call, and *)
(* a crash, leaves them or adds one.                                       *)
LEMMA HistoryStep == HistoryInv /\ [HistoryNext]_hvars => HistoryInv'
<1> SUFFICES ASSUME HistoryInv, [HistoryNext]_hvars PROVE HistoryInv'
  OBVIOUS
<1> USE DEF HistoryInv, HistoryTypeOK, CallInv, Committed
<1>1. CASE dbStartup
  <2>1. /\ [op |-> "startup", msg |-> idle] \in Call
        /\ [op |-> "startup", msg |-> idle].op = "startup"
    BY DEF Call
  <2> QED
    BY <1>1, <2>1 DEF dbStartup
<1>2. CASE CreateTable
  BY <1>2 DEF CreateTable
<1>3. ASSUME NEW m \in History, insert(m) PROVE HistoryInv'
  BY <1>3 DEF insert, Call
<1>4. CASE executeUpdate
  <2>1. doing \in Call /\ doing.op = "insert" /\ doing.msg \in History
    BY <1>4 DEF executeUpdate
  <2>2. doing' = idle \/ (doing' = [doing EXCEPT !.op = "executed"])
    BY <1>4 DEF executeUpdate
  <2>3. [doing EXCEPT !.op = "executed"] \in Call
    BY <2>1 DEF Call
  <2>4. CASE doing' = idle
    BY <1>4, <2>4 DEF executeUpdate
  <2>5. CASE doing' = [doing EXCEPT !.op = "executed"]
    <3>1. doing'.op = "executed" /\ doing'.msg = doing.msg
      BY <2>1, <2>5 DEF Call
    <3> QED
      BY <1>4, <2>1, <2>3, <2>5, <3>1 DEF executeUpdate
  <2> QED
    BY <2>2, <2>4, <2>5
<1>5. CASE commit
  <2>1. doing \in Call /\ doing.op = "executed" /\ doing.msg \in History
    BY <1>5 DEF commit
  <2>2. /\ [doing EXCEPT !.op = "committed"] \in Call
        /\ [doing EXCEPT !.op = "committed"].op = "committed"
        /\ [doing EXCEPT !.op = "committed"].msg = doing.msg
    BY <2>1 DEF Call
  <2>3. /\ chat' \in Seq(History)
        /\ \A i \in DOMAIN chat : i \in DOMAIN chat' /\ chat'[i] = chat[i]
        /\ \E i \in DOMAIN chat' : chat'[i] = doing.msg
    BY <1>5, <2>1, RowAdded DEF commit
  <2>4. \A m \in acknowledged : \E i \in DOMAIN chat' : chat'[i] = m
    BY <2>3
  <2> QED
    BY <1>5, <2>2, <2>3, <2>4 DEF commit
<1>6. CASE InsertReturns
  <2>1. doing \in Call /\ doing.msg \in History /\ Committed(doing.msg)
    BY <1>6 DEF InsertReturns
  <2> QED
    BY <1>6, <2>1 DEF InsertReturns
<1>7. CASE CreateGroupTable
  BY <1>7 DEF CreateGroupTable
<1>8. ASSUME NEW g \in GroupNames, NEW p \in GroupNames \cup {none},
             InsertGroup(g, p) \/ ChangeParent(g, p)
      PROVE  HistoryInv'
  <2> DEFINE Rows == [name : GroupNames, parent : Nat]
             parent == IF p = none THEN 0 ELSE CheckParent(p)
  <2>1. parent = 0
    BY DEF CheckParent
  <2>2. [name |-> g, parent |-> parent] \in Rows
    BY <2>1
  <2>3. \A r \in Rows : [r EXCEPT !.parent = parent] \in Rows
    BY <2>1
  <2>4. UNCHANGED <<tables, chat, doing, acknowledged>> /\ dbFile' = TRUE
    BY <1>8 DEF InsertGroup, ChangeParent
  <2>5. hierarchy \in Seq(Rows)
    OBVIOUS
  <2> HIDE DEF Rows
  <2>6. hierarchy' \in Seq(Rows)
    <3>1. CASE InsertGroup(g, p)
      <4>1. hierarchy' = hierarchy \/ hierarchy' = Append(hierarchy, [name |-> g, parent |-> parent])
        BY <3>1 DEF InsertGroup
      <4> HIDE DEF parent
      <4>2. Append(hierarchy, [name |-> g, parent |-> parent]) \in Seq(Rows)
        BY <2>2, <2>5, AppendProperties
      <4> QED
        BY <2>5, <4>1, <4>2
    <3>2. CASE ChangeParent(g, p)
      <4>1. hierarchy' = [i \in DOMAIN hierarchy |->
                            IF hierarchy[i].name = g THEN [hierarchy[i] EXCEPT !.parent = parent]
                            ELSE hierarchy[i]]
        BY <3>2 DEF ChangeParent
      <4> HIDE DEF parent
      <4>2. DOMAIN hierarchy = 1..Len(hierarchy) /\ Len(hierarchy) \in Nat
            /\ \A i \in 1..Len(hierarchy) : hierarchy[i] \in Rows
        BY <2>5, LenProperties, ElementOfSeq
      <4> DEFINE row(i) == IF hierarchy[i].name = g THEN [hierarchy[i] EXCEPT !.parent = parent]
                           ELSE hierarchy[i]
      <4>3. \A i \in 1..Len(hierarchy) : row(i) \in Rows
        BY <2>3, <4>2
      <4>4. hierarchy' = [i \in 1..Len(hierarchy) |-> row(i)]
        BY <4>1, <4>2
      <4> HIDE DEF row
      <4> QED
        BY <4>2, <4>3, <4>4
    <3> QED
      BY <1>8, <3>1, <3>2
  <2> QED
    BY <2>4, <2>6 DEF Rows
<1>9. CASE Crash
  BY <1>9 DEF Crash
<1>10. CASE UNCHANGED hvars
  BY <1>10 DEF hvars
<1> QED
  BY <1>1, <1>2, <1>3, <1>4, <1>5, <1>6, <1>7, <1>8, <1>9, <1>10 DEF HistoryNext

(* A message for which insert has returned true is found by selectGroup    *)
(* and selectPerson for ever, whatever call is cut off by a crash.         *)
THEOREM InsertsLast == HistorySpec => []InsertedIsFound
<1>1. HistoryInv => InsertedIsFound
  <2> SUFFICES ASSUME HistoryInv, NEW m \in acknowledged
               PROVE  /\ (m.group # none) => \E i \in selectGroup(m.group) : chat[i] = m
                      /\ (m.recip # none) => \E i \in selectPerson(m.recip) : chat[i] = m
    BY DEF InsertedIsFound
  <2>1. PICK i \in DOMAIN chat : chat[i] = m
    BY DEF HistoryInv, Committed
  <2> QED
    BY <2>1 DEF selectGroup, selectPerson
<1> QED
  BY <1>1, HistoryInitially, HistoryStep, PTL DEF HistorySpec

-----------------------------------------------------------------------------
(* ListingStore.  A listing saved and loaded again renames nobody.  A save *)
(* may be torn at any point, so that the file is some part of the table.   *)
(* Two things keep it from contradicting the table: an address that the    *)
(* loop has yet to come to has no line (Unwritten), and the table only     *)
(* changes where it was empty.  The import then accepts all lines, since   *)
(* no two have one address.                                                *)

(* What is in the file or on its way there. *)
Written == file \o (IF saving = null THEN << >> ELSE saving.buffer)

(* A line for every address at most, that of the table. *)
Agrees(s) ==
    /\ \A i \in 1..Len(s) : mClientMap[s[i].addr] = s[i].name
    /\ \A i, j \in 1..Len(s) : (s[i].addr = s[j].addr) => (i = j)

(* The loop is still to come to listed addresses without a line. *)
Unwritten ==
    (saving # null) =>
        \A a \in saving.ahead :
            /\ mClientMap[a] # null
            /\ \A i \in 1..Len(Written) : Written[i].addr # a

ListingInv == StoreTypeOK /\ Agrees(Written) /\ Unwritten

-----------------------------------------------------------------------------
(* A line has an address and a name, and is not null. *)
LEMMA LineFields ==
    \A l \in ListingLines : l.addr \in Addrs /\ l.name \in Names /\ l # null
BY StoreAssumption DEF ListingLines

(* Written is a sequence of lines that begins with the file. *)
LEMMA ListingLinesTyped ==
    ASSUME StoreTypeOK
    PROVE  /\ Written \in Seq(ListingLines) /\ Len(Written) \in Nat
           /\ Len(file) \in Nat /\ Len(file) <= Len(Written)
           /\ \A i \in 1..Len(Written) : Written[i] \in ListingLines
           /\ \A i \in 1..Len(file) : Written[i] = file[i]
           /\ (saving = null) => (Written = file)
<1> DEFINE b == IF saving = null THEN << >> ELSE saving.buffer
<1>1. file \in Seq(ListingLines) /\ b \in Seq(ListingLines)
  BY DEF StoreTypeOK, Saving
<1>2. (saving = null) => (b = << >>)
  OBVIOUS
<1>3. Written = file \o b
  BY DEF Written
<1> HIDE DEF b
<1>4. /\ file \o b \in Seq(ListingLines)
      /\ Len(file \o b) = Len(file) + Len(b)
      /\ \A i \in 1..(Len(file) + Len(b)) :
            (file \o b)[i] = IF i <= Len(file) THEN file[i] ELSE b[i - Len(file)]
      /\ Len(file) \in Nat /\ Len(b) \in Nat
  BY <1>1, ConcatProperties, LenProperties
<1>5. \A i \in 1..Len(file \o b) : (file \o b)[i] \in ListingLines
  BY <1>4, LenProperties
<1>6. (b = << >>) => (file \o b = file)
  BY <1>1, ConcatEmptySeq
<1> QED
  BY <1>2, <1>3, <1>4, <1>5, <1>6

(* A listing loaded from a file that agrees with a table has what the file *)
(* has.                                                                    *)
LEMMA Imported ==
    ASSUME StoreTypeOK, Agrees(file), UNCHANGED file, importMappingFrom(file)'
    PROVE  \A i \in 1..Len(file) : mClientMap'[file[i].addr] = file[i].name
<1>1. /\ DOMAIN file = 1..Len(file) /\ Len(file) \in Nat
      /\ \A i \in 1..Len(file) : file[i] \in ListingLines
  BY LenProperties DEF StoreTypeOK
<1>2. \A i \in 1..Len(file) : file[i].addr \in Addrs /\ file[i] # null
  BY <1>1, LineFields
<1>3. \A i, j \in 1..Len(file) : (file[i].addr = file[j].addr) => (i = j)
  BY DEF Agrees
<1>4. Accepted(file) = 1..Len(file)
  <2>1. \A i \in 1..Len(file) : /\ \A j \in 1..i : file[j] # null
                                /\ \A j \in 1..(i - 1) : file[j].addr # file[i].addr
    <3> SUFFICES ASSUME NEW i \in 1..Len(file)
                 PROVE  /\ \A j \in 1..i : file[j] # null
                        /\ \A j \in 1..(i - 1) : file[j].addr # file[i].addr
      OBVIOUS
    <3>1. \A j \in 1..i : j \in 1..Len(file)
      BY <1>1
    <3>2. \A j \in 1..(i - 1) : j \in 1..Len(file) /\ j # i
      BY <1>1
    <3> QED
      BY <1>2, <1>3, <3>1, <3>2
  <2> QED
    BY <1>1, <2>1 DEF Accepted
<1>5. \A a \in Addrs :
         \/ \A i \in Accepted(file) : file[i].addr # a
         \/ \E i \in Accepted(file) : file[i].addr = a /\ mClientMap'[a] = file[i].name
  BY DEF importMappingFrom, Accepted
<1> SUFFICES ASSUME NEW i \in 1..Len(file)
             PROVE  mClientMap'[file[i].addr] = file[i].name
  OBVIOUS
<1>6. PICK j \in 1..Len(file) :
         file[j].addr = file[i].addr /\ mClientMap'[file[i].addr] = file[j].name
  BY <1>2, <1>4, <1>5
<1>7. j = i
  BY <1>3, <1>6
<1> QED
  BY <1>6, <1>7

-----------------------------------------------------------------------------
(* A file that is empty, and no save. *)
LEMMA ListingInitially == StoreInit => ListingInv
<1> SUFFICES ASSUME StoreInit PROVE ListingInv
  OBVIOUS
<1>1. file = << >> /\ saving = null /\ adding = null /\ ListingTypeOK
  BY DEF StoreInit, ListingInit
<1>2. StoreTypeOK
  BY <1>1 DEF StoreTypeOK
<1>3. Written = << >>
  BY <1>1, <1>2, ListingLinesTyped
<1>4. Agrees(Written)
  BY <1>3 DEF Agrees
<1>5. Unwritten
  BY <1>1 DEF Unwritten
<1> QED
  BY <1>2, <1>4, <1>5 DEF ListingInv

(* Steps that leave the table and put nothing new into the file keep the   *)
(* agreement: what is written stays, moves from the buffer to the file or  *)
(* is lost with the buffer.                                                *)
LEMMA NothingNew ==
    ASSUME ListingInv, StoreTypeOK', UNCHANGED mClientMap,
           \/ Written' = Written
           \/ Written' = file
           \/ Written' = << >>
    PROVE  Agrees(Written)'
<1>1. /\ Len(file) \in Nat /\ Len(Written) \in Nat /\ Len(file) <= Len(Written)
      /\ \A i \in 1..Len(file) : Written[i] = file[i]
  BY ListingLinesTyped DEF ListingInv
<1>2. Agrees(Written)
  BY DEF ListingInv
<1>3. CASE Written' = Written
  BY <1>2, <1>3 DEF Agrees
<1>4. CASE Written' = file
  BY <1>1, <1>2, <1>4 DEF Agrees
<1>5. CASE Written' = << >>
  BY <1>5 DEF Agrees
<1> QED
  BY <1>3, <1>4, <1>5

(* The entry that the loop comes to is new in the file and that of the     *)
(* table.                                                                  *)
LEMMA EntryKept ==
    ASSUME ListingInv, NEW a \in Addrs, saving # null, a \in saving.ahead,
           saving' = [saving EXCEPT !.ahead = @ \ {a},
                                    !.buffer = Append(@, [addr |-> a, name |-> getClientAt(a)])],
           UNCHANGED <<listingVars, file, adding>>
    PROVE  ListingInv'
<1> DEFINE l == [addr |-> a, name |-> mClientMap[a]]
           b == saving.buffer
           n == Len(Written)
<1>1. saving \in Saving /\ saving' \in Saving /\ l \in ListingLines /\ l.addr = a
      /\ l.name = mClientMap[a]
  <2>1. saving \in Saving
    BY DEF ListingInv, StoreTypeOK
  <2>2. mClientMap[a] \in Names
    BY DEF ListingInv, Unwritten, StoreTypeOK, ListingTypeOK
  <2>3. l \in ListingLines /\ l.addr = a /\ l.name = mClientMap[a]
    BY <2>2 DEF ListingLines
  <2>4. b \in Seq(ListingLines)
    BY <2>1 DEF Saving
  <2> DEFINE c == Append(b, l)
             s == saving.ahead \ {a}
  <2>5. c \in Seq(ListingLines)
    BY <2>3, <2>4, AppendProperties
  <2>6. saving' = [saving EXCEPT !.ahead = s, !.buffer = c]
    BY DEF getClientAt
  <2>7. s \subseteq Addrs
    BY <2>1 DEF Saving
  <2> HIDE DEF c, s, l
  <2>8. saving' \in Saving
    BY <2>1, <2>5, <2>6, <2>7 DEF Saving
  <2> QED
    BY <2>1, <2>3, <2>8
<1>2. /\ saving' # null
      /\ saving'.ahead = saving.ahead \ {a}
      /\ saving'.buffer = Append(b, l)
  BY <1>1, StoreAssumption DEF Saving, getClientAt
<1>3. StoreTypeOK'
  BY <1>1 DEF ListingInv, StoreTypeOK, listingVars, ListingTypeOK
<1>4. Written' = Append(Written, l)
  <2>1. file \in Seq(ListingLines) /\ b \in Seq(ListingLines)
    BY <1>1 DEF ListingInv, StoreTypeOK, Saving
  <2>2. Written = file \o b /\ Written' = file \o Append(b, l)
    BY <1>2 DEF Written
  <2> HIDE DEF b, l
  <2>3. Append(b, l) = b \o <<l>> /\ Append(file \o b, l) = (file \o b) \o <<l>>
    BY <1>1, <2>1, AppendIsConcat, ConcatProperties
  <2>4. <<l>> \in Seq(ListingLines)
    BY <1>1
  <2>5. (file \o b) \o <<l>> = file \o (b \o <<l>>)
    BY <2>1, <2>4, ConcatAssociative
  <2> QED
    BY <2>2, <2>3, <2>5
<1>5. /\ Written \in Seq(ListingLines) /\ n \in Nat
      /\ \A i \in 1..n : Written[i] \in ListingLines
  BY ListingLinesTyped DEF ListingInv
<1>6. /\ Len(Written') = n + 1
      /\ \A i \in 1..n : Written'[i] = Written[i]
      /\ Written'[n + 1] = l
  <2> HIDE DEF l
  <2>1. /\ Len(Append(Written, l)) = n + 1
        /\ \A i \in 1..n : Append(Written, l)[i] = Written[i]
        /\ Append(Written, l)[n + 1] = l
    BY <1>1, <1>5, AppendProperties
  <2> QED
    BY <1>4, <2>1
<1> HIDE DEF l, n, b
<1>7. \A i : (i \in 1..Len(Written')) <=> (i \in 1..n \/ i = n + 1)
  BY <1>5, <1>6
<1>8. \A i \in 1..n : Written[i].addr # a
  BY DEF ListingInv, Unwritten, n
<1>9. Agrees(Written) /\ UNCHANGED mClientMap
  BY DEF ListingInv, listingVars
<1>10. \A i \in 1..Len(Written') : mClientMap'[Written'[i].addr] = Written'[i].name
  BY <1>1, <1>6, <1>7, <1>9 DEF Agrees, n
<1>11. \A i, j \in 1..Len(Written') : (Written'[i].addr = Written'[j].addr) => (i = j)
  BY <1>1, <1>6, <1>7, <1>8, <1>9 DEF Agrees, n
<1>12. Unwritten'
  <2> SUFFICES ASSUME NEW c \in saving.ahead, c # a
               PROVE  /\ mClientMap[c] # null
                      /\ \A i \in 1..Len(Written') : Written'[i].addr # c
    BY <1>2, <1>9 DEF Unwritten
  <2>1. mClientMap[c] # null /\ \A i \in 1..n : Written[i].addr # c
    BY DEF ListingInv, Unwritten, n
  <2> QED
    BY <1>1, <1>6, <1>7, <2>1
<1> QED
  BY <1>3, <1>10, <1>11, <1>12 DEF ListingInv, Agrees

(* A new client was not listed, so that no line is about its address. *)
LEMMA AddKept ==
    ASSUME ListingInv, NEW a \in Addrs, NEW n \in Names, Add(a, n)
    PROVE  ListingInv'
<1>1. /\ mClientMap[a] = null
      /\ mClientMap' = [mClientMap EXCEPT ![a] = n]
      /\ UNCHANGED <<mAddressMap, file>>
      /\ adding' = <<a, n>>
      /\ saving' = IF saving = null THEN null ELSE [saving EXCEPT !.stale = TRUE]
  BY DEF Add, AddClient, listed
<1>2. /\ saving' \in {null} \cup Saving
      /\ (saving' = null) <=> (saving = null)
      /\ (saving # null) => (saving'.ahead = saving.ahead /\ saving'.buffer = saving.buffer)
  <2>1. CASE saving = null
    BY <1>1, <2>1
  <2>2. CASE saving # null
    <3>1. saving \in Saving
      BY <2>2 DEF ListingInv, StoreTypeOK
    <3>2. /\ [saving EXCEPT !.stale = TRUE] \in Saving
          /\ [saving EXCEPT !.stale = TRUE].ahead = saving.ahead
          /\ [saving EXCEPT !.stale = TRUE].buffer = saving.buffer
      BY <3>1 DEF Saving
    <3> QED
      BY <1>1, <2>2, <3>2, StoreAssumption
  <2> QED
    BY <2>1, <2>2
<1>3. /\ mClientMap' \in [Addrs -> Names \cup {null}]
      /\ mClientMap'[a] = n
      /\ \A c \in Addrs : (c # a) => (mClientMap'[c] = mClientMap[c])
  BY <1>1 DEF ListingInv, StoreTypeOK, ListingTypeOK
<1>4. StoreTypeOK'
  BY <1>1, <1>2, <1>3 DEF ListingInv, StoreTypeOK, ListingTypeOK
<1>5. Written' = Written
  BY <1>1, <1>2 DEF Written
<1>6. \A i \in 1..Len(Written) : /\ Written[i].addr \in Addrs
                               /\ mClientMap[Written[i].addr] = Written[i].name
                               /\ Written[i].name \in Names
  BY ListingLinesTyped, LineFields DEF ListingInv, Agrees
<1>7. \A i \in 1..Len(Written) : Written[i].addr # a
  BY <1>1, <1>6, NullAssumption
<1>8. Agrees(Written)'
  BY <1>3, <1>5, <1>6, <1>7 DEF ListingInv, Agrees
<1>9. Unwritten'
  <2> SUFFICES ASSUME saving # null, NEW c \in saving.ahead
               PROVE  /\ mClientMap'[c] # null
                      /\ \A i \in 1..Len(Written) : Written[i].addr # c
    BY <1>2, <1>5 DEF Unwritten
  <2>1. mClientMap[c] # null /\ \A i \in 1..Len(Written) : Written[i].addr # c
    BY DEF ListingInv, Unwritten
  <2>2. c \in Addrs
    BY DEF ListingInv, StoreTypeOK, Saving
  <2> QED
    BY <1>1, <1>3, <2>1, <2>2
<1> QED
  BY <1>4, <1>8, <1>9 DEF ListingInv

(* Saving, adding and restarting keep file and table together. *)
LEMMA ListingStep == ListingInv /\ [StoreNext]_lvars => ListingInv'
<1> SUFFICES ASSUME ListingInv, [StoreNext]_lvars PROVE ListingInv'
  OBVIOUS
<1> USE StoreAssumption
<1>1. CASE SaveBegins
  <2>1. /\ file' = << >>
        /\ saving' = [ahead |-> { a \in Addrs : listed(a) }, buffer |-> << >>, stale |-> FALSE]
        /\ UNCHANGED <<mClientMap, mAddressMap, adding>>
    BY <1>1 DEF SaveBegins, listingVars
  <2>2. /\ saving' \in Saving
        /\ saving'.ahead = { a \in Addrs : listed(a) }
        /\ saving'.buffer = << >>
    BY <2>1 DEF Saving
  <2>3. StoreTypeOK'
    BY <2>1, <2>2 DEF ListingInv, StoreTypeOK, ListingTypeOK
  <2>4. Written' = << >>
    BY <2>1, <2>2 DEF Written
  <2>5. Agrees(Written)'
    BY <2>1, <2>3, <2>4, NothingNew
  <2>6. Unwritten'
    BY <2>1, <2>2, <2>4 DEF Unwritten, listed, getClientAt
  <2> QED
    BY <2>3, <2>5, <2>6 DEF ListingInv
<1>2. CASE SaveEntry
  BY <1>2, EntryKept DEF SaveEntry
<1>3. CASE Flush
  <2>1. /\ saving \in Saving
        /\ file' = file \o saving.buffer
        /\ saving' = [saving EXCEPT !.buffer = << >>]
        /\ UNCHANGED <<mClientMap, mAddressMap, adding>>
    BY <1>3 DEF Flush, listingVars, ListingInv, StoreTypeOK
  <2>2. /\ saving' \in Saving
        /\ saving'.ahead = saving.ahead
        /\ saving'.buffer = << >>
    <3> DEFINE e == << >>
    <3>1. e \in Seq(ListingLines) /\ saving' = [saving EXCEPT !.buffer = e]
      BY <2>1
    <3> HIDE DEF e
    <3>2. /\ saving' \in Saving
          /\ saving'.ahead = saving.ahead
          /\ saving'.buffer = e
      BY <2>1, <3>1 DEF Saving
    <3> QED
      BY <3>2 DEF e
  <2>3. Written = file \o saving.buffer
    BY <2>1 DEF Written
  <2>4. file' \in Seq(ListingLines)
    BY <2>1, <2>3, ListingLinesTyped DEF ListingInv
  <2>5. StoreTypeOK'
    BY <2>1, <2>2, <2>4 DEF ListingInv, StoreTypeOK, ListingTypeOK
  <2>6. Written' = Written
    BY <2>1, <2>2, <2>3, <2>4, ConcatEmptySeq DEF Written
  <2>7. Agrees(Written)'
    BY <2>1, <2>5, <2>6, NothingNew
  <2>8. Unwritten'
    BY <2>1, <2>2, <2>6 DEF ListingInv, Unwritten
  <2> QED
    BY <2>5, <2>7, <2>8 DEF ListingInv
<1>4. CASE SaveFails
  <2>1. saving' = null /\ UNCHANGED <<mClientMap, mAddressMap, file, adding>>
    BY <1>4 DEF SaveFails, listingVars
  <2>2. StoreTypeOK'
    BY <2>1 DEF ListingInv, StoreTypeOK, ListingTypeOK
  <2>3. Written' = file
    BY <2>1, ConcatEmptySeq DEF Written, ListingInv, StoreTypeOK
  <2>4. Agrees(Written)'
    BY <2>1, <2>2, <2>3, NothingNew
  <2> QED
    BY <2>1, <2>2, <2>4 DEF ListingInv, Unwritten
<1>5. CASE SaveEnds
  <2>1. /\ saving # null /\ saving' = null
        /\ file' = file \o saving.buffer
        /\ UNCHANGED <<mClientMap, mAddressMap, adding>>
    BY <1>5 DEF SaveEnds, listingVars
  <2>2. file' = Written
    BY <2>1 DEF Written
  <2>3. file' \in Seq(ListingLines)
    BY <2>2, ListingLinesTyped DEF ListingInv
  <2>4. StoreTypeOK'
    BY <2>1, <2>3 DEF ListingInv, StoreTypeOK, ListingTypeOK
  <2>5. Written' = Written
    BY <2>1, <2>2, <2>3, ConcatEmptySeq DEF Written
  <2>6. Agrees(Written)'
    BY <2>1, <2>4, <2>5, NothingNew
  <2> QED
    BY <2>1, <2>4, <2>6 DEF ListingInv, Unwritten
<1>6. ASSUME NEW a \in Addrs, NEW n \in Names, Add(a, n) PROVE ListingInv'
  BY <1>6, AddKept
<1>7. CASE AddEnds
  <2>1. /\ adding \in Addrs \X Names
        /\ mAddressMap' = [mAddressMap EXCEPT ![adding[2]] = adding[1]]
        /\ adding' = null
        /\ UNCHANGED <<mClientMap, file, saving>>
    BY <1>7 DEF AddEnds, AddAddress, ListingInv, StoreTypeOK
  <2>2. StoreTypeOK'
    BY <2>1 DEF ListingInv, StoreTypeOK, ListingTypeOK
  <2>3. Written' = Written
    BY <2>1 DEF Written
  <2>4. Agrees(Written)'
    BY <2>1, <2>2, <2>3, NothingNew
  <2> QED
    BY <2>1, <2>2, <2>3, <2>4 DEF ListingInv, Unwritten
<1>8. CASE Restart
  <2>1. /\ UNCHANGED file
        /\ mClientMap' \in [Addrs -> Names \cup {null}]
        /\ mAddressMap' \in [Names -> Addrs \cup {null}]
        /\ importMappingFrom(file)'
        /\ saving' = null
        /\ adding' = null
    BY <1>8 DEF Restart
  <2>2. StoreTypeOK'
    BY <2>1 DEF ListingInv, StoreTypeOK, ListingTypeOK
  <2>3. Written' = file
    BY <2>1, ConcatEmptySeq DEF Written, ListingInv, StoreTypeOK
  <2>4. Agrees(file)
    <3>1. /\ Len(file) \in Nat /\ Len(Written) \in Nat /\ Len(file) <= Len(Written)
          /\ \A i \in 1..Len(file) : Written[i] = file[i]
      BY ListingLinesTyped DEF ListingInv
    <3> QED
      BY <3>1 DEF ListingInv, Agrees
  <2>5. \A i \in 1..Len(file) : mClientMap'[file[i].addr] = file[i].name
    BY <2>1, <2>4, Imported DEF ListingInv
  <2>6. Agrees(Written)'
    BY <2>3, <2>4, <2>5 DEF Agrees
  <2> QED
    BY <2>1, <2>2, <2>6 DEF ListingInv, Unwritten
<1>9. CASE UNCHANGED lvars
  <2>1. UNCHANGED <<mClientMap, mAddressMap, file, saving, adding>>
    BY <1>9 DEF lvars, listingVars
  <2>2. StoreTypeOK' /\ Written' = Written
    BY <2>1 DEF ListingInv, StoreTypeOK, ListingTypeOK, Written
  <2> QED
    BY <2>1, <2>2 DEF ListingInv, Agrees, Unwritten
<1> QED
  BY <1>1, <1>2, <1>3, <1>4, <1>5, <1>6, <1>7, <1>8, <1>9 DEF StoreNext

(* A save that is torn at any point, by a crash or a concurrent add, never *)
(* leaves a file that contradicts the table or itself, and a server        *)
(* started from it gives nobody another name.                              *)
THEOREM NamesSurvive == StoreSpec => []NameSurvives
<1>1. ListingInv => NameSurvives
  <2> SUFFICES ASSUME ListingInv PROVE NameSurvives
    OBVIOUS
  <2>1. Agrees(Written) /\ DOMAIN Written = 1..Len(Written)
    BY ListingLinesTyped, LenProperties DEF ListingInv
  <2> QED
    BY <2>1 DEF NameSurvives, Agrees, Written, getClientAt
<1> QED
  BY <1>1, ListingInitially, ListingStep, PTL DEF StoreSpec

=============================================================================
