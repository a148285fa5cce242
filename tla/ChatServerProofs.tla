-------------------------- MODULE ChatServerProofs --------------------------
(***************************************************************************)
(* Proofs about ChatServer, for any sessions, addresses, names, messages,  *)
(* listing files and number of workers.                                    *)
(*                                                                         *)
(* The argument has four layers, each an invariant that uses those before  *)
(* it: who has an address and a name (Typed), what the two tables of the   *)
(* listing have to do with each other (ListingInv), what a page knows      *)
(* (KnowledgeInv), and what is still true of a name that was looked up     *)
(* when its message is sent (LookupInv).                                   *)
(***************************************************************************)
EXTENDS ChatServer, TLAPS

USE NullAssumption

-----------------------------------------------------------------------------
(* First layer: types, and that nobody who needs an address or a name is   *)
(* without.  A type invariant alone would not be inductive: PutAddress and *)
(* Tell store what they read under an address.                             *)

HaveAddress ==
    /\ \A c \in Clients : pc[c] # "gone" => addr[c] \in Addrs
    /\ \A c, d \in Clients : roster[c][d] = "ahead" => addr[d] \in Addrs

HaveName ==
    \A c \in Clients : pc[c] \notin {"gone", "accepted"} => listed(addr[c])

(* The session that holds the monitor may have closed, but has not gone.   *)
HolderThere ==
    monitor # null =>
        /\ pc[monitor.by] \in Established \cup {"closing"}
        /\ chat[monitor.message] = null

Typed == TypeOK /\ HaveAddress /\ HaveName /\ HolderThere

(* A page view stays one. *)
LEMMA ShownType ==
    ASSUME NEW view \in [Names -> Status], NEW n, NEW up \in BOOLEAN
    PROVE  Shown(view, n, up) \in [Names -> Status]
  BY DEF Shown, Status

(* Whatever is broadcast, views stay views. *)
LEMMA BroadcastType ==
    ASSUME TypeOK, NEW n, NEW up \in BOOLEAN
    PROVE  Broadcast(n, up) \in [Clients -> [Names -> Status]]
  <1>1. \A c \in Clients : presence[c] \in [Names -> Status]
    BY DEF TypeOK
  <1>2. \A c \in Clients : Shown(presence[c], n, up) \in [Names -> Status]
    BY <1>1, ShownType
  <1> QED
    BY <1>1, <1>2 DEF Broadcast

LEMMA TypedInit == Init => Typed
  BY DEF Init, Typed, TypeOK, ListingInit, HaveAddress, HaveName, HolderThere,
         Labels, Connecting, Established, NoRoster, NobodyKnown, Status

LEMMA TypedStep == Typed /\ [Next]_vars => Typed'
  <1> SUFFICES ASSUME Typed, [Next]_vars PROVE Typed'
    OBVIOUS
  <1>monitor. monitor # null => monitor.by \in Clients /\ monitor.message \in Messages
    BY DEF Typed, TypeOK, Sending
  <1> USE <1>monitor DEF Typed, TypeOK, ListingTypeOK, HaveAddress, HaveName,
              HolderThere, Labels,
              Connecting, Established, Becomes, listed, getClientAt,
              getClientUsername
  <1>1. ASSUME NEW c \in Clients, NEW a \in Addrs, Accept(c, a) PROVE Typed'
    <2>1. NobodyKnown \in [Names -> Status]
      BY DEF NobodyKnown, Status
    <2>2. roster' \in [Clients -> [Clients -> {"no", "ahead", "met"}]]
      BY <1>1 DEF Accept
    <2>3. \A d, e \in Clients : roster'[d][e] = "ahead" => e = c \/ roster[d][e] = "ahead"
      BY <1>1 DEF Accept
    <2>4. (TypeOK /\ HaveName /\ HolderThere)'
      BY <1>1, <2>1, <2>2 DEF Accept
    <2>5. HaveAddress'
      BY <1>1, <2>3 DEF Accept
    <2> QED
      BY <2>4, <2>5
  <1>2. ASSUME NEW c \in Clients, Close(c) PROVE Typed'
    <2>1. NobodyKnown \in [Names -> Status]
      BY DEF NobodyKnown, Status
    <2> QED
      BY <1>2, <2>1 DEF Close
  <1>3. ASSUME NEW c \in Clients, KeepName(c) PROVE Typed'
    BY <1>3 DEF KeepName
  <1>4. ASSUME NEW c \in Clients, TakeName(c) PROVE Typed'
    BY <1>4, ServerAssumption DEF TakeName, AddClient
  <1>5. ASSUME NEW c \in Clients, PutAddress(c) PROVE Typed'
    BY <1>5 DEF PutAddress, AddAddress
  <1>6. ASSUME NEW c \in Clients, Announce(c) PROVE Typed'
    <2>1. presence' \in [Clients -> [Names -> Status]]
      BY <1>6, BroadcastType DEF Announce
    <2> QED
      BY <1>6, <2>1 DEF Announce
  <1>7. ASSUME NEW c \in Clients, StartRoster(c) PROVE Typed'
    BY <1>7 DEF StartRoster, getConnectedClients
  <1>8. ASSUME NEW c \in Clients, NEW d \in Clients, Tell(c, d) PROVE Typed'
    <2>1. presence' \in [Clients -> [Names -> Status]]
      BY <1>8, ShownType DEF Tell
    <2>2. roster' \in [Clients -> [Clients -> {"no", "ahead", "met"}]]
      BY <1>8 DEF Tell
    <2>3. \A e, f \in Clients : roster'[e][f] = "ahead" => roster[e][f] = "ahead"
      BY <1>8 DEF Tell
    <2> QED
      BY <1>8, <2>1, <2>2, <2>3 DEF Tell
  <1>9. ASSUME NEW c \in Clients, NEW d \in Clients, TellFails(c, d) PROVE Typed'
    BY <1>9 DEF TellFails, NoRoster
  <1>10. ASSUME NEW c \in Clients, EndRoster(c) PROVE Typed'
    BY <1>10 DEF EndRoster, NoRoster
  <1>11. ASSUME NEW c \in Clients, onDisconnect(c) PROVE Typed'
    <2>1. presence' \in [Clients -> [Names -> Status]]
      BY <1>11, BroadcastType DEF onDisconnect
    <2> QED
      BY <1>11, <2>1 DEF onDisconnect
  <1>12. ASSUME NEW c \in Clients, NEW n \in Names, NEW m \in Messages, LookUp(c, n, m)
         PROVE Typed'
    <2>1. monitor' = [by |-> c, message |-> m, group |-> n, at |-> mAddressMap[n]]
      BY <1>12 DEF LookUp, getClientNamed
    <2>2. mAddressMap[n] \in Addrs \cup {null}
      OBVIOUS
    <2>3. monitor' \in Sending
      BY <2>1, <2>2 DEF Sending
    <2> QED
      BY <1>12, <2>1, <2>3 DEF LookUp
  <1>14. ASSUME NEW c \in Clients, Send(c) PROVE Typed'
    <2>1. monitor \in Sending /\ c = monitor.by
      BY <1>14 DEF Send, Holder
    <2>2. { addr[d] : d \in Recipients(monitor.at) } \in SUBSET Addrs
      BY DEF Recipients, getConnectedClients
    <2>3. addr[c] \in Addrs /\ getClientUsername(c) \in Names
      <3>1. c \in Clients /\ pc[c] \notin {"gone", "accepted"}
        BY <1>14, <2>1 DEF Send, Holder
      <3>2. addr[c] \in Addrs /\ mClientMap[addr[c]] # null
        BY <3>1
      <3> QED
        BY <3>2
    <2>4. monitor.group \in Names
      BY <2>1 DEF Sending
    <2>5. [from |-> addr[c], author |-> getClientUsername(c), group |-> monitor.group,
           to |-> { addr[d] : d \in Recipients(monitor.at) }] \in Deliveries
      BY <2>2, <2>3, <2>4 DEF Deliveries
    <2>6. chat' \in [Messages -> Deliveries \cup {null}]
      BY <1>14, <2>5 DEF Send
    <2> QED
      BY <1>14, <2>6 DEF Send
  <1>13. CASE UNCHANGED vars
    BY <1>13 DEF vars
  <1> QED
    BY <1>1, <1>2, <1>3, <1>4, <1>5, <1>6, <1>7, <1>8, <1>9, <1>10, <1>11,
       <1>12, <1>13, <1>14 DEF Next, onConnect, onData

(* Types.  Every variable of the server keeps the shape that its           *)
(* declaration has in ChatServer.java and ClientListing.java, and every    *)
(* session at work has an address.                                         *)
THEOREM TypeCorrect == Spec => []TypeOK
  <1>1. Spec => []Typed
    BY TypedInit, TypedStep, PTL DEF Spec
  <1>2. Typed => TypeOK
    BY DEF Typed
  <1> QED
    BY <1>1, <1>2, PTL

-----------------------------------------------------------------------------
(* Second layer: the listing.  A name that an address has is found in the  *)
(* other table, or its session is between the two puts; no two sessions    *)
(* are connected from one address, so that session is the only one that    *)
(* can fill the gap.                                                       *)

EnrolledOrPending ==
    \A a \in Addrs :
        listed(a) =>
            \/ getClientNamed(getClientAt(a)) # null
            \/ \E c \in Clients : pc[c] = "adding" /\ addr[c] = a

OneSessionPerAddress ==
    \A c, d \in getConnectedClients : addr[c] = addr[d] => c = d

ListingInv == MapsAgree /\ EnrolledOrPending /\ OneSessionPerAddress

(* The import takes one line for an address. *)
LEMMA AcceptedOnce ==
    ASSUME NEW file \in Seq(ListingLines \cup {null}),
           NEW i \in Accepted(file), NEW j \in Accepted(file),
           file[i].addr = file[j].addr
    PROVE  i = j
  BY DEF Accepted

LEMMA ListingInitially == Init => ListingInv
  <1> SUFFICES ASSUME Init PROVE ListingInv
    OBVIOUS
  <1>1. PICK file \in ListingFiles : importMappingFrom(file)
    BY DEF Init, ListingInit
  <1>2. file \in Seq(ListingLines \cup {null})
    BY ServerAssumption
  <1>3. MapsAgree
    <2> SUFFICES ASSUME NEW n \in Names, NEW a \in Addrs, mAddressMap[n] = a
                 PROVE  mClientMap[a] = n
      BY DEF MapsAgree, getClientNamed, getClientAt
    <2>1. PICK i \in Accepted(file) : file[i].name = n /\ file[i].addr = a
      BY <1>1 DEF importMappingFrom
    <2>2. PICK j \in Accepted(file) : file[j].addr = a /\ mClientMap[a] = file[j].name
      BY <1>1, <2>1 DEF importMappingFrom
    <2>3. i = j
      BY <1>2, <2>1, <2>2, AcceptedOnce
    <2> QED
      BY <2>1, <2>2, <2>3
  <1>4. EnrolledOrPending
    <2> SUFFICES ASSUME NEW a \in Addrs, mClientMap[a] # null
                 PROVE  mAddressMap[mClientMap[a]] # null
      BY DEF EnrolledOrPending, getClientNamed, getClientAt, listed
    <2>1. PICK i \in Accepted(file) : file[i].addr = a /\ mClientMap[a] = file[i].name
      BY <1>1 DEF importMappingFrom
    <2>2. mClientMap[a] \in Names
      BY DEF Init, ListingInit, ListingTypeOK
    <2>3. PICK k \in Accepted(file) :
             file[k].name = mClientMap[a] /\ mAddressMap[mClientMap[a]] = file[k].addr
      BY <1>1, <2>1, <2>2 DEF importMappingFrom
    <2>4. file[k] \in ListingLines
      BY <1>2 DEF Accepted
    <2> QED
      BY <2>3, <2>4 DEF ListingLines
  <1>5. OneSessionPerAddress
    BY DEF Init, OneSessionPerAddress, getConnectedClients, Connecting, Established
  <1> QED
    BY <1>3, <1>4, <1>5 DEF ListingInv

(* A step that leaves the listing alone, lets no session in and takes none *)
(* from between its puts, disturbs nothing of this layer.                  *)
LEMMA ListingUndisturbed ==
    ASSUME ListingInv, UNCHANGED <<mClientMap, mAddressMap, addr>>,
           \A c \in Clients : pc[c] = "adding" => pc'[c] = "adding",
           getConnectedClients' \subseteq getConnectedClients
    PROVE  ListingInv'
  <1>1. MapsAgree'
    BY DEF ListingInv, MapsAgree, getClientNamed, getClientAt
  <1>2. EnrolledOrPending'
    BY DEF ListingInv, EnrolledOrPending, getClientNamed, getClientAt, listed
  <1>3. OneSessionPerAddress'
    BY DEF ListingInv, OneSessionPerAddress
  <1> QED
    BY <1>1, <1>2, <1>3 DEF ListingInv

LEMMA ListingStep == Typed /\ ListingInv /\ [Next]_vars => ListingInv'
  <1> SUFFICES ASSUME Typed, ListingInv, [Next]_vars PROVE ListingInv'
    OBVIOUS
  <1> USE DEF Typed, TypeOK, Becomes, getConnectedClients, Connecting, Established
  <1>1. ASSUME NEW c \in Clients, NEW a \in Addrs, Accept(c, a) PROVE ListingInv'
    <2>1. MapsAgree'
      BY <1>1 DEF Accept, ListingInv, MapsAgree, getClientNamed, getClientAt
    <2>2. EnrolledOrPending'
      <3> SUFFICES ASSUME NEW b \in Addrs, listed(b), getClientNamed(getClientAt(b)) = null
                   PROVE  \E d \in Clients : pc'[d] = "adding" /\ addr'[d] = b
        BY <1>1 DEF Accept, EnrolledOrPending, getClientNamed, getClientAt, listed
      <3>1. PICK d \in Clients : pc[d] = "adding" /\ addr[d] = b
        BY DEF ListingInv, EnrolledOrPending
      <3> QED
        BY <1>1, <3>1 DEF Accept
    <2>3. OneSessionPerAddress'
      BY <1>1 DEF Accept, ListingInv, OneSessionPerAddress
    <2> QED
      BY <2>1, <2>2, <2>3 DEF ListingInv
  <1>2. ASSUME NEW c \in Clients, Close(c) PROVE ListingInv'
    BY <1>2, ListingUndisturbed DEF Close
  <1>3. ASSUME NEW c \in Clients, KeepName(c) PROVE ListingInv'
    BY <1>3, ListingUndisturbed DEF KeepName
  <1>4. ASSUME NEW c \in Clients, TakeName(c) PROVE ListingInv'
    <2>1. PICK n \in AnonymousNames : AddClient(addr[c], n)
      BY <1>4 DEF TakeName
    <2>2. addr[c] \in Addrs /\ addr' = addr /\ pc[c] = "accepted" /\ pc'[c] = "adding"
      BY <1>4 DEF TakeName, HaveAddress
    <2>3. mClientMap[addr[c]] = null
      BY <2>1 DEF AddClient, listed
    <2>4. MapsAgree'
      BY <2>1, <2>2, <2>3 DEF AddClient, ListingInv, MapsAgree, getClientNamed,
         getClientAt, ListingTypeOK
    <2>5. EnrolledOrPending'
      <3> SUFFICES ASSUME NEW b \in Addrs, listed(b)',
                          (getClientNamed(getClientAt(b)) = null)'
                   PROVE  \E d \in Clients : pc'[d] = "adding" /\ addr'[d] = b
        BY DEF EnrolledOrPending
      <3>1. CASE b = addr[c]
        BY <2>2, <3>1
      <3>2. CASE b # addr[c]
        <4>1. mClientMap'[b] = mClientMap[b] /\ mAddressMap' = mAddressMap
          BY <2>1, <2>2, <3>2 DEF AddClient, ListingTypeOK
        <4>2. PICK d \in Clients : pc[d] = "adding" /\ addr[d] = b
          BY <4>1 DEF ListingInv, EnrolledOrPending, listed, getClientNamed, getClientAt
        <4> QED
          BY <1>4, <4>2 DEF TakeName
      <3> QED
        BY <3>1, <3>2
    <2>6. OneSessionPerAddress'
      BY <1>4 DEF TakeName, ListingInv, OneSessionPerAddress
    <2> QED
      BY <2>4, <2>5, <2>6 DEF ListingInv
  <1>5. ASSUME NEW c \in Clients, PutAddress(c) PROVE ListingInv'
    <2> DEFINE n == mClientMap[addr[c]]
    <2>1. addr[c] \in Addrs /\ n \in Names
      BY <1>5 DEF PutAddress, HaveAddress, HaveName, listed, getClientAt, ListingTypeOK
    <2>2. mAddressMap' = [mAddressMap EXCEPT ![n] = addr[c]] /\ mClientMap' = mClientMap
      BY <1>5 DEF PutAddress, AddAddress, getClientUsername, getClientAt
    <2>3. addr' = addr /\ pc' = [pc EXCEPT ![c] = "registered"]
      BY <1>5 DEF PutAddress
    <2>4. MapsAgree'
      BY <2>1, <2>2 DEF ListingInv, MapsAgree, getClientNamed, getClientAt, ListingTypeOK
    <2>5. EnrolledOrPending'
      <3> SUFFICES ASSUME NEW b \in Addrs, mClientMap[b] # null,
                          mAddressMap'[mClientMap[b]] = null
                   PROVE  \E d \in Clients : pc'[d] = "adding" /\ addr'[d] = b
        BY <2>2 DEF EnrolledOrPending, getClientNamed, getClientAt, listed
      <3>1. mClientMap[b] \in Names /\ mClientMap[b] # n /\ mAddressMap[mClientMap[b]] = null
        BY <2>1, <2>2 DEF ListingTypeOK
      <3>2. PICK d \in Clients : pc[d] = "adding" /\ addr[d] = b
        BY <3>1 DEF ListingInv, EnrolledOrPending, listed, getClientNamed, getClientAt
      <3>3. d # c
        BY <3>1, <3>2
      <3> QED
        BY <2>3, <3>2, <3>3
    <2>6. OneSessionPerAddress'
      BY <1>5, <2>3 DEF PutAddress, ListingInv, OneSessionPerAddress
    <2> QED
      BY <2>4, <2>5, <2>6 DEF ListingInv
  <1>6. ASSUME NEW c \in Clients, Announce(c) PROVE ListingInv'
    BY <1>6, ListingUndisturbed DEF Announce
  <1>7. ASSUME NEW c \in Clients, StartRoster(c) PROVE ListingInv'
    BY <1>7, ListingUndisturbed DEF StartRoster
  <1>8. ASSUME NEW c \in Clients, NEW d \in Clients, Tell(c, d) PROVE ListingInv'
    BY <1>8, ListingUndisturbed DEF Tell
  <1>9. ASSUME NEW c \in Clients, NEW d \in Clients, TellFails(c, d) PROVE ListingInv'
    BY <1>9, ListingUndisturbed DEF TellFails
  <1>10. ASSUME NEW c \in Clients, EndRoster(c) PROVE ListingInv'
    BY <1>10, ListingUndisturbed DEF EndRoster
  <1>11. ASSUME NEW c \in Clients, onDisconnect(c) PROVE ListingInv'
    BY <1>11, ListingUndisturbed DEF onDisconnect
  <1>12. ASSUME NEW c \in Clients, onData(c) PROVE ListingInv'
    BY <1>12, ListingUndisturbed DEF onData, LookUp, Send
  <1>13. CASE UNCHANGED vars
    BY <1>13, ListingUndisturbed DEF vars
  <1> QED
    BY <1>1, <1>2, <1>3, <1>4, <1>5, <1>6, <1>7, <1>8, <1>9, <1>10, <1>11,
       <1>12, <1>13 DEF Next, onConnect

(* The tables of the listing never contradict each other, although "add"   *)
(* writes them one after the other and a name may be taken twice.          *)
THEOREM ListingConsistent == Spec => []MapsAgree
  <1>1. Init => Typed /\ ListingInv
    BY TypedInit, ListingInitially
  <1>2. Typed /\ ListingInv /\ [Next]_vars => Typed' /\ ListingInv'
    BY TypedStep, ListingStep
  <1>3. ListingInv => MapsAgree
    BY DEF ListingInv
  <1> QED
    BY <1>1, <1>2, <1>3, PTL DEF Spec

-----------------------------------------------------------------------------
(* Third layer: what the pages know.  While a loop is running, whoever was *)
(* announced and is not known to its page yet is still ahead of it: those  *)
(* announced before the session opened are in the collection when the loop *)
(* starts, those announced later were told to the session by broadcast.    *)

KnownAreNamed ==
    \A c \in Clients, n \in Names :
        presence[c][n] # "unknown" => \E a \in Addrs : getClientAt(a) = n

RosterCovers ==
    \A c, d \in Clients :
        /\ pc[c] = "roster"
        /\ d \in Announced
        /\ presence[c][getClientUsername(d)] = "unknown"
        => roster[c][d] = "ahead"

KnowledgeInv == KnownAreNamed /\ RosterCovers /\ MutualKnowledge

(* A listed address keeps its name. *)
LEMMA NamesKept ==
    ASSUME Typed, [Next]_vars
    PROVE  \A a \in Addrs : listed(a) => mClientMap'[a] = mClientMap[a]
  <1>1. ASSUME NEW c \in Clients, TakeName(c)
        PROVE  \A a \in Addrs : listed(a) => mClientMap'[a] = mClientMap[a]
    BY <1>1 DEF TakeName, AddClient, listed, Typed, TypeOK, ListingTypeOK
  <1>2. \/ UNCHANGED mClientMap
        \/ \E c \in Clients : TakeName(c)
    BY DEF Next, vars, Accept, Close, onConnect, KeepName, PutAddress, AddAddress,
       Announce, StartRoster, Tell, TellFails, EndRoster, onDisconnect, onData,
       LookUp, Send
  <1> QED
    BY <1>1, <1>2

(* An event changes what a page knows only by adding the name that comes   *)
(* online, and forgets nothing.                                            *)
LEMMA ShownKnows ==
    ASSUME NEW view \in [Names -> Status], NEW n \in Names, NEW up \in BOOLEAN,
           NEW k \in Names
    PROVE  Shown(view, n, up)[k] # "unknown"
               <=> view[k] # "unknown" \/ (up /\ k = n)
  BY DEF Shown, Status

(* The name of a session that has one, and the events about it. *)
LEMMA NameOf ==
    ASSUME Typed, NEW c \in Clients, pc[c] \notin {"gone", "accepted"}
    PROVE  /\ addr[c] \in Addrs
           /\ listed(addr[c])
           /\ getClientUsername(c) \in Names
  BY DEF Typed, TypeOK, ListingTypeOK, HaveAddress, HaveName, getClientUsername,
     getClientAt, listed

LEMMA BroadcastKnows ==
    ASSUME Typed, NEW n \in Names, NEW up \in BOOLEAN, presence' = Broadcast(n, up),
           NEW c \in Clients, NEW k \in Names
    PROVE  presence'[c][k] # "unknown"
               <=> presence[c][k] # "unknown" \/ (c \in getConnectedClients /\ up /\ k = n)
  <1>1. presence[c] \in [Names -> Status]
    BY DEF Typed, TypeOK
  <1>2. Shown(presence[c], n, up)[k] # "unknown"
          <=> presence[c][k] # "unknown" \/ (up /\ k = n)
    BY <1>1, ShownKnows
  <1> QED
    BY <1>2 DEF Broadcast

LEMMA KnowledgeInitially == Init => KnowledgeInv
  BY DEF Init, KnowledgeInv, KnownAreNamed, RosterCovers, MutualKnowledge,
     NobodyKnown

(* What a step must not do to disturb this layer. *)
LEMMA KnowledgeUndisturbed ==
    ASSUME Typed, KnowledgeInv, [Next]_vars,
           \A c \in Clients, n \in Names :
               presence'[c][n] # "unknown" => presence[c][n] # "unknown",
           \A c \in Clients : pc'[c] \in {"open", "roster"} =>
               /\ pc'[c] = pc[c]
               /\ \A n \in Names :
                      presence[c][n] # "unknown" => presence'[c][n] # "unknown",
           \A d \in Clients : d \in Announced' => d \in Announced /\ addr'[d] = addr[d],
           \A c, d \in Clients :
               pc'[c] = "roster" /\ d \in Announced' /\ roster[c][d] = "ahead"
                   => roster'[c][d] = "ahead"
    PROVE  KnowledgeInv'
  <1>1. \A d \in Clients : d \in Announced' =>
            /\ d \in Announced
            /\ getClientUsername(d)' = getClientUsername(d)
            /\ getClientUsername(d) \in Names
    <2> SUFFICES ASSUME NEW d \in Clients, d \in Announced'
                 PROVE  /\ d \in Announced
                        /\ getClientUsername(d)' = getClientUsername(d)
                        /\ getClientUsername(d) \in Names
      OBVIOUS
    <2>1. d \in Announced /\ addr'[d] = addr[d]
      OBVIOUS
    <2>2. pc[d] \notin {"gone", "accepted"}
      BY <2>1 DEF Announced, Established
    <2> QED
      BY <2>1, <2>2, NameOf, NamesKept DEF getClientUsername, getClientAt
  <1>2. KnownAreNamed'
    <2> SUFFICES ASSUME NEW c \in Clients, NEW n \in Names, presence'[c][n] # "unknown"
                 PROVE  \E a \in Addrs : mClientMap'[a] = n
      BY DEF KnownAreNamed, getClientAt
    <2>1. PICK a \in Addrs : mClientMap[a] = n
      BY DEF KnowledgeInv, KnownAreNamed, getClientAt
    <2> QED
      BY <2>1, NamesKept DEF listed, getClientAt
  <1>3. RosterCovers'
    <2> SUFFICES ASSUME NEW c \in Clients, NEW d \in Clients,
                        pc'[c] = "roster", d \in Announced',
                        presence'[c][getClientUsername(d)'] = "unknown"
                 PROVE  roster'[c][d] = "ahead"
      BY DEF RosterCovers
    <2>1. pc[c] = "roster" /\ presence[c][getClientUsername(d)] = "unknown"
      BY <1>1
    <2> QED
      BY <1>1, <2>1 DEF KnowledgeInv, RosterCovers
  <1>4. MutualKnowledge'
    <2> SUFFICES ASSUME NEW c \in Clients, NEW d \in Clients,
                        pc'[c] = "open", d \in Announced'
                 PROVE  presence'[c][getClientUsername(d)'] # "unknown"
      BY DEF MutualKnowledge
    <2>1. pc[c] = "open" /\ presence[c][getClientUsername(d)] # "unknown"
      BY <1>1 DEF KnowledgeInv, MutualKnowledge
    <2> QED
      BY <1>1, <2>1
  <1> QED
    BY <1>2, <1>3, <1>4 DEF KnowledgeInv

LEMMA KnowledgeStep ==
    Typed /\ ListingInv /\ KnowledgeInv /\ [Next]_vars => KnowledgeInv'
  <1> SUFFICES ASSUME Typed, ListingInv, KnowledgeInv, [Next]_vars PROVE KnowledgeInv'
    OBVIOUS
  <1>types.
        /\ pc \in [Clients -> Labels]
        /\ roster \in [Clients -> [Clients -> {"no", "ahead", "met"}]]
        /\ presence \in [Clients -> [Names -> Status]]
        /\ addr \in [Clients -> Addrs \cup {null}]
    BY DEF Typed, TypeOK
  <1>there. Announced \subseteq getConnectedClients
    BY DEF Announced, getConnectedClients, Connecting, Established
  <1>1. ASSUME NEW c \in Clients, NEW a \in Addrs, Accept(c, a) PROVE KnowledgeInv'
    <2>1. Announced' = Announced /\ c \notin Announced
      BY <1>1, <1>types DEF Accept, Becomes, Announced, Established
    <2>2. \A n \in Names : presence'[c][n] = "unknown"
      BY <1>1, <1>types DEF Accept, NobodyKnown
    <2>3. \A d \in Clients \ {c} :
             pc'[d] = pc[d] /\ presence'[d] = presence[d] /\ addr'[d] = addr[d]
      BY <1>1, <1>types DEF Accept, Becomes
    <2>4. pc'[c] = "accepted"
      BY <1>1, <1>types DEF Accept, Becomes
    <2>5. \A d, e \in Clients : e # c => roster'[d][e] = roster[d][e]
      BY <1>1, <1>types DEF Accept
    <2> QED
      BY <2>1, <2>2, <2>3, <2>4, <2>5, KnowledgeUndisturbed
  <1>2. ASSUME NEW c \in Clients, Close(c) PROVE KnowledgeInv'
    <2>1. \A n \in Names : presence'[c][n] = "unknown"
      BY <1>2, <1>types DEF Close, NobodyKnown
    <2>2. \A d \in Clients \ {c} : pc'[d] = pc[d] /\ presence'[d] = presence[d]
      BY <1>2, <1>types DEF Close, Becomes
    <2>3. pc'[c] = "closing" /\ addr' = addr /\ roster' = roster
      BY <1>2, <1>types DEF Close, Becomes
    <2>4. Announced' \subseteq Announced
      BY <2>2, <2>3 DEF Announced, Established
    <2> QED
      BY <2>1, <2>2, <2>3, <2>4, KnowledgeUndisturbed
  <1>3. ASSUME NEW c \in Clients, KeepName(c) PROVE KnowledgeInv'
    BY <1>3, <1>types, KnowledgeUndisturbed DEF KeepName, Becomes, Announced, Established
  <1>4. ASSUME NEW c \in Clients, TakeName(c) PROVE KnowledgeInv'
    BY <1>4, <1>types, KnowledgeUndisturbed DEF TakeName, Becomes, Announced, Established
  <1>5. ASSUME NEW c \in Clients, PutAddress(c) PROVE KnowledgeInv'
    BY <1>5, <1>types, KnowledgeUndisturbed DEF PutAddress, Becomes, Announced, Established
  <1>6. ASSUME NEW c \in Clients, Announce(c) PROVE KnowledgeInv'
    <2> DEFINE n == getClientUsername(c)
    <2>1. addr[c] \in Addrs /\ listed(addr[c]) /\ n \in Names
      BY <1>6, NameOf DEF Announce
    <2>2. /\ UNCHANGED <<mClientMap, addr, roster>>
          /\ pc' = [pc EXCEPT ![c] = "announced"]
      BY <1>6 DEF Announce, Becomes
    <2>3. \A d \in Clients, k \in Names :
             presence'[d][k] # "unknown"
                 <=> presence[d][k] # "unknown" \/ (d \in getConnectedClients /\ k = n)
      BY <1>6, <2>1, BroadcastKnows DEF Announce
    <2>4. \A d \in Clients : d \in Announced' =>
             /\ getClientUsername(d)' = getClientUsername(d)
             /\ getClientUsername(d) \in Names
             /\ d \in Announced \/ d = c
      <3> SUFFICES ASSUME NEW d \in Clients, d \in Announced'
                   PROVE  /\ getClientUsername(d)' = getClientUsername(d)
                          /\ getClientUsername(d) \in Names
                          /\ d \in Announced \/ d = c
        OBVIOUS
      <3>1. d \in Announced \/ d = c
        BY <2>2, <1>types DEF Announced, Established
      <3>2. pc[d] \notin {"gone", "accepted"}
        BY <3>1, <1>6 DEF Announce, Announced, Established
      <3> QED
        BY <3>1, <3>2, <2>2, NameOf DEF getClientUsername, getClientAt
    <2>5. KnownAreNamed'
      BY <2>1, <2>2, <2>3 DEF KnowledgeInv, KnownAreNamed, getClientUsername, getClientAt
    <2>6. \A d \in Clients : pc'[d] \in {"roster", "open"} =>
             pc'[d] = pc[d] /\ d \in getConnectedClients
      BY <2>2, <1>types DEF getConnectedClients, Connecting, Established
    <2>7. RosterCovers'
      BY <2>2, <2>3, <2>4, <2>6 DEF KnowledgeInv, RosterCovers
    <2>8. MutualKnowledge'
      BY <2>3, <2>4, <2>6 DEF KnowledgeInv, MutualKnowledge
    <2> QED
      BY <2>5, <2>7, <2>8 DEF KnowledgeInv
  <1>7. ASSUME NEW c \in Clients, StartRoster(c) PROVE KnowledgeInv'
    <2>1. /\ UNCHANGED <<mClientMap, addr, presence>>
          /\ pc' = [pc EXCEPT ![c] = "roster"]
          /\ Announced' = Announced
      BY <1>7, <1>types DEF StartRoster, Becomes, Announced, Established
    <2>2. \A d \in Clients : d \in getConnectedClients => roster'[c][d] = "ahead"
      BY <1>7, <1>types DEF StartRoster
    <2>3. \A d \in Clients \ {c} : roster'[d] = roster[d]
      BY <1>7, <1>types DEF StartRoster
    <2>4. KnownAreNamed'
      BY <2>1 DEF KnowledgeInv, KnownAreNamed, getClientAt
    <2>5. RosterCovers'
      BY <1>types, <1>there, <2>1, <2>2, <2>3
         DEF KnowledgeInv, RosterCovers, getClientUsername, getClientAt
    <2>6. MutualKnowledge'
      BY <1>types, <2>1 DEF KnowledgeInv, MutualKnowledge, getClientUsername, getClientAt
    <2> QED
      BY <2>4, <2>5, <2>6 DEF KnowledgeInv
  <1>8. ASSUME NEW c \in Clients, NEW d \in Clients, Tell(c, d) PROVE KnowledgeInv'
    <2> DEFINE n == getClientUsername(d)
    <2>1. addr[d] \in Addrs /\ listed(addr[d]) /\ n \in Names
      BY <1>8 DEF Tell, Typed, TypeOK, ListingTypeOK, HaveAddress, listed,
         getClientUsername, getClientAt
    <2>2. /\ UNCHANGED <<mClientMap, addr, pc>>
          /\ presence' = [presence EXCEPT ![c] = Shown(presence[c], n, TRUE)]
          /\ roster' = [roster EXCEPT ![c][d] = "met"]
      BY <1>8 DEF Tell
    <2>3. \A k \in Names : presence'[c][k] # "unknown"
                               <=> presence[c][k] # "unknown" \/ k = n
      <3>1. presence[c] \in [Names -> Status] /\ presence'[c] = Shown(presence[c], n, TRUE)
        BY <1>types, <2>2
      <3> HIDE DEF n
      <3> QED
        BY <2>1, <3>1 DEF Shown, Status
    <2>4. \A e \in Clients \ {c} : presence'[e] = presence[e]
      BY <1>types, <2>2
    <2>5. \A e, f \in Clients : roster'[e][f] = roster[e][f] \/ (e = c /\ f = d)
      BY <1>types, <2>2
    <2>6. \A e \in Clients : e \in Announced' =>
             /\ e \in Announced
             /\ getClientUsername(e)' = getClientUsername(e)
             /\ getClientUsername(e) \in Names
      <3>1. \A e \in Clients : e \in Announced => pc[e] \notin {"gone", "accepted"}
        BY DEF Announced, Established
      <3> QED
        BY <2>2, <3>1, NameOf DEF Announced, getClientUsername, getClientAt
    <2>7. KnownAreNamed'
      <3> SUFFICES ASSUME NEW e \in Clients, NEW k \in Names, presence'[e][k] # "unknown"
                   PROVE  \E a \in Addrs : mClientMap[a] = k
        BY <2>2 DEF KnownAreNamed, getClientAt
      <3>1. CASE presence[e][k] # "unknown"
        BY <3>1 DEF KnowledgeInv, KnownAreNamed, getClientAt
      <3>2. CASE presence[e][k] = "unknown"
        BY <2>1, <2>3, <2>4, <3>2 DEF getClientUsername, getClientAt
      <3> QED
        BY <3>1, <3>2
    <2>8. RosterCovers'
      <3> SUFFICES ASSUME NEW e \in Clients, NEW f \in Clients,
                          pc[e] = "roster", f \in Announced',
                          presence'[e][getClientUsername(f)'] = "unknown"
                   PROVE  roster'[e][f] = "ahead"
        BY <2>2 DEF RosterCovers
      <3>1. f \in Announced /\ presence'[e][getClientUsername(f)] = "unknown"
        BY <2>6
      <3>2. presence[e][getClientUsername(f)] = "unknown"
        BY <2>3, <2>4, <2>6, <3>1
      <3>3. ~(e = c /\ f = d)
        BY <2>1, <2>3, <3>1
      <3> QED
        BY <2>5, <3>1, <3>2, <3>3 DEF KnowledgeInv, RosterCovers
    <2>9. MutualKnowledge'
      BY <2>2, <2>3, <2>4, <2>6, ZenonT(30) DEF KnowledgeInv, MutualKnowledge
    <2> QED
      BY <2>7, <2>8, <2>9 DEF KnowledgeInv
  <1>9. ASSUME NEW c \in Clients, NEW d \in Clients, TellFails(c, d) PROVE KnowledgeInv'
    <2>1. pc'[c] = "partial" /\ pc[c] = "roster" /\ addr' = addr /\ presence' = presence
      BY <1>9, <1>types DEF TellFails, Becomes
    <2>2. \A e \in Clients \ {c} : pc'[e] = pc[e] /\ roster'[e] = roster[e]
      BY <1>9, <1>types DEF TellFails, Becomes
    <2>3. Announced' = Announced
      BY <2>1, <2>2 DEF Announced, Established
    <2> QED
      BY <2>1, <2>2, <2>3, KnowledgeUndisturbed
  <1>10. ASSUME NEW c \in Clients, EndRoster(c) PROVE KnowledgeInv'
    <2>1. /\ UNCHANGED <<mClientMap, addr, presence>>
          /\ pc' = [pc EXCEPT ![c] = "open"]
          /\ pc[c] = "roster"
          /\ Announced' = Announced
      BY <1>10, <1>types DEF EndRoster, Becomes, Announced, Established
    <2>2. \A d \in Announced : roster[c][d] # "ahead"
      BY <1>10, <1>there DEF EndRoster
    <2>3. \A d \in Clients \ {c} : roster'[d] = roster[d]
      BY <1>10, <1>types DEF EndRoster
    <2>4. KnownAreNamed'
      BY <2>1 DEF KnowledgeInv, KnownAreNamed, getClientAt
    <2>5. RosterCovers'
      BY <1>types, <2>1, <2>3 DEF KnowledgeInv, RosterCovers, getClientUsername, getClientAt
    <2>6. MutualKnowledge'
      BY <1>types, <2>1, <2>2
         DEF KnowledgeInv, MutualKnowledge, RosterCovers, getClientUsername, getClientAt
    <2> QED
      BY <2>4, <2>5, <2>6 DEF KnowledgeInv
  <1>11. ASSUME NEW c \in Clients, onDisconnect(c) PROVE KnowledgeInv'
    <2>1. getClientUsername(c) \in Names
      BY <1>11, NameOf DEF onDisconnect
    <2>2. \A d \in Clients, k \in Names :
             presence'[d][k] # "unknown" <=> presence[d][k] # "unknown"
      BY <1>11, <2>1, BroadcastKnows DEF onDisconnect
    <2>3. /\ UNCHANGED <<addr, roster>>
          /\ pc'[c] = "gone"
          /\ \A d \in Clients \ {c} : pc'[d] = pc[d]
      BY <1>11, <1>types DEF onDisconnect, Becomes
    <2>4. Announced' \subseteq Announced
      BY <2>3 DEF Announced, Established
    <2> QED
      BY <2>2, <2>3, <2>4, KnowledgeUndisturbed
  <1>12. ASSUME NEW c \in Clients, onData(c) PROVE KnowledgeInv'
    BY <1>12, KnowledgeUndisturbed DEF onData, LookUp, Send, Announced, Established
  <1>13. CASE UNCHANGED vars
    BY <1>13, KnowledgeUndisturbed DEF vars, Announced, Established
  <1> QED
    BY <1>1, <1>2, <1>3, <1>4, <1>5, <1>6, <1>7, <1>8, <1>9, <1>10, <1>11,
       <1>12, <1>13 DEF Next, onConnect

-----------------------------------------------------------------------------
(* Fourth layer: the name that was looked up.  The handler of a message    *)
(* has the monitor from the lookup to the end, but "add" does not ask for  *)
(* it: names are listed in the meantime.  Nobody is announced, though, and *)
(* a listed address keeps its name.                                        *)

LookupTrue ==
    monitor # null /\ monitor.at # null => getClientAt(monitor.at) = monitor.group

LookupFindsAnnounced ==
    monitor # null =>
        \A d \in Announced : getClientUsername(d) = monitor.group => monitor.at # null

LookupInv == LookupTrue /\ LookupFindsAnnounced

LEMMA NameStays ==
    ASSUME Typed, [Next]_vars, NEW d \in Clients, pc[d] \notin {"gone", "accepted"}
    PROVE  getClientUsername(d)' = getClientUsername(d)
  <1>1. addr[d] \in Addrs /\ mClientMap'[addr[d]] = mClientMap[addr[d]]
    BY NameOf, NamesKept
  <1>2. addr'[d] = addr[d]
    BY DEF Next, vars, Accept, Close, onConnect, KeepName, TakeName, PutAddress,
       Announce, StartRoster, Tell, TellFails, EndRoster, onDisconnect, onData,
       LookUp, Send, Typed, TypeOK
  <1> QED
    BY <1>1, <1>2 DEF getClientUsername, getClientAt

(* The name of a session that was announced is in the table it is looked   *)
(* up in: the only one that could stand between the two puts for it is the *)
(* session itself.                                                         *)
LEMMA AnnouncedEnrolled ==
    ASSUME Typed, ListingInv, NEW d \in Announced
    PROVE  mAddressMap[getClientUsername(d)] # null
  <1> SUFFICES ASSUME mAddressMap[getClientUsername(d)] = null PROVE FALSE
    OBVIOUS
  <1>1. d \in Clients /\ pc[d] \in Connecting \cup Established
        /\ pc[d] \notin {"gone", "accepted", "adding"}
    BY DEF Announced, Connecting, Established
  <1>2. addr[d] \in Addrs /\ listed(addr[d])
    BY <1>1, NameOf
  <1>3. PICK e \in Clients : pc[e] = "adding" /\ addr[e] = addr[d]
    BY <1>2 DEF ListingInv, EnrolledOrPending, listed, getClientAt, getClientNamed,
       getClientUsername
  <1>4. e = d
    BY <1>1, <1>3 DEF ListingInv, OneSessionPerAddress, getConnectedClients, Connecting
  <1> QED
    BY <1>1, <1>3, <1>4

LEMMA LookupStep ==
    Typed /\ ListingInv /\ LookupInv /\ [Next]_vars => LookupInv'
  <1> SUFFICES ASSUME Typed, ListingInv, LookupInv, [Next]_vars PROVE LookupInv'
    OBVIOUS
  <1>1. CASE monitor' = null
    BY <1>1 DEF LookupInv, LookupTrue, LookupFindsAnnounced
  <1>2. ASSUME NEW c \in Clients, NEW n \in Names, NEW m \in Messages, LookUp(c, n, m)
        PROVE  LookupInv'
    <2>1. /\ monitor'.group = n
          /\ monitor'.at = mAddressMap[n]
          /\ UNCHANGED <<mClientMap, mAddressMap, pc, addr>>
      BY <1>2 DEF LookUp, getClientNamed
    <2>2. mAddressMap[n] # null => mClientMap[mAddressMap[n]] = n
      BY DEF ListingInv, MapsAgree, getClientNamed, getClientAt, Typed, TypeOK,
         ListingTypeOK
    <2>3. LookupTrue'
      BY <2>1, <2>2 DEF LookupTrue, getClientAt
    <2>4. LookupFindsAnnounced'
      <3>1. \A d \in Announced : getClientUsername(d) = n => mAddressMap[n] # null
        BY AnnouncedEnrolled
      <3> QED
        BY <2>1, <3>1 DEF LookupFindsAnnounced, Announced, getClientUsername, getClientAt
    <2> QED
      BY <2>3, <2>4 DEF LookupInv
  <1>3. CASE monitor' = monitor /\ monitor # null
    <2>1. monitor \in Sending
      BY <1>3 DEF Typed, TypeOK
    <2>2. LookupTrue'
      <3> SUFFICES ASSUME monitor.at # null
                   PROVE  mClientMap'[monitor.at] = monitor.group
        BY <1>3 DEF LookupTrue, getClientAt
      <3>1. monitor.at \in Addrs /\ monitor.group \in Names
        BY <2>1 DEF Sending
      <3>2. mClientMap[monitor.at] = monitor.group
        BY <1>3 DEF LookupInv, LookupTrue, getClientAt
      <3>3. listed(monitor.at)
        BY <3>1, <3>2, NullAssumption DEF listed
      <3> QED
        BY <3>1, <3>2, <3>3, NamesKept
    <2>3. Announced' \subseteq Announced
      <3> USE DEF Becomes, Announced, Established
      <3>types. pc \in [Clients -> Labels]
        BY DEF Typed, TypeOK
      <3>1. ASSUME NEW c \in Clients,
                   \/ \E a \in Addrs : Accept(c, a)
                   \/ Close(c) \/ KeepName(c) \/ TakeName(c) \/ PutAddress(c)
                   \/ onDisconnect(c)
            PROVE  Announced' \subseteq Announced
        BY <3>1, <3>types
           DEF Accept, Close, KeepName, TakeName, PutAddress, onDisconnect
      <3>2. ASSUME NEW c \in Clients,
                   \/ \E d \in Clients : Tell(c, d) \/ TellFails(c, d)
                   \/ StartRoster(c) \/ EndRoster(c)
            PROVE  Announced' \subseteq Announced
        BY <3>2, <3>types DEF Tell, TellFails, StartRoster, EndRoster
      <3>3. \A c \in Clients : ~Announce(c)
        BY <1>3 DEF Announce
      <3>4. CASE UNCHANGED pc
        BY <3>4
      <3>5. (\E c \in Clients : onData(c)) \/ UNCHANGED vars => UNCHANGED pc
        BY DEF onData, LookUp, Send, vars
      <3> QED
        BY <3>1, <3>2, <3>3, <3>4, <3>5 DEF Next, onConnect
    <2>4. \A d \in Announced : getClientUsername(d)' = getClientUsername(d)
      BY NameStays DEF Announced, Established
    <2>5. LookupFindsAnnounced'
      BY <1>3, <2>3, <2>4 DEF LookupInv, LookupFindsAnnounced
    <2> QED
      BY <2>2, <2>5 DEF LookupInv
  <1>4. \/ monitor' \in {null, monitor}
        \/ \E c \in Clients, n \in Names, m \in Messages : LookUp(c, n, m)
    BY DEF Next, vars, Accept, Close, onConnect, KeepName, TakeName, PutAddress,
       Announce, StartRoster, Tell, TellFails, EndRoster, onDisconnect, onData, Send
  <1> QED
    BY <1>1, <1>2, <1>3, <1>4

(* The four layers hold together. *)
IInv == Typed /\ ListingInv /\ KnowledgeInv /\ LookupInv

LEMMA Inductive == Spec => []IInv
  <1>1. Init => IInv
    BY TypedInit, ListingInitially, KnowledgeInitially
       DEF Init, IInv, LookupInv, LookupTrue, LookupFindsAnnounced
  <1>2. IInv /\ [Next]_vars => IInv'
    BY TypedStep, ListingStep, KnowledgeStep, LookupStep DEF IInv
  <1> QED
    BY <1>1, <1>2, PTL DEF Spec

(* Nobody falls between the loop of onConnect and the broadcasts: a page   *)
(* whose onConnect has ended normally lists every session announced.       *)
THEOREM EverybodyIsKnown == Spec => []MutualKnowledge
  <1>1. IInv => MutualKnowledge
    BY DEF IInv, KnowledgeInv
  <1> QED
    BY <1>1, Inductive, PTL

(* The lookup of a name that a page knows succeeds, but between the puts.  *)
THEOREM KnownNamesAreRoutable == Spec => []KnownNamesRoutable
  <1>1. IInv => KnownNamesRoutable
    <2> SUFFICES ASSUME IInv, NEW c \in Clients, NEW n \in Names,
                        presence[c][n] # "unknown"
                 PROVE  getClientNamed(n) # null \/ Pending(n)
      BY DEF KnownNamesRoutable
    <2>1. PICK a \in Addrs : getClientAt(a) = n
      BY DEF IInv, KnowledgeInv, KnownAreNamed
    <2>2. listed(a)
      BY <2>1, NullAssumption DEF listed, getClientAt
    <2> QED
      BY <2>1, <2>2 DEF IInv, ListingInv, EnrolledOrPending, Pending, getClientUsername
  <1> QED
    BY <1>1, Inductive, PTL

-----------------------------------------------------------------------------
(* Routing.  A message is sent by the handler that holds the monitor, in   *)
(* one step that leaves sessions and names alone.                          *)

LEMMA RoutedBySend ==
    ASSUME [Next]_vars, Typed, NEW m \in Messages, chat[m] = null, chat'[m] # null
    PROVE  monitor.message = m /\ Send(monitor.by)
  <1>1. chat' # chat
    OBVIOUS
  <1>2. PICK c \in Clients : Send(c)
    BY <1>1 DEF Next, vars, Accept, Close, onConnect, KeepName, TakeName, PutAddress,
       Announce, StartRoster, Tell, TellFails, EndRoster, onDisconnect, onData, LookUp
  <1>3. c = monitor.by
    BY <1>2 DEF Send, Holder
  <1>4. monitor.message = m
    BY <1>2 DEF Send, Typed, TypeOK
  <1> QED
    BY <1>2, <1>3, <1>4

LEMMA SendOutcome ==
    ASSUME Typed, NEW c, Send(c)
    PROVE  /\ c \in Clients /\ c = monitor.by
           /\ monitor \in Sending /\ monitor # null
           /\ pc[c] \in Established \cup {"closing"}
           /\ chat[monitor.message] = null
           /\ chat' = [chat EXCEPT ![monitor.message] =
                  [from |-> addr[c], author |-> getClientUsername(c),
                   group |-> monitor.group,
                   to |-> { addr[d] : d \in Recipients(monitor.at) }]]
           /\ UNCHANGED mClientMap
  BY DEF Send, Holder, Typed, TypeOK, HolderThere

LEMMA SentAs ==
    ASSUME Typed, NEW m \in Messages, monitor.message = m, Send(monitor.by)
    PROVE  /\ chat'[m].from = addr[monitor.by]
           /\ chat'[m].author = getClientUsername(monitor.by)
           /\ chat'[m].group = monitor.group
           /\ chat'[m].to = { addr[d] : d \in Recipients(monitor.at) }
  BY DEF Send, Typed, TypeOK

(* No session registered under the name that a message asks for is missed, *)
(* if no other address has that name: whoever is announced when the        *)
(* message is sent was so when its name was looked up.                     *)
THEOREM NobodyIsMissed == Spec => NoMessageMissed
  <1>1. ASSUME IInv, [Next]_vars,
               NEW m \in Messages, NEW d \in Clients,
               chat[m] = null, chat'[m] # null, DistinctNames,
               d \in Announced, getClientUsername(d) = chat'[m].group
        PROVE  addr[d] \in chat'[m].to
    <2>1. Typed /\ LookupInv
      BY <1>1 DEF IInv
    <2>2. monitor.message = m /\ Send(monitor.by)
      BY <1>1, <2>1, RoutedBySend
    <2>3. chat'[m].group = monitor.group
          /\ chat'[m].to = { addr[e] : e \in Recipients(monitor.at) }
      BY <2>1, <2>2, SentAs
    <2>4. getClientUsername(d) = monitor.group
      BY <1>1, <2>3
    <2>5. monitor \in Sending /\ monitor # null
      BY <2>1, <2>2, SendOutcome
    <2>6. pc[d] \in Connecting \cup Established /\ pc[d] \notin {"gone", "accepted"}
      BY <1>1 DEF Announced, Connecting, Established
    <2>7. addr[d] \in Addrs /\ listed(addr[d]) /\ getClientAt(addr[d]) = monitor.group
      BY <2>1, <2>4, <2>6, NameOf DEF getClientUsername
    <2>8. monitor.at # null /\ getClientAt(monitor.at) = monitor.group
      BY <1>1, <2>1, <2>4, <2>5 DEF LookupInv, LookupTrue, LookupFindsAnnounced
    <2>9. monitor.at \in Addrs
      BY <2>5, <2>8 DEF Sending
    <2>10. monitor.at = addr[d]
      BY <1>1, <2>7, <2>8, <2>9 DEF DistinctNames
    <2>11. d \in Recipients(monitor.at)
      BY <2>6, <2>8, <2>10 DEF Recipients, getConnectedClients
    <2> QED
      BY <2>3, <2>11
  <1>2. IInv /\ [Next]_vars =>
          [\A m \in Messages, d \in Clients :
              /\ chat[m] = null
              /\ chat'[m] # null
              /\ DistinctNames
              /\ d \in Announced
              /\ getClientUsername(d) = chat'[m].group
              => addr[d] \in chat'[m].to]_vars
    BY <1>1
  <1> QED
    BY <1>2, Inductive, PTL DEF Spec, NoMessageMissed

(* Whoever gets a message from a session that is still there, once its own *)
(* onConnect has ended normally, has the author on its buddy list.         *)
THEOREM AuthorsAreKnown == Spec => AuthorInBuddyList
  <1>1. ASSUME IInv, [Next]_vars,
               NEW m \in Messages, NEW d \in Clients, NEW c \in Announced,
               chat[m] = null, chat'[m] # null, addr[c] = chat'[m].from,
               pc[d] = "open"
        PROVE  presence[d][chat'[m].author] # "unknown"
    <2>1. Typed
      BY <1>1 DEF IInv
    <2>2. monitor.message = m /\ Send(monitor.by)
      BY <1>1, <2>1, RoutedBySend
    <2>3. chat'[m].from = addr[monitor.by]
          /\ chat'[m].author = getClientUsername(monitor.by)
      BY <2>1, <2>2, SentAs
    <2>4. chat'[m].author = getClientUsername(c)
      BY <1>1, <2>3 DEF getClientUsername
    <2>5. presence[d][getClientUsername(c)] # "unknown"
      BY <1>1 DEF IInv, KnowledgeInv, MutualKnowledge, Announced
    <2> QED
      BY <2>4, <2>5
  <1>2. IInv /\ [Next]_vars =>
          [\A m \in Messages, d \in Clients :
              /\ chat[m] = null
              /\ chat'[m] # null
              /\ \E c \in Announced : addr[c] = chat'[m].from
              /\ pc[d] = "open"
              /\ addr[d] \in chat'[m].to
              => presence[d][chat'[m].author] # "unknown"]_vars
    BY <1>1
  <1> QED
    BY <1>2, Inductive, PTL DEF Spec, AuthorInBuddyList

-----------------------------------------------------------------------------
(* Refinement: the server implements ChatRouting, with the first table of  *)
(* the listing as the registry.                                            *)

LEMMA RoutingInitially == Init => Routing!Init
  BY DEF Init, ListingInit, ListingTypeOK, Routing!Init

LEMMA RoutingStep == IInv /\ [Next]_vars => [Routing!Next]_(Routing!vars)
  <1> SUFFICES ASSUME IInv, [Next]_vars PROVE [Routing!Next]_(Routing!vars)
    OBVIOUS
  <1>1. TypeOK /\ Typed
    BY DEF IInv, Typed
  <1>2. ASSUME NEW c \in Clients, TakeName(c) PROVE Routing!Next
    <2>1. PICK n \in AnonymousNames : AddClient(addr[c], n)
      BY <1>2 DEF TakeName
    <2>2. addr[c] \in Addrs /\ n \in Names /\ chat' = chat
      BY <1>1, <1>2, ServerAssumption DEF TakeName, Typed, HaveAddress
    <2>3. Routing!Enrol(addr[c], n)
      BY <2>1, <2>2 DEF AddClient, listed, Routing!Enrol
    <2> QED
      BY <2>2, <2>3 DEF Routing!Next
  <1>3. ASSUME NEW c \in Clients, Send(c) PROVE Routing!Next
    <2> DEFINE m == monitor.message
               n == monitor.group
               to == { addr[d] : d \in Recipients(monitor.at) }
    <2>1. monitor \in Sending /\ monitor # null /\ pc[c] \in Established \cup {"closing"}
      BY <1>1, <1>3, SendOutcome
    <2>2. m \in Messages /\ n \in Names /\ monitor.at \in Addrs \cup {null}
      BY <2>1 DEF Sending
    <2>3. addr[c] \in Addrs /\ mClientMap[addr[c]] # null
      BY <1>1, <2>1, NameOf DEF listed, Established
    <2>4. \A a \in to : a = monitor.at /\ a # null
      BY DEF Recipients
    <2>5. \A a \in to : mClientMap[a] = n
      BY <2>1, <2>4 DEF IInv, LookupInv, LookupTrue, getClientAt
    <2>6. to \in SUBSET Addrs
      BY <2>2, <2>4
    <2>7. /\ chat[m] = null
          /\ chat' = [chat EXCEPT ![m] = [from |-> addr[c], author |-> mClientMap[addr[c]],
                                          group |-> n, to |-> to]]
          /\ UNCHANGED mClientMap
      BY <1>1, <1>3, SendOutcome DEF getClientUsername, getClientAt
    <2> HIDE DEF to, m, n
    <2>8. Routing!Route(m, addr[c], n, to)
      BY <2>3, <2>4, <2>5, <2>7 DEF Routing!Route
    <2> QED
      BY <2>2, <2>3, <2>6, <2>8 DEF Routing!Next
  <1>4. \/ UNCHANGED <<mClientMap, chat>>
        \/ \E c \in Clients : TakeName(c)
        \/ \E c \in Clients : Send(c)
    BY DEF Next, vars, Accept, Close, onConnect, KeepName, PutAddress, AddAddress,
       Announce, StartRoster, Tell, TellFails, EndRoster, onDisconnect, onData, LookUp
  <1> QED
    BY <1>2, <1>3, <1>4 DEF Routing!vars

(* The server implements the abstract routing: addresses keep their names, *)
(* messages carry the registered name of their sender and reach at most    *)
(* one address, which is registered under the name asked for.              *)
THEOREM RoutingImplemented == Spec => ImplementsRouting
  BY RoutingInitially, RoutingStep, Inductive, PTL
     DEF Spec, ImplementsRouting, Routing!Spec

=============================================================================
