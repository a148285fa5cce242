----------------------------- MODULE ChatServer -----------------------------
(***************************************************************************)
(* The chat server (lib/.../net/ChatServer.java): its three listeners, run *)
(* by the worker threads of the socket.io library over one ClientListing.  *)
(*                                                                         *)
(* Sending and getConnectedClients are synchronized on the server object:  *)
(* a broadcast is one step, a message takes the monitor when its name is   *)
(* looked up and gives it back when it was sent.  The rest of onConnect is *)
(* outside of it: it writes the listing and walks over the live collection *)
(* of sessions with no lock, while the library adds and removes sessions   *)
(* and other workers run other handlers.                                   *)
(***************************************************************************)
EXTENDS ClientListing, FiniteSets

CONSTANTS
    Clients,        \* slots for SocketIOClient sessions, used again and again
    AnonymousNames, \* "anonymous0" ... "anonymous99"
    Messages,       \* messages that pages send, each at most once
    Workers,        \* how many handlers may run at the same time
    ListingFiles    \* the listing files that the server may start from

ASSUME ServerAssumption ==
    /\ AnonymousNames \subseteq Names
    /\ Workers \in Nat \ {0}
    /\ ListingFiles \subseteq Seq(ListingLines \cup {null})

VARIABLES
    pc,         \* how far the session and its running handler have come
    addr,       \* SocketIOClient.getRemoteAddress(); null before first use
    roster,     \* per session, the loop over the connected sessions
    presence,   \* per session, what its page shows from the events sent to it
    chat,       \* per message, null or how the server routed it
    monitor     \* of the server object: null, or the message that holds it

vars == <<mClientMap, mAddressMap, pc, addr, roster, presence, chat, monitor>>

(* The steps of onConnect are named for what has been done: "accepted"     *)
(* nothing yet, "adding" the first of the two listing tables written,      *)
(* "registered" both, "announced" the broadcast made, "roster" inside the  *)
(* loop.  Afterwards the session is "open", or "partial" if the loop ended *)
(* in a NullPointerException.  A session that is "closing" is gone from    *)
(* the library's collection and has its onDisconnect to run.               *)
Connecting == {"accepted", "adding", "registered", "announced", "roster"}
Established == {"open", "partial"}
Labels == Connecting \cup Established \cup {"closing", "gone"}

Status == {"unknown", "online", "offline"}
NobodyKnown == [n \in Names |-> "unknown"]
NoRoster == [d \in Clients |-> "no"]

Deliveries == [from : Addrs, author : Names, group : Names, to : SUBSET Addrs]

(* A message whose name was looked up: whose it is, and the address the    *)
(* name led to.                                                            *)
Sending == [by : Clients, message : Messages, group : Names, at : Addrs \cup {null}]

TypeOK ==
    /\ ListingTypeOK
    /\ pc \in [Clients -> Labels]
    /\ addr \in [Clients -> Addrs \cup {null}]
    /\ roster \in [Clients -> [Clients -> {"no", "ahead", "met"}]]
    /\ presence \in [Clients -> [Names -> Status]]
    /\ chat \in [Messages -> Deliveries \cup {null}]
    /\ monitor \in Sending \cup {null}

Init ==
    /\ ListingInit(ListingFiles)
    /\ pc = [c \in Clients |-> "gone"]
    /\ addr = [c \in Clients |-> null]
    /\ roster = [c \in Clients |-> NoRoster]
    /\ presence = [c \in Clients |-> NobodyKnown]
    /\ chat = [m \in Messages |-> null]
    /\ monitor = null

-----------------------------------------------------------------------------
(* State the library keeps, and the helpers of the code.  (A definition    *)
(* called "mutant" is a slip that the properties must detect; it is used   *)
(* by no specification.)                                                   *)

(* The library's live collection of sessions. *)
getConnectedClients == { c \in Clients : pc[c] \in Connecting \cup Established }

(* The session whose message holds the monitor. *)
Holder == { c \in Clients : monitor # null /\ monitor.by = c }

Busy == { c \in Clients : pc[c] \in Connecting \cup {"closing"} } \cup Holder

WorkerFree == Cardinality(Busy) < Workers

getClientUsername(c) == getClientAt(addr[c])

(* Those that have been announced to everybody else who was there. *)
Announced == { c \in Clients : pc[c] \in {"announced", "roster"} \cup Established }

(* One connection-change event, on a page.  Only a name that comes online  *)
(* enters the buddy list; one that goes offline is changed if it is there. *)
Shown(view, n, up) ==
    [view EXCEPT ![n] = IF up THEN "online"
                        ELSE IF @ = "unknown" THEN "unknown" ELSE "offline"]

mutantBroadcastToOpen(n, up) ==
    [c \in Clients |->
        IF pc[c] = "open" THEN Shown(presence[c], n, up) ELSE presence[c]]

(* sendMessage(ConnectMessage): to all sessions, under the monitor. *)
Broadcast(n, up) ==
    [c \in Clients |->
        IF c \in getConnectedClients THEN Shown(presence[c], n, up)
                                     ELSE presence[c]]

mutantRecipients(a) ==
    { d \in getConnectedClients : pc[d] = "open" /\ a # null /\ addr[d] = a }

(* The sessions at the address that the name led to.  For a name that led  *)
(* to none the code throws, and sends to nobody.                           *)
Recipients(a) == { d \in getConnectedClients : a # null /\ addr[d] = a }

Becomes(c, label) == pc' = [pc EXCEPT ![c] = label]

-----------------------------------------------------------------------------
(* The library. *)

(* A session opens: it is in the live collection before onConnect starts.  *)
(* A loop that is under way may or may not come to it later.               *)
Accept(c, a) ==
    /\ pc[c] = "gone"
    /\ WorkerFree
    /\ \A d \in getConnectedClients : addr[d] # a
    /\ Becomes(c, "accepted")
    /\ addr' = [addr EXCEPT ![c] = a]
    /\ presence' = [presence EXCEPT ![c] = NobodyKnown]
    /\ \E S \in SUBSET { d \in Clients : pc[d] = "roster" /\ roster[d][c] # "met" } :
          roster' = [d \in Clients |->
              IF d \in S THEN [roster[d] EXCEPT ![c] = "ahead"]
              ELSE IF roster[d][c] = "ahead" THEN [roster[d] EXCEPT ![c] = "no"]
              ELSE roster[d]]
    /\ UNCHANGED <<mClientMap, mAddressMap, chat, monitor>>

(* A session ends; the library drops it and calls onDisconnect. *)
Close(c) ==
    /\ pc[c] \in Established
    /\ WorkerFree
    /\ Becomes(c, "closing")
    /\ presence' = [presence EXCEPT ![c] = NobodyKnown]
    /\ UNCHANGED <<mClientMap, mAddressMap, addr, roster, chat, monitor>>

-----------------------------------------------------------------------------
(* onConnect. *)

(* The name: the listed one, or a random one that nobody checks for use. *)
KeepName(c) ==
    /\ pc[c] = "accepted"
    /\ listed(addr[c])
    /\ Becomes(c, "registered")
    /\ UNCHANGED <<mClientMap, mAddressMap, addr, roster, presence, chat, monitor>>

TakeName(c) ==
    /\ pc[c] = "accepted"
    /\ \E n \in AnonymousNames : AddClient(addr[c], n)
    /\ Becomes(c, "adding")
    /\ UNCHANGED <<addr, roster, presence, chat, monitor>>

PutAddress(c) ==
    /\ pc[c] = "adding"
    /\ AddAddress(addr[c], getClientUsername(c))
    /\ Becomes(c, "registered")
    /\ UNCHANGED <<addr, roster, presence, chat, monitor>>

Announce(c) ==
    /\ pc[c] = "registered"
    /\ monitor = null
    /\ presence' = Broadcast(getClientUsername(c), TRUE)
    /\ Becomes(c, "announced")
    /\ UNCHANGED <<mClientMap, mAddressMap, addr, roster, chat, monitor>>

mutantRosterOfOpen(c) ==
    /\ pc[c] = "announced"
    /\ monitor = null
    /\ roster' = [roster EXCEPT ![c] =
          [d \in Clients |-> IF pc[d] = "open" THEN "ahead" ELSE "no"]]
    /\ Becomes(c, "roster")
    /\ UNCHANGED <<mClientMap, mAddressMap, addr, presence, chat, monitor>>

(* The loop that tells the new session who is connected.  It runs outside  *)
(* the monitor over the live collection: it comes to every session that is *)
(* there throughout, may come to one that has ended in the meantime, and   *)
(* may come to one that has not got a name yet.                            *)
StartRoster(c) ==
    /\ pc[c] = "announced"
    /\ monitor = null
    /\ roster' = [roster EXCEPT ![c] =
          [d \in Clients |-> IF d \in getConnectedClients THEN "ahead" ELSE "no"]]
    /\ Becomes(c, "roster")
    /\ UNCHANGED <<mClientMap, mAddressMap, addr, presence, chat, monitor>>

mutantTellTheOther(c, d) ==
    /\ pc[c] = "roster"
    /\ roster[c][d] = "ahead"
    /\ listed(addr[d])
    /\ presence' = [presence EXCEPT ![d] = Shown(@, getClientUsername(d), TRUE)]
    /\ roster' = [roster EXCEPT ![c][d] = "met"]
    /\ UNCHANGED <<mClientMap, mAddressMap, pc, addr, chat, monitor>>

Tell(c, d) ==
    /\ pc[c] = "roster"
    /\ roster[c][d] = "ahead"
    /\ listed(addr[d])
    /\ presence' = [presence EXCEPT ![c] = Shown(@, getClientUsername(d), TRUE)]
    /\ roster' = [roster EXCEPT ![c][d] = "met"]
    /\ UNCHANGED <<mClientMap, mAddressMap, pc, addr, chat, monitor>>

TellFails(c, d) ==
    /\ pc[c] = "roster"
    /\ roster[c][d] = "ahead"
    /\ ~listed(addr[d])
    /\ roster' = [roster EXCEPT ![c] = NoRoster]
    /\ Becomes(c, "partial")
    /\ UNCHANGED <<mClientMap, mAddressMap, addr, presence, chat, monitor>>

EndRoster(c) ==
    /\ pc[c] = "roster"
    /\ \A d \in getConnectedClients : roster[c][d] # "ahead"
    /\ roster' = [roster EXCEPT ![c] = NoRoster]
    /\ Becomes(c, "open")
    /\ UNCHANGED <<mClientMap, mAddressMap, addr, presence, chat, monitor>>

onConnect(c) ==
    \/ KeepName(c)
    \/ TakeName(c)
    \/ PutAddress(c)
    \/ Announce(c)
    \/ StartRoster(c)
    \/ \E d \in Clients : Tell(c, d) \/ TellFails(c, d)
    \/ EndRoster(c)

-----------------------------------------------------------------------------

onDisconnect(c) ==
    /\ pc[c] = "closing"
    /\ monitor = null
    /\ presence' = Broadcast(getClientUsername(c), FALSE)
    /\ Becomes(c, "gone")
    /\ UNCHANGED <<mClientMap, mAddressMap, addr, roster, chat, monitor>>

(* onData: a page sends message m to a name of its buddy list.  The name   *)
(* is looked up under the monitor, which "add" on another worker does not  *)
(* take.                                                                   *)
LookUp(c, n, m) ==
    /\ pc[c] \in Established
    /\ WorkerFree
    /\ monitor = null
    /\ presence[c][n] # "unknown"
    /\ chat[m] = null
    /\ monitor' = [by |-> c, message |-> m, group |-> n, at |-> getClientNamed(n)]
    /\ UNCHANGED <<mClientMap, mAddressMap, pc, addr, roster, presence, chat>>

mutantSend(c) ==
    /\ c \in Holder
    /\ \E w \in Names :
          chat' = [chat EXCEPT ![monitor.message] =
              [from |-> addr[c], author |-> w, group |-> monitor.group,
               to |-> { addr[d] : d \in Recipients(monitor.at) }]]
    /\ monitor' = null
    /\ UNCHANGED <<mClientMap, mAddressMap, pc, addr, roster, presence>>

(* Then the sessions are gone through, and it is sent.  The author that    *)
(* the page filled in is replaced by the name of its address.  The session *)
(* may have closed by now: its own departure waits for the monitor.        *)
Send(c) ==
    /\ c \in Holder
    /\ chat' = [chat EXCEPT ![monitor.message] =
          [from |-> addr[c], author |-> getClientUsername(c), group |-> monitor.group,
           to |-> { addr[d] : d \in Recipients(monitor.at) }]]
    /\ monitor' = null
    /\ UNCHANGED <<mClientMap, mAddressMap, pc, addr, roster, presence>>

onData(c) == (\E n \in Names, m \in Messages : LookUp(c, n, m)) \/ Send(c)

-----------------------------------------------------------------------------

Next ==
    \E c \in Clients :
        \/ \E a \in Addrs : Accept(c, a)
        \/ onConnect(c)
        \/ onData(c)
        \/ Close(c)
        \/ onDisconnect(c)

Spec == Init /\ [][Next]_vars

(* A handler that has begun goes on: workers are threads that the JVM      *)
(* schedules, and no handler waits for anything but the monitor, which is  *)
(* only held while a message is sent.  Nobody has to connect, to send or   *)
(* to leave.                                                               *)
Fairness ==
    \A c \in Clients : WF_vars(onConnect(c)) /\ WF_vars(onDisconnect(c)) /\ WF_vars(Send(c))

FairSpec == Spec /\ Fairness

-----------------------------------------------------------------------------
(* Correctness. *)

Pending(n) ==
    \E c \in Clients : pc[c] = "adding" /\ getClientUsername(c) = n

(* A name on a page's buddy list can be written to: it is in the table     *)
(* that getRecipientsOf looks it up in (ChatServer.java:142), and a missing*)
(* entry would be a NullPointerException at line 146.  The only exception  *)
(* is the moment between the two puts of ClientListing.add, when another   *)
(* thread's loop may already have passed the name on.                      *)
KnownNamesRoutable ==
    \A c \in Clients, n \in Names :
        presence[c][n] # "unknown" => getClientNamed(n) # null \/ Pending(n)

(* Once a session's onConnect has ended normally, its page lists every     *)
(* session that was announced, before or after: those before it through    *)
(* the loop, those after it through their broadcast, and nobody falls      *)
(* between the two although the loop holds no lock.                        *)
MutualKnowledge ==
    \A c, d \in Clients :
        pc[c] = "open" /\ d \in Announced =>
            presence[c][getClientUsername(d)] # "unknown"

(* A routed message misses nobody it is for: as long as no two addresses   *)
(* share a name, every session announced under the name gets it, although  *)
(* names are listed and sessions come and go between the lookup of the     *)
(* name (ChatServer.java:142) and the walk over the sessions (145).        *)
NoMessageMissed ==
    [][ \A m \in Messages, d \in Clients :
          /\ chat[m] = null
          /\ chat'[m] # null
          /\ DistinctNames
          /\ d \in Announced
          /\ getClientUsername(d) = chat'[m].group
          => addr[d] \in chat'[m].to ]_vars

(* Who writes to a page whose onConnect has ended normally, and has not    *)
(* left in the meantime, is on its buddy list, under the very name that    *)
(* the server signs the message with; only such a sender can have a chat   *)
(* box there.                                                              *)
AuthorInBuddyList ==
    [][ \A m \in Messages, d \in Clients :
          /\ chat[m] = null
          /\ chat'[m] # null
          /\ \E c \in Announced : addr[c] = chat'[m].from
          /\ pc[d] = "open"
          /\ addr[d] \in chat'[m].to
          => presence[d][chat'[m].author] # "unknown" ]_vars

(* Names and routing, in the abstract. *)
Routing == INSTANCE ChatRouting WITH registry <- mClientMap, outcome <- chat

(* Addresses keep their names, messages are signed with the sender's       *)
(* registered name whatever the page filled in, and reach at most one      *)
(* address, one registered under the name asked for.                       *)
ImplementsRouting == Routing!Spec

(* No handler is running. *)
Quiescent == Busy = {}

(* The loop of onConnect does what its comment says (ChatServer.java:189): *)
(* it indicates to the new client "all the users currently connected".     *)
RosterComplete ==
    Quiescent => \A c, d \in getConnectedClients :
                    presence[c][getClientUsername(d)] # "unknown"

(* Whoever leaves is reported to the pages that stay, as the design says   *)
(* (FinalDocumentation.tex:277-284): with no handler running, no page      *)
(* shows a name as online that nobody is connected under.                  *)
NobodyGoneIsOnline ==
    Quiescent => \A c \in getConnectedClients, n \in Names :
        presence[c][n] = "online" =>
            \E d \in getConnectedClients : getClientUsername(d) = n

(* Two sessions that stay come to know each other, unless the loop of one  *)
(* of them fails: no handler is held up for ever.                          *)
ClientsMeet ==
    \A c, d \in Clients :
        c \in getConnectedClients /\ d \in getConnectedClients
            ~> \/ {c, d} \cap getConnectedClients # {c, d}
               \/ "partial" \in {pc[c], pc[d]}
               \/ /\ {pc[c], pc[d]} = {"open"}
                  /\ presence[c][getClientUsername(d)] # "unknown"
                  /\ presence[d][getClientUsername(c)] # "unknown"

=============================================================================
