------------------------- MODULE SocketClientProofs -------------------------
(***************************************************************************)
(* Proofs about SocketClient, for every list of transports and every       *)
(* number of transport objects, messages, attempts and failures.           *)
(*                                                                         *)
(* The first part is about all behaviours.  SentInOrder is not inductive:  *)
(* Socket.packet hands a message over at once when the socket is connected *)
(* and does not buffer, which keeps the order only if nothing waits in the *)
(* buffer then.  Flushed is what is missing: in that situation the buffer  *)
(* is empty unless the transport would fail, and so the sending does.  The *)
(* client is a function of its state, so that each operator has a lemma    *)
(* that says what it leaves alone (Leaves, Alike), keeps (Keeps) or        *)
(* establishes, and an action adds up those of the operators it calls.     *)
(*                                                                         *)
(* The second part is about a socket whose attempts to connect do not      *)
(* overlap.  There the lemmas say what an operator does to every field     *)
(* (the names end in Way), and an action leads from the phases it can      *)
(* happen in to one of them (the names end in Calm).                       *)
(***************************************************************************)
EXTENDS SocketClient, FiniteSetTheorems, SequenceTheorems, TLAPS

(* ReconnectDriven, of a state of the client. *)
Driven(S) == S.reconnecting => S.reconnectTimer \/ S.redoTransports

(* A message waits on a connection that does not buffer only if the        *)
(* transport would fail.                                                   *)
Flushed(S) == S.connected /\ ~S.doBuffer /\ S.buffer # << >> => Throws(S)

(* R has the connection of S. *)
Alike(S, R) ==
    /\ R.connected = S.connected
    /\ R.transport = S.transport
    /\ R.reconnecting = S.reconnecting
    /\ R.reconnectTimer = S.reconnectTimer
    /\ R.redoTransports = S.redoTransports

(* R has the transports of S in the same states. *)
SameKinds(S, R) ==
    \A u \in Slots : R.tr[u].kind = S.tr[u].kind /\ R.tr[u].ready = S.tr[u].ready

(* No message is lost, repeated or overtaken between S and R. *)
Keeps(S, R) ==
    /\ R \in Client
    /\ R.sent = S.sent
    /\ R.handed \o R.buffer = S.handed \o S.buffer

(* Another state of one transport. *)
LEMMA SlotType ==
    ASSUME NEW S \in Client, NEW t \in Slots, NEW P \in Transport
    PROVE  [S.tr EXCEPT ![t] = P] \in [Slots -> Transport]
BY DEF Client

(* Whether the transport fails depends on which one it is, its kind and    *)
(* its state only.                                                         *)
LEMMA SameThrows ==
    ASSUME NEW S \in Client, NEW R, Alike(S, R), SameKinds(S, R)
    PROVE  Throws(R) <=> Throws(S)
<1>1. S.transport = null \/ S.transport \in Slots
  BY DEF Client
<1>. QED BY <1>1 DEF Throws, polling, Alike, SameKinds

(* The transports are typed. *)
LEMMA TransportType ==
    ASSUME NEW S \in Client, NEW t \in Slots
    PROVE  /\ S.tr \in [Slots -> Transport]
           /\ S.tr[t] \in Transport
BY DEF Client

(* XHR.post touches the answers it waits for and the buffering only. *)
LEMMA PostType ==
    ASSUME NEW S \in Client, NEW t \in Slots
    PROVE  /\ post(S, t) \in Client
           /\ Alike(S, post(S, t))
           /\ post(S, t).sent = S.sent
           /\ post(S, t).handed = S.handed
           /\ post(S, t).buffer = S.buffer
           /\ post(S, t).doBuffer
           /\ SameKinds(S, post(S, t))
<1>. DEFINE P == [S.tr[t] EXCEPT !.posts = @ + 1]
            N == [S.tr EXCEPT ![t] = P]
            R == [S EXCEPT !.doBuffer = TRUE, !.tr = N]
<1>2. P \in Transport
  BY TransportType DEF Transport
<1>3. N \in [Slots -> Transport]
  BY <1>2, SlotType
<1>4. post(S, t) = R
  BY DEF post, Client
<1>. HIDE DEF N
<1>5. R \in Client
  BY <1>3 DEF Client
<1>6. Alike(S, R) /\ R.sent = S.sent /\ R.handed = S.handed /\ R.buffer = S.buffer
      /\ R.tr = N /\ R.doBuffer
  BY DEF Client, Alike
<1>7. SameKinds(S, R)
  <2>1. S.tr[t] \in Transport /\ S.tr \in [Slots -> Transport]
    BY TransportType
  <2>2. \A u \in Slots : N[u].kind = S.tr[u].kind /\ N[u].ready = S.tr[u].ready
    BY <2>1 DEF N, Transport
  <2>. QED BY <1>6, <2>2 DEF SameKinds
<1>. QED BY <1>4, <1>5, <1>6, <1>7

(* payload hands the messages to the browser, after those handed before. *)
LEMMA PayloadType ==
    ASSUME NEW S \in Client, NEW msgs \in Seq(Nat), S.transport # null
    PROVE  /\ payload(S, msgs) \in Client
           /\ Alike(S, payload(S, msgs))
           /\ payload(S, msgs).sent = S.sent
           /\ payload(S, msgs).handed = S.handed \o msgs
           /\ payload(S, msgs).buffer = S.buffer
           /\ SameKinds(S, payload(S, msgs))
<1>. DEFINE h == S.handed \o msgs
            H == [S EXCEPT !.handed = h]
<1>1. h \in Seq(Nat)
  BY DEF Client
<1>3. payload(S, msgs) \in {H, post(H, S.transport)} /\ S.transport \in Slots
  BY DEF payload, Client
<1>. HIDE DEF h
<1>4a. H \in Client
  BY <1>1 DEF Client
<1>2. Alike(S, H) /\ H.handed = h /\ H.sent = S.sent /\ H.buffer = S.buffer
      /\ H.tr = S.tr
  BY DEF Client, Alike
<1>. HIDE DEF H
<1>. QED BY <1>4a, <1>2, <1>3, PostType DEF Alike, SameKinds, h

(* Socket.setBuffer loses and repeats nothing, and leaves no message       *)
(* waiting for nothing.                                                    *)
LEMMA SetBufferKeeps ==
    ASSUME NEW S \in Client, NEW v \in BOOLEAN
    PROVE  /\ Keeps(S, setBuffer(S, v))
           /\ Alike(S, setBuffer(S, v))
           /\ Flushed(setBuffer(S, v))
           /\ SameKinds(S, setBuffer(S, v))
<1>. DEFINE B == [S EXCEPT !.doBuffer = v]
<1>1. B \in Client
  BY DEF Client
<1>2. Alike(S, B) /\ B.buffer = S.buffer /\ B.handed = S.handed /\ B.sent = S.sent
      /\ B.doBuffer = v /\ B.tr = S.tr
  BY DEF Client, Alike
<1>3. B.buffer \in Seq(Nat)
  BY <1>1 DEF Client
<1>4. CASE ~v /\ S.connected /\ S.buffer # << >> /\ ~Throws(S)
  <2>. DEFINE P == payload(B, B.buffer)
              e == << >>
              F == [P EXCEPT !.buffer = e]
  <2>1. setBuffer(S, v) = F
    BY <1>4 DEF setBuffer, flushBuffer
  <2>. HIDE DEF B
  <2>2. B.transport # null
    BY <1>2, <1>4 DEF Throws, Alike
  <2>3. P \in Client /\ Alike(B, P) /\ P.sent = B.sent /\ P.handed = B.handed \o B.buffer
        /\ SameKinds(B, P)
    BY <1>1, <1>3, <2>2, PayloadType
  <2>. HIDE DEF P
  <2>0a. e \in Seq(Nat)
    OBVIOUS
  <2>. HIDE DEF e
  <2>4. F \in Client
    BY <2>3, <2>0a DEF Client
  <2>5. Alike(P, F) /\ F.sent = P.sent /\ F.handed = P.handed /\ F.buffer = e
        /\ F.tr = P.tr
    BY <2>3 DEF Client, Alike
  <2>6. F.handed \in Seq(Nat)
    BY <2>4 DEF Client
  <2>. HIDE DEF F
  <2>7. F.handed \o F.buffer = F.handed
    BY <2>5, <2>6 DEF e
  <2>. QED BY <1>2, <2>1, <2>3, <2>4, <2>5, <2>7 DEF Keeps, Flushed, Alike, SameKinds, e
<1>5. CASE ~(~v /\ S.connected /\ S.buffer # << >> /\ ~Throws(S))
  <2>1. setBuffer(S, v) = B
    BY <1>5 DEF setBuffer
  <2>. HIDE DEF B
  <2>2. Throws(B) <=> Throws(S)
    BY <1>2 DEF Throws, polling, Alike
  <2>. QED BY <1>1, <1>2, <1>5, <2>1, <2>2 DEF Keeps, Flushed, Alike, SameKinds
<1>. QED BY <1>4, <1>5

(* Socket.packet puts the message after all others. *)
LEMMA PacketKeeps ==
    ASSUME NEW S \in Client, NEW m \in Nat, Flushed(S),
           S.connected /\ ~S.doBuffer => ~Throws(S)
    PROVE  /\ packet(S, m) \in Client
           /\ Alike(S, packet(S, m))
           /\ packet(S, m).sent = S.sent
           /\ packet(S, m).handed \o packet(S, m).buffer = Append(S.handed \o S.buffer, m)
           /\ Flushed(packet(S, m))
<1>0. S.handed \in Seq(Nat) /\ S.buffer \in Seq(Nat)
  BY DEF Client
<1>1. CASE S.connected /\ ~S.doBuffer
  <2>. DEFINE P == payload(S, <<m>>)
  <2>1. S.transport # null /\ S.buffer = << >>
    BY <1>1 DEF Throws, Flushed
  <2>2. packet(S, m) = P
    BY <1>1 DEF packet
  <2>3. <<m>> \in Seq(Nat)
    OBVIOUS
  <2>. HIDE DEF P
  <2>4. P \in Client /\ Alike(S, P) /\ P.sent = S.sent /\ P.handed = S.handed \o <<m>> /\ P.buffer = S.buffer
    BY <2>1, <2>3, PayloadType DEF P
  <2>5. P.handed \in Seq(Nat)
    BY <2>4 DEF Client
  <2>6. P.handed \o P.buffer = S.handed \o <<m>>
    BY <2>1, <2>4, <2>5
  <2>7. Append(S.handed \o S.buffer, m) = S.handed \o <<m>>
    <3>1. S.handed \o S.buffer = S.handed
      BY <1>0, <2>1, ConcatEmptySeq
    <3>. QED BY <1>0, <3>1, AppendIsConcat
  <2>. QED BY <2>1, <2>2, <2>4, <2>6, <2>7 DEF Flushed
<1>2. CASE ~(S.connected /\ ~S.doBuffer)
  <2>. DEFINE b == Append(S.buffer, m)
              R == [S EXCEPT !.buffer = b]
  <2>1. packet(S, m) = R
    BY <1>2 DEF packet
  <2>0a. b \in Seq(Nat)
    BY <1>0
  <2>. HIDE DEF b
  <2>2. R \in Client
    BY <2>0a DEF Client
  <2>3. Alike(S, R) /\ R.sent = S.sent /\ R.handed = S.handed /\ R.buffer = b
        /\ R.doBuffer = S.doBuffer
    BY DEF Client, Alike
  <2>. HIDE DEF R
  <2>4. \A h, k \in Seq(Nat) : h \o Append(k, m) = Append(h \o k, m)
    BY AppendProperties, ConcatProperties
  <2>. QED BY <1>0, <1>2, <2>1, <2>2, <2>3, <2>4 DEF Flushed, Alike, b
<1>. QED BY <1>1, <1>2

-----------------------------------------------------------------------------
(* The messages of S are as they are in R. *)
Leaves(S, R) ==
    /\ R \in Client
    /\ R.sent = S.sent
    /\ R.handed = S.handed
    /\ R.buffer = S.buffer

(* Socket.connect leaves the messages and the transport alone. *)
LEMMA ConnectLeaves ==
    ASSUME NEW S \in Client
    PROVE  /\ Leaves(S, connect(S))
           /\ Alike(S, connect(S))
<1>. DEFINE n == S.handshakes + 1
            R == [S EXCEPT !.connecting = TRUE, !.handshakes = n]
<1>1. n \in Nat
  BY DEF Client
<1>2. connect(S) \in {S, R}
  BY DEF connect
<1>. HIDE DEF n
<1>3. R \in Client
  BY <1>1 DEF Client
<1>4. Leaves(S, R) /\ Alike(S, R)
  BY <1>3 DEF Leaves, Alike, Client
<1>. QED BY <1>2, <1>4 DEF Leaves, Alike

(* Socket.reconnect sets the timer. *)
LEMMA ReconnectLeaves ==
    ASSUME NEW S \in Client
    PROVE  /\ Leaves(S, reconnect(S))
           /\ reconnect(S).connected = S.connected
           /\ Driven(reconnect(S))
<1>1. reconnect(S) \in Client
  BY DEF reconnect, Client
<1>2. reconnect(S).connected = S.connected /\ reconnect(S).reconnectTimer
  BY DEF reconnect, Client
<1>3. reconnect(S).sent = S.sent /\ reconnect(S).handed = S.handed /\ reconnect(S).buffer = S.buffer
  BY DEF reconnect, Client
<1>. QED BY <1>1, <1>2, <1>3 DEF Leaves, Driven

(* reset ends reconnecting. *)
LEMMA ResetLeaves ==
    ASSUME NEW S \in Client
    PROVE  /\ Leaves(S, reset(S))
           /\ Driven(reset(S))
           /\ Flushed(S) => Flushed(reset(S))
           /\ reset(S).connected = S.connected
<1>1. reset(S) \in Client
  BY DEF reset, Client
<1>2. reset(S).reconnecting = FALSE
  BY DEF reset, Client
<1>3. /\ reset(S).sent = S.sent /\ reset(S).handed = S.handed /\ reset(S).buffer = S.buffer
      /\ reset(S).connected = S.connected /\ reset(S).doBuffer = S.doBuffer
      /\ reset(S).transport = S.transport /\ reset(S).tr = S.tr
  BY DEF reset, Client
<1>. QED BY <1>1, <1>2, <1>3 DEF Leaves, Driven, Flushed, Throws, polling

(* A new transport object. *)
LEMMA UnusedType ==
    ASSUME NEW k \in {"websocket", "xhr-polling"}
    PROVE  [Unused EXCEPT !.kind = k, !.ready = "idle"] \in Transport
BY DEF Unused, Transport

(* The names in a list of transports. *)
LEMMA KindsType ==
    ASSUME NEW q \in Seq(Range(Kinds)), q # << >>
    PROVE  Head(q) \in {"websocket", "xhr-polling"}
<1>1. Head(q) \in Range(Kinds)
  OBVIOUS
<1>2. Range(Kinds) \subseteq {"websocket", "xhr-polling"}
  BY SocketAssumption DEF Range
<1>. QED BY <1>1, <1>2

(* Socket.getTransport replaces the transport only. *)
LEMMA GetTransportLeaves ==
    ASSUME NEW S \in Client, NEW t \in Slots
    PROVE  LET R == getTransport(S, t) IN
           /\ Leaves(S, R)
           /\ R.connected = S.connected
           /\ R.reconnecting = S.reconnecting
           /\ R.reconnectTimer = S.reconnectTimer
           /\ R.redoTransports = S.redoTransports
           /\ R.connectTimer = S.connectTimer
           /\ R.transport # null => R.transport = t
<1>1. CASE S.transports = << >>
  <2>. DEFINE R == [S EXCEPT !.transport = null]
  <2>1. R = getTransport(S, t)
    BY <1>1 DEF getTransport
  <2>2. R \in Client
    BY DEF Client
  <2>3. Leaves(S, R) /\ R.connected = S.connected /\ R.reconnecting = S.reconnecting
    BY <2>2 DEF Leaves, Client
  <2>4. R.reconnectTimer = S.reconnectTimer /\ R.redoTransports = S.redoTransports
        /\ R.connectTimer = S.connectTimer /\ R.transport = null
    BY DEF Client
  <2>. QED BY <2>1, <2>3, <2>4
<1>2. CASE S.transports # << >>
  <2>. DEFINE P == [Unused EXCEPT !.kind = Head(S.transports), !.ready = "idle"]
              N == [S.tr EXCEPT ![t] = P]
              R == [S EXCEPT !.transport = t, !.tr = N]
  <2>0. S.transports \in Seq(Range(Kinds))
    BY DEF Client
  <2>1. P \in Transport
    BY <1>2, <2>0, KindsType, UnusedType
  <2>2. N \in [Slots -> Transport]
    BY <2>1, SlotType
  <2>3. getTransport(S, t) = R
    BY <1>2 DEF getTransport
  <2>. HIDE DEF N
  <2>4. R \in Client
    BY <2>2 DEF Client
  <2>5. Leaves(S, R) /\ R.connected = S.connected /\ R.reconnecting = S.reconnecting
    BY <2>4 DEF Leaves, Client
  <2>6. R.reconnectTimer = S.reconnectTimer /\ R.redoTransports = S.redoTransports
        /\ R.connectTimer = S.connectTimer /\ R.transport = t
    BY DEF Client
  <2>. QED BY <2>3, <2>5, <2>6
<1>. QED BY <1>1, <1>2

(* The last resort of maybeReconnect. *)
LEMMA RedoLeaves ==
    ASSUME NEW S \in Client, NEW t \in Slots
    PROVE  /\ Leaves(S, redo(S, t))
           /\ redo(S, t).connected = S.connected
           /\ Driven(redo(S, t))
<1>. DEFINE G == getTransport(S, t)
            R == [G EXCEPT !.redoTransports = TRUE]
<1>1. redo(S, t) = connect(R)
  BY DEF redo
<1>2. Leaves(S, G) /\ G.connected = S.connected
  BY GetTransportLeaves
<1>. HIDE DEF G
<1>3. R \in Client
  BY <1>2 DEF Leaves, Client
<1>4. Leaves(G, R) /\ R.connected = G.connected /\ R.redoTransports
  BY <1>2, <1>3 DEF Leaves, Client
<1>5. Leaves(R, connect(R)) /\ Alike(R, connect(R))
  BY <1>3, ConnectLeaves
<1>. QED BY <1>1, <1>2, <1>4, <1>5 DEF Leaves, Alike, Driven

(* maybeReconnect goes on reconnecting only with a timer or in the last    *)
(* resort.                                                                 *)
LEMMA MaybeReconnectLeaves ==
    ASSUME NEW S \in Client, NEW t \in Slots
    PROVE  /\ Leaves(S, maybeReconnect(S, t))
           /\ Driven(maybeReconnect(S, t))
           /\ Flushed(S) => Flushed(maybeReconnect(S, t))
<1>. DEFINE R == maybeReconnect(S, t)
<1>1. CASE ~S.reconnecting
  BY <1>1 DEF maybeReconnect, Leaves, Driven
<1>2. CASE S.reconnecting /\ S.connected
  <2>1. R = reset(S)
    BY <1>2 DEF maybeReconnect
  <2>. QED BY <2>1, ResetLeaves
<1>3. CASE S.reconnecting /\ ~S.connected /\ S.connecting
  <2>. DEFINE T == [S EXCEPT !.reconnectTimer = TRUE]
  <2>1. R = T
    BY <1>3 DEF maybeReconnect
  <2>2. T \in Client
    BY DEF Client
  <2>3. Leaves(S, T) /\ T.reconnectTimer /\ T.connected = S.connected
    BY <2>2 DEF Leaves, Client
  <2>. QED BY <1>3, <2>1, <2>3 DEF Driven, Flushed
<1>4. CASE S.reconnecting /\ ~S.connected /\ ~S.connecting /\ S.attempts < MaxAttempts
  <2>. DEFINE C == connect(S)
              n == C.attempts + 1
              T == [C EXCEPT !.attempts = n, !.reconnectTimer = TRUE]
  <2>1. R = T
    BY <1>4 DEF maybeReconnect
  <2>2. Leaves(S, C) /\ Alike(S, C)
    BY ConnectLeaves
  <2>3. n \in Nat
    BY <2>2 DEF Leaves, Client
  <2>. HIDE DEF C, n
  <2>4. T \in Client
    BY <2>2, <2>3 DEF Leaves, Client
  <2>5. Leaves(C, T) /\ T.reconnectTimer /\ T.connected = C.connected
    BY <2>2, <2>4 DEF Leaves, Client
  <2>. QED BY <1>4, <2>1, <2>2, <2>5 DEF Driven, Flushed, Leaves, Alike
<1>5. CASE /\ S.reconnecting /\ ~S.connected /\ ~S.connecting
           /\ ~(S.attempts < MaxAttempts) /\ ~S.redoTransports
  <2>1. R = redo(S, t)
    BY <1>5 DEF maybeReconnect
  <2>. QED BY <1>5, <2>1, RedoLeaves DEF Flushed
<1>6. CASE /\ S.reconnecting /\ ~S.connected /\ ~S.connecting
           /\ ~(S.attempts < MaxAttempts) /\ S.redoTransports
  <2>. DEFINE C == reset(S)
              T == [C EXCEPT !.gaveUp = TRUE]
  <2>1. R = T
    BY <1>6 DEF maybeReconnect
  <2>2. Leaves(S, C) /\ Driven(C) /\ C.connected = S.connected
    BY ResetLeaves
  <2>. HIDE DEF C
  <2>3. T \in Client
    BY <2>2 DEF Leaves, Client
  <2>4. Leaves(C, T) /\ T.connected = C.connected
    BY <2>2, <2>3 DEF Leaves, Client
  <2>5. T.reconnecting = C.reconnecting /\ T.reconnectTimer = C.reconnectTimer
        /\ T.redoTransports = C.redoTransports
    BY <2>2 DEF Leaves, Client
  <2>. QED BY <1>6, <2>1, <2>2, <2>4, <2>5 DEF Driven, Flushed, Leaves
<1>. QED BY <1>1, <1>2, <1>3, <1>4, <1>5, <1>6

(* The listeners of connect_failed. *)
LEMMA ConnectFailedLeaves ==
    ASSUME NEW S \in Client, NEW t \in Slots, Flushed(S), Driven(S)
    PROVE  /\ Leaves(S, connectFailed(S, t))
           /\ Driven(connectFailed(S, t))
           /\ Flushed(connectFailed(S, t))
BY MaybeReconnectLeaves DEF connectFailed, Leaves

(* Transport.clearTimeouts of the current transport. *)
LEMMA ClearCloseTimeoutLeaves ==
    ASSUME NEW S \in Client
    PROVE  /\ Leaves(S, clearCloseTimeout(S))
           /\ Alike(S, clearCloseTimeout(S))
           /\ clearCloseTimeout(S).transports = S.transports
<1>1. CASE S.transport = null
  BY <1>1 DEF clearCloseTimeout, Leaves, Alike
<1>2. CASE S.transport # null
  <2>. DEFINE t == S.transport
              P == [S.tr[t] EXCEPT !.closeTimer = FALSE]
              N == [S.tr EXCEPT ![t] = P]
              R == [S EXCEPT !.tr = N]
  <2>0. t \in Slots
    BY <1>2 DEF Client
  <2>0a. S.tr[t] \in Transport
    BY <2>0, TransportType
  <2>1. P \in Transport
    BY <2>0a DEF Transport
  <2>2. N \in [Slots -> Transport]
    BY <2>0, <2>1, SlotType
  <2>3. clearCloseTimeout(S) = R
    BY <1>2 DEF clearCloseTimeout
  <2>. HIDE DEF N
  <2>4. R \in Client
    BY <2>2 DEF Client
  <2>5. Leaves(S, R) /\ Alike(S, R) /\ R.transports = S.transports
    BY <2>4 DEF Leaves, Alike, Client
  <2>. QED BY <2>3, <2>5
<1>. QED BY <1>1, <1>2

(* transport.open: polling flushes the buffer, a websocket does not take   *)
(* messages yet.                                                           *)
LEMMA OpenKeeps ==
    ASSUME NEW S \in Client, NEW t \in Slots, S.transport = t, t # null
    PROVE  /\ Keeps(S, open(S, t))
           /\ Alike(S, open(S, t))
           /\ Flushed(open(S, t))
<1>0. S.tr[t] \in Transport
  BY TransportType
<1>1. CASE polling(S, t)
  <2>. DEFINE B == setBuffer(S, FALSE)
              P == [B.tr[t] EXCEPT !.ready = "open", !.isOpen = TRUE, !.closeTimer = TRUE]
              N == [B.tr EXCEPT ![t] = P]
              R == [B EXCEPT !.tr = N]
  <2>1. /\ Keeps(S, B) /\ Alike(S, B) /\ Flushed(B) /\ SameKinds(S, B)
    BY SetBufferKeeps
  <2>2. B \in Client
    BY <2>1 DEF Keeps
  <2>. HIDE DEF B
  <2>3. open(S, t) = R
    BY <1>1 DEF open, openPolling, B
  <2>4. P \in Transport
    <3>1. B.tr[t] \in Transport
      BY <2>2, TransportType
    <3>. QED BY <3>1 DEF Transport
  <2>5. N \in [Slots -> Transport]
    BY <2>2, <2>4, SlotType
  <2>. HIDE DEF N
  <2>6. R \in Client
    BY <2>2, <2>5 DEF Client
  <2>7. Alike(B, R) /\ Leaves(B, R) /\ R.doBuffer = B.doBuffer
    BY <2>2, <2>6 DEF Client, Alike, Leaves
  <2>8. ~Throws(S)
    BY <1>1 DEF Throws
  <2>9. ~Throws(B)
    BY <2>1, <2>8, SameThrows
  <2>. HIDE DEF R
  <2>. QED BY <2>1, <2>3, <2>6, <2>7, <2>9 DEF Keeps, Leaves, Alike, Flushed
<1>2. CASE ~polling(S, t)
  <2>. DEFINE P == [S.tr[t] EXCEPT !.ready = "connecting"]
              N == [S.tr EXCEPT ![t] = P]
              R == [S EXCEPT !.tr = N]
  <2>1. P \in Transport
    BY <1>0 DEF Transport
  <2>2. N \in [Slots -> Transport]
    BY <2>1, SlotType
  <2>3. open(S, t) = R
    BY <1>2 DEF open, openWebsocket
  <2>4. N[t].kind = S.tr[t].kind /\ N[t].ready = "connecting"
    BY <1>0, TransportType DEF Transport
  <2>. HIDE DEF N
  <2>5. R \in Client
    BY <2>2 DEF Client
  <2>6. Leaves(S, R) /\ Alike(S, R) /\ R.tr = N
    BY <2>5 DEF Client, Alike, Leaves
  <2>7. Throws(R)
    BY <1>2, <2>4, <2>6 DEF Throws, polling, Alike
  <2>. HIDE DEF R
  <2>. QED BY <2>3, <2>5, <2>6, <2>7 DEF Keeps, Leaves, Flushed
<1>. QED BY <1>1, <1>2

(* The function connect inside Socket.connect. *)
LEMMA ConnectViaKeeps ==
    ASSUME NEW S \in Client, NEW t \in Slots, Driven(S)
    PROVE  /\ Keeps(S, connectVia(S, t))
           /\ Driven(connectVia(S, t))
           /\ Flushed(connectVia(S, t))
<1>. DEFINE C == clearCloseTimeout(S)
            T == getTransport(C, t)
            O == open([T EXCEPT !.connecting = TRUE], t)
            n == O.staleTimers + (IF S.connectTimer THEN 1 ELSE 0)
            R == [O EXCEPT !.connectTimer = TRUE, !.staleTimers = n]
<1>1. Leaves(S, C) /\ Alike(S, C)
  BY ClearCloseTimeoutLeaves
<1>2. C \in Client
  BY <1>1 DEF Leaves
<1>3. /\ Leaves(C, T) /\ T.connected = C.connected /\ T.reconnecting = C.reconnecting
      /\ T.reconnectTimer = C.reconnectTimer /\ T.redoTransports = C.redoTransports
      /\ T.transport # null => T.transport = t
  BY <1>2, GetTransportLeaves
<1>4. connectVia(S, t) = IF T.transport = null THEN connectFailed(T, t) ELSE R
  BY DEF connectVia
<1>. HIDE DEF C, T
<1>5. Leaves(S, T) /\ Driven(T)
  BY <1>1, <1>3 DEF Leaves, Driven, Alike
<1>6. T \in Client
  BY <1>5 DEF Leaves
<1>7. CASE T.transport = null
  <2>1. Flushed(T)
    BY <1>7 DEF Flushed, Throws
  <2>2. Leaves(T, connectFailed(T, t)) /\ Driven(connectFailed(T, t)) /\ Flushed(connectFailed(T, t))
    BY <1>5, <1>6, <2>1, ConnectFailedLeaves
  <2>. QED BY <1>4, <1>5, <1>7, <2>2 DEF Leaves, Keeps
<1>8. CASE T.transport # null
  <2>. DEFINE D == [T EXCEPT !.connecting = TRUE]
  <2>1. D \in Client
    BY <1>6 DEF Client
  <2>2. Leaves(T, D) /\ Alike(T, D)
    BY <1>6, <2>1 DEF Leaves, Alike, Client
  <2>3. O = open(D, t)
    OBVIOUS
  <2>. HIDE DEF D, O
  <2>4. Keeps(D, O) /\ Alike(D, O) /\ Flushed(O)
    BY <1>3, <1>8, <2>1, <2>2, <2>3, OpenKeeps DEF Alike
  <2>5. O \in Client
    BY <2>4 DEF Keeps
  <2>6. n \in Nat
    <3>1. O.staleTimers \in Nat
      BY <2>5 DEF Client
    <3>. QED BY <3>1
  <2>. HIDE DEF n
  <2>7. R \in Client
    BY <2>5, <2>6 DEF Client
  <2>8. Leaves(O, R) /\ Alike(O, R) /\ R.doBuffer = O.doBuffer /\ R.tr = O.tr
    BY <2>5, <2>7 DEF Leaves, Alike, Client
  <2>9. Throws(O) => Throws(R)
    BY <2>8 DEF Throws, Alike, polling
  <2>10. Flushed(R)
    BY <2>4, <2>8, <2>9 DEF Flushed, Leaves, Alike
  <2>. HIDE DEF R
  <2>11. Driven(R)
    BY <1>5, <2>2, <2>4, <2>8 DEF Driven, Alike
  <2>. QED BY <1>4, <1>5, <1>8, <2>2, <2>4, <2>7, <2>8, <2>10, <2>11 DEF Keeps, Leaves
<1>. QED BY <1>7, <1>8

(* Socket.setHeartbeatTimeout changes its timer only. *)
LEMMA SetHeartbeatLeaves ==
    ASSUME NEW S \in Client
    PROVE  /\ Leaves(S, setHeartbeatTimeout(S))
           /\ Alike(S, setHeartbeatTimeout(S))
           /\ setHeartbeatTimeout(S).doBuffer = S.doBuffer
           /\ setHeartbeatTimeout(S).tr = S.tr
<1>. DEFINE h == S.transport # null => heartbeats(S, S.transport)
            R == [S EXCEPT !.heartbeatTimer = h]
<1>1. h \in BOOLEAN
  BY DEF heartbeats, polling
<1>2. setHeartbeatTimeout(S) = R
  BY DEF setHeartbeatTimeout
<1>. HIDE DEF h
<1>3. R \in Client
  BY <1>1 DEF Client
<1>4. Leaves(S, R) /\ Alike(S, R) /\ R.doBuffer = S.doBuffer /\ R.tr = S.tr
  BY <1>3 DEF Client, Leaves, Alike
<1>. QED BY <1>2, <1>4

(* The loop that strikes transports off the list. *)
LEMMA RemainingType ==
    ASSUME NEW S \in Client
    PROVE  remaining(S) \in Seq(Range(Kinds))
<1>. DEFINE q == S.transports
            before == { i \in DOMAIN q : \A j \in 1..i : q[j] # S.tr[S.transport].kind }
            c == Cardinality(before)
<1>1. q \in Seq(Range(Kinds))
  BY DEF Client
<1>2. c \in Nat
  <2>1. IsFiniteSet(1..Len(q)) /\ DOMAIN q = 1..Len(q)
    BY <1>1, FS_Interval
  <2>2. IsFiniteSet(before)
    BY <2>1, FS_Subset
  <2>. QED BY <2>2, FS_CardinalityType
<1>3. remaining(S) = SubSeq(q, c + 2, Len(q))
  BY DEF remaining
<1>. HIDE DEF c, q
<1>4. \A i \in c + 2 .. Len(q) : q[i] \in Range(Kinds)
  BY <1>1, <1>2
<1>. QED BY <1>1, <1>2, <1>3, <1>4, SubSeqProperties

(* The answer to the handshake. *)
LEMMA HandshakenKeeps ==
    ASSUME NEW S \in Client, NEW t \in Slots, Driven(S), S.handshakes > 0
    PROVE  /\ Keeps(S, handshaken(S, t))
           /\ Driven(handshaken(S, t))
           /\ Flushed(handshaken(S, t))
<1>. DEFINE n == S.handshakes - 1
            H == [S EXCEPT !.handshakes = n]
            B == setHeartbeatTimeout(H)
            V == connectVia(B, t)
            R == [V EXCEPT !.once = TRUE]
<1>1. n \in Nat
  BY DEF Client
<1>2. handshaken(S, t) = R
  BY DEF handshaken
<1>. HIDE DEF n
<1>3. H \in Client
  BY <1>1 DEF Client
<1>4. Leaves(S, H) /\ Alike(S, H)
  BY <1>3 DEF Leaves, Alike, Client
<1>. HIDE DEF H
<1>5. Leaves(H, B) /\ Alike(H, B)
  BY <1>3, SetHeartbeatLeaves
<1>. HIDE DEF B
<1>6. B \in Client /\ Driven(B)
  BY <1>4, <1>5 DEF Leaves, Driven, Alike
<1>7. Keeps(B, V) /\ Driven(V) /\ Flushed(V)
  BY <1>6, ConnectViaKeeps
<1>. HIDE DEF V
<1>8. V \in Client
  BY <1>7 DEF Keeps
<1>9. R \in Client
  BY <1>8 DEF Client
<1>10. Leaves(V, R) /\ Alike(V, R) /\ R.doBuffer = V.doBuffer /\ R.tr = V.tr
  BY <1>8, <1>9 DEF Leaves, Alike, Client
<1>. HIDE DEF R
<1>11. Flushed(R)
  BY <1>7, <1>10 DEF Flushed, Leaves, Alike, Throws, polling
<1>12. Driven(R)
  BY <1>7, <1>10 DEF Driven, Alike
<1>. QED BY <1>2, <1>4, <1>5, <1>7, <1>9, <1>10, <1>11, <1>12 DEF Keeps, Leaves

(* The callback of the connect timer. *)
LEMMA ConnectTimeoutKeeps ==
    ASSUME NEW S \in Client, NEW t \in Slots, Driven(S), Flushed(S)
    PROVE  /\ Keeps(S, connectTimeout(S, t))
           /\ Driven(connectTimeout(S, t))
           /\ Flushed(connectTimeout(S, t))
<1>. DEFINE N == [S EXCEPT !.connecting = FALSE]
            r == remaining(S)
            R == [N EXCEPT !.transports = r]
<1>1. connectTimeout(S, t) \in {S, N, connectFailed(R, t), connectVia(R, t)}
  BY DEF connectTimeout
<1>2. r \in Seq(Range(Kinds))
  BY RemainingType
<1>. HIDE DEF r
<1>3. N \in Client
  BY DEF Client
<1>4. Leaves(S, N) /\ Alike(S, N) /\ N.doBuffer = S.doBuffer /\ N.tr = S.tr
  BY <1>3 DEF Leaves, Alike, Client
<1>. HIDE DEF N
<1>5. R \in Client
  BY <1>2, <1>3 DEF Client
<1>6. Leaves(N, R) /\ Alike(N, R) /\ R.doBuffer = N.doBuffer /\ R.tr = N.tr
  BY <1>3, <1>5 DEF Leaves, Alike, Client
<1>. HIDE DEF R
<1>7. Flushed(N) /\ Driven(N)
  BY <1>4 DEF Flushed, Driven, Leaves, Alike, Throws, polling
<1>8. Flushed(R) /\ Driven(R)
  BY <1>6, <1>7 DEF Flushed, Driven, Leaves, Alike, Throws, polling
<1>9. /\ Leaves(R, connectFailed(R, t)) /\ Driven(connectFailed(R, t))
      /\ Flushed(connectFailed(R, t))
  BY <1>5, <1>8, ConnectFailedLeaves
<1>10. /\ Keeps(R, connectVia(R, t)) /\ Driven(connectVia(R, t))
       /\ Flushed(connectVia(R, t))
  BY <1>5, <1>8, ConnectViaKeeps
<1>. QED BY <1>1, <1>4, <1>6, <1>7, <1>9, <1>10 DEF Keeps, Leaves

-----------------------------------------------------------------------------
(* A change of one transport changes nothing else of the client. *)
LEMMA SlotUpdate ==
    ASSUME NEW S \in Client, NEW t \in Slots, NEW P \in Transport
    PROVE  LET R == [S EXCEPT !.tr[t] = P] IN
           /\ Leaves(S, R)
           /\ Alike(S, R)
           /\ R.doBuffer = S.doBuffer
           /\ R.connecting = S.connecting
           /\ R.tr = [S.tr EXCEPT ![t] = P]
<1>. DEFINE N == [S.tr EXCEPT ![t] = P]
            R == [S EXCEPT !.tr = N]
<1>1. N \in [Slots -> Transport]
  BY SlotType
<1>2. [S EXCEPT !.tr[t] = P] = R
  OBVIOUS
<1>. HIDE DEF N
<1>3. R \in Client
  BY <1>1 DEF Client
<1>4. Leaves(S, R) /\ Alike(S, R)
  BY <1>3 DEF Leaves, Alike, Client
<1>5. R.doBuffer = S.doBuffer /\ R.connecting = S.connecting /\ R.tr = N
  BY DEF Client
<1>. QED BY <1>2, <1>4, <1>5 DEF N

(* transport.close. *)
LEMMA CloseLeaves ==
    ASSUME NEW S \in Client, NEW t \in Slots
    PROVE  /\ Leaves(S, close(S, t))
           /\ Alike(S, close(S, t))
<1>0. S.tr[t] \in Transport
  BY TransportType
<1>1. CASE polling(S, t)
  <2>. DEFINE P == [S.tr[t] EXCEPT !.ready = "closed", !.isOpen = FALSE, !.closeTimer = FALSE]
              H == [S EXCEPT !.heartbeatTimer = FALSE]
  <2>1. P \in Transport
    BY <1>0 DEF Transport
  <2>2. H \in Client
    BY DEF Client
  <2>3. Leaves(S, H) /\ Alike(S, H) /\ H.tr = S.tr
    BY <2>2 DEF Leaves, Alike, Client
  <2>4. close(S, t) = [H EXCEPT !.tr[t] = P]
    <3>1. close(S, t) = [H EXCEPT !.tr[t] = [@ EXCEPT !.ready = "closed", !.isOpen = FALSE, !.closeTimer = FALSE]]
      BY <1>1 DEF close, closePolling
    <3>. QED BY <2>3, <3>1
  <2>. HIDE DEF P, H
  <2>. QED BY <2>1, <2>2, <2>3, <2>4, SlotUpdate DEF Leaves, Alike
<1>2. CASE ~polling(S, t)
  <2>. DEFINE P == [S.tr[t] EXCEPT !.ready = IF @ = "closed" THEN @ ELSE "closing"]
  <2>1. P \in Transport
    BY <1>0 DEF Transport
  <2>2. close(S, t) = [S EXCEPT !.tr[t] = P]
    BY <1>2 DEF close, closeWebsocket
  <2>. QED BY <2>1, <2>2, SlotUpdate
<1>. QED BY <1>1, <1>2

(* Socket.onDisconnect is not connected afterwards, and reconnects if it   *)
(* was.                                                                    *)
LEMMA OnDisconnectLeaves ==
    ASSUME NEW S \in Client, Driven(S)
    PROVE  /\ Leaves(S, onDisconnect(S))
           /\ Driven(onDisconnect(S))
           /\ Flushed(onDisconnect(S))
<1>. DEFINE D == [S EXCEPT !.connected = FALSE, !.connecting = FALSE]
            L == close(D, S.transport)
            C == clearCloseTimeout(L)
            P == [C EXCEPT !.told = "disconnect"]
<1>1. D \in Client
  BY DEF Client
<1>2. /\ Leaves(S, D) /\ D.connected = FALSE /\ D.reconnecting = S.reconnecting
      /\ D.reconnectTimer = S.reconnectTimer /\ D.redoTransports = S.redoTransports
  BY <1>1 DEF Leaves, Client
<1>3. onDisconnect(S) \in {D, C, P, reconnect(P)}
  BY DEF onDisconnect
<1>4. onDisconnect(S) # D => S.transport \in Slots
  BY DEF onDisconnect, Closable, Client
<1>. HIDE DEF D
<1>5. CASE onDisconnect(S) = D
  BY <1>2, <1>5 DEF Driven, Flushed
<1>6. CASE onDisconnect(S) # D
  <2>1. Leaves(D, L) /\ Alike(D, L)
    BY <1>1, <1>4, <1>6, CloseLeaves
  <2>. HIDE DEF L
  <2>2. Leaves(L, C) /\ Alike(L, C)
    BY <2>1, ClearCloseTimeoutLeaves DEF Leaves
  <2>. HIDE DEF C
  <2>3. P \in Client
    BY <2>2 DEF Leaves, Client
  <2>4. Leaves(C, P) /\ Alike(C, P)
    BY <2>2, <2>3 DEF Leaves, Alike, Client
  <2>. HIDE DEF P
  <2>5. /\ Leaves(P, reconnect(P)) /\ reconnect(P).connected = P.connected
        /\ Driven(reconnect(P))
    BY <2>4, ReconnectLeaves DEF Leaves
  <2>. QED BY <1>2, <1>3, <1>6, <2>1, <2>2, <2>4, <2>5 DEF Leaves, Alike, Driven, Flushed
<1>. QED BY <1>5, <1>6

(* Transport.onClose. *)
LEMMA OnCloseLeaves ==
    ASSUME NEW S \in Client, NEW t \in Slots, Driven(S)
    PROVE  /\ Leaves(S, onClose(S, t))
           /\ Driven(onClose(S, t))
           /\ Flushed(onClose(S, t))
<1>. DEFINE P == [S.tr[t] EXCEPT !.isOpen = FALSE, !.closeTimer = FALSE,
                                 !.ready = IF polling(S, t) THEN "closed" ELSE S.tr[t].ready]
            H == [S EXCEPT !.heartbeatTimer = FALSE]
            R == [H EXCEPT !.tr[t] = P]
<1>1. P \in Transport
  <2>1. S.tr[t] \in Transport
    BY TransportType
  <2>. QED BY <2>1 DEF Transport
<1>2. H \in Client
  BY DEF Client
<1>3. Leaves(S, H) /\ Alike(S, H) /\ H.tr = S.tr
  BY <1>2 DEF Leaves, Alike, Client
<1>4. onClose(S, t) = onDisconnect(R)
  <2>1. onClose(S, t) = onDisconnect([H EXCEPT !.tr[t] =
            [@ EXCEPT !.isOpen = FALSE, !.closeTimer = FALSE,
                      !.ready = IF polling(S, t) THEN "closed" ELSE S.tr[t].ready]])
    BY DEF onClose
  <2>. HIDE DEF H
  <2>. QED BY <1>3, <2>1
<1>. HIDE DEF P, H
<1>5. Leaves(H, R) /\ Alike(H, R)
  BY <1>1, <1>2, SlotUpdate
<1>. HIDE DEF R
<1>6. R \in Client /\ Driven(R)
  BY <1>3, <1>5 DEF Leaves, Driven, Alike
<1>7. Leaves(R, onDisconnect(R)) /\ Driven(onDisconnect(R)) /\ Flushed(onDisconnect(R))
  BY <1>6, OnDisconnectLeaves
<1>. QED BY <1>3, <1>4, <1>5, <1>7 DEF Leaves

(* Transport.onDisconnect, called by the close timer. *)
LEMMA CloseTimeoutLeaves ==
    ASSUME NEW S \in Client, NEW t \in Slots, Driven(S)
    PROVE  /\ Leaves(S, closeTimeout(S, t))
           /\ Driven(closeTimeout(S, t))
           /\ Flushed(closeTimeout(S, t))
<1>. DEFINE C == IF S.tr[t].isOpen THEN close(S, t) ELSE S
            P == [C.tr[t] EXCEPT !.closeTimer = FALSE]
            R == [C EXCEPT !.tr[t] = P]
<1>1. Leaves(S, C) /\ Alike(S, C)
  BY CloseLeaves DEF Leaves, Alike
<1>2. closeTimeout(S, t) = onDisconnect(R)
  BY DEF closeTimeout
<1>. HIDE DEF C
<1>3. C \in Client
  BY <1>1 DEF Leaves
<1>4. P \in Transport
  <2>1. C.tr[t] \in Transport
    BY <1>3, TransportType
  <2>. QED BY <2>1 DEF Transport
<1>. HIDE DEF P
<1>5. Leaves(C, R) /\ Alike(C, R)
  BY <1>3, <1>4, SlotUpdate
<1>. HIDE DEF R
<1>6. R \in Client /\ Driven(R)
  BY <1>1, <1>5 DEF Leaves, Driven, Alike
<1>7. Leaves(R, onDisconnect(R)) /\ Driven(onDisconnect(R)) /\ Flushed(onDisconnect(R))
  BY <1>6, OnDisconnectLeaves
<1>. QED BY <1>1, <1>2, <1>5, <1>7 DEF Leaves

(* Socket.onConnect flushes the buffer unless a flush is due anyway, and   *)
(* ends reconnecting.                                                      *)
LEMMA OnConnectKeeps ==
    ASSUME NEW S \in Client, Driven(S), Flushed(S)
    PROVE  /\ Keeps(S, onConnect(S))
           /\ Driven(onConnect(S))
           /\ Flushed(onConnect(S))
<1>1. CASE S.connected
  <2>. DEFINE T == [S EXCEPT !.told = "connect"]
  <2>1. onConnect(S) = T
    BY <1>1 DEF onConnect
  <2>2. T \in Client
    BY DEF Client
  <2>3. Leaves(S, T) /\ Alike(S, T) /\ T.doBuffer = S.doBuffer /\ T.tr = S.tr
    BY <2>2 DEF Leaves, Alike, Client
  <2>. HIDE DEF T
  <2>. QED BY <2>1, <2>3 DEF Keeps, Leaves, Alike, Driven, Flushed, Throws, polling
<1>2. CASE ~S.connected
  <2>. DEFINE C == [S EXCEPT !.connected = TRUE, !.connecting = FALSE]
              B == setBuffer(C, FALSE)
              F == IF S.doBuffer THEN C ELSE B
              Z == reset(F)
              R == IF S.reconnecting THEN Z ELSE F
              O == [R EXCEPT !.connectTimer = FALSE, !.once = FALSE]
              T == IF S.once THEN O ELSE R
              E == [T EXCEPT !.told = "connect"]
  <2>1. onConnect(S) = IF ~S.doBuffer /\ S.buffer # << >> /\ Throws(S) THEN C ELSE E
    BY <1>2 DEF onConnect
  <2>2. C \in Client
    BY DEF Client
  <2>3. Leaves(S, C) /\ C.transport = S.transport /\ C.doBuffer = S.doBuffer /\ C.tr = S.tr
    BY <2>2 DEF Leaves, Client
  <2>4. /\ C.reconnecting = S.reconnecting /\ C.reconnectTimer = S.reconnectTimer
        /\ C.redoTransports = S.redoTransports
    BY DEF Client
  <2>. HIDE DEF C
  <2>5. Driven(C)
    BY <2>4 DEF Driven
  <2>6. Throws(C) <=> Throws(S)
    BY <2>3 DEF Throws, polling
  <2>7. Keeps(C, B) /\ Alike(C, B) /\ Flushed(B)
    BY <2>2, SetBufferKeeps
  <2>. HIDE DEF B
  <2>8. Keeps(C, F) /\ Driven(F) /\ Flushed(F)
    BY <2>2, <2>3, <2>5, <2>7 DEF Keeps, Driven, Flushed, Alike, Leaves
  <2>. HIDE DEF F
  <2>9. Leaves(F, Z) /\ Driven(Z) /\ Flushed(Z)
    BY <2>8, ResetLeaves DEF Keeps
  <2>. HIDE DEF Z
  <2>10. Leaves(F, R) /\ Driven(R) /\ Flushed(R)
    BY <2>8, <2>9 DEF Leaves, Keeps
  <2>. HIDE DEF R
  <2>11. O \in Client
    BY <2>10 DEF Leaves, Client
  <2>12. Leaves(R, O) /\ Alike(R, O) /\ O.doBuffer = R.doBuffer /\ O.tr = R.tr
    BY <2>10, <2>11 DEF Leaves, Alike, Client
  <2>. HIDE DEF O
  <2>13. Leaves(R, T) /\ Alike(R, T) /\ T.doBuffer = R.doBuffer /\ T.tr = R.tr
    BY <2>10, <2>12 DEF Leaves, Alike
  <2>. HIDE DEF T
  <2>14. E \in Client
    BY <2>13 DEF Leaves, Client
  <2>15. Leaves(T, E) /\ Alike(T, E) /\ E.doBuffer = T.doBuffer /\ E.tr = T.tr
    BY <2>13, <2>14 DEF Leaves, Alike, Client
  <2>. HIDE DEF E
  <2>16. Keeps(S, E) /\ Driven(E) /\ Flushed(E)
    <3>1. Keeps(S, E)
      BY <2>3, <2>8, <2>10, <2>13, <2>15 DEF Keeps, Leaves
    <3>2. Driven(E)
      BY <2>10, <2>13, <2>15 DEF Alike, Driven
    <3>3. Throws(E) <=> Throws(R)
      BY <2>13, <2>15 DEF Alike, Throws, polling
    <3>4. Flushed(E)
      BY <2>10, <2>13, <2>15, <3>3 DEF Leaves, Alike, Flushed
    <3>. QED BY <3>1, <3>2, <3>4
  <2>17. ~S.doBuffer /\ S.buffer # << >> /\ Throws(S) => Keeps(S, C) /\ Driven(C) /\ Flushed(C)
    BY <2>2, <2>3, <2>5, <2>6 DEF Keeps, Leaves, Flushed
  <2>. QED BY <2>1, <2>16, <2>17
<1>. QED BY <1>1, <1>2

(* Transport.onData changes the timers only. *)
LEMMA OnDataLeaves ==
    ASSUME NEW S \in Client, NEW t \in Slots, Driven(S), Flushed(S)
    PROVE  /\ Leaves(S, onData(S, t))
           /\ Driven(onData(S, t))
           /\ Flushed(onData(S, t))
<1>. DEFINE c == S.connected \/ S.connecting \/ S.reconnecting
            P == [S.tr[t] EXCEPT !.closeTimer = c]
            R == [S EXCEPT !.tr[t] = P]
<1>1. S.tr[t] \in Transport /\ c \in BOOLEAN
  BY TransportType
<1>2. onData(S, t) = setHeartbeatTimeout(R)
  BY DEF onData
<1>. HIDE DEF c
<1>3. P \in Transport /\ P.kind = S.tr[t].kind /\ P.ready = S.tr[t].ready
  BY <1>1 DEF Transport
<1>. HIDE DEF P
<1>4. /\ Leaves(S, R) /\ Alike(S, R) /\ R.doBuffer = S.doBuffer
      /\ R.tr = [S.tr EXCEPT ![t] = P]
  BY <1>3, SlotUpdate
<1>. HIDE DEF R
<1>5. SameKinds(S, R)
  BY <1>3, <1>4, TransportType DEF SameKinds
<1>6. Throws(R) <=> Throws(S)
  BY <1>4, <1>5, SameThrows
<1>7. R \in Client /\ Driven(R) /\ Flushed(R)
  BY <1>4, <1>6 DEF Leaves, Alike, Driven, Flushed
<1>8. /\ Leaves(R, onData(S, t)) /\ Alike(R, onData(S, t))
      /\ onData(S, t).doBuffer = R.doBuffer /\ onData(S, t).tr = R.tr
  BY <1>2, <1>7, SetHeartbeatLeaves
<1>. QED BY <1>4, <1>7, <1>8 DEF Leaves, Alike, Driven, Flushed, Throws, polling

-----------------------------------------------------------------------------
(* The inductive invariant. *)
Sound(S) ==
    /\ S \in Client
    /\ S.handed \o S.buffer = S.sent
    /\ Driven(S)
    /\ Flushed(S)

(* The inductive invariant with the counters. *)
IInv ==
    /\ Sound(io)
    /\ faults \in 0..MaxFaults
    /\ overlapped \in BOOLEAN

(* What leaves the messages alone or keeps their order keeps the           *)
(* invariant.                                                              *)
LEMMA LeavesSound ==
    ASSUME NEW S, Sound(S), NEW R, Leaves(S, R) \/ Keeps(S, R), Driven(R), Flushed(R)
    PROVE  Sound(R)
BY DEF Sound, Leaves, Keeps

(* Faults are counted up to MaxFaults. *)
LEMMA FaultType ==
    ASSUME IInv, Fault \/ UNCHANGED faults
    PROVE  faults' \in 0..MaxFaults
BY SocketAssumption DEF IInv, Fault

(* A transport object that is out of use. *)
LEMMA FreshType ==
    ASSUME Free # {}
    PROVE  Fresh \in Slots
BY DEF Fresh, Free

(* The invariant holds when the socket is created. *)
LEMMA InitSound == Init => IInv
<1>. SUFFICES ASSUME Init PROVE IInv
  OBVIOUS
<1>1. io \in Client
  <2>1. [t \in Slots |-> Unused] \in [Slots -> Transport]
    BY DEF Unused, Transport
  <2>2. Kinds \in Seq(Range(Kinds))
    BY SocketAssumption DEF Range
  <2>. QED BY <2>1, <2>2 DEF Init, Client
<1>2. io.handed \o io.buffer = io.sent
  BY DEF Init
<1>3. Driven(io) /\ Flushed(io)
  BY DEF Init, Driven, Flushed
<1>4. faults \in 0..MaxFaults /\ overlapped \in BOOLEAN
  <2>1. MaxFaults \in Nat
    BY SocketAssumption
  <2>2. faults = 0 /\ overlapped = FALSE
    BY DEF Init
  <2>3. faults \in 0..MaxFaults
    BY <2>1, <2>2
  <2>. QED BY <2>2, <2>3
<1>. QED BY <1>1, <1>2, <1>3, <1>4 DEF IInv, Sound

(* The page sends a message. *)
LEMMA SendSound == ASSUME IInv, Send PROVE IInv'
<1>. DEFINE m == Len(io.sent) + 1
            P == packet(io, m)
            q == Append(io.sent, m)
            R == [P EXCEPT !.sent = q]
<1>1. io \in Client /\ io.handed \o io.buffer = io.sent /\ Driven(io) /\ Flushed(io)
  BY DEF IInv, Sound
<1>2. io.sent \in Seq(Nat) /\ m \in Nat /\ q \in Seq(Nat)
  BY <1>1 DEF Client
<1>3. /\ P \in Client /\ Alike(io, P) /\ P.sent = io.sent /\ Flushed(P)
      /\ P.handed \o P.buffer = Append(io.handed \o io.buffer, m)
  BY <1>1, <1>2, PacketKeeps DEF Send
<1>4. io' = R /\ UNCHANGED <<faults, overlapped>>
  BY <1>3 DEF Send, Does
<1>. HIDE DEF P, q
<1>5. R \in Client
  BY <1>2, <1>3 DEF Client
<1>6. /\ R.sent = q /\ R.handed = P.handed /\ R.buffer = P.buffer /\ Alike(P, R)
      /\ R.doBuffer = P.doBuffer /\ R.tr = P.tr
  BY <1>3 DEF Alike, Client
<1>. HIDE DEF R
<1>7. Driven(R) /\ Flushed(R)
  BY <1>1, <1>3, <1>6 DEF Driven, Flushed, Alike, Throws, polling
<1>8. Sound(R)
  BY <1>1, <1>3, <1>5, <1>6, <1>7 DEF Sound, q
<1>. QED BY <1>4, <1>8 DEF IInv

(* The handshake is answered. *)
LEMMA HandshakeAnsweredSound == ASSUME IInv, HandshakeAnswered PROVE IInv'
<1>. DEFINE R == handshaken(io, Fresh)
<1>1. Keeps(io, R) /\ Driven(R) /\ Flushed(R)
  BY FreshType, HandshakenKeeps DEF IInv, Sound, HandshakeAnswered
<1>2. io' = R /\ UNCHANGED <<faults, overlapped>>
  BY DEF HandshakeAnswered, Does
<1>. HIDE DEF R
<1>. QED BY <1>1, <1>2, LeavesSound DEF IInv

(* The handshake fails. *)
LEMMA HandshakeFailsSound == ASSUME IInv, HandshakeFails PROVE IInv'
<1>. DEFINE n == io.handshakes - 1
            R == [io EXCEPT !.handshakes = n, !.connecting = FALSE]
<1>1. io \in Client /\ Driven(io) /\ Flushed(io)
  BY DEF IInv, Sound
<1>2. n \in Nat
  BY <1>1 DEF HandshakeFails, Client
<1>3. io' = R /\ Fault /\ UNCHANGED overlapped
  BY DEF HandshakeFails, DoesUnless
<1>. HIDE DEF n
<1>4. R \in Client
  BY <1>1, <1>2 DEF Client
<1>5. Leaves(io, R) /\ Alike(io, R) /\ R.doBuffer = io.doBuffer /\ R.tr = io.tr
  BY <1>1, <1>4 DEF Leaves, Alike, Client
<1>. HIDE DEF R
<1>6. Driven(R) /\ Flushed(R)
  BY <1>1, <1>5 DEF Driven, Flushed, Leaves, Alike, Throws, polling
<1>. QED BY <1>3, <1>5, <1>6, LeavesSound, FaultType DEF IInv

(* The invariant and a change of one transport. *)
LEMMA SlotSound ==
    ASSUME NEW t \in Slots, NEW P \in Transport, IInv
    PROVE  LET R == [io EXCEPT !.tr[t] = P] IN
           /\ R \in Client
           /\ Leaves(io, R)
           /\ Driven(R)
           /\ (P.kind = io.tr[t].kind /\ P.ready = io.tr[t].ready) => Flushed(R)
<1>. DEFINE R == [io EXCEPT !.tr[t] = P]
<1>1. io \in Client /\ Driven(io) /\ Flushed(io)
  BY DEF IInv, Sound
<1>2. /\ Leaves(io, R) /\ Alike(io, R) /\ R.doBuffer = io.doBuffer
      /\ R.tr = [io.tr EXCEPT ![t] = P]
  BY <1>1, SlotUpdate
<1>. HIDE DEF R
<1>3. Driven(R) /\ R \in Client
  BY <1>1, <1>2 DEF Driven, Alike, Leaves
<1>4. ASSUME P.kind = io.tr[t].kind, P.ready = io.tr[t].ready PROVE Flushed(R)
  <2>1. SameKinds(io, R)
    BY <1>1, <1>2, <1>4, TransportType DEF SameKinds
  <2>. QED BY <1>1, <1>2, <2>1, SameThrows DEF Flushed, Alike, Leaves
<1>. QED BY <1>2, <1>3, <1>4 DEF R

(* onopen of a websocket, the current one or not. *)
LEMMA WebsocketOpensSound ==
    ASSUME IInv, NEW t \in Slots, WebsocketOpens(t) PROVE IInv'
<1>. DEFINE P == [io.tr[t] EXCEPT !.ready = "open", !.isOpen = TRUE, !.closeTimer = FALSE]
            R == [io EXCEPT !.tr[t] = P]
            B == setBuffer(R, FALSE)
<1>1. io.tr[t] \in Transport
  BY TransportType DEF IInv, Sound
<1>2. P \in Transport
  BY <1>1 DEF Transport
<1>3. io' = B /\ UNCHANGED <<faults, overlapped>>
  BY DEF WebsocketOpens, Does
<1>. HIDE DEF P
<1>4. R \in Client /\ Leaves(io, R) /\ Driven(R)
  BY <1>2, SlotSound
<1>. HIDE DEF R
<1>5. Keeps(R, B) /\ (Driven(R) => Driven(B)) /\ Flushed(B)
  BY <1>4, SetBufferKeeps DEF Alike, Driven
<1>. HIDE DEF B
<1>6. Keeps(io, B)
  BY <1>4, <1>5 DEF Keeps, Leaves
<1>. QED BY <1>3, <1>4, <1>5, <1>6, LeavesSound DEF IInv

(* onclose of a websocket, the current one or not. *)
LEMMA WebsocketClosesSound ==
    ASSUME IInv, NEW t \in Slots, WebsocketCloses(t) PROVE IInv'
<1>. DEFINE P == [io.tr[t] EXCEPT !.ready = "closed"]
            R == [io EXCEPT !.tr[t] = P]
            C == onClose(R, t)
            B == setBuffer(C, TRUE)
<1>1. io.tr[t] \in Transport
  BY TransportType DEF IInv, Sound
<1>2. P \in Transport
  BY <1>1 DEF Transport
<1>3. io' \in {C, B} /\ (Fault \/ UNCHANGED faults) /\ UNCHANGED overlapped
  BY DEF WebsocketCloses, DoesUnless
<1>. HIDE DEF P
<1>4. R \in Client /\ Leaves(io, R) /\ Driven(R)
  BY <1>2, SlotSound
<1>. HIDE DEF R
<1>5. Leaves(R, C) /\ Driven(C) /\ Flushed(C)
  BY <1>4, OnCloseLeaves
<1>. HIDE DEF C
<1>6. Keeps(C, B) /\ Driven(B) /\ Flushed(B)
  BY <1>5, SetBufferKeeps DEF Alike, Driven, Leaves
<1>. HIDE DEF B
<1>7. Sound(C) /\ Sound(B)
  BY <1>4, <1>5, <1>6 DEF Keeps, Leaves, IInv, Sound
<1>. QED BY <1>3, <1>7, FaultType DEF IInv

(* The connect packet, over whichever transport. *)
LEMMA ConnectedSound ==
    ASSUME IInv, NEW t \in Slots, Connected(t) PROVE IInv'
<1>. DEFINE P == [io.tr[t] EXCEPT !.greeted = TRUE]
            R == [io EXCEPT !.tr[t] = P]
            D == onData(R, t)
            C == onConnect(D)
<1>1. io.tr[t] \in Transport
  BY TransportType DEF IInv, Sound
<1>2. P \in Transport /\ P.kind = io.tr[t].kind /\ P.ready = io.tr[t].ready
  BY <1>1 DEF Transport
<1>3. io' = C /\ UNCHANGED <<faults, overlapped>>
  BY DEF Connected, Does
<1>. HIDE DEF P
<1>4. R \in Client /\ Leaves(io, R) /\ Driven(R) /\ Flushed(R)
  BY <1>2, SlotSound
<1>. HIDE DEF R
<1>5. Leaves(R, D) /\ Driven(D) /\ Flushed(D)
  BY <1>4, OnDataLeaves
<1>. HIDE DEF D
<1>6. Keeps(D, C) /\ Driven(C) /\ Flushed(C)
  BY <1>5, OnConnectKeeps DEF Leaves
<1>. HIDE DEF C
<1>7. Keeps(io, C)
  BY <1>4, <1>5, <1>6 DEF Keeps, Leaves
<1>. QED BY <1>3, <1>6, <1>7, LeavesSound DEF IInv

(* A later packet, over whichever transport. *)
LEMMA ReceivedSound ==
    ASSUME IInv, NEW t \in Slots, Received(t) PROVE IInv'
<1>1. Leaves(io, onData(io, t)) /\ Driven(onData(io, t)) /\ Flushed(onData(io, t))
  BY OnDataLeaves DEF IInv, Sound
<1>2. io' = onData(io, t) /\ UNCHANGED <<faults, overlapped>>
  BY DEF Received, Does
<1>. QED BY <1>1, <1>2, LeavesSound DEF IInv

(* A heartbeat, which is answered past the buffer.                         *)
LEMMA HeartbeatSound ==
    ASSUME IInv, NEW t \in Slots, Heartbeat(t) PROVE IInv'
<1>. DEFINE D == onData(io, t)
            P == post(D, t)
<1>1. Leaves(io, D) /\ Driven(D) /\ Flushed(D)
  BY OnDataLeaves DEF IInv, Sound
<1>2. io' \in {D, P} /\ UNCHANGED <<faults, overlapped>>
  BY DEF Heartbeat, Does, onHeartbeat
<1>. HIDE DEF D
<1>3. /\ P \in Client /\ Alike(D, P) /\ P.sent = D.sent /\ P.handed = D.handed
      /\ P.buffer = D.buffer /\ P.doBuffer
  BY <1>1, PostType DEF Leaves
<1>. HIDE DEF P
<1>4. Leaves(io, P) /\ Driven(P) /\ Flushed(P)
  BY <1>1, <1>3 DEF Leaves, Driven, Flushed, Alike
<1>. QED BY <1>1, <1>2, <1>4, LeavesSound DEF IInv

(* The GET of a polling transport fails. *)
LEMMA GetFailsSound ==
    ASSUME IInv, NEW t \in Slots, GetFails(t) PROVE IInv'
<1>1. Leaves(io, onClose(io, t)) /\ Driven(onClose(io, t)) /\ Flushed(onClose(io, t))
  BY OnCloseLeaves DEF IInv, Sound
<1>2. io' = onClose(io, t) /\ (Fault \/ UNCHANGED faults) /\ UNCHANGED overlapped
  BY DEF GetFails, DoesUnless
<1>. QED BY <1>1, <1>2, LeavesSound, FaultType DEF IInv

(* A POST is answered or fails. *)
LEMMA PostEndsSound ==
    ASSUME IInv, NEW t \in Slots, PostDone(t) \/ PostFails(t) PROVE IInv'
<1>. DEFINE n == io.tr[t].posts - 1
            P == [io.tr[t] EXCEPT !.posts = n]
            R == [io EXCEPT !.tr[t] = P]
            B == setBuffer(R, FALSE)
            C == onClose(R, t)
<1>1. io.tr[t] \in Transport
  BY TransportType DEF IInv, Sound
<1>2. n \in Nat
  <2>1. io.tr[t].posts > 0
    BY DEF PostDone, PostFails
  <2>2. io.tr[t].posts \in Nat
    BY <1>1 DEF Transport
  <2>. QED BY <2>1, <2>2
<1>3. io' \in {B, C} /\ (Fault \/ UNCHANGED faults) /\ UNCHANGED overlapped
  BY DEF PostDone, PostFails, Does, DoesUnless
<1>. HIDE DEF n
<1>4. P \in Transport /\ P.kind = io.tr[t].kind /\ P.ready = io.tr[t].ready
  BY <1>1, <1>2 DEF Transport
<1>. HIDE DEF P
<1>5. R \in Client /\ Leaves(io, R) /\ Driven(R) /\ Flushed(R)
  BY <1>4, SlotSound
<1>. HIDE DEF R
<1>6. Keeps(R, B) /\ Driven(B) /\ Flushed(B)
  BY <1>5, SetBufferKeeps DEF Alike, Driven
<1>7. Leaves(R, C) /\ Driven(C) /\ Flushed(C)
  BY <1>5, OnCloseLeaves
<1>. HIDE DEF B, C
<1>8. Sound(B) /\ Sound(C)
  BY <1>5, <1>6, <1>7 DEF Keeps, Leaves, IInv, Sound
<1>. QED BY <1>3, <1>8, FaultType DEF IInv

(* The network drops. *)
LEMMA CutSound ==
    ASSUME IInv, NEW t \in Slots, Cut(t) PROVE IInv'
<1>. DEFINE P == [io.tr[t] EXCEPT !.link = FALSE]
            R == [io EXCEPT !.tr[t] = P]
<1>1. io.tr[t] \in Transport
  BY TransportType DEF IInv, Sound
<1>2. P \in Transport /\ P.kind = io.tr[t].kind /\ P.ready = io.tr[t].ready
  BY <1>1 DEF Transport
<1>3. io' = R /\ Fault /\ UNCHANGED overlapped
  BY DEF Cut, DoesUnless
<1>. HIDE DEF P
<1>4. R \in Client /\ Leaves(io, R) /\ Driven(R) /\ Flushed(R)
  BY <1>2, SlotSound
<1>. HIDE DEF R
<1>. QED BY <1>3, <1>4, LeavesSound, FaultType DEF IInv

(* The heartbeat timer ends. *)
LEMMA HeartbeatTimeoutSound == ASSUME IInv, HeartbeatTimeout PROVE IInv'
<1>. DEFINE H == [io EXCEPT !.heartbeatTimer = FALSE]
            C == onClose(H, H.transport)
<1>1. io \in Client /\ Driven(io) /\ Flushed(io)
  BY DEF IInv, Sound
<1>2. io' = (IF H.transport = null THEN H ELSE C) /\ UNCHANGED <<faults, overlapped>>
  BY DEF HeartbeatTimeout, Does
<1>3. H \in Client
  BY <1>1 DEF Client
<1>4. Leaves(io, H) /\ Alike(io, H) /\ H.doBuffer = io.doBuffer /\ H.tr = io.tr
  BY <1>1, <1>3 DEF Leaves, Alike, Client
<1>5. H.transport # null => H.transport \in Slots
  BY <1>3 DEF Client
<1>. HIDE DEF H
<1>6. Driven(H) /\ Flushed(H)
  BY <1>1, <1>4 DEF Driven, Flushed, Leaves, Alike, Throws, polling
<1>7. H.transport # null => Leaves(H, C) /\ Driven(C) /\ Flushed(C)
  BY <1>3, <1>5, <1>6, OnCloseLeaves
<1>. HIDE DEF C
<1>8. Sound(H) /\ (H.transport # null => Sound(C))
  BY <1>4, <1>6, <1>7 DEF Leaves, IInv, Sound
<1>. QED BY <1>2, <1>8 DEF IInv

(* The close timer of a transport ends. *)
LEMMA CloseTimeoutSound ==
    ASSUME IInv, NEW t \in Slots, CloseTimeout(t) PROVE IInv'
<1>1. /\ Leaves(io, closeTimeout(io, t)) /\ Driven(closeTimeout(io, t))
      /\ Flushed(closeTimeout(io, t))
  BY CloseTimeoutLeaves DEF IInv, Sound
<1>2. io' = closeTimeout(io, t) /\ UNCHANGED <<faults, overlapped>>
  BY DEF CloseTimeout, Does
<1>. QED BY <1>1, <1>2, LeavesSound DEF IInv

(* The connect timer ends. *)
LEMMA ConnectTimeoutSound == ASSUME IInv, ConnectTimeout PROVE IInv'
<1>. DEFINE H == [io EXCEPT !.connectTimer = FALSE]
            R == connectTimeout(H, Fresh)
<1>1. io \in Client /\ Driven(io) /\ Flushed(io)
  BY DEF IInv, Sound
<1>2. io' = R /\ (Fault \/ UNCHANGED faults) /\ overlapped' \in BOOLEAN
  BY DEF ConnectTimeout, IInv
<1>3. H \in Client
  BY <1>1 DEF Client
<1>4. Leaves(io, H) /\ Alike(io, H) /\ H.doBuffer = io.doBuffer /\ H.tr = io.tr
  BY <1>1, <1>3 DEF Leaves, Alike, Client
<1>. HIDE DEF H
<1>5. Driven(H) /\ Flushed(H)
  BY <1>1, <1>4 DEF Driven, Flushed, Leaves, Alike, Throws, polling
<1>6. Keeps(H, R) /\ Driven(R) /\ Flushed(R)
  BY <1>3, <1>5, FreshType, ConnectTimeoutKeeps DEF ConnectTimeout
<1>. HIDE DEF R
<1>7. Sound(R)
  BY <1>4, <1>6 DEF Leaves, Keeps, IInv, Sound
<1>. QED BY <1>2, <1>7, FaultType DEF IInv

(* A connect timer that was overwritten ends. *)
LEMMA StaleTimeoutSound == ASSUME IInv, StaleTimeout PROVE IInv'
<1>. DEFINE n == io.staleTimers - 1
            H == [io EXCEPT !.staleTimers = n]
            R == connectTimeout(H, Fresh)
<1>1. io \in Client /\ Driven(io) /\ Flushed(io)
  BY DEF IInv, Sound
<1>2. io' = R /\ UNCHANGED <<faults, overlapped>>
  BY DEF StaleTimeout, Does
<1>3. n \in Nat
  BY <1>1 DEF StaleTimeout, Client
<1>. HIDE DEF n
<1>4. H \in Client
  BY <1>1, <1>3 DEF Client
<1>5. Leaves(io, H) /\ Alike(io, H) /\ H.doBuffer = io.doBuffer /\ H.tr = io.tr
  BY <1>1, <1>4 DEF Leaves, Alike, Client
<1>. HIDE DEF H
<1>6. Driven(H) /\ Flushed(H)
  BY <1>1, <1>5 DEF Driven, Flushed, Leaves, Alike, Throws, polling
<1>7. Keeps(H, R) /\ Driven(R) /\ Flushed(R)
  BY <1>4, <1>6, FreshType, ConnectTimeoutKeeps DEF StaleTimeout
<1>. HIDE DEF R
<1>8. Sound(R)
  BY <1>5, <1>7 DEF Leaves, Keeps, IInv, Sound
<1>. QED BY <1>2, <1>8 DEF IInv

(* The reconnection timer ends. *)
LEMMA ReconnectTimeoutSound == ASSUME IInv, ReconnectTimeout PROVE IInv'
<1>. DEFINE H == [io EXCEPT !.reconnectTimer = FALSE]
            R == maybeReconnect(H, Fresh)
<1>1. io \in Client /\ Flushed(io)
  BY DEF IInv, Sound
<1>2. io' = R /\ UNCHANGED faults /\ overlapped' \in BOOLEAN
  BY DEF ReconnectTimeout, IInv
<1>3. H \in Client
  BY <1>1 DEF Client
<1>4. /\ Leaves(io, H) /\ H.doBuffer = io.doBuffer /\ H.tr = io.tr
      /\ H.connected = io.connected /\ H.transport = io.transport
  BY <1>1, <1>3 DEF Leaves, Client
<1>. HIDE DEF H
<1>5. Flushed(H)
  BY <1>1, <1>4 DEF Flushed, Leaves, Throws, polling
<1>6. Leaves(H, R) /\ Driven(R) /\ Flushed(R)
  BY <1>3, <1>5, FreshType, MaybeReconnectLeaves DEF ReconnectTimeout
<1>. HIDE DEF R
<1>7. Sound(R)
  BY <1>4, <1>6 DEF Leaves, IInv, Sound
<1>. QED BY <1>2, <1>7 DEF IInv

(* Every step keeps the invariant. *)
LEMMA NextSound == IInv /\ [Next]_vars => IInv'
<1>. SUFFICES ASSUME IInv, [Next]_vars PROVE IInv'
  OBVIOUS
<1>1. CASE Send
  BY <1>1, SendSound
<1>2. CASE HandshakeAnswered \/ HandshakeFails
  BY <1>2, HandshakeAnsweredSound, HandshakeFailsSound
<1>3. ASSUME NEW t \in Slots, WebsocketOpens(t) \/ WebsocketCloses(t) PROVE IInv'
  BY <1>3, WebsocketOpensSound, WebsocketClosesSound
<1>4. ASSUME NEW t \in Slots, Connected(t) \/ Received(t) \/ Heartbeat(t) PROVE IInv'
  BY <1>4, ConnectedSound, ReceivedSound, HeartbeatSound
<1>5. ASSUME NEW t \in Slots, GetFails(t) \/ PostDone(t) \/ PostFails(t) PROVE IInv'
  BY <1>5, GetFailsSound, PostEndsSound
<1>6. ASSUME NEW t \in Slots, Cut(t) \/ CloseTimeout(t) PROVE IInv'
  BY <1>6, CutSound, CloseTimeoutSound
<1>7. CASE HeartbeatTimeout \/ ConnectTimeout \/ StaleTimeout \/ ReconnectTimeout
  BY <1>7, HeartbeatTimeoutSound, ConnectTimeoutSound, StaleTimeoutSound, ReconnectTimeoutSound
<1>8. CASE UNCHANGED vars
  BY <1>8 DEF vars, IInv, Sound, Driven, Flushed, Throws, polling
<1>. QED BY <1>1, <1>2, <1>3, <1>4, <1>5, <1>6, <1>7, <1>8 DEF Next

(* The invariant holds throughout. *)
LEMMA Invariance == Spec => []IInv
BY InitSound, NextSound, PTL DEF Spec

(* The state of the client stays within its types (TypeOK), for all lists  *)
(* of transports, attempts, messages and failures.                         *)
THEOREM SocketTyped == Spec => []TypeOK
<1>1. IInv => TypeOK
  BY DEF IInv, Sound, TypeOK
<1>. QED BY <1>1, Invariance, PTL

(* Whatever order the callbacks of old and new transports and timers       *)
(* arrive in, what was handed to the browser followed by the buffer is     *)
(* what the page has sent (Socket.packet, setBuffer and flushBuffer).      *)
THEOREM SentInOrderHolds == Spec => []SentInOrder
<1>1. IInv => SentInOrder
  BY DEF IInv, Sound, SentInOrder
<1>. QED BY <1>1, Invariance, PTL

(* A socket that reconnects has its timer or is in the last resort         *)
(* (Socket.reconnect).                                                     *)
THEOREM ReconnectDrivenHolds == Spec => []ReconnectDriven
<1>1. IInv => ReconnectDriven
  BY DEF IInv, Sound, Driven, ReconnectDriven
<1>. QED BY <1>1, Invariance, PTL

-----------------------------------------------------------------------------
(***************************************************************************)
(* The connection as long as attempts to connect do not overlap.           *)
(*                                                                         *)
(* NothingStuck and PageKnows are about several objects at a time, and     *)
(* neither is inductive: whether an old transport can still call back      *)
(* depends on how the connection came to be where it is.  Such a           *)
(* socket is in one of four phases, and every callback finds it in some of *)
(* them only and leads to one of them; Calm says so, together with what    *)
(* all phases share.                                                       *)
(***************************************************************************)
Current(S) == S.tr[S.transport]

(* A transport object that is out of use. *)
Resting(P) == P.ready \in {"idle", "closed"} /\ P.posts = 0 /\ ~P.closeTimer

OthersRest(S) == \A u \in Slots : u # S.transport => Resting(S.tr[u])

AllRest(S) == \A u \in Slots : Resting(S.tr[u])

(* Only polling posts. *)
PostsOfPolling(P) == P.posts > 0 => P.kind = "xhr-polling"

(* What all phases share. *)
Steady(S) ==
    /\ S.staleTimers = 0
    /\ S.connectTimer => S.once
    /\ S.redoTransports => S.reconnecting /\ S.attempts >= MaxAttempts
    /\ S.told = "connect" <=> S.connected
    /\ S.told = "disconnect" => S.reconnecting \/ S.gaveUp
    /\ S.transports = << >> => ~S.reconnecting

(* A handshake is under way, and nothing of an earlier attempt is left. *)
Shaking(S) ==
    /\ S.connecting /\ ~S.connected /\ S.handshakes = 1
    /\ ~S.connectTimer /\ ~S.heartbeatTimer
    /\ S.transports # << >>
    /\ S.transport # null => Resting(Current(S))

(* A transport was opened and has not heard the connect packet; the        *)
(* connect timer runs.                                                     *)
Opening(S) ==
    /\ S.connecting /\ ~S.connected /\ S.handshakes = 0
    /\ S.connectTimer
    /\ S.transports # << >>
    /\ S.transport # null
    /\ Current(S).ready \in {"connecting", "open"}
    /\ Current(S).posts = 0 /\ ~Current(S).greeted
    /\ Current(S).closeTimer => Current(S).ready = "open"
    /\ Current(S).ready = "open" => Current(S).isOpen /\ ~S.doBuffer

(* The connection is up, and messages wait for the post under way only. *)
Up(S) ==
    /\ S.connected /\ ~S.connecting /\ ~S.reconnecting /\ S.handshakes = 0
    /\ ~S.connectTimer
    /\ S.transports # << >>
    /\ S.transport # null
    /\ Current(S).ready = "open" /\ Current(S).isOpen /\ Current(S).greeted
    /\ PostsOfPolling(Current(S))
    /\ S.doBuffer => Current(S).posts > 0
    /\ ~S.doBuffer => S.buffer = << >>

(* No connection and no attempt; a websocket may still be closing, a post  *)
(* of a closed polling transport be under way, and a connect timer run     *)
(* that found its transport closed.                                        *)
Down(S) ==
    /\ ~S.connected /\ ~S.connecting /\ S.handshakes = 0
    /\ S.transport = null => ~S.heartbeatTimer /\ ~S.connectTimer
    /\ S.transport # null =>
          /\ Current(S).ready \in {"idle", "closed", "closing"}
          /\ ~Current(S).closeTimer
          /\ PostsOfPolling(Current(S))
          /\ S.heartbeatTimer => Current(S).ready = "closing"
          /\ S.connectTimer => Current(S).ready = "closed" /\ Current(S).posts = 0
    /\ S.connectTimer => S.transports # << >>

Calm(S) ==
    /\ Steady(S)
    /\ OthersRest(S)
    /\ Shaking(S) \/ Opening(S) \/ Up(S) \/ Down(S)

(* R has the transports to try, the handshakes and the connect timers of S. *)
SameErrand(S, R) ==
    /\ R.transport = S.transport
    /\ R.transports = S.transports
    /\ R.handshakes = S.handshakes
    /\ R.connectTimer = S.connectTimer
    /\ R.staleTimers = S.staleTimers
    /\ R.once = S.once
    /\ R.gaveUp = S.gaveUp

(* R is as far as S with connecting and connecting again. *)
SameCourse(S, R) ==
    /\ R.connected = S.connected
    /\ R.connecting = S.connecting
    /\ R.reconnecting = S.reconnecting
    /\ R.attempts = S.attempts
    /\ R.redoTransports = S.redoTransports
    /\ R.told = S.told

(* R differs from S in the messages and the transport objects at most. *)
SameWay(S, R) ==
    /\ SameErrand(S, R)
    /\ SameCourse(S, R)
    /\ R.heartbeatTimer = S.heartbeatTimer

(* A new state of one transport object leaves the rest of the client       *)
(* alone.                                                                  *)
LEMMA SlotWay ==
    ASSUME NEW S \in Client, NEW t \in Slots, NEW P \in Transport
    PROVE  LET R == [S EXCEPT !.tr[t] = P] IN
           /\ R \in Client
           /\ SameWay(S, R)
           /\ R.doBuffer = S.doBuffer /\ R.buffer = S.buffer
           /\ R.tr = [S.tr EXCEPT ![t] = P]
<1>. DEFINE N == [S.tr EXCEPT ![t] = P]
            R == [S EXCEPT !.tr = N]
<1>1. N \in [Slots -> Transport]
  BY SlotType
<1>2. [S EXCEPT !.tr[t] = P] = R
  OBVIOUS
<1>. HIDE DEF N
<1>3. R \in Client
  BY <1>1 DEF Client
<1>4. SameErrand(S, R) /\ SameCourse(S, R) /\ R.heartbeatTimer = S.heartbeatTimer
  BY DEF SameErrand, SameCourse, Client
<1>5. R.doBuffer = S.doBuffer /\ R.buffer = S.buffer /\ R.tr = N
  BY DEF Client
<1>. QED BY <1>2, <1>3, <1>4, <1>5 DEF N, SameWay

(* The state of the transport object that was changed, and of the others. *)
LEMMA SlotValue ==
    ASSUME NEW S \in Client, NEW t \in Slots, NEW P \in Transport, NEW R,
           R.tr = [S.tr EXCEPT ![t] = P]
    PROVE  /\ R.tr[t] = P
           /\ \A u \in Slots : u # t => R.tr[u] = S.tr[u]
<1>1. S.tr \in [Slots -> Transport]
  BY TransportType
<1>. QED BY <1>1

(* A change of the current transport object leaves the others out of use. *)
LEMMA CurrentChanges ==
    ASSUME NEW S \in Client, NEW P \in Transport, NEW R, OthersRest(S),
           S.transport # null, R.transport = S.transport,
           R.tr = [S.tr EXCEPT ![S.transport] = P]
    PROVE  OthersRest(R) /\ Current(R) = P
<1>1. S.transport \in Slots
  BY DEF Client
<1>2. R.tr[S.transport] = P /\ \A u \in Slots : u # S.transport => R.tr[u] = S.tr[u]
  BY <1>1, TransportType
<1>. QED BY <1>2 DEF OthersRest, Current

(* The transport object in a phase is typed. *)
LEMMA CurrentType ==
    ASSUME NEW S \in Client, S.transport # null
    PROVE  S.transport \in Slots /\ Current(S) \in Transport
BY TransportType DEF Client, Current

(* A callback of a transport object that is in use is one of the current   *)
(* one.                                                                    *)
LEMMA InUseIsCurrent ==
    ASSUME NEW S \in Client, NEW t \in Slots, OthersRest(S), ~Resting(S.tr[t])
    PROVE  S.transport = t /\ S.transport # null /\ Current(S) = S.tr[t]
<1>1. S.transport = t
  BY DEF OthersRest
<1>. QED BY <1>1, SocketAssumption DEF Current

-----------------------------------------------------------------------------
(* The current transport object after a post. *)
OnePostMore(S) == [Current(S) EXCEPT !.posts = @ + 1]

(* A transport object with a post under way is one. *)
LEMMA OnePostMoreType ==
    ASSUME NEW S \in Client, S.transport # null
    PROVE  /\ OnePostMore(S) \in Transport
           /\ OnePostMore(S).posts = Current(S).posts + 1
           /\ OnePostMore(S).kind = Current(S).kind
           /\ OnePostMore(S).ready = Current(S).ready
           /\ OnePostMore(S).isOpen = Current(S).isOpen
           /\ OnePostMore(S).greeted = Current(S).greeted
           /\ OnePostMore(S).closeTimer = Current(S).closeTimer
<1>1. Current(S) \in Transport
  BY CurrentType
<1>. QED BY <1>1 DEF Transport, OnePostMore

(* XHR.post, in all fields. *)
LEMMA PostWay ==
    ASSUME NEW S \in Client, S.transport # null
    PROVE  /\ SameWay(S, post(S, S.transport))
           /\ post(S, S.transport).doBuffer /\ post(S, S.transport).buffer = S.buffer
           /\ post(S, S.transport).tr = [S.tr EXCEPT ![S.transport] = OnePostMore(S)]
<1>. DEFINE N == [S.tr EXCEPT ![S.transport] = OnePostMore(S)]
            R == [S EXCEPT !.doBuffer = TRUE, !.tr = N]
<1>1. post(S, S.transport) = R
  BY DEF post, Client, Current, OnePostMore
<1>. HIDE DEF N
<1>2. SameErrand(S, R) /\ SameCourse(S, R) /\ R.heartbeatTimer = S.heartbeatTimer
  BY DEF SameErrand, SameCourse, Client
<1>3. R.doBuffer = TRUE /\ R.buffer = S.buffer /\ R.tr = N
  BY DEF Client
<1>. QED BY <1>1, <1>2, <1>3 DEF N, SameWay

(* payload posts, or gives the messages to the websocket. *)
LEMMA PayloadWay ==
    ASSUME NEW S \in Client, NEW msgs \in Seq(Nat), S.transport # null
    PROVE  /\ SameWay(S, payload(S, msgs))
           /\ payload(S, msgs).buffer = S.buffer
           /\ Current(S).kind = "xhr-polling" =>
                 /\ payload(S, msgs).doBuffer
                 /\ OnePostMore(S) \in Transport
                 /\ payload(S, msgs).tr = [S.tr EXCEPT ![S.transport] = OnePostMore(S)]
           /\ Current(S).kind # "xhr-polling" =>
                 /\ payload(S, msgs).doBuffer = S.doBuffer
                 /\ payload(S, msgs).tr = S.tr
<1>. DEFINE h == S.handed \o msgs
            H == [S EXCEPT !.handed = h]
<1>1. h \in Seq(Nat)
  BY DEF Client
<1>2. payload(S, msgs) = IF Current(S).kind = "xhr-polling" THEN post(H, S.transport) ELSE H
  BY DEF payload, polling, Current
<1>. HIDE DEF h
<1>3. H \in Client
  BY <1>1 DEF Client
<1>4. SameErrand(S, H) /\ SameCourse(S, H) /\ H.heartbeatTimer = S.heartbeatTimer
  BY DEF SameErrand, SameCourse, Client
<1>5. H.doBuffer = S.doBuffer /\ H.buffer = S.buffer /\ H.tr = S.tr
  BY DEF Client
<1>. HIDE DEF H
<1>6. OnePostMore(H) = OnePostMore(S) /\ H.transport = S.transport
  BY <1>4, <1>5 DEF Current, SameErrand, OnePostMore
<1>7. /\ SameWay(H, post(H, S.transport))
      /\ post(H, S.transport).doBuffer /\ post(H, S.transport).buffer = H.buffer
      /\ post(H, S.transport).tr = [S.tr EXCEPT ![S.transport] = OnePostMore(S)]
  BY <1>3, <1>5, <1>6, PostWay
<1>8. SameWay(S, H) /\ SameWay(S, post(H, S.transport))
  BY <1>4, <1>7 DEF SameWay, SameErrand, SameCourse
<1>. QED BY <1>2, <1>5, <1>7, <1>8, OnePostMoreType

(* Whether setBuffer flushes the buffer. *)
Flushes(S, v) == ~v /\ S.connected /\ S.buffer # << >> /\ ~Throws(S)

(* R has what was in the buffer of S on its way. *)
FlushedTo(S, R) ==
    /\ R.buffer = << >>
    /\ Current(S).kind = "xhr-polling" =>
          /\ R.doBuffer
          /\ OnePostMore(S) \in Transport
          /\ R.tr = [S.tr EXCEPT ![S.transport] = OnePostMore(S)]
    /\ Current(S).kind # "xhr-polling" => ~R.doBuffer /\ R.tr = S.tr

(* R has the messages and the transports of S, with buffering on or off. *)
OnlyBuffering(S, v, R) ==
    R.doBuffer = v /\ R.buffer = S.buffer /\ R.tr = S.tr

(* Socket.setBuffer, in all fields. *)
LEMMA SetBufferWay ==
    ASSUME NEW S \in Client, NEW v \in BOOLEAN
    PROVE  /\ setBuffer(S, v) \in Client
           /\ SameWay(S, setBuffer(S, v))
           /\ Flushes(S, v) => FlushedTo(S, setBuffer(S, v))
           /\ ~Flushes(S, v) => OnlyBuffering(S, v, setBuffer(S, v))
<1>. DEFINE B == [S EXCEPT !.doBuffer = v]
            Y == payload(B, B.buffer)
            e == << >>
            F == [Y EXCEPT !.buffer = e]
<1>1. setBuffer(S, v) \in Client
  BY SetBufferKeeps DEF Keeps
<1>2. SameErrand(S, B) /\ SameCourse(S, B) /\ B.heartbeatTimer = S.heartbeatTimer
  BY DEF SameErrand, SameCourse, Client
<1>3. B \in Client /\ B.doBuffer = v /\ B.buffer = S.buffer /\ B.tr = S.tr
  BY DEF Client
<1>4. setBuffer(S, v) = IF Flushes(S, v) THEN F ELSE B
  BY DEF setBuffer, Flushes, flushBuffer
<1>. HIDE DEF B
<1>5. CASE ~Flushes(S, v)
  BY <1>1, <1>2, <1>3, <1>4, <1>5 DEF SameWay, OnlyBuffering
<1>6. CASE Flushes(S, v)
  <2>1. /\ S.transport # null /\ B.transport = S.transport /\ Current(B) = Current(S)
        /\ OnePostMore(B) = OnePostMore(S) /\ ~v
    BY <1>2, <1>3, <1>6 DEF Flushes, Throws, SameErrand, Current, OnePostMore
  <2>2. B.buffer \in Seq(Nat)
    BY <1>3 DEF Client
  <2>3. Y \in Client
    BY <1>3, <2>1, <2>2, PayloadType
  <2>4. /\ SameWay(B, Y)
        /\ Current(S).kind = "xhr-polling" =>
              /\ Y.doBuffer
              /\ OnePostMore(S) \in Transport
              /\ Y.tr = [S.tr EXCEPT ![S.transport] = OnePostMore(S)]
        /\ Current(S).kind # "xhr-polling" => Y.doBuffer = v /\ Y.tr = S.tr
    BY <1>3, <2>1, <2>2, PayloadWay
  <2>. HIDE DEF Y, e
  <2>5. SameErrand(Y, F) /\ SameCourse(Y, F) /\ F.heartbeatTimer = Y.heartbeatTimer
    BY <2>3 DEF SameErrand, SameCourse, Client
  <2>6. F.doBuffer = Y.doBuffer /\ F.tr = Y.tr /\ F.buffer = e
    BY <2>3 DEF Client
  <2>. HIDE DEF F
  <2>7. SameWay(S, F)
    BY <1>2, <2>4, <2>5 DEF SameWay, SameErrand, SameCourse
  <2>8. FlushedTo(S, F)
    BY <2>1, <2>4, <2>6 DEF FlushedTo, e
  <2>. QED BY <1>1, <1>4, <1>6, <2>7, <2>8
<1>. QED BY <1>5, <1>6

-----------------------------------------------------------------------------
(* The state of a transport object after its close was called. *)
Closed(P) ==
    IF P.kind = "xhr-polling"
    THEN [P EXCEPT !.ready = "closed", !.isOpen = FALSE, !.closeTimer = FALSE]
    ELSE [P EXCEPT !.ready = IF @ = "closed" THEN @ ELSE "closing"]

Untimed(P) == [P EXCEPT !.closeTimer = FALSE]

(* A closed transport object is one. *)
LEMMA ClosedType ==
    ASSUME NEW P \in Transport
    PROVE  /\ Closed(P) \in Transport
           /\ Closed(P).kind = P.kind /\ Closed(P).posts = P.posts
           /\ Closed(P).ready =
                 IF P.kind = "xhr-polling" \/ P.ready = "closed" THEN "closed" ELSE "closing"
           /\ Closed(P).closeTimer => P.closeTimer
<1>1. CASE P.kind = "xhr-polling"
  BY <1>1 DEF Closed, Transport
<1>2. CASE P.kind # "xhr-polling"
  BY <1>2 DEF Closed, Transport
<1>. QED BY <1>1, <1>2

(* A transport object without its close timer is one. *)
LEMMA UntimedType ==
    ASSUME NEW P \in Transport
    PROVE  /\ Untimed(P) \in Transport
           /\ Untimed(P).kind = P.kind /\ Untimed(P).posts = P.posts
           /\ Untimed(P).ready = P.ready
           /\ Untimed(P).isOpen = P.isOpen /\ Untimed(P).greeted = P.greeted
           /\ ~Untimed(P).closeTimer
BY DEF Untimed, Transport

(* R is S, except that the current transport object is now P, with or      *)
(* without the heartbeat timer.                                            *)
CurrentBecomes(S, R, P) ==
    /\ SameErrand(S, R)
    /\ R.doBuffer = S.doBuffer /\ R.buffer = S.buffer
    /\ R.tr = [S.tr EXCEPT ![S.transport] = P]

(* transport.close of the current transport, in all fields. *)
LEMMA CloseWay ==
    ASSUME NEW S \in Client, S.transport # null
    PROVE  LET R == close(S, S.transport) IN
           /\ R \in Client
           /\ CurrentBecomes(S, R, Closed(Current(S)))
           /\ SameCourse(S, R)
           /\ R.heartbeatTimer = (S.heartbeatTimer /\ Current(S).kind # "xhr-polling")
<1>. DEFINE t == S.transport
            P == Closed(Current(S))
            H == [S EXCEPT !.heartbeatTimer = FALSE]
<1>0. t \in Slots /\ P \in Transport /\ S.heartbeatTimer \in BOOLEAN
  BY CurrentType, ClosedType DEF Client
<1>1. H \in Client
  BY DEF Client
<1>2. SameErrand(S, H) /\ SameCourse(S, H) /\ H.heartbeatTimer = FALSE
  BY DEF SameErrand, SameCourse, Client
<1>2a. H.doBuffer = S.doBuffer /\ H.buffer = S.buffer /\ H.tr = S.tr
  BY DEF Client
<1>3. CASE Current(S).kind = "xhr-polling"
  <2>1. close(S, t) = [H EXCEPT !.tr[t] = [@ EXCEPT !.ready = "closed", !.isOpen = FALSE, !.closeTimer = FALSE]]
    BY <1>3 DEF close, closePolling, polling, Current
  <2>2. P = [H.tr[t] EXCEPT !.ready = "closed", !.isOpen = FALSE, !.closeTimer = FALSE]
    BY <1>2a, <1>3 DEF Closed, Current
  <2>. HIDE DEF P, H
  <2>3. close(S, t) = [H EXCEPT !.tr[t] = P]
    BY <2>1, <2>2
  <2>4. /\ close(S, t) \in Client /\ SameWay(H, close(S, t))
        /\ close(S, t).doBuffer = H.doBuffer /\ close(S, t).buffer = H.buffer
        /\ close(S, t).tr = [H.tr EXCEPT ![t] = P]
    BY <1>0, <1>1, <2>3, SlotWay
  <2>. QED BY <1>2, <1>2a, <1>3, <2>4 DEF CurrentBecomes, SameWay, SameErrand, SameCourse, P
<1>4. CASE Current(S).kind # "xhr-polling"
  <2>1. close(S, t) = [S EXCEPT !.tr[t] = P]
    BY <1>4 DEF close, closeWebsocket, polling, Current, Closed
  <2>. HIDE DEF P
  <2>2. /\ close(S, t) \in Client /\ SameWay(S, close(S, t))
        /\ close(S, t).doBuffer = S.doBuffer /\ close(S, t).buffer = S.buffer
        /\ close(S, t).tr = [S.tr EXCEPT ![t] = P]
    BY <1>0, <2>1, SlotWay
  <2>. QED BY <1>0, <1>4, <2>2 DEF CurrentBecomes, SameWay, P
<1>. QED BY <1>3, <1>4

(* Socket.onDisconnect of a socket without connection or attempt. *)
LEMMA OnDisconnectIdle ==
    ASSUME NEW S \in Client, ~S.connected, ~S.connecting
    PROVE  /\ onDisconnect(S) \in Client
           /\ SameWay(S, onDisconnect(S))
           /\ OnlyBuffering(S, S.doBuffer, onDisconnect(S))
<1>. DEFINE D == [S EXCEPT !.connected = FALSE, !.connecting = FALSE]
<1>1. onDisconnect(S) = D
  BY DEF onDisconnect
<1>2. D \in Client
  BY DEF Client
<1>3. SameErrand(S, D) /\ D.heartbeatTimer = S.heartbeatTimer
  BY DEF SameErrand, Client
<1>4. SameCourse(S, D)
  BY DEF SameCourse, Client
<1>5. OnlyBuffering(S, S.doBuffer, D)
  BY DEF OnlyBuffering, Client
<1>. QED BY <1>1, <1>2, <1>3, <1>4, <1>5 DEF SameWay

(* The course of a socket that was connected or was connecting, after      *)
(* onDisconnect.                                                           *)
Disconnected(S, R) ==
    /\ ~R.connected /\ ~R.connecting
    /\ R.redoTransports = S.redoTransports
    /\ IF S.connected
       THEN R.told = "disconnect" /\ R.reconnecting
       ELSE R.told = S.told /\ R.reconnecting = S.reconnecting /\ R.attempts = S.attempts

(* Socket.onDisconnect that closes the transport, in all fields. *)
LEMMA OnDisconnectWay ==
    ASSUME NEW S \in Client, S.connected \/ S.connecting, Closable(S),
           S.connected => ~S.reconnecting
    PROVE  LET R == onDisconnect(S) IN
           /\ R \in Client
           /\ CurrentBecomes(S, R, Untimed(Closed(Current(S))))
           /\ Disconnected(S, R)
           /\ R.heartbeatTimer = (S.heartbeatTimer /\ Current(S).kind # "xhr-polling")
<1>. DEFINE t == S.transport
            D == [S EXCEPT !.connected = FALSE, !.connecting = FALSE]
            L == close(D, t)
            C == clearCloseTimeout(L)
            Q == Untimed(Closed(Current(S)))
            P == [C EXCEPT !.told = "disconnect"]
            R == reconnect(P)
<1>1. onDisconnect(S) = IF S.connected THEN R ELSE C
  BY DEF onDisconnect
<1>2. D \in Client /\ D.tr = S.tr /\ D.heartbeatTimer = S.heartbeatTimer
  BY DEF Client
<1>3. SameErrand(S, D) /\ D.doBuffer = S.doBuffer /\ D.buffer = S.buffer
  BY DEF SameErrand, Client
<1>4. /\ ~D.connected /\ ~D.connecting /\ D.told = S.told /\ D.reconnecting = S.reconnecting
      /\ D.attempts = S.attempts /\ D.redoTransports = S.redoTransports
  BY DEF Client
<1>. HIDE DEF D
<1>5. /\ t # null /\ t \in Slots /\ D.transport = t /\ Current(D) = Current(S)
      /\ Current(S) \in Transport
  BY <1>2, <1>3, CurrentType DEF Closable, SameErrand, Current
<1>6. /\ L \in Client /\ CurrentBecomes(D, L, Closed(Current(S))) /\ SameCourse(D, L)
      /\ L.heartbeatTimer = (S.heartbeatTimer /\ Current(S).kind # "xhr-polling")
  BY <1>2, <1>5, CloseWay
<1>. HIDE DEF L
<1>7. Q \in Transport /\ Closed(Current(S)) \in Transport
  BY <1>5, ClosedType, UntimedType
<1>8. L.transport = t /\ L.tr = [S.tr EXCEPT ![t] = Closed(Current(S))]
  BY <1>2, <1>5, <1>6 DEF CurrentBecomes, SameErrand
<1>9. L.tr[t] = Closed(Current(S)) /\ [L.tr EXCEPT ![t] = Q] = [S.tr EXCEPT ![t] = Q]
  BY <1>5, <1>8, TransportType
<1>10. C = [L EXCEPT !.tr[t] = Q]
  BY <1>5, <1>8, <1>9 DEF clearCloseTimeout, Untimed
<1>. HIDE DEF Q
<1>11. /\ C \in Client /\ SameWay(L, C) /\ C.doBuffer = L.doBuffer /\ C.buffer = L.buffer
       /\ C.tr = [L.tr EXCEPT ![t] = Q]
  BY <1>5, <1>6, <1>7, <1>10, SlotWay
<1>12. CurrentBecomes(S, C, Q) /\ C.heartbeatTimer = L.heartbeatTimer
  BY <1>3, <1>5, <1>6, <1>9, <1>11 DEF CurrentBecomes, SameWay, SameErrand
<1>13. /\ ~C.connected /\ ~C.connecting /\ C.told = S.told /\ C.reconnecting = S.reconnecting
       /\ C.attempts = S.attempts /\ C.redoTransports = S.redoTransports
  BY <1>4, <1>6, <1>11 DEF SameWay, SameCourse
<1>. HIDE DEF C
<1>14. CASE ~S.connected
  BY <1>1, <1>6, <1>11, <1>12, <1>13, <1>14 DEF Disconnected, Q
<1>15. CASE S.connected
  <2>1. /\ R \in Client /\ SameErrand(C, R) /\ R.heartbeatTimer = C.heartbeatTimer
        /\ R.doBuffer = C.doBuffer /\ R.buffer = C.buffer /\ R.tr = C.tr
    BY <1>11 DEF reconnect, SameErrand, Client
  <2>2. /\ R.told = "disconnect" /\ R.reconnecting = TRUE /\ R.connected = C.connected
        /\ R.connecting = C.connecting /\ R.redoTransports = C.redoTransports
    BY <1>11 DEF reconnect, Client
  <2>. HIDE DEF R
  <2>3. CurrentBecomes(S, R, Q) /\ R.heartbeatTimer = L.heartbeatTimer
    BY <1>12, <2>1 DEF CurrentBecomes, SameErrand
  <2>. QED BY <1>1, <1>6, <1>13, <1>15, <2>1, <2>2, <2>3 DEF Disconnected, Q
<1>. QED BY <1>14, <1>15

-----------------------------------------------------------------------------
(* A socket whose current transport is about to be closed, or was. *)
Dropping(S) ==
    /\ Steady(S) /\ OthersRest(S)
    /\ S.connected \/ S.connecting
    /\ S.transport # null /\ S.transports # << >> /\ S.handshakes = 0
    /\ PostsOfPolling(Current(S))
    /\ Current(S).ready # "idle"
    /\ S.heartbeatTimer => Current(S).ready # "closed"
    /\ S.connected => ~S.connecting /\ ~S.reconnecting /\ ~S.connectTimer
    /\ ~S.connected => Current(S).ready = "closed" /\ Current(S).posts = 0

(* onDisconnect of such a socket ends in the phase Down. *)
LEMMA DroppingDown ==
    ASSUME NEW S \in Client, Dropping(S)
    PROVE  /\ onDisconnect(S) \in Client
           /\ Calm(onDisconnect(S)) /\ Down(onDisconnect(S))
<1>. DEFINE R == onDisconnect(S)
            Q == Untimed(Closed(Current(S)))
<1>1. Current(S) \in Transport
  BY CurrentType DEF Dropping
<1>2. Closable(S)
  BY DEF Dropping, Closable, Current
<1>3. /\ R \in Client /\ CurrentBecomes(S, R, Q) /\ Disconnected(S, R)
      /\ R.heartbeatTimer = (S.heartbeatTimer /\ Current(S).kind # "xhr-polling")
  BY <1>2, OnDisconnectWay DEF Dropping
<1>4. /\ Q \in Transport /\ Q.kind = Current(S).kind /\ Q.posts = Current(S).posts
      /\ ~Q.closeTimer
      /\ Q.ready = IF Current(S).kind = "xhr-polling" \/ Current(S).ready = "closed"
                   THEN "closed" ELSE "closing"
  BY <1>1, ClosedType, UntimedType
<1>. HIDE DEF R, Q
<1>5. R.transport = S.transport /\ R.tr = [S.tr EXCEPT ![S.transport] = Q]
  BY <1>3 DEF CurrentBecomes, SameErrand
<1>6. OthersRest(R) /\ Current(R) = Q
  BY <1>4, <1>5, CurrentChanges DEF Dropping
<1>7. Steady(R)
  BY <1>3 DEF Dropping, Steady, CurrentBecomes, SameErrand, Disconnected
<1>8. Down(R)
  BY <1>3, <1>4, <1>6 DEF Dropping, Down, CurrentBecomes, SameErrand, Disconnected, PostsOfPolling
<1>. QED BY <1>3, <1>6, <1>7, <1>8 DEF Calm, R

(* The state of a transport object in Transport.onClose. *)
Shut(P) ==
    [P EXCEPT !.isOpen = FALSE, !.closeTimer = FALSE,
              !.ready = IF P.kind = "xhr-polling" THEN "closed" ELSE P.ready]

(* A transport object that was shut is one. *)
LEMMA ShutType ==
    ASSUME NEW P \in Transport
    PROVE  /\ Shut(P) \in Transport
           /\ Shut(P).kind = P.kind /\ Shut(P).posts = P.posts
           /\ ~Shut(P).closeTimer
           /\ Shut(P).ready = IF P.kind = "xhr-polling" THEN "closed" ELSE P.ready
BY DEF Shut, Transport

(* A socket whose current transport has ended. *)
Ending(S) ==
    /\ Steady(S) /\ OthersRest(S)
    /\ S.transport # null /\ S.handshakes = 0
    /\ PostsOfPolling(Current(S))
    /\ S.connected \/ S.connecting => S.transports # << >>
    /\ S.connected =>
          /\ ~S.connecting /\ ~S.reconnecting /\ ~S.connectTimer
          /\ Current(S).ready \in {"open", "closed"}
    /\ S.connecting =>
          /\ Current(S).posts = 0
          /\ Current(S).kind = "xhr-polling" \/ Current(S).ready = "closed"
    /\ ~S.connected /\ ~S.connecting =>
          /\ Current(S).ready \in {"idle", "closed", "closing"}
          /\ S.connectTimer =>
                /\ S.transports # << >>
                /\ Current(S).ready = "closed" /\ Current(S).posts = 0

(* Transport.onClose of such a socket ends in the phase Down. *)
LEMMA EndingDown ==
    ASSUME NEW S \in Client, Ending(S)
    PROVE  LET R == onClose(S, S.transport) IN
           R \in Client /\ Calm(R) /\ Down(R)
<1>. DEFINE t == S.transport
            P == Shut(Current(S))
            H == [S EXCEPT !.heartbeatTimer = FALSE]
            T == [H EXCEPT !.tr[t] = P]
<1>1. t # null /\ t \in Slots /\ Current(S) \in Transport
  BY CurrentType DEF Ending
<1>2. /\ P \in Transport /\ P.kind = Current(S).kind /\ P.posts = Current(S).posts
      /\ ~P.closeTimer
      /\ P.ready = IF Current(S).kind = "xhr-polling" THEN "closed" ELSE Current(S).ready
  BY <1>1, ShutType
<1>3. H \in Client /\ H.heartbeatTimer = FALSE /\ H.tr = S.tr
  BY DEF Client
<1>4. SameErrand(S, H) /\ SameCourse(S, H) /\ H.doBuffer = S.doBuffer
  BY DEF SameErrand, SameCourse, Client
<1>5. onClose(S, t) = onDisconnect(T)
  <2>1. P = [H.tr[t] EXCEPT !.isOpen = FALSE, !.closeTimer = FALSE,
                            !.ready = IF polling(S, t) THEN "closed" ELSE S.tr[t].ready]
    BY <1>3 DEF Shut, Current, polling
  <2>2. onClose(S, t) = onDisconnect([H EXCEPT !.tr[t] =
            [@ EXCEPT !.isOpen = FALSE, !.closeTimer = FALSE,
                      !.ready = IF polling(S, t) THEN "closed" ELSE S.tr[t].ready]])
    BY DEF onClose
  <2>. HIDE DEF H, P
  <2>. QED BY <2>1, <2>2
<1>. HIDE DEF H, P
<1>6. /\ T \in Client /\ SameWay(H, T) /\ T.doBuffer = H.doBuffer
      /\ T.tr = [H.tr EXCEPT ![t] = P]
  BY <1>1, <1>2, <1>3, SlotWay
<1>. HIDE DEF T
<1>7. /\ SameErrand(S, T) /\ SameCourse(S, T) /\ T.heartbeatTimer = FALSE
      /\ T.doBuffer = S.doBuffer
  BY <1>3, <1>4, <1>6 DEF SameWay, SameErrand, SameCourse
<1>8. OthersRest(T) /\ Current(T) = P
  BY <1>1, <1>2, <1>3, <1>6, <1>7, CurrentChanges DEF Ending, SameErrand
<1>9. Steady(T)
  BY <1>7 DEF Ending, Steady, SameErrand, SameCourse
<1>10. CASE S.connected \/ S.connecting
  <2>1. Dropping(T)
    BY <1>2, <1>7, <1>8, <1>9, <1>10
       DEF Ending, Dropping, PostsOfPolling, SameErrand, SameCourse
  <2>. QED BY <1>5, <1>6, <2>1, DroppingDown
<1>11. CASE ~S.connected /\ ~S.connecting
  <2>1. /\ onDisconnect(T) \in Client /\ SameWay(T, onDisconnect(T))
        /\ OnlyBuffering(T, T.doBuffer, onDisconnect(T))
    BY <1>6, <1>7, <1>11, OnDisconnectIdle DEF SameCourse
  <2>2. Down(T)
    BY <1>2, <1>7, <1>8, <1>11 DEF Ending, Down, PostsOfPolling, SameErrand, SameCourse
  <2>3. Calm(onDisconnect(T)) /\ Down(onDisconnect(T))
    BY <1>8, <1>9, <2>1, <2>2
       DEF Calm, Steady, Down, OthersRest, Current, PostsOfPolling, OnlyBuffering,
           SameWay, SameErrand, SameCourse
  <2>. QED BY <1>5, <2>1, <2>3
<1>. QED BY <1>10, <1>11

-----------------------------------------------------------------------------
(* The steps of a socket whose attempts do not overlap. *)

(* What does not touch the connection keeps the phase; messages may come   *)
(* to wait while the socket is not connected, or buffers.                  *)
LEMMA SameWayCalm ==
    ASSUME NEW S \in Client, Calm(S), NEW R, SameWay(S, R),
           R.tr = S.tr, R.doBuffer = S.doBuffer,
           S.connected /\ ~S.doBuffer => R.buffer = S.buffer
    PROVE  Calm(R)
<1>1. Current(R) = Current(S) /\ OthersRest(R)
  BY DEF SameWay, SameErrand, Current, Calm, OthersRest
<1>2. Steady(R)
  BY DEF SameWay, SameErrand, SameCourse, Calm, Steady
<1>3. Shaking(S) => Shaking(R)
  BY <1>1 DEF SameWay, SameErrand, SameCourse, Shaking
<1>4. Opening(S) => Opening(R)
  BY <1>1 DEF SameWay, SameErrand, SameCourse, Opening
<1>5. Up(S) => Up(R)
  BY <1>1 DEF SameWay, SameErrand, SameCourse, Up, PostsOfPolling
<1>6. Down(S) => Down(R)
  BY <1>1 DEF SameWay, SameErrand, SameCourse, Down, PostsOfPolling
<1>. QED BY <1>1, <1>2, <1>3, <1>4, <1>5, <1>6 DEF Calm

(* The current transport object takes messages, and what waits in the      *)
(* buffer waits for its post.                                              *)
Sending(S) ==
    /\ S.transport # null
    /\ Current(S).ready = "open" /\ Current(S).isOpen /\ Current(S).greeted
    /\ PostsOfPolling(Current(S))
    /\ S.doBuffer => Current(S).posts > 0
    /\ ~S.doBuffer => S.buffer = << >>

(* setBuffer(false) on a connection leaves no message waiting but for a    *)
(* post, whether other posts are under way or not.                         *)
LEMMA FlushSends ==
    ASSUME NEW S \in Client, OthersRest(S), S.connected, S.transport # null,
           Current(S).ready = "open", Current(S).isOpen, Current(S).greeted,
           PostsOfPolling(Current(S))
    PROVE  LET R == setBuffer(S, FALSE) IN
           R \in Client /\ SameWay(S, R) /\ OthersRest(R) /\ Sending(R)
<1>. DEFINE R == setBuffer(S, FALSE)
<1>1. R \in Client /\ SameWay(S, R)
      /\ (Flushes(S, FALSE) => FlushedTo(S, R))
      /\ (~Flushes(S, FALSE) => OnlyBuffering(S, FALSE, R))
  BY SetBufferWay
<1>. HIDE DEF R
<1>2. CASE Flushes(S, FALSE) /\ Current(S).kind = "xhr-polling"
  <2>1. /\ R.buffer = << >> /\ R.doBuffer /\ OnePostMore(S) \in Transport
        /\ R.tr = [S.tr EXCEPT ![S.transport] = OnePostMore(S)]
        /\ R.transport = S.transport
    BY <1>1, <1>2 DEF FlushedTo, SameWay, SameErrand
  <2>2. OthersRest(R) /\ Current(R) = OnePostMore(S)
    BY <2>1, CurrentChanges
  <2>3. /\ Current(R).posts > 0 /\ Current(R).kind = "xhr-polling"
        /\ Current(R).ready = "open" /\ Current(R).isOpen /\ Current(R).greeted
    <3>1. Current(S).posts \in Nat
      BY CurrentType DEF Transport
    <3>. QED BY <1>2, <2>2, <3>1, OnePostMoreType
  <2>4. Sending(R)
    BY <1>1, <2>1, <2>3 DEF Sending, PostsOfPolling, SameWay, SameErrand
  <2>. QED BY <1>1, <2>2, <2>4 DEF R
<1>3. CASE ~(Flushes(S, FALSE) /\ Current(S).kind = "xhr-polling")
  <2>1. R.tr = S.tr /\ ~R.doBuffer
    BY <1>1, <1>3 DEF FlushedTo, OnlyBuffering
  <2>2. R.buffer = << >>
    <3>1. ~Throws(S)
      BY DEF Throws, Current, polling
    <3>. QED BY <1>1, <3>1 DEF FlushedTo, OnlyBuffering, Flushes
  <2>3. OthersRest(R) /\ Current(R) = Current(S)
    BY <1>1, <2>1 DEF OthersRest, Current, SameWay, SameErrand
  <2>4. Sending(R)
    BY <1>1, <2>1, <2>2, <2>3 DEF Sending, PostsOfPolling, SameWay, SameErrand
  <2>. QED BY <1>1, <2>3, <2>4 DEF R
<1>. QED BY <1>2, <1>3

(* setBuffer in the phase Down does not flush. *)
LEMMA BufferDown ==
    ASSUME NEW S \in Client, Calm(S), Down(S), NEW v \in BOOLEAN
    PROVE  LET R == setBuffer(S, v) IN R \in Client /\ Calm(R) /\ Down(R)
<1>. DEFINE R == setBuffer(S, v)
<1>1. /\ R \in Client /\ SameWay(S, R)
      /\ R.doBuffer = v /\ R.tr = S.tr
  BY SetBufferWay DEF Flushes, OnlyBuffering, Down
<1>. HIDE DEF R
<1>2. Current(R) = Current(S) /\ OthersRest(R)
  BY <1>1 DEF SameWay, SameErrand, Current, Calm, OthersRest
<1>3. Steady(R)
  BY <1>1 DEF SameWay, SameErrand, SameCourse, Calm, Steady
<1>4. Down(R)
  BY <1>1, <1>2 DEF SameWay, SameErrand, SameCourse, Down, PostsOfPolling
<1>. QED BY <1>1, <1>2, <1>3, <1>4 DEF Calm, R

(* The page sends. *)
LEMMA SendCalm == ASSUME IInv, Calm(io), Send PROVE Calm(io')
<1>. DEFINE m == Len(io.sent) + 1
            P == packet(io, m)
            q == Append(io.sent, m)
            b == Append(io.buffer, m)
            R == [P EXCEPT !.sent = q]
<1>1. io \in Client /\ Flushed(io)
  BY DEF IInv, Sound
<1>2. io.sent \in Seq(Nat) /\ io.buffer \in Seq(Nat) /\ m \in Nat
  BY <1>1 DEF Client
<1>3. P \in Client /\ P.sent = io.sent
  BY <1>1, <1>2, PacketKeeps DEF Send
<1>4. io' = R
  BY <1>3 DEF Send, Does
<1>5. P = IF io.connected /\ ~io.doBuffer THEN payload(io, <<m>>) ELSE [io EXCEPT !.buffer = b]
  BY DEF packet
<1>. HIDE DEF P, q, b, m
<1>6. SameErrand(P, R) /\ SameCourse(P, R) /\ R.heartbeatTimer = P.heartbeatTimer
  BY <1>3 DEF SameErrand, SameCourse, Client
<1>7. R.doBuffer = P.doBuffer /\ R.buffer = P.buffer /\ R.tr = P.tr
  BY <1>3 DEF Client
<1>. HIDE DEF R
<1>8. CASE ~(io.connected /\ ~io.doBuffer)
  <2>1. SameErrand(io, P) /\ SameCourse(io, P) /\ P.heartbeatTimer = io.heartbeatTimer
    BY <1>1, <1>5, <1>8 DEF SameErrand, SameCourse, Client
  <2>2. P.doBuffer = io.doBuffer /\ P.tr = io.tr
    BY <1>1, <1>5, <1>8 DEF Client
  <2>3. SameWay(io, R)
    BY <1>6, <2>1 DEF SameWay, SameErrand, SameCourse
  <2>4. R.tr = io.tr /\ R.doBuffer = io.doBuffer
    BY <1>7, <2>2
  <2>. QED BY <1>1, <1>4, <1>8, <2>3, <2>4, SameWayCalm
<1>9. CASE io.connected /\ ~io.doBuffer
  <2>1. Up(io) /\ io.transport # null /\ io.buffer = << >> /\ OthersRest(io) /\ Steady(io)
        /\ Current(io) \in Transport
    BY <1>1, <1>9, CurrentType DEF Calm, Shaking, Opening, Up, Down
  <2>2. <<m>> \in Seq(Nat)
    BY <1>2
  <2>3. /\ SameWay(io, P) /\ P.buffer = io.buffer
        /\ Current(io).kind = "xhr-polling" =>
              /\ P.doBuffer
              /\ OnePostMore(io) \in Transport
              /\ P.tr = [io.tr EXCEPT ![io.transport] = OnePostMore(io)]
        /\ Current(io).kind # "xhr-polling" => P.doBuffer = io.doBuffer /\ P.tr = io.tr
    BY <1>1, <1>5, <1>9, <2>1, <2>2, PayloadWay
  <2>4. SameWay(io, R)
    BY <1>6, <2>3 DEF SameWay, SameErrand, SameCourse
  <2>5. CASE Current(io).kind # "xhr-polling"
    <3>1. R.tr = io.tr /\ R.doBuffer = io.doBuffer /\ R.buffer = io.buffer
      BY <1>7, <2>3, <2>5
    <3>. QED BY <1>1, <1>4, <2>4, <3>1, SameWayCalm
  <2>6. CASE Current(io).kind = "xhr-polling"
    <3>1. R.doBuffer /\ R.tr = [io.tr EXCEPT ![io.transport] = OnePostMore(io)]
      BY <1>7, <2>3, <2>6
    <3>2. OthersRest(R) /\ Current(R) = OnePostMore(io)
      BY <1>1, <2>1, <2>3, <2>4, <2>6, <3>1, CurrentChanges DEF SameWay, SameErrand
    <3>3. Current(io).posts \in Nat
      BY <2>1 DEF Transport
    <3>4. /\ Current(R).posts > 0 /\ Current(R).kind = "xhr-polling"
          /\ Current(R).ready = "open" /\ Current(R).isOpen /\ Current(R).greeted
      BY <1>1, <2>1, <2>6, <3>2, <3>3, OnePostMoreType DEF Up
    <3>5. Up(R)
      BY <2>1, <2>4, <3>1, <3>4 DEF Up, PostsOfPolling, SameWay, SameErrand, SameCourse
    <3>6. Steady(R)
      BY <2>1, <2>4 DEF Steady, SameWay, SameErrand, SameCourse
    <3>. QED BY <1>4, <3>2, <3>5, <3>6 DEF Calm
  <2>. QED BY <2>5, <2>6
<1>. QED BY <1>8, <1>9

(* The GET of the polling transport fails. *)
LEMMA GetFailsCalm ==
    ASSUME IInv, Calm(io), NEW t \in Slots, GetFails(t) PROVE Calm(io')
<1>1. io \in Client
  BY DEF IInv, Sound
<1>2. io' = onClose(io, t) /\ io.tr[t].ready = "open" /\ io.tr[t].kind = "xhr-polling"
  BY DEF GetFails, DoesUnless, polling
<1>3. io.transport = t /\ io.transport # null /\ Current(io) = io.tr[t]
  BY <1>1, <1>2, InUseIsCurrent DEF Calm, Resting
<1>4. Ending(io)
  BY <1>2, <1>3
     DEF Ending, Calm, Shaking, Opening, Up, Down, Resting, PostsOfPolling
<1>. QED BY <1>1, <1>2, <1>3, <1>4, EndingDown

(* The websocket closes. *)
LEMMA WebsocketClosesCalm ==
    ASSUME IInv, Calm(io), NEW t \in Slots, WebsocketCloses(t) PROVE Calm(io')
<1>. DEFINE P == [io.tr[t] EXCEPT !.ready = "closed"]
            S == [io EXCEPT !.tr[t] = P]
            C == onClose(S, t)
<1>1. io \in Client /\ io.tr[t] \in Transport
  BY TransportType DEF IInv, Sound
<1>2. io.tr[t].ready \in {"connecting", "open", "closing"} /\ io.tr[t].kind # "xhr-polling"
  BY DEF WebsocketCloses, polling
<1>3. io.transport = t /\ io.transport # null /\ Current(io) = io.tr[t]
  BY <1>1, <1>2, InUseIsCurrent DEF Calm, Resting
<1>4. P \in Transport /\ P.ready = "closed" /\ P.posts = Current(io).posts /\ P.kind = Current(io).kind
  BY <1>1, <1>3 DEF Transport
<1>5. io' \in {C, setBuffer(C, TRUE)}
  BY DEF WebsocketCloses, DoesUnless
<1>. HIDE DEF P
<1>6. /\ S \in Client /\ SameWay(io, S) /\ S.doBuffer = io.doBuffer
      /\ S.tr = [io.tr EXCEPT ![t] = P]
  BY <1>1, <1>4, SlotWay
<1>. HIDE DEF S
<1>7. OthersRest(S) /\ Current(S) = P /\ S.transport = t
  BY <1>1, <1>3, <1>4, <1>6, CurrentChanges DEF Calm, SameWay, SameErrand
<1>8. Steady(S)
  BY <1>6 DEF Calm, Steady, SameWay, SameErrand, SameCourse
<1>9. Ending(S)
  BY <1>2, <1>3, <1>4, <1>6, <1>7, <1>8
     DEF Ending, Calm, Shaking, Opening, Up, Down, Resting, PostsOfPolling,
         SameWay, SameErrand, SameCourse
<1>10. C \in Client /\ Calm(C) /\ Down(C)
  BY <1>6, <1>7, <1>9, EndingDown
<1>. HIDE DEF C
<1>11. Calm(setBuffer(C, TRUE))
  BY <1>10, BufferDown
<1>. QED BY <1>5, <1>10, <1>11

(* A post fails. *)
LEMMA PostFailsCalm ==
    ASSUME IInv, Calm(io), NEW t \in Slots, PostFails(t) PROVE Calm(io')
<1>. DEFINE n == io.tr[t].posts - 1
            P == [io.tr[t] EXCEPT !.posts = n]
            S == [io EXCEPT !.tr[t] = P]
<1>1. io \in Client /\ io.tr[t] \in Transport
  BY TransportType DEF IInv, Sound
<1>2. io.tr[t].posts > 0 /\ io' = onClose(S, t)
  BY DEF PostFails, DoesUnless
<1>3. io.transport = t /\ io.transport # null /\ Current(io) = io.tr[t]
  BY <1>1, <1>2, InUseIsCurrent DEF Calm, Resting
<1>4. io.tr[t].kind = "xhr-polling" /\ (Up(io) \/ Down(io))
  BY <1>1, <1>2, <1>3
     DEF Calm, Shaking, Opening, Up, Down, Resting, PostsOfPolling, Transport
<1>5. n \in Nat
  BY <1>1, <1>2 DEF Transport
<1>. HIDE DEF n
<1>6. /\ P \in Transport /\ P.kind = "xhr-polling"
      /\ P.ready = Current(io).ready
  BY <1>1, <1>3, <1>4, <1>5 DEF Transport
<1>. HIDE DEF P
<1>7. /\ S \in Client /\ SameWay(io, S) /\ S.tr = [io.tr EXCEPT ![t] = P]
  BY <1>1, <1>6, SlotWay
<1>. HIDE DEF S
<1>8. OthersRest(S) /\ Current(S) = P /\ S.transport = t
  BY <1>1, <1>3, <1>6, <1>7, CurrentChanges DEF Calm, SameWay, SameErrand
<1>9. Steady(S)
  BY <1>7 DEF Calm, Steady, SameWay, SameErrand, SameCourse
<1>10. Ending(S)
  BY <1>2, <1>3, <1>4, <1>6, <1>7, <1>8, <1>9
     DEF Ending, Up, Down, PostsOfPolling, SameWay, SameErrand, SameCourse
<1>. QED BY <1>2, <1>7, <1>8, <1>10, EndingDown

(* A post is answered, on a connection or after it. *)
LEMMA PostDoneCalm ==
    ASSUME IInv, Calm(io), NEW t \in Slots, PostDone(t) PROVE Calm(io')
<1>. DEFINE n == io.tr[t].posts - 1
            P == [io.tr[t] EXCEPT !.posts = n]
            S == [io EXCEPT !.tr[t] = P]
<1>1. io \in Client /\ io.tr[t] \in Transport
  BY TransportType DEF IInv, Sound
<1>2. io.tr[t].posts > 0 /\ io' = setBuffer(S, FALSE)
  BY DEF PostDone, Does
<1>3. io.transport = t /\ io.transport # null /\ Current(io) = io.tr[t]
  BY <1>1, <1>2, InUseIsCurrent DEF Calm, Resting
<1>4. io.tr[t].kind = "xhr-polling" /\ (Up(io) \/ Down(io))
  BY <1>1, <1>2, <1>3
     DEF Calm, Shaking, Opening, Up, Down, Resting, PostsOfPolling, Transport
<1>5. n \in Nat
  BY <1>1, <1>2 DEF Transport
<1>. HIDE DEF n
<1>6. /\ P \in Transport /\ P.kind = "xhr-polling" /\ P.ready = Current(io).ready
      /\ P.isOpen = Current(io).isOpen /\ P.greeted = Current(io).greeted
      /\ P.closeTimer = Current(io).closeTimer
  BY <1>1, <1>3, <1>4, <1>5 DEF Transport
<1>. HIDE DEF P
<1>7. /\ S \in Client /\ SameWay(io, S) /\ S.tr = [io.tr EXCEPT ![t] = P]
  BY <1>1, <1>6, SlotWay
<1>. HIDE DEF S
<1>8. OthersRest(S) /\ Current(S) = P /\ S.transport = t
  BY <1>1, <1>3, <1>6, <1>7, CurrentChanges DEF Calm, SameWay, SameErrand
<1>9. Steady(S)
  BY <1>7 DEF Calm, Steady, SameWay, SameErrand, SameCourse
<1>10. CASE Up(io)
  <2>. DEFINE R == setBuffer(S, FALSE)
  <2>1. /\ S.connected /\ S.transport # null
        /\ Current(S).ready = "open" /\ Current(S).isOpen /\ Current(S).greeted
        /\ PostsOfPolling(Current(S))
    BY <1>3, <1>6, <1>7, <1>8, <1>10 DEF Up, PostsOfPolling, SameWay, SameCourse
  <2>2. SameWay(S, R) /\ OthersRest(R) /\ Sending(R)
    BY <1>7, <1>8, <2>1, FlushSends
  <2>. HIDE DEF R
  <2>3. Steady(R)
    BY <1>9, <2>2 DEF Steady, SameWay, SameErrand, SameCourse
  <2>4. Up(R)
    BY <1>7, <1>10, <2>2 DEF Up, Sending, SameWay, SameErrand, SameCourse
  <2>. QED BY <1>2, <2>2, <2>3, <2>4 DEF Calm, R
<1>11. CASE Down(io)
  <2>1. Down(S)
    BY <1>2, <1>3, <1>6, <1>7, <1>8, <1>11
       DEF Down, PostsOfPolling, SameWay, SameErrand, SameCourse
  <2>. QED BY <1>2, <1>6, <1>7, <1>8, <1>9, <2>1, BufferDown DEF Calm
<1>. QED BY <1>4, <1>10, <1>11

(* The websocket opens, in an attempt to connect. *)
LEMMA WebsocketOpensCalm ==
    ASSUME IInv, Calm(io), NEW t \in Slots, WebsocketOpens(t) PROVE Calm(io')
<1>. DEFINE P == [io.tr[t] EXCEPT !.ready = "open", !.isOpen = TRUE, !.closeTimer = FALSE]
            S == [io EXCEPT !.tr[t] = P]
            R == setBuffer(S, FALSE)
<1>1. io \in Client /\ io.tr[t] \in Transport
  BY TransportType DEF IInv, Sound
<1>2. io.tr[t].ready = "connecting" /\ io' = R
  BY DEF WebsocketOpens, Does
<1>3. io.transport = t /\ io.transport # null /\ Current(io) = io.tr[t]
  BY <1>1, <1>2, InUseIsCurrent DEF Calm, Resting
<1>4. Opening(io)
  BY <1>2, <1>3 DEF Calm, Shaking, Up, Down, Resting
<1>5. /\ P \in Transport /\ P.posts = Current(io).posts /\ P.ready = "open"
      /\ P.isOpen /\ P.greeted = Current(io).greeted /\ ~P.closeTimer
  BY <1>1, <1>3 DEF Transport
<1>. HIDE DEF P
<1>6. /\ S \in Client /\ SameWay(io, S) /\ S.tr = [io.tr EXCEPT ![t] = P]
  BY <1>1, <1>5, SlotWay
<1>. HIDE DEF S
<1>7. OthersRest(S) /\ Current(S) = P /\ S.transport = t
  BY <1>1, <1>3, <1>5, <1>6, CurrentChanges DEF Calm, SameWay, SameErrand
<1>8. SameWay(S, R) /\ OnlyBuffering(S, FALSE, R)
  BY <1>4, <1>6, SetBufferWay DEF Flushes, Opening, SameWay, SameCourse
<1>. HIDE DEF R
<1>9. OthersRest(R) /\ Current(R) = P
  BY <1>7, <1>8 DEF OthersRest, Current, OnlyBuffering, SameWay, SameErrand
<1>10. Steady(R)
  BY <1>6, <1>8 DEF Calm, Steady, SameWay, SameErrand, SameCourse
<1>11. Opening(R)
  BY <1>4, <1>5, <1>6, <1>8, <1>9 DEF Opening, OnlyBuffering, SameWay, SameErrand, SameCourse
<1>. QED BY <1>2, <1>9, <1>10, <1>11 DEF Calm

(* A new state of the current transport object that is as open, greeted    *)
(* and busy as before keeps the phase.                                     *)
LEMMA TouchedCalm ==
    ASSUME NEW S \in Client, Calm(S), NEW P \in Transport, NEW R, S.transport # null,
           P.ready = Current(S).ready, P.posts = Current(S).posts, P.kind = Current(S).kind,
           P.isOpen = Current(S).isOpen, P.greeted = Current(S).greeted,
           P.closeTimer => Current(S).closeTimer \/ Up(S),
           SameErrand(S, R), SameCourse(S, R),
           R.heartbeatTimer = S.heartbeatTimer \/ Up(S),
           R.doBuffer = S.doBuffer, R.buffer = S.buffer,
           R.tr = [S.tr EXCEPT ![S.transport] = P]
    PROVE  Calm(R)
<1>1. OthersRest(R) /\ Current(R) = P /\ R.transport = S.transport
  BY CurrentChanges DEF Calm, SameErrand
<1>2. Steady(R)
  BY DEF SameErrand, SameCourse, Calm, Steady
<1>3. Up(S) => Up(R)
  <2>1. Up(S) => PostsOfPolling(P)
    BY DEF Up, PostsOfPolling
  <2>. QED BY <1>1, <2>1 DEF SameErrand, SameCourse, Up
<1>4. ~Up(S) /\ Shaking(S) => Shaking(R)
  BY <1>1 DEF SameErrand, SameCourse, Shaking, Resting
<1>5. ~Up(S) /\ Opening(S) => Opening(R)
  BY <1>1 DEF SameErrand, SameCourse, Opening
<1>6. ~Up(S) /\ Down(S) => Down(R)
  BY <1>1 DEF SameErrand, SameCourse, Down, PostsOfPolling
<1>. QED BY <1>1, <1>2, <1>3, <1>4, <1>5, <1>6 DEF Calm

(* The network drops. *)
LEMMA CutCalm ==
    ASSUME IInv, Calm(io), NEW t \in Slots, Cut(t) PROVE Calm(io')
<1>. DEFINE P == [io.tr[t] EXCEPT !.link = FALSE]
            R == [io EXCEPT !.tr[t] = P]
<1>1. io \in Client /\ io.tr[t] \in Transport
  BY TransportType DEF IInv, Sound
<1>2. io.tr[t].ready \in {"connecting", "open"} /\ io' = R
  BY DEF Cut, DoesUnless
<1>3. io.transport = t /\ io.transport # null /\ Current(io) = io.tr[t]
  BY <1>1, <1>2, InUseIsCurrent DEF Calm, Resting
<1>4. /\ P \in Transport /\ P.ready = Current(io).ready /\ P.posts = Current(io).posts
      /\ P.kind = Current(io).kind /\ P.isOpen = Current(io).isOpen
      /\ P.greeted = Current(io).greeted /\ P.closeTimer = Current(io).closeTimer
  BY <1>1, <1>3 DEF Transport
<1>. HIDE DEF P
<1>5. /\ SameWay(io, R) /\ R.doBuffer = io.doBuffer /\ R.buffer = io.buffer
      /\ R.tr = [io.tr EXCEPT ![io.transport] = P]
  BY <1>1, <1>3, <1>4, SlotWay
<1>. HIDE DEF R
<1>. QED BY <1>1, <1>2, <1>3, <1>4, <1>5, TouchedCalm DEF SameWay

(* Socket.setHeartbeatTimeout, in all fields. *)
LEMMA SetHeartbeatWay ==
    ASSUME NEW S \in Client
    PROVE  LET R == setHeartbeatTimeout(S) IN
           /\ R \in Client /\ SameErrand(S, R) /\ SameCourse(S, R)
           /\ OnlyBuffering(S, S.doBuffer, R)
<1>. DEFINE h == S.transport # null => heartbeats(S, S.transport)
            R == [S EXCEPT !.heartbeatTimer = h]
<1>1. h \in BOOLEAN /\ setHeartbeatTimeout(S) = R
  BY DEF setHeartbeatTimeout, heartbeats, polling
<1>. HIDE DEF h
<1>2. R \in Client /\ SameErrand(S, R)
  BY <1>1 DEF SameErrand, Client
<1>3. SameCourse(S, R) /\ OnlyBuffering(S, S.doBuffer, R)
  BY DEF SameCourse, OnlyBuffering, Client
<1>. QED BY <1>1, <1>2, <1>3

(* The current transport object after the timers were set anew. *)
Timed(S) ==
    [Current(S) EXCEPT !.closeTimer = S.connected \/ S.connecting \/ S.reconnecting]

(* A transport object with its timers set is one. *)
LEMMA TimedType ==
    ASSUME NEW S \in Client, S.transport # null
    PROVE  /\ Timed(S) \in Transport
           /\ Timed(S).kind = Current(S).kind /\ Timed(S).ready = Current(S).ready
           /\ Timed(S).posts = Current(S).posts /\ Timed(S).isOpen = Current(S).isOpen
           /\ Timed(S).greeted = Current(S).greeted
<1>. DEFINE c == S.connected \/ S.connecting \/ S.reconnecting
<1>1. Current(S) \in Transport /\ c \in BOOLEAN
  BY CurrentType
<1>2. Timed(S) = [Current(S) EXCEPT !.closeTimer = c]
  BY DEF Timed
<1>. HIDE DEF c
<1>. QED BY <1>1, <1>2 DEF Transport

(* Transport.onData of the current transport, in all fields. *)
LEMMA OnDataWay ==
    ASSUME NEW S \in Client, S.transport # null
    PROVE  LET R == onData(S, S.transport) IN
           /\ R \in Client
           /\ CurrentBecomes(S, R, Timed(S))
           /\ SameCourse(S, R)
<1>. DEFINE t == S.transport
            P == Timed(S)
            T == [S EXCEPT !.tr[t] = P]
            R == setHeartbeatTimeout(T)
<1>1. t \in Slots /\ P \in Transport
  BY CurrentType, TimedType
<1>2. onData(S, t) = R
  BY DEF onData, Timed, Current
<1>. HIDE DEF P
<1>3. /\ T \in Client /\ SameWay(S, T) /\ T.doBuffer = S.doBuffer /\ T.buffer = S.buffer
      /\ T.tr = [S.tr EXCEPT ![t] = P]
  BY <1>1, SlotWay
<1>. HIDE DEF T
<1>4. /\ R \in Client /\ SameErrand(T, R) /\ SameCourse(T, R)
      /\ OnlyBuffering(T, T.doBuffer, R)
  BY <1>3, SetHeartbeatWay
<1>. HIDE DEF R
<1>5. R \in Client /\ CurrentBecomes(S, R, P) /\ SameCourse(S, R)
  BY <1>3, <1>4 DEF CurrentBecomes, OnlyBuffering, SameWay, SameErrand, SameCourse
<1>. QED BY <1>2, <1>5 DEF P

(* A packet on the connection sets the timers anew. *)
LEMMA ReceivedCalm ==
    ASSUME IInv, Calm(io), NEW t \in Slots, Received(t) PROVE Calm(io')
<1>1. io \in Client
  BY DEF IInv, Sound
<1>2. io.tr[t].ready = "open" /\ io.tr[t].greeted /\ io' = onData(io, t)
  BY DEF Received, Audible, Does
<1>3. io.transport = t /\ io.transport # null /\ Current(io) = io.tr[t]
  BY <1>1, <1>2, InUseIsCurrent DEF Calm, Resting
<1>4. Up(io)
  BY <1>2, <1>3 DEF Calm, Shaking, Opening, Down, Resting
<1>5. CurrentBecomes(io, io', Timed(io)) /\ SameCourse(io, io')
  BY <1>1, <1>2, <1>3, OnDataWay
<1>. QED BY <1>1, <1>3, <1>4, <1>5, TimedType, TouchedCalm DEF CurrentBecomes

(* A heartbeat on the connection is one post more at most, and the socket  *)
(* buffers then.                                                           *)
LEMMA HeartbeatCalm ==
    ASSUME IInv, Calm(io), NEW t \in Slots, Heartbeat(t) PROVE Calm(io')
<1>. DEFINE D == onData(io, t)
            P == post(D, t)
<1>1. io \in Client
  BY DEF IInv, Sound
<1>2. io.tr[t].ready = "open" /\ io.tr[t].greeted
      /\ io' = (IF polling(D, t) THEN P ELSE D)
  BY DEF Heartbeat, Audible, Does, onHeartbeat
<1>3. io.transport = t /\ io.transport # null /\ Current(io) = io.tr[t]
  BY <1>1, <1>2, InUseIsCurrent DEF Calm, Resting
<1>4. Up(io)
  BY <1>2, <1>3 DEF Calm, Shaking, Opening, Down, Resting
<1>5. D \in Client /\ CurrentBecomes(io, D, Timed(io)) /\ SameCourse(io, D)
  BY <1>1, <1>3, OnDataWay
<1>. HIDE DEF D
<1>6. Calm(D)
  BY <1>1, <1>3, <1>4, <1>5, TimedType, TouchedCalm DEF CurrentBecomes
<1>7. D.transport = t /\ Up(D)
  <2>1. D.transport = t /\ D.connected
    BY <1>3, <1>4, <1>5 DEF CurrentBecomes, SameErrand, SameCourse, Up
  <2>. QED BY <1>6, <2>1 DEF Calm, Shaking, Opening, Down
<1>8. CASE polling(D, t)
  <2>1. /\ SameWay(D, P) /\ P.doBuffer
        /\ P.tr = [D.tr EXCEPT ![D.transport] = OnePostMore(D)]
    BY <1>3, <1>5, <1>7, PostWay
  <2>2. io' = P
    BY <1>2, <1>8
  <2>. HIDE DEF P
  <2>3. /\ OnePostMore(D) \in Transport
        /\ OnePostMore(D).posts > 0 /\ OnePostMore(D).kind = "xhr-polling"
        /\ OnePostMore(D).ready = "open" /\ OnePostMore(D).isOpen
        /\ OnePostMore(D).greeted
    <3>1. Current(D) \in Transport /\ Current(D).kind = "xhr-polling"
      BY <1>3, <1>5, <1>7, <1>8, CurrentType DEF polling, Current
    <3>2. Current(D).posts \in Nat
      BY <3>1 DEF Transport
    <3>. QED BY <1>3, <1>5, <1>7, <3>1, <3>2, OnePostMoreType DEF Up
  <2>4. OthersRest(P) /\ Current(P) = OnePostMore(D)
    BY <1>3, <1>5, <1>6, <1>7, <2>1, <2>3, CurrentChanges DEF Calm, SameWay, SameErrand
  <2>5. Up(P)
    BY <1>7, <2>1, <2>3, <2>4 DEF Up, PostsOfPolling, SameWay, SameErrand, SameCourse
  <2>6. Steady(P)
    BY <1>6, <2>1 DEF Calm, Steady, SameWay, SameErrand, SameCourse
  <2>. QED BY <2>2, <2>4, <2>5, <2>6 DEF Calm
<1>9. CASE ~polling(D, t)
  BY <1>2, <1>6, <1>9
<1>. QED BY <1>8, <1>9

(* The connect packet, in an attempt to connect: the socket is connected,  *)
(* and what has waited for that is on its way.                             *)
LEMMA ConnectedCalm ==
    ASSUME IInv, Calm(io), NEW t \in Slots, Connected(t) PROVE Calm(io')
<1>. DEFINE P == [io.tr[t] EXCEPT !.greeted = TRUE]
            S == [io EXCEPT !.tr[t] = P]
            D == onData(S, t)
            C == [D EXCEPT !.connected = TRUE, !.connecting = FALSE]
            F == setBuffer(C, FALSE)
            Z == reset(F)
            R == IF D.reconnecting THEN Z ELSE F
            O == [R EXCEPT !.connectTimer = FALSE, !.once = FALSE]
            E == [O EXCEPT !.told = "connect"]
<1>1. io \in Client /\ io.tr[t] \in Transport
  BY TransportType DEF IInv, Sound
<1>2. io.tr[t].ready = "open" /\ ~io.tr[t].greeted /\ io' = onConnect(D)
  BY DEF Connected, Audible, Does
<1>3. io.transport = t /\ io.transport # null /\ Current(io) = io.tr[t]
  BY <1>1, <1>2, InUseIsCurrent DEF Calm, Resting
<1>4. Opening(io)
  BY <1>2, <1>3 DEF Calm, Shaking, Up, Down, Resting
<1>5. /\ P \in Transport /\ P.posts = 0 /\ P.ready = "open"
      /\ P.isOpen /\ P.greeted /\ P.kind = Current(io).kind
  BY <1>1, <1>2, <1>3, <1>4 DEF Opening, Transport
<1>. HIDE DEF P
<1>6. /\ S \in Client /\ SameWay(io, S) /\ S.tr = [io.tr EXCEPT ![t] = P]
      /\ S.doBuffer = io.doBuffer
  BY <1>1, <1>5, SlotWay
<1>. HIDE DEF S
<1>7. OthersRest(S) /\ Current(S) = P /\ S.transport = t
  BY <1>1, <1>3, <1>5, <1>6, CurrentChanges DEF Calm, SameWay, SameErrand
<1>8. D \in Client /\ CurrentBecomes(S, D, Timed(S)) /\ SameCourse(S, D)
  BY <1>3, <1>6, <1>7, OnDataWay
<1>. HIDE DEF D
<1>9. OthersRest(D) /\ Current(D) = Timed(S) /\ D.transport = t
  BY <1>3, <1>6, <1>7, <1>8, TimedType, CurrentChanges DEF CurrentBecomes, SameErrand
<1>10. /\ Current(D).posts = 0 /\ Current(D).ready = "open" /\ Current(D).isOpen
       /\ Current(D).greeted
  BY <1>3, <1>5, <1>6, <1>7, <1>9, TimedType
<1>11. SameErrand(io, D) /\ SameCourse(io, D) /\ D.doBuffer = io.doBuffer
  BY <1>6, <1>8 DEF CurrentBecomes, SameWay, SameErrand, SameCourse
<1>12. ~D.connected /\ ~D.doBuffer /\ D.once /\ ~Throws(D)
  <2>1. D.transport # null /\ D.tr[D.transport].ready = "open"
    BY <1>3, <1>9, <1>10 DEF Current
  <2>. QED BY <1>2, <1>3, <1>4, <1>11, <2>1
           DEF Calm, Steady, Opening, SameErrand, SameCourse, Throws
<1>13. io' = E
  BY <1>2, <1>12 DEF onConnect
<1>14. C \in Client /\ SameErrand(D, C) /\ C.tr = D.tr
  BY <1>8 DEF SameErrand, Client
<1>15. /\ C.connected /\ ~C.connecting
       /\ C.reconnecting = D.reconnecting /\ C.redoTransports = D.redoTransports
  BY <1>8 DEF Client
<1>. HIDE DEF C
<1>16. OthersRest(C) /\ Current(C) = Current(D) /\ C.transport = t
  BY <1>9, <1>14 DEF OthersRest, Current, SameErrand
<1>17. F \in Client /\ SameWay(C, F) /\ OthersRest(F) /\ Sending(F)
  <2>1. PostsOfPolling(Current(C))
    BY <1>10, <1>16 DEF PostsOfPolling
  <2>. QED BY <1>3, <1>10, <1>14, <1>15, <1>16, <2>1, FlushSends
<1>. HIDE DEF F
<1>18. /\ Z \in Client /\ SameErrand(F, Z) /\ OnlyBuffering(F, F.doBuffer, Z)
       /\ Z.connected = F.connected /\ Z.connecting = F.connecting
       /\ Z.reconnecting = FALSE /\ Z.redoTransports = FALSE
  BY <1>17 DEF reset, SameErrand, OnlyBuffering, Client
<1>. HIDE DEF Z
<1>19. /\ R \in Client /\ SameErrand(F, R) /\ OnlyBuffering(F, F.doBuffer, R)
       /\ R.connected /\ ~R.connecting /\ ~R.reconnecting /\ ~R.redoTransports
  <2>1. CASE D.reconnecting
    BY <1>15, <1>17, <1>18, <2>1 DEF SameWay, SameCourse
  <2>2. CASE ~D.reconnecting
    <3>1. ~D.redoTransports
      BY <1>11, <2>2 DEF Calm, Steady, SameCourse
    <3>. QED BY <1>15, <1>17, <2>2, <3>1 DEF SameWay, SameCourse, SameErrand, OnlyBuffering
  <2>. QED BY <2>1, <2>2
<1>. HIDE DEF R
<1>20. /\ O \in Client /\ O.transport = R.transport /\ O.transports = R.transports
       /\ O.handshakes = R.handshakes /\ O.staleTimers = R.staleTimers
       /\ O.connectTimer = FALSE /\ OnlyBuffering(R, R.doBuffer, O)
  BY <1>19 DEF OnlyBuffering, Client
<1>21. /\ O.connected = R.connected /\ O.connecting = R.connecting
       /\ O.reconnecting = R.reconnecting /\ O.redoTransports = R.redoTransports
  BY <1>19 DEF Client
<1>. HIDE DEF O
<1>22. /\ E.transport = O.transport /\ E.transports = O.transports
       /\ E.handshakes = O.handshakes /\ E.staleTimers = O.staleTimers
       /\ E.connectTimer = O.connectTimer /\ OnlyBuffering(O, O.doBuffer, E)
  BY <1>20 DEF OnlyBuffering, Client
<1>23. /\ E.connected = O.connected /\ E.connecting = O.connecting /\ E.told = "connect"
       /\ E.reconnecting = O.reconnecting /\ E.redoTransports = O.redoTransports
  BY <1>20 DEF Client
<1>. HIDE DEF E
<1>24. /\ E.transport = t /\ E.transport = F.transport /\ E.tr = F.tr
       /\ E.doBuffer = F.doBuffer /\ E.buffer = F.buffer
       /\ E.transports = io.transports /\ E.handshakes = io.handshakes
       /\ E.staleTimers = io.staleTimers /\ ~E.connectTimer
  BY <1>11, <1>14, <1>16, <1>17, <1>19, <1>20, <1>22
     DEF OnlyBuffering, SameWay, SameErrand
<1>25. /\ E.connected /\ ~E.connecting /\ ~E.reconnecting /\ ~E.redoTransports
       /\ E.told = "connect"
  BY <1>19, <1>21, <1>23
<1>26. OthersRest(E) /\ Current(E) = Current(F)
  BY <1>17, <1>24 DEF OthersRest, Current
<1>27. Steady(E)
  BY <1>24, <1>25 DEF Calm, Steady
<1>28. Up(E)
  BY <1>3, <1>4, <1>17, <1>24, <1>25, <1>26 DEF Up, Opening, Sending, PostsOfPolling
<1>. QED BY <1>13, <1>26, <1>27, <1>28 DEF Calm

(* The heartbeat timer ends, on a connection or after it. *)
LEMMA HeartbeatTimeoutCalm == ASSUME IInv, Calm(io), HeartbeatTimeout PROVE Calm(io')
<1>. DEFINE H == [io EXCEPT !.heartbeatTimer = FALSE]
<1>1. io \in Client
  BY DEF IInv, Sound
<1>2. io' = (IF H.transport = null THEN H ELSE onClose(H, H.transport))
  BY DEF HeartbeatTimeout, Does
<1>3. io.heartbeatTimer /\ ~io.connectTimer
  BY DEF HeartbeatTimeout, Silence
<1>4. (Up(io) \/ Down(io)) /\ io.transport # null
  BY <1>3 DEF Calm, Shaking, Opening, Up, Down
<1>5. /\ H \in Client /\ H.tr = io.tr /\ H.doBuffer = io.doBuffer
      /\ H.heartbeatTimer = FALSE
  BY <1>1 DEF Client
<1>6. SameErrand(io, H) /\ SameCourse(io, H)
  BY <1>1 DEF SameErrand, SameCourse, Client
<1>. HIDE DEF H
<1>7. OthersRest(H) /\ Current(H) = Current(io)
  BY <1>5, <1>6 DEF Calm, OthersRest, Current, SameErrand
<1>8. Steady(H)
  BY <1>6 DEF Calm, Steady, SameErrand, SameCourse
<1>9. Ending(H)
  BY <1>3, <1>4, <1>5, <1>6, <1>7, <1>8
     DEF Ending, Up, Down, PostsOfPolling, SameErrand, SameCourse
<1>. QED BY <1>2, <1>4, <1>5, <1>6, <1>9, EndingDown DEF SameErrand

(* The close timer of the connection ends: the transport is closed, and    *)
(* the socket disconnected.                                                *)
LEMMA CloseTimeoutCalm ==
    ASSUME IInv, Calm(io), NEW t \in Slots, CloseTimeout(t) PROVE Calm(io')
<1>. DEFINE C == close(io, t)
            Q == Untimed(Closed(Current(io)))
            R == [C EXCEPT !.tr[t] = Q]
<1>1. io \in Client
  BY DEF IInv, Sound
<1>2. io.tr[t].closeTimer /\ ~io.connectTimer /\ io' = closeTimeout(io, t)
  BY DEF CloseTimeout, Silence, Does
<1>3. io.transport = t /\ io.transport # null /\ Current(io) = io.tr[t]
  BY <1>1, <1>2, InUseIsCurrent DEF Calm, Resting
<1>4. Up(io)
  BY <1>2, <1>3 DEF Calm, Shaking, Opening, Down, Resting
<1>5. /\ C \in Client /\ CurrentBecomes(io, C, Closed(Current(io))) /\ SameCourse(io, C)
      /\ C.heartbeatTimer = (io.heartbeatTimer /\ Current(io).kind # "xhr-polling")
  BY <1>1, <1>3, CloseWay
<1>6. Current(io) \in Transport
  BY <1>1, <1>3, CurrentType
<1>7. Q \in Transport /\ Closed(Current(io)) \in Transport
  BY <1>6, ClosedType, UntimedType
<1>8. /\ Q.kind = Current(io).kind /\ Q.posts = Current(io).posts
      /\ Q.ready = IF Current(io).kind = "xhr-polling" THEN "closed" ELSE "closing"
  BY <1>4, <1>6, ClosedType, UntimedType DEF Up
<1>9. C.tr[t] = Closed(Current(io)) /\ C.transport = t
  BY <1>1, <1>3, <1>5, TransportType DEF CurrentBecomes, SameErrand
<1>10. io' = onDisconnect(R)
  BY <1>2, <1>3, <1>4, <1>9 DEF closeTimeout, Up, Untimed
<1>. HIDE DEF C, Q
<1>11. /\ R \in Client /\ SameWay(C, R) /\ R.doBuffer = C.doBuffer
       /\ R.tr = [C.tr EXCEPT ![t] = Q]
  BY <1>5, <1>7, SlotWay
<1>. HIDE DEF R
<1>12. OthersRest(C)
  BY <1>1, <1>3, <1>5, <1>7, CurrentChanges DEF Calm, CurrentBecomes, SameErrand
<1>13. OthersRest(R) /\ Current(R) = Q /\ R.transport = t
  BY <1>3, <1>5, <1>7, <1>9, <1>11, <1>12, CurrentChanges DEF SameWay, SameErrand
<1>14. /\ SameErrand(io, R) /\ SameCourse(io, R) /\ R.doBuffer = io.doBuffer
       /\ R.heartbeatTimer = (io.heartbeatTimer /\ Current(io).kind # "xhr-polling")
  BY <1>5, <1>11 DEF CurrentBecomes, SameWay, SameErrand, SameCourse
<1>15. Steady(R)
  BY <1>14 DEF Calm, Steady, SameErrand, SameCourse
<1>16. Dropping(R)
  BY <1>3, <1>4, <1>8, <1>13, <1>14, <1>15
     DEF Dropping, Up, PostsOfPolling, SameErrand, SameCourse
<1>. QED BY <1>10, <1>11, <1>16, DroppingDown

-----------------------------------------------------------------------------
(* Attempts to connect. *)

(* A new object for the first transport of the list. *)
NewTransport(S) == [Unused EXCEPT !.kind = Head(S.transports), !.ready = "idle"]

(* A transport object as getTransport makes it is one. *)
LEMMA NewTransportType ==
    ASSUME NEW S \in Client, S.transports # << >>
    PROVE  /\ NewTransport(S) \in Transport
           /\ NewTransport(S).ready = "idle" /\ NewTransport(S).posts = 0
           /\ ~NewTransport(S).greeted /\ ~NewTransport(S).closeTimer
<1>1. Head(S.transports) \in {"websocket", "xhr-polling"}
  BY KindsType DEF Client
<1>. QED BY <1>1, UnusedType DEF NewTransport, Unused

(* R is S but for the transport in use and the transport objects. *)
OnlyTransport(S, R) ==
    /\ SameCourse(S, R)
    /\ R.transports = S.transports /\ R.handshakes = S.handshakes
    /\ R.connectTimer = S.connectTimer /\ R.staleTimers = S.staleTimers
    /\ R.once = S.once /\ R.gaveUp = S.gaveUp
    /\ R.heartbeatTimer = S.heartbeatTimer

(* Socket.getTransport, when there is a transport left to try. *)
LEMMA GetTransportWay ==
    ASSUME NEW S \in Client, NEW t \in Slots, S.transports # << >>
    PROVE  LET R == getTransport(S, t) IN
           /\ R \in Client /\ OnlyTransport(S, R)
           /\ R.transport = t /\ R.tr = [S.tr EXCEPT ![t] = NewTransport(S)]
<1>. DEFINE N == [S.tr EXCEPT ![t] = NewTransport(S)]
            R == [S EXCEPT !.transport = t, !.tr = N]
<1>1. N \in [Slots -> Transport]
  BY NewTransportType, SlotType
<1>2. getTransport(S, t) = R
  BY DEF getTransport, NewTransport
<1>. HIDE DEF N
<1>3. R \in Client /\ R.transport = t /\ R.tr = N
  BY <1>1 DEF Client
<1>4. OnlyTransport(S, R)
  BY DEF OnlyTransport, SameCourse, Client
<1>. QED BY <1>2, <1>3, <1>4 DEF N

(* A change of one transport object out of use leaves the others so. *)
LEMMA RestChanges ==
    ASSUME NEW S \in Client, AllRest(S), NEW t \in Slots, NEW P \in Transport, NEW R,
           R.transport = t, R.tr = [S.tr EXCEPT ![t] = P]
    PROVE  OthersRest(R) /\ Current(R) = P
<1>1. R.tr[t] = P /\ \A u \in Slots : u # t => R.tr[u] = S.tr[u]
  BY TransportType
<1>. QED BY <1>1 DEF AllRest, OthersRest, Current

(* Where all transport objects are out of use, clearTimeouts leaves them so. *)
LEMMA ClearRest ==
    ASSUME NEW S \in Client, AllRest(S)
    PROVE  LET R == clearCloseTimeout(S) IN
           R \in Client /\ SameWay(S, R) /\ AllRest(R)
<1>1. CASE S.transport = null
  BY <1>1 DEF clearCloseTimeout, SameWay, SameErrand, SameCourse
<1>2. CASE S.transport # null
  <2>. DEFINE t == S.transport
              P == Untimed(Current(S))
              R == [S EXCEPT !.tr[t] = P]
  <2>1. t \in Slots /\ Current(S) \in Transport
    BY <1>2, CurrentType
  <2>2. clearCloseTimeout(S) = R
    BY <1>2 DEF clearCloseTimeout, Untimed, Current
  <2>3. P \in Transport /\ Resting(P)
    BY <2>1, UntimedType DEF AllRest, Resting, Current
  <2>. HIDE DEF P
  <2>4. R \in Client /\ SameWay(S, R) /\ R.tr = [S.tr EXCEPT ![t] = P]
    BY <2>1, <2>3, SlotWay
  <2>. HIDE DEF R
  <2>5. R.tr[t] = P /\ \A u \in Slots : u # t => R.tr[u] = S.tr[u]
    BY <2>1, <2>4, TransportType
  <2>6. AllRest(R)
    BY <2>3, <2>5 DEF AllRest
  <2>. QED BY <2>2, <2>4, <2>6 DEF R
<1>. QED BY <1>1, <1>2

(* All transport objects are out of use if the current one is, too. *)
LEMMA RestOfAll ==
    ASSUME NEW S \in Client, OthersRest(S),
           S.transport # null => Resting(Current(S))
    PROVE  AllRest(S)
BY SocketAssumption DEF OthersRest, AllRest, Current

(* The function connect inside Socket.connect, called when nothing of an   *)
(* earlier attempt is left: the next transport opens.                      *)
LEMMA ConnectViaOpens ==
    ASSUME NEW S \in Client, NEW t \in Slots, AllRest(S), Driven(S),
           ~S.connected, S.transports # << >>, S.handshakes = 0, ~S.connectTimer
    PROVE  LET R == connectVia(S, t) IN
           /\ R \in Client
           /\ OthersRest(R) /\ Opening(R)
           /\ R.staleTimers = S.staleTimers /\ R.once = S.once /\ R.gaveUp = S.gaveUp
           /\ R.told = S.told /\ R.reconnecting = S.reconnecting
           /\ R.redoTransports = S.redoTransports /\ R.attempts = S.attempts
<1>. DEFINE C == clearCloseTimeout(S)
            T == getTransport(C, t)
            D == [T EXCEPT !.connecting = TRUE]
            B == setBuffer(D, FALSE)
            P == [NewTransport(S) EXCEPT !.ready = "open", !.isOpen = TRUE, !.closeTimer = TRUE]
            W == [NewTransport(S) EXCEPT !.ready = "connecting"]
            O == open(D, t)
            n == O.staleTimers + (IF S.connectTimer THEN 1 ELSE 0)
            R == [O EXCEPT !.connectTimer = TRUE, !.staleTimers = n]
<1>0. t # null /\ connectVia(S, t) \in Client
  BY SocketAssumption, ConnectViaKeeps DEF Keeps
<1>1. C \in Client /\ SameWay(S, C) /\ AllRest(C)
  BY ClearRest
<1>2. C.transports # << >> /\ NewTransport(C) = NewTransport(S)
  BY <1>1 DEF SameWay, SameErrand, NewTransport
<1>. HIDE DEF C
<1>3. /\ T \in Client /\ OnlyTransport(C, T)
      /\ T.transport = t /\ T.tr = [C.tr EXCEPT ![t] = NewTransport(S)]
  BY <1>1, <1>2, GetTransportWay
<1>4. connectVia(S, t) = R
  BY <1>0, <1>3 DEF connectVia, C
<1>. HIDE DEF T
<1>5. /\ D \in Client /\ D.transport = T.transport /\ D.tr = T.tr
      /\ D.connecting = TRUE /\ D.connected = T.connected
  BY <1>3 DEF Client
<1>6. /\ D.transports = T.transports /\ D.handshakes = T.handshakes
      /\ D.staleTimers = T.staleTimers /\ D.once = T.once /\ D.gaveUp = T.gaveUp
  BY <1>3 DEF Client
<1>7. /\ D.told = T.told /\ D.reconnecting = T.reconnecting
      /\ D.redoTransports = T.redoTransports /\ D.attempts = T.attempts
  BY <1>3 DEF Client
<1>. HIDE DEF D
<1>8. /\ NewTransport(S) \in Transport
      /\ NewTransport(S).ready = "idle" /\ NewTransport(S).posts = 0
      /\ ~NewTransport(S).greeted /\ ~NewTransport(S).closeTimer
  BY NewTransportType
<1>9. D.tr[t] = NewTransport(S)
  BY <1>1, <1>3, <1>5, TransportType
<1>10. ~D.connected
  BY <1>1, <1>3, <1>5 DEF SameWay, SameCourse, OnlyTransport
<1>11. /\ P \in Transport /\ P.ready = "open" /\ P.isOpen /\ P.posts = 0 /\ ~P.greeted
       /\ W \in Transport /\ W.ready = "connecting" /\ W.posts = 0 /\ ~W.greeted
       /\ ~W.closeTimer
  BY <1>8 DEF Transport
<1>12. /\ O \in Client /\ SameErrand(D, O) /\ SameCourse(D, O)
       /\ \/ O.tr = [D.tr EXCEPT ![t] = P] /\ ~O.doBuffer
          \/ O.tr = [D.tr EXCEPT ![t] = W]
  <2>1. CASE polling(D, t)
    <3>1. O = [B EXCEPT !.tr[t] = [@ EXCEPT !.ready = "open", !.isOpen = TRUE, !.closeTimer = TRUE]]
      BY <2>1 DEF open, openPolling
    <3>2. B \in Client /\ SameWay(D, B) /\ B.tr = D.tr /\ B.doBuffer = FALSE
      BY <1>5, <1>10, SetBufferWay DEF Flushes, OnlyBuffering
    <3>. HIDE DEF B, O
    <3>3. O = [B EXCEPT !.tr[t] = P]
      BY <1>9, <3>1, <3>2
    <3>. HIDE DEF P
    <3>4. O \in Client /\ SameWay(B, O) /\ O.tr = [B.tr EXCEPT ![t] = P] /\ O.doBuffer = B.doBuffer
      BY <1>11, <3>2, <3>3, SlotWay
    <3>. QED BY <3>2, <3>4 DEF SameWay, SameErrand, SameCourse
  <2>2. CASE ~polling(D, t)
    <3>1. O = [D EXCEPT !.tr[t] = W]
      BY <1>9, <2>2 DEF open, openWebsocket
    <3>. HIDE DEF O, W
    <3>2. O \in Client /\ SameWay(D, O) /\ O.tr = [D.tr EXCEPT ![t] = W]
      BY <1>5, <1>11, <3>1, SlotWay
    <3>. QED BY <3>2 DEF SameWay
  <2>. QED BY <2>1, <2>2
<1>. HIDE DEF O, P, W
<1>13. n = O.staleTimers
  BY <1>12 DEF Client
<1>. HIDE DEF n
<1>14. /\ R.transport = O.transport /\ R.tr = O.tr /\ R.doBuffer = O.doBuffer
       /\ R.connectTimer = TRUE /\ R.staleTimers = O.staleTimers
       /\ R.transports = O.transports /\ R.handshakes = O.handshakes
  BY <1>12, <1>13 DEF Client
<1>15. R.once = O.once /\ R.gaveUp = O.gaveUp /\ SameCourse(O, R)
  BY <1>12 DEF Client, SameCourse
<1>. HIDE DEF R
<1>16. R.transport = t /\ R.transports = S.transports /\ R.handshakes = 0
       /\ R.connectTimer /\ R.connecting /\ ~R.connected
  BY <1>1, <1>3, <1>5, <1>6, <1>10, <1>12, <1>14, <1>15
     DEF SameWay, SameErrand, SameCourse, OnlyTransport
<1>17. \E Q \in Transport :
          /\ R.tr = [C.tr EXCEPT ![t] = Q]
          /\ Q.posts = 0 /\ ~Q.greeted
          /\ \/ Q.ready = "open" /\ Q.isOpen /\ ~R.doBuffer
             \/ Q.ready = "connecting" /\ ~Q.closeTimer
  <2>1. CASE O.tr = [D.tr EXCEPT ![t] = P] /\ ~O.doBuffer
    <3>1. R.tr = [C.tr EXCEPT ![t] = P]
      BY <1>1, <1>3, <1>5, <1>14, <2>1, TransportType
    <3>. QED BY <1>11, <1>14, <2>1, <3>1
  <2>2. CASE O.tr = [D.tr EXCEPT ![t] = W]
    <3>1. R.tr = [C.tr EXCEPT ![t] = W]
      BY <1>1, <1>3, <1>5, <1>14, <2>2, TransportType
    <3>. QED BY <1>11, <3>1
  <2>. QED BY <1>12, <2>1, <2>2
<1>18. PICK Q \in Transport :
          /\ R.tr = [C.tr EXCEPT ![t] = Q]
          /\ Q.posts = 0 /\ ~Q.greeted
          /\ \/ Q.ready = "open" /\ Q.isOpen /\ ~R.doBuffer
             \/ Q.ready = "connecting" /\ ~Q.closeTimer
  BY <1>17
<1>19. OthersRest(R) /\ Current(R) = Q
  BY <1>1, <1>16, <1>18, RestChanges
<1>20. Opening(R)
  BY <1>0, <1>16, <1>18, <1>19 DEF Opening
<1>21. /\ R.staleTimers = S.staleTimers /\ R.once = S.once /\ R.gaveUp = S.gaveUp
       /\ R.told = S.told /\ R.reconnecting = S.reconnecting
       /\ R.redoTransports = S.redoTransports /\ R.attempts = S.attempts
  BY <1>1, <1>3, <1>6, <1>7, <1>12, <1>14, <1>15
     DEF SameWay, SameErrand, SameCourse, OnlyTransport
<1>. QED BY <1>0, <1>4, <1>19, <1>20, <1>21

(* The handshake is answered: the first transport opens. *)
LEMMA HandshakeAnsweredCalm == ASSUME IInv, Calm(io), HandshakeAnswered PROVE Calm(io')
<1>. DEFINE n == io.handshakes - 1
            H == [io EXCEPT !.handshakes = n]
            B == setHeartbeatTimeout(H)
            V == connectVia(B, Fresh)
            R == [V EXCEPT !.once = TRUE]
<1>1. io \in Client /\ Driven(io) /\ Fresh \in Slots
  BY FreshType DEF IInv, Sound, HandshakeAnswered
<1>2. io.handshakes > 0 /\ io' = R
  BY DEF HandshakeAnswered, Does, handshaken
<1>3. Shaking(io)
  BY <1>2 DEF Calm, Opening, Up, Down
<1>4. n = 0
  BY <1>3 DEF Shaking
<1>. HIDE DEF n
<1>5. H \in Client /\ H.handshakes = 0 /\ H.transport = io.transport /\ H.tr = io.tr
  BY <1>1, <1>4 DEF Client
<1>6. /\ H.transports = io.transports /\ H.connectTimer = io.connectTimer
      /\ H.staleTimers = io.staleTimers /\ H.gaveUp = io.gaveUp
      /\ H.reconnectTimer = io.reconnectTimer
  BY <1>1 DEF Client
<1>7. SameCourse(io, H)
  BY <1>1 DEF SameCourse, Client
<1>. HIDE DEF H
<1>8. /\ B \in Client /\ SameErrand(H, B) /\ SameCourse(H, B)
      /\ OnlyBuffering(H, H.doBuffer, B)
  BY <1>5, SetHeartbeatWay
<1>9. Driven(B)
  BY <1>1, <1>5, <1>6, <1>7, SetHeartbeatLeaves DEF Driven, Alike, SameCourse
<1>. HIDE DEF B
<1>10. AllRest(B)
  <2>1. AllRest(io)
    BY <1>1, <1>3, RestOfAll DEF Calm, Shaking
  <2>. QED BY <1>5, <1>8, <2>1 DEF AllRest, OnlyBuffering
<1>11. ~B.connected /\ B.transports # << >> /\ B.handshakes = 0 /\ ~B.connectTimer
  BY <1>3, <1>5, <1>6, <1>7, <1>8 DEF Shaking, SameErrand, SameCourse
<1>12. /\ V \in Client /\ OthersRest(V) /\ Opening(V)
       /\ V.staleTimers = B.staleTimers /\ V.gaveUp = B.gaveUp
       /\ V.told = B.told /\ V.reconnecting = B.reconnecting
       /\ V.redoTransports = B.redoTransports /\ V.attempts = B.attempts
  BY <1>1, <1>8, <1>9, <1>10, <1>11, ConnectViaOpens
<1>. HIDE DEF V
<1>13. R \in Client /\ R.once = TRUE /\ R.tr = V.tr /\ SameCourse(V, R)
  BY <1>12 DEF SameCourse, Client
<1>14. /\ R.transport = V.transport /\ R.transports = V.transports
       /\ R.handshakes = V.handshakes /\ R.connectTimer = V.connectTimer
       /\ R.staleTimers = V.staleTimers /\ R.gaveUp = V.gaveUp
       /\ R.doBuffer = V.doBuffer
  BY <1>12 DEF Client
<1>. HIDE DEF R
<1>15. OthersRest(R) /\ Opening(R)
  BY <1>12, <1>13, <1>14 DEF OthersRest, Opening, Current, SameCourse
<1>16. Steady(R)
  BY <1>3, <1>6, <1>7, <1>8, <1>12, <1>13, <1>14, <1>15
     DEF Calm, Steady, Shaking, Opening, SameErrand, SameCourse
<1>. QED BY <1>2, <1>15, <1>16 DEF Calm

(* The handshake fails. *)
LEMMA HandshakeFailsCalm == ASSUME IInv, Calm(io), HandshakeFails PROVE Calm(io')
<1>. DEFINE n == io.handshakes - 1
            R == [io EXCEPT !.handshakes = n, !.connecting = FALSE]
<1>1. io \in Client
  BY DEF IInv, Sound
<1>2. io.handshakes > 0 /\ io' = R
  BY DEF HandshakeFails, DoesUnless
<1>3. Shaking(io)
  BY <1>2 DEF Calm, Opening, Up, Down
<1>4. n = 0
  BY <1>3 DEF Shaking
<1>. HIDE DEF n
<1>5. /\ R.handshakes = 0 /\ R.connecting = FALSE /\ R.transport = io.transport
      /\ R.transports = io.transports /\ R.connectTimer = io.connectTimer
      /\ R.staleTimers = io.staleTimers /\ R.once = io.once
  BY <1>1, <1>4 DEF Client
<1>6. /\ R.connected = io.connected /\ R.reconnecting = io.reconnecting
      /\ R.attempts = io.attempts /\ R.redoTransports = io.redoTransports
      /\ R.told = io.told /\ R.gaveUp = io.gaveUp
  BY <1>1 DEF Client
<1>7. R.tr = io.tr /\ R.heartbeatTimer = io.heartbeatTimer
  BY <1>1 DEF Client
<1>. HIDE DEF R
<1>8. OthersRest(R) /\ Current(R) = Current(io)
  BY <1>5, <1>7 DEF Calm, OthersRest, Current
<1>9. Steady(R)
  BY <1>5, <1>6 DEF Calm, Steady
<1>10. Down(R)
  BY <1>3, <1>5, <1>6, <1>7, <1>8 DEF Shaking, Down, Resting, PostsOfPolling
<1>. QED BY <1>2, <1>8, <1>9, <1>10 DEF Calm

(* maybeReconnect in the last resort gives up. *)
LEMMA GivesUp ==
    ASSUME NEW S \in Client, OthersRest(S), Down(S), ~S.connectTimer,
           S.staleTimers = 0, S.told # "connect"
    PROVE  Calm([reset(S) EXCEPT !.gaveUp = TRUE])
<1>. DEFINE C == reset(S)
            R == [C EXCEPT !.gaveUp = TRUE]
<1>1. /\ C \in Client /\ SameErrand(S, C) /\ OnlyBuffering(S, S.doBuffer, C)
      /\ C.heartbeatTimer = S.heartbeatTimer
  BY DEF reset, SameErrand, OnlyBuffering, Client
<1>2. /\ C.connected = S.connected /\ C.connecting = S.connecting /\ C.told = S.told
      /\ C.reconnecting = FALSE /\ C.redoTransports = FALSE
  BY DEF reset, Client
<1>. HIDE DEF C
<1>3. /\ SameCourse(C, R) /\ R.gaveUp = TRUE /\ R.transport = C.transport
      /\ R.transports = C.transports /\ R.handshakes = C.handshakes
      /\ R.connectTimer = C.connectTimer /\ R.staleTimers = C.staleTimers
  BY <1>1 DEF SameCourse, Client
<1>4. R.heartbeatTimer = C.heartbeatTimer /\ OnlyBuffering(C, C.doBuffer, R)
  BY <1>1 DEF OnlyBuffering, Client
<1>. HIDE DEF R
<1>5. OthersRest(R) /\ Current(R) = Current(S)
  BY <1>1, <1>3, <1>4 DEF OthersRest, Current, SameErrand, OnlyBuffering
<1>6. Steady(R)
  BY <1>1, <1>2, <1>3 DEF Steady, Down, SameErrand, SameCourse
<1>7. Down(R)
  BY <1>1, <1>2, <1>3, <1>4, <1>5
     DEF Down, PostsOfPolling, SameErrand, SameCourse, OnlyBuffering
<1>. QED BY <1>5, <1>6, <1>7 DEF Calm, R, C

(* The connect timer ends and finds the transport closed: the next one of  *)
(* the list opens, or there is none.                                       *)
LEMMA ConnectTimeoutCalm ==
    ASSUME IInv, Calm(io), ConnectTimeout, ~overlapped' PROVE Calm(io')
<1>. DEFINE H == [io EXCEPT !.connectTimer = FALSE]
            N == [H EXCEPT !.connecting = FALSE]
            r == remaining(H)
            R == [N EXCEPT !.transports = r]
            t == Fresh
<1>1. io \in Client /\ Driven(io) /\ t \in Slots
  BY FreshType DEF IInv, Sound, ConnectTimeout
<1>2. /\ io.connectTimer /\ io.transport # null /\ io' = connectTimeout(H, t)
      /\ ~(~io.connected /\ Current(io).ready \in {"connecting", "open"})
  BY DEF ConnectTimeout, Current
<1>3. Down(io) /\ Current(io).ready = "closed" /\ Current(io).posts = 0
      /\ ~io.heartbeatTimer
  BY <1>2 DEF Calm, Shaking, Opening, Up, Down
<1>4. AllRest(io)
  BY <1>1, <1>2, <1>3, RestOfAll DEF Calm, Down, Resting
<1>5. /\ H \in Client /\ H.connected = io.connected
      /\ H.reconnecting = io.reconnecting /\ H.redoTransports = io.redoTransports
  BY <1>1 DEF Client
<1>6. r \in Seq(Range(Kinds))
  BY <1>5, RemainingType
<1>7. io' = IF ~tryMultiple(H) THEN N
            ELSE IF R.transports = << >> THEN connectFailed(R, t)
            ELSE connectVia(R, t)
  BY <1>2, <1>3, <1>5 DEF connectTimeout, Down
<1>. HIDE DEF r
<1>8. /\ N \in Client /\ N.tr = io.tr /\ N.transport = io.transport
      /\ N.connectTimer = FALSE /\ N.connecting = FALSE /\ N.connected = io.connected
      /\ N.transports = io.transports
  BY <1>1 DEF Client
<1>9. /\ N.staleTimers = io.staleTimers /\ N.once = io.once /\ N.gaveUp = io.gaveUp
      /\ N.handshakes = io.handshakes /\ N.heartbeatTimer = io.heartbeatTimer
      /\ N.doBuffer = io.doBuffer /\ N.reconnectTimer = io.reconnectTimer
  BY <1>1 DEF Client
<1>10. /\ N.told = io.told /\ N.reconnecting = io.reconnecting
       /\ N.redoTransports = io.redoTransports /\ N.attempts = io.attempts
  BY <1>1 DEF Client
<1>. HIDE DEF N, H
<1>11. /\ R \in Client /\ R.tr = io.tr /\ R.transport = io.transport
       /\ R.connectTimer = FALSE /\ R.connecting = FALSE /\ R.connected = io.connected
       /\ R.transports = r
  BY <1>6, <1>8 DEF Client
<1>12. /\ R.staleTimers = io.staleTimers /\ R.once = io.once /\ R.gaveUp = io.gaveUp
       /\ R.handshakes = io.handshakes /\ R.heartbeatTimer = io.heartbeatTimer
       /\ R.doBuffer = io.doBuffer /\ R.reconnectTimer = io.reconnectTimer
  BY <1>8, <1>9 DEF Client
<1>13. /\ R.told = io.told /\ R.reconnecting = io.reconnecting
       /\ R.redoTransports = io.redoTransports /\ R.attempts = io.attempts
  BY <1>8, <1>10 DEF Client
<1>. HIDE DEF R
<1>14. /\ OthersRest(N) /\ Current(N) = Current(io)
       /\ OthersRest(R) /\ Current(R) = Current(io) /\ AllRest(R)
  BY <1>4, <1>8, <1>11 DEF Calm, OthersRest, AllRest, Current
<1>15. Calm(N)
  <2>1. Steady(N)
    BY <1>8, <1>9, <1>10 DEF Calm, Steady
  <2>2. Down(N)
    BY <1>3, <1>8, <1>9, <1>14 DEF Down, PostsOfPolling
  <2>. QED BY <1>14, <2>1, <2>2 DEF Calm
<1>16. ASSUME tryMultiple(H), R.transports = << >> PROVE Calm(connectFailed(R, t))
  <2>1. Down(R)
    BY <1>3, <1>11, <1>12, <1>14 DEF Down, PostsOfPolling
  <2>2. R.staleTimers = 0 /\ R.told # "connect"
    BY <1>3, <1>12, <1>13 DEF Calm, Steady, Down
  <2>3. CASE R.redoTransports
    <3>1. R.attempts \in Nat /\ MaxAttempts \in Nat
      BY <1>11, SocketAssumption DEF Client
    <3>2. R.reconnecting /\ ~R.connected /\ ~R.connecting /\ ~(R.attempts < MaxAttempts)
      BY <1>3, <1>11, <1>13, <2>3, <3>1 DEF Calm, Steady, Down
    <3>3. connectFailed(R, t) = [reset(R) EXCEPT !.gaveUp = TRUE]
      BY <2>3, <3>2 DEF connectFailed, maybeReconnect
    <3>. QED BY <1>11, <1>14, <2>1, <2>2, <3>3, GivesUp
  <2>4. CASE ~R.redoTransports
    <3>1. connectFailed(R, t) = R
      BY <2>4 DEF connectFailed
    <3>2. ~R.reconnecting
      BY <1>5, <1>13, <1>16, <2>4 DEF tryMultiple
    <3>3. Steady(R)
      BY <1>3, <1>11, <1>12, <1>13, <2>4, <3>2 DEF Calm, Steady
    <3>. QED BY <1>14, <2>1, <3>1, <3>3 DEF Calm
  <2>. QED BY <2>3, <2>4
<1>17. ASSUME R.transports # << >> PROVE Calm(connectVia(R, t))
  <2>. DEFINE V == connectVia(R, t)
  <2>1. ~R.connected /\ R.handshakes = 0 /\ ~R.connectTimer /\ Driven(R)
    BY <1>1, <1>3, <1>11, <1>12, <1>13 DEF Down, Driven
  <2>2. /\ OthersRest(V) /\ Opening(V)
        /\ V.staleTimers = R.staleTimers /\ V.once = R.once /\ V.gaveUp = R.gaveUp
        /\ V.told = R.told /\ V.reconnecting = R.reconnecting
        /\ V.redoTransports = R.redoTransports /\ V.attempts = R.attempts
    BY <1>1, <1>11, <1>14, <1>17, <2>1, ConnectViaOpens
  <2>. HIDE DEF V
  <2>3. Steady(V)
    BY <1>2, <1>3, <1>12, <1>13, <2>2 DEF Calm, Steady, Opening, Down
  <2>. QED BY <2>2, <2>3 DEF Calm, V
<1>. QED BY <1>7, <1>15, <1>16, <1>17

(* A connect timer that was overwritten does not exist. *)
LEMMA StaleTimeoutCalm == ASSUME IInv, Calm(io), StaleTimeout PROVE Calm(io')
BY DEF StaleTimeout, Calm, Steady

(* Socket.connect of a socket that neither is connected nor connects. *)
LEMMA ConnectWay ==
    ASSUME NEW S \in Client, ~S.connecting
    PROVE  LET R == connect(S) IN
           /\ R \in Client
           /\ R.connecting /\ R.handshakes = S.handshakes + 1
           /\ R.connected = S.connected /\ R.reconnecting = S.reconnecting
           /\ R.attempts = S.attempts /\ R.redoTransports = S.redoTransports
           /\ R.told = S.told /\ R.gaveUp = S.gaveUp /\ R.once = S.once
           /\ R.transport = S.transport /\ R.transports = S.transports
           /\ R.connectTimer = S.connectTimer /\ R.staleTimers = S.staleTimers
           /\ R.heartbeatTimer = S.heartbeatTimer /\ R.tr = S.tr
<1>. DEFINE n == S.handshakes + 1
            R == [S EXCEPT !.connecting = TRUE, !.handshakes = n]
<1>1. connect(S) = R /\ n \in Nat
  BY DEF connect, Client
<1>. HIDE DEF n
<1>2. /\ R \in Client /\ R.connecting = TRUE /\ R.handshakes = n
      /\ R.connected = S.connected /\ R.reconnecting = S.reconnecting
      /\ R.attempts = S.attempts /\ R.redoTransports = S.redoTransports
  BY <1>1 DEF Client
<1>3. /\ R.told = S.told /\ R.gaveUp = S.gaveUp /\ R.once = S.once
      /\ R.transport = S.transport /\ R.transports = S.transports
  BY DEF Client
<1>4. /\ R.connectTimer = S.connectTimer /\ R.staleTimers = S.staleTimers
      /\ R.heartbeatTimer = S.heartbeatTimer /\ R.tr = S.tr
  BY DEF Client
<1>. HIDE DEF R
<1>. QED BY <1>1, <1>2, <1>3, <1>4 DEF n

(* The reconnection timer ends: another handshake, the last resort, or the *)
(* end of it, but only once nothing of the earlier attempt is left.        *)
LEMMA ReconnectTimeoutCalm ==
    ASSUME IInv, Calm(io), ReconnectTimeout, ~overlapped' PROVE Calm(io')
<1>. DEFINE H == [io EXCEPT !.reconnectTimer = FALSE]
            t == Fresh
<1>1. io \in Client /\ t \in Slots
  BY FreshType DEF IInv, Sound, ReconnectTimeout
<1>2. io' = maybeReconnect(H, t)
      /\ (~io.connected /\ ~io.connecting => Settled)
  BY DEF ReconnectTimeout
<1>3. H \in Client /\ SameErrand(io, H) /\ H.heartbeatTimer = io.heartbeatTimer
  BY <1>1 DEF SameErrand, Client
<1>4. SameCourse(io, H) /\ OnlyBuffering(io, io.doBuffer, H)
  BY <1>1 DEF SameCourse, OnlyBuffering, Client
<1>. HIDE DEF H
<1>5. SameWay(io, H)
  BY <1>3, <1>4 DEF SameWay
<1>6. Calm(H)
  BY <1>1, <1>4, <1>5, SameWayCalm DEF OnlyBuffering
<1>7. CASE ~H.reconnecting
  BY <1>2, <1>6, <1>7 DEF maybeReconnect
<1>8. CASE H.reconnecting /\ H.connected
  BY <1>6, <1>8 DEF Calm, Shaking, Opening, Up, Down
<1>9. CASE H.reconnecting /\ ~H.connected /\ H.connecting
  <2>. DEFINE R == [H EXCEPT !.reconnectTimer = TRUE]
  <2>1. io' = R
    BY <1>2, <1>9 DEF maybeReconnect
  <2>2. SameErrand(H, R) /\ R.heartbeatTimer = H.heartbeatTimer
    BY <1>3 DEF SameErrand, Client
  <2>3. SameCourse(H, R) /\ OnlyBuffering(H, H.doBuffer, R)
    BY <1>3 DEF SameCourse, OnlyBuffering, Client
  <2>. HIDE DEF R
  <2>. QED BY <1>3, <1>6, <2>1, <2>2, <2>3, SameWayCalm DEF SameWay, OnlyBuffering
<1>10. CASE H.reconnecting /\ ~H.connected /\ ~H.connecting
  <2>1. Down(H) /\ Steady(H) /\ OthersRest(H)
    BY <1>6, <1>10 DEF Calm, Shaking, Opening, Up
  <2>2. Settled
    BY <1>2, <1>4, <1>10 DEF SameCourse
  <2>3. H.transport # null => Resting(Current(H))
    <3>1. H.tr = io.tr /\ (H.transport # null => H.transport \in Slots)
      BY <1>3, <1>4, CurrentType DEF OnlyBuffering
    <3>. QED BY <2>1, <2>2, <3>1 DEF Down, Settled, Resting, Current
  <2>4. ~H.heartbeatTimer /\ ~H.connectTimer
    BY <1>3, <2>1, <2>2, <2>3 DEF Down, Resting, Settled, SameErrand
  <2>5. AllRest(H)
    BY <1>3, <2>1, <2>3, RestOfAll
  <2>6. H.transports # << >> /\ H.handshakes = 0 /\ H.staleTimers = 0 /\ H.told # "connect"
    BY <1>10, <2>1 DEF Steady, Down
  <2>7. H.attempts \in Nat /\ MaxAttempts \in Nat
    BY <1>3, SocketAssumption DEF Client
  <2>8. CASE H.attempts < MaxAttempts
    <3>. DEFINE C == connect(H)
                n == C.attempts + 1
                R == [C EXCEPT !.attempts = n, !.reconnectTimer = TRUE]
    <3>1. io' = R
      BY <1>2, <1>10, <2>8 DEF maybeReconnect
    <3>0. H \in Client /\ ~H.connecting /\ H.handshakes + 1 = 1
      BY <1>3, <1>10, <2>6
    <3>2. /\ C \in Client
          /\ C.connecting /\ C.handshakes = 1
          /\ C.connected = H.connected /\ C.reconnecting = H.reconnecting
          /\ C.redoTransports = H.redoTransports
          /\ C.told = H.told /\ C.gaveUp = H.gaveUp
          /\ C.transport = H.transport /\ C.transports = H.transports
          /\ C.connectTimer = H.connectTimer /\ C.staleTimers = H.staleTimers
          /\ C.heartbeatTimer = H.heartbeatTimer /\ C.tr = H.tr
      BY <3>0, ConnectWay
    <3>. HIDE DEF C, n
    <3>3. /\ R.connecting = C.connecting /\ R.handshakes = C.handshakes
          /\ R.connected = C.connected /\ R.reconnecting = C.reconnecting
          /\ R.redoTransports = C.redoTransports /\ R.told = C.told
      BY <3>2 DEF Client
    <3>4. /\ R.gaveUp = C.gaveUp /\ R.transport = C.transport
          /\ R.transports = C.transports /\ R.connectTimer = C.connectTimer
          /\ R.staleTimers = C.staleTimers /\ R.heartbeatTimer = C.heartbeatTimer
          /\ R.tr = C.tr
      BY <3>2 DEF Client
    <3>. HIDE DEF R
    <3>5. OthersRest(R) /\ Current(R) = Current(H)
      BY <2>1, <3>2, <3>4 DEF OthersRest, Current
    <3>6. ~H.redoTransports
      BY <2>1, <2>7, <2>8 DEF Steady
    <3>7. Steady(R)
      BY <1>10, <2>1, <2>4, <2>6, <3>2, <3>3, <3>4, <3>6 DEF Steady
    <3>8. Shaking(R)
      BY <1>10, <2>3, <2>4, <2>6, <3>2, <3>3, <3>4, <3>5 DEF Shaking
    <3>. QED BY <3>1, <3>5, <3>7, <3>8 DEF Calm
  <2>9. CASE ~(H.attempts < MaxAttempts) /\ ~H.redoTransports
    <3>. DEFINE G == getTransport(H, t)
                T == [G EXCEPT !.redoTransports = TRUE]
                R == connect(T)
    <3>1. io' = R
      BY <1>2, <1>10, <2>9 DEF maybeReconnect, redo
    <3>2. /\ G \in Client /\ OnlyTransport(H, G)
          /\ G.transport = t /\ G.tr = [H.tr EXCEPT ![t] = NewTransport(H)]
      BY <1>1, <1>3, <2>6, GetTransportWay
    <3>. HIDE DEF G
    <3>3. /\ T \in Client /\ T.redoTransports = TRUE /\ T.connecting = G.connecting
          /\ T.handshakes = G.handshakes /\ T.connected = G.connected
          /\ T.reconnecting = G.reconnecting /\ T.attempts = G.attempts
      BY <3>2 DEF Client
    <3>4. /\ T.told = G.told /\ T.gaveUp = G.gaveUp /\ T.transport = G.transport
          /\ T.transports = G.transports /\ T.connectTimer = G.connectTimer
          /\ T.staleTimers = G.staleTimers /\ T.heartbeatTimer = G.heartbeatTimer
      BY <3>2 DEF Client
    <3>5. T.tr = G.tr
      BY <3>2 DEF Client
    <3>. HIDE DEF T
    <3>6. ~T.connecting /\ T.handshakes = 0
      BY <1>10, <2>6, <3>2, <3>3 DEF OnlyTransport, SameCourse
    <3>7. /\ R.connecting /\ R.handshakes = 1
          /\ R.connected = T.connected /\ R.reconnecting = T.reconnecting
          /\ R.attempts = T.attempts /\ R.redoTransports = T.redoTransports
          /\ R.told = T.told /\ R.gaveUp = T.gaveUp
          /\ R.transport = T.transport /\ R.transports = T.transports
          /\ R.connectTimer = T.connectTimer /\ R.staleTimers = T.staleTimers
          /\ R.heartbeatTimer = T.heartbeatTimer /\ R.tr = T.tr
      BY <3>3, <3>6, ConnectWay
    <3>. HIDE DEF R
    <3>8. /\ NewTransport(H) \in Transport /\ Resting(NewTransport(H))
      BY <1>3, <2>6, NewTransportType DEF Resting
    <3>9. OthersRest(R) /\ Current(R) = NewTransport(H)
      <4>1. R.transport = t /\ R.tr = [H.tr EXCEPT ![t] = NewTransport(H)]
        BY <3>2, <3>4, <3>5, <3>7
      <4>. QED BY <1>1, <1>3, <2>5, <3>8, <4>1, RestChanges
    <3>10. /\ R.connected = H.connected /\ R.reconnecting = H.reconnecting
           /\ R.attempts = H.attempts /\ R.redoTransports = TRUE
           /\ R.told = H.told /\ R.gaveUp = H.gaveUp /\ R.transports = H.transports
           /\ R.connectTimer = H.connectTimer /\ R.staleTimers = H.staleTimers
           /\ R.heartbeatTimer = H.heartbeatTimer
      BY <3>2, <3>3, <3>4, <3>7 DEF OnlyTransport, SameCourse
    <3>11. Steady(R)
      BY <1>10, <2>1, <2>4, <2>6, <2>7, <2>9, <3>10 DEF Steady
    <3>12. Shaking(R)
      BY <1>10, <2>4, <2>6, <3>7, <3>8, <3>9, <3>10 DEF Shaking
    <3>. QED BY <3>1, <3>9, <3>11, <3>12 DEF Calm
  <2>10. CASE ~(H.attempts < MaxAttempts) /\ H.redoTransports
    <3>1. io' = [reset(H) EXCEPT !.gaveUp = TRUE]
      BY <1>2, <1>10, <2>10 DEF maybeReconnect
    <3>. QED BY <1>3, <2>1, <2>4, <2>6, <3>1, GivesUp
  <2>. QED BY <2>8, <2>9, <2>10
<1>. QED BY <1>7, <1>8, <1>9, <1>10

(* Every step keeps the socket in its phases, unless it makes attempts     *)
(* overlap.                                                                *)
LEMMA NextCalm ==
    ASSUME IInv, Calm(io), [Next]_vars, ~overlapped' PROVE Calm(io')
<1>1. CASE Send
  BY <1>1, SendCalm
<1>2. CASE HandshakeAnswered \/ HandshakeFails
  BY <1>2, HandshakeAnsweredCalm, HandshakeFailsCalm
<1>3. ASSUME NEW t \in Slots, WebsocketOpens(t) \/ WebsocketCloses(t) PROVE Calm(io')
  BY <1>3, WebsocketOpensCalm, WebsocketClosesCalm
<1>4. ASSUME NEW t \in Slots, Connected(t) \/ Received(t) \/ Heartbeat(t) PROVE Calm(io')
  BY <1>4, ConnectedCalm, ReceivedCalm, HeartbeatCalm
<1>5. ASSUME NEW t \in Slots, GetFails(t) \/ PostDone(t) \/ PostFails(t) PROVE Calm(io')
  BY <1>5, GetFailsCalm, PostDoneCalm, PostFailsCalm
<1>6. ASSUME NEW t \in Slots, Cut(t) \/ CloseTimeout(t) PROVE Calm(io')
  BY <1>6, CutCalm, CloseTimeoutCalm
<1>7. CASE HeartbeatTimeout \/ ConnectTimeout
  BY <1>7, HeartbeatTimeoutCalm, ConnectTimeoutCalm
<1>8. CASE StaleTimeout \/ ReconnectTimeout
  BY <1>8, StaleTimeoutCalm, ReconnectTimeoutCalm
<1>9. CASE UNCHANGED vars
  BY <1>9 DEF vars
<1>. QED BY <1>1, <1>2, <1>3, <1>4, <1>5, <1>6, <1>7, <1>8, <1>9 DEF Next

(* Once attempts have overlapped, that stays so. *)
LEMMA OverlapStays == ASSUME [Next]_vars, ~overlapped' PROVE ~overlapped
<1>1. CASE ConnectTimeout \/ ReconnectTimeout
  BY <1>1 DEF ConnectTimeout, ReconnectTimeout
<1>2. CASE UNCHANGED overlapped
  BY <1>2
<1>3. ConnectTimeout \/ ReconnectTimeout \/ UNCHANGED overlapped
  BY DEF Next, vars, Send, HandshakeAnswered, HandshakeFails, WebsocketOpens, WebsocketCloses,
         Connected, Received, Heartbeat, GetFails, PostDone, PostFails, Cut, CloseTimeout,
         HeartbeatTimeout, StaleTimeout, Does, DoesUnless
<1>. QED BY <1>1, <1>2, <1>3

(* As long as attempts to connect do not overlap, the socket is in one of  *)
(* its phases.                                                             *)
CalmUnlessOverlapped == ~overlapped => Calm(io)

(* A socket that is created shakes hands, if there is a transport to try.  *)
(* Without one it would connect for ever.                                  *)
LEMMA InitCalm == ASSUME Kinds # << >>, Init PROVE CalmUnlessOverlapped
<1>1. /\ io.connecting /\ ~io.connected /\ ~io.reconnecting /\ io.handshakes = 1
      /\ ~io.connectTimer /\ ~io.heartbeatTimer /\ ~io.redoTransports
      /\ io.staleTimers = 0 /\ io.told = "nothing"
      /\ io.transport = null /\ io.transports = Kinds
      /\ io.tr = [t \in Slots |-> Unused]
  BY DEF Init
<1>2. OthersRest(io)
  BY <1>1 DEF OthersRest, Resting, Unused
<1>3. Steady(io) /\ Shaking(io)
  BY <1>1 DEF Steady, Shaking
<1>. QED BY <1>2, <1>3 DEF CalmUnlessOverlapped, Calm

(* The phases are an invariant of the socket. *)
LEMMA CalmInvariance ==
    ASSUME Kinds # << >>
    PROVE  Spec => [](IInv /\ CalmUnlessOverlapped)
<1>1. Init => CalmUnlessOverlapped
  BY InitCalm
<1>2. IInv /\ CalmUnlessOverlapped /\ [Next]_vars => CalmUnlessOverlapped'
  BY NextCalm, OverlapStays DEF CalmUnlessOverlapped
<1>. QED BY <1>1, <1>2, Invariance, PTL DEF Spec

(* "make sure to flush the buffer" (Socket.onConnect): of a socket whose   *)
(* attempts to connect do not overlap, no message waits on a connection    *)
(* but for the answer to a post.  Page and server are taken to have a      *)
(* transport in common; the list is not empty.                             *)
THEOREM NothingStuckHolds ==
    ASSUME Kinds # << >>
    PROVE  Spec => []NothingStuck
<1>1. IInv /\ CalmUnlessOverlapped => NothingStuck
  <2>. SUFFICES ASSUME IInv, Calm(io), io.connected, io.buffer # << >>
                PROVE  io.doBuffer /\ io.tr[io.transport].posts > 0
    BY DEF CalmUnlessOverlapped, NothingStuck, BufferFlushed
  <2>1. Up(io)
    BY DEF Calm, Shaking, Opening, Down
  <2>2. io.doBuffer /\ io.tr[io.transport].posts > 0
    BY <2>1 DEF Up, Current
  <2>. QED BY <2>2
<1>. QED BY <1>1, CalmInvariance, PTL

(* What the page was told last is how the socket is, a connected socket    *)
(* has an open transport, after a drop it connects again or has reported   *)
(* that it gave up, and "connecting" ends by a handshake or a timer        *)
(* (Socket.connect, onConnect, onDisconnect and maybeReconnect), as long   *)
(* as attempts do not overlap and there is a transport to try.             *)
THEOREM PageKnowsHolds ==
    ASSUME Kinds # << >>
    PROVE  Spec => []PageKnows
<1>1. IInv /\ CalmUnlessOverlapped => PageKnows
  <2>. SUFFICES ASSUME Calm(io)
                PROVE  /\ io.told = "connect" <=> io.connected
                       /\ io.connected => io.tr[io.transport].isOpen
                       /\ io.told = "disconnect" => io.reconnecting \/ io.gaveUp
                       /\ io.connecting => io.handshakes > 0 \/ io.connectTimer \/ io.staleTimers > 0
    BY DEF CalmUnlessOverlapped, PageKnows
  <2>1. io.connected => Up(io)
    BY DEF Calm, Shaking, Opening, Down
  <2>2. io.connecting => io.handshakes = 1 \/ io.connectTimer
    BY DEF Calm, Shaking, Opening, Up, Down
  <2>3. io.connected => io.tr[io.transport].isOpen
    BY <2>1 DEF Up, Current
  <2>. QED BY <2>2, <2>3 DEF Calm, Steady
<1>. QED BY <1>1, CalmInvariance, PTL
=============================================================================
