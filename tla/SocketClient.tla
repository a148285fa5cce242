---------------------------- MODULE SocketClient ----------------------------
(***************************************************************************)
(* The socket.io client of the page (plugin/.../js/socket.io.js): the      *)
(* io.Socket that chat.js gets from io.connect, the transports it opens    *)
(* one after the other, and the timers that connect it again after a drop. *)
(*                                                                         *)
(* JavaScript runs one callback at a time, so a callback is one step; but  *)
(* the callbacks of a transport that was given up still arrive, timers     *)
(* that were overwritten still fire, and all of them act on the one Socket *)
(* that the next transport uses too.  A callback calls through several     *)
(* objects and back, so that its effect is written as a function from the  *)
(* state of the client to the next; the operators have the names of the    *)
(* methods.                                                                *)
(***************************************************************************)
EXTENDS Naturals, FiniteSets, Sequences, SequencesExt

CONSTANTS
    Slots,          \* transport objects; a dead one is used again
    Kinds,          \* the transports that client and server have in common
    MaxMessages,    \* messages of the page, numbered as they are sent
    MaxAttempts,    \* options['max reconnection attempts']
    MaxFaults,      \* how often the network or the server fails
    MaxPosts,       \* posts without an answer when a heartbeat arrives
    null

ASSUME SocketAssumption ==
    /\ null \notin Slots
    /\ Kinds \in Seq({"websocket", "xhr-polling"})
    /\ MaxMessages \in Nat
    /\ MaxAttempts \in Nat
    /\ MaxFaults \in Nat
    /\ MaxPosts \in Nat

VARIABLES
    io,         \* the io.Socket, its transports and its timers
    faults,     \* failures so far
    overlapped  \* whether an attempt to connect has begun before all of the
                \* earlier one was over

vars == <<io, faults, overlapped>>

(* A transport.  "idle" is one that has not been opened; a websocket is    *)
(* then in a readyState of the browser, a polling transport is open until  *)
(* it is closed.  posts counts the POST requests that have no answer yet,  *)
(* greeted says that the server's connect packet has arrived, link that    *)
(* the network still carries the connection.                               *)
Transport ==
    [kind : {"websocket", "xhr-polling"},
     ready : {"idle", "connecting", "open", "closing", "closed"},
     isOpen : BOOLEAN, closeTimer : BOOLEAN, posts : Nat,
     greeted : BOOLEAN, link : BOOLEAN]

(* staleTimers are connect timers that a later one has overwritten.        *)
(* sent is what the page has sent, handed what the browser was given to    *)
(* transmit, told the last event of the connection that the page heard.    *)
Client ==
    [connected : BOOLEAN, connecting : BOOLEAN, reconnecting : BOOLEAN,
     doBuffer : BOOLEAN, buffer : Seq(Nat),
     transport : Slots \cup {null}, transports : Seq(Range(Kinds)),
     attempts : Nat, redoTransports : BOOLEAN,
     handshakes : Nat, once : BOOLEAN,
     heartbeatTimer : BOOLEAN, reconnectTimer : BOOLEAN,
     connectTimer : BOOLEAN, staleTimers : Nat,
     tr : [Slots -> Transport],
     sent : Seq(Nat), handed : Seq(Nat),
     told : {"nothing", "connect", "disconnect"}, gaveUp : BOOLEAN]

TypeOK ==
    /\ io \in Client
    /\ faults \in 0..MaxFaults
    /\ overlapped \in BOOLEAN

Unused == [kind |-> "websocket", ready |-> "closed", isOpen |-> FALSE,
           closeTimer |-> FALSE, posts |-> 0, greeted |-> FALSE, link |-> TRUE]

(* new io.Socket with 'auto connect': the first handshake is under way.    *)
Init ==
    /\ io = [connected |-> FALSE, connecting |-> TRUE, reconnecting |-> FALSE,
             doBuffer |-> FALSE, buffer |-> << >>,
             transport |-> null, transports |-> Kinds,
             attempts |-> 0, redoTransports |-> FALSE,
             handshakes |-> 1, once |-> FALSE,
             heartbeatTimer |-> FALSE, reconnectTimer |-> FALSE,
             connectTimer |-> FALSE, staleTimers |-> 0,
             tr |-> [t \in Slots |-> Unused],
             sent |-> << >>, handed |-> << >>,
             told |-> "nothing", gaveUp |-> FALSE]
    /\ faults = 0
    /\ overlapped = FALSE

-----------------------------------------------------------------------------
(* Sending. *)

polling(S, t) == S.tr[t].kind = "xhr-polling"

heartbeats(S, t) == ~polling(S, t)

(* transport.send and .payload fail while a websocket is not open yet; one *)
(* that is closing or closed drops the data silently.                      *)
Throws(S) ==
    \/ S.transport = null
    \/ ~polling(S, S.transport) /\ S.tr[S.transport].ready \in {"idle", "connecting"}

(* A post turns buffering on until it is answered; it is the one buffering *)
(* of the socket, whichever transport posts and however many posts are     *)
(* under way.                                                              *)
post(S, t) == [S EXCEPT !.doBuffer = TRUE, !.tr[t].posts = @ + 1]

payload(S, msgs) ==
    LET H == [S EXCEPT !.handed = @ \o msgs]
    IN  IF polling(S, S.transport) THEN post(H, S.transport) ELSE H

(* Mutant: the buffer is not emptied. *)
mutantflushBuffer(S) == payload(S, S.buffer)

flushBuffer(S) == [payload(S, S.buffer) EXCEPT !.buffer = << >>]

setBuffer(S, v) ==
    LET B == [S EXCEPT !.doBuffer = v] IN
       IF ~v /\ S.connected /\ S.buffer # << >> /\ ~Throws(S)
       THEN flushBuffer(B) ELSE B

packet(S, m) ==
    IF S.connected /\ ~S.doBuffer THEN payload(S, <<m>>)
                                  ELSE [S EXCEPT !.buffer = Append(@, m)]

-----------------------------------------------------------------------------
(* Connecting, and connecting again. *)

connect(S) ==
    IF S.connecting THEN S
    ELSE [S EXCEPT !.connecting = TRUE, !.handshakes = @ + 1]

reconnect(S) ==
    [S EXCEPT !.reconnecting = TRUE, !.attempts = 0, !.reconnectTimer = TRUE]

reset(S) ==
    [S EXCEPT !.reconnecting = FALSE, !.attempts = 0,
              !.reconnectTimer = FALSE, !.redoTransports = FALSE]

(* Off while a socket reconnects, until it tries the transports once more. *)
tryMultiple(S) == S.reconnecting => S.redoTransports

(* A new object t for the first transport of the list, if there is one. *)
getTransport(S, t) ==
    IF S.transports = << >> THEN [S EXCEPT !.transport = null]
    ELSE [S EXCEPT !.transport = t,
                   !.tr[t] = [Unused EXCEPT !.kind = Head(S.transports),
                                            !.ready = "idle"]]

(* The last resort, when the attempts are used up: origTransports is the   *)
(* same array as transports, so that the assignment brings nothing back.   *)
redo(S, t) == connect([getTransport(S, t) EXCEPT !.redoTransports = TRUE])

(* Mutant: no new timer while a handshake is under way. *)
mutantmaybeReconnect(S, t) ==
    IF ~S.reconnecting THEN S
    ELSE IF S.connected THEN reset(S)
    ELSE IF S.connecting THEN S
    ELSE IF S.attempts < MaxAttempts
         THEN [connect(S) EXCEPT !.attempts = @ + 1, !.reconnectTimer = TRUE]
    ELSE IF ~S.redoTransports THEN redo(S, t)
    ELSE [reset(S) EXCEPT !.gaveUp = TRUE]

maybeReconnect(S, t) ==
    IF ~S.reconnecting THEN S
    ELSE IF S.connected THEN reset(S)
    ELSE IF S.connecting THEN [S EXCEPT !.reconnectTimer = TRUE]
    ELSE IF S.attempts < MaxAttempts
         THEN [connect(S) EXCEPT !.attempts = @ + 1, !.reconnectTimer = TRUE]
    ELSE IF ~S.redoTransports THEN redo(S, t)
    ELSE [reset(S) EXCEPT !.gaveUp = TRUE]

(* Nobody but maybeReconnect listens, and it only in the last resort. *)
connectFailed(S, t) == IF S.redoTransports THEN maybeReconnect(S, t) ELSE S

clearCloseTimeout(S) ==
    IF S.transport = null THEN S
    ELSE [S EXCEPT !.tr[S.transport].closeTimer = FALSE]

(* Polling is "open" at once, before any answer. *)
openPolling(S, t) ==
    [setBuffer(S, FALSE) EXCEPT
        !.tr[t] = [@ EXCEPT !.ready = "open", !.isOpen = TRUE, !.closeTimer = TRUE]]

openWebsocket(S, t) == [S EXCEPT !.tr[t].ready = "connecting"]

open(S, t) == IF polling(S, t) THEN openPolling(S, t) ELSE openWebsocket(S, t)

(* The function "connect" inside connect: the next transport of the list.  *)
(* The timer of an earlier one is overwritten, not cleared.                *)
connectVia(S, t) ==
    LET T == getTransport(clearCloseTimeout(S), t) IN
       IF T.transport = null THEN connectFailed(T, t)
       ELSE [open([T EXCEPT !.connecting = TRUE], t) EXCEPT
                !.connectTimer = TRUE,
                !.staleTimers = @ + (IF S.connectTimer THEN 1 ELSE 0)]

setHeartbeatTimeout(S) ==
    [S EXCEPT !.heartbeatTimer = S.transport # null => heartbeats(S, S.transport)]

(* The handshake is answered. *)
handshaken(S, t) ==
    [connectVia(setHeartbeatTimeout([S EXCEPT !.handshakes = @ - 1]), t)
        EXCEPT !.once = TRUE]

(* The list without the transports up to the current one. *)
remaining(S) ==
    LET before == { i \in DOMAIN S.transports : \A j \in 1..i :
                       S.transports[j] # S.tr[S.transport].kind }
    IN  SubSeq(S.transports, Cardinality(before) + 2, Len(S.transports))

(* After 'connect timeout'. *)
connectTimeout(S, t) ==
    LET N == [S EXCEPT !.connecting = FALSE]
        R == [N EXCEPT !.transports = remaining(S)]
    IN IF S.connected THEN S
       ELSE IF ~tryMultiple(S) THEN N
       ELSE IF R.transports = << >> THEN connectFailed(R, t)
       ELSE connectVia(R, t)

-----------------------------------------------------------------------------
(* Disconnecting. *)

(* Polling is closed at once, but a post under way is not taken back. *)
closePolling(S, t) ==
    [S EXCEPT !.heartbeatTimer = FALSE,
              !.tr[t] = [@ EXCEPT !.ready = "closed", !.isOpen = FALSE, !.closeTimer = FALSE]]

(* A websocket answers with onclose, later. *)
closeWebsocket(S, t) ==
    [S EXCEPT !.tr[t].ready = IF @ = "closed" THEN @ ELSE "closing"]

close(S, t) == IF polling(S, t) THEN closePolling(S, t) ELSE closeWebsocket(S, t)

(* close fails on a websocket that was never opened. *)
Closable(S) ==
    S.transport # null /\ (polling(S, S.transport) \/ S.tr[S.transport].ready # "idle")

(* Mutant: wasConnected is read after connected was cleared. *)
mutantonDisconnect(S) ==
    IF (S.connected \/ S.connecting) /\ Closable(S)
    THEN clearCloseTimeout(close([S EXCEPT !.connected = FALSE, !.connecting = FALSE],
                                 S.transport))
    ELSE [S EXCEPT !.connected = FALSE, !.connecting = FALSE]

(* Socket.onDisconnect, whichever transport it comes from. *)
onDisconnect(S) ==
    LET D == [S EXCEPT !.connected = FALSE, !.connecting = FALSE]
        C == clearCloseTimeout(close(D, S.transport))
        P == [C EXCEPT !.told = "disconnect"]
    IN IF ~(S.connected \/ S.connecting) \/ ~Closable(S) THEN D
       ELSE IF ~S.connected THEN C
       ELSE IF S.reconnecting THEN P
       ELSE reconnect(P)

(* Transport.onClose *)
onClose(S, t) ==
    onDisconnect([S EXCEPT
        !.heartbeatTimer = FALSE,
        !.tr[t] = [@ EXCEPT !.isOpen = FALSE, !.closeTimer = FALSE,
                            !.ready = IF polling(S, t) THEN "closed" ELSE S.tr[t].ready]])

(* The callback of the close timer, Transport.onDisconnect. *)
closeTimeout(S, t) ==
    LET C == IF S.tr[t].isOpen THEN close(S, t) ELSE S IN
       onDisconnect([C EXCEPT !.tr[t].closeTimer = FALSE])

-----------------------------------------------------------------------------
(* Receiving. *)

(* Mutant: what waited for the connection is not flushed. *)
mutantonConnect(S) ==
    LET C == [S EXCEPT !.connected = TRUE, !.connecting = FALSE, !.told = "connect"]
        R == IF S.reconnecting THEN reset(C) ELSE C
    IN IF S.once THEN [R EXCEPT !.connectTimer = FALSE, !.once = FALSE] ELSE R

(* Socket.onConnect, and the connect event for the page after it.  Neither *)
(* happens for an exception from the flush.                                *)
onConnect(S) ==
    LET C == [S EXCEPT !.connected = TRUE, !.connecting = FALSE]
        F == IF S.doBuffer THEN C ELSE setBuffer(C, FALSE)
        R == IF S.reconnecting THEN reset(F) ELSE F
        T == IF S.once THEN [R EXCEPT !.connectTimer = FALSE, !.once = FALSE] ELSE R
    IN IF S.connected THEN [S EXCEPT !.told = "connect"]
       ELSE IF ~S.doBuffer /\ S.buffer # << >> /\ Throws(S) THEN C
       ELSE [T EXCEPT !.told = "connect"]

onData(S, t) ==
    setHeartbeatTimeout([S EXCEPT !.tr[t].closeTimer =
                                     S.connected \/ S.connecting \/ S.reconnecting])

(* Transport.onHeartbeat sends the heartbeat back, past the buffer: over   *)
(* polling that is a post, beside one that may be under way.               *)
onHeartbeat(S, t) == IF polling(S, t) THEN post(S, t) ELSE S

-----------------------------------------------------------------------------
(* The callbacks, and the world that calls them. *)

Free == { t \in Slots \ {io.transport} :
            /\ io.tr[t].ready \in {"idle", "closed"}
            /\ io.tr[t].posts = 0 /\ ~io.tr[t].closeTimer }

Fresh == CHOOSE t \in Free : TRUE

Does(S) == io' = S /\ UNCHANGED <<faults, overlapped>>

Fault == faults < MaxFaults /\ faults' = faults + 1

DoesUnless(ok, S) ==
    /\ IF ok THEN UNCHANGED faults ELSE Fault
    /\ io' = S
    /\ UNCHANGED overlapped

(* The server is heard over such a transport once in 25 seconds at least,  *)
(* sooner than the heartbeat and close timers (60 seconds) end.            *)
Audible(t) == io.tr[t].ready = "open" /\ io.tr[t].link

(* Connect timers (10 seconds) end sooner too. *)
Silence ==
    /\ ~io.connectTimer /\ io.staleTimers = 0
    /\ \A t \in Slots : ~Audible(t)

(* Nothing that belongs to an earlier attempt can call back any more. *)
Settled ==
    /\ io.handshakes = 0 /\ ~io.connectTimer /\ io.staleTimers = 0
    /\ \A t \in Slots : io.tr[t].ready \in {"idle", "closed"} /\ io.tr[t].posts = 0

(* The page sends.  When the transport throws, nothing changes. *)
Send ==
    /\ Len(io.sent) < MaxMessages
    /\ io.connected /\ ~io.doBuffer => ~Throws(io)
    /\ LET m == Len(io.sent) + 1
       IN  Does([packet(io, m) EXCEPT !.sent = Append(@, m)])

HandshakeAnswered ==
    /\ io.handshakes > 0
    /\ Free # {}
    /\ Does(handshaken(io, Fresh))

(* Mutant: the answer is handled a second time. *)
mutantHandshakeFailsTwice ==
    DoesUnless(FALSE, [io EXCEPT !.handshakes = @ - 1, !.connecting = FALSE])

(* Mutant: connecting stays set. *)
mutantHandshakeFails ==
    /\ io.handshakes > 0
    /\ DoesUnless(FALSE, [io EXCEPT !.handshakes = @ - 1])

HandshakeFails ==
    /\ io.handshakes > 0
    /\ DoesUnless(FALSE, [io EXCEPT !.handshakes = @ - 1, !.connecting = FALSE])

(* websocket.onopen *)
WebsocketOpens(t) ==
    /\ io.tr[t].ready = "connecting" /\ io.tr[t].link
    /\ LET S == [io EXCEPT !.tr[t] =
                   [@ EXCEPT !.ready = "open", !.isOpen = TRUE, !.closeTimer = FALSE]]
       IN  Does(setBuffer(S, FALSE))

(* websocket.onclose: because the client has called close, because the     *)
(* server or the network ends the connection, or because there was none.   *)
WebsocketCloses(t) ==
    /\ ~polling(io, t)
    /\ io.tr[t].ready \in {"connecting", "open", "closing"}
    /\ LET S == onClose([io EXCEPT !.tr[t].ready = "closed"], t)
           fails == (io.connected \/ io.connecting) /\ ~Closable(io)
       IN DoesUnless(io.tr[t].ready = "closing" \/ ~io.tr[t].link,
                     IF fails THEN S ELSE setBuffer(S, TRUE))

(* The connect packet that the server sends first. *)
Connected(t) ==
    /\ Audible(t) /\ ~io.tr[t].greeted
    /\ Does(onConnect(onData([io EXCEPT !.tr[t].greeted = TRUE], t)))

(* A message. *)
Received(t) ==
    /\ Audible(t) /\ io.tr[t].greeted
    /\ Does(onData(io, t))

Heartbeat(t) ==
    /\ Audible(t) /\ io.tr[t].greeted
    /\ polling(io, t) => io.tr[t].posts < MaxPosts
    /\ Does(onHeartbeat(onData(io, t), t))

GetFails(t) ==
    /\ polling(io, t) /\ io.tr[t].ready = "open"
    /\ DoesUnless(~io.tr[t].link, onClose(io, t))

PostDone(t) ==
    /\ io.tr[t].posts > 0 /\ io.tr[t].link
    /\ Does(setBuffer([io EXCEPT !.tr[t].posts = @ - 1], FALSE))

PostFails(t) ==
    /\ io.tr[t].posts > 0
    /\ DoesUnless(~io.tr[t].link, onClose([io EXCEPT !.tr[t].posts = @ - 1], t))

(* The network drops without a word. *)
Cut(t) ==
    /\ io.tr[t].ready \in {"connecting", "open"} /\ io.tr[t].link
    /\ DoesUnless(FALSE, [io EXCEPT !.tr[t].link = FALSE])

HeartbeatTimeout ==
    /\ io.heartbeatTimer /\ Silence
    /\ LET S == [io EXCEPT !.heartbeatTimer = FALSE]
       IN Does(IF S.transport = null THEN S ELSE onClose(S, S.transport))

CloseTimeout(t) ==
    /\ io.tr[t].closeTimer /\ Silence
    /\ Does(closeTimeout(io, t))

(* It is a fault when a connection takes longer than the timer. *)
ConnectTimeout ==
    /\ io.connectTimer /\ io.transport # null
    /\ Free # {}
    /\ LET late == ~io.connected /\ io.tr[io.transport].ready \in {"connecting", "open"}
       IN /\ IF late /\ io.tr[io.transport].link THEN Fault ELSE UNCHANGED faults
          /\ overlapped' = (overlapped \/ late)
    /\ io' = connectTimeout([io EXCEPT !.connectTimer = FALSE], Fresh)

StaleTimeout ==
    /\ io.staleTimers > 0 /\ io.transport # null
    /\ Free # {}
    /\ Does(connectTimeout([io EXCEPT !.staleTimers = @ - 1], Fresh))

(* No sooner than 500 milliseconds after the drop: a closing handshake     *)
(* with a server that answers is over by then.                             *)
ReconnectTimeout ==
    /\ io.reconnectTimer
    /\ \A t \in Slots : io.tr[t].link => io.tr[t].ready # "closing"
    /\ Free # {}
    /\ io' = maybeReconnect([io EXCEPT !.reconnectTimer = FALSE], Fresh)
    /\ overlapped' = (overlapped \/ (~io.connected /\ ~io.connecting /\ ~Settled))
    /\ UNCHANGED faults

Next ==
    \/ Send
    \/ HandshakeAnswered
    \/ HandshakeFails
    \/ \E t \in Slots :
          \/ WebsocketOpens(t) \/ WebsocketCloses(t)
          \/ Connected(t) \/ Received(t) \/ Heartbeat(t)
          \/ GetFails(t) \/ PostDone(t) \/ PostFails(t)
          \/ Cut(t)
          \/ CloseTimeout(t)
    \/ HeartbeatTimeout
    \/ ConnectTimeout
    \/ StaleTimeout
    \/ ReconnectTimeout

Spec == Init /\ [][Next]_vars

(* Answers arrive and timers end.  That something fails is never owed,     *)
(* except over a network that is cut.                                      *)
NoFault(A) == A /\ faults' = faults

FairSpec ==
    /\ Spec
    /\ WF_vars(HandshakeAnswered)
    /\ WF_vars(HeartbeatTimeout)
    /\ WF_vars(NoFault(ConnectTimeout))
    /\ WF_vars(StaleTimeout)
    /\ WF_vars(ReconnectTimeout)
    /\ \A t \in Slots :
          /\ WF_vars(WebsocketOpens(t))
          /\ WF_vars(NoFault(WebsocketCloses(t)))
          /\ WF_vars(Connected(t))
          /\ WF_vars(NoFault(GetFails(t)))
          /\ WF_vars(PostDone(t))
          /\ WF_vars(NoFault(PostFails(t)))
          /\ WF_vars(CloseTimeout(t))

-----------------------------------------------------------------------------
(* Correctness. *)

(* What the browser was given to transmit and what still waits in the      *)
(* buffer are together what the page has sent, in that order: a flush, a   *)
(* post and a change of the transport lose, repeat or overtake nothing,    *)
(* whatever the callbacks of transports that were given up do.             *)
SentInOrder == io.handed \o io.buffer = io.sent

(* A socket that connects again has a timer that will see to it, or waits  *)
(* for the last resort (Socket.reconnect and its maybeReconnect).          *)
ReconnectDriven ==
    io.reconnecting => io.reconnectTimer \/ io.redoTransports

(* "make sure to flush the buffer" (Socket.onConnect): on a connection,    *)
(* messages wait for the answer to a post and for nothing else.            *)
BufferFlushed ==
    io.connected /\ io.buffer # << >> =>
       io.doBuffer /\ io.tr[io.transport].posts > 0

(* The same, of a socket whose attempts to connect do not overlap. *)
NothingStuck == ~overlapped => BufferFlushed

(* As long as attempts do not overlap: connected means that the page has   *)
(* heard so and that its transport is open; after the page has heard of a  *)
(* drop the socket connects again or has reported that it gave up; and     *)
(* "connecting", which keeps connect and maybeReconnect from doing         *)
(* anything, is held by a handshake or a timer that will end it.           *)
PageKnows ==
    ~overlapped =>
       /\ io.told = "connect" <=> io.connected
       /\ io.connected => io.tr[io.transport].isOpen
       /\ io.told = "disconnect" => io.reconnecting \/ io.gaveUp
       /\ io.connecting => io.handshakes > 0 \/ io.connectTimer \/ io.staleTimers > 0

(* The handshake of the last resort has failed: no timer is left and       *)
(* reconnect_failed is never reported.                                     *)
Wedged == io.redoTransports /\ ~io.connecting /\ ~io.reconnectTimer

(* As long as attempts do not overlap, a socket that reconnects comes to   *)
(* an end of it: connected, or reconnect_failed, or wedged as above.       *)
Recovers == [](~overlapped) => (io.reconnecting ~> ~io.reconnecting \/ Wedged)
=============================================================================
