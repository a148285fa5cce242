# Verification of the Jenkins group chat plugin

TLA+ modules, TLC configurations and TLAPS proofs for the Jenkins group chat
plugin: the chat server and its data classes, the chat page, and the parts of the
page's libraries that decide what the page can rely on. Paths below are relative
to the repository; `lib/` stands for `lib/src/main/java/edu/illinois/t25/`,
`plugin/` for `plugin/src/main/java/org/jenkinsci/plugins/chat_client/` and
`webapp/` for `plugin/src/main/webapp/`.

## The system

A Jenkins plugin (`ChatClientPlugin`) starts one `ChatServer` on port 1214.
Every Jenkins page embeds the chat page, which opens a socket.io session to the
server. The server gives each remote address a name, tells every page who comes
and goes, and forwards messages by name.

| Part | State | Operations | Hard behaviour |
|---|---|---|---|
| `lib/net/ChatServer.java` | the listing, the library's live collection of sessions | `onConnect`, `onDisconnect`, `onData`, the two `sendMessage`, `shutdown` | handlers of different sessions run on several worker threads; only sending is synchronized |
| `lib/data/ClientListing.java` | two Hashtables, address to user and name to address; the file | `add`, lookups, `save`, import at construction | `add` writes the tables one after the other; names may repeat; the export truncates first and reads a table that changes |
| `plugin/ChatClientPlugin.java` | the server instance | `start`, `stop` | shutdown and restart while pages live on |
| `webapp/chat.js` | buddy list, open conversations by position, status | socket events, clicks, sending, receiving | positions into another array, a message without a box |
| `webapp/chatbox.js` | one widget per box: offset, title, log, lock of the highlight | create, set option, add message, close | callbacks into `chat.js`; the lock is released by the end of an animation |
| `webapp/js/socket.io.js` | one `io.Socket`, its transports and timers | handshake, connect, send, close, reconnect | late callbacks of transports that were given up, timers that were overwritten |
| `webapp/js/jquery-1.9.1.js`, promises | callback lists, `readyList`, `readyWait` | `done`, `fail`, `always`, `progress`, `resolve`, `notify`, `$(function)`, `holdReady` | handlers that call back into the list that calls them, or throw |
| `webapp/js/jquery-1.9.1.js`, effects | queues, hooks, timers | `queue`, `dequeue`, `delay`, `animate`, `stop`, `finish` | ends of animations that start others while the list of timers is walked |
| `lib/data/UserGroup.java` | parent and children of each group | add, delete, set parent, restore | operations keep only one direction up to date; cycles make the traversals endless |
| `lib/data/GroupDatabase.java`, `lib/data/ChatHistory.java` | tables in one SQLite file `test.db` | start-up, insert, select, parent change | the file is taken for the table; crashes between file, table and commit |
| `lib/data/UserLibrary.java`, `lib/data/JenkinsUser.java` | table of users by address, a text file | registration, reload | table and file written separately |
| `lib/net/SocketAddressParser.java`, `ChatMessage`, `ConnectMessage`, `lib/misc/Pair.java` | none, or immutable | parsing, getters | |
| `plugin/ChatClientDecorator.java`, `plugin/ChatClientRunListener.java`, `webapp/js/jquery.tzCheckbox.js` | none; the sound switch | markup, printing, toggling | |

Interactions: the library calls the three listeners of the server, one at a time
for a session but concurrently for different ones. The listeners share the
listing without a lock, and send on the first-in first-out channels of the
sessions. A page turns `connection-change` events into its buddy list and status,
`message` events into lines of a box, clicks into boxes, and input into messages
that name their recipient; `chat.js` is started by `$(function)`, talks through
`io.connect`, and its boxes highlight themselves with an effect. `UserGroup`,
`GroupDatabase`, `ChatHistory` and `UserLibrary` are connected to nothing that
runs: they are used by their tests (and the first by the second). The pieces that
interact are composed: `ChatServer` contains the listing, and what its events make of
the buddy list of each page; `Ready` runs over `Deferred`; `Effects` contains the
highlight of a chat box.

What makes each part correct:

- listing: the tables agree; a name that somebody was told can be looked up; what
  is saved and loaded renames nobody;
- server: an address keeps its name; messages are signed truthfully and reach whom
  they name; after their `onConnect`, sessions know each other; every handler ends;
- page: conversations, boxes and flags agree; boxes stand side by side; a status is
  shown alike everywhere; nothing shown is lost;
- socket: messages keep their order; nobody waits for nothing; reconnecting ends;
- promises: each handler is called once, in order; no `$(function)` is lost;
- effects: one function of a queue at a time; every call ends; the lock is released;
- groups: a restored tree is the stored one, in both directions; storage: what went
  through is found again, after any crash.

## Modules

| Module | Role |
|---|---|
| `ClientListing` | the two tables, the import of a file, `add` in its two table operations |
| `ChatServer` | extends `ClientListing` with sessions, workers and the three listeners |
| `ChatRouting` | abstract specification: a registry that only grows, and truthful routing |
| `ChatServerProofs` | theorems about `ChatServer` |
| `ChatClient`, `ChatClientProofs` | the page: `chat.js` with the parts of `chatbox.js` that it drives; theorems |
| `SocketClient`, `SocketClientProofs` | `io.Socket`, its transports and timers; theorems |
| `Promise` | abstract specification of a promise |
| `Deferred`, `Ready`, `ReadyProofs` | `jQuery.Callbacks` and `Deferred`; `jQuery.ready` and `holdReady` over them; theorems about both |
| `Effects`, `EffectsProofs` | the effects queue, animations, delays, stop and finish, the highlight of a box; theorems |
| `UserGroup`, `UserGroupProofs` | groups, their links and `restoreGroup`; theorem |
| `ListingStore` | extends `ClientListing` with `save`, crashes and restarts |
| `UserLibrary` | registration of users in table and file |
| `ChatHistory` | the two tables of the SQLite file |
| `StorageProofs` | theorems about `UserLibrary`, `ChatHistory` and `ListingStore` |
| `MCChatServer`, `MCChatClient`, `MCSocketClient`, `MCReady`, `MCEffects`, `MCRecords` | instances for TLC; `MCRecords` runs the four data classes side by side |

Definitions whose name begins with `mutant` are slips that a property must detect
(a dropped guard, a wrong index, a missing broadcast); no specification uses them.

### `ClientListing` and `ChatServer`

`mClientMap` and `mAddressMap` are the fields of those names; a `JenkinsUser` is
its name. The construction of the tables from a file is stated without a loop: a
line is accepted if it and all before it parse and no earlier line has its address;
an address has the name of its accepted line, a name the address of the last.

`pc[c]` says how far session `c` has come. `onConnect` is cut where other threads
can see or change something in between:

| Action | Code |
|---|---|
| `Accept` | the library adds the session to its collection, before the listener runs |
| `KeepName` | lines 180-183 when the address is listed; `add` then does nothing |
| `TakeName`, `PutAddress` | lines 180-183 when it is not: the two `put`s of `ClientListing.add` |
| `Announce` | lines 186-187, one step because `sendMessage` is synchronized |
| `StartRoster`, `Tell`, `TellFails`, `EndRoster` | the loop of lines 191-198, outside the monitor |
| `onDisconnect` | lines 207-210 |
| `LookUp` | lines 80-82 and 142: `sendMessage` takes the monitor and the name is looked up |
| `Send` | lines 145-149 and 85: the sessions are gone through and the message is sent, with the sender's name of line 220, which cannot change |
| `Close` | the library removes the session from its collection, then calls `onDisconnect` |

The check `listed` at line 180, the name lookup and the `containsKey` of `add` are
one step because only the handler of the session at an address writes the entry of
that address. `Tell` reads a name and sends it in one step for the same reason: the
name of an address does not change.

`monitor` is that of the server object, held between `LookUp` and `Send`: no other
message, broadcast or `getConnectedClients` happens in between, but names are listed,
sessions come and go and the loops of `onConnect` go on, since none of them takes it. A
broadcast is one step, since nothing that it reads changes meaning in the middle of it.

The library is external and modelled from how the server uses it: a session is in
`getAllClients()` before `onConnect` and no longer there in `onDisconnect`; handlers
of one session do not overlap; at most `Workers` handlers run at once; no two
connected sessions have the same remote address, but a later one may have an
earlier one's; an exception in a listener ends that call and not the session. The
collection is live and weakly consistent: `roster[c][d]` is "ahead" if the loop of
`c` is to come to `d`. A session that is there from start to end is met; one that
ends may still be met; one that opens meanwhile may be met, at the model's choice.
A slot of `Clients` is used again after `onDisconnect`, so runs do not end; a loop
meets a slot once. Broadcasts are atomic although the collection may change during
one: a session that comes or goes then is on one side of it.

`presence[c][n]` is what the page of session `c` shows of name `n` after the events
sent to it so far. Channels keep order, so this is the page's view as soon as it has
caught up; as in `chat.js`, an offline event for a name that is not on the buddy
list does nothing. `chat[m]` records how message `m` was signed and routed.

### `ChatClient`

JavaScript runs a handler to its end, so each action is a whole handler with its
calls. `talkingList` holds positions in `buddyList`, as in the code, `indexOf`
returns 0 for the code's -1, and `spliceOne` keeps the meaning of `splice(-1, 1)`.
`friends` is the status in the row of a buddy, `box[b]` the widget with its offset,
title and log. `onMessageReceive` without a box throws in the code (jQuery's plugin
call on an empty set returns the set, which has no `addMsg`): the message is in
`lost`. Any event may come at any time; a message is used once. Time stamps, sound,
focus, minimising and the highlight animation are left out.

### `SocketClient`

A callback is one step, written as a function from one state of the client to the
next, since it calls through `Socket` and `Transport` and back; the operators have
the names of the methods. A transport object is a slot that is used again once the
browser has nothing more to report of it, so late callbacks are always possible:
`WebsocketCloses`, `GetFails`, `PostDone`, `CloseTimeout`, `StaleTimeout` (an
overwritten connect timer). `Cut` is the network, and `faults` bounds failures;
answers that must come are under fairness. A
`Heartbeat` is a packet like others (`setHeartbeatTimeout`), and is sent back past the
buffer: over polling by a POST (`post`), which turns buffering on and may be under way
beside the POST of a message. `posts` counts what is under way; `MaxPosts` bounds it when a
heartbeat arrives. `overlapped` becomes true when an attempt
begins before the earlier one is altogether over: this can happen, and several
properties hold only until it does.

Taken to be immediate is the delay of polling until the document is ready. Not
modelled: error packets with advice, `disconnect()` by the page and `disconnectSync`,
handshakes that are refused with 403, the flashsocket, htmlfile and jsonp transports,
other namespaces and acknowledgements; the page uses none of them. When a callback
throws inside a GET's handler, the GET loop is taken to go on.

### `Deferred`, `Ready` and `Promise`

The loops of `fire` that have begun are `frames`, the innermost first; code of the
page may run when there is none, or when the innermost has called a handler that has
not returned. It may then register, settle, notify or throw. `Ready` adds the events
of the browser as `jQuery.ready` listens to them, its timer, and `holdReady`. `Promise`
is what it is all for, without lists and indices, and `Deferred` implements it
(`ImplementsPromise`). `afterCall` is what a callback of Deferred's own does to the three
lists of its promise. That all handlers get called in the end holds until one throws:
the exception leaves `firing` set, and the list calls nobody any more (`threw`).
Not modelled: `then`, `pipe`, `when`, the options `unique` and `stopOnFalse`, `remove`
and `empty`, and the branches for old Internet Explorers.

### `Effects`

A call of the page, a tick of the interval timer or a timeout begins a turn, in which one
call of jQuery leads to the next: the end of an animation dequeues and so starts another,
while a loop over the list of timers waits to go on. The code nests these calls; here each
of them, and each round of a loop, is a step (`Called`, `Loops`). What is called next is on
`fx.todo`, and `fx.loop` is the loop of `stop`, `finish` or `tick` with its index, or the
second `effect` of `highlightBox`; there is never more than one of them, since what a
callback starts does not loop. The state of the effects is one record, and every operator
maps such a record to the next and has the name of the function it stands for. Nothing
else happens in the middle of a turn, and `BetweenTurns` tells the states the page can see.
Durations are in ticks. A box's highlight is the `highlight` and the `bounce` of
`chatbox.js` with `highlightLock`, the bounce shortened to two animations. `forgotten`
and `stranded` record the two ways in which `stop` leaves a queue in disorder (a
delay's hooks dropped while its timeout goes on; its timeout cleared without a
dequeue); the properties state what still holds then. An animation that is settled has
deleted `tick.elem` (lines 8711-8714), so the loops of `stop` and `finish` do not find it by
its element any more (`Of`); `stop` and the `splice` after it are one round, since the
callbacks of what it stops only append to the timers. Not modelled: named
queues other than `fx`, `fn.promise`, tweens and CSS values, `show`, `hide` and
`toggle`, functions queued by the page, `jQuery.fx.off`.

### The data classes

`UserGroup`: each method is an action and may be called on any groups in any order, with
whatever inconsistent parents and lists that leads to; `MaxLinks` bounds the entries of
the lists. A group may be several times in a list, and may be added to itself, as in the
code. The two traversals are sets closed under `parent` and under the lists (`Above`,
`Below`); calls that do nothing, overflow the stack or loop for ever on a cycle are not
steps. `restoreGroup` is a text that is read (`reading`, `outer`), a link at a time,
children first (`linkChild`: `addChild`, whose answer is not looked at, then `setParent`).
It works on groups that nobody else has yet, so other calls wait until it has returned.
`ListingStore`: the loop of `save` entry by entry with its buffer, over a table that an
`add` on another thread may change (the iterator then throws, and the buffer is lost with
the writer), and a restart that imports what is on the disk. `UserLibrary`: table first,
file second, with failed writes (caught and forgotten), reloads and kills. `ChatHistory`:
start-up, and `insert` statement by statement with auto-commit off; `dbStartup` takes the
file for the table, which `GroupDatabase` may have made; a selection is the set of the
numbers of the rows that it returns, and they come in the order of those; `CheckParent`
answers 0 whatever it is asked, and nothing reads the parents. Not modelled: lines written
half, two registrations at a time, a locked database file, names that contain the
separator.

## Runs

| Run | Shows | Bounds |
|---|---|---|
| `server_routing` | types; the tables agree; known names are routable; no message missed; nobody falls between loop and broadcast; authors are on the buddy list; `ChatServer` implements `ChatRouting` | 3 sessions, 3 addresses, 3 names (2 anonymous), 1 message, 2 workers, listing files of three shapes: none, a name twice, an address twice with a broken line |
| `server_live` | sessions that stay meet | 2 sessions, 2 addresses, 2 names, 1 message, 2 workers, with fairness |
| `roster_race` | violated: the loop throws on a session without a name | 3 sessions, 3 addresses, 3 names, 2 workers |
| `departed_shown` | violated: a page shows a departed name as online | 2 sessions, 2 addresses, 2 names, 2 workers |
| `page` | conversations, layout, status and logs stay consistent | 3 buddies, 2 messages |
| `message_lost` | violated: a message without a box is not shown | 2 buddies, 1 message |
| `socket` | order of messages, no lost wake-up, the page knows the truth, reconnecting ends | 3 slots, websocket then polling, 2 messages, 1 attempt, 2 failures, 2 posts at a heartbeat |
| `socket_overlap` | violated: messages of a connected page stay in the buffer | the same |
| `ready` | promises implement `Promise`; notifications in order; functions run when ready, and are not lost | 2 promises, 3 functions, 2 notifications, 1 hold |
| `effects` | one function of a queue at a time, in order; no queue waits for nobody; callbacks once; every call ends but the stranded; the lock is released | 1 free element and a box, durations 0 and 2, 4 calls, 2 stops |
| `records` | a restored tree is the stored one; names survive torn saves; registrations and stored messages survive crashes | 4 groups, 3 links; 3 addresses, 2 names; 2 hosts, 2 users, 3 lines; 3 messages, 2 rows |
| `group_upper` | violated: `addChild` accepts an upper-level group | the same |

Why the bounds are enough:

- Server: the races are between two handlers, and the third session is the bystander
  who should have been told, or the second use of an address. Two anonymous names
  suffice for both a collision and none. Messages do not interact, so one of them
  meets every state.
- Page: with three buddies a box can be closed to the left of one and to the right of
  another.
- Socket: a third slot is needed for a transport that is opened while the late
  callbacks of two earlier ones are still due; two failures are a drop and a failed
  attempt to come back. `Wedged` needs the last resort, which one attempt reaches.
- Ready: three functions are one that acts from inside a loop, one that it adds, and
  one behind it. Effects: four calls fill a queue behind a delay and leave one
  outside of it.
- Records: four groups are a group with links of its own making and a tree of three that
  is restored beside it, or a tree of four; three links join all of a tree.

Symmetry is used where the members of a set are alike: sessions, and in `server_routing`
addresses and anonymous names (the listing files are there for every choice of addresses,
so that none is special); buddies and messages; groups. No run with a liveness property
uses it.

Constraints: `InOrder` (`ready`) orders functions that are alike, so it leaves out
renamings only. `FewHandshakes` (`socket`) does not follow states with more than one
handshake under way once attempts have overlapped; the run without it finds no error
either, in more than twice the states, and `Recovers`, about behaviours in which no attempts
overlap, loses none of them. `CHECK_DEADLOCK FALSE` stands where the bounds on
calls, messages or rows let the system come to rest.

### Fairness

- `ChatServer`: weak fairness of each session's `onConnect`, `onDisconnect` and `Send`. A
  handler that has begun is code on a scheduled thread; the only thing it waits for is
  the monitor, which `Send` gives back. Nobody is obliged to connect,
  send or leave.
- `SocketClient`: requests are answered and timers fire. Failures are owed by nobody,
  except over a network that has been cut.
- `Ready`: a turn of the script ends, the document is loaded, timers fire, and a page
  that holds the event releases it.
- `Effects`: a turn that has begun goes on, and the browser's interval timer and timeouts
  fire. The three weak fairness conditions are written with the condition under which
  the step is enabled spelled out, because `ENABLED` is slow to evaluate there.

### Disagreements between code and documentation

- `roster_race`: `ChatServer.java:189` promises the new client "all the users
  currently connected". A session that another worker has accepted but not listed
  makes line 194 throw, and the rest of the loop is lost.
- `departed_shown`: `FinalDocumentation.tex:279-284` says that a departure is broadcast to
  all, and that their pages show it. The loop of `onConnect` is outside of the monitor: its
  `(name, true)` can be sent to the new page after the broadcast `(name, false)`, and the
  page shows the user online from then on.
- `message_lost`: `FinalDocumentation.tex:293` says that a received message populates
  its chat box. Without an open box the handler throws.
- `socket_overlap`: `socket.io.js:1895` says "make sure to flush the buffer". A websocket is
  given up by the connect timer; polling, opened in its place, is given up too, but stays
  open; the late `onclose` of the websocket turns `doBuffer` on (line 2382); then polling
  connects. The messages wait with no post under way, until some other post is answered,
  such as the answer to the server's next heartbeat (lines 3150-3151).
- `group_upper`: the test `preventAddingUpperLevelGroups` (`UserGroupTest.java:25`) and the
  Javadoc of `addChild` (`UserGroup.java:36-37`, "sets the parent attribute") say that a
  group above this one is refused. The test builds its groups with the constructor, which
  sets the parents; of groups linked by `addChild` itself, which does not, the loop meets
  nobody, and two groups can be each other's children.

## Proofs

Every theorem is for any values of the constants that satisfy the named assumptions
(null values are not members of the sets they are used with, bounds are naturals,
`BoxOffset` is positive, listing files are sequences of lines, no function of the page is
one of Deferred's own callbacks, the lengths of animations have a longest). One
hypothesis is stated in the theorems that need it: `NothingStuckHolds` and `PageKnowsHolds`
ask that there is a transport to try (`Kinds # << >>`), as in the run `socket`; without
one, `Socket.connect` leaves `connecting` set for ever (`socket.io.js:1715`), and `PageKnows`
is false.

| Module | Theorem | States |
|---|---|---|
| `ChatServerProofs` | `TypeCorrect` | `[]TypeOK` |
| | `ListingConsistent` | `[]MapsAgree` |
| | `KnownNamesAreRoutable` | `[]KnownNamesRoutable` |
| | `EverybodyIsKnown` | `[]MutualKnowledge` |
| | `NobodyIsMissed` | `NoMessageMissed` |
| | `AuthorsAreKnown` | `AuthorInBuddyList` |
| | `RoutingImplemented` | `ImplementsRouting` (refinement of `ChatRouting`) |
| `ChatClientProofs` | `PageTyped` | `[]TypeOK` |
| | `ConversationsStayConsistent` | `[]ConversationsAgree` |
| | `LayoutIsTight` | `[]BoxesSideBySide` |
| | `StatusIsShownAlike` | `[]StatusShownAlike` |
| | `LogsOnlyGrow` | `ConversationKept` |
| `SocketClientProofs` | `SocketTyped` | `[]TypeOK` |
| | `SentInOrderHolds` | `[]SentInOrder` |
| | `ReconnectDrivenHolds` | `[]ReconnectDriven` |
| | `NothingStuckHolds` | `[]NothingStuck`, if there is a transport |
| | `PageKnowsHolds` | `[]PageKnows`, if there is a transport |
| `ReadyProofs` | `ReadyTypes` | `[]ReadyTypeOK` |
| | `DeferredKeepsPromise` | `ImplementsPromise` (refinement of `Promise`) |
| | `NotBeforeReady` | `CalledWhenReady` |
| | `NewsComesInOrder` | `[]NewsInOrder` |
| `UserGroupProofs` | `RestoreGivesBack` | `[]RestoredAsStored` |
| `EffectsProofs` | `EffectsTyped` | `[]TypeOK` |
| | `InTurnHolds` | `[]InTurn` |
| | `DrivenHolds` | `[]Driven` |
| | `CalledOnceHolds` | `[]CalledOnce` |
| `StorageProofs` | `RegistrationsLast` | `[]RegistrationKept` |
| | `InsertsLast` | `[]InsertedIsFound` |
| | `NamesSurvive` | `[]NameSurvives` |

**Server.** The inductive invariant `IInv` has four layers, each proved with those
before it.

1. `Typed`: types; sessions at work have an address, and a name from registration
   on. `TypeOK` alone is not inductive, since `PutAddress` stores what it reads.
2. `ListingInv`: `MapsAgree`; every enrolled name is in the second table or its
   session is between the two puts (`EnrolledOrPending`); no two connected sessions
   share an address, so that the gap belongs to one session.
3. `KnowledgeInv`: names known to a page are names of addresses; while a loop runs,
   whoever is announced and unknown to its page is still ahead of it
   (`RosterCovers`); hence `MutualKnowledge` when the loop ends. This is why no lock
   is needed there: who was announced before the session opened is in the collection
   when the loop starts, and who was announced later was broadcast to the session.

4. `LookupInv`: while a message holds the monitor, the address that its name led to still
   has that name (`LookupTrue`), and with distinct names it is the address of every session
   announced under it (`LookupFindsAnnounced`). The second is what the lookup before the
   walk over the sessions needs: `add` may list names in between, but a session is only
   announced under the monitor, and the second table had its name before that.

The action properties and the refinement follow from `IInv` step by step; a message is
routed by `Send`, and `SendOutcome` says how. Steps that cannot disturb a layer are handled
by one lemma (`ListingUndisturbed`, `KnowledgeUndisturbed`).

**Page.** `IInv` is the four properties and `OfflineUnlessListed`, which makes the first
event about a buddy write its row. The page finds a conversation by two searches by
position; that both find it, and find one (`ConversationFound`), or that neither does
(`NotTalking`), follows from `ConversationsAgree` in the step before. `Spliced` says
what `splice(i, 1)` leaves; closing then moves exactly the later boxes (`CloseKept`).

**Socket.** `SentInOrder` is not inductive: `Socket.packet` hands a message over at once
when the socket is connected and does not buffer, which keeps the order only if
nothing waits in the buffer. `Flushed` says that then the buffer is empty, unless the
transport would fail and so the sending does. The client being a function of its state,
each operator has a lemma about what it keeps, and an action adds them up.

`NothingStuck` and `PageKnows` speak of the socket and its transport, as long as attempts to
connect do not overlap, and neither is inductive: whether an old
transport can still call back depends on how the connection came to be where it is. The
invariant `Calm` says that such a socket is in one of four phases, and what each of its
transports and timers may be doing there: a handshake is under way and nothing of an
earlier attempt is left (`Shaking`); a transport was opened and the connect timer runs
(`Opening`); the connection is up, and messages wait for posts under way only
(`Up`); or there is neither connection nor attempt, though a websocket may still be
closing, a post of a closed polling transport be under way, or a connect timer run that
finds its transport closed (`Down`). In every phase all transport objects but the current
one are out of use (`OthersRest`), and some flags agree (`Steady`). Each operator has a
lemma that gives all fields of its result (`...Way`), each callback one that says from
which phases to which it leads (`...Calm`). A step that would leave the phases has made
attempts overlap (`NextCalm`), and that is never forgotten (`OverlapStays`). TLC checked
`Calm` for five lists of transports and one to three objects before it was proved.

**Promises.** `IInv` in `ReadyProofs` is `WaitTypeOK`, `DeferredInv` and `ReadyInv`. With R the
handlers registered for its outcome, a done or fail list is `Unused` (Deferred's three
callbacks, then R), `Running` (what it holds is the end of R, or all of it behind the
three callbacks; `firingLength` is the present length, whoever was added), `Rested` (empty,
with its memory) or `Dead` (disabled). `Calm` puts the two lists of a promise in two of
these and says that the calls so far are a beginning of R; `InStep` ties the index of
each loop on the stack to the number of calls, one more while the handler runs. Neither
holds while a loop is with the three callbacks that settle the promise (`Opening`): there the
promise may be settled with its other list still alive. But no handler runs then, and no
code of the page, because the loop is the innermost one (`AtHead`), and so whoever uses a
promise finds it calm (`CalmForThePage`). No list has two loops (`Apart`), since a list that
fires only grows. Each operation has a lemma about lists (`CalmGrown`, `CalmFired`,
`OpeningStep`, `CallStep`, `ReturnStep`, `EndStep`), the stack has one for each way in which it
changes (`StepPush`, `StepHead`), and the steps put the two together; an exception takes
loops off the stack and leaves their lists `Running` for ever. `ReadyInv` counts:
`readyWait` is the holds, and one more until the event has come; the list of `$(function)`
has fired only if `isReady`, and if nobody was called yet then nothing holds the event.

`NewsInOrder` looks at what was heard only, so `NewsInv` says where the other notifications are:
those issued after the one in the list's memory wait on its stack, numbered from there
(`Queues`); while the list fires, the watchers before its index were told what it remembers
and those behind it are one notification behind, or have heard none (`TellsAlong`); and
the loop on the stack tells which holds at the index itself (`Telling`). A handler watches
one promise only (`Hearing`), so nothing that another list tells it gets in between. A loop cut
short by an exception leaves its list firing for ever: what comes then stays on the stack.

**Effects.** The properties speak of the elements and calls the page knows of; in the middle of
a turn they rest on what is still to come. `Sound` is the invariant of one state of the
effects, and has these parts. `OneAtWork`: for an element either one animation is at
work, or one delay, which the hooks know, or its dequeue is due; and an animation that is at
work is behind a sentinel, unless the queue was taken away, by the end of the box or by a loop
of `stop` or `finish` that has not come to the animation yet (`Claimed`). `Headed` and
`Attended`: a queue that is not empty has the sentinel or is dequeued next, and something
is at work for it, be it the loop of `stop` that will dequeue it because it met no timer.
`Swept`: while that loop
is going to dequeue, no timer of the element that is not settled is left behind it, and so
nothing can be at work when it does. `InOrder`: the numbers of the calls rise along the queue
(of `finish`, the old queue that it has yet to come to), after those that have begun.
`Placed`: a call is in one place, a queue, an animation, a timeout, or over. `Typed`
and `Shape` are the types. `OneAtWork` excepts the elements with a forgotten delay
(`forgotten`) and `Attended` the stranded ones, as the properties do; a step may add to these
sets what it cannot keep, and the invariant holds for the larger ones.
What `dequeue` has taken out of a queue is in no place, which is a state between two sound
ones (`InHand`); each way to begin a function leads from there to a sound state. Rounds of
loops that end no animation share one lemma (`RoundStep`), since they only remove settled
timers (`Kept`). TLC checked all parts on the instance of the run before they were proved.

**Groups.** `restoreGroup` looks at no answer, so the tree comes out right only if `addChild`
accepts each group and `setParent` then allows it. `IInv` says why they do: the text is
linked from the inside outwards (`Inward`), so that the group around the next one has no
parent yet, the loop of `addChild` meets nobody (`NothingAbove`), and what is below the
next one has been linked before and does not contain the group around it
(`AnswersAreYes`). `Links` says which links the groups of the text have so far, and that they
have no others. That the earlier calls of others cannot matter is `Unlinked`: groups
that were not constructed have no links to anything, whatever calls came before.

**Storage.** For the listing: an address that the loop of `save` has yet to come to has
no line (`Unwritten`), and the table only changes where it was empty; so the file is a
part of the table at any time, the import accepts all of it (`Imported`), and a restart
contradicts nothing. For the library: the file has one line for each registration that
went through and none for any other (`FileHolds`), whence the table can be recovered
(`Reparsed`). For the history: the message is acknowledged by the last step of `insert`, and
`CallInv` carries from `commit` to there that its row is in.

Only model-checked: what needs fairness (`ClientsMeet`, `Recovers`, `Delivered`,
`ReadyRuns`, `Settles`, `LockReleased`), which is beyond the prover. Every invariant that a
passing run checks is a theorem.

## Not modelled

- `SocketAddressParser`, `ChatMessage`, `ConnectMessage`, `Pair`: no state of their own.
  What the parser does to a listing file is which of its lines are accepted.
- `ChatClientPlugin.start` and `stop`, `ChatServer.shutdown`, and pages that live on through
  a restart of the server: the server starts anew from its listing file (which `save`
  would have written; its call is commented out), and what a page does about the loss of
  its connection is `SocketClient`.
- `ChatClientDecorator` (markup), `ChatClientRunListener` (prints), the sound switch
  `jquery.tzCheckbox.js` and what a box looks like when toggled, focused or resized.
- The setters of `JenkinsUser` and `UserLibrary`, which nothing calls.
- The rest of jQuery and of socket.io: selectors, DOM, events, requests, browser
  detection, transports that are never chosen. They are third-party code that makes up
  most of the lines under `webapp/js/`; the page takes their results as values, and
  there is no state of the chat in them. What the page relies on over time (the
  connection, its promises, its animations) is modelled.
- The drafts under `doc/code`.
