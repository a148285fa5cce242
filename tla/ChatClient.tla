----------------------------- MODULE ChatClient -----------------------------
(***************************************************************************)
(* The chat page (plugin/src/main/webapp/chat.js with chatbox.js): the     *)
(* buddy list, the conversations that are open, their boxes laid out from  *)
(* the right edge of the window, and what happens to messages.  JavaScript *)
(* runs one event to its end before the next, so each handler, with all    *)
(* that it calls, is one action.                                           *)
(*                                                                         *)
(* A buddy's id is its name (onInit calls onUserConnect(name, name)).      *)
(* Positions are counted from 1 here and from 0 in the code; 0 here stands *)
(* for the -1 of indexOf.                                                  *)
(***************************************************************************)
EXTENDS Naturals, Sequences, SequencesExt

CONSTANTS
    Buddies,        \* names that the server may report
    Messages,       \* each is sent or received at most once
    BoxOffset,      \* config.box_offset
    null

ASSUME ClientAssumption ==
    /\ null \notin Buddies
    /\ BoxOffset \in Nat \ {0}

VARIABLES
    buddyList,      \* me.buddyList: names in order of first appearance
    online,         \* Person.online
    talkingList,    \* me.talkingList: positions in buddyList
    talking,        \* Person.talking
    box,            \* the box on the screen, or null
    friends,        \* friends.list with the status in its row of the view
    used,           \* messages sent or received so far
    lost            \* those received, by sender, that no box showed

vars == <<buddyList, online, talkingList, talking, box, friends, used, lost>>

Listed == Range(buddyList)

Status(up) == IF up THEN "online" ELSE "offline"

Boxes == [offset : Nat, title : {"online", "offline"}, log : Seq(Messages)]

(* A box on the screen is not the lack of one. *)
ASSUME BoxAssumption == null \notin Boxes

TypeOK ==
    /\ buddyList \in Seq(Buddies)
    /\ online \in [Buddies -> BOOLEAN]
    /\ talkingList \in Seq(Nat)
    /\ talking \in [Buddies -> BOOLEAN]
    /\ box \in [Buddies -> Boxes \cup {null}]
    /\ friends \in [Buddies -> {"online", "offline", null}]
    /\ used \in SUBSET Messages
    /\ lost \in [Buddies -> SUBSET Messages]

(* onInit: an empty page. *)
Init ==
    /\ buddyList = << >>
    /\ online = [b \in Buddies |-> FALSE]
    /\ talkingList = << >>
    /\ talking = [b \in Buddies |-> FALSE]
    /\ box = [b \in Buddies |-> null]
    /\ friends = [b \in Buddies |-> null]
    /\ used = {}
    /\ lost = [b \in Buddies |-> {}]

-----------------------------------------------------------------------------
(* Array.indexOf and Array.splice(i, 1).  splice counts a negative index   *)
(* from the end, so that a failed search removes the last element.  (A     *)
(* definition called "mutant" is a slip that the properties must detect;   *)
(* it is used by no specification.)                                        *)

indexOf(s, x) ==
    IF \E i \in DOMAIN s : s[i] = x
    THEN CHOOSE i \in DOMAIN s : s[i] = x /\ \A j \in 1..(i - 1) : s[j] # x
    ELSE 0

spliceOne(s, i) ==
    IF s = << >> THEN s ELSE RemoveAt(s, IF i = 0 THEN Len(s) ELSE i)

-----------------------------------------------------------------------------
(* connection-change events. *)

mutantAddNothing(b) == IF b \in Listed THEN buddyList ELSE Append(buddyList, null)

AddNewBuddy(b) == IF b \in Listed THEN buddyList ELSE Append(buddyList, b)

mutantRowStays(b, up) ==
    friends' = [friends EXCEPT ![b] = IF @ = null THEN Status(up) ELSE @]

(* The buddy's row in the list. *)
Refresh(b, up) == friends' = [friends EXCEPT ![b] = Status(up)]

(* The title of the buddy's box, if it has one. *)
titleClass(b, up) ==
    box' = [box EXCEPT ![b] = IF @ = null THEN null
                              ELSE [@ EXCEPT !.title = Status(up)]]

onBuddyOnlineStatusChange(list, b, up) ==
    IF b \in Range(list) /\ online[b] # up
    THEN /\ online' = [online EXCEPT ![b] = up]
         /\ titleClass(b, up)
         /\ Refresh(b, up)
    ELSE UNCHANGED <<online, friends, box>>

(* A new buddy is not online yet, so that its row, which friends.AddItem   *)
(* appends, gets its status here.                                          *)
onUserConnect(b) ==
    /\ buddyList' = AddNewBuddy(b)
    /\ onBuddyOnlineStatusChange(AddNewBuddy(b), b, TRUE)
    /\ UNCHANGED <<talkingList, talking, used, lost>>

onUserDisconnect(b) ==
    /\ onBuddyOnlineStatusChange(buddyList, b, FALSE)
    /\ UNCHANGED <<buddyList, talkingList, talking, used, lost>>

-----------------------------------------------------------------------------
(* Conversations. *)

(* A new box, to the left of those that are there. *)
NewBox(b, position) ==
    [offset |-> BoxOffset * (position - 1), title |-> Status(online[b]), log |-> << >>]

BeginTalking(b, position) ==
    /\ talking' = [talking EXCEPT ![b] = TRUE]
    /\ box' = IF talking[b] THEN box ELSE [box EXCEPT ![b] = NewBox(b, position)]

mutantTalkAgain(b) ==
    /\ talkingList' = IF talking[b] THEN talkingList
                      ELSE Append(talkingList, indexOf(buddyList, b))
    /\ talking' = [talking EXCEPT ![b] = TRUE]
    /\ box' = [box EXCEPT ![b] = NewBox(b, Len(talkingList'))]

BeginTalkingTo(b) ==
    LET idx == indexOf(buddyList, b) IN
       /\ indexOf(talkingList, idx) = 0
       /\ talkingList' = Append(talkingList, idx)
       /\ BeginTalking(b, Len(talkingList) + 1)

(* A click on a buddy opens its box, unless the conversation is open. *)
onBuddyListClick(b) ==
    /\ b \in Listed
    /\ BeginTalkingTo(b)
    /\ UNCHANGED <<buddyList, online, friends, used, lost>>

(* Where the conversations in list t put their boxes. *)
AdjustLayout(t) ==
    [b \in Buddies |->
        IF box[b] # null /\ \E i \in DOMAIN t : buddyList[t[i]] = b
        THEN [box[b] EXCEPT !.offset =
                 BoxOffset * ((CHOOSE i \in DOMAIN t : buddyList[t[i]] = b) - 1)]
        ELSE box[b]]

mutantForgetByBuddy(b) == spliceOne(talkingList, indexOf(buddyList, b))

(* me.talkingList without the conversation with b. *)
EndTalkingTo(b) ==
    spliceOne(talkingList, indexOf(talkingList, indexOf(buddyList, b)))

mutantCloseGap(b) ==
    /\ box[b] # null
    /\ talkingList' = EndTalkingTo(b)
    /\ box' = [box EXCEPT ![b] = null]
    /\ talking' = [talking EXCEPT ![b] = FALSE]
    /\ UNCHANGED <<buddyList, online, friends, used, lost>>

(* The close icon of a box: the others move to the right, the box goes.    *)
boxClosed(b) ==
    /\ box[b] # null
    /\ talkingList' = EndTalkingTo(b)
    /\ box' = [AdjustLayout(talkingList') EXCEPT ![b] = null]
    /\ talking' = [talking EXCEPT ![b] = FALSE]
    /\ UNCHANGED <<buddyList, online, friends, used, lost>>

-----------------------------------------------------------------------------
(* Messages. *)

addMsg(b, m) == box' = [box EXCEPT ![b].log = Append(@, m)]

(* Enter in the input of a box shows the message there and sends it. *)
messageSent(b, m) ==
    /\ box[b] # null
    /\ m \notin used
    /\ used' = used \cup {m}
    /\ addMsg(b, m)
    /\ UNCHANGED <<buddyList, online, talkingList, talking, friends, lost>>

(* A message arrives.  Without a box for its sender, the search for the    *)
(* box's element comes back empty, its "option" is no box manager, and the *)
(* call of addMsg throws before the sound is played.                       *)
onMessageReceive(b, m) ==
    /\ m \notin used
    /\ used' = used \cup {m}
    /\ \/ /\ box[b] # null
          /\ addMsg(b, m)
          /\ UNCHANGED lost
       \/ /\ box[b] = null
          /\ lost' = [lost EXCEPT ![b] = @ \cup {m}]
          /\ UNCHANGED box
    /\ UNCHANGED <<buddyList, online, talkingList, talking, friends>>

Next ==
    \E b \in Buddies :
        \/ onUserConnect(b)
        \/ onUserDisconnect(b)
        \/ onBuddyListClick(b)
        \/ boxClosed(b)
        \/ \E m \in Messages : messageSent(b, m) \/ onMessageReceive(b, m)

Spec == Init /\ [][Next]_vars

-----------------------------------------------------------------------------
(* Correctness. *)

(* The three records of who is being talked to agree at all times: the     *)
(* positions in talkingList, each once, the flag of the Person, and the    *)
(* boxes on the screen.  They are kept by position, while buddyList grows, *)
(* and a failed search would remove a stranger's entry (chat.js:37-38).    *)
(* A buddy is on the list once, so that a click reaches its only Person.   *)
ConversationsAgree ==
    /\ \A i, j \in DOMAIN buddyList : buddyList[i] = buddyList[j] => i = j
    /\ \A i \in DOMAIN talkingList : talkingList[i] \in DOMAIN buddyList
    /\ \A i, j \in DOMAIN talkingList : talkingList[i] = talkingList[j] => i = j
    /\ \A b \in Buddies :
          /\ talking[b] <=> box[b] # null
          /\ talking[b] <=> \E i \in DOMAIN talkingList : buddyList[talkingList[i]] = b

(* Boxes neither overlap nor leave gaps: in the order in which they were   *)
(* opened they stand side by side from the right edge, whatever was closed *)
(* in between.                                                             *)
BoxesSideBySide ==
    \A i \in DOMAIN talkingList :
        box[buddyList[talkingList[i]]].offset = BoxOffset * (i - 1)

(* A buddy's status is the same wherever the page shows it: in the list    *)
(* and in the title of the box, though both are only touched when it       *)
(* changes and the box may have been opened at any time.                   *)
StatusShownAlike ==
    \A b \in Buddies :
        /\ box[b] # null => box[b].title = Status(online[b])
        /\ b \in Listed => friends[b] = Status(online[b])

(* What a box shows stays there until the user closes it: neither another  *)
(* click on the buddy, nor its leaving and coming back, nor the other      *)
(* conversations touch it.                                                 *)
ConversationKept ==
    [][ \A b \in Buddies :
          box[b] # null /\ box'[b] # null => IsPrefix(box[b].log, box'[b].log) ]_vars

(* A message from a buddy that the page shows as online gets shown: "Upon  *)
(* receiving a message from the ChatServer, the client interface populates *)
(* the corresponding chat box with the contents"                           *)
(* (doc/design/FinalDocumentation.tex:293).                                *)
EveryMessageShown ==
    [][\A b \in Buddies : online[b] => lost'[b] = lost[b]]_vars

=============================================================================
