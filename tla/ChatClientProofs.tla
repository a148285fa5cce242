-------------------------- MODULE ChatClientProofs --------------------------
(***************************************************************************)
(* The chat page keeps its records in order, for any number of buddies and *)
(* messages: proofs about ChatClient.                                      *)
(*                                                                         *)
(* The page finds its conversations by position, in two searches.  That    *)
(* both succeed, and name one position each, follows from what             *)
(* ConversationsAgree says of the step before; that is why the invariant   *)
(* needs no more than the properties themselves and that a buddy who is    *)
(* not on the list is not online.                                          *)
(***************************************************************************)
EXTENDS ChatClient, SequenceTheorems, TLAPS

OfflineUnlessListed == \A b \in Buddies : online[b] => b \in Listed

IInv ==
    /\ TypeOK
    /\ ConversationsAgree
    /\ BoxesSideBySide
    /\ StatusShownAlike
    /\ OfflineUnlessListed

-----------------------------------------------------------------------------
(* indexOf finds an element that is there once. *)
LEMMA FoundOnce ==
    ASSUME NEW S, NEW s \in Seq(S), NEW i \in 1..Len(s),
           \A j \in 1..Len(s) : (s[j] = s[i]) => (j = i)
    PROVE  indexOf(s, s[i]) = i
<1>1. DOMAIN s = 1..Len(s)
  OBVIOUS
<1>2. /\ i \in DOMAIN s /\ s[i] = s[i]
      /\ \A j \in 1..(i - 1) : s[j] # s[i]
  BY <1>1
<1>3. \A k \in DOMAIN s : (s[k] = s[i]) => (k = i)
  BY <1>1
<1> QED
  BY <1>2, <1>3 DEF indexOf

(* splice(i, 1) takes out the element at i and moves up those behind it. *)
LEMMA Spliced ==
    ASSUME NEW S, NEW s \in Seq(S), NEW i \in 1..Len(s)
    PROVE  /\ spliceOne(s, i) \in Seq(S)
           /\ Len(spliceOne(s, i)) = Len(s) - 1
           /\ \A j \in 1..(Len(s) - 1) :
                 spliceOne(s, i)[j] = IF j < i THEN s[j] ELSE s[j + 1]
<1> DEFINE f == SubSeq(s, 1, i - 1)
           g == SubSeq(s, i + 1, Len(s))
<1>1. /\ Len(s) \in Nat /\ Len(s) >= 1 /\ i # 0 /\ s # << >>
      /\ \A j \in 1..Len(s) : s[j] \in S
  BY LenProperties
<1>2. spliceOne(s, i) = f \o g
  BY <1>1 DEF spliceOne, RemoveAt
<1>3. /\ f \in Seq(S) /\ Len(f) = i - 1
      /\ \A j \in 1..(i - 1) : f[j] = s[j]
  <2>1. /\ f \in Seq(S)
        /\ Len(f) = IF 1 <= i - 1 THEN (i - 1) - 1 + 1 ELSE 0
        /\ \A j \in 1..((i - 1) - 1 + 1) : f[j] = s[1 + j - 1]
    BY <1>1, SubSeqProperties
  <2> QED
    BY <1>1, <2>1
<1>4. /\ g \in Seq(S) /\ Len(g) = Len(s) - i
      /\ \A j \in 1..(Len(s) - i) : g[j] = s[j + i]
  <2>1. /\ g \in Seq(S)
        /\ Len(g) = IF i + 1 <= Len(s) THEN Len(s) - (i + 1) + 1 ELSE 0
        /\ \A j \in 1..(Len(s) - (i + 1) + 1) : g[j] = s[(i + 1) + j - 1]
    BY <1>1, SubSeqProperties
  <2> QED
    BY <1>1, <2>1
<1> HIDE DEF f, g
<1>5. /\ f \o g \in Seq(S) /\ Len(f \o g) = Len(f) + Len(g)
      /\ \A j \in 1..(Len(f) + Len(g)) :
            (f \o g)[j] = IF j <= Len(f) THEN f[j] ELSE g[j - Len(f)]
  BY <1>3, <1>4, ConcatProperties
<1>6. ASSUME NEW j \in 1..(Len(s) - 1)
      PROVE  (f \o g)[j] = IF j < i THEN s[j] ELSE s[j + 1]
  <2>1. CASE j < i
    BY <1>1, <1>3, <1>4, <1>5, <2>1
  <2>2. CASE ~(j < i)
    <3>1. j - Len(f) \in 1..(Len(s) - i) /\ ~(j <= Len(f)) /\ (j - Len(f)) + i = j + 1
      BY <1>1, <1>3, <2>2
    <3>2. (f \o g)[j] = g[j - Len(f)]
      BY <1>1, <1>3, <1>4, <1>5, <3>1
    <3>3. g[j - Len(f)] = s[j + 1]
      BY <1>4, <3>1
    <3> QED
      BY <2>2, <3>2, <3>3
  <2> QED
    BY <2>1, <2>2
<1> QED
  BY <1>1, <1>2, <1>3, <1>4, <1>5, <1>6

(* A conversation is found: the position of a buddy who is being talked to *)
(* is in talkingList, at the place that the two searches yield.            *)
LEMMA ConversationFound ==
    ASSUME IInv, NEW b \in Buddies, talking[b]
    PROVE  \E i \in 1..Len(talkingList) :
              /\ buddyList[talkingList[i]] = b
              /\ indexOf(buddyList, b) = talkingList[i]
              /\ indexOf(talkingList, indexOf(buddyList, b)) = i
<1>1. /\ buddyList \in Seq(Buddies) /\ talkingList \in Seq(Nat)
      /\ DOMAIN buddyList = 1..Len(buddyList) /\ DOMAIN talkingList = 1..Len(talkingList)
  BY DEF IInv, TypeOK
<1>2. PICK i \in 1..Len(talkingList) : buddyList[talkingList[i]] = b
  BY <1>1 DEF IInv, ConversationsAgree
<1>3. talkingList[i] \in 1..Len(buddyList)
  BY <1>1, <1>2 DEF IInv, ConversationsAgree
<1>4. \A j \in 1..Len(buddyList) : (buddyList[j] = buddyList[talkingList[i]]) => (j = talkingList[i])
  BY <1>1, <1>3 DEF IInv, ConversationsAgree
<1>5. indexOf(buddyList, buddyList[talkingList[i]]) = talkingList[i]
  BY <1>1, <1>3, <1>4, FoundOnce
<1>6. \A j \in 1..Len(talkingList) : (talkingList[j] = talkingList[i]) => (j = i)
  BY <1>1, <1>2 DEF IInv, ConversationsAgree
<1>7. indexOf(talkingList, talkingList[i]) = i
  BY <1>1, <1>2, <1>6, FoundOnce
<1> QED
  BY <1>2, <1>5, <1>7

-----------------------------------------------------------------------------
(* Steps that open or close no conversation. *)

(* The boxes stay and stay where they are. *)
BoxesStay ==
    \A b \in Buddies :
        /\ (box'[b] = null) <=> (box[b] = null)
        /\ (box[b] # null) => (box'[b].offset = box[b].offset)

(* Neither a new buddy at the end of the list nor what the boxes show      *)
(* disturbs the conversations and the layout.                              *)
LEMMA Undisturbed ==
    ASSUME IInv, talkingList' = talkingList, talking' = talking, BoxesStay,
           \/ buddyList' = buddyList
           \/ \E b \in Buddies : b \notin Listed /\ buddyList' = Append(buddyList, b)
    PROVE  ConversationsAgree' /\ BoxesSideBySide'
<1>1. /\ buddyList \in Seq(Buddies) /\ talkingList \in Seq(Nat)
      /\ DOMAIN buddyList = 1..Len(buddyList) /\ DOMAIN talkingList = 1..Len(talkingList)
  BY DEF IInv, TypeOK
<1>2. /\ DOMAIN buddyList \subseteq DOMAIN buddyList'
      /\ \A i \in DOMAIN buddyList : buddyList'[i] = buddyList[i]
      /\ \A i, j \in DOMAIN buddyList' : (buddyList'[i] = buddyList'[j]) => (i = j)
  <2>1. CASE buddyList' = buddyList
    BY <2>1 DEF IInv, ConversationsAgree
  <2>2. ASSUME NEW b \in Buddies, b \notin Listed, buddyList' = Append(buddyList, b)
        PROVE  <1>2!1 /\ <1>2!2 /\ <1>2!3
    <3>1. \A i \in 1..Len(buddyList) : buddyList[i] # b
      BY <1>1, <2>2 DEF Listed, Range
    <3>0. /\ Append(buddyList, b) \in Seq(Buddies)
          /\ Len(Append(buddyList, b)) = Len(buddyList) + 1
          /\ \A i \in 1..Len(buddyList) : Append(buddyList, b)[i] = buddyList[i]
          /\ Append(buddyList, b)[Len(buddyList) + 1] = b
      BY <1>1, AppendProperties
    <3>2. /\ DOMAIN buddyList' = 1..(Len(buddyList) + 1)
          /\ buddyList'[Len(buddyList) + 1] = b
          /\ \A i \in 1..Len(buddyList) : buddyList'[i] = buddyList[i]
      BY <2>2, <3>0, LenProperties
    <3>3. \A i, j \in 1..Len(buddyList) : (buddyList[i] = buddyList[j]) => (i = j)
      BY <1>1 DEF IInv, ConversationsAgree
    <3> QED
      BY <1>1, <3>1, <3>2, <3>3
  <2> QED
    BY <2>1, <2>2
<1>3. \A i \in DOMAIN talkingList :
         talkingList[i] \in DOMAIN buddyList /\ buddyList'[talkingList[i]] = buddyList[talkingList[i]]
  BY <1>2 DEF IInv, ConversationsAgree
<1>4. ConversationsAgree'
  BY <1>2, <1>3 DEF IInv, ConversationsAgree, BoxesStay
<1>5. \A i \in DOMAIN talkingList :
         buddyList[talkingList[i]] \in Buddies /\ box[buddyList[talkingList[i]]] # null
  BY <1>1, <1>3 DEF IInv, ConversationsAgree
<1>6. BoxesSideBySide'
  BY <1>3, <1>5 DEF IInv, BoxesSideBySide, BoxesStay
<1> QED
  BY <1>4, <1>6

-----------------------------------------------------------------------------
(* Opening and closing a conversation. *)

(* A click on a buddy without a conversation: both searches have the       *)
(* answer that the code relies on.                                         *)
LEMMA NotTalking ==
    ASSUME IInv, NEW b \in Buddies, onBuddyListClick(b)
    PROVE  \E k \in 1..Len(buddyList) :
              /\ buddyList[k] = b
              /\ talkingList' = Append(talkingList, k)
              /\ \A i \in 1..Len(talkingList) : talkingList[i] # k
              /\ ~talking[b]
              /\ box' = [box EXCEPT ![b] = NewBox(b, Len(talkingList) + 1)]
<1>1. /\ buddyList \in Seq(Buddies) /\ talkingList \in Seq(Nat)
      /\ DOMAIN buddyList = 1..Len(buddyList) /\ DOMAIN talkingList = 1..Len(talkingList)
  BY DEF IInv, TypeOK
<1>2. PICK k \in 1..Len(buddyList) : buddyList[k] = b
  BY <1>1 DEF onBuddyListClick, Listed, Range
<1>3. \A j \in 1..Len(buddyList) : (buddyList[j] = buddyList[k]) => (j = k)
  BY <1>1 DEF IInv, ConversationsAgree
<1>4. indexOf(buddyList, buddyList[k]) = k
  BY <1>1, <1>3, FoundOnce
<1>5. /\ indexOf(talkingList, k) = 0
      /\ talkingList' = Append(talkingList, k)
      /\ BeginTalking(b, Len(talkingList) + 1)
  BY <1>2, <1>4 DEF onBuddyListClick, BeginTalkingTo
<1>6. ASSUME NEW i \in 1..Len(talkingList), talkingList[i] = k
      PROVE  FALSE
  <2>1. \A j \in 1..Len(talkingList) : (talkingList[j] = talkingList[i]) => (j = i)
    BY <1>1 DEF IInv, ConversationsAgree
  <2>2. indexOf(talkingList, talkingList[i]) = i
    BY <1>1, <2>1, FoundOnce
  <2> QED
    BY <1>5, <1>6, <2>2
<1>7. ~talking[b]
  <2>1. ASSUME NEW i \in 1..Len(talkingList), buddyList[talkingList[i]] = b
        PROVE  FALSE
    <3>1. talkingList[i] \in 1..Len(buddyList)
      BY <1>1 DEF IInv, ConversationsAgree
    <3> QED
      BY <1>2, <1>3, <1>6, <2>1, <3>1
  <2> QED
    BY <1>1, <2>1 DEF IInv, ConversationsAgree
<1> QED
  BY <1>2, <1>5, <1>6, <1>7 DEF BeginTalking

(* The new box is the leftmost and its conversation the last. *)
LEMMA ClickKept ==
    ASSUME IInv, NEW b \in Buddies, onBuddyListClick(b)
    PROVE  ConversationsAgree' /\ BoxesSideBySide'
<1>1. /\ buddyList \in Seq(Buddies) /\ talkingList \in Seq(Nat) /\ Len(talkingList) \in Nat
      /\ DOMAIN buddyList = 1..Len(buddyList) /\ DOMAIN talkingList = 1..Len(talkingList)
      /\ box \in [Buddies -> Boxes \cup {null}] /\ talking \in [Buddies -> BOOLEAN]
  BY LenProperties DEF IInv, TypeOK
<1>2. PICK k \in 1..Len(buddyList) :
         /\ buddyList[k] = b
         /\ talkingList' = Append(talkingList, k)
         /\ \A i \in 1..Len(talkingList) : talkingList[i] # k
         /\ ~talking[b]
         /\ box' = [box EXCEPT ![b] = NewBox(b, Len(talkingList) + 1)]
  BY NotTalking
<1> DEFINE n == Len(talkingList)
<1>3. /\ DOMAIN talkingList' = 1..(n + 1)
      /\ \A i \in 1..n : talkingList'[i] = talkingList[i]
      /\ talkingList'[n + 1] = k
  <2>1. /\ Append(talkingList, k) \in Seq(Nat)
        /\ Len(Append(talkingList, k)) = n + 1
        /\ \A i \in 1..n : Append(talkingList, k)[i] = talkingList[i]
        /\ Append(talkingList, k)[n + 1] = k
    BY <1>1, AppendProperties
  <2> QED
    BY <1>2, <2>1, LenProperties
<1>4. /\ UNCHANGED buddyList
      /\ talking' = [talking EXCEPT ![b] = TRUE]
  BY DEF onBuddyListClick, BeginTalkingTo, BeginTalking
<1>5. NewBox(b, n + 1) # null /\ NewBox(b, n + 1).offset = BoxOffset * n
  <2>1. NewBox(b, n + 1) \in Boxes
    BY <1>1, ClientAssumption DEF NewBox, Boxes, Status, IInv, TypeOK
  <2>2. NewBox(b, n + 1).offset = BoxOffset * ((n + 1) - 1) /\ (n + 1) - 1 = n
    BY <1>1 DEF NewBox
  <2> QED
    BY <2>1, <2>2, BoxAssumption
<1>6. /\ box'[b] = NewBox(b, n + 1)
      /\ \A c \in Buddies : (c # b) => (box'[c] = box[c])
      /\ talking'[b]
      /\ \A c \in Buddies : (c # b) => (talking'[c] <=> talking[c])
  BY <1>1, <1>2, <1>4
<1> HIDE DEF n
<1>7. \A i \in 1..n : /\ talkingList[i] \in 1..Len(buddyList)
                      /\ buddyList[talkingList[i]] \in Buddies
                      /\ buddyList[talkingList[i]] # b
                      /\ box[buddyList[talkingList[i]]].offset = BoxOffset * (i - 1)
  <2> SUFFICES ASSUME NEW i \in 1..n PROVE <1>7!(i)
    OBVIOUS
  <2>1. talkingList[i] \in 1..Len(buddyList)
    BY <1>1 DEF n, IInv, ConversationsAgree
  <2>2. buddyList[talkingList[i]] \in Buddies
    BY <1>1, <2>1
  <2>3. buddyList[talkingList[i]] # b
    BY <1>1, <1>2, <2>1 DEF n, IInv, ConversationsAgree
  <2>4. box[buddyList[talkingList[i]]].offset = BoxOffset * (i - 1)
    BY <1>1 DEF n, IInv, BoxesSideBySide
  <2> QED
    BY <2>1, <2>2, <2>3, <2>4
<1>8. ConversationsAgree'
  <2>1. \A i, j \in DOMAIN buddyList' : (buddyList'[i] = buddyList'[j]) => (i = j)
    BY <1>4 DEF IInv, ConversationsAgree
  <2>2. \A i \in DOMAIN talkingList' : talkingList'[i] \in DOMAIN buddyList'
    BY <1>1, <1>3, <1>4, <1>7 DEF n
  <2>3. \A i, j \in 1..n : (talkingList[i] = talkingList[j]) => (i = j)
    BY <1>1 DEF n, IInv, ConversationsAgree
  <2>4. \A i, j \in DOMAIN talkingList' : (talkingList'[i] = talkingList'[j]) => (i = j)
    BY <1>1, <1>2, <1>3, <2>3 DEF n
  <2>5. ASSUME NEW c \in Buddies
        PROVE  /\ talking'[c] <=> (box'[c] # null)
               /\ talking'[c] <=> \E i \in DOMAIN talkingList' : buddyList'[talkingList'[i]] = c
    <3>1. CASE c = b
      <4>1. n + 1 \in DOMAIN talkingList' /\ buddyList'[talkingList'[n + 1]] = c
        BY <1>1, <1>2, <1>3, <1>4, <3>1 DEF n
      <4> QED
        BY <1>5, <1>6, <3>1, <4>1
    <3>2. CASE c # b
      <4>1. /\ talking[c] <=> (box[c] # null)
            /\ talking[c] <=> \E i \in 1..n : buddyList[talkingList[i]] = c
        BY <1>1 DEF n, IInv, ConversationsAgree
      <4>2. (\E i \in 1..n : buddyList[talkingList[i]] = c)
               <=> (\E i \in DOMAIN talkingList' : buddyList'[talkingList'[i]] = c)
        <5>1. /\ n \in Nat /\ buddyList'[talkingList'[n + 1]] # c
              /\ \A i \in 1..n : buddyList'[talkingList'[i]] = buddyList[talkingList[i]]
          BY <1>1, <1>2, <1>3, <1>4, <3>2 DEF n
        <5>2. \A i : (i \in DOMAIN talkingList') <=> (i \in 1..n \/ i = n + 1)
          BY <1>3, <5>1
        <5> QED
          BY <5>1, <5>2
      <4> QED
        BY <1>6, <3>2, <4>1, <4>2
    <3> QED
      BY <3>1, <3>2
  <2> QED
    BY <2>1, <2>2, <2>4, <2>5 DEF ConversationsAgree
<1>9. BoxesSideBySide'
  <2> SUFFICES ASSUME NEW i \in DOMAIN talkingList'
               PROVE  box'[buddyList'[talkingList'[i]]].offset = BoxOffset * (i - 1)
    BY DEF BoxesSideBySide
  <2>1. CASE i \in 1..n
    BY <1>3, <1>4, <1>6, <1>7, <2>1
  <2>2. CASE i = n + 1
    <3>1. (n + 1) - 1 = n
      BY <1>1 DEF n
    <3> QED
      BY <1>2, <1>3, <1>4, <1>5, <1>6, <2>2, <3>1
  <2> QED
    BY <1>1, <1>3, <2>1, <2>2 DEF n
<1> QED
  BY <1>8, <1>9

(* Moving a box changes its offset only. *)
LEMMA Moved ==
    ASSUME IInv, NEW t \in Seq(Nat), NEW c \in Buddies
    PROVE  /\ (AdjustLayout(t)[c] = null) <=> (box[c] = null)
           /\ (box[c] # null) => (/\ AdjustLayout(t)[c] \in Boxes
                                  /\ AdjustLayout(t)[c].title = box[c].title
                                  /\ AdjustLayout(t)[c].log = box[c].log)
<1>1. box \in [Buddies -> Boxes \cup {null}] /\ DOMAIN t = 1..Len(t) /\ Len(t) \in Nat
  BY LenProperties DEF IInv, TypeOK
<1>2. CASE box[c] # null /\ \E i \in DOMAIN t : buddyList[t[i]] = c
  <2> DEFINE k == CHOOSE i \in DOMAIN t : buddyList[t[i]] = c
  <2>1. k \in DOMAIN t
    BY <1>2
  <2> HIDE DEF k
  <2>2. BoxOffset * (k - 1) \in Nat
    BY <1>1, <2>1, ClientAssumption
  <2> DEFINE o == BoxOffset * (k - 1)
  <2>3. AdjustLayout(t)[c] = [box[c] EXCEPT !.offset = o]
    BY <1>2 DEF AdjustLayout, k
  <2>4. box[c] \in Boxes
    BY <1>1, <1>2
  <2> HIDE DEF o
  <2>5. /\ [box[c] EXCEPT !.offset = o] \in Boxes
        /\ [box[c] EXCEPT !.offset = o].title = box[c].title
        /\ [box[c] EXCEPT !.offset = o].log = box[c].log
    BY <2>2, <2>4 DEF Boxes, o
  <2> QED
    BY <1>2, <2>3, <2>5, BoxAssumption
<1>3. CASE ~(box[c] # null /\ \E i \in DOMAIN t : buddyList[t[i]] = c)
  BY <1>1, <1>3 DEF AdjustLayout
<1> QED
  BY <1>2, <1>3

(* A box that is closed: exactly its own entry leaves talkingList, and     *)
(* those behind it move up by one position, as their boxes do.             *)
LEMMA CloseKept ==
    ASSUME IInv, NEW b \in Buddies, boxClosed(b)
    PROVE  ConversationsAgree' /\ BoxesSideBySide'
<1>1. /\ buddyList \in Seq(Buddies) /\ talkingList \in Seq(Nat) /\ Len(talkingList) \in Nat
      /\ DOMAIN buddyList = 1..Len(buddyList) /\ DOMAIN talkingList = 1..Len(talkingList)
      /\ box \in [Buddies -> Boxes \cup {null}] /\ talking \in [Buddies -> BOOLEAN]
  BY LenProperties DEF IInv, TypeOK
<1>2. talking[b]
  BY DEF boxClosed, IInv, ConversationsAgree
<1>3. PICK i \in 1..Len(talkingList) :
         /\ buddyList[talkingList[i]] = b
         /\ indexOf(talkingList, indexOf(buddyList, b)) = i
  BY <1>2, ConversationFound
<1> DEFINE t == spliceOne(talkingList, i)
           n == Len(talkingList) - 1
<1>4. /\ DOMAIN t = 1..n /\ n \in Nat
      /\ \A j \in 1..n : t[j] = IF j < i THEN talkingList[j] ELSE talkingList[j + 1]
  <2>1. /\ t \in Seq(Nat) /\ Len(t) = n
        /\ \A j \in 1..n : t[j] = IF j < i THEN talkingList[j] ELSE talkingList[j + 1]
    BY <1>1, Spliced
  <2> QED
    BY <1>1, <2>1, LenProperties
<1>5. /\ talkingList' = t
      /\ box' = [AdjustLayout(t) EXCEPT ![b] = null]
      /\ talking' = [talking EXCEPT ![b] = FALSE]
      /\ UNCHANGED buddyList
  BY <1>3 DEF boxClosed, EndTalkingTo
<1> HIDE DEF t
<1> DEFINE old(j) == IF j < i THEN j ELSE j + 1
<1>6. \A j \in 1..n : /\ old(j) \in 1..Len(talkingList) /\ old(j) # i
                      /\ t[j] = talkingList[old(j)]
  BY <1>1, <1>4
<1>7. \A j, k \in 1..n : (old(j) = old(k)) => (j = k)
  BY <1>1, <1>4
<1>8. \A k \in 1..Len(talkingList) : (k # i) => (\E j \in 1..n : old(j) = k)
  <2> SUFFICES ASSUME NEW k \in 1..Len(talkingList), k # i
               PROVE  \E j \in 1..n : old(j) = k
    OBVIOUS
  <2>1. CASE k < i
    <3>1. k \in 1..n /\ old(k) = k
      BY <1>1, <1>4, <2>1
    <3> QED
      BY <3>1
  <2>2. CASE ~(k < i)
    <3>1. k - 1 \in 1..n /\ old(k - 1) = k
      BY <1>1, <1>4, <2>2
    <3> QED
      BY <3>1
  <2> QED
    BY <2>1, <2>2
<1> HIDE DEF old, n
<1>9. \A j, k \in 1..Len(talkingList) :
         /\ talkingList[j] \in 1..Len(buddyList)
         /\ buddyList[talkingList[j]] \in Buddies
         /\ (buddyList[talkingList[j]] = buddyList[talkingList[k]]) => (j = k)
  <2>1. \A j \in 1..Len(talkingList) : talkingList[j] \in 1..Len(buddyList)
    BY <1>1 DEF IInv, ConversationsAgree
  <2>2. \A j, k \in 1..Len(talkingList) : (talkingList[j] = talkingList[k]) => (j = k)
    BY <1>1 DEF IInv, ConversationsAgree
  <2>3. \A j, k \in 1..Len(buddyList) : (buddyList[j] = buddyList[k]) => (j = k)
    BY <1>1 DEF IInv, ConversationsAgree
  <2>4. \A j \in 1..Len(buddyList) : buddyList[j] \in Buddies
    BY <1>1
  <2> QED
    BY <2>1, <2>2, <2>3, <2>4
<1>10. \A j, k \in 1..n :
         /\ t[j] \in 1..Len(buddyList)
         /\ buddyList[t[j]] \in Buddies
         /\ buddyList[t[j]] # b
         /\ (buddyList[t[j]] = buddyList[t[k]]) => (j = k)
  BY <1>3, <1>6, <1>7, <1>9
<1>11. ASSUME NEW c \in Buddies, c # b
       PROVE  talking[c] <=> \E j \in 1..n : buddyList[t[j]] = c
  <2>1. talking[c] <=> \E k \in 1..Len(talkingList) : buddyList[talkingList[k]] = c
    BY <1>1 DEF IInv, ConversationsAgree
  <2>2. (\E k \in 1..Len(talkingList) : buddyList[talkingList[k]] = c)
           => (\E j \in 1..n : buddyList[t[j]] = c)
    BY <1>3, <1>6, <1>8, <1>11
  <2>3. (\E j \in 1..n : buddyList[t[j]] = c)
           => (\E k \in 1..Len(talkingList) : buddyList[talkingList[k]] = c)
    BY <1>6
  <2> QED
    BY <2>1, <2>2, <2>3
<1>12. /\ \A c \in Buddies : (c # b) => (box'[c] = AdjustLayout(t)[c])
       /\ box'[b] = null
       /\ \A c \in Buddies : (c # b) => (talking'[c] <=> talking[c])
       /\ ~talking'[b]
  BY <1>1, <1>5 DEF AdjustLayout
<1>13. ASSUME NEW c \in Buddies, NEW j \in 1..n, buddyList[t[j]] = c
       PROVE  AdjustLayout(t)[c] = [box[c] EXCEPT !.offset = BoxOffset * (j - 1)]
  <2>1. box[c] # null
    BY <1>10, <1>11, <1>13 DEF IInv, ConversationsAgree
  <2>2. \A k \in DOMAIN t : (buddyList[t[k]] = c) <=> (k = j)
    BY <1>4, <1>10, <1>13
  <2>3. (CHOOSE k \in DOMAIN t : buddyList[t[k]] = c) = j
    BY <1>4, <2>2
  <2> QED
    BY <1>4, <1>13, <2>1, <2>3 DEF AdjustLayout
<1>14. ASSUME NEW c \in Buddies
       PROVE  (AdjustLayout(t)[c] = null) <=> (box[c] = null)
  <2>1. t \in Seq(Nat)
    BY <1>1, Spliced DEF t
  <2> QED
    BY <2>1, Moved
<1>15. ConversationsAgree'
  <2>1. \A k, j \in DOMAIN buddyList' : (buddyList'[k] = buddyList'[j]) => (k = j)
    BY <1>5 DEF IInv, ConversationsAgree
  <2>2. \A j \in DOMAIN talkingList' : talkingList'[j] \in DOMAIN buddyList'
    BY <1>1, <1>4, <1>5, <1>10
  <2>3. \A k, j \in DOMAIN talkingList' : (talkingList'[k] = talkingList'[j]) => (k = j)
    <3>1. \A k, j \in 1..n : (t[k] = t[j]) => (k = j)
      BY <1>10
    <3> QED
      BY <1>4, <1>5, <3>1
  <2>4. ASSUME NEW c \in Buddies
        PROVE  /\ talking'[c] <=> (box'[c] # null)
               /\ talking'[c] <=> \E j \in DOMAIN talkingList' : buddyList'[talkingList'[j]] = c
    <3>1. CASE c = b
      BY <1>4, <1>5, <1>10, <1>12, <3>1
    <3>2. CASE c # b
      <4>1. talking[c] <=> (box[c] # null)
        BY DEF IInv, ConversationsAgree
      <4> QED
        BY <1>4, <1>5, <1>11, <1>12, <1>14, <3>2, <4>1
    <3> QED
      BY <3>1, <3>2
  <2> QED
    BY <2>1, <2>2, <2>3, <2>4 DEF ConversationsAgree
<1>16. BoxesSideBySide'
  <2> SUFFICES ASSUME NEW j \in DOMAIN talkingList'
               PROVE  box'[buddyList'[talkingList'[j]]].offset = BoxOffset * (j - 1)
    BY DEF BoxesSideBySide
  <2> DEFINE c == buddyList[t[j]]
  <2>1. j \in 1..n /\ c \in Buddies /\ c # b
    BY <1>4, <1>5, <1>10
  <2>2. box[c] # null
    BY <1>11, <2>1 DEF IInv, ConversationsAgree
  <2>3. box[c] \in Boxes
    BY <1>1, <2>1, <2>2
  <2>4. box'[c] = [box[c] EXCEPT !.offset = BoxOffset * (j - 1)]
    BY <1>12, <1>13, <2>1
  <2>5. box'[c].offset = BoxOffset * (j - 1)
    BY <2>3, <2>4 DEF Boxes
  <2> QED
    BY <1>5, <2>5
<1> QED
  BY <1>15, <1>16

-----------------------------------------------------------------------------
(* Types, and the status of the buddies. *)

(* A buddy's status changes nothing else of its box, and when it changes   *)
(* it changes everywhere.                                                  *)
LEMMA StatusChange ==
    ASSUME IInv, NEW b \in Buddies, NEW up \in BOOLEAN, NEW list,
           onBuddyOnlineStatusChange(list, b, up)
    PROVE  /\ online' \in [Buddies -> BOOLEAN]
           /\ box' \in [Buddies -> Boxes \cup {null}]
           /\ friends' \in [Buddies -> {"online", "offline", null}]
           /\ BoxesStay
           /\ \A c \in Buddies : (box[c] # null) => (box'[c].log = box[c].log)
           /\ \A c \in Buddies : (c # b) => (/\ online'[c] = online[c]
                                             /\ box'[c] = box[c]
                                             /\ friends'[c] = friends[c])
           /\ \/ /\ b \in Range(list)
                 /\ online'[b] = up
                 /\ friends'[b] = Status(up)
                 /\ (box[b] # null) => (box'[b].title = Status(up))
              \/ /\ b \notin Range(list) \/ online[b] = up
                 /\ UNCHANGED <<online, friends, box>>
<1>1. /\ online \in [Buddies -> BOOLEAN]
      /\ box \in [Buddies -> Boxes \cup {null}]
      /\ friends \in [Buddies -> {"online", "offline", null}]
  BY DEF IInv, TypeOK
<1>2. CASE b \in Range(list) /\ online[b] # up
  <2>1. /\ online' = [online EXCEPT ![b] = up]
        /\ friends' = [friends EXCEPT ![b] = Status(up)]
        /\ titleClass(b, up)
    BY <1>2 DEF onBuddyOnlineStatusChange, Refresh
  <2>2. /\ online' \in [Buddies -> BOOLEAN] /\ online'[b] = up
        /\ \A c \in Buddies : (c # b) => (online'[c] = online[c])
    BY <1>1, <2>1
  <2>3. /\ friends' \in [Buddies -> {"online", "offline", null}]
        /\ friends'[b] = Status(up)
        /\ \A c \in Buddies : (c # b) => (friends'[c] = friends[c])
    BY <1>1, <2>1 DEF Status
  <2> DEFINE new == IF box[b] = null THEN null ELSE [box[b] EXCEPT !.title = Status(up)]
  <2>4. /\ new \in Boxes \cup {null}
        /\ (box[b] = null) => (new = null)
        /\ (box[b] # null) => (/\ new # null
                                /\ new.title = Status(up)
                                /\ new.offset = box[b].offset
                                /\ new.log = box[b].log)
    <3>1. ASSUME box[b] # null
          PROVE  /\ [box[b] EXCEPT !.title = Status(up)] \in Boxes
                 /\ [box[b] EXCEPT !.title = Status(up)].title = Status(up)
                 /\ [box[b] EXCEPT !.title = Status(up)].offset = box[b].offset
                 /\ [box[b] EXCEPT !.title = Status(up)].log = box[b].log
      <4>1. box[b] \in Boxes
        BY <1>1, <3>1
      <4> QED
        BY <4>1 DEF Boxes, Status
    <3> QED
      BY <3>1, BoxAssumption
  <2>5. box' = [box EXCEPT ![b] = new]
    BY <2>1 DEF titleClass
  <2> HIDE DEF new
  <2>6. /\ box' \in [Buddies -> Boxes \cup {null}]
        /\ box'[b] = new
        /\ \A c \in Buddies : (c # b) => (box'[c] = box[c])
    BY <1>1, <2>4, <2>5
  <2>7. /\ BoxesStay
        /\ \A c \in Buddies : (box[c] # null) => (box'[c].log = box[c].log)
    BY <2>4, <2>6 DEF BoxesStay
  <2> QED
    BY <1>2, <2>2, <2>3, <2>4, <2>6, <2>7
<1>3. CASE ~(b \in Range(list) /\ online[b] # up)
  BY <1>1, <1>3 DEF onBuddyOnlineStatusChange, BoxesStay
<1> QED
  BY <1>2, <1>3

(* What a message in a box leaves alone. *)
LEMMA MessageAdded ==
    ASSUME IInv, NEW b \in Buddies, NEW m \in Messages, box[b] # null, addMsg(b, m)
    PROVE  /\ box' \in [Buddies -> Boxes \cup {null}]
           /\ BoxesStay
           /\ \A c \in Buddies : (box[c] # null) => (box'[c].title = box[c].title)
           /\ \A c \in Buddies : (c # b) => (box'[c] = box[c])
           /\ box'[b].log = Append(box[b].log, m)
<1>1. box \in [Buddies -> Boxes \cup {null}] /\ box[b] \in Boxes
  BY DEF IInv, TypeOK
<1> DEFINE new == [box[b] EXCEPT !.log = Append(box[b].log, m)]
<1>2. box' = [box EXCEPT ![b] = new]
  BY DEF addMsg
<1>3. new \in Boxes
  <2>1. Append(box[b].log, m) \in Seq(Messages)
    BY <1>1, AppendProperties DEF Boxes
  <2> QED
    BY <1>1, <2>1 DEF Boxes
<1>4. /\ new.offset = box[b].offset /\ new.title = box[b].title
      /\ new.log = Append(box[b].log, m) /\ new # null
  BY <1>1, <1>3, BoxAssumption DEF Boxes
<1> HIDE DEF new
<1>5. /\ box' \in [Buddies -> Boxes \cup {null}]
      /\ box'[b] = new
      /\ \A c \in Buddies : (c # b) => (box'[c] = box[c])
  BY <1>1, <1>2, <1>3
<1> QED
  BY <1>4, <1>5 DEF BoxesStay

(* What a closed box leaves behind. *)
LEMMA BoxGone ==
    ASSUME IInv, NEW b \in Buddies, boxClosed(b)
    PROVE  /\ talkingList' \in Seq(Nat)
           /\ box' \in [Buddies -> Boxes \cup {null}]
           /\ \A c \in Buddies : (box'[c] # null) => (/\ box[c] # null
                                                      /\ box'[c].title = box[c].title
                                                      /\ box'[c].log = box[c].log)
<1>1. talkingList \in Seq(Nat) /\ box[b] # null /\ talking[b]
  BY DEF boxClosed, IInv, TypeOK, ConversationsAgree
<1>2. PICK i \in 1..Len(talkingList) : indexOf(talkingList, indexOf(buddyList, b)) = i
  BY <1>1, ConversationFound
<1>3. talkingList' \in Seq(Nat)
  BY <1>1, <1>2, Spliced DEF boxClosed, EndTalkingTo
<1> DEFINE moved == AdjustLayout(talkingList')
<1>4. \A c \in Buddies : /\ (moved[c] = null) <=> (box[c] = null)
                         /\ (box[c] # null) => (/\ moved[c] \in Boxes
                                                /\ moved[c].title = box[c].title
                                                /\ moved[c].log = box[c].log)
  BY <1>3, Moved
<1>5. box' = [moved EXCEPT ![b] = null] /\ moved \in [Buddies -> Boxes \cup {null}]
  <2>1. DOMAIN moved = Buddies /\ moved = [c \in Buddies |-> moved[c]]
    BY DEF AdjustLayout
  <2> QED
    BY <1>4, <2>1 DEF boxClosed
<1> HIDE DEF moved
<1>6. /\ box'[b] = null
      /\ \A c \in Buddies : (c # b) => (box'[c] = moved[c])
      /\ box' \in [Buddies -> Boxes \cup {null}]
  BY <1>5
<1> QED
  BY <1>3, <1>4, <1>6

-----------------------------------------------------------------------------
(* The invariant. *)

(* The empty page. *)
LEMMA InitIInv == Init => IInv
<1> SUFFICES ASSUME Init PROVE IInv
  OBVIOUS
<1>1. /\ DOMAIN buddyList = {} /\ DOMAIN talkingList = {}
      /\ buddyList \in Seq(Buddies) /\ talkingList \in Seq(Nat)
  BY DEF Init
<1>2. TypeOK
  BY <1>1 DEF Init, TypeOK
<1>3. ConversationsAgree
  BY <1>1 DEF Init, ConversationsAgree
<1>4. BoxesSideBySide
  BY <1>1 DEF BoxesSideBySide
<1>5. StatusShownAlike
  BY <1>1 DEF Init, StatusShownAlike, Listed, Range
<1>6. OfflineUnlessListed
  BY DEF Init, OfflineUnlessListed
<1> QED
  BY <1>2, <1>3, <1>4, <1>5, <1>6 DEF IInv

(* A connection event puts the buddy on the list, if it is not there. *)
LEMMA NewBuddy ==
    ASSUME IInv, NEW b \in Buddies, buddyList' = AddNewBuddy(b)
    PROVE  /\ buddyList' \in Seq(Buddies)
           /\ \A c \in Buddies : (c \in Listed') <=> (c \in Listed \/ c = b)
           /\ \/ buddyList' = buddyList
              \/ \E c \in Buddies : c \notin Listed /\ buddyList' = Append(buddyList, c)
<1>1. buddyList \in Seq(Buddies) /\ DOMAIN buddyList = 1..Len(buddyList) /\ Len(buddyList) \in Nat
  BY LenProperties DEF IInv, TypeOK
<1>2. CASE b \in Listed
  BY <1>1, <1>2 DEF AddNewBuddy, Listed
<1>3. CASE b \notin Listed
  <2>1. buddyList' = Append(buddyList, b)
    BY <1>3 DEF AddNewBuddy
  <2>2. /\ buddyList' \in Seq(Buddies)
        /\ DOMAIN buddyList' = 1..(Len(buddyList) + 1)
        /\ \A i \in 1..Len(buddyList) : buddyList'[i] = buddyList[i]
        /\ buddyList'[Len(buddyList) + 1] = b
    <3>1. /\ Append(buddyList, b) \in Seq(Buddies)
          /\ Len(Append(buddyList, b)) = Len(buddyList) + 1
          /\ \A i \in 1..Len(buddyList) : Append(buddyList, b)[i] = buddyList[i]
          /\ Append(buddyList, b)[Len(buddyList) + 1] = b
      BY <1>1, AppendProperties
    <3> QED
      BY <2>1, <3>1, LenProperties
  <2>3. \A i : (i \in DOMAIN buddyList') <=> (i \in 1..Len(buddyList) \/ i = Len(buddyList) + 1)
    BY <1>1, <2>2
  <2>4. \A c \in Buddies : (\E i \in DOMAIN buddyList' : buddyList'[i] = c)
                              <=> ((\E i \in 1..Len(buddyList) : buddyList[i] = c) \/ c = b)
    BY <2>2, <2>3
  <2>5. \A c \in Buddies : (c \in Listed') <=> (c \in Listed \/ c = b)
    BY <1>1, <2>4 DEF Listed, Range
  <2> QED
    BY <1>3, <2>1, <2>2, <2>5
<1> QED
  BY <1>2, <1>3

(* A buddy comes: it is on the list before its status is written.          *)
LEMMA ConnectKept ==
    ASSUME IInv, NEW b \in Buddies, onUserConnect(b)
    PROVE  IInv'
<1>1. /\ buddyList' = AddNewBuddy(b)
      /\ onBuddyOnlineStatusChange(AddNewBuddy(b), b, TRUE)
      /\ UNCHANGED <<talkingList, talking, used, lost>>
  BY DEF onUserConnect
<1>2. /\ buddyList' \in Seq(Buddies)
      /\ \A c \in Buddies : (c \in Listed') <=> (c \in Listed \/ c = b)
      /\ \/ buddyList' = buddyList
         \/ \E c \in Buddies : c \notin Listed /\ buddyList' = Append(buddyList, c)
  BY <1>1, NewBuddy
<1>3. b \in Range(AddNewBuddy(b))
  BY <1>1, <1>2 DEF Listed
<1>4. /\ online' \in [Buddies -> BOOLEAN]
      /\ box' \in [Buddies -> Boxes \cup {null}]
      /\ friends' \in [Buddies -> {"online", "offline", null}]
      /\ BoxesStay
      /\ \A c \in Buddies : (c # b) => (/\ online'[c] = online[c]
                                        /\ box'[c] = box[c]
                                        /\ friends'[c] = friends[c])
      /\ \/ /\ online'[b] = TRUE
            /\ friends'[b] = Status(TRUE)
            /\ (box[b] # null) => (box'[b].title = Status(TRUE))
         \/ /\ online[b] = TRUE
            /\ UNCHANGED <<online, friends, box>>
  BY <1>1, <1>3, StatusChange
<1>5. TypeOK'
  BY <1>1, <1>2, <1>4 DEF IInv, TypeOK
<1>6. ConversationsAgree' /\ BoxesSideBySide'
  BY <1>1, <1>2, <1>4, Undisturbed
<1>7. StatusShownAlike'
  <2> SUFFICES ASSUME NEW c \in Buddies
               PROVE  /\ (box'[c] # null) => (box'[c].title = Status(online'[c]))
                      /\ (c \in Listed') => (friends'[c] = Status(online'[c]))
    BY DEF StatusShownAlike, Status
  <2>1. /\ (box[c] # null) => (box[c].title = Status(online[c]))
        /\ (c \in Listed) => (friends[c] = Status(online[c]))
    BY DEF IInv, StatusShownAlike
  <2>2. CASE c # b
    BY <1>2, <1>4, <2>1, <2>2
  <2>3. CASE c = b
    <3>1. online[b] => b \in Listed
      BY DEF IInv, OfflineUnlessListed
    <3> QED
      BY <1>4, <2>1, <2>3, <3>1 DEF BoxesStay
  <2> QED
    BY <2>2, <2>3
<1>8. OfflineUnlessListed'
  <2> SUFFICES ASSUME NEW c \in Buddies, online'[c] PROVE c \in Listed'
    BY DEF OfflineUnlessListed
  <2>1. online[c] => c \in Listed
    BY DEF IInv, OfflineUnlessListed
  <2> QED
    BY <1>2, <1>4, <2>1
<1> QED
  BY <1>5, <1>6, <1>7, <1>8 DEF IInv

(* A buddy leaves: list and conversations stay. *)
LEMMA DisconnectKept ==
    ASSUME IInv, NEW b \in Buddies, onUserDisconnect(b)
    PROVE  IInv'
<1>1. /\ onBuddyOnlineStatusChange(buddyList, b, FALSE)
      /\ UNCHANGED <<buddyList, talkingList, talking, used, lost>>
  BY DEF onUserDisconnect
<1>2. /\ online' \in [Buddies -> BOOLEAN]
      /\ box' \in [Buddies -> Boxes \cup {null}]
      /\ friends' \in [Buddies -> {"online", "offline", null}]
      /\ BoxesStay
      /\ \A c \in Buddies : (c # b) => (/\ online'[c] = online[c]
                                        /\ box'[c] = box[c]
                                        /\ friends'[c] = friends[c])
      /\ \/ /\ online'[b] = FALSE
            /\ friends'[b] = Status(FALSE)
            /\ (box[b] # null) => (box'[b].title = Status(FALSE))
         \/ UNCHANGED <<online, friends, box>>
  BY <1>1, StatusChange
<1>3. TypeOK'
  BY <1>1, <1>2 DEF IInv, TypeOK
<1>4. ConversationsAgree' /\ BoxesSideBySide'
  BY <1>1, <1>2, Undisturbed
<1>5. \A c : (c \in Listed') <=> (c \in Listed)
  BY <1>1 DEF Listed
<1>6. StatusShownAlike'
  <2> SUFFICES ASSUME NEW c \in Buddies
               PROVE  /\ (box'[c] # null) => (box'[c].title = Status(online'[c]))
                      /\ (c \in Listed') => (friends'[c] = Status(online'[c]))
    BY DEF StatusShownAlike, Status
  <2>1. /\ (box[c] # null) => (box[c].title = Status(online[c]))
        /\ (c \in Listed) => (friends[c] = Status(online[c]))
    BY DEF IInv, StatusShownAlike
  <2>2. CASE c # b
    BY <1>2, <1>5, <2>1, <2>2
  <2>3. CASE c = b
    BY <1>2, <1>5, <2>1, <2>3 DEF BoxesStay
  <2> QED
    BY <2>2, <2>3
<1>7. OfflineUnlessListed'
  <2> SUFFICES ASSUME NEW c \in Buddies, online'[c] PROVE c \in Listed'
    BY DEF OfflineUnlessListed
  <2>1. online[c] => c \in Listed
    BY DEF IInv, OfflineUnlessListed
  <2> QED
    BY <1>2, <1>5, <2>1
<1> QED
  BY <1>3, <1>4, <1>6, <1>7 DEF IInv

(* Where neither list nor status changes, boxes that keep their title keep *)
(* the status.                                                             *)
LEMMA StatusStays ==
    ASSUME IInv, UNCHANGED <<buddyList, online, friends>>,
           \A c \in Buddies : (box'[c] # null) =>
               \/ box[c] # null /\ box'[c].title = box[c].title
               \/ box'[c].title = Status(online[c])
    PROVE  StatusShownAlike' /\ OfflineUnlessListed'
<1>1. Listed' = Listed
  BY DEF Listed
<1>2. StatusShownAlike'
  BY <1>1 DEF IInv, StatusShownAlike, Status
<1>3. OfflineUnlessListed'
  BY <1>1 DEF IInv, OfflineUnlessListed
<1> QED
  BY <1>2, <1>3

(* Every handler keeps the records in order. *)
LEMMA StepIInv == IInv /\ [Next]_vars => IInv'
<1> SUFFICES ASSUME IInv, [Next]_vars PROVE IInv'
  OBVIOUS
<1>1. ASSUME NEW b \in Buddies, onUserConnect(b) PROVE IInv'
  BY <1>1, ConnectKept
<1>2. ASSUME NEW b \in Buddies, onUserDisconnect(b) PROVE IInv'
  BY <1>2, DisconnectKept
<1>3. ASSUME NEW b \in Buddies, onBuddyListClick(b) PROVE IInv'
  <2>1. ConversationsAgree' /\ BoxesSideBySide'
    BY <1>3, ClickKept
  <2>2. PICK k \in 1..Len(buddyList) :
           /\ talkingList' = Append(talkingList, k)
           /\ box' = [box EXCEPT ![b] = NewBox(b, Len(talkingList) + 1)]
    BY <1>3, NotTalking
  <2>3. /\ UNCHANGED <<buddyList, online, friends, used, lost>>
        /\ talking' = [talking EXCEPT ![b] = TRUE]
    BY <1>3 DEF onBuddyListClick, BeginTalkingTo, BeginTalking
  <2>4. talkingList' \in Seq(Nat) /\ Len(talkingList) \in Nat
    BY <2>2, AppendProperties, LenProperties DEF IInv, TypeOK
  <2>5. /\ NewBox(b, Len(talkingList) + 1) \in Boxes
        /\ NewBox(b, Len(talkingList) + 1).title = Status(online[b])
    BY <2>4, ClientAssumption DEF NewBox, Boxes, Status, IInv, TypeOK
  <2>6. /\ box' \in [Buddies -> Boxes \cup {null}]
        /\ box'[b].title = Status(online[b])
        /\ \A c \in Buddies : (c # b) => (box'[c] = box[c])
    BY <2>2, <2>5 DEF IInv, TypeOK
  <2>7. TypeOK'
    BY <2>3, <2>4, <2>6 DEF IInv, TypeOK
  <2>8. StatusShownAlike' /\ OfflineUnlessListed'
    BY <2>3, <2>6, StatusStays
  <2> QED
    BY <2>1, <2>7, <2>8 DEF IInv
<1>4. ASSUME NEW b \in Buddies, boxClosed(b) PROVE IInv'
  <2>1. ConversationsAgree' /\ BoxesSideBySide'
    BY <1>4, CloseKept
  <2>2. /\ talkingList' \in Seq(Nat)
        /\ box' \in [Buddies -> Boxes \cup {null}]
        /\ \A c \in Buddies : (box'[c] # null) => (/\ box[c] # null
                                                   /\ box'[c].title = box[c].title)
    BY <1>4, BoxGone
  <2>3. /\ UNCHANGED <<buddyList, online, friends, used, lost>>
        /\ talking' = [talking EXCEPT ![b] = FALSE]
    BY <1>4 DEF boxClosed
  <2>4. TypeOK'
    BY <2>2, <2>3 DEF IInv, TypeOK
  <2>5. StatusShownAlike' /\ OfflineUnlessListed'
    BY <2>2, <2>3, StatusStays
  <2> QED
    BY <2>1, <2>4, <2>5 DEF IInv
<1>5. ASSUME NEW b \in Buddies, NEW m \in Messages, box[b] # null, addMsg(b, m),
             UNCHANGED <<buddyList, online, talkingList, talking, friends, lost>>,
             used' = used \cup {m}
      PROVE  IInv'
  <2>1. /\ box' \in [Buddies -> Boxes \cup {null}]
        /\ BoxesStay
        /\ \A c \in Buddies : (box[c] # null) => (box'[c].title = box[c].title)
    BY <1>5, MessageAdded
  <2>2. TypeOK'
    BY <1>5, <2>1 DEF IInv, TypeOK
  <2>3. ConversationsAgree' /\ BoxesSideBySide'
    BY <1>5, <2>1, Undisturbed
  <2>4. StatusShownAlike' /\ OfflineUnlessListed'
    BY <1>5, <2>1, StatusStays DEF BoxesStay
  <2> QED
    BY <2>2, <2>3, <2>4 DEF IInv
<1>6. ASSUME NEW b \in Buddies, NEW m \in Messages, messageSent(b, m) PROVE IInv'
  BY <1>5, <1>6 DEF messageSent
<1>7. ASSUME NEW b \in Buddies, NEW m \in Messages, onMessageReceive(b, m) PROVE IInv'
  <2>1. CASE box[b] # null /\ addMsg(b, m) /\ UNCHANGED lost
    BY <1>5, <1>7, <2>1 DEF onMessageReceive
  <2>2. CASE /\ lost' = [lost EXCEPT ![b] = @ \cup {m}]
             /\ UNCHANGED box
    <3>1. UNCHANGED <<buddyList, online, talkingList, talking, friends>>
      BY <1>7 DEF onMessageReceive
    <3>2. TypeOK'
      BY <1>7, <2>2, <3>1 DEF onMessageReceive, IInv, TypeOK
    <3>3. BoxesStay
      BY <2>2 DEF BoxesStay
    <3>4. ConversationsAgree' /\ BoxesSideBySide'
      BY <3>1, <3>3, Undisturbed
    <3>5. StatusShownAlike' /\ OfflineUnlessListed'
      BY <2>2, <3>1, StatusStays
    <3> QED
      BY <3>2, <3>4, <3>5 DEF IInv
  <2> QED
    BY <1>7, <2>1, <2>2 DEF onMessageReceive
<1>8. CASE UNCHANGED vars
  BY <1>8 DEF vars, IInv, TypeOK, ConversationsAgree, BoxesSideBySide, StatusShownAlike,
              OfflineUnlessListed, Listed, Status
<1> QED
  BY <1>1, <1>2, <1>3, <1>4, <1>6, <1>7, <1>8 DEF Next

(* The invariant holds in every reachable state. *)
LEMMA PageInvariant == Spec => []IInv
BY InitIInv, StepIInv, PTL DEF Spec

-----------------------------------------------------------------------------
(* The theorems. *)

(* The page's state has its declared types after any events. *)
THEOREM PageTyped == Spec => []TypeOK
<1>1. IInv => TypeOK
  BY DEF IInv
<1> QED
  BY <1>1, PageInvariant, PTL

(* The positions of talkingList, the flags of the Persons and the boxes on *)
(* the screen tell of the same conversations at all times.                 *)
THEOREM ConversationsStayConsistent == Spec => []ConversationsAgree
<1>1. IInv => ConversationsAgree
  BY DEF IInv
<1> QED
  BY <1>1, PageInvariant, PTL

(* The boxes stand side by side, in whatever order they are opened and     *)
(* closed.                                                                 *)
THEOREM LayoutIsTight == Spec => []BoxesSideBySide
<1>1. IInv => BoxesSideBySide
  BY DEF IInv
<1> QED
  BY <1>1, PageInvariant, PTL

(* A buddy's status is the same in its row of the list and its box. *)
THEOREM StatusIsShownAlike == Spec => []StatusShownAlike
<1>1. IInv => StatusShownAlike
  BY DEF IInv
<1> QED
  BY <1>1, PageInvariant, PTL

(* A log is a prefix of itself, with or without a message added. *)
LEMMA PrefixOfLonger ==
    ASSUME NEW S, NEW s \in Seq(S), NEW m \in S
    PROVE  IsPrefix(s, s) /\ IsPrefix(s, Append(s, m))
<1>1. Len(s) \in Nat /\ \A i \in 1..Len(s) : s[i] \in S
  BY LenProperties
<1>2. /\ Append(s, m) \in Seq(S) /\ Len(Append(s, m)) = Len(s) + 1
      /\ \A i \in 1..Len(s) : Append(s, m)[i] = s[i]
  BY AppendProperties
<1>3. /\ SubSeq(s, 1, Len(s)) \in Seq(S)
      /\ Len(SubSeq(s, 1, Len(s))) = Len(s)
      /\ \A i \in 1..Len(s) : SubSeq(s, 1, Len(s))[i] = s[i]
  <2>1. /\ SubSeq(s, 1, Len(s)) \in Seq(S)
        /\ Len(SubSeq(s, 1, Len(s))) = IF 1 <= Len(s) THEN Len(s) - 1 + 1 ELSE 0
        /\ \A i \in 1..(Len(s) - 1 + 1) : SubSeq(s, 1, Len(s))[i] = s[1 + i - 1]
    BY <1>1, SubSeqProperties
  <2> QED
    BY <1>1, <2>1
<1> DEFINE t == Append(s, m)
<1>4. /\ SubSeq(t, 1, Len(s)) \in Seq(S)
      /\ Len(SubSeq(t, 1, Len(s))) = Len(s)
      /\ \A i \in 1..Len(s) : SubSeq(t, 1, Len(s))[i] = s[i]
  <2>1. \A i \in 1..Len(s) : t[i] \in S
    BY <1>1, <1>2
  <2> HIDE DEF t
  <2>2. /\ SubSeq(t, 1, Len(s)) \in Seq(S)
        /\ Len(SubSeq(t, 1, Len(s))) = IF 1 <= Len(s) THEN Len(s) - 1 + 1 ELSE 0
        /\ \A i \in 1..(Len(s) - 1 + 1) : SubSeq(t, 1, Len(s))[i] = t[1 + i - 1]
    BY <1>1, <2>1, SubSeqProperties
  <2> QED
    BY <1>1, <1>2, <2>2 DEF t
<1>5. SubSeq(s, 1, Len(s)) = SubSeq(t, 1, Len(s))
  <2> DEFINE u == SubSeq(s, 1, Len(s))
             v == SubSeq(t, 1, Len(s))
  <2>1. /\ u \in Seq(S) /\ v \in Seq(S) /\ Len(u) = Len(v)
        /\ \A i \in 1..Len(u) : u[i] = v[i]
    BY <1>3, <1>4
  <2> HIDE DEF u, v
  <2>2. u = v
    BY <2>1, SeqEqual
  <2> QED
    BY <2>2 DEF u, v
<1> QED
  BY <1>1, <1>2, <1>5 DEF IsPrefix

(* A log grows or stays. *)
LogsKept == \A b \in Buddies :
    (box[b] # null /\ box'[b] # null) => IsPrefix(box[b].log, box'[b].log)

(* While a box is open its log only grows, whatever happens to the buddy   *)
(* and to the other conversations.                                         *)
THEOREM LogsOnlyGrow == Spec => ConversationKept
<1>1. ASSUME IInv, [Next]_vars PROVE LogsKept
  <2>1. \A c \in Buddies : (box[c] # null) => (box[c].log \in Seq(Messages))
    <3>1. \A c \in Buddies : (box[c] # null) => (box[c] \in Boxes)
      BY <1>1 DEF IInv, TypeOK
    <3> QED
      BY <3>1 DEF Boxes
  <2>2. (\A c \in Buddies : (box[c] # null /\ box'[c] # null) => (box'[c].log = box[c].log))
           => LogsKept
    <3>1. \A c \in Buddies : (box[c] # null) => IsPrefix(box[c].log, box[c].log)
      <4> SUFFICES ASSUME NEW c \in Buddies, box[c] # null
                   PROVE  IsPrefix(box[c].log, box[c].log)
        OBVIOUS
      <4> QED
        BY <2>1 DEF IsPrefix
    <3> QED
      BY <3>1 DEF LogsKept
  <2>3. ASSUME NEW b \in Buddies, onUserConnect(b) PROVE LogsKept
    BY <1>1, <2>2, <2>3, StatusChange DEF onUserConnect
  <2>4. ASSUME NEW b \in Buddies, onUserDisconnect(b) PROVE LogsKept
    BY <1>1, <2>2, <2>4, StatusChange DEF onUserDisconnect
  <2>5. ASSUME NEW b \in Buddies, onBuddyListClick(b) PROVE LogsKept
    <3>1. PICK k \in 1..Len(buddyList) :
             ~talking[b] /\ box' = [box EXCEPT ![b] = NewBox(b, Len(talkingList) + 1)]
      BY <1>1, <2>5, NotTalking
    <3>2. box[b] = null
      BY <1>1, <3>1 DEF IInv, ConversationsAgree
    <3>3. \A c \in Buddies : (c # b) => (box'[c] = box[c])
      BY <1>1, <3>1 DEF IInv, TypeOK
    <3> QED
      BY <2>2, <3>2, <3>3
  <2>6. ASSUME NEW b \in Buddies, boxClosed(b) PROVE LogsKept
    BY <1>1, <2>2, <2>6, BoxGone
  <2>7. ASSUME NEW b \in Buddies, NEW m \in Messages, box[b] # null, addMsg(b, m)
        PROVE  LogsKept
    <3>1. /\ \A c \in Buddies : (c # b) => (box'[c] = box[c])
          /\ box'[b].log = Append(box[b].log, m)
      BY <1>1, <2>7, MessageAdded
    <3>2. IsPrefix(box[b].log, box'[b].log)
      BY <2>1, <2>7, <3>1, PrefixOfLonger
    <3>3. \A c \in Buddies : (box[c] # null) => IsPrefix(box[c].log, box[c].log)
      BY <2>1 DEF IsPrefix
    <3> QED
      BY <3>1, <3>2, <3>3 DEF LogsKept
  <2>8. ASSUME NEW b \in Buddies, NEW m \in Messages, messageSent(b, m) PROVE LogsKept
    BY <2>7, <2>8 DEF messageSent
  <2>9. ASSUME NEW b \in Buddies, NEW m \in Messages, onMessageReceive(b, m) PROVE LogsKept
    BY <2>2, <2>7, <2>9 DEF onMessageReceive
  <2>10. CASE UNCHANGED vars
    BY <2>2, <2>10 DEF vars
  <2> QED
    BY <1>1, <2>3, <2>4, <2>5, <2>6, <2>8, <2>9, <2>10 DEF Next
<1>2. (IInv /\ [Next]_vars) => [LogsKept]_vars
  BY <1>1
<1>3. Spec => [][LogsKept]_vars
  BY <1>2, PageInvariant, PTL DEF Spec
<1> QED
  BY <1>3 DEF ConversationKept, LogsKept
=============================================================================
