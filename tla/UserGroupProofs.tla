-------------------------- MODULE UserGroupProofs --------------------------
(***************************************************************************)
(* restoreGroup gives back the tree of its text, however large and whatever*)
(* else the callers of UserGroup have done: proofs about UserGroup.        *)
(*                                                                         *)
(* The inductive invariant says how far the links of a tree have come      *)
(* while it is being restored.  The groups are linked from the inside of   *)
(* the text outwards, so that the one around a group has no parent yet and *)
(* is not below it: addChild accepts the group and setParent allows it.    *)
(***************************************************************************)
EXTENDS UserGroup, TLAPS

(* The text is a tree, read from the inside outwards. *)
Inward ==
    /\ reading \subseteq made
    /\ \A S \in SUBSET reading : S # {} =>
          /\ \E g \in S : outer[g] \notin S
          /\ \E g \in S : \A h \in S : outer[h] # g
    /\ \A g \in linked : outer[g] # noGroup
    /\ \A g \in linked, h \in reading : outer[h] = g => h \in linked

(* The links of the text are there as far as it has been read, and there   *)
(* are no others.                                                          *)
Links ==
    /\ \A g \in reading : parent[g] = IF g \in linked THEN outer[g] ELSE noGroup
    /\ \A p \in Groups, g \in reading :
          children[p][g] = IF g \in linked /\ p = outer[g] THEN 1 ELSE 0
    /\ \A p \in reading, g \in Groups \ reading : children[p][g] = 0

(* A group that has not been constructed has no links. *)
Unlinked ==
    \A g \in Groups \ made :
        /\ parent[g] = noGroup
        /\ \A x \in Groups : children[x][g] = 0 /\ children[g][x] = 0

IInv == GroupTypeOK /\ Inward /\ Links /\ Unlinked

-----------------------------------------------------------------------------
(* The loop of addChild meets nothing above a group without a parent.      *)
LEMMA NothingAbove ==
    ASSUME NEW p \in Groups, parent[p] = noGroup
    PROVE  Above(parent, p) = {}
<1>1. {} \in SUBSET Groups /\ \A s \in {} \cup {p} : parent[s] \in {} \cup {noGroup}
  OBVIOUS
<1>2. ASSUME NEW a \in Above(parent, p) PROVE FALSE
  <2>1. \A S \in SUBSET Groups :
            (\A s \in S \cup {p} : parent[s] \in S \cup {noGroup}) => a \in S
    BY DEF Above
  <2> QED
    BY <1>1, <2>1
<1> QED
  BY <1>2

(* The answers on which restoreGroup depends: addChild accepts the group   *)
(* whose text has been read, and setParent then allows the parent.         *)
LEMMA AnswersAreYes ==
    ASSUME IInv, NEW c \in reading \ linked, outer[c] # noGroup,
           \A g \in reading : outer[g] = c => g \in linked,
           NEW kids, \A x, y \in Groups :
               kids[x][y] = IF x = outer[c] /\ y = c THEN 1 ELSE children[x][y]
    PROVE  /\ outer[c] \in reading /\ outer[c] # c
           /\ Accepts(parent, outer[c], c)
           /\ Allows(kids, c, outer[c])
<1> USE GroupAssumption
<1> DEFINE p == outer[c]
<1>1. c \in Groups /\ p \in reading /\ p \in Groups /\ reading \subseteq Groups
      /\ linked \subseteq reading
  BY DEF IInv, GroupTypeOK
<1>2. p \notin linked
  BY <1>1 DEF IInv, Inward
<1>3. p # c
  <2>1. {c} \in SUBSET reading /\ {c} # {}
    OBVIOUS
  <2>2. \E g \in {c} : outer[g] \notin {c}
    BY <2>1 DEF IInv, Inward
  <2> QED
    BY <2>2
<1>4. Accepts(parent, p, c)
  <2>1. parent[p] = noGroup /\ parent[c] = noGroup
    BY <1>1, <1>2 DEF IInv, Links
  <2>2. Above(parent, p) = {}
    BY <1>1, <2>1, NothingAbove
  <2> QED
    BY <2>1, <2>2 DEF Accepts
<1>5. \A s \in linked \cup {c}, x \in Groups : kids[s][x] > 0 => x \in linked
  <2> SUFFICES ASSUME NEW s \in linked \cup {c}, NEW x \in Groups, x \notin linked
               PROVE  ~(kids[s][x] > 0)
    OBVIOUS
  <2>1. s \in reading /\ s \in Groups /\ s # p
    BY <1>1, <1>2, <1>3
  <2>2. children[s][x] = 0
    BY <2>1 DEF IInv, Links
  <2> QED
    BY <2>1, <2>2
<1>6. Below(kids, c) \subseteq linked
  <2>1. linked \in SUBSET Groups
    BY <1>1
  <2> QED
    BY <1>5, <2>1 DEF Below
<1>7. ASSUME NEW S \in SUBSET (Below(kids, c) \cup {c}), S # {}
      PROVE  \E x \in S : \A y \in S : kids[x][y] = 0
  <2>1. S \in SUBSET reading
    BY <1>1, <1>6
  <2>2. PICK x \in S : \A y \in S : outer[y] # x
    BY <1>7, <2>1 DEF IInv, Inward
  <2>3. ASSUME NEW y \in S PROVE kids[x][y] = 0
    <3>1. x \in Groups /\ y \in Groups /\ y \in reading /\ outer[y] # x
      BY <1>1, <2>1, <2>2
    <3>2. children[x][y] = 0
      BY <3>1 DEF IInv, Links
    <3> QED
      BY <3>1, <3>2
  <2> QED
    BY <2>3
<1> QED
  BY <1>1, <1>2, <1>3, <1>4, <1>6, <1>7 DEF Allows

(* The callers' own calls come when nothing is being restored, and touch   *)
(* only groups that have been constructed.                                 *)
LEMMA CallsKeepIInv ==
    ASSUME IInv,
           \/ \E g \in Groups, p \in Groups \cup {noGroup} : NewGroup(g, p) \/ setParent(g, p)
           \/ \E p, c \in Groups : addChild(p, c) \/ deleteChild(p, c)
           \/ \E g \in Groups : resetParent(g)
    PROVE  IInv'
<1> USE GroupAssumption
<1>0. reading = {} /\ reading' = {} /\ linked = {} /\ linked' = {} /\ outer' = outer
  BY DEF NewGroup, setParent, addChild, deleteChild, resetParent, Idle, IInv, GroupTypeOK
<1>1. (Inward /\ Links)'
  BY <1>0 DEF Inward, Links
<1>2. ASSUME NEW g \in Groups, NEW p \in Groups \cup {noGroup}, NewGroup(g, p)
      PROVE  (GroupTypeOK /\ Unlinked)'
  <2>1. g \notin made /\ made' = made \cup {g} /\ made \subseteq Groups
    BY <1>2 DEF NewGroup, IInv, GroupTypeOK
  <2>2. CASE UNCHANGED <<parent, children>>
    BY <1>0, <2>1, <2>2 DEF IInv, GroupTypeOK, Unlinked
  <2>3. CASE /\ p \in made
             /\ children' = [children EXCEPT ![p][g] = @ + 1]
             /\ parent' = [parent EXCEPT ![g] = p]
    <3>1. \A x, y \in Groups :
              children'[x][y] = IF x = p /\ y = g THEN children[x][y] + 1 ELSE children[x][y]
      BY <2>1, <2>3 DEF IInv, GroupTypeOK
    <3>2. \A y \in Groups : parent'[y] = IF y = g THEN p ELSE parent[y]
      BY <2>3 DEF IInv, GroupTypeOK
    <3>3. Unlinked'
      BY <2>1, <2>3, <3>1, <3>2 DEF IInv, Unlinked
    <3>4. children' \in [Groups -> [Groups -> Nat]]
      BY <2>1, <2>3 DEF IInv, GroupTypeOK
    <3>5. parent' \in [Groups -> Groups \cup {noGroup}]
      BY <2>3 DEF IInv, GroupTypeOK
    <3> QED
      BY <1>0, <2>1, <3>3, <3>4, <3>5 DEF IInv, GroupTypeOK
  <2> QED
    BY <1>2, <2>2, <2>3 DEF NewGroup
<1>3. ASSUME NEW p \in Groups, NEW c \in Groups, addChild(p, c)
      PROVE  (GroupTypeOK /\ Unlinked)'
  <2>1. p \in made /\ c \in made /\ made' = made /\ parent' = parent
    BY <1>3 DEF addChild
  <2>2. \A x, y \in Groups :
            children'[x][y] = IF x = p /\ y = c THEN children[x][y] + 1 ELSE children[x][y]
    BY <1>3 DEF addChild, IInv, GroupTypeOK
  <2>3. children' \in [Groups -> [Groups -> Nat]]
    BY <1>3 DEF addChild, IInv, GroupTypeOK
  <2>4. Unlinked'
    BY <2>1, <2>2 DEF IInv, Unlinked
  <2> QED
    BY <1>0, <2>1, <2>3, <2>4 DEF IInv, GroupTypeOK
<1>4. ASSUME NEW p \in Groups, NEW c \in Groups, deleteChild(p, c)
      PROVE  (GroupTypeOK /\ Unlinked)'
  <2>1. p \in made /\ c \in made /\ made' = made /\ parent' = parent
    BY <1>4 DEF deleteChild
  <2>2. \A x, y \in Groups :
            children'[x][y] = IF x = p /\ y = c THEN children[x][y] - 1 ELSE children[x][y]
    BY <1>4 DEF deleteChild, IInv, GroupTypeOK
  <2>3. children[p][c] \in Nat /\ children[p][c] > 0
    BY <1>4 DEF deleteChild, IInv, GroupTypeOK
  <2>4. children[p][c] - 1 \in Nat
    BY <2>3
  <2>5. children' \in [Groups -> [Groups -> Nat]]
    BY <1>4, <2>4 DEF deleteChild, IInv, GroupTypeOK
  <2>6. Unlinked'
    BY <2>1, <2>2 DEF IInv, Unlinked
  <2> QED
    BY <1>0, <2>1, <2>5, <2>6 DEF IInv, GroupTypeOK
<1>5. ASSUME NEW g \in Groups, NEW p \in Groups \cup {noGroup}, setParent(g, p) \/ resetParent(g)
      PROVE  (GroupTypeOK /\ Unlinked)'
  <2>1. PICK q \in Groups \cup {noGroup} : parent' = [parent EXCEPT ![g] = q]
    BY <1>5 DEF setParent, resetParent
  <2>2. g \in made /\ made' = made /\ children' = children
    BY <1>5 DEF setParent, resetParent
  <2>3. \A y \in Groups : parent'[y] = IF y = g THEN q ELSE parent[y]
    BY <2>1 DEF IInv, GroupTypeOK
  <2>4. Unlinked'
    BY <2>2, <2>3 DEF IInv, Unlinked
  <2>5. parent' \in [Groups -> Groups \cup {noGroup}]
    BY <2>1 DEF IInv, GroupTypeOK
  <2> QED
    BY <1>0, <2>2, <2>4, <2>5 DEF IInv, GroupTypeOK
<1> QED
  BY <1>1, <1>2, <1>3, <1>4, <1>5 DEF IInv

(* restoreGroup begins with groups that nobody has linked.                 *)
LEMMA BeginKeepsIInv ==
    ASSUME IInv, NEW R \in SUBSET (Groups \ made),
           NEW around \in [R -> R \cup {noGroup}], restoreGroup(R, around)
    PROVE  IInv'
<1> USE GroupAssumption
<1>1. /\ reading = {} /\ reading' = R /\ outer' = around /\ made' = made \cup R
      /\ linked = {} /\ linked' = {} /\ parent' = parent /\ children' = children
      /\ Text(R, around)
  BY DEF restoreGroup, IInv, GroupTypeOK
<1>2. GroupTypeOK'
  BY <1>1 DEF IInv, GroupTypeOK
<1>3. Inward'
  BY <1>1 DEF Text, Inward
<1>4. Links'
  BY <1>1 DEF IInv, Unlinked, Links
<1>5. Unlinked'
  BY <1>1 DEF IInv, Unlinked
<1> QED
  BY <1>2, <1>3, <1>4, <1>5 DEF IInv

(* Both calls of a round of its loop take effect.                          *)
LEMMA RoundKeepsIInv ==
    ASSUME IInv, NEW c \in Groups, linkChild(c)
    PROVE  IInv'
<1> USE GroupAssumption
<1> DEFINE p == outer[c]
           Kids == [children EXCEPT ![p][c] = @ + 1]
<1>1. /\ c \in reading \ linked /\ p # noGroup
      /\ \A g \in reading : outer[g] = c => g \in linked
      /\ made' = made /\ reading' = reading /\ outer' = outer
      /\ linked' = linked \cup {c}
      /\ children' = IF Accepts(parent, p, c) THEN Kids ELSE children
      /\ parent' = IF Allows(children', c, p) THEN [parent EXCEPT ![c] = p] ELSE parent
  BY DEF linkChild
<1>2. /\ reading \subseteq Groups /\ linked \subseteq reading
      /\ p \in reading /\ p \in Groups
  BY <1>1 DEF IInv, GroupTypeOK
<1>3. children[p][c] = 0
  BY <1>1, <1>2 DEF IInv, Links
<1>4. \A x, y \in Groups : Kids[x][y] = IF x = p /\ y = c THEN 1 ELSE children[x][y]
  BY <1>2, <1>3 DEF IInv, GroupTypeOK
<1>5. p # c /\ Accepts(parent, p, c) /\ Allows(Kids, c, p)
  <2> HIDE DEF Kids
  <2> QED
    BY <1>1, <1>4, AnswersAreYes
<1>6. children' = Kids /\ parent' = [parent EXCEPT ![c] = p]
  BY <1>1, <1>5
<1>7. \A y \in Groups : parent'[y] = IF y = c THEN p ELSE parent[y]
  BY <1>6 DEF IInv, GroupTypeOK
<1>8. GroupTypeOK'
  <2>1. Kids \in [Groups -> [Groups -> Nat]]
    BY <1>2 DEF IInv, GroupTypeOK
  <2>2. [parent EXCEPT ![c] = p] \in [Groups -> Groups \cup {noGroup}]
    BY <1>2 DEF IInv, GroupTypeOK
  <2> QED
    BY <1>1, <1>6, <2>1, <2>2 DEF IInv, GroupTypeOK
<1>9. Inward'
  <2>1. reading' \subseteq made' /\ \A g \in linked' : outer'[g] # noGroup
    BY <1>1 DEF IInv, Inward
  <2>2. \A S \in SUBSET reading : S # {} =>
            /\ \E g \in S : outer[g] \notin S
            /\ \E g \in S : \A h \in S : outer[h] # g
    BY DEF IInv, Inward
  <2>3. \A g \in linked', h \in reading : outer[h] = g => h \in linked'
    BY <1>1 DEF IInv, Inward
  <2> QED
    BY <1>1, <2>1, <2>2, <2>3 DEF Inward
<1>10. Links'
  <2> HIDE DEF Kids
  <2>1. \A g \in reading : parent'[g] = IF g \in linked' THEN outer[g] ELSE noGroup
    BY <1>1, <1>2, <1>7 DEF IInv, Links
  <2>2. \A x \in Groups, g \in reading :
            children'[x][g] = IF g \in linked' /\ x = outer[g] THEN 1 ELSE 0
    BY <1>1, <1>2, <1>4, <1>6 DEF IInv, Links
  <2>3. \A x \in reading, g \in Groups \ reading : children'[x][g] = 0
    BY <1>1, <1>2, <1>4, <1>6 DEF IInv, Links
  <2> QED
    BY <1>1, <2>1, <2>2, <2>3 DEF Links
<1>11. Unlinked'
  <2> HIDE DEF Kids
  <2>1. c \in made /\ p \in made
    BY <1>1, <1>2 DEF IInv, Inward
  <2> QED
    BY <1>1, <1>4, <1>6, <1>7, <2>1 DEF IInv, Unlinked
<1> QED
  BY <1>8, <1>9, <1>10, <1>11 DEF IInv

(* Every step keeps the invariant.                                         *)
LEMMA StepIInv ==
    ASSUME IInv, [GroupNext]_gvars
    PROVE  IInv'
<1> USE GroupAssumption
<1>1. CASE returnGroup
  <2>1. /\ reading' = {} /\ linked' = {} /\ outer' = NoText
        /\ made' = made /\ parent' = parent /\ children' = children
    BY <1>1 DEF returnGroup
  <2>2. NoText \in [{} -> {} \cup {noGroup}]
    BY DEF NoText
  <2>3. GroupTypeOK'
    BY <2>1, <2>2 DEF IInv, GroupTypeOK
  <2>4. (Inward /\ Links /\ Unlinked)'
    BY <2>1 DEF IInv, Inward, Links, Unlinked
  <2> QED
    BY <2>3, <2>4 DEF IInv
<1>2. CASE UNCHANGED gvars
  <2>1. /\ made' = made /\ parent' = parent /\ children' = children
        /\ reading' = reading /\ outer' = outer /\ linked' = linked
    BY <1>2 DEF gvars
  <2>2. GroupTypeOK'
    BY <2>1 DEF IInv, GroupTypeOK
  <2>3. Inward'
    BY <2>1 DEF IInv, Inward
  <2>4. Links'
    BY <2>1 DEF IInv, Links
  <2>5. Unlinked'
    BY <2>1 DEF IInv, Unlinked
  <2> QED
    BY <2>2, <2>3, <2>4, <2>5 DEF IInv
<1> QED
  BY <1>1, <1>2, CallsKeepIInv, BeginKeepsIInv, RoundKeepsIInv DEF GroupNext

(* The invariant holds before the first call.                              *)
LEMMA InitIInv == GroupInit => IInv
<1> USE GroupAssumption
<1> SUFFICES ASSUME GroupInit PROVE IInv
  OBVIOUS
<1>1. NoText \in [{} -> {} \cup {noGroup}]
  BY DEF NoText
<1>2. GroupTypeOK
  BY <1>1 DEF GroupInit, GroupTypeOK
<1>3. Inward /\ Links /\ Unlinked
  BY <1>1 DEF GroupInit, Inward, Links, Unlinked
<1> QED
  BY <1>2, <1>3 DEF IInv

(* What restoreGroup returns is the tree of its text, in both directions,  *)
(* for any text and whatever groups were made and linked before.           *)
THEOREM RestoreGivesBack == GroupSpec => []RestoredAsStored
<1> USE GroupAssumption
<1>1. IInv => RestoredAsStored
  <2> SUFFICES ASSUME IInv, Restored, NEW g \in reading
               PROVE  /\ parent[g] = outer[g]
                      /\ \A p \in Groups : children[p][g] = IF p = outer[g] THEN 1 ELSE 0
    BY DEF RestoredAsStored
  <2>1. g \in linked <=> outer[g] # noGroup
    BY DEF Restored, IInv, Inward
  <2> QED
    BY <2>1 DEF IInv, Links
<1> QED
  BY <1>1, InitIInv, StepIInv, PTL DEF GroupSpec

=============================================================================
