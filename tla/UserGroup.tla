----------------------------- MODULE UserGroup -----------------------------
(***************************************************************************)
(* The tree of user groups (lib/.../data/UserGroup.java).                  *)
(*                                                                         *)
(* A group has a field parent and a list children, and each method writes  *)
(* one of the two; anybody may call any of them.  restoreGroup, the code's *)
(* own client, builds a tree from its text, a group after those inside it. *)
(* Calls that return without an effect, overflow the stack or never return *)
(* are not steps.                                                          *)
(***************************************************************************)
EXTENDS Naturals, FiniteSets

CONSTANTS
    Groups,
    noGroup,    \* null
    MaxLinks    \* bound on the entries of all lists together

ASSUME GroupAssumption == noGroup \notin Groups

VARIABLES
    made,       \* the groups constructed so far
    parent,     \* group -> its parent, or null
    children,   \* group -> group -> how often it is in the list of children
    reading,    \* the groups of the text that restoreGroup reads
    outer,      \* each of them -> the one around it in the text, or null
    linked      \* those restored and given to the one around them

gvars == <<made, parent, children, reading, outer, linked>>

GroupTypeOK ==
    /\ made \subseteq Groups
    /\ parent \in [Groups -> Groups \cup {noGroup}]
    /\ children \in [Groups -> [Groups -> Nat]]
    /\ reading \subseteq Groups
    /\ outer \in [reading -> reading \cup {noGroup}]
    /\ linked \subseteq reading

NoText == [g \in {} |-> noGroup]

GroupInit ==
    /\ made = {}
    /\ parent = [g \in Groups |-> noGroup]
    /\ children = [g \in Groups |-> [c \in Groups |-> 0]]
    /\ reading = {}
    /\ outer = NoText
    /\ linked = {}

-----------------------------------------------------------------------------
(* The two traversals. *)

(* The groups that the loop of addChild meets, above g. *)
Above(par, g) ==
    { a \in Groups : \A S \in SUBSET Groups :
        (\A s \in S \cup {g} : par[s] \in S \cup {noGroup}) => a \in S }

(* The branch below g. *)
Below(kids, g) ==
    { x \in Groups : \A S \in SUBSET Groups :
        (\A s \in S \cup {g}, c \in Groups : kids[s][c] > 0 => c \in S) => x \in S }

(* addChild of p is true of c: c has no parent, and the loop comes to an   *)
(* end without having met it.                                              *)
Accepts(par, p, c) ==
    /\ par[c] = noGroup
    /\ c \notin Above(par, p)
    /\ \E a \in Above(par, p) \cup {p} : par[a] = noGroup

(* isChild of g is false of p: the recursion comes to an end, which it     *)
(* does unless lists below g form a cycle, without having found it.        *)
Allows(kids, g, p) ==
    /\ p \notin Below(kids, g)
    /\ \A S \in SUBSET (Below(kids, g) \cup {g}) :
          S # {} => \E x \in S : \A c \in S : kids[x][c] = 0

Entries == { e \in Groups \X Groups \X (1..MaxLinks) : e[3] <= children[e[1]][e[2]] }

Room == Cardinality(Entries) < MaxLinks

-----------------------------------------------------------------------------
(* The calls, in any order. *)

Idle == reading = {} /\ UNCHANGED <<reading, outer, linked>>

(* The constructor, with a parent or null.  It passes itself to addChild   *)
(* while its own parent is still null, and sets it whatever the answer.    *)
NewGroup(g, p) ==
    /\ Idle
    /\ g \in Groups \ made
    /\ made' = made \cup {g}
    /\ \/ p = noGroup /\ UNCHANGED <<parent, children>>
       \/ /\ p \in made
          /\ Room
          /\ Accepts(parent, p, g)
          /\ children' = [children EXCEPT ![p][g] = @ + 1]
          /\ parent' = [parent EXCEPT ![g] = p]

addChild(p, c) ==
    /\ Idle
    /\ p \in made /\ c \in made
    /\ Room
    /\ Accepts(parent, p, c)
    /\ children' = [children EXCEPT ![p][c] = @ + 1]
    /\ UNCHANGED <<made, parent>>

deleteChild(p, c) ==
    /\ Idle
    /\ p \in made /\ c \in made
    /\ children[p][c] > 0
    /\ children' = [children EXCEPT ![p][c] = @ - 1]
    /\ UNCHANGED <<made, parent>>

setParent(g, p) ==
    /\ Idle
    /\ g \in made /\ p \in made \cup {noGroup}
    /\ Allows(children, g, p)
    /\ parent' = [parent EXCEPT ![g] = p]
    /\ UNCHANGED <<made, children>>

resetParent(g) ==
    /\ Idle
    /\ g \in made
    /\ parent' = [parent EXCEPT ![g] = noGroup]
    /\ UNCHANGED <<made, children>>

-----------------------------------------------------------------------------
(* restoreGroup. *)

(* The text of a group: one around them all, and no endless nesting. *)
Text(R, around) ==
    /\ \E root \in R : \A g \in R : (around[g] = noGroup) <=> (g = root)
    /\ \A S \in SUBSET R : S # {} =>
          /\ \E g \in S : around[g] \notin S
          /\ \E g \in S : \A h \in S : around[h] # g

restoreGroup(R, around) ==
    /\ reading = {}
    /\ Text(R, around)
    /\ made' = made \cup R
    /\ reading' = R
    /\ outer' = around
    /\ UNCHANGED <<parent, children, linked>>

(* Mutant: the parent is set first, so that addChild refuses the child. *)
mutantlinkChild(c) ==
    LET p == outer[c] IN
       /\ c \in reading \ linked /\ p # noGroup
       /\ \A g \in reading : outer[g] = c => g \in linked
       /\ parent' = IF Allows(children, c, p) THEN [parent EXCEPT ![c] = p] ELSE parent
       /\ children' = IF Accepts(parent', p, c)
                      THEN [children EXCEPT ![p][c] = @ + 1] ELSE children
       /\ linked' = linked \cup {c}
       /\ UNCHANGED <<made, reading, outer>>

(* A group whose own text is done goes to the one around it: addChild,     *)
(* whose answer is not looked at, and then setParent.                      *)
linkChild(c) ==
    LET p == outer[c] IN
       /\ c \in reading \ linked /\ p # noGroup
       /\ \A g \in reading : outer[g] = c => g \in linked
       /\ children' = IF Accepts(parent, p, c)
                      THEN [children EXCEPT ![p][c] = @ + 1] ELSE children
       /\ parent' = IF Allows(children', c, p) THEN [parent EXCEPT ![c] = p] ELSE parent
       /\ linked' = linked \cup {c}
       /\ UNCHANGED <<made, reading, outer>>

Restored == \A g \in reading : outer[g] # noGroup => g \in linked

returnGroup ==
    /\ reading # {} /\ Restored
    /\ reading' = {} /\ outer' = NoText /\ linked' = {}
    /\ UNCHANGED <<made, parent, children>>

GroupNext ==
    \/ \E g \in Groups, p \in Groups \cup {noGroup} : NewGroup(g, p) \/ setParent(g, p)
    \/ \E p, c \in Groups : addChild(p, c) \/ deleteChild(p, c)
    \/ \E g \in Groups : resetParent(g) \/ linkChild(g)
    \/ \E R \in SUBSET (Groups \ made) : \E around \in [R -> R \cup {noGroup}] :
          restoreGroup(R, around)
    \/ returnGroup

GroupSpec == GroupInit /\ [][GroupNext]_gvars

-----------------------------------------------------------------------------
(* Correctness. *)

(* A restored tree is the one of the text, in both directions: each group  *)
(* is once in the list of the group around it and in no other, and has it  *)
(* as its parent.  restoreGroup looks at no answer, so this depends on     *)
(* addChild accepting and setParent allowing every group.                  *)
RestoredAsStored ==
    Restored =>
        \A g \in reading :
            /\ parent[g] = outer[g]
            /\ \A p \in Groups : children[p][g] = IF p = outer[g] THEN 1 ELSE 0

(* addChild takes no upper-level group: one that has this group in the     *)
(* branch below it (UserGroupTest.preventAddingUpperLevelGroups).          *)
NoUpperLevelGroupAdded ==
    [][ \A p, c \in Groups :
          (p # c /\ children'[p][c] > children[p][c]) => p \notin Below(children, c) ]_gvars

=============================================================================
