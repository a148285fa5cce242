---------------------------- MODULE ChatHistory ----------------------------
(***************************************************************************)
(* The history of messages and the table of groups                         *)
(* (lib/.../data/ChatHistory.java and GroupDatabase.java), two tables of   *)
(* one SQLite file.  Opening a connection creates the file; rows written   *)
(* without auto-commit are lost unless they are committed.  The calls come *)
(* one after another; the process may be killed in the middle of one.      *)
(***************************************************************************)
EXTENDS Naturals, Sequences

CONSTANTS
    History,        \* messages: records with author, group and recip
    GroupNames,
    none,           \* the empty string, for no group or no recipient
    MaxRows,        \* bound on the rows of a table
    idle            \* no call

ASSUME HistoryAssumption ==
    /\ \A m \in History : DOMAIN m = {"author", "group", "recip"}
    /\ MaxRows \in Nat

VARIABLES
    dbFile,         \* test.db exists
    tables,         \* the tables in it
    chat,           \* the committed rows of CHAT
    hierarchy,      \* the rows of GroupHierarchy
    doing,          \* the call of ChatHistory under way, or idle
    acknowledged    \* the messages for which insert has returned true

hvars == <<dbFile, tables, chat, hierarchy, doing, acknowledged>>

Call == [op : {"startup", "insert", "executed", "committed"}, msg : {idle} \cup History]

HistoryTypeOK ==
    /\ dbFile \in BOOLEAN
    /\ tables \subseteq {"CHAT", "GroupHierarchy"}
    /\ chat \in Seq(History)
    /\ hierarchy \in Seq([name : GroupNames, parent : Nat])
    /\ doing \in {idle} \cup Call
    /\ acknowledged \subseteq History

HistoryInit ==
    /\ dbFile = FALSE
    /\ tables = {}
    /\ chat = << >>
    /\ hierarchy = << >>
    /\ doing = idle
    /\ acknowledged = {}

-----------------------------------------------------------------------------
(* ChatHistory. *)

(* dbStartup returns at once if there is a file. *)
dbStartup ==
    /\ doing = idle
    /\ ~dbFile
    /\ dbFile' = TRUE
    /\ doing' = [op |-> "startup", msg |-> idle]
    /\ UNCHANGED <<tables, chat, hierarchy, acknowledged>>

CreateTable ==
    /\ doing # idle /\ doing.op = "startup"
    /\ tables' = tables \cup {"CHAT"}
    /\ doing' = idle
    /\ UNCHANGED <<dbFile, chat, hierarchy, acknowledged>>

insert(m) ==
    /\ doing = idle
    /\ m.group # none \/ m.recip # none
    /\ dbFile' = TRUE
    /\ doing' = [op |-> "insert", msg |-> m]
    /\ UNCHANGED <<tables, chat, hierarchy, acknowledged>>

(* Without the table the statement throws, and insert returns false. *)
executeUpdate ==
    /\ doing # idle /\ doing.op = "insert"
    /\ doing' = IF "CHAT" \in tables THEN [doing EXCEPT !.op = "executed"] ELSE idle
    /\ UNCHANGED <<dbFile, tables, chat, hierarchy, acknowledged>>

(* Mutant: the connection is closed without a commit. *)
mutantcommit ==
    /\ doing # idle /\ doing.op = "executed"
    /\ doing' = [doing EXCEPT !.op = "committed"]
    /\ UNCHANGED <<dbFile, tables, chat, hierarchy, acknowledged>>

commit ==
    /\ doing # idle /\ doing.op = "executed"
    /\ Len(chat) < MaxRows
    /\ chat' = Append(chat, doing.msg)
    /\ doing' = [doing EXCEPT !.op = "committed"]
    /\ UNCHANGED <<dbFile, tables, hierarchy, acknowledged>>

InsertReturns ==
    /\ doing # idle /\ doing.op = "committed"
    /\ acknowledged' = acknowledged \cup {doing.msg}
    /\ doing' = idle
    /\ UNCHANGED <<dbFile, tables, chat, hierarchy>>

(* The rows of the messages to a group. *)
selectGroup(g) == { i \in DOMAIN chat : chat[i].group = g }

(* The rows of those to the person.  The loop over those that the person   *)
(* wrote reads the first result set, which is closed by then: it throws on *)
(* the first of them, and what has been collected is returned.             *)
selectPerson(p) == { i \in DOMAIN chat : chat[i].recip = p }

-----------------------------------------------------------------------------
(* GroupDatabase. *)

CreateGroupTable ==
    /\ doing = idle
    /\ dbFile' = TRUE
    /\ tables' = tables \cup {"GroupHierarchy"}
    /\ UNCHANGED <<chat, hierarchy, doing, acknowledged>>

(* The query is made only for a group without a name. *)
CheckParent(p) == 0

(* InsertGroup and ChangeParent; without the table the exception ends the  *)
(* process.  p is none or the name of the parent.                          *)
InsertGroup(g, p) ==
    /\ doing = idle
    /\ Len(hierarchy) < MaxRows
    /\ dbFile' = TRUE
    /\ hierarchy' = IF "GroupHierarchy" \in tables
                    THEN Append(hierarchy, [name |-> g, parent |-> IF p = none THEN 0 ELSE CheckParent(p)])
                    ELSE hierarchy
    /\ UNCHANGED <<tables, chat, doing, acknowledged>>

ChangeParent(g, p) ==
    /\ doing = idle
    /\ dbFile' = TRUE
    /\ hierarchy' = [i \in DOMAIN hierarchy |->
           IF hierarchy[i].name = g
           THEN [hierarchy[i] EXCEPT !.parent = IF p = none THEN 0 ELSE CheckParent(p)]
           ELSE hierarchy[i]]
    /\ UNCHANGED <<tables, chat, doing, acknowledged>>

Crash ==
    /\ doing # idle
    /\ doing' = idle
    /\ UNCHANGED <<dbFile, tables, chat, hierarchy, acknowledged>>

HistoryNext ==
    \/ dbStartup \/ CreateTable
    \/ \E m \in History : insert(m)
    \/ executeUpdate \/ commit \/ InsertReturns
    \/ CreateGroupTable
    \/ \E g \in GroupNames, p \in GroupNames \cup {none} : InsertGroup(g, p) \/ ChangeParent(g, p)
    \/ Crash

HistorySpec == HistoryInit /\ [][HistoryNext]_hvars

-----------------------------------------------------------------------------

(* A message that insert has taken is shown to its group and its recipient *)
(* for ever, whatever crashes come before, in between and after.           *)
InsertedIsFound ==
    \A m \in acknowledged :
        /\ (m.group # none) => \E i \in selectGroup(m.group) : chat[i] = m
        /\ (m.recip # none) => \E i \in selectPerson(m.recip) : chat[i] = m

=============================================================================
