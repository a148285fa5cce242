---------------------------- MODULE UserLibrary ----------------------------
(***************************************************************************)
(* The library of registered users (lib/.../data/UserLibrary.java and the  *)
(* registering constructor of JenkinsUser.java): a table in memory and a   *)
(* text file, written one after the other.  A user is a name; names hold   *)
(* no comma.  The process may be killed at any time; the next one begins   *)
(* with the constructor of UserLibrary.                                    *)
(***************************************************************************)
EXTENDS Naturals, Sequences, SequencesExt

CONSTANTS
    Hosts, Users,
    MaxLines,       \* bound on the lines of the file
    noUser          \* null

ASSUME LibraryAssumption == noUser \notin Users /\ MaxLines \in Nat

VARIABLES
    users,          \* host -> the user in the table, or null
    userFile,       \* the lines of the file
    registering,    \* a registration between table and file, or null
    registered      \* host -> the user whose registration went through

uvars == <<users, userFile, registering, registered>>

LibraryTypeOK ==
    /\ users \in [Hosts -> Users \cup {noUser}]
    /\ userFile \in Seq([host : Hosts, user : Users])
    /\ registering \in {noUser} \cup [host : Hosts, user : Users]
    /\ registered \in [Hosts -> Users \cup {noUser}]

LibraryInit ==
    /\ users = [h \in Hosts |-> noUser]
    /\ userFile = << >>
    /\ registering = noUser
    /\ registered = [h \in Hosts |-> noUser]

(* parseFile: a later line overwrites an earlier one. *)
parseFile(table) ==
    [h \in Hosts |->
        LET lines == { i \in DOMAIN userFile : userFile[i].host = h } IN
           IF lines = {} THEN table[h] ELSE userFile[Max(lines)].user]

(* JenkinsUser(addr), with the answers that the user types. *)
toHashtable(h, u) ==
    /\ registering = noUser
    /\ users[h] = noUser
    /\ users' = [users EXCEPT ![h] = u]
    /\ registering' = [host |-> h, user |-> u]
    /\ UNCHANGED <<userFile, registered>>

(* Mutant: the writer replaces the file. *)
mutantwriteToFile ==
    /\ registering # noUser
    /\ userFile' = <<registering>>
    /\ registered' = [registered EXCEPT ![registering.host] = registering.user]
    /\ registering' = noUser
    /\ UNCHANGED users

writeToFile ==
    /\ registering # noUser
    /\ Len(userFile) < MaxLines
    /\ userFile' = Append(userFile, registering)
    /\ registered' = [registered EXCEPT ![registering.host] = registering.user]
    /\ registering' = noUser
    /\ UNCHANGED users

(* The exception is caught, and the constructor returns all the same. *)
WriteFails ==
    /\ registering # noUser
    /\ registering' = noUser
    /\ UNCHANGED <<users, userFile, registered>>

(* A library constructed again in the same process. *)
Reload ==
    /\ registering = noUser
    /\ users' = parseFile(users)
    /\ UNCHANGED <<userFile, registering, registered>>

Killed ==
    /\ users' = parseFile([h \in Hosts |-> noUser])
    /\ registering' = noUser
    /\ UNCHANGED <<userFile, registered>>

LibraryNext ==
    \/ \E h \in Hosts, u \in Users : toHashtable(h, u)
    \/ writeToFile \/ WriteFails \/ Reload \/ Killed

LibrarySpec == LibraryInit /\ [][LibraryNext]_uvars

-----------------------------------------------------------------------------

(* A registration that went through is for good: no crash, failed write,   *)
(* reload or later registration gives the host another user.               *)
RegistrationKept ==
    \A h \in Hosts : (registered[h] # noUser) => (users[h] = registered[h])

=============================================================================
