---------------------------- MODULE ListingStore ----------------------------
(***************************************************************************)
(* The listing of clients on disk (ClientListing.java, save and            *)
(* exportMappingTo): other threads add clients while a save runs, and the  *)
(* server may be killed and started again at any time.  A line that is     *)
(* half written when the process dies is not a line.                       *)
(***************************************************************************)
EXTENDS ClientListing, Sequences, SequencesExt

VARIABLES
    file,       \* the lines of the listing file
    saving,     \* the loop of exportMappingTo, or null
    adding      \* an add between its two puts, or null

lvars == <<listingVars, file, saving, adding>>

(* ahead: the addresses that the iterator has not returned; buffer: the    *)
(* lines that are not on the disk; stale: the table has changed since the  *)
(* iterator was made.                                                      *)
Saving == [ahead : SUBSET Addrs, buffer : Seq(ListingLines), stale : BOOLEAN]

(* A line that parses and a loop that runs are not null. *)
ASSUME StoreAssumption == null \notin ListingLines /\ null \notin Saving

StoreTypeOK ==
    /\ ListingTypeOK
    /\ file \in Seq(ListingLines)
    /\ saving \in {null} \cup Saving
    /\ adding \in {null} \cup (Addrs \X Names)

StoreInit ==
    /\ ListingInit({<< >>})
    /\ file = << >>
    /\ saving = null
    /\ adding = null

(* The FileWriter truncates the file before there is anything to write. *)
SaveBegins ==
    /\ saving = null
    /\ file' = << >>
    /\ saving' = [ahead |-> { a \in Addrs : listed(a) }, buffer |-> << >>, stale |-> FALSE]
    /\ UNCHANGED <<listingVars, adding>>

SaveEntry == \E a \in Addrs :
    /\ saving # null
    /\ ~saving.stale
    /\ a \in saving.ahead
    /\ saving' = [saving EXCEPT !.ahead = @ \ {a},
                                !.buffer = Append(@, [addr |-> a, name |-> getClientAt(a)])]
    /\ UNCHANGED <<listingVars, file, adding>>

(* The buffer of the writer is full. *)
Flush ==
    /\ saving # null
    /\ saving.buffer # << >>
    /\ file' = file \o saving.buffer
    /\ saving' = [saving EXCEPT !.buffer = << >>]
    /\ UNCHANGED <<listingVars, adding>>

(* The iterator throws; the catch block does nothing, and the writer is    *)
(* never closed, so that its buffer is lost.                               *)
SaveFails ==
    /\ saving # null
    /\ saving.stale
    /\ saving' = null
    /\ UNCHANGED <<listingVars, file, adding>>

SaveEnds ==
    /\ saving # null
    /\ saving.ahead = {}
    /\ file' = file \o saving.buffer
    /\ saving' = null
    /\ UNCHANGED <<listingVars, adding>>

(* add on another thread, in its two table operations. *)
Add(a, n) ==
    /\ adding = null
    /\ AddClient(a, n)
    /\ adding' = <<a, n>>
    /\ saving' = IF saving = null THEN null ELSE [saving EXCEPT !.stale = TRUE]
    /\ UNCHANGED file

AddEnds ==
    /\ adding # null
    /\ AddAddress(adding[1], adding[2])
    /\ adding' = null
    /\ UNCHANGED <<file, saving>>

(* Mutant: a restarted server does not read the file. *)
mutantRestart ==
    /\ mClientMap' = [a \in Addrs |-> null]
    /\ mAddressMap' = [n \in Names |-> null]
    /\ saving' = null
    /\ adding' = null
    /\ UNCHANGED file

(* The process is killed; the next one constructs its listing from the     *)
(* file.                                                                   *)
Restart ==
    /\ UNCHANGED file
    /\ mClientMap' \in [Addrs -> Names \cup {null}]
    /\ mAddressMap' \in [Names -> Addrs \cup {null}]
    /\ importMappingFrom(file)'
    /\ saving' = null
    /\ adding' = null

StoreNext ==
    \/ SaveBegins \/ SaveEntry \/ Flush \/ SaveFails \/ SaveEnds
    \/ \E a \in Addrs, n \in Names : Add(a, n)
    \/ AddEnds
    \/ Restart

StoreSpec == StoreInit /\ [][StoreNext]_lvars

-----------------------------------------------------------------------------

(* A save that is torn by a crash or by an add loses clients, but neither  *)
(* the file nor what a later server makes of it gives an address a name    *)
(* that differs from the one it has: no line contradicts the table, and no *)
(* two lines have one address.                                             *)
NameSurvives ==
    LET lines == file \o (IF saving = null THEN << >> ELSE saving.buffer) IN
       /\ \A i \in DOMAIN lines :
             getClientAt(lines[i].addr) = lines[i].name
       /\ \A i, j \in DOMAIN lines : (i # j) => (lines[i].addr # lines[j].addr)

=============================================================================
