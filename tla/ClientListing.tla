--------------------------- MODULE ClientListing ---------------------------
(***************************************************************************)
(* The listing of clients that the chat server keeps                       *)
(* (lib/.../data/ClientListing.java): a two-way association between socket *)
(* addresses and user names, held in two separate Hashtables.  Entries are *)
(* only ever added.                                                        *)
(*                                                                         *)
(* A Hashtable operation is atomic, but "add" makes two of them, one table *)
(* after the other, and nothing locks the pair.  They are two actions here *)
(* so that other threads may look between them.                            *)
(***************************************************************************)
EXTENDS Naturals, Sequences

CONSTANTS
    Addrs,      \* remote socket addresses
    Names,      \* user names
    null        \* what Hashtable.get returns for a key that it lacks

ASSUME NullAssumption == null \notin Addrs \cup Names

VARIABLES
    mClientMap,     \* address -> name of the JenkinsUser listed for it
    mAddressMap     \* name    -> address

listingVars == <<mClientMap, mAddressMap>>

ListingTypeOK ==
    /\ mClientMap \in [Addrs -> Names \cup {null}]
    /\ mAddressMap \in [Names -> Addrs \cup {null}]

-----------------------------------------------------------------------------
(* Queries. *)

getClientAt(a) == mClientMap[a]

getClientNamed(n) == mAddressMap[n]

listed(a) == mClientMap[a] # null

-----------------------------------------------------------------------------
(* Construction: the tables hold what the listing file has.                *)
(*                                                                         *)
(* A file is a sequence of lines, each the name and the address that the   *)
(* parser finds, or null for a line on which it throws: the catch block    *)
(* encloses the whole loop, so the rest of the file is then skipped.  An   *)
(* address that an earlier line has is not added again.                    *)

ListingLines == [addr : Addrs, name : Names]

Accepted(file) ==
    { i \in DOMAIN file :
        /\ \A j \in 1..i : file[j] # null
        /\ \A j \in 1..(i - 1) : file[j].addr # file[i].addr }

importMappingFrom(file) ==
    /\ \A a \in Addrs :
         \/ /\ \A i \in Accepted(file) : file[i].addr # a
            /\ mClientMap[a] = null
         \/ \E i \in Accepted(file) :
               file[i].addr = a /\ mClientMap[a] = file[i].name
    /\ \A n \in Names :
         \/ /\ \A i \in Accepted(file) : file[i].name # n
            /\ mAddressMap[n] = null
         \/ \E i \in Accepted(file) :
               /\ file[i].name = n
               /\ \A j \in Accepted(file) : file[j].name = n => j <= i
               /\ mAddressMap[n] = file[i].addr

ListingInit(files) ==
    /\ ListingTypeOK
    /\ \E file \in files : importMappingFrom(file)

-----------------------------------------------------------------------------
(* add(a, n), in its two table operations.  The second overwrites whatever *)
(* address the name had.  (A definition called "mutant" is a slip that the *)
(* properties must detect; it is used by no specification.)                *)

mutantAddUnchecked(a, n) ==
    /\ mClientMap' = [mClientMap EXCEPT ![a] = n]
    /\ UNCHANGED mAddressMap

AddClient(a, n) ==
    /\ ~listed(a)
    /\ mClientMap' = [mClientMap EXCEPT ![a] = n]
    /\ UNCHANGED mAddressMap

mutantAddOneWay(a, n) == UNCHANGED listingVars

mutantAddNameAsAddress(a, n) ==
    /\ mAddressMap' = [mAddressMap EXCEPT ![n] = n]
    /\ UNCHANGED mClientMap

AddAddress(a, n) ==
    /\ mAddressMap' = [mAddressMap EXCEPT ![n] = a]
    /\ UNCHANGED mClientMap

-----------------------------------------------------------------------------

(* The two tables never contradict each other: an address that a name      *)
(* leads to carries that very name in the other table, so that a message   *)
(* routed by name (ChatServer.getRecipientsOf) cannot reach an address     *)
(* that is listed under another name.                                      *)
MapsAgree ==
    \A n \in Names, a \in Addrs :
        getClientNamed(n) = a => getClientAt(a) = n

(* No two addresses have the same name.  Not an invariant: the code does   *)
(* not ensure it; it is the premise of properties that need it.            *)
DistinctNames ==
    \A a, b \in Addrs :
        listed(a) /\ getClientAt(a) = getClientAt(b) => a = b

=============================================================================
