----------------------------- MODULE MCRecords -----------------------------
(***************************************************************************)
(* Finite instances of the data classes beside the server: UserGroup,      *)
(* ListingStore, UserLibrary and ChatHistory.  They share no variable, so  *)
(* a behaviour of this module runs one of them.                            *)
(***************************************************************************)
EXTENDS UserGroup, ListingStore, UserLibrary, ChatHistory, TLC

CONSTANTS g1, g2, g3, g4, a1, a2, a3, tim, joe, qiyue, t25

VARIABLE part   \* the class that runs

vars == <<part, gvars, lvars, uvars, hvars>>

MCInit ==
    /\ part \in {"groups", "listing", "library", "history"}
    /\ GroupInit /\ StoreInit /\ LibraryInit /\ HistoryInit

MCNext ==
    /\ UNCHANGED part
    /\ \/ part = "groups" /\ GroupNext /\ UNCHANGED <<lvars, uvars, hvars>>
       \/ part = "listing" /\ StoreNext /\ UNCHANGED <<gvars, uvars, hvars>>
       \/ part = "library" /\ LibraryNext /\ UNCHANGED <<gvars, lvars, hvars>>
       \/ part = "history" /\ HistoryNext /\ UNCHANGED <<gvars, lvars, uvars>>

MCSpec == MCInit /\ [][MCNext]_vars

(* A message to a group, one to a person, and one to both. *)
MCHistory ==
    { [author |-> tim, group |-> t25, recip |-> none],
      [author |-> joe, group |-> none, recip |-> tim],
      [author |-> qiyue, group |-> t25, recip |-> joe] }

Symmetry == Permutations(Groups)

=============================================================================
