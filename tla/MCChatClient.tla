---------------------------- MODULE MCChatClient ----------------------------
(***************************************************************************)
(* A finite instance of ChatClient for TLC: three buddies, two messages.   *)
(***************************************************************************)
EXTENDS ChatClient, TLC

(* Neither buddies nor messages differ but by their names. *)
PageSymmetry == Permutations(Buddies) \cup Permutations(Messages)

=============================================================================
