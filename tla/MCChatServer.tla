---------------------------- MODULE MCChatServer ----------------------------
(***************************************************************************)
(* Finite instances of ChatServer for TLC: up to three sessions and        *)
(* addresses and three names, two of them anonymous, and an administrator's*)
(* listing file.                                                           *)
(***************************************************************************)
EXTENDS ChatServer, TLC

CONSTANTS c1, c2, c3, a1, a2, a3, joe, anonymous0, anonymous1

Line(n, a) == [addr |-> a, name |-> n]

NoFile == { <<>> }

(* No file; one that gives two addresses the same name; one that lists an  *)
(* address twice, has a broken line, and then another, so that it comes to *)
(* one line, of a name that may be drawn again.  All are there for every   *)
(* choice of addresses, so that these stay alike.                          *)
AdminFiles ==
    { <<>> } \cup
    { << Line(joe, ab[1]), Line(joe, ab[2]) >> : ab \in { x \in Addrs \X Addrs : x[1] # x[2] } } \cup
    { << Line(x[1], x[2]), Line(joe, x[2]), null, Line(joe, x[3]) >> :
        x \in AnonymousNames \X Addrs \X Addrs }

(* Sessions are alike; without a listing file, so are addresses and names. *)
ClientSymmetry == Permutations(Clients)

FullSymmetry ==
    Permutations(Clients) \cup Permutations(Addrs) \cup Permutations(AnonymousNames)

=============================================================================
