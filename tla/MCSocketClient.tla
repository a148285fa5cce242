--------------------------- MODULE MCSocketClient ---------------------------
(* Finite instances of SocketClient. *)
EXTENDS SocketClient

CONSTANTS s1, s2, s3

(* What the server offers and the page supports, in order of preference. *)
BothKinds == <<"websocket", "xhr-polling">>

(* State constraint: once attempts have overlapped, states with several    *)
(* handshakes under way are not followed further.  Recovers is about       *)
(* behaviours without overlap, of which this cuts none.                    *)
FewHandshakes == overlapped => io.handshakes <= 1
=============================================================================
