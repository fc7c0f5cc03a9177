--------------------------- MODULE MCPeerHandshake ---------------------------
(* Instance of PeerHandshake for model checking. *)
EXTENDS PeerHandshake

\* Polls of the answering device overlap.
Overlapping == {<<Caller, 1>>, <<Answerer, 1>>, <<Answerer, 2>>}
=============================================================================
