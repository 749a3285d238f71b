---------------------------- MODULE MCPeerBoard ----------------------------
(* Boards for the model checker: one task, or two, the better one second.   *)
EXTENDS PeerBoard

MCBoards == {<<0>>, <<1, 0>>}
=============================================================================
