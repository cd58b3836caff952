--------------------------- MODULE MCPeerManager ----------------------------
(***************************************************************************)
(* Small instances of PeerManager: all inbound addresses of one host.      *)
(***************************************************************************)
EXTENDS PeerManager

MCHost == [c \in In |-> "host"]
=============================================================================
