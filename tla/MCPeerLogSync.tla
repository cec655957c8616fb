--------------------------- MODULE MCPeerLogSync ---------------------------
(* TLC instances of PeerLogSync.                                           *)
EXTENDS PeerLogSync, TLC

CONSTANTS hub, left, right

\* left only writes; hub pulls from both its neighbours; right pulls from hub.
RelayPeers == (left :> <<>>) @@ (hub :> <<left, right>>) @@ (right :> <<hub>>)

Symmetry == Permutations(Ids)
=============================================================================
