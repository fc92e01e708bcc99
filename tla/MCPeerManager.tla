--------------------------- MODULE MCPeerManager ---------------------------
EXTENDS PeerManager, TLC

CONSTANTS a, s1, s2, s3

OnePeer == {a}
ThreeChains == {s1, s2, s3}
ChainSymmetry == Permutations(ThreeChains)
=============================================================================
