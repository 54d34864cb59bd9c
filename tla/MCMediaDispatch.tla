-------------------------- MODULE MCMediaDispatch --------------------------
(* Instances of MediaDispatch for TLC. *)
EXTENDS MediaDispatch, TLC

CONSTANTS aac, opus

\* WebRTC sessions use Opus, the others AAC.
MCAudCodec == [p \in Peers |-> IF p \in RtcPeers THEN opus ELSE aac]

Symmetry == Permutations(Sms)
=============================================================================
