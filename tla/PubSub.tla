------------------------------- MODULE PubSub -------------------------------
(***************************************************************************)
(* What the dispatch core promises to those who publish and those who      *)
(* play: a stream has one owner at a time, a player is in the audience of  *)
(* one stream at a time, and the frames of a publisher reach the audience  *)
(* of the stream it owns, and nobody else.                                 *)
(*                                                                         *)
(* A player that joins may have to wait until the owner serves it; one     *)
(* that leaves is not reached any more from that moment on.  A stream may  *)
(* lose its owner by the act of another publisher.                         *)
(***************************************************************************)
CONSTANTS
  Peers,     \* publishers and players
  Streams,
  NULL

VARIABLES
  owner,     \* who publishes a stream, or NULL
  audience,  \* who plays a stream
  reach      \* whom the frames of a peer reach

vars == <<owner, audience, reach>>

Init ==
  /\ owner = [k \in Streams |-> NULL]
  /\ audience = [k \in Streams |-> {}]
  /\ reach = [p \in Peers |-> {}]

\* A stream without owner gets one, which reaches nobody yet.
Acquire(k, p) ==
  /\ owner[k] = NULL
  /\ reach[p] = {}
  /\ owner' = [owner EXCEPT ![k] = p]
  /\ UNCHANGED <<audience, reach>>

\* The owner begins to serve the audience of its stream.
Serve(k) ==
  /\ owner[k] # NULL
  /\ reach' = [reach EXCEPT ![owner[k]] = audience[k]]
  /\ UNCHANGED <<owner, audience>>

\* A stream loses its owner, which reaches nobody any more.
Release(k) ==
  /\ owner[k] # NULL
  /\ owner' = [owner EXCEPT ![k] = NULL]
  /\ reach' = [reach EXCEPT ![owner[k]] = {}]
  /\ UNCHANGED audience

\* A player joins; the owner, if there is one, serves it now or later.
Join(k, p) ==
  /\ \A l \in Streams : p \notin audience[l]
  /\ audience' = [audience EXCEPT ![k] = @ \cup {p}]
  /\ \/ reach' = reach
     \/ owner[k] # NULL /\ reach' = [reach EXCEPT ![owner[k]] = audience'[k]]
  /\ UNCHANGED owner

\* A player leaves.
Leave(k, p) ==
  /\ p \in audience[k]
  /\ audience' = [audience EXCEPT ![k] = @ \ {p}]
  /\ reach' = [q \in Peers |-> reach[q] \ {p}]
  /\ UNCHANGED owner

Next ==
  \E k \in Streams :
    \/ Serve(k) \/ Release(k)
    \/ \E p \in Peers : Acquire(k, p) \/ Join(k, p) \/ Leave(k, p)

Spec == Init /\ [][Next]_vars

-----------------------------------------------------------------------------
\* Frames reach only players of a stream that the publisher owns.
ReachesItsAudience ==
  \A p \in Peers : reach[p] # {} =>
    \E k \in Streams : owner[k] = p /\ reach[p] \subseteq audience[k]

=============================================================================
