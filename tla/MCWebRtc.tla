------------------------------ MODULE MCWebRtc ------------------------------
(***************************************************************************)
(* WebRtc for TLC: an offer ends up with no media, with audio, with video, *)
(* or with both.                                                           *)
(***************************************************************************)
EXTENDS WebRtc

CONSTANTS audio, video

MCMediaLists == {<<>>, <<audio>>, <<video>>, <<audio, video>>}

=============================================================================
