-------------------------- MODULE MCTcpInterleaved --------------------------
(***************************************************************************)
(* TcpInterleaved for TLC: a stream long enough for its sequence numbers   *)
(* to wrap, and a second one.                                              *)
(***************************************************************************)
EXTENDS TcpInterleaved, TLC

CONSTANTS video, audio

MCStreams == {video, audio}
MCMaxFrames == (video :> 3) @@ (audio :> 1)
=============================================================================
