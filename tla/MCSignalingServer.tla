------------------------- MODULE MCSignalingServer -------------------------
(* Instances of SignalingServer for TLC.                                   *)
EXTENDS SignalingServer, TLC

CONSTANTS c1, c2

\* One user on two connections: a reconnect, or a second machine with the same
\* id file.
OneUser == c1 :> {1} @@ c2 :> {1}

\* A connection that registers two ids, and one that takes over the first and
\* also sends an invalid id.
TwoIds == c1 :> {1, 2} @@ c2 :> {1, NoId}

=============================================================================
