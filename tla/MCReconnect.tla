----------------------------- MODULE MCReconnect -----------------------------
(***************************************************************************)
(* Instance of Reconnect for TLC.                                          *)
(***************************************************************************)
EXTENDS Reconnect

\* Three danmaku, enough for two in one millisecond and one in the next, and
\* for a page and one row more.
ThreeDanmakus == 1..3

=============================================================================
