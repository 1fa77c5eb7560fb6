---------------------------- MODULE MCRedisBridge ----------------------------
(***************************************************************************)
(* Instance of RedisBridge for TLC.                                        *)
(***************************************************************************)
EXTENDS RedisBridge

\* Two instances of the server, one of which broadcasts.
TwoInstances == {1, 2}
FirstSends   == {1}

=============================================================================
