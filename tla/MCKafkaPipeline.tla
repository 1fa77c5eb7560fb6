-------------------------- MODULE MCKafkaPipeline --------------------------
(* Instances of KafkaPipeline for TLC.                                     *)
EXTENDS KafkaPipeline

CONSTANTS d1, d2, i1, i2

OneDanmaku   == {d1}
TwoDanmakus  == {d1, d2}
OneInstance  == {i1}
TwoInstances == {i1, i2}

=============================================================================
