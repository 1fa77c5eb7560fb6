------------------------- MODULE MCDanmakuService -------------------------
(* Instances of DanmakuService for TLC; the cfg file chooses among them.   *)
EXTENDS DanmakuService

CONSTANTS r1, r2, main1, retry

TwoRequests == {r1, r2}
TwoCallers  == {main1, retry}
AllModes    == {"kafka", "chan", "direct"}

=============================================================================
