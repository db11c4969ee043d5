------------------------------- MODULE MCMmc -------------------------------
EXTENDS Mmc

MCCard(std, hc, four, hs, blocks) ==
  [std |-> std, hc |-> hc, four |-> four, hs |-> hs, blocks |-> blocks,
   state |-> "idle", rca |-> 0, app |-> FALSE, cond |-> FALSE, width |-> 1]

MCCards ==
  {MCCard("SD_1_0", FALSE, FALSE, FALSE, 3), MCCard("SD_1_10", FALSE, TRUE, TRUE, 5),
   MCCard("SD_2", TRUE, TRUE, TRUE, 10), MCCard("MMC_3", FALSE, FALSE, FALSE, 3),
   MCCard("MMC_4", TRUE, TRUE, TRUE, 7)}

(* ocsdc.c, and the send_cmd that mmc.c was written for.                   *)
OcsdcHost == [timeouts |-> FALSE, caps |-> {"4BIT"}]
TimeoutHost == [timeouts |-> TRUE, caps |-> {"4BIT", "HS", "HS_52MHz"}]
MCHosts == {OcsdcHost, TimeoutHost}
MCOcsdcHosts == {OcsdcHost}

MCStarts == {1, 13}
MCCounts == {0, 1, 3}
MCBuffers == {"buff"}
=============================================================================
