--------------------------- MODULE MCListTimeline ----------------------------
(***************************************************************************)
(* Instances of ListTimeline for TLC.                                      *)
(***************************************************************************)
EXTENDS ListTimeline

Tweets3 == {7, 8, 10}
Tweets345 == {3, 4, 5}
NoLimits == {}
Limits8And9 == {8, 9}

==============================================================================
