---------------------------- MODULE MCPageGuards ----------------------------
(* Instances of PageGuards for TLC.  MCPageGuards.cfg: two threads sharing *)
(* one frame and two page ids, so every fetch of the other page evicts,    *)
(* guards on one page contend for its latch, and a FlushPage request can   *)
(* be pending while the frame changes hands.  Page contents are 0          *)
(* (zeroed) or 1.                                                          *)
EXTENDS PageGuards

MCValues == {0, 1}
=============================================================================
