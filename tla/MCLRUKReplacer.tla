--------------------------- MODULE MCLRUKReplacer ---------------------------
(* The replacer alone with three frames: frames reach k accesses, become   *)
(* evictable, are evicted, removed and re-admitted in every order.         *)
EXTENDS LRUKReplacer

MCFrameIds == 0..2
=============================================================================
