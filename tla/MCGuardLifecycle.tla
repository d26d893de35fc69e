--------------------------- MODULE MCGuardLifecycle ---------------------------
(* Two threads, each with a basic, a read and two write guard variables,   *)
(* over a pool of one frame and two page ids, so a fetch of the other page *)
(* evicts and a full pool is one pin away.  The write variables let a      *)
(* guard be moved from one to the other; the read one lets both threads   *)
(* share a latch.  Contents stay 0: only pins and latches are observed.   *)
EXTENDS GuardLifecycle, TLC

MCValues == {0}

MCSlotType == [s \in {"b", "r", "w1", "w2"} |->
                  CASE s = "b" -> "basic" [] s = "r" -> "read" [] OTHER -> "write"]
\* The threads run the same code, so renaming them is a symmetry.
MCSymmetry == Permutations(Threads)
=============================================================================
