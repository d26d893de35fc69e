----------------------------- MODULE MCHeapExecutors -----------------------------
(* Three statements on one table: INSERT of the values 1, 2, 1, an UPDATE  *)
(* of every row swapping 1 and 2, a DELETE of the rows holding 2, and an   *)
(* index scan for the key 2.                                               *)
EXTENDS HeapExecutors

MCQuery ==
    [t \in Threads |->
        CASE t = "ins" -> [kind |-> "insert", vals |-> <<1, 2, 1>>, filter |-> {}, key |-> 1]
          [] t = "upd" -> [kind |-> "update", vals |-> <<>>, filter |-> {1, 2}, key |-> 1]
          [] t = "del" -> [kind |-> "delete", vals |-> <<>>, filter |-> {2}, key |-> 1]
          [] t = "idx" -> [kind |-> "index", vals |-> <<>>, filter |-> {}, key |-> 2]]

MCSetTo == [v \in Vals |-> 3 - v]
=============================================================================
