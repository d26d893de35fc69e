--------------------- MODULE MCDiskExtendibleHashTable ---------------------
(* Values for the hash table's constants: hashes are 3 bits wide and a     *)
(* key is its own hash, so the MC key set fixes which directory (top bit)  *)
(* and which bucket slot (low bits) each key reaches.                      *)
EXTENDS DiskExtendibleHashTable

MCHashOf == [k \in Keys |-> k]
=============================================================================
