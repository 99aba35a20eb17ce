--------------------------- MODULE MC_CacheClient ---------------------------
(* The node cache with short ints of 4 bits and blocks of 2 pointers.      *)
EXTENDS CacheClient
=============================================================================
