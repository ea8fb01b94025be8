--------------------------- MODULE MCCacheServer ---------------------------
(* Instances of CacheServer small enough for TLC. *)
EXTENDS CacheServer

\* Keys hash apart, or all to the same value.
HashApart   == [k \in Keys |-> k]
HashTogether == [k \in Keys |-> "h"]

\* Connections and tables are interchangeable, and so are keys under both hash functions.
Symm == Permutations(Conns) \cup Permutations(Keys) \cup Permutations(TableNames)
=============================================================================
