---------------------------- MODULE MCMemoryStore ----------------------------
(* Two callers on two shards of one key each.  Keys 1 and 2 compete for the  *)
(* first shard; key 2 is used for rates and for leases.                      *)
EXTENDS MemoryStore, TLC

Symmetry == Permutations(Callers)

Query(op, strict, key, now, arg) ==
    [op |-> op, strict |-> strict, key |-> key, now |-> now, arg |-> arg]

MCShardOf == (1 :> 1) @@ (2 :> 1) @@ (3 :> 2)

MCCalls ==
    {Query("admit", TRUE, 1, 0, 0), Query("admit", FALSE, 1, 1, 0),
     Query("admit", FALSE, 2, 0, 0), Query("acquire", TRUE, 2, 1, 0),
     Query("acquire", FALSE, 3, 0, 0), Query("release", TRUE, 2, 0, 2),
     Query("sweep", FALSE, 1, 1, 1), Query("len", FALSE, 1, 0, 0)}

\* Three callers, on the first shard and past it.
QueueCalls ==
    {Query("admit", TRUE, 1, 0, 0), Query("admit", FALSE, 2, 1, 0),
     Query("sweep", FALSE, 1, 1, 1)}
=============================================================================
