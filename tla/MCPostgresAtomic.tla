-------------------------- MODULE MCPostgresAtomic --------------------------
(* Two commands whose intents name the same two buckets in opposite orders.  *)
EXTENDS PostgresAtomic, TLC

Item(b, n) == [bucket |-> b, cost |-> n]

MCIntents == {<<Item(1, 1), Item(2, 2)>>, <<Item(2, 1), Item(1, 1)>>}

MCSingles == {Item(1, 1)}

MCLockOf == [b \in Buckets |-> b]

MCLimit == <<1, 2>>

MCPeriod == <<1, 2>>

Renamings == Permutations(Sessions) \cup Permutations(Commands)
=============================================================================
