---------------------------- MODULE MCModelStore ----------------------------
(* A small instance of ModelStore: a model of two shards whose second revision changes *)
(* one of them, drops a file and adds another. *)
EXTENDS ModelStore

SmallTrees == [r1 |-> [config |-> "c1", shard1 |-> "x1", shard2 |-> "y1", notes |-> "n1"],
               r2 |-> [config |-> "c1", shard1 |-> "x2", shard2 |-> "y1", extra |-> "e2"]]
SmallIncludes == <<{"config"}, {"shard1", "shard2", "extra"}>>
=============================================================================
