------------------------------ MODULE MCMempool ------------------------------
\* Instances of Mempool for TLC: the messages of one fid, named by their kinds.
EXTENDS Mempool

KindOf == [m \in Messages |-> m]

OnShardOne == [m \in Messages |-> 1]

OnShardOneOnly == [s \in AllShards |-> IF s = 1 THEN 1 ELSE 0]

Ranks == [m \in Messages |->
            CASE m = "rent" -> 1 [] m = "fname" -> 2 [] m = "keyAdd" -> 3
              [] m = "keyRemove" -> 4 [] OTHER -> 5]
===============================================================================
