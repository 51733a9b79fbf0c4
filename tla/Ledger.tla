-------------------------------- MODULE Ledger --------------------------------
(***************************************************************************)
(* What the nodes of a shard promise together, whatever part they play:    *)
(* there is one growing sequence of decided values, and what every node has*)
(* stored is a prefix of it that only grows.  ShardChain (validators) and  *)
(* ReadNode (followers) are shown to implement it.                         *)
(***************************************************************************)
EXTENDS Naturals, Sequences

CONSTANTS Members    \* the nodes

VARIABLES chain,     \* the decided values, by height
          ledger     \* ledger[n]: what node n has stored, by height

ledgerVars == <<chain, ledger>>

Init ==
  /\ chain = <<>>
  /\ ledger = [n \in Members |-> <<>>]

\* One more value is decided.
Extend ==
  /\ Len(chain') = Len(chain) + 1
  /\ chain' = Append(chain, chain'[Len(chain')])
  /\ UNCHANGED ledger

\* One node stores one or more of the values decided after those it has.
Store(n) ==
  /\ \E k \in Len(ledger[n]) + 1 .. Len(chain) :
       ledger' = [ledger EXCEPT ![n] = SubSeq(chain, 1, k)]
  /\ UNCHANGED chain

Next == Extend \/ \E n \in Members : Store(n)

Spec == Init /\ [][Next]_ledgerVars

===============================================================================
