------------------------------ MODULE MCTrie ------------------------------
(* Instances of Trie: keys of four nibbles, the first two uncompacted.     *)
EXTENDS Trie

\* Three keys below one node, two of them deeper together, and one beside them.
FourKeys == {<<0, 0, 0, 0>>, <<0, 0, 0, 1>>, <<0, 0, 1, 0>>, <<0, 1, 1, 0>>}

\* The first two are compacted at <<0, 0>>; the last two share <<8, 0, 0>>.
\* The first pair and the second belong to different fids.
TwoFids == {<<0, 0, 0, 0>>, <<0, 0, 1, 0>>, <<8, 0, 0, 0>>, <<8, 0, 0, 1>>}
=============================================================================
