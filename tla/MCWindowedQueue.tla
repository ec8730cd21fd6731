-------------------------- MODULE MCWindowedQueue --------------------------
(* Instances of the windowed queue for TLC. *)
EXTENDS WindowedQueue

CONSTANT MaxNode
MCNodes == 1 .. MaxNode

\* States that differ in the identities of nodes only, in the last answer or in
\* unsafe_len (which no operation reads) have the same future, as long as every
\* node has one owner; a state in which that fails is seen as a state of its own.
Contents ==
    << [w \in DOMAIN win |->
          << [i \in DOMAIN win[w].nodes |->
                 << valid[win[w].nodes[i]], mem[win[w].nodes[i]] >>],
             win[w].safe, win[w].safe_len, win[w].headDataOffset,
             win[w].headSeq, win[w].lastSeq, win[w].ub_list, hist[w] >>],
       Len(pool), Cardinality(heap), corrupt, NodesOwnedOnce >>
=============================================================================
