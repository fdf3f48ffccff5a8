---------------------------- MODULE MCBufferPool ----------------------------
(* Two frames, three pages, two guards: every third page needs an eviction. *)
EXTENDS BufferPoolManager, TLC

CONSTANTS g1, g2

MCFrames == 0 .. 1
MCOneFrame == {0}
MCGuards == {g1, g2}
MCSymmetry == Permutations(MCGuards)

(* Only the order of times matters: the replacer compares them and nothing  *)
(* else, so states that differ in the times themselves behave alike.        *)
Times ==
  UNION {{pool.lru.history[p][i] : i \in 1 .. K} : p \in DOMAIN pool.lru.history} \ {0}

Rank(t) == Cardinality({u \in Times : u <= t})

MCView ==
  <<[pool EXCEPT !.lru =
       [history |-> [p \in DOMAIN pool.lru.history |->
                       [i \in 1 .. K |-> Rank(pool.lru.history[p][i])]],
        evictable |-> {<<[i \in 1 .. 2 |-> Rank(d[i])], pool.lru.evictable[d]>> :
                         d \in DOMAIN pool.lru.evictable},
        hint |-> [f \in Frames |->
                    [i \in DOMAIN pool.lru.hint[f] |-> Rank(pool.lru.hint[f][i])]]]],
    guards, latest>>

=============================================================================
