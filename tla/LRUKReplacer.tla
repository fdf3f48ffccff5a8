---------------------------- MODULE LRUKReplacer ----------------------------
(***************************************************************************)
(* The replacer of lru_k_replacer.cpp: which unpinned frame is evicted     *)
(* next.  Its state is a record; the operations are operators on it.       *)
(* Histories belong to pages, not frames, and outlive an eviction.         *)
(***************************************************************************)
EXTENDS Integers, Sequences

CONSTANTS Frames, K

ASSUME ReplacerAssumption == K \in Nat \ {0}

(* LRUKNode: the last K times of access, oldest first; 0 for none.         *)
NeverAccessed == [i \in 1 .. K |-> 0]

(* evict_hint_[frame] is the end iterator.                                 *)
NoHint == <<>>

(* time is timestamp_ (static, so clean does not reset it; but only the    *)
(* order of times matters); history is access_history_; evictable maps distances *)
(* to frames and is ordered by distance (evitable_frames_); hint says which *)
(* distance a frame was entered under.                                      *)
EmptyReplacer ==
  [time |-> 0, history |-> [p \in {} |-> NeverAccessed],
   evictable |-> [d \in {} |-> 0], hint |-> [f \in Frames |-> NoHint]]

History(lru, page) ==
  IF page \in DOMAIN lru.history THEN lru.history[page] ELSE NeverAccessed

(* Mutant: only the access K times ago counts.                             *)
GetKDistanceOnly(lru, page) == <<Head(History(lru, page)), 0>>

(* The access K times ago, and the last one among pages equally old.       *)
GetKDistance(lru, page) ==
  <<Head(History(lru, page)), History(lru, page)[K]>>

Less(d, e) == d[1] < e[1] \/ (d[1] = e[1] /\ d[2] < e[2])

RecordAccess(lru, page) ==
  LET accessed == Append(Tail(History(lru, page)), lru.time + 1)
  IN  [lru EXCEPT
         !.time = @ + 1,
         !.history = [p \in DOMAIN @ \cup {page} |->
                        IF p = page THEN accessed ELSE @[p]]]

Without(evictable, distance) ==
  [d \in DOMAIN evictable \ {distance} |-> evictable[d]]

SetNonevictable(lru, frame) ==
  [lru EXCEPT !.evictable = Without(@, lru.hint[frame]),
              !.hint[frame] = NoHint]

(* emplace leaves an entry that is already there under the same distance.  *)
SetEvictable(lru, frame, page) ==
  LET distance == GetKDistance(lru, page)
      left == Without(lru.evictable, lru.hint[frame])
  IN  [lru EXCEPT
         !.evictable = [d \in DOMAIN left \cup {distance} |->
                          IF d \in DOMAIN left THEN left[d] ELSE frame],
         !.hint[frame] = distance]

CanEvict(lru) == DOMAIN lru.evictable # {}

(* The frame in front.                                                     *)
Victim(lru) ==
  lru.evictable[CHOOSE d \in DOMAIN lru.evictable :
                  \A e \in DOMAIN lru.evictable : d = e \/ Less(d, e)]

(* Evict clears no history, Remove does.                                   *)
Evict(lru) == SetNonevictable(lru, Victim(lru))

Forget(lru, frame, page) ==
  LET without == SetNonevictable(lru, frame)
  IN  [without EXCEPT !.history = [p \in DOMAIN @ \ {page} |-> @[p]]]

=============================================================================
