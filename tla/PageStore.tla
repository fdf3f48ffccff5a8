------------------------------ MODULE PageStore ------------------------------
(***************************************************************************)
(* What the trees and the variable-length store rely on of the storage     *)
(* below them: pages that hold what was last written to them, and new      *)
(* pages that nobody else has.  There are no frames, no pins and no file   *)
(* here; eviction and restart are not visible.                             *)
(***************************************************************************)
CONSTANTS
  PageIds, Zeros,
  InitialData,   \* what a page that was just handed out can hold
  WrittenData    \* what its owner writes to it later; told apart, so that
                 \* handing out a page someone has is not a write to it

VARIABLE latest   \* the pages in use and their contents

Init == latest = [p \in {} |-> Zeros]

New(page, data) ==
  /\ page \notin DOMAIN latest
  /\ latest' = [p \in DOMAIN latest \cup {page} |->
                  IF p = page THEN data ELSE latest[p]]

Write(page, data) ==
  /\ page \in DOMAIN latest
  /\ latest' = [latest EXCEPT ![page] = data]

Delete(page) ==
  /\ page \in DOMAIN latest
  /\ latest' = [p \in DOMAIN latest \ {page} |-> latest[p]]

Clear == latest' = [p \in {} |-> Zeros]

Next ==
  \/ \E page \in PageIds :
       \/ \E data \in InitialData : New(page, data)
       \/ \E data \in WrittenData : Write(page, data)
       \/ Delete(page)
  \/ Clear

Spec == Init /\ [][Next]_latest

=============================================================================
