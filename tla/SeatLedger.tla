----------------------------- MODULE SeatLedger -----------------------------
(***************************************************************************)
(* What the ticket office promises, without vacancies, queues, indices or  *)
(* sessions: a train on sale has seats, an order is a line in a ledger,    *)
(* and whether a request fits is counted from the lines that are sold.     *)
(* Orders that wait are served in the order they came, as soon as they     *)
(* fit; nothing else happens while one that fits is waiting.               *)
(***************************************************************************)
EXTENDS Integers, FiniteSets

VARIABLES
  on_sale,   \* train -> its seats, its legs, its days on sale
  ledger     \* order -> its line

ledgerVars == <<on_sale, ledger>>

(* The seats of a train sold for a day and a leg.                          *)
Sold(id, date, i) ==
  {ks \in (DOMAIN ledger) \X (1 .. on_sale[id].seats) :
     LET o == ledger[ks[1]]
     IN /\ o.status = "SUCCESS" /\ o.train = id /\ o.date = date
        /\ o.from <= i /\ i < o.to
        /\ ks[2] <= o.seats}

HasSeats(o) ==
  \A i \in o.from .. o.to - 1 :
    Cardinality(Sold(o.train, o.date, i)) + o.seats <= on_sale[o.train].seats

Pending(k) == ledger[k].status = "PENDING"

(* Every order that waits does so for want of seats.                       *)
Settled == \A k \in DOMAIN ledger : Pending(k) => ~HasSeats(ledger[k])

Servable(o) ==
  /\ o.train \in DOMAIN on_sale
  /\ o.date \in on_sale[o.train].days
  /\ 0 <= o.from /\ o.from < o.to /\ o.to <= on_sale[o.train].legs
  /\ o.seats \in 1 .. on_sale[o.train].seats

LedgerInit ==
  /\ on_sale = [id \in {} |-> id]
  /\ ledger = [k \in {} |-> k]

Record(k, o) ==
  /\ k \notin DOMAIN ledger
  /\ ledger' = [x \in DOMAIN ledger \cup {k} |-> IF x = k THEN o ELSE ledger[x]]
  /\ UNCHANGED on_sale

(* A request that fits is sold at once.                                    *)
Book(k, o) ==
  /\ Settled /\ Servable(o) /\ HasSeats(o)
  /\ o.status = "SUCCESS"
  /\ Record(k, o)

(* One that does not may wait, behind all those that wait already.         *)
Wait(k, o) ==
  /\ Settled /\ Servable(o) /\ ~HasSeats(o)
  /\ o.status = "PENDING"
  /\ \A x \in DOMAIN ledger : Pending(x) => ledger[x].since < o.since
  /\ Record(k, o)

SetStatus(k, status) ==
  /\ ledger' = [ledger EXCEPT ![k].status = status, ![k].since = 0]
  /\ UNCHANGED on_sale

(* The order that has waited longest for the train and day, of those that  *)
(* fit, is sold.                                                           *)
Promote(k) ==
  /\ Pending(k)
  /\ HasSeats(ledger[k])
  /\ \A x \in DOMAIN ledger :
       /\ Pending(x)
       /\ ledger[x].train = ledger[k].train /\ ledger[x].date = ledger[k].date
       /\ ledger[x].since < ledger[k].since
       => ~HasSeats(ledger[x])
  /\ SetStatus(k, "SUCCESS")

(* Seats come back, or a claim to them is given up.                        *)
Refund(k) ==
  /\ Settled
  /\ ledger[k].status # "REFUNDED"
  /\ SetStatus(k, "REFUNDED")

(* A train is put on sale, once.                                           *)
OpenSale(id) ==
  /\ Settled
  /\ id \notin DOMAIN on_sale
  /\ DOMAIN on_sale' = DOMAIN on_sale \cup {id}
  /\ \A x \in DOMAIN on_sale : on_sale'[x] = on_sale[x]
  /\ UNCHANGED ledger

Forget ==
  /\ Settled
  /\ on_sale' = [id \in {} |-> id]
  /\ ledger' = [k \in {} |-> k]

(* The steps are written over the lines of ledger', so that a checker can  *)
(* evaluate them on a given step.                                          *)
LedgerNext ==
  \/ \E k \in DOMAIN ledger' : Book(k, ledger'[k]) \/ Wait(k, ledger'[k])
  \/ \E k \in DOMAIN ledger : Promote(k) \/ Refund(k)
  \/ \E id \in DOMAIN on_sale' : OpenSale(id)
  \/ Forget

LedgerSafety == LedgerInit /\ [][LedgerNext]_ledgerVars

LedgerSpec ==
  /\ LedgerSafety
  /\ WF_ledgerVars(\E k \in DOMAIN ledger : Promote(k))
=============================================================================
