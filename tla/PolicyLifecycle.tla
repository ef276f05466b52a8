-------------------------- MODULE PolicyLifecycle --------------------------
(***************************************************************************)
(* What the PolicyManager promises about one book of policies, without     *)
(* roles, counters or certificates: cover is offered, may start while the  *)
(* offer stands and then runs for exactly the term it was sold for, and    *)
(* closes once: paid inside its window, lapsed after it, or withdrawn.     *)
(***************************************************************************)
EXTENDS Integers

VARIABLES
    now,
    book        \* policy id -> [phase, from, until, terms]

Phases == {"Offered", "InForce", "Paid", "Lapsed", "Withdrawn"}
OpenPhases == {"Offered", "InForce"}

Init == now = 0 /\ book = [id \in {} |-> 0]

(* An offer runs from the sale; ids are never reused.                      *)
Offer(id) ==
    /\ id \notin DOMAIN book
    /\ DOMAIN book' = DOMAIN book \cup {id}
    /\ book'[id].phase = "Offered"
    /\ book'[id].from = now
    /\ book'[id].until > now
    /\ \A i \in DOMAIN book : book'[i] = book[i]

Start(id) ==
    LET offer == book[id] IN
    /\ offer.phase = "Offered"
    /\ now <= offer.until
    /\ book' = [book EXCEPT ![id] =
                   [offer EXCEPT !.phase = "InForce", !.from = now,
                                 !.until = now + (offer.until - offer.from)]]

Pay(id) ==
    /\ book[id].phase = "InForce"
    /\ book[id].from <= now /\ now <= book[id].until
    /\ book' = [book EXCEPT ![id].phase = "Paid"]

Lapse(id) ==
    /\ book[id].phase \in OpenPhases
    /\ now > book[id].until
    /\ book' = [book EXCEPT ![id].phase = "Lapsed"]

Withdraw(id) ==
    /\ book[id].phase \in OpenPhases
    /\ book' = [book EXCEPT ![id].phase = "Withdrawn"]

TimePasses == now' > now /\ UNCHANGED book

Next ==
    \/ TimePasses
    \/ /\ UNCHANGED now
       /\ \/ \E id \in DOMAIN book' : Offer(id)
          \/ \E id \in DOMAIN book : Start(id) \/ Pay(id) \/ Lapse(id) \/ Withdraw(id)

Spec == Init /\ [][Next]_<<now, book>>
=============================================================================
