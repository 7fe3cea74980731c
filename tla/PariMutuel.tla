------------------------------ MODULE PariMutuel ------------------------------
(****************************************************************************)
(* What a market promises its bettors, without an account of the program:   *)
(* one pool of all stakes; the holders of the winning outcome split it, net *)
(* of a rake, in proportion to their stakes on it; or everyone gets their   *)
(* stakes back.  The promise is stated over the stakes themselves: there is *)
(* no running total, no vault, no clock and no proof.                       *)
(****************************************************************************)
EXTENDS Integers, Functions

CONSTANTS Users, Outcomes, Nobody, InitialHoldings, RakeNumerator, RakeDenominator

VARIABLES
  phase,      \* "NotCreated", "Open", "Resolved" or "Refunded"
  organizer,  \* who is owed the rake
  stakes,     \* [Users -> [Outcomes -> Nat]]
  winner,     \* the winning outcome, once resolved
  paid,       \* the users who took what they are owed
  holdings    \* the users' tokens

vars == <<phase, organizer, stakes, winner, paid, holdings>>

StakeOf(u)    == SumFunction(stakes[u])
StakedOn(o)   == SumFunction([u \in Users |-> stakes[u][o]])
Pool          == SumFunction([u \in Users |-> StakeOf(u)])
Rake          == (Pool * RakeNumerator) \div RakeDenominator
Share(u, o)   == (stakes[u][o] * (Pool - Rake)) \div StakedOn(o)
Receive(u, n) == holdings' = [holdings EXCEPT ![u] = @ + n]

Init ==
  /\ phase = "NotCreated" /\ organizer = Nobody
  /\ stakes = [u \in Users |-> [o \in Outcomes |-> 0]]
  /\ winner = 0 /\ paid = {} /\ holdings = InitialHoldings

Open(u) ==
  /\ phase = "NotCreated"
  /\ phase' = "Open" /\ organizer' = u
  /\ UNCHANGED <<stakes, winner, paid, holdings>>

Stake(u, o, n) ==
  /\ phase = "Open" /\ n \in 1 .. holdings[u]
  /\ stakes' = [stakes EXCEPT ![u][o] = @ + n]
  /\ Receive(u, -n)
  /\ UNCHANGED <<phase, organizer, winner, paid>>

\* The pool is raked once, when somebody has won it.
Win(o) ==
  /\ phase = "Open" /\ StakedOn(o) > 0
  /\ phase' = "Resolved" /\ winner' = o
  /\ Receive(organizer, Rake)
  /\ UNCHANGED <<organizer, stakes, paid>>

Void ==
  /\ phase = "Open"
  /\ phase' = "Refunded"
  /\ UNCHANGED <<organizer, stakes, winner, paid, holdings>>

Collect(u) ==
  /\ u \notin paid
  /\ \/ phase = "Resolved" /\ stakes[u][winner] > 0 /\ Receive(u, Share(u, winner))
     \/ phase = "Refunded" /\ StakeOf(u) > 0 /\ Receive(u, StakeOf(u))
  /\ paid' = paid \cup {u}
  /\ UNCHANGED <<phase, organizer, stakes, winner>>

\* A user may give a token away, to the market too: it buys nothing.
GiveAway(u) ==
  /\ holdings[u] > 0
  /\ Receive(u, -1)
  /\ UNCHANGED <<phase, organizer, stakes, winner, paid>>

Next ==
  \/ \E u \in Users : Open(u) \/ Collect(u) \/ GiveAway(u)
  \/ \E u \in Users, o \in Outcomes : \E n \in 1 .. holdings[u] : Stake(u, o, n)
  \/ \E o \in Outcomes : Win(o)
  \/ Void

Spec == Init /\ [][Next]_vars
=============================================================================
