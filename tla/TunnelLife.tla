----------------------------- MODULE TunnelLife -----------------------------
(***************************************************************************)
(* What a connectDialer promises of its connections to the proxy: each is   *)
(* made by one dial, and serves that dial's tunnel alone, or is put in the  *)
(* one place where later dials find it to share, until another takes the    *)
(* place.  Whoever shares it then keeps it: it is never closed for that,    *)
(* never found again, and never comes back to the place.                    *)
(***************************************************************************)
CONSTANTS Goroutine, Raw

VARIABLES
  stage,  \* how far a connection is: new, making, own (one tunnel's), cached (in
          \* the place), forgotten (open still, but no one will find it), gone
  users,  \* the goroutines that dial or tunnel through it
  alive   \* the connections that work

vars == <<stage, users, alive>>

Init ==
  /\ stage = [c \in Raw |-> "new"]
  /\ users = [c \in Raw |-> {}]
  /\ alive = {}

Dialled(c) ==
  /\ stage[c] = "new" /\ stage'[c] \in {"making", "own"}
  /\ \E g \in Goroutine : users'[c] = {g}
  /\ c \in alive'

\* The CONNECT fails and closes it; or a panic ends the dial and does not.
GivenUp(c) ==
  /\ stage[c] = "making" /\ users'[c] = {}
  /\ \/ stage'[c] = "gone" /\ c \notin alive'
     \/ stage'[c] = "forgotten" /\ (c \in alive' <=> c \in alive)

Remains(c) == users'[c] = users[c] /\ (c \in alive' <=> c \in alive)

\* A tunnel of its own, or one of many.
Kept(c) == stage[c] = "making" /\ stage'[c] = "own" /\ Remains(c)

Cached(c) ==
  /\ stage[c] = "making" /\ stage'[c] = "cached" /\ Remains(c)
  /\ \A d \in Raw \ {c} : stage'[d] # "cached"

Replaced(c) ==
  /\ stage[c] = "cached" /\ stage'[c] = "forgotten" /\ Remains(c)
  /\ \E d \in Raw : stage'[d] = "cached"

Joined(c) ==
  /\ stage[c] = "cached" /\ stage'[c] = "cached"
  /\ \E g \in Goroutine \ users[c] : users'[c] = users[c] \cup {g}
  /\ c \in alive' <=> c \in alive

\* A tunnel closes, or a CONNECT fails and closes the connection under the others.
Left(c) ==
  /\ stage[c] \in {"cached", "forgotten"} /\ stage'[c] = stage[c]
  /\ \E g \in users[c] : users'[c] = users[c] \ {g}
  /\ c \in alive' => c \in alive

Ended(c) ==
  /\ stage[c] = "own" /\ stage'[c] = "gone"
  /\ users'[c] = {}
  /\ c \notin alive'

\* The proxy may close a connection at any time.
Unmoved(c) ==
  /\ stage'[c] = stage[c] /\ users'[c] = users[c]
  /\ c \in alive' => c \in alive

Next ==
  \A c \in Raw :
    \/ Dialled(c) \/ GivenUp(c) \/ Kept(c) \/ Cached(c) \/ Replaced(c) \/ Joined(c)
    \/ Left(c) \/ Ended(c) \/ Unmoved(c)

Spec == Init /\ [][Next]_vars

=============================================================================
