------------------------------ MODULE ConnLife ------------------------------
(***************************************************************************)
(* What a roundTripper promises of its TLS connections: each is made by one *)
(* goroutine for one address, its home, which it never leaves; it is handed  *)
(* out, or parked and then handed out, shared only from a pool, and gone for *)
(* good once let go.  It is closed by then, unless it never served anybody.  *)
(***************************************************************************)
CONSTANTS Goroutine, Addr, Conn

VARIABLES
  stage,  \* how far a connection is: new, making, parked, pooled (for others
          \* to take or join), carried (its users' only), gone
  home,   \* its address, as a set of at most one
  users,  \* the goroutines that make it or exchange on it
  open    \* the connections that are not closed

vars == <<stage, home, users, open>>

Init ==
  /\ stage = [c \in Conn |-> "new"]
  /\ home = [c \in Conn |-> {}]
  /\ users = [c \in Conn |-> {}]
  /\ open = {}

\* It stays at home, and closed if it is.
Stays(c) == home'[c] = home[c] /\ (c \in open' => c \in open)

\* Nobody has it, and nobody will.
Gone(c) == stage'[c] = "gone" /\ home'[c] = {} /\ users'[c] = {}

Dialled(c) ==
  /\ stage[c] = "new" /\ stage'[c] = "making"
  /\ \E g \in Goroutine : users'[c] = {g}
  /\ \E a \in Addr : home'[c] = {a}
  /\ c \in open'

\* The handshake fails, or the pins do.
GivenUp(c) == stage[c] = "making" /\ Gone(c)

Parked(c) ==
  /\ stage[c] = "making" /\ stage'[c] = "parked"
  /\ users'[c] = {}
  /\ Stays(c)

\* Its maker, or whoever finds it parked, puts it to use.
Served(c) ==
  /\ stage[c] \in {"making", "parked"} /\ stage'[c] \in {"pooled", "carried"}
  /\ \E g \in Goroutine : users'[c] = {g}
  /\ stage[c] = "making" => users'[c] = users[c]
  /\ Stays(c)

\* HTTP/2 shares a connection, HTTP/1.1 takes it from the pool.
Joined(c) ==
  /\ stage[c] = "pooled"
  /\ \E g \in Goroutine : users'[c] = users[c] \cup {g}
  /\ stage'[c] = "pooled" \/ (stage'[c] = "carried" /\ users[c] = {})
  /\ Stays(c)

\* A user is done, and there are others or the connection goes to the pool: out
\* of the pool it came for one user, or because it is closed.
Left(c) ==
  /\ \E g \in users[c] : users'[c] = users[c] \ {g}
  /\ \/ stage[c] = "pooled" /\ stage'[c] = "pooled"
     \/ /\ stage[c] \in {"pooled", "carried"} /\ stage'[c] = "carried"
        /\ users'[c] # {} /\ c \notin open'
     \/ stage[c] = "carried" /\ stage'[c] = "pooled" /\ users'[c] = {} /\ c \in open
  /\ Stays(c)

\* Its last user, or the transport where it has none, lets it go.
Closed(c) ==
  /\ stage[c] \in {"pooled", "carried"}
  /\ \A g, h \in users[c] : g = h
  /\ c \notin open'
  /\ Gone(c)

Unmoved(c) == stage'[c] = stage[c] /\ users'[c] = users[c] /\ Stays(c)

\* Several connections may be closed in one step.
Next ==
  \A c \in Conn :
    \/ Dialled(c) \/ GivenUp(c) \/ Parked(c) \/ Served(c) \/ Joined(c) \/ Left(c)
    \/ Closed(c) \/ Unmoved(c)

Spec == Init /\ [][Next]_vars

=============================================================================
