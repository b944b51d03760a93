------------------------------ MODULE ProxyLoan ------------------------------
(***************************************************************************)
(* What an httpClient promises of its proxy to callers of Do and            *)
(* DoWithProxy.  The client owns a proxy; one DoWithProxy at a time borrows  *)
(* the client and lends it another proxy, which is then in force for every   *)
(* hop of every request, until the loan ends and the owned one is back.      *)
(* Writing the config, building a transport and rolling back do not show.    *)
(***************************************************************************)
CONSTANTS Goroutine, NoOne, Proxy, NoProxy, Invalid, WithUser, Option

VARIABLES
  option,    \* how the client was made: what may fail
  own,       \* the client's proxy
  inForce,   \* the proxy the next hop goes through
  borrower,  \* the goroutine inside DoWithProxy
  asked,     \* the proxy it asked for
  phase,     \* how far it got
  route      \* the proxies of the hops of the last request of each goroutine

vars == <<option, own, inForce, borrower, asked, phase, route>>

\* What may become of the wish for proxy p: an error, a panic, a transport.
Rejects(p) == option.factory \/ p \in Invalid
Panics(p) == option.factory \/ (option.nilConnect /\ p \in WithUser)
Applies(p) ==
  option.factory \/ (p \notin Invalid /\ (option.nilConnect => p \notin WithUser))

\* The proxies that may be in force once p is asked for: a rejected one, and
\* one a factory fails for, puts the client's own in force.
Granted(p) ==
  {q \in {p} : Applies(q)} \cup {q \in {own} : Rejects(p) /\ Applies(q)}

Init ==
  /\ option \in Option
  /\ own \in {p \in Proxy : Applies(p)}
  /\ inForce = own
  /\ borrower = NoOne
  /\ asked = NoProxy
  /\ phase = "free"
  /\ route = [g \in Goroutine |-> {}]

\* A request of g begins.
Call(g) ==
  /\ borrower # g
  /\ route' = [route EXCEPT ![g] = {}]
  /\ UNCHANGED <<option, own, inForce, borrower, asked, phase>>

Borrow(g, p) ==
  /\ phase = "free" /\ route[g] = {}
  /\ borrower' = g /\ asked' = p /\ phase' = "asked"
  /\ UNCHANGED <<option, own, inForce, route>>

Lend ==
  /\ phase = "asked"
  /\ inForce' \in Granted(asked)
  /\ phase' = "lent"
  /\ UNCHANGED <<option, own, borrower, asked, route>>

\* The borrower's hops wait for the loan, others do not.
Hop(g) ==
  /\ g = borrower => phase = "lent"
  /\ route' = [route EXCEPT ![g] = @ \cup {inForce}]
  /\ UNCHANGED <<option, own, inForce, borrower, asked, phase>>

\* The request of the borrower is over.
Finish ==
  /\ phase = "lent"
  /\ asked' = NoProxy /\ phase' = "returning"
  /\ UNCHANGED <<option, own, inForce, borrower, route>>

Free == borrower' = NoOne /\ asked' = NoProxy /\ phase' = "free"

\* The loan ends, and the client has its own proxy: or keeps what was lent,
\* where a factory fails.
Return ==
  /\ phase = "returning"
  /\ own' \in {p \in {own} : Applies(p)} \cup {p \in {inForce} : option.factory}
  /\ inForce' = own'
  /\ Free
  /\ UNCHANGED <<option, route>>

\* A factory failed for what was asked and for the client's own proxy.
Refuse ==
  /\ phase = "asked" /\ option.factory
  /\ Free
  /\ UNCHANGED <<option, own, inForce, route>>

\* A panic nobody recovers: the client keeps what was lent.
Abandon ==
  /\ phase = "lent" /\ ~option.catchPanics
  /\ own' = inForce
  /\ Free
  /\ UNCHANGED <<option, inForce, route>>

\* A panic while a proxy is applied: the client's own is from now on the one that
\* could not be had, and what was in force stays in force.
Break ==
  /\ \/ phase = "asked"
        /\ own' \in {p \in {asked} : Panics(p)} \cup {p \in {own} : Rejects(asked) /\ Panics(p)}
     \/ phase = "returning"
        /\ own' \in {p \in {own} : Panics(p)} \cup {p \in {inForce} : Rejects(own) /\ Panics(p)}
  /\ Free
  /\ UNCHANGED <<option, inForce, route>>

Next ==
  \/ \E g \in Goroutine : Call(g) \/ Hop(g) \/ \E p \in Proxy : Borrow(g, p)
  \/ Lend \/ Finish \/ Return \/ Refuse \/ Abandon \/ Break

Spec == Init /\ [][Next]_vars

=============================================================================
