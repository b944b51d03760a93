----------------------------- MODULE HttpClient -----------------------------
(***************************************************************************)
(* The httpClient of client.go: its proxy, its redirect policy and the      *)
(* requests that go through them.  SetProxy replaces the whole transport    *)
(* (a roundTripper with its dialer) and writes config.proxyUrl and          *)
(* c.Transport without a lock; a request reads c.Transport at every hop.    *)
(* DoWithProxy switches the proxy, runs the request and switches back, and  *)
(* only calls of DoWithProxy exclude each other, with proxyLck.             *)
(*                                                                          *)
(* External: fhttp's Client.Do, modelled by its hops and outcomes.          *)
(* A transport is known by the proxy it dials through.                      *)
(***************************************************************************)
EXTENDS Naturals, FiniteSets

CONSTANTS
  Goroutine,       \* goroutines that use the client
  NoOne,           \* the owner of a free mutex
  Proxy,           \* proxy URLs passed to the client
  NoProxy,         \* the empty proxy URL
  Invalid,         \* proxy URLs newConnectDialer rejects
  WithUser,        \* proxy URLs with credentials for the CONNECT headers
  Option,          \* the options clients are made with
  MayPanic,        \* whether a transport may panic
  Operation,       \* the methods callers use
  MaxHop           \* bound: hops of a request (fhttp stops after 10)

ASSUME HttpClientAssumption ==
  /\ NoOne \notin Goroutine
  /\ NoProxy \in Proxy /\ Invalid \subseteq Proxy \ {NoProxy}
  /\ WithUser \subseteq Proxy \ ({NoProxy} \cup Invalid)
  /\ Option \subseteq [factory : BOOLEAN, customRedirect : BOOLEAN, catchPanics : BOOLEAN,
                       nilHeaders : BOOLEAN, nilConnect : BOOLEAN]
  /\ MayPanic \in BOOLEAN
  /\ Operation \subseteq {"SetProxy", "Do", "DoWithProxy", "SetFollowRedirect"}
  /\ MaxHop \in Nat \ {0}

VARIABLES
  option,           \* WithProxyDialerFactory (a factory may fail or panic any
                    \* time), WithCustomRedirectFunc, WithCatchPanics,
                    \* WithDefaultHeaders(nil), WithConnectHeaders(nil)
  proxyUrl,         \* config.proxyUrl
  transport,        \* c.Transport: the proxy it dials through
  broken,           \* applyProxy panicked, and made no transport since (history)
  followRedirects,  \* config.followRedirects
  checkRedirect,    \* c.CheckRedirect
  follow,           \* followRedirects as SetFollowRedirect read it
  proxyLck,         \* the goroutine in proxyLck
  headerLck,        \* the goroutine in headerLck
  pc,               \* what a goroutine is doing
  op,               \* the method its caller called
  target,           \* the proxy SetProxy is asked for
  saved,            \* SetProxy's currentProxy
  outer,            \* DoWithProxy's currentProxy
  stage,            \* DoWithProxy: before or after the request; none elsewhere
  retrying,         \* SetProxy: it rolls back
  next,             \* the transport applyProxy built
  route,            \* the proxies of the hops of the last request
  hops,             \* the number of hops of this request so far
  response,         \* its outcome, while DoWithProxy keeps it
  result            \* what the method returned

config == <<option, proxyUrl, transport, broken>>
policy == <<followRedirects, checkRedirect, follow>>
locks == <<proxyLck, headerLck>>
setting == <<target, saved, outer, stage, retrying, next>>
request == <<route, hops, response>>
vars == <<config, policy, locks, pc, op, setting, request, result>>

Policy(b) ==
  IF ~b THEN "useLast" ELSE IF option.customRedirect THEN "custom" ELSE "default"

\* What applyProxy may do for proxy p: return an error, panic, as writing the
\* credentials to nil headers does, or make a transport.  A factory may do
\* anything.
Rejects(p) == option.factory \/ p \in Invalid
Panics(p) == option.factory \/ (option.nilConnect /\ p \in WithUser)
Applies(p) ==
  option.factory \/ (p \notin Invalid /\ (option.nilConnect => p \notin WithUser))

-----------------------------------------------------------------------------
\* A client as NewHttpClient makes it.
Init ==
  /\ option \in Option
  /\ proxyUrl \in {p \in Proxy : Applies(p)}
  /\ transport = proxyUrl
  /\ broken = FALSE
  /\ followRedirects \in BOOLEAN
  /\ checkRedirect = Policy(followRedirects)
  /\ follow = [g \in Goroutine |-> FALSE]
  /\ proxyLck = NoOne
  /\ headerLck = NoOne
  /\ pc = [g \in Goroutine |-> "idle"]
  /\ op = [g \in Goroutine |-> "none"]
  /\ target = [g \in Goroutine |-> NoProxy]
  /\ saved = [g \in Goroutine |-> NoProxy]
  /\ outer = [g \in Goroutine |-> NoProxy]
  /\ stage = [g \in Goroutine |-> "none"]
  /\ retrying = [g \in Goroutine |-> FALSE]
  /\ next = [g \in Goroutine |-> NoProxy]
  /\ route = [g \in Goroutine |-> {}]
  /\ hops = [g \in Goroutine |-> 0]
  /\ response = [g \in Goroutine |-> "none"]
  /\ result = [g \in Goroutine |-> "none"]

Goto(g, l) == pc' = [pc EXCEPT ![g] = l]

\* A caller calls method m.
Enter(g, m, l) ==
  /\ pc[g] = "idle"
  /\ m \in Operation
  /\ Goto(g, l)
  /\ op' = [op EXCEPT ![g] = m]
  /\ result' = [result EXCEPT ![g] = "none"]
  /\ route' = [route EXCEPT ![g] = {}]
  /\ UNCHANGED <<hops, response>>

\* The method of g returns r.
Return(g, r) ==
  /\ Goto(g, "idle")
  /\ op' = [op EXCEPT ![g] = "none"]
  /\ result' = [result EXCEPT ![g] = r]

-----------------------------------------------------------------------------
(***************************************************************************)
(* SetProxy: remember the proxy, write the new one, apply it; on an error   *)
(* write the old one, apply that, and return what that returns.             *)
(***************************************************************************)
SetProxy(g, p) ==
  /\ Enter(g, "SetProxy", "save")
  /\ target' = [target EXCEPT ![g] = p]
  /\ UNCHANGED <<config, policy, locks, saved, outer, stage, retrying, next>>

SaveProxy(g) ==
  /\ pc[g] = "save"
  /\ saved' = [saved EXCEPT ![g] = proxyUrl]
  /\ Goto(g, "write")
  /\ UNCHANGED <<config, policy, locks, op, target, outer, stage, retrying, next,
                 request, result>>

WriteProxy(g) ==
  /\ pc[g] = "write"
  /\ proxyUrl' = target[g]
  /\ Goto(g, "apply")
  /\ UNCHANGED <<option, transport, broken, policy, locks, op, setting, request, result>>

\* Mutant: the rollback forgets the config.
MutRollback(g) ==
  /\ pc[g] = "rollback"
  /\ retrying' = [retrying EXCEPT ![g] = TRUE]
  /\ next' = [next EXCEPT ![g] = saved[g]]
  /\ Goto(g, "install")
  /\ UNCHANGED <<config, policy, locks, op, target, saved, outer, stage, request,
                 result>>

Rollback(g) ==
  /\ pc[g] = "rollback"
  /\ proxyUrl' = saved[g]
  /\ retrying' = [retrying EXCEPT ![g] = TRUE]
  /\ Goto(g, "apply")
  /\ UNCHANGED <<option, transport, broken, policy, locks, op, target, saved, outer,
                 stage, next, request, result>>

\* SetProxy returns r to its caller, the user or DoWithProxy.
SetProxyReturns(g, r) ==
  /\ retrying' = [retrying EXCEPT ![g] = FALSE]
  /\ next' = [next EXCEPT ![g] = NoProxy]
  /\ \/ /\ stage[g] = "none"
        /\ Return(g, r)
        /\ UNCHANGED <<stage, proxyLck, response>>
     \/ /\ stage[g] = "before" /\ r = "ok"
        /\ Goto(g, "headers")
        /\ UNCHANGED <<stage, proxyLck, op, response, result>>
     \/ /\ stage[g] = "before" /\ r = "error"
        /\ stage' = [stage EXCEPT ![g] = "none"]
        /\ proxyLck' = NoOne
        /\ Return(g, "error")
        /\ UNCHANGED response
     \/ /\ stage[g] = "after"
        /\ stage' = [stage EXCEPT ![g] = "none"]
        /\ proxyLck' = NoOne
        /\ Return(g, response[g])
        /\ response' = [response EXCEPT ![g] = "none"]

\* applyProxy builds a dialer for the proxy it finds in the config, and a
\* transport around it.
Apply(g) ==
  /\ pc[g] = "apply"
  /\ Applies(proxyUrl)
  /\ next' = [next EXCEPT ![g] = proxyUrl]
  /\ Goto(g, "install")
  /\ UNCHANGED <<config, policy, locks, op, target, saved, outer,
                 stage, retrying, request, result>>

ApplyFails(g) ==
  /\ pc[g] = "apply"
  /\ Rejects(proxyUrl)
  /\ IF retrying[g]
     THEN /\ SetProxyReturns(g, "error")
          /\ UNCHANGED headerLck
     ELSE /\ Goto(g, "rollback")
          /\ UNCHANGED <<locks, op, stage, retrying, next, response, result>>
  /\ UNCHANGED <<config, policy, target, saved, outer, route, hops>>

\* Nobody recovers: nothing is rolled back, and DoWithProxy unlocks.
ApplyPanics(g) ==
  /\ pc[g] = "apply"
  /\ Panics(proxyUrl)
  /\ broken' = TRUE
  /\ retrying' = [retrying EXCEPT ![g] = FALSE]
  /\ stage' = [stage EXCEPT ![g] = "none"]
  /\ proxyLck' = IF stage[g] = "none" THEN proxyLck ELSE NoOne
  /\ response' = [response EXCEPT ![g] = "none"]
  /\ Return(g, "panic")
  /\ UNCHANGED <<option, proxyUrl, transport, policy, headerLck, target, saved, outer,
                 next, route, hops>>

Install(g) ==
  /\ pc[g] = "install"
  /\ transport' = next[g]
  /\ broken' = FALSE
  /\ SetProxyReturns(g, "ok")
  /\ UNCHANGED <<option, proxyUrl, policy, headerLck, target, saved, outer,
                 route, hops>>

-----------------------------------------------------------------------------
(***************************************************************************)
(* DoWithProxy.                                                             *)
(***************************************************************************)
DoWithProxy(g, p) ==
  /\ Enter(g, "DoWithProxy", "lockProxy")
  /\ target' = [target EXCEPT ![g] = p]
  /\ UNCHANGED <<config, policy, locks, saved, outer, stage, retrying, next>>

\* Mutant: DoWithProxy without its mutex.
MutLockProxy(g) ==
  /\ pc[g] = "lockProxy"
  /\ outer' = [outer EXCEPT ![g] = proxyUrl]
  /\ stage' = [stage EXCEPT ![g] = "before"]
  /\ Goto(g, "save")
  /\ UNCHANGED <<config, policy, locks, op, target, saved, retrying, next, request,
                 result>>

\* Mutant: it goes back to the proxy of an earlier call.
MutLockProxyStale(g) ==
  /\ pc[g] = "lockProxy"
  /\ proxyLck = NoOne
  /\ proxyLck' = g
  /\ stage' = [stage EXCEPT ![g] = "before"]
  /\ Goto(g, "save")
  /\ UNCHANGED <<config, policy, headerLck, op, target, saved, outer, retrying,
                 next, request, result>>

LockProxy(g) ==
  /\ pc[g] = "lockProxy"
  /\ proxyLck = NoOne
  /\ proxyLck' = g
  /\ outer' = [outer EXCEPT ![g] = proxyUrl]
  /\ stage' = [stage EXCEPT ![g] = "before"]
  /\ Goto(g, "save")
  /\ UNCHANGED <<config, policy, headerLck, op, target, saved, retrying, next,
                 request, result>>

-----------------------------------------------------------------------------
(***************************************************************************)
(* Do: the default headers under headerLck, then the hops of the request.   *)
(***************************************************************************)
Do(g) ==
  /\ Enter(g, "Do", "headers")
  /\ UNCHANGED <<config, policy, locks, setting>>

\* Mutant: headerLck is not unlocked.
MutSetHeaders(g) ==
  /\ pc[g] = "headers"
  /\ headerLck = NoOne
  /\ headerLck' = g
  /\ Goto(g, "hop")
  /\ UNCHANGED <<config, policy, proxyLck, op, setting, request, result>>

SetHeaders(g) ==
  /\ pc[g] = "headers"
  /\ headerLck = NoOne
  /\ Goto(g, "hop")
  /\ UNCHANGED <<config, policy, locks, op, setting, request, result>>

\* Mutant: DoWithProxy returns without restoring the proxy.
MutDoReturns(g, r) ==
  /\ hops' = [hops EXCEPT ![g] = 0]
  /\ stage' = [stage EXCEPT ![g] = "none"]
  /\ Return(g, r)
  /\ UNCHANGED <<response, target>>

\* Do returns outcome r: to its caller, or to DoWithProxy, which restores the
\* proxy before it returns.
DoReturns(g, r) ==
  /\ hops' = [hops EXCEPT ![g] = 0]
  /\ IF stage[g] = "before"
     THEN /\ stage' = [stage EXCEPT ![g] = "after"]
          /\ response' = [response EXCEPT ![g] = r]
          /\ target' = [target EXCEPT ![g] = outer[g]]
          /\ Goto(g, "save")
          /\ UNCHANGED <<op, result>>
     ELSE /\ Return(g, r)
          /\ UNCHANGED <<stage, response, target>>

\* Do panics.  Recovered, it returns its zero results, no response and no
\* error.  Otherwise the panic passes through DoWithProxy, which unlocks.
DoPanics(g) ==
  IF option.catchPanics
  THEN /\ DoReturns(g, "nil")
       /\ UNCHANGED proxyLck
  ELSE /\ Return(g, "panic")
       /\ stage' = [stage EXCEPT ![g] = "none"]
       /\ proxyLck' = IF stage[g] = "before" THEN NoOne ELSE proxyLck
       /\ hops' = [hops EXCEPT ![g] = 0]
       /\ UNCHANGED <<response, target>>

\* A write to the nil clone of nil default headers: the lock stays.
SetHeadersPanics(g) ==
  /\ option.nilHeaders
  /\ pc[g] = "headers"
  /\ headerLck = NoOne
  /\ headerLck' = g
  /\ DoPanics(g)
  /\ UNCHANGED <<config, policy, saved, outer, retrying, next, route>>

\* Every hop takes the transport the client has by then.
Hop(g) ==
  /\ pc[g] = "hop"
  /\ route' = [route EXCEPT ![g] = @ \cup {transport}]
  /\ hops' = [hops EXCEPT ![g] = @ + 1]
  /\ Goto(g, "await")
  /\ UNCHANGED <<config, policy, locks, op, setting, response, result>>

Respond(g) ==
  /\ pc[g] = "await"
  /\ DoReturns(g, "ok")
  /\ UNCHANGED <<config, policy, locks, saved, outer, retrying, next, route>>

Fail(g) ==
  /\ pc[g] = "await"
  /\ DoReturns(g, "error")
  /\ UNCHANGED <<config, policy, locks, saved, outer, retrying, next, route>>

TransportPanics(g) ==
  /\ MayPanic
  /\ pc[g] = "await"
  /\ DoPanics(g)
  /\ UNCHANGED <<config, policy, headerLck, saved, outer, retrying, next, route>>

Redirect(g) ==
  /\ pc[g] = "await"
  /\ Goto(g, "redirect")
  /\ UNCHANGED <<config, policy, locks, op, setting, request,
                 result>>

\* CheckRedirect lets the client follow.
Follow(g) ==
  /\ pc[g] = "redirect"
  /\ checkRedirect # "useLast"
  /\ hops[g] < MaxHop
  /\ Goto(g, "hop")
  /\ UNCHANGED <<config, policy, locks, op, setting, request, result>>

\* It does not: the redirect is the response, or there were too many, or the
\* custom function refuses.
StopRedirect(g) ==
  /\ pc[g] = "redirect"
  /\ \/ checkRedirect = "useLast" /\ DoReturns(g, "ok")
     \/ checkRedirect = "default" /\ hops[g] = MaxHop /\ DoReturns(g, "error")
     \/ checkRedirect = "custom" /\ \E r \in {"ok", "error"} : DoReturns(g, r)
  /\ UNCHANGED <<config, policy, locks, saved, outer, retrying, next, route>>

-----------------------------------------------------------------------------
(***************************************************************************)
(* SetFollowRedirect, without a lock: it sets the option, reads it and       *)
(* writes CheckRedirect, reads it again and may write the custom function.   *)
(***************************************************************************)
SetFollowRedirect(g, b) ==
  /\ Enter(g, "SetFollowRedirect", "applyFollow")
  /\ followRedirects' = b
  /\ UNCHANGED <<config, checkRedirect, follow, locks, setting>>

ApplyFollow(g) ==
  /\ pc[g] = "applyFollow"
  /\ follow' = [follow EXCEPT ![g] = followRedirects]
  /\ Goto(g, "writeFollow")
  /\ UNCHANGED <<config, followRedirects, checkRedirect, locks, op, setting, request, result>>

\* Mutant: following leaves CheckRedirect as it was.
MutWriteFollow(g) ==
  /\ pc[g] = "writeFollow"
  /\ checkRedirect' = IF follow[g] THEN checkRedirect ELSE "useLast"
  /\ follow' = [follow EXCEPT ![g] = FALSE]
  /\ Goto(g, "applyCustom")
  /\ UNCHANGED <<config, followRedirects, locks, op, setting, request, result>>

WriteFollow(g) ==
  /\ pc[g] = "writeFollow"
  /\ checkRedirect' = IF follow[g] THEN "default" ELSE "useLast"
  /\ follow' = [follow EXCEPT ![g] = FALSE]
  /\ Goto(g, "applyCustom")
  /\ UNCHANGED <<config, followRedirects, locks, op, setting, request, result>>

ApplyCustom(g) ==
  /\ pc[g] = "applyCustom"
  /\ IF option.customRedirect /\ followRedirects
     THEN Goto(g, "writeCustom") /\ UNCHANGED <<op, result>>
     ELSE Return(g, "ok")
  /\ UNCHANGED <<config, policy, locks, setting, request>>

\* Mutant: the custom function is not put back.
MutWriteCustom(g) ==
  /\ pc[g] = "writeCustom"
  /\ Return(g, "ok")
  /\ UNCHANGED <<config, policy, locks, setting, request>>

WriteCustom(g) ==
  /\ pc[g] = "writeCustom"
  /\ checkRedirect' = "custom"
  /\ Return(g, "ok")
  /\ UNCHANGED <<config, followRedirects, follow, locks, setting, request>>

-----------------------------------------------------------------------------
Call(g) ==
  \/ \E p \in Proxy : SetProxy(g, p) \/ DoWithProxy(g, p)
  \/ Do(g)
  \/ \E b \in BOOLEAN : SetFollowRedirect(g, b)

\* What the transport does with a hop; it may also keep it for good.
Answer(g) == Respond(g) \/ Fail(g) \/ TransportPanics(g) \/ Redirect(g)

Step(g) ==
  \/ SaveProxy(g) \/ WriteProxy(g) \/ Apply(g) \/ ApplyFails(g) \/ ApplyPanics(g)
  \/ Rollback(g) \/ Install(g) \/ SetHeaders(g) \/ SetHeadersPanics(g) \/ Hop(g)
  \/ Follow(g) \/ StopRedirect(g)
  \/ ApplyFollow(g) \/ WriteFollow(g) \/ ApplyCustom(g) \/ WriteCustom(g)

Next == \E g \in Goroutine : Call(g) \/ LockProxy(g) \/ Step(g) \/ Answer(g)

Spec == Init /\ [][Next]_vars

(***************************************************************************)
(* Fairness: a goroutine that can run runs, and sync.Mutex serves its       *)
(* waiters in turn once one has starved.  No hop need end: a client may be  *)
(* made without a timeout, and one does not end a dial of dialTLSHTTP2 or   *)
(* the wait for a mutex of the roundTripper.                                *)
(***************************************************************************)
FairSpec ==
  Spec /\ \A g \in Goroutine : WF_vars(Step(g)) /\ SF_vars(LockProxy(g))

-----------------------------------------------------------------------------
Label == {"idle", "save", "write", "apply", "rollback", "install", "lockProxy",
          "headers", "hop", "await", "redirect", "applyFollow", "writeFollow",
          "applyCustom", "writeCustom"}
Outcome == {"none", "ok", "error", "nil", "panic"}

TypeOK ==
  /\ option \in Option
  /\ proxyUrl \in Proxy
  /\ transport \in Proxy
  /\ broken \in BOOLEAN
  /\ followRedirects \in BOOLEAN
  /\ checkRedirect \in {"useLast", "default", "custom"}
  /\ follow \in [Goroutine -> BOOLEAN]
  /\ proxyLck \in Goroutine \cup {NoOne}
  /\ headerLck \in Goroutine \cup {NoOne}
  /\ pc \in [Goroutine -> Label]
  /\ op \in [Goroutine -> Operation \cup {"none"}]
  /\ target \in [Goroutine -> Proxy]
  /\ saved \in [Goroutine -> Proxy]
  /\ outer \in [Goroutine -> Proxy]
  /\ stage \in [Goroutine -> {"none", "before", "after"}]
  /\ \A g \in Goroutine : proxyLck = g <=> stage[g] # "none"
  /\ retrying \in [Goroutine -> BOOLEAN]
  /\ next \in [Goroutine -> Proxy]
  /\ route \in [Goroutine -> SUBSET Proxy]
  /\ hops \in [Goroutine -> 0 .. MaxHop]
  /\ response \in [Goroutine -> Outcome]
  /\ result \in [Goroutine -> Outcome]

\* Where a request of DoWithProxy may go: through the proxy it names, or, where
\* that one is rejected or a factory fails for it, through the client's own.
Granted(g) ==
  {p \in {target[g]} : Applies(p)}
    \cup {p \in {outer[g]} : Rejects(target[g]) /\ Applies(p)}

\* All hops of a DoWithProxy request, redirects included, go through one proxy,
\* the one it names unless that cannot be applied, whatever other calls of
\* DoWithProxy do meanwhile.
RoutedAsAsked ==
  \A g \in Goroutine : stage[g] = "before" /\ route[g] # {} =>
    \E p \in Granted(g) : route[g] = {p}

\* When DoWithProxy returns, the client has the proxy it had before, after an
\* error or a recovered panic too: factories and panics that nobody recovers
\* aside, which may leave another, in the config and the transport alike.  Only a
\* panic in applyProxy parts the two, where a factory or nil headers make one.
ProxyRestored ==
  [][\A g \in Goroutine : stage[g] # "none" /\ stage'[g] = "none" =>
       /\ ~broken' =>
            /\ transport' = proxyUrl'
            /\ ~option.factory /\ option.catchPanics => proxyUrl' = outer[g]
       /\ broken' => option.factory \/ option.nilConnect]_vars

\* SetProxy sets the proxy or leaves the one there was, also when applying fails
\* twice: config and transport are one when it returns, unless applyProxy
\* panicked, and one again after the next call of which it did not.
AllOrNothing ==
  [][\A g \in Goroutine : op[g] = "SetProxy" /\ pc'[g] = "idle" =>
       /\ proxyUrl' \in {target[g], saved[g]}
       /\ result'[g] = "error" => proxyUrl' = saved[g]
       /\ (result'[g] = "ok" \/ ~broken') => transport' = proxyUrl']_vars

FollowLabel == {"applyFollow", "writeFollow", "applyCustom", "writeCustom"}

\* CheckRedirect is what NewHttpClient would have made it for the policy set
\* last, whenever no SetFollowRedirect runs.  Two that run at once may leave the
\* answer of the one with the option of the other.
RedirectPolicy ==
  (\A g \in Goroutine : pc[g] \notin FollowLabel) =>
    checkRedirect = Policy(followRedirects)

\* However many ran at once, the custom redirect function is in force where
\* redirects are to be followed: no SetFollowRedirect loses it.
CustomRedirectKept ==
  /\ \A g \in Goroutine : pc[g] \notin FollowLabel
  /\ option.customRedirect /\ followRedirects
  => checkRedirect = "custom"

\* How far the loan of ProxyLoan is.
LoanPhase ==
  IF proxyLck = NoOne THEN "free"
  ELSE IF stage[proxyLck] = "after" THEN "returning"
  ELSE IF pc[proxyLck] \in {"headers", "hop", "await", "redirect"} THEN "lent"
  ELSE "asked"

\* The client's own proxy, and the one a loan is for.
Owned == IF proxyLck = NoOne THEN proxyUrl ELSE outer[proxyLck]
AskedFor == IF LoanPhase \in {"asked", "lent"} THEN target[proxyLck] ELSE NoProxy

Loan == INSTANCE ProxyLoan WITH
          own <- Owned, inForce <- transport, borrower <- proxyLck,
          asked <- AskedFor, phase <- LoanPhase

\* Where only DoWithProxy switches the proxy, its switch and its restoration are
\* atomic to everybody: each hop of any request goes through the client's own
\* proxy or the one that is lent, and to the borrower no hop goes elsewhere.
ImplementsLoan == Loan!Spec

HopsEnd(g) == []<>(pc[g] # "await")

\* A call returns if its own hops end, whatever becomes of those of others; a
\* DoWithProxy, which waits for its turn, if the hops of all end.
CallsReturn ==
  /\ \A g \in Goroutine :
       HopsEnd(g) => (op[g] \in {"SetProxy", "Do", "SetFollowRedirect"} ~> pc[g] = "idle")
  /\ (\A g \in Goroutine : HopsEnd(g)) =>
       \A g \in Goroutine : op[g] = "DoWithProxy" ~> pc[g] = "idle"

=============================================================================
