---------------------------- MODULE ConnectDialer ----------------------------
(***************************************************************************)
(* The connectDialer of connect.go, the dialer of a client with a proxy.   *)
(* DialContext asks the proxy for a tunnel by CONNECT: over HTTP/1.1 every  *)
(* tunnel has a connection of its own, over HTTP/2 the tunnels are streams  *)
(* of one connection, kept in a cache of one place that cacheH2Mu guards.   *)
(* A socks5 proxy is left to golang.org/x/net, which gets no context.       *)
(*                                                                         *)
(* DialTLS is set by nobody in the repository, so an https proxy is reached *)
(* by tls.Dial.  Its second handshake is a no-op and it refuses a protocol  *)
(* it did not offer: the two error paths behind these cannot be taken.      *)
(* External: the proxy, the network, the HTTP/2 client connection.          *)
(***************************************************************************)
EXTENDS Naturals

CONSTANTS
  Goroutine,   \* goroutines that dial through the proxy
  NoOne,       \* the owner of the free mutex
  Proxy,       \* the proxies a dialer may be built for, see below
  NoProxy,     \* before a dialer is built
  MaxRaw       \* bound: connections dialled in a behaviour

ProxyScheme == {"http", "https", "socks5", "none", "other"}
Raw == 1 .. MaxRaw
NoConn == 0

\* host, user: whether the URL has them.  headers, logger: whether they are
\* not nil.  timeout: whether it is not zero.
ASSUME ConnectDialerAssumption ==
  /\ NoOne \notin Goroutine
  /\ Proxy \subseteq [scheme : ProxyScheme, host : BOOLEAN, user : BOOLEAN,
                      headers : BOOLEAN, logger : BOOLEAN, timeout : BOOLEAN]
  /\ NoProxy \notin Proxy
  /\ MaxRaw \in Nat

VARIABLES
  proxy, built,          \* the dialer's configuration; how its making ended
  cacheH2Mu,             \* the goroutine in cacheH2Mu
  cachedH2ClientConn,    \* the HTTP/2 client connection in the cache
  cachedH2RawConn,       \* the connection it runs on
  raw,                   \* the state of a connection to the proxy
  proto,                 \* what is spoken on it
  abandoned,             \* connections the dialer forgot without closing them
  pc, conn, bounded, up  \* per goroutine: where it is, its connection, whether
                         \* its context ends, and which tunnels work

dialer == <<proxy, built>>
cache == <<cacheH2Mu, cachedH2ClientConn, cachedH2RawConn>>
net == <<raw, proto, abandoned>>
locals == <<pc, conn, bounded, up>>
vars == <<dialer, cache, net, locals>>

Label == {"idle", "lockCache", "lookup", "cachedConnect", "dial",
          "connectHttp1", "awaitHttp1", "connectHttp2", "lockStore",
          "storeClient", "storeRaw", "tunnel", "panicked"}

Init ==
  /\ proxy = NoProxy
  /\ built = "no"
  /\ cacheH2Mu = NoOne
  /\ cachedH2ClientConn = NoConn
  /\ cachedH2RawConn = NoConn
  /\ raw = [c \in Raw |-> "unused"]
  /\ proto = [c \in Raw |-> "none"]
  /\ abandoned = {}
  /\ pc = [g \in Goroutine |-> "idle"]
  /\ conn = [g \in Goroutine |-> NoConn]
  /\ bounded = [g \in Goroutine |-> FALSE]
  /\ up = {}

Goto(g, l) == pc' = [pc EXCEPT ![g] = l]

Alive(c) == raw[c] \in {"open", "draining"}

\* The goroutines whose tunnel or CONNECT runs on c.
Users(c) == {g \in Goroutine : conn[g] = c}

\* Connection c ends: every tunnel on it stops working.
End(c, state) ==
  /\ raw' = [raw EXCEPT ![c] = state]
  /\ up' = up \ Users(c)

\* A dial of g ends without a tunnel.
Fail(g) ==
  /\ Goto(g, "idle")
  /\ conn' = [conn EXCEPT ![g] = NoConn]

-----------------------------------------------------------------------------
(***************************************************************************)
(* newConnectDialer.  Setting the credentials in a nil header map panics.   *)
(***************************************************************************)
Outcome(p) ==
  IF ~p.host \/ p.scheme \in {"none", "other"} THEN "error"
  ELSE IF p.scheme # "socks5" /\ p.user /\ ~p.headers THEN "panicked"
  ELSE "made"

NewConnectDialer(p) ==
  /\ built # "made"
  /\ built' = Outcome(p)
  /\ proxy' = IF Outcome(p) = "made" THEN p ELSE NoProxy
  /\ UNCHANGED <<cache, net, locals>>

-----------------------------------------------------------------------------
(***************************************************************************)
(* DialContext.  ends: whether the context is a request's and so ends; the  *)
(* HTTP/2 transport dials with context.Background (roundtripper.go:361).    *)
(***************************************************************************)
DialContext(g, ends) ==
  /\ built = "made"
  /\ pc[g] = "idle"
  /\ Goto(g, IF proxy.scheme = "socks5" THEN "dial" ELSE "lockCache")
  /\ bounded' = [bounded EXCEPT ![g] = ends]
  /\ UNCHANGED <<dialer, cache, net, conn, up>>

LockCache(g) ==
  /\ cacheH2Mu = NoOne
  /\ \/ pc[g] = "lockCache" /\ Goto(g, "lookup")
     \/ pc[g] = "lockStore" /\ Goto(g, "storeClient")
  /\ cacheH2Mu' = g
  /\ UNCHANGED <<dialer, cachedH2ClientConn, cachedH2RawConn, net, conn, bounded,
                 up>>

\* CanTakeNewRequest: not when the proxy takes no more streams; it may say so
\* for lack of free ones too, and be slow to notice the connection's end.
MayTakeNewRequest(c) == raw[c] # "draining"

Cached == cachedH2ClientConn # NoConn /\ cachedH2RawConn # NoConn

\* Mutant: the mutex is kept during the CONNECT.
MutTakeCached(g) ==
  /\ pc[g] = "lookup"
  /\ Cached
  /\ MayTakeNewRequest(cachedH2ClientConn)
  /\ conn' = [conn EXCEPT ![g] = cachedH2RawConn]
  /\ Goto(g, "cachedConnect")
  /\ UNCHANGED <<dialer, cache, net, bounded, up>>

TakeCached(g) ==
  /\ pc[g] = "lookup"
  /\ Cached
  /\ MayTakeNewRequest(cachedH2ClientConn)
  /\ conn' = [conn EXCEPT ![g] = cachedH2RawConn]
  /\ cacheH2Mu' = NoOne
  /\ Goto(g, "cachedConnect")
  /\ UNCHANGED <<dialer, cachedH2ClientConn, cachedH2RawConn, net, bounded, up>>

PassOver(g) ==
  /\ pc[g] = "lookup"
  /\ cacheH2Mu' = NoOne
  /\ Goto(g, "dial")
  /\ UNCHANGED <<dialer, cachedH2ClientConn, cachedH2RawConn, net, conn, bounded,
                 up>>

\* connectHttp2 on the cached connection: the tunnel, or an error of the
\* stream or an answer other than 200, and the connection is closed, whoever
\* else uses it; the dial then goes on with a connection of its own.
CachedConnects(g) ==
  /\ pc[g] = "cachedConnect"
  /\ Alive(conn[g])
  /\ up' = up \cup {g}
  /\ Goto(g, "tunnel")
  /\ UNCHANGED <<dialer, cache, net, conn, bounded>>

CachedFails(g) ==
  /\ pc[g] = "cachedConnect"
  /\ End(conn[g], "closed")
  /\ conn' = [conn EXCEPT ![g] = NoConn]
  /\ Goto(g, "dial")
  /\ UNCHANGED <<dialer, cache, proto, abandoned, bounded>>

-----------------------------------------------------------------------------
(***************************************************************************)
(* A connection to the proxy: c.Dialer for http and socks5, tls.Dial for    *)
(* https, which takes neither c.Dialer nor the context.                     *)
(***************************************************************************)
NewRaw(g, p, l) ==
  \E c \in Raw :
    /\ raw[c] = "unused"
    /\ \A d \in 1 .. c - 1 : raw[d] # "unused"
    /\ raw' = [raw EXCEPT ![c] = "open"]
    /\ proto' = [proto EXCEPT ![c] = p]
    /\ conn' = [conn EXCEPT ![g] = c]
    /\ Goto(g, l)

Dial(g) ==
  /\ pc[g] = "dial"
  /\ proxy.scheme = "http"
  /\ NewRaw(g, "h1", "connectHttp1")
  /\ UNCHANGED <<dialer, cache, abandoned, bounded, up>>

DialTLS(g) ==
  /\ pc[g] = "dial"
  /\ proxy.scheme = "https"
  /\ \/ NewRaw(g, "h1", "connectHttp1")
     \/ NewRaw(g, "h2", "connectHttp2")
  /\ UNCHANGED <<dialer, cache, abandoned, bounded, up>>

DialSocks(g) ==
  /\ pc[g] = "dial"
  /\ proxy.scheme = "socks5"
  /\ NewRaw(g, "socks", "tunnel")
  /\ up' = up \cup {g}
  /\ UNCHANGED <<dialer, cache, abandoned, bounded>>

DialFails(g) ==
  /\ pc[g] = "dial"
  /\ Fail(g)
  /\ UNCHANGED <<dialer, cache, net, bounded, up>>

-----------------------------------------------------------------------------
(***************************************************************************)
(* connectHttp1.  The deadline is now + Timeout: where Timeout is zero it   *)
(* has passed before the request is written.  A tunnel has no deadline.     *)
(***************************************************************************)
\* Mutant: no deadline while the answer is read.
MutDeadlinePassed(g) == pc[g] = "connectHttp1" /\ ~proxy.timeout

DeadlinePassed(g) ==
  \/ pc[g] = "connectHttp1" /\ ~proxy.timeout
  \/ pc[g] = "awaitHttp1"

DeadlineExceeded(g) ==
  /\ DeadlinePassed(g)
  /\ IF proxy.logger
     THEN /\ End(conn[g], "closed")
          /\ Fail(g)
          /\ UNCHANGED abandoned
     ELSE /\ Goto(g, "panicked")
          /\ abandoned' = abandoned \cup {conn[g]}
          /\ conn' = [conn EXCEPT ![g] = NoConn]
          /\ UNCHANGED <<raw, up>>
  /\ UNCHANGED <<dialer, cache, proto, bounded>>

WriteConnect(g) ==
  /\ pc[g] = "connectHttp1"
  /\ proxy.timeout
  /\ Goto(g, "awaitHttp1")
  /\ UNCHANGED <<dialer, cache, net, conn, bounded, up>>

\* Mutant: a connection is cached whatever is spoken on it.
MutHttp1Connects(g) ==
  /\ pc[g] = "awaitHttp1"
  /\ Alive(conn[g])
  /\ up' = up \cup {g}
  /\ Goto(g, "lockStore")
  /\ UNCHANGED <<dialer, cache, net, conn, bounded>>

Http1Connects(g) ==
  /\ pc[g] = "awaitHttp1"
  /\ Alive(conn[g])
  /\ up' = up \cup {g}
  /\ Goto(g, "tunnel")
  /\ UNCHANGED <<dialer, cache, net, conn, bounded>>

\* Mutant: an answer other than 200 leaves the connection open.
MutConnectFails(g) ==
  /\ pc[g] \in {"connectHttp1", "awaitHttp1", "connectHttp2"}
  /\ Fail(g)
  /\ UNCHANGED <<dialer, cache, net, bounded, up>>

\* An error, or an answer other than 200, to either kind of CONNECT.
ConnectFails(g) ==
  /\ \/ pc[g] \in {"awaitHttp1", "connectHttp2"}
     \/ pc[g] = "connectHttp1" /\ proxy.timeout
  /\ End(conn[g], "closed")
  /\ Fail(g)
  /\ UNCHANGED <<dialer, cache, proto, abandoned, bounded>>

-----------------------------------------------------------------------------
(***************************************************************************)
(* connectHttp2 on a new connection, which then replaces the cached one.    *)
(***************************************************************************)
Http2Connects(g) ==
  /\ pc[g] = "connectHttp2"
  /\ Alive(conn[g])
  /\ up' = up \cup {g}
  /\ Goto(g, "lockStore")
  /\ UNCHANGED <<dialer, cache, net, conn, bounded>>

StoreClient(g) ==
  /\ pc[g] = "storeClient"
  /\ cachedH2ClientConn' = conn[g]
  /\ Goto(g, "storeRaw")
  /\ UNCHANGED <<dialer, cacheH2Mu, cachedH2RawConn, net, conn, bounded, up>>

\* Mutant: the raw connection is stored the first time only.
MutStoreFirst(g) ==
  /\ pc[g] = "storeRaw"
  /\ cachedH2RawConn' = IF cachedH2RawConn = NoConn THEN conn[g] ELSE cachedH2RawConn
  /\ cacheH2Mu' = NoOne
  /\ Goto(g, "tunnel")
  /\ UNCHANGED <<dialer, cachedH2ClientConn, net, conn, bounded, up>>

\* Mutant: the connection replaced is closed.
MutStoreRaw(g) ==
  /\ pc[g] = "storeRaw"
  /\ cachedH2RawConn' = conn[g]
  /\ cacheH2Mu' = NoOne
  /\ IF cachedH2RawConn = NoConn THEN UNCHANGED <<raw, up>>
     ELSE End(cachedH2RawConn, "closed")
  /\ Goto(g, "tunnel")
  /\ UNCHANGED <<dialer, cachedH2ClientConn, proto, abandoned, conn, bounded>>

StoreRaw(g) ==
  /\ pc[g] = "storeRaw"
  /\ cachedH2RawConn' = conn[g]
  /\ abandoned' = abandoned \cup ({cachedH2RawConn} \ {NoConn})
  /\ cacheH2Mu' = NoOne
  /\ Goto(g, "tunnel")
  /\ UNCHANGED <<dialer, cachedH2ClientConn, raw, proto, conn, bounded, up>>

-----------------------------------------------------------------------------
(***************************************************************************)
(* The tunnel's holder closes it.  http2Conn.Close ends the stream only.    *)
(***************************************************************************)
Close(g) ==
  /\ pc[g] = "tunnel"
  /\ IF proto[conn[g]] = "h2"
     THEN up' = up \ {g} /\ UNCHANGED raw
     ELSE End(conn[g], "closed")
  /\ Fail(g)
  /\ UNCHANGED <<dialer, cache, proto, abandoned, bounded>>

\* The client recovers the panic of a dial.
Recover(g) ==
  /\ pc[g] = "panicked"
  /\ Goto(g, "idle")
  /\ UNCHANGED <<dialer, cache, net, conn, bounded, up>>

(***************************************************************************)
(* What happens to a connection from outside (external): the end of the     *)
(* request whose context a stream carries, the proxy closing the connection *)
(* or taking no more streams.                                               *)
(***************************************************************************)
RequestDone(g) ==
  /\ pc[g] = "tunnel"
  /\ bounded[g]
  /\ bounded' = [bounded EXCEPT ![g] = FALSE]
  /\ up' = IF proto[conn[g]] = "h2" THEN up \ {g} ELSE up
  /\ UNCHANGED <<dialer, cache, net, pc, conn>>

ProxyCloses(c) ==
  /\ Alive(c)
  /\ End(c, "lost")
  /\ UNCHANGED <<dialer, cache, proto, abandoned, pc, conn,
                 bounded>>

ProxyDrains(c) ==
  /\ raw[c] = "open"
  /\ proto[c] = "h2"
  /\ raw' = [raw EXCEPT ![c] = "draining"]
  /\ UNCHANGED <<dialer, cache, proto, abandoned, locals>>

-----------------------------------------------------------------------------
Lookup(g) == TakeCached(g) \/ PassOver(g)
CachedConnect(g) == CachedConnects(g) \/ CachedFails(g)
ConnectHttp2(g) == Http2Connects(g) \/ (pc[g] = "connectHttp2" /\ ConnectFails(g))

Next ==
  \/ \E p \in Proxy : NewConnectDialer(p)
  \/ \E g \in Goroutine :
       \/ \E ends \in BOOLEAN : DialContext(g, ends)
       \/ LockCache(g) \/ TakeCached(g) \/ PassOver(g)
       \/ CachedConnects(g) \/ CachedFails(g)
       \/ Dial(g) \/ DialTLS(g) \/ DialSocks(g) \/ DialFails(g)
       \/ DeadlineExceeded(g) \/ WriteConnect(g) \/ Http1Connects(g) \/ ConnectFails(g)
       \/ Http2Connects(g) \/ StoreClient(g) \/ StoreRaw(g)
       \/ Close(g) \/ Recover(g) \/ RequestDone(g)
  \/ \E c \in Raw : ProxyCloses(c) \/ ProxyDrains(c)

Spec == Init /\ [][Next]_vars

(***************************************************************************)
(* Fairness.  A goroutine that can run runs, and gets a mutex that is freed *)
(* again and again.  c.Dialer gives up after its timeout, as does a CONNECT *)
(* over HTTP/1.1, and one over HTTP/2 when its context ends.  The proxy     *)
(* need not answer: nothing is assumed of tls.Dial or of a socks5 proxy.    *)
(***************************************************************************)
FairSpec ==
  /\ Spec
  /\ \A g \in Goroutine :
       /\ SF_vars(LockCache(g))
       /\ WF_vars(Lookup(g))
       /\ WF_vars(Dial(g) \/ (DialFails(g) /\ proxy.scheme = "http"))
       /\ WF_vars(WriteConnect(g) \/ Http1Connects(g) \/ DeadlineExceeded(g))
       /\ WF_vars(bounded[g] /\ (CachedConnect(g) \/ ConnectHttp2(g)))
       /\ WF_vars(StoreClient(g) \/ StoreRaw(g))

-----------------------------------------------------------------------------
TypeOK ==
  /\ proxy \in Proxy \cup {NoProxy}
  /\ built \in {"no", "error", "panicked", "made"}
  /\ built = "made" => proxy \in Proxy
  /\ cacheH2Mu \in Goroutine \cup {NoOne}
  /\ {cachedH2ClientConn, cachedH2RawConn} \subseteq Raw \cup {NoConn}
  /\ raw \in [Raw -> {"unused", "open", "draining", "closed", "lost"}]
  /\ proto \in [Raw -> {"none", "h1", "h2", "socks"}]
  /\ abandoned \subseteq Raw
  /\ pc \in [Goroutine -> Label]
  /\ conn \in [Goroutine -> Raw \cup {NoConn}]
  /\ bounded \in [Goroutine -> BOOLEAN]
  /\ up \subseteq Goroutine

\* The mutex of the cache is held while the cache is read or written and never
\* while the proxy is waited for: a proxy that does not answer one CONNECT
\* does not delay the other dials.
CacheLockedBriefly ==
  \A g \in Goroutine :
    pc[g] \in {"lookup", "storeClient", "storeRaw"} <=> cacheH2Mu = g

\* The cached client connection runs on the cached raw connection, the one
\* closed when a CONNECT on the client connection fails, except between the
\* two writes of the dial that holds the mutex (connect.go:344).
CachePaired ==
  (\A g \in Goroutine : pc[g] # "storeRaw") => cachedH2ClientConn = cachedH2RawConn

\* Only an HTTP/2 connection on which a CONNECT succeeded is ever cached, and
\* a connection without HTTP/2 belongs to one dial or tunnel.
Exclusive ==
  \A c \in Raw :
    /\ c \in {cachedH2ClientConn, cachedH2RawConn} => proto[c] = "h2"
    /\ \A g, h \in Users(c) : g # h =>
         proto[c] = "h2" /\ c \in {cachedH2RawConn} \cup abandoned

\* An open connection is in use or cached.  The exceptions are the cached ones
\* that another one replaced (connect.go:343) and those of a dial that
\* panicked for want of a logger (connect.go:238): every error path closes.
OpenAccounted ==
  \A c \in Raw : Alive(c) => Users(c) # {} \/ c = cachedH2RawConn \/ c \in abandoned

\* A tunnel stops working only when its holder closes it, when the proxy
\* closes the connection, or, over HTTP/2, when the request it was dialled for
\* ends or a CONNECT of another dial on the cached connection fails.  Tunnels
\* over HTTP/1.1 and SOCKS do not depend on other dials.
LossExplained ==
  \A g \in up \ up' :
    \/ pc'[g] = "idle"
    \/ raw'[conn[g]] = "lost"
    \/ /\ proto[conn[g]] = "h2"
       /\ \/ bounded[g] /\ ~bounded'[g]
          \/ \E h \in Users(conn[g]) : pc[h] = "cachedConnect" /\ pc'[h] = "dial"

TunnelLoss == [][LossExplained]_vars

\* Where the connection of a dial is no one else's.
Alone == {"connectHttp1", "awaitHttp1", "connectHttp2", "lockStore",
          "storeClient", "storeRaw"}

\* The stages, users and connections of TunnelLife.
StageOf(c) ==
  IF raw[c] = "unused" THEN "new"
  ELSE IF c = cachedH2RawConn THEN "cached"
  ELSE IF c \in abandoned THEN "forgotten"
  ELSE IF \E g \in Users(c) : pc[g] \in Alone THEN "making"
  ELSE IF Users(c) # {} THEN "own"
  ELSE "gone"

ConnStage == [c \in Raw |-> StageOf(c)]
ConnUsers == [c \in Raw |-> Users(c)]
ConnsAlive == {c \in Raw : Alive(c)}

Life == INSTANCE TunnelLife WITH stage <- ConnStage, users <- ConnUsers, alive <- ConnsAlive

\* Whatever dials, tunnels and the proxy do at the same time, a connection to the
\* proxy lives as TunnelLife says: a dial shares the cached one only, and caching
\* another takes it from nobody who has it.
ImplementsTunnels == Life!Spec

Dialling(g) == pc[g] \notin {"idle", "tunnel", "panicked"}

\* A dial through an http proxy ends, whatever the proxy does or fails to do,
\* and whatever the context: the client's timeout bounds it (connect.go:228).
HttpDialsReturn ==
  \A g \in Goroutine :
    built = "made" /\ proxy.scheme = "http" /\ Dialling(g) ~> ~Dialling(g)

=============================================================================
