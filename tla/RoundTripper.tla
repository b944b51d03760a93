---------------------------- MODULE RoundTripper ----------------------------
(***************************************************************************)
(* The roundTripper of roundtripper.go: the http.RoundTripper that every    *)
(* request of a client goes through.  For each address it learns by a       *)
(* first TLS handshake (the probe) which protocol the server negotiates,    *)
(* builds one transport for it, caches the transport, and parks the probe's *)
(* connection for the transport, which fetches it by calling dialTLS again. *)
(*                                                                          *)
(* Two mutexes are involved.  cachedTransportsLck is held by RoundTrip      *)
(* while it looks a transport up and, on a miss, for the whole probe.  The  *)
(* embedded Mutex (here connsLck) is held by dialTLS from entry to return,  *)
(* network operations included.  The transports of fhttp call dialTLS       *)
(* holding neither.                                                         *)
(*                                                                          *)
(* External: the transports (fhttp, http2, http3), the dialer, utls and the *)
(* remote servers, modelled by what roundTripper can see of them.  Which    *)
(* address family a dial uses is left out.                                  *)
(***************************************************************************)
EXTENDS Naturals, FiniteSets

CONSTANTS
  Goroutine,       \* goroutines that call RoundTrip or CloseIdleConnections
  NoOne,           \* the owner of a free mutex
  Host,            \* host names
  Port,            \* port numbers, as they appear in a URL
  NoPort,          \* the port of a URL that names none
  URL,             \* the URLs requested: records of a scheme, a host, a port
  NoURL,           \* the URL of a goroutine that runs no request
  Ascii,           \* the host name a transport dials for a URL's host
  Alpn,            \* the protocols a server may select at an address
  Pinned,          \* the hosts whose certificates are pinned
  MaxConn,         \* bound: TLS connections dialled in a behaviour
  ForceHttp1,      \* WithForceHttp1
  DialerMayPanic,  \* whether the dialer may panic (connectDialer, nil logger)
  CatchPanics      \* WithCatchPanics: a panic ends the request, not the process

Kind == {"h1", "h2", "h3"}
NoTransport == "none"
Conn == 1 .. MaxConn
NoConn == 0
Addr == Host \X Port
Scheme == {"http", "https", "other"}

ASSUME RoundTripperAssumption ==
  /\ NoOne \notin Goroutine
  /\ {"80", "443"} \subseteq Port
  /\ NoPort \notin Port
  /\ URL \subseteq [scheme : Scheme, host : Host, port : Port \cup {NoPort}]
  /\ NoURL \notin URL
  /\ Ascii \in [Host -> Host]
  /\ Alpn \in [Addr -> SUBSET Kind]
  /\ Pinned \subseteq Host
  /\ MaxConn \in Nat
  /\ {ForceHttp1, DialerMayPanic, CatchPanics} \subseteq BOOLEAN

VARIABLES
  transportsLck,      \* the goroutine in cachedTransportsLck
  connsLck,           \* the goroutine in the embedded Mutex
  cachedTransports,   \* the kind of transport cached for an address
  cachedConnections,  \* the probe's connection parked for an address
  pool,               \* connections owned by the transport of an address
  open,               \* TLS connections established or being established
  proto,              \* the protocol a handshake negotiated
  dialed,             \* number of connections dialled so far
  pinFailed,          \* connections whose certificates failed the pin check
  pc, url, mode, via, hand, result, handlerRan   \* locals of the goroutines

locks == <<transportsLck, connsLck>>
caches == <<cachedTransports, cachedConnections>>
conns == <<pool, open, proto, dialed, pinFailed>>
locals == <<pc, url, mode, via, hand, result, handlerRan>>
vars == <<locks, caches, conns, locals>>

Label == {"idle", "lockTransports", "lookup", "buildPlain", "pick", "roundTrip",
          "lockConns", "dialTLS", "handshake", "pin", "install",
          "badPinHandler", "exchange", "lockClose", "closing", "panicked"}
Mode == {"none", "probe", "callback"}
Result == {"none", "ok", "error", "badPin", "negotiated", "garbled",
           "unexpectedConn", "dialerPanic"}

-----------------------------------------------------------------------------
(***************************************************************************)
(* Addresses.  getDialTLSAddr gives the key of both caches: it does not     *)
(* look at the scheme.  A transport dials the canonical address of the URL  *)
(* instead: the ASCII form of the host and the scheme's default port.       *)
(***************************************************************************)
GetDialTLSAddr(u) == <<u.host, IF u.port = NoPort THEN "443" ELSE u.port>>

CanonicalAddr(u) ==
  <<Ascii[u.host],
    IF u.port # NoPort THEN u.port ELSE IF u.scheme = "http" THEN "80" ELSE "443">>

Key(g) == GetDialTLSAddr(url[g])

\* The address g passes to dialTLS: the key when it probes, the canonical
\* address when the transport it is in calls back.
DialAddr(g) == IF mode[g] = "probe" THEN Key(g) ELSE CanonicalAddr(url[g])

\* The protocols a handshake at address a can end with.
Negotiable(a) == IF ForceHttp1 THEN Alpn[a] \cap {"h1"} ELSE Alpn[a]

-----------------------------------------------------------------------------
Init ==
  /\ transportsLck = NoOne
  /\ connsLck = NoOne
  /\ cachedTransports = [a \in Addr |-> NoTransport]
  /\ cachedConnections = [a \in Addr |-> NoConn]
  /\ pool = [a \in Addr |-> {}]
  /\ open = {}
  /\ proto = [c \in Conn |-> "none"]
  /\ dialed = 0
  /\ pinFailed = {}
  /\ pc = [g \in Goroutine |-> "idle"]
  /\ url = [g \in Goroutine |-> NoURL]
  /\ mode = [g \in Goroutine |-> "none"]
  /\ via = [g \in Goroutine |-> NoTransport]
  /\ hand = [g \in Goroutine |-> NoConn]
  /\ result = [g \in Goroutine |-> "none"]
  /\ handlerRan = [g \in Goroutine |-> FALSE]

Goto(g, l) == pc' = [pc EXCEPT ![g] = l]

\* The call of g returns r.
Finish(g, r) ==
  /\ Goto(g, "idle")
  /\ url' = [url EXCEPT ![g] = NoURL]
  /\ mode' = [mode EXCEPT ![g] = "none"]
  /\ via' = [via EXCEPT ![g] = NoTransport]
  /\ hand' = [hand EXCEPT ![g] = NoConn]
  /\ result' = [result EXCEPT ![g] = r]

\* A panic unwinds g.  The deferred unlock of dialTLS runs; RoundTrip has no
\* deferred unlock, so whatever it holds stays locked.
Panic(g, r) ==
  /\ Goto(g, "panicked")
  /\ hand' = [hand EXCEPT ![g] = NoConn]
  /\ result' = [result EXCEPT ![g] = r]
  /\ connsLck' = NoOne
  /\ UNCHANGED <<transportsLck, url, mode, via>>

\* The client recovers the panic: its caller sees no response and no error.
Recover(g) ==
  /\ CatchPanics
  /\ pc[g] = "panicked"
  /\ Finish(g, result[g])
  /\ UNCHANGED <<locks, caches, conns, handlerRan>>

-----------------------------------------------------------------------------
(***************************************************************************)
(* RoundTrip: the lookup under cachedTransportsLck.                         *)
(***************************************************************************)
RoundTrip(g, u) ==
  /\ pc[g] = "idle"
  /\ Goto(g, "lockTransports")
  /\ url' = [url EXCEPT ![g] = u]
  /\ result' = [result EXCEPT ![g] = "none"]
  /\ handlerRan' = [handlerRan EXCEPT ![g] = FALSE]
  /\ UNCHANGED <<locks, caches, conns, mode, via, hand>>

\* Mutant: the lookup without cachedTransportsLck.
MutLockTransports(g) ==
  /\ \/ pc[g] = "lockTransports" /\ Goto(g, "lookup")
     \/ pc[g] = "lockClose" /\ Goto(g, "closing")
  /\ UNCHANGED <<locks, caches, conns, url, mode, via, hand, result,
                 handlerRan>>

LockTransports(g) ==
  /\ transportsLck = NoOne
  /\ \/ pc[g] = "lockTransports" /\ Goto(g, "lookup")
     \/ pc[g] = "lockClose" /\ Goto(g, "closing")
  /\ transportsLck' = g
  /\ UNCHANGED <<connsLck, caches, conns, url, mode, via, hand,
                 result, handlerRan>>

LookupHit(g) ==
  /\ pc[g] = "lookup"
  /\ cachedTransports[Key(g)] # NoTransport
  /\ Goto(g, "pick")
  /\ UNCHANGED <<locks, caches, conns, url, mode, via, hand, result,
                 handlerRan>>

\* getTransport of an http URL.
LookupPlain(g) ==
  /\ pc[g] = "lookup"
  /\ cachedTransports[Key(g)] = NoTransport
  /\ url[g].scheme = "http"
  /\ Goto(g, "buildPlain")
  /\ UNCHANGED <<locks, caches, conns, url, mode, via, hand, result,
                 handlerRan>>

BuildPlain(g) ==
  /\ pc[g] = "buildPlain"
  /\ cachedTransports' = [cachedTransports EXCEPT ![Key(g)] = "h1"]
  /\ Goto(g, "pick")
  /\ UNCHANGED <<locks, cachedConnections, conns, url, mode, via,
                 hand, result, handlerRan>>

\* getTransport of an https URL: the probe.
LookupProbe(g) ==
  /\ pc[g] = "lookup"
  /\ cachedTransports[Key(g)] = NoTransport
  /\ url[g].scheme = "https"
  /\ Goto(g, "lockConns")
  /\ mode' = [mode EXCEPT ![g] = "probe"]
  /\ UNCHANGED <<locks, caches, conns, url, via, hand, result,
                 handlerRan>>

LookupInvalidScheme(g) ==
  /\ pc[g] = "lookup"
  /\ cachedTransports[Key(g)] = NoTransport
  /\ url[g].scheme = "other"
  /\ transportsLck' = NoOne
  /\ Finish(g, "error")
  /\ UNCHANGED <<connsLck, caches, conns, handlerRan>>

Pick(g) ==
  /\ pc[g] = "pick"
  /\ via' = [via EXCEPT ![g] = cachedTransports[Key(g)]]
  /\ transportsLck' = NoOne
  /\ Goto(g, "roundTrip")
  /\ UNCHANGED <<connsLck, caches, conns, url, mode, hand, result,
                 handlerRan>>

-----------------------------------------------------------------------------
(***************************************************************************)
(* The transport (external).  An https request takes a pooled connection,   *)
(* exclusively under HTTP/1.1, shared under HTTP/2, or asks dialTLS for     *)
(* one; HTTP/3 dials QUIC on its own.  A plain request dials through        *)
(* rt.dial, which takes no lock.                                            *)
(***************************************************************************)
UsePooled(g) ==
  /\ pc[g] = "roundTrip"
  /\ url[g].scheme = "https"
  /\ via[g] \in {"h1", "h2"}
  /\ \E c \in pool[Key(g)] :
       /\ hand' = [hand EXCEPT ![g] = c]
       /\ pool' = IF via[g] = "h1" THEN [pool EXCEPT ![Key(g)] = @ \ {c}] ELSE pool
  /\ Goto(g, "exchange")
  /\ UNCHANGED <<locks, caches, open, proto, dialed, pinFailed, url,
                 mode, via, result, handlerRan>>

\* No idle connection, or no room for another stream on the HTTP/2 ones.
CallDialTLS(g) ==
  /\ pc[g] = "roundTrip"
  /\ url[g].scheme = "https"
  /\ via[g] = "h2" \/ (via[g] = "h1" /\ pool[Key(g)] = {})
  /\ mode' = [mode EXCEPT ![g] = "callback"]
  /\ Goto(g, "lockConns")
  /\ UNCHANGED <<locks, caches, conns, url, via, hand, result,
                 handlerRan>>

Quic(g) ==
  /\ pc[g] = "roundTrip"
  /\ url[g].scheme = "https"
  /\ via[g] = "h3"
  /\ \E r \in {"ok", "error"} : Finish(g, r)
  /\ UNCHANGED <<locks, caches, conns, handlerRan>>

PlainExchange(g) ==
  /\ pc[g] = "roundTrip"
  /\ url[g].scheme = "http"
  /\ via[g] = "h1"
  /\ \E r \in {"ok", "error"} : Finish(g, r)
  /\ UNCHANGED <<locks, caches, conns, handlerRan>>

\* An HTTP/2 or HTTP/3 transport refuses a URL that is not https, and every
\* transport refuses a scheme it does not know.
SchemeRefused(g) ==
  /\ pc[g] = "roundTrip"
  /\ url[g].scheme = "other" \/ (url[g].scheme = "http" /\ via[g] # "h1")
  /\ Finish(g, "error")
  /\ UNCHANGED <<locks, caches, conns, handlerRan>>

\* The request's deadline passes before its transport has a connection.
Expire(g) ==
  /\ pc[g] = "roundTrip"
  /\ Finish(g, "error")
  /\ UNCHANGED <<locks, caches, conns, handlerRan>>

-----------------------------------------------------------------------------
(***************************************************************************)
(* dialTLS, called by the probe holding cachedTransportsLck and by the      *)
(* transports holding nothing.  Its two results: a connection, or an error, *)
(* errProtocolNegotiated ("negotiated") being the one the probe hopes for.  *)
(***************************************************************************)
\* Mutant: dialTLS without its mutex.
MutLockConns(g) ==
  /\ pc[g] = "lockConns"
  /\ Goto(g, "dialTLS")
  /\ UNCHANGED <<locks, caches, conns, url, mode, via, hand, result,
                 handlerRan>>

LockConns(g) ==
  /\ pc[g] = "lockConns"
  /\ connsLck = NoOne
  /\ connsLck' = g
  /\ Goto(g, "dialTLS")
  /\ UNCHANGED <<transportsLck, caches, conns, url, mode, via, hand,
                 result, handlerRan>>

\* Mutant: a connection is in the pool from the start, under HTTP/1.1 too.
MutReturnConn(g, c) ==
  \/ /\ mode[g] = "probe"
     /\ Panic(g, "unexpectedConn")
     /\ UNCHANGED pool
  \/ /\ mode[g] = "callback"
     /\ connsLck' = NoOne
     /\ hand' = [hand EXCEPT ![g] = c]
     /\ pool' = [pool EXCEPT ![Key(g)] = @ \cup {c}]
     /\ Goto(g, "exchange")
     /\ UNCHANGED <<transportsLck, url, mode, via, result>>

\* dialTLS returns connection c.  The probe did not expect one: it panics.
ReturnConn(g, c) ==
  \/ /\ mode[g] = "probe"
     /\ Panic(g, "unexpectedConn")
     /\ UNCHANGED pool
  \/ /\ mode[g] = "callback"
     /\ connsLck' = NoOne
     /\ hand' = [hand EXCEPT ![g] = c]
     /\ pool' = IF via[g] = "h2" THEN [pool EXCEPT ![Key(g)] = @ \cup {c}] ELSE pool
     /\ Goto(g, "exchange")
     /\ UNCHANGED <<transportsLck, url, mode, via, result>>

\* Mutant: the error path of the probe forgets to unlock.
MutReturnError(g, e) ==
  /\ connsLck' = NoOne
  /\ transportsLck' = transportsLck
  /\ \/ /\ mode[g] = "probe" /\ e = "badPin"
        /\ Goto(g, "badPinHandler")
        /\ hand' = [hand EXCEPT ![g] = NoConn]
        /\ UNCHANGED <<url, mode, via, result>>
     \/ /\ mode[g] = "callback" \/ e # "badPin"
        /\ Finish(g, e)

\* Mutant: the error path of the probe treats a bad pin as any other error.
MutReturnErrorSilent(g, e) ==
  /\ connsLck' = NoOne
  /\ transportsLck' = IF mode[g] = "probe" THEN NoOne ELSE transportsLck
  /\ Finish(g, e)

\* dialTLS returns error e, and RoundTrip with it.  Only the probe's error
\* path knows the bad pin handler; it unlocks before it runs it.
ReturnError(g, e) ==
  /\ connsLck' = NoOne
  /\ transportsLck' = IF mode[g] = "probe" THEN NoOne ELSE transportsLck
  /\ \/ /\ mode[g] = "probe" /\ e = "badPin"
        /\ Goto(g, "badPinHandler")
        /\ hand' = [hand EXCEPT ![g] = NoConn]
        /\ UNCHANGED <<url, mode, via, result>>
     \/ /\ mode[g] = "callback" \/ e # "badPin"
        /\ Finish(g, e)

\* Mutant: the parked connection is returned and kept.
MutTakeParked(g) ==
  /\ pc[g] = "dialTLS"
  /\ cachedConnections[DialAddr(g)] # NoConn
  /\ ReturnConn(g, cachedConnections[DialAddr(g)])
  /\ UNCHANGED <<caches, open, proto, dialed, pinFailed, handlerRan>>

TakeParked(g) ==
  /\ pc[g] = "dialTLS"
  /\ cachedConnections[DialAddr(g)] # NoConn
  /\ cachedConnections' = [cachedConnections EXCEPT ![DialAddr(g)] = NoConn]
  /\ ReturnConn(g, cachedConnections[DialAddr(g)])
  /\ UNCHANGED <<cachedTransports, open, proto, dialed, pinFailed,
                 handlerRan>>

Dial(g) ==
  /\ pc[g] = "dialTLS"
  /\ cachedConnections[DialAddr(g)] = NoConn
  /\ dialed < MaxConn
  /\ dialed' = dialed + 1
  /\ open' = open \cup {dialed + 1}
  /\ hand' = [hand EXCEPT ![g] = dialed + 1]
  /\ Goto(g, "handshake")
  /\ UNCHANGED <<locks, caches, pool, proto, pinFailed, url, mode, via, result,
                 handlerRan>>

DialFails(g) ==
  /\ pc[g] = "dialTLS"
  /\ cachedConnections[DialAddr(g)] = NoConn
  /\ ReturnError(g, "error")
  /\ UNCHANGED <<caches, conns, handlerRan>>

\* A panic of the dialer reaches g only when g probes: the HTTP/1.1 transport
\* dials in a goroutine of its own, where a panic ends the process.
DialPanics(g) ==
  /\ DialerMayPanic
  /\ pc[g] = "dialTLS"
  /\ mode[g] = "probe"
  /\ cachedConnections[DialAddr(g)] = NoConn
  /\ Panic(g, "dialerPanic")
  /\ UNCHANGED <<caches, conns, handlerRan>>

Handshake(g) ==
  /\ pc[g] = "handshake"
  /\ \E p \in Negotiable(DialAddr(g)) : proto' = [proto EXCEPT ![hand[g]] = p]
  /\ Goto(g, "pin")
  /\ UNCHANGED <<locks, caches, pool, open, dialed, pinFailed, url,
                 mode, via, hand, result, handlerRan>>

\* Mutant: a failed handshake leaves its connection open.
MutHandshakeFails(g) ==
  /\ pc[g] = "handshake"
  /\ ReturnError(g, "error")
  /\ UNCHANGED <<caches, conns, handlerRan>>

HandshakeFails(g) ==
  /\ pc[g] = "handshake"
  /\ open' = open \ {hand[g]}
  /\ ReturnError(g, "error")
  /\ UNCHANGED <<caches, pool, proto, dialed, pinFailed, handlerRan>>

PinMatches(g) ==
  /\ pc[g] = "pin"
  /\ Goto(g, "install")
  /\ UNCHANGED <<locks, caches, conns, url, mode, via, hand, result,
                 handlerRan>>

\* Mutant: a bad pin fails the probe only.
MutPinMismatch(g) ==
  /\ pc[g] = "pin"
  /\ DialAddr(g)[1] \in Pinned
  /\ pinFailed' = pinFailed \cup {hand[g]}
  /\ \/ mode[g] = "probe" /\ ReturnError(g, "badPin")
     \/ /\ mode[g] = "callback" /\ Goto(g, "install")
        /\ UNCHANGED <<locks, url, mode, via, hand, result>>
  /\ UNCHANGED <<caches, pool, open, proto, dialed, handlerRan>>

\* The connection is neither closed nor kept.
PinMismatch(g) ==
  /\ pc[g] = "pin"
  /\ DialAddr(g)[1] \in Pinned
  /\ pinFailed' = pinFailed \cup {hand[g]}
  /\ ReturnError(g, "badPin")
  /\ UNCHANGED <<caches, pool, open, proto, dialed, handlerRan>>

\* A transport is there already: the connection is for it.
ReturnDialed(g) ==
  /\ pc[g] = "install"
  /\ cachedTransports[DialAddr(g)] # NoTransport
  /\ ReturnConn(g, hand[g])
  /\ UNCHANGED <<caches, open, proto, dialed, pinFailed, handlerRan>>

\* The transport ALPN asks for is cached, the connection parked.
Stash(g, kind) ==
  /\ cachedTransports' = [cachedTransports EXCEPT ![DialAddr(g)] = kind]
  /\ cachedConnections' = [cachedConnections EXCEPT ![DialAddr(g)] = hand[g]]
  /\ UNCHANGED <<conns, handlerRan>>

\* dialTLS returns errProtocolNegotiated, which getTransport turns into nil.
ReturnNegotiated(g) ==
  \/ /\ mode[g] = "probe"
     /\ connsLck' = NoOne
     /\ hand' = [hand EXCEPT ![g] = NoConn]
     /\ mode' = [mode EXCEPT ![g] = "none"]
     /\ Goto(g, "pick")
     /\ UNCHANGED <<transportsLck, url, via, result>>
  \/ mode[g] = "callback" /\ ReturnError(g, "negotiated")

\* Mutant: dialTLS replaces the transport that is there.
MutInstallAlways(g) ==
  /\ pc[g] = "install"
  /\ Stash(g, proto[hand[g]])
  /\ ReturnNegotiated(g)

\* Mutant: the HTTP/2 case of the switch is lost.
MutInstallH1(g) ==
  /\ pc[g] = "install"
  /\ cachedTransports[DialAddr(g)] = NoTransport
  /\ Stash(g, "h1")
  /\ ReturnNegotiated(g)

\* No transport yet: build one.
Install(g) ==
  /\ pc[g] = "install"
  /\ cachedTransports[DialAddr(g)] = NoTransport
  /\ Stash(g, proto[hand[g]])
  /\ ReturnNegotiated(g)

BadPinHandler(g) ==
  /\ pc[g] = "badPinHandler"
  /\ handlerRan' = [handlerRan EXCEPT ![g] = TRUE]
  /\ Finish(g, "badPin")
  /\ UNCHANGED <<locks, caches, conns>>

-----------------------------------------------------------------------------
(***************************************************************************)
(* The exchange on the connection in hand, and the ways a transport lets a  *)
(* connection go (external), CloseIdleConnections among them.               *)
(***************************************************************************)
Exchange(g) ==
  /\ pc[g] = "exchange"
  /\ \E keep \in BOOLEAN, r \in {"ok", "error", "garbled"} :
       /\ r = "garbled" <=> proto[hand[g]] # via[g]
       /\ hand[g] \in open \/ r # "ok"
       /\ keep => hand[g] \in open /\ r # "garbled"
       /\ pool' = [pool EXCEPT ![Key(g)] =
                     IF keep THEN @ \cup {hand[g]} ELSE @ \ {hand[g]}]
       /\ open' = IF keep THEN open ELSE open \ {hand[g]}
       /\ Finish(g, r)
  /\ UNCHANGED <<locks, caches, proto, dialed, pinFailed, handlerRan>>

InUse == {hand[g] : g \in Goroutine}

\* The idle timeout, or the server, closes a pooled connection nobody uses.
IdleClose(a, c) ==
  /\ c \in pool[a] \ InUse
  /\ pool' = [pool EXCEPT ![a] = @ \ {c}]
  /\ open' = open \ {c}
  /\ UNCHANGED <<locks, caches, proto, dialed, pinFailed, locals>>

\* The server closes a connection while it is parked: no one notices.
ParkedDies(a) ==
  /\ cachedConnections[a] \in open
  /\ open' = open \ {cachedConnections[a]}
  /\ UNCHANGED <<locks, caches, pool, proto, dialed, pinFailed, locals>>

CloseIdleConnections(g) ==
  /\ pc[g] = "idle"
  /\ Goto(g, "lockClose")
  /\ UNCHANGED <<locks, caches, conns, url, mode, via, hand, result,
                 handlerRan>>

\* Every cached transport closes its idle connections; parked ones stay.
CloseTransports(g) ==
  /\ pc[g] = "closing"
  /\ pool' = [a \in Addr |-> pool[a] \cap InUse]
  /\ open' = open \ ((UNION {pool[a] : a \in Addr}) \ InUse)
  /\ transportsLck' = NoOne
  /\ Goto(g, "idle")
  /\ UNCHANGED <<connsLck, caches, proto, dialed, pinFailed, url,
                 mode, via, hand, result, handlerRan>>

-----------------------------------------------------------------------------
Lookup(g) ==
  LookupHit(g) \/ LookupPlain(g) \/ LookupProbe(g) \/ LookupInvalidScheme(g)

Transport(g) ==
  UsePooled(g) \/ CallDialTLS(g) \/ Quic(g) \/ PlainExchange(g) \/ SchemeRefused(g)
  \/ Expire(g)

DialStep(g) == TakeParked(g) \/ Dial(g) \/ DialFails(g) \/ DialPanics(g)

HandshakeStep(g) == Handshake(g) \/ HandshakeFails(g)

CheckPin(g) == PinMatches(g) \/ PinMismatch(g)

Store(g) == ReturnDialed(g) \/ Install(g)

Next ==
  \/ \E g \in Goroutine :
       \/ \E u \in URL : RoundTrip(g, u)
       \/ LockTransports(g) \/ Lookup(g) \/ BuildPlain(g) \/ Pick(g)
       \/ Transport(g)
       \/ LockConns(g) \/ DialStep(g) \/ HandshakeStep(g) \/ CheckPin(g) \/ Store(g)
       \/ BadPinHandler(g) \/ Exchange(g)
       \/ CloseIdleConnections(g) \/ CloseTransports(g) \/ Recover(g)
  \/ \E a \in Addr, c \in Conn : IdleClose(a, c)
  \/ \E a \in Addr : ParkedDies(a)

Spec == Init /\ [][Next]_vars

(***************************************************************************)
(* Fairness.  A goroutine that can run runs.  sync.Mutex hands itself to    *)
(* waiters in order once one has starved, so a waiter of a mutex that keeps *)
(* being freed gets it.  The dialer's timeout ends every dial; a handshake  *)
(* ends only where its context ends, and dialTLSHTTP2 passes a context that *)
(* never does.                                                              *)
(***************************************************************************)
BoundedContext(g) == mode[g] = "probe" \/ via[g] # "h2"

LocalStep(g) ==
  \/ Lookup(g) \/ BuildPlain(g) \/ Pick(g) \/ Transport(g) \/ DialStep(g)
  \/ CheckPin(g) \/ Store(g) \/ BadPinHandler(g) \/ Exchange(g)
  \/ CloseTransports(g) \/ Recover(g)

FairSpec ==
  /\ Spec
  /\ \A g \in Goroutine :
       /\ WF_vars(LocalStep(g))
       /\ WF_vars(BoundedContext(g) /\ HandshakeStep(g))
       /\ SF_vars(LockTransports(g))
       /\ SF_vars(LockConns(g))

-----------------------------------------------------------------------------
TypeOK ==
  /\ transportsLck \in Goroutine \cup {NoOne}
  /\ connsLck \in Goroutine \cup {NoOne}
  /\ cachedTransports \in [Addr -> Kind \cup {NoTransport}]
  /\ cachedConnections \in [Addr -> Conn \cup {NoConn}]
  /\ pool \in [Addr -> SUBSET Conn]
  /\ open \in SUBSET Conn
  /\ proto \in [Conn -> Kind \cup {"none"}]
  /\ dialed \in 0 .. MaxConn
  /\ pinFailed \in SUBSET Conn
  /\ pc \in [Goroutine -> Label]
  /\ url \in [Goroutine -> URL \cup {NoURL}]
  /\ mode \in [Goroutine -> Mode]
  /\ via \in [Goroutine -> Kind \cup {NoTransport}]
  /\ hand \in [Goroutine -> Conn \cup {NoConn}]
  /\ result \in [Goroutine -> Result]
  /\ handlerRan \in [Goroutine -> BOOLEAN]

(***************************************************************************)
(* Safety.                                                                 *)
(***************************************************************************)
\* The probe never gets a connection from dialTLS: the panic getTransport
\* marks "Should never happen." (roundtripper.go:111) never does.
ProbeGetsNoConn == \A g \in Goroutine : result[g] # "unexpectedConn"

\* errProtocolNegotiated, the error by which dialTLS tells the probe that it
\* built a transport, reaches the probe only: no request ends with it.
NegotiatedStaysInside == \A g \in Goroutine : result[g] # "negotiated"

\* The probe and dialTLS agree on who built what: a success is always the error
\* the probe waits for, and never anybody else's outcome.
ProbeAgreement == ProbeGetsNoConn /\ NegotiatedStaysInside

\* The transport of an address, once built, is never replaced: a second one
\* would strand the connections in the pool of the first.
TransportsWriteOnce ==
  [][\A a \in Addr : cachedTransports[a] # NoTransport =>
       cachedTransports'[a] = cachedTransports[a]]_vars

\* Accesses of the map cachedTransports.  BuildPlain writes it under
\* cachedTransportsLck only, dialTLS under the embedded Mutex.
Writes(g) ==
  \/ pc[g] = "buildPlain"
  \/ pc[g] = "install" /\ cachedTransports[DialAddr(g)] = NoTransport

Accesses(g) == pc[g] \in {"lookup", "buildPlain", "pick", "closing", "install"}

\* Nobody writes the map cachedTransports while another goroutine is about
\* to read or write it, although two different mutexes guard it.
RaceFree ==
  \A g, h \in Goroutine : Writes(g) /\ Accesses(h) => g = h

\* A connection has one owner: a parked one is in no pool and no hand, a
\* pooled or carried one belongs to one transport, and only HTTP/2 lets two
\* requests share one.
ExclusiveConn ==
  /\ \A a, b \in Addr : cachedConnections[a] = cachedConnections[b] =>
       a = b \/ cachedConnections[a] = NoConn
  /\ \A a, b \in Addr : cachedConnections[a] \notin pool[b]
  /\ \A a, b \in Addr : pool[a] \cap pool[b] # {} => a = b
  /\ \A g \in Goroutine : hand[g] # NoConn =>
       /\ \A a \in Addr : cachedConnections[a] # hand[g]
       /\ \A a \in Addr : hand[g] \in pool[a] => a = Key(g) /\ via[g] = "h2"
       /\ \A h \in Goroutine \ {g} : hand[h] = hand[g] =>
            via[g] = "h2" /\ via[h] = "h2" /\ Key(g) = Key(h)

\* The protocol negotiated on a parked, pooled or carried connection is the
\* one its transport speaks, where a server keeps to one protocol.
ProtocolAgrees ==
  /\ \A a \in Addr : cachedConnections[a] # NoConn =>
       proto[cachedConnections[a]] = cachedTransports[a]
  /\ \A a \in Addr : \A c \in pool[a] : proto[c] = cachedTransports[a]
  /\ \A g \in Goroutine : pc[g] = "exchange" => proto[hand[g]] = via[g]

\* Every open connection is reachable: parked, in a pool or in hand.  The
\* exception is one whose pin check failed: dialTLS returns without Close.
ConnAccounted ==
  \A c \in open \ pinFailed :
    \/ \E a \in Addr : c = cachedConnections[a] \/ c \in pool[a]
    \/ c \in InUse

\* No request is ever written to a connection that failed its pin check.
PinFailedUnused ==
  /\ \A a \in Addr : {cachedConnections[a]} \cup pool[a] \subseteq
                       (Conn \cup {NoConn}) \ pinFailed
  /\ \A g \in Goroutine : hand[g] \notin pinFailed

\* The bad pin handler, user code that may well send a request through the
\* same client, runs with neither mutex held by its goroutine.
HandlerUnlocked ==
  \A g \in Goroutine : pc[g] = "badPinHandler" =>
    transportsLck # g /\ connsLck # g

\* A probe that finds a bad pin runs the bad pin handler before its request
\* returns, and no other outcome of a probe does.  (A mismatch a transport
\* finds when it dials again is not reported: roundtripper.go:83.)
ProbeReportsBadPin ==
  [][\A g \in Goroutine : mode[g] = "probe" /\ pc'[g] = "idle" =>
       (handlerRan'[g] <=> result'[g] = "badPin")]_vars

\* The stages, homes and users of ConnLife.
ConnUsers == [c \in Conn |-> {g \in Goroutine : hand[g] = c}]

ConnHome ==
  [c \in Conn |->
     {a \in Addr : \/ cachedConnections[a] = c \/ c \in pool[a]
                   \/ \E g \in Goroutine : hand[g] = c /\ Key(g) = a}]

StageOf(c) ==
  IF c > dialed THEN "new"
  ELSE IF \E g \in Goroutine : hand[g] = c /\ pc[g] \in {"handshake", "pin", "install"}
    THEN "making"
  ELSE IF \E a \in Addr : cachedConnections[a] = c THEN "parked"
  ELSE IF \E a \in Addr : c \in pool[a] THEN "pooled"
  ELSE IF ConnUsers[c] # {} THEN "carried"
  ELSE "gone"

ConnStage == [c \in Conn |-> StageOf(c)]

Life == INSTANCE ConnLife WITH stage <- ConnStage, home <- ConnHome, users <- ConnUsers

\* Through probes, parking, pools, failures, panics and CloseIdleConnections, a
\* connection lives as ConnLife says: it never moves to another address, is never
\* taken from its user, and never comes back.
ImplementsLife == Life!Spec

(***************************************************************************)
(* Liveness.                                                               *)
(***************************************************************************)
\* Every request returns.
EveryRequestReturns ==
  \A g \in Goroutine : pc[g] = "lockTransports" ~> pc[g] = "idle"

=============================================================================
