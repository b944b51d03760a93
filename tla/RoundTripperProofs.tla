------------------------- MODULE RoundTripperProofs -------------------------
(***************************************************************************)
(* Theorems about RoundTripper, for every value of its constants.          *)
(***************************************************************************)
EXTENDS RoundTripper, TLAPS

-----------------------------------------------------------------------------
(***************************************************************************)
(* Type correctness.  It is not inductive alone: a goroutine inside a      *)
(* request has a URL, and inside dialTLS or an exchange a connection.      *)
(***************************************************************************)
InRequest == Label \ {"idle", "lockClose", "closing"}

UrlKnown == \A g \in Goroutine : pc[g] \in InRequest => url[g] \in URL

HandFull == \A g \in Goroutine :
  pc[g] \in {"handshake", "pin", "install", "exchange"} => hand[g] \in Conn

TypeInv == TypeOK /\ UrlKnown /\ HandFull

\* The keys of both caches are addresses.
LEMMA AddrType ==
  ASSUME TypeInv, NEW g \in Goroutine, pc[g] \in InRequest
  PROVE  /\ Key(g) \in Addr
         /\ CanonicalAddr(url[g]) \in Addr
         /\ DialAddr(g) \in Addr
<1>1. url[g] \in URL
  BY DEF TypeInv, UrlKnown
<1>2. url[g] \in [scheme : Scheme, host : Host, port : Port \cup {NoPort}]
  BY <1>1, RoundTripperAssumption DEF RoundTripperAssumption
<1>3. {"80", "443"} \subseteq Port /\ Ascii \in [Host -> Host]
  BY RoundTripperAssumption DEF RoundTripperAssumption
<1>4. Key(g) \in Addr
  BY <1>2, <1>3 DEF Key, GetDialTLSAddr, Addr
<1>5. CanonicalAddr(url[g]) \in Addr
  BY <1>2, <1>3 DEF CanonicalAddr, Addr
<1> QED
  BY <1>4, <1>5 DEF DialAddr

\* What the two ways out of dialTLS, and a panic, change keeps its type.
FrameType ==
  /\ transportsLck \in Goroutine \cup {NoOne}
  /\ connsLck \in Goroutine \cup {NoOne}
  /\ pc \in [Goroutine -> Label]
  /\ url \in [Goroutine -> URL \cup {NoURL}]
  /\ mode \in [Goroutine -> Mode]
  /\ via \in [Goroutine -> Kind \cup {NoTransport}]
  /\ hand \in [Goroutine -> Conn \cup {NoConn}]
  /\ result \in [Goroutine -> Result]
  /\ UrlKnown
  /\ HandFull

LEMMA ReturnErrorType ==
  ASSUME TypeInv, NEW g \in Goroutine, NEW e \in {"error", "badPin", "negotiated"},
         pc[g] \in InRequest, ReturnError(g, e)
  PROVE  FrameType'
<1> USE DEF TypeInv, TypeOK, UrlKnown, HandFull, FrameType, Label, Mode, Result,
            InRequest, Goto, NoConn
<1>1. CASE mode[g] = "probe" /\ e = "badPin"
  BY <1>1 DEF ReturnError
<1>2. CASE ~(mode[g] = "probe" /\ e = "badPin")
  <2>1. /\ transportsLck' \in Goroutine \cup {NoOne}
        /\ connsLck' = NoOne
        /\ Finish(g, e)
    BY <1>2 DEF ReturnError
  <2> QED
    BY <2>1 DEF Finish
<1> QED
  BY <1>1, <1>2

LEMMA ReturnConnType ==
  ASSUME TypeInv, NEW g \in Goroutine, NEW c \in Conn, pc[g] \in InRequest,
         ReturnConn(g, c)
  PROVE  FrameType' /\ pool' \in [Addr -> SUBSET Conn]
<1> USE DEF TypeInv, TypeOK, UrlKnown, HandFull, FrameType, Label, Mode, Result,
            InRequest, Goto, NoConn
<1>1. CASE mode[g] = "probe"
  BY <1>1 DEF ReturnConn, Panic
<1>2. CASE mode[g] = "callback"
  <2>1. Key(g) \in Addr
    BY AddrType
  <2> QED
    BY <1>2, <2>1 DEF ReturnConn
<1> QED
  BY <1>1, <1>2 DEF ReturnConn

\* One step of the roundTripper preserves TypeInv.
LEMMA TypeStep ==
  ASSUME TypeInv, [Next]_vars
  PROVE  TypeInv'
<1> USE DEF TypeInv, TypeOK, UrlKnown, HandFull, Label, Mode, Result, InRequest,
            Goto, Finish, locks, caches, conns, locals
<1>1. ASSUME NEW g \in Goroutine, NEW u \in URL, RoundTrip(g, u)
      PROVE  TypeInv'
  BY <1>1 DEF RoundTrip
<1>2. ASSUME NEW g \in Goroutine, LockTransports(g)
      PROVE  TypeInv'
  BY <1>2 DEF LockTransports
<1>3. ASSUME NEW g \in Goroutine, Lookup(g)
      PROVE  TypeInv'
  <2>1. CASE LookupHit(g)  BY <2>1 DEF LookupHit
  <2>2. CASE LookupPlain(g)  BY <2>2 DEF LookupPlain
  <2>3. CASE LookupProbe(g)  BY <2>3 DEF LookupProbe
  <2>4. CASE LookupInvalidScheme(g)  BY <2>4 DEF LookupInvalidScheme, NoConn
  <2> QED  BY <1>3, <2>1, <2>2, <2>3, <2>4 DEF Lookup
<1>4. ASSUME NEW g \in Goroutine, BuildPlain(g)
      PROVE  TypeInv'
  BY <1>4, AddrType DEF BuildPlain, Kind
<1>5. ASSUME NEW g \in Goroutine, Pick(g)
      PROVE  TypeInv'
  BY <1>5, AddrType DEF Pick
<1>6. ASSUME NEW g \in Goroutine, Transport(g)
      PROVE  TypeInv'
  <2> USE AddrType DEF Kind, NoConn
  <2>1. CASE UsePooled(g)  BY <2>1 DEF UsePooled
  <2>2. CASE CallDialTLS(g)  BY <2>2 DEF CallDialTLS
  <2>3. CASE Quic(g)  BY <2>3 DEF Quic
  <2>4. CASE PlainExchange(g)  BY <2>4 DEF PlainExchange
  <2>5. CASE SchemeRefused(g)  BY <2>5 DEF SchemeRefused
  <2>6. CASE Expire(g)  BY <2>6 DEF Expire
  <2> QED  BY <1>6, <2>1, <2>2, <2>3, <2>4, <2>5, <2>6 DEF Transport
<1>7. ASSUME NEW g \in Goroutine, LockConns(g)
      PROVE  TypeInv'
  BY <1>7 DEF LockConns
<1>8. ASSUME NEW g \in Goroutine, DialStep(g)
      PROVE  TypeInv'
  <2> USE AddrType, RoundTripperAssumption DEF NoConn, RoundTripperAssumption
  <2>1. CASE TakeParked(g)
    <3>1. cachedConnections[DialAddr(g)] \in Conn
      BY <2>1 DEF TakeParked
    <3> QED
      BY <2>1, <3>1, ReturnConnType DEF TakeParked, FrameType
  <2>2. CASE Dial(g)  BY <2>2 DEF Dial, Conn
  <2>3. CASE DialFails(g)
    BY <2>3, ReturnErrorType DEF DialFails, FrameType
  <2>4. CASE DialPanics(g)  BY <2>4 DEF DialPanics, Panic
  <2> QED  BY <1>8, <2>1, <2>2, <2>3, <2>4 DEF DialStep
<1>9. ASSUME NEW g \in Goroutine, HandshakeStep(g)
      PROVE  TypeInv'
  <2> USE AddrType, RoundTripperAssumption DEF NoConn, RoundTripperAssumption
  <2>1. CASE Handshake(g)  BY <2>1 DEF Handshake, Negotiable
  <2>2. CASE HandshakeFails(g)
    BY <2>2, ReturnErrorType DEF HandshakeFails, FrameType
  <2> QED  BY <1>9, <2>1, <2>2 DEF HandshakeStep
<1>10. ASSUME NEW g \in Goroutine, CheckPin(g)
      PROVE  TypeInv'
  <2>1. CASE PinMatches(g)  BY <2>1 DEF PinMatches
  <2>2. CASE PinMismatch(g)
    BY <2>2, ReturnErrorType DEF PinMismatch, FrameType
  <2> QED  BY <1>10, <2>1, <2>2 DEF CheckPin
<1>11. ASSUME NEW g \in Goroutine, Store(g)
      PROVE  TypeInv'
  <2> USE AddrType DEF NoConn
  <2>1. CASE ReturnDialed(g)
    BY <2>1, ReturnConnType DEF ReturnDialed, FrameType
  <2>2. CASE Install(g)
    <3>1. /\ cachedTransports' \in [Addr -> Kind \cup {NoTransport}]
          /\ cachedConnections' \in [Addr -> Conn \cup {NoConn}]
          /\ UNCHANGED <<conns, handlerRan>>
      <4>1. hand[g] \in Conn /\ proto[hand[g]] \in Kind \cup {NoTransport}
        BY <2>2 DEF Install, NoTransport
      <4> QED
        BY <2>2, <4>1 DEF Install, Stash
    <3>2. CASE mode[g] = "probe"
      BY <2>2, <3>1, <3>2 DEF Install, ReturnNegotiated
    <3>3. CASE mode[g] = "callback"
      <4>1. FrameType'
        BY <2>2, <3>3, ReturnErrorType DEF Install, ReturnNegotiated
      <4> QED
        BY <3>1, <4>1 DEF FrameType
    <3> QED
      BY <2>2, <3>2, <3>3 DEF Install, ReturnNegotiated
  <2> QED  BY <1>11, <2>1, <2>2 DEF Store
<1>12. ASSUME NEW g \in Goroutine, BadPinHandler(g)
      PROVE  TypeInv'
  BY <1>12 DEF BadPinHandler, NoConn
<1>13. ASSUME NEW g \in Goroutine, Exchange(g)
      PROVE  TypeInv'
  BY <1>13, AddrType DEF Exchange, NoConn
<1>14. ASSUME NEW g \in Goroutine,
              CloseIdleConnections(g) \/ CloseTransports(g) \/ Recover(g)
      PROVE  TypeInv'
  BY <1>14 DEF CloseIdleConnections, CloseTransports, Recover, NoConn
<1>15. ASSUME NEW a \in Addr, NEW c \in Conn, IdleClose(a, c)
      PROVE  TypeInv'
  BY <1>15 DEF IdleClose
<1>16. ASSUME NEW a \in Addr, ParkedDies(a)
      PROVE  TypeInv'
  BY <1>16 DEF ParkedDies
<1>17. CASE UNCHANGED vars
  BY <1>17 DEF vars
<1> QED
  BY <1>1, <1>2, <1>3, <1>4, <1>5, <1>6, <1>7, <1>8, <1>9, <1>10, <1>11,
     <1>12, <1>13, <1>14, <1>15, <1>16, <1>17 DEF Next

\* TypeInv is an invariant.
LEMMA TypeInvariant == Spec => []TypeInv
<1>1. Init => TypeInv
  BY RoundTripperAssumption
  DEF Init, TypeInv, TypeOK, UrlKnown, HandFull, InRequest, Label, Mode, Result,
      RoundTripperAssumption, NoConn, Conn
<1> QED
  BY <1>1, TypeStep, PTL DEF Spec

\* Type correctness: every variable of the roundTripper keeps its type.
THEOREM TypeCorrect == Spec => []TypeOK
<1>1. TypeInv => TypeOK
  BY DEF TypeInv
<1> QED
  BY <1>1, TypeInvariant, PTL

-----------------------------------------------------------------------------
(***************************************************************************)
(* The two mutexes: which labels hold them, and only those.  A goroutine    *)
(* whose panic was recovered still owns cachedTransportsLck, and can then   *)
(* get no further than the next Lock.                                       *)
(***************************************************************************)
DialLabel == {"lockConns", "dialTLS", "handshake", "pin", "install"}

HoldsTransports(g) ==
  \/ pc[g] \in {"lookup", "buildPlain", "pick", "closing"}
  \/ mode[g] = "probe" /\ pc[g] \in DialLabel

HoldsConns(g) == pc[g] \in DialLabel \ {"lockConns"}

Stranded(g) == pc[g] \in {"idle", "lockTransports", "lockClose", "panicked"}

LockInv ==
  /\ \A g \in Goroutine : HoldsTransports(g) => transportsLck = g
  /\ \A g \in Goroutine :
       transportsLck = g => HoldsTransports(g) \/ Stranded(g)
  /\ \A g \in Goroutine : HoldsConns(g) <=> connsLck = g
  /\ \A g \in Goroutine : pc[g] \in DialLabel => mode[g] # "none"
  /\ \A g \in Goroutine :
       mode[g] = "probe" => pc[g] \in DialLabel \cup {"badPinHandler", "panicked"}

(***************************************************************************)
(* The caches, where a transport dials the name its URL gives: a probe runs *)
(* only for an address without a transport, everything else for one that    *)
(* has it, and a parked connection has its transport beside it.             *)
(***************************************************************************)
CacheInv ==
  /\ \A a \in Addr :
       cachedConnections[a] # NoConn => cachedTransports[a] # NoTransport
  /\ \A g \in Goroutine : mode[g] = "probe" /\ pc[g] \in DialLabel =>
       cachedTransports[Key(g)] = NoTransport
  /\ \A g \in Goroutine : mode[g] = "callback" /\ pc[g] \in DialLabel =>
       cachedTransports[Key(g)] # NoTransport
  /\ \A g \in Goroutine : pc[g] \in DialLabel => url[g].scheme = "https"
  /\ \A g \in Goroutine : pc[g] \in {"pick", "roundTrip"} =>
       cachedTransports[Key(g)] # NoTransport
  /\ \A g \in Goroutine : pc[g] = "buildPlain" =>
       cachedTransports[Key(g)] = NoTransport
  /\ \A g \in Goroutine : pc[g] \in {"pin", "install"} => proto[hand[g]] # NoTransport
  /\ ProbeGetsNoConn
  /\ NegotiatedStaysInside

\* An error of dialTLS, returned from wherever, preserves LockInv.
LEMMA ReturnErrorLocks ==
  ASSUME TypeInv, LockInv, NEW g \in Goroutine, NEW e, HoldsConns(g),
         ReturnError(g, e)
  PROVE  LockInv'
<1>0. /\ NoOne \notin Goroutine
      /\ pc \in [Goroutine -> Label] /\ mode \in [Goroutine -> Mode]
  BY RoundTripperAssumption DEF RoundTripperAssumption, TypeInv, TypeOK
<1> USE <1>0 DEF LockInv, HoldsTransports, HoldsConns, Stranded, DialLabel, Goto, Finish
<1>1. CASE mode[g] = "probe" /\ e = "badPin"
  BY <1>1 DEF ReturnError
<1>2. CASE mode[g] = "probe" /\ e # "badPin"
  BY <1>2 DEF ReturnError
<1>3. CASE mode[g] # "probe"
  BY <1>3 DEF ReturnError
<1> QED
  BY <1>1, <1>2, <1>3

\* One step preserves LockInv.
LEMMA LockStep ==
  ASSUME TypeInv, LockInv, [Next]_vars
  PROVE  LockInv'
<1>0. /\ NoOne \notin Goroutine
      /\ pc \in [Goroutine -> Label] /\ mode \in [Goroutine -> Mode]
  BY RoundTripperAssumption DEF RoundTripperAssumption, TypeInv, TypeOK
<1> USE <1>0 DEF LockInv, HoldsTransports, HoldsConns, Stranded, DialLabel, Goto,
                 Finish, locks, locals
<1>1. ASSUME NEW g \in Goroutine, NEW u \in URL, RoundTrip(g, u)
      PROVE  LockInv'
  BY <1>1 DEF RoundTrip
<1>2. ASSUME NEW g \in Goroutine, LockTransports(g)
      PROVE  LockInv'
  BY <1>2 DEF LockTransports
<1>3. ASSUME NEW g \in Goroutine, Lookup(g)
      PROVE  LockInv'
  <2>1. CASE LookupHit(g)  BY <2>1 DEF LookupHit
  <2>2. CASE LookupPlain(g)  BY <2>2 DEF LookupPlain
  <2>3. CASE LookupProbe(g)  BY <2>3 DEF LookupProbe
  <2>4. CASE LookupInvalidScheme(g)  BY <2>4 DEF LookupInvalidScheme
  <2> QED  BY <1>3, <2>1, <2>2, <2>3, <2>4 DEF Lookup
<1>4. ASSUME NEW g \in Goroutine, BuildPlain(g) \/ Pick(g)
      PROVE  LockInv'
  BY <1>4 DEF BuildPlain, Pick
<1>5. ASSUME NEW g \in Goroutine, Transport(g)
      PROVE  LockInv'
  <2>1. CASE UsePooled(g)  BY <2>1 DEF UsePooled
  <2>2. CASE CallDialTLS(g)  BY <2>2 DEF CallDialTLS
  <2>3. CASE Quic(g)  BY <2>3 DEF Quic
  <2>4. CASE PlainExchange(g)  BY <2>4 DEF PlainExchange
  <2>5. CASE SchemeRefused(g)  BY <2>5 DEF SchemeRefused
  <2>6. CASE Expire(g)  BY <2>6 DEF Expire
  <2> QED  BY <1>5, <2>1, <2>2, <2>3, <2>4, <2>5, <2>6 DEF Transport
<1>6. ASSUME NEW g \in Goroutine, LockConns(g)
      PROVE  LockInv'
  BY <1>6 DEF LockConns
<1>7. ASSUME NEW g \in Goroutine, DialStep(g)
      PROVE  LockInv'
  <2>1. CASE TakeParked(g)
    <3>1. CASE mode[g] = "probe"  BY <2>1, <3>1 DEF TakeParked, ReturnConn, Panic
    <3>2. CASE mode[g] # "probe"  BY <2>1, <3>2 DEF TakeParked, ReturnConn
    <3> QED  BY <3>1, <3>2
  <2>2. CASE Dial(g)  BY <2>2 DEF Dial
  <2>3. CASE DialFails(g)  BY <2>3, ReturnErrorLocks DEF DialFails
  <2>4. CASE DialPanics(g)  BY <2>4 DEF DialPanics, Panic
  <2> QED  BY <1>7, <2>1, <2>2, <2>3, <2>4 DEF DialStep
<1>8. ASSUME NEW g \in Goroutine, HandshakeStep(g)
      PROVE  LockInv'
  <2>1. CASE Handshake(g)  BY <2>1 DEF Handshake
  <2>2. CASE HandshakeFails(g)  BY <2>2, ReturnErrorLocks DEF HandshakeFails
  <2> QED  BY <1>8, <2>1, <2>2 DEF HandshakeStep
<1>9. ASSUME NEW g \in Goroutine, CheckPin(g)
      PROVE  LockInv'
  <2>1. CASE PinMatches(g)  BY <2>1 DEF PinMatches
  <2>2. CASE PinMismatch(g)  BY <2>2, ReturnErrorLocks DEF PinMismatch
  <2> QED  BY <1>9, <2>1, <2>2 DEF CheckPin
<1>10. ASSUME NEW g \in Goroutine, Store(g)
      PROVE  LockInv'
  <2>1. CASE ReturnDialed(g)  BY <2>1 DEF ReturnDialed, ReturnConn, Panic
  <2>2. CASE Install(g)  BY <2>2 DEF Install, ReturnNegotiated, ReturnError
  <2> QED  BY <1>10, <2>1, <2>2 DEF Store
<1>11. ASSUME NEW g \in Goroutine, BadPinHandler(g) \/ Exchange(g)
      PROVE  LockInv'
  <2>1. CASE BadPinHandler(g)  BY <2>1 DEF BadPinHandler
  <2>2. CASE Exchange(g)  BY <2>2 DEF Exchange
  <2> QED  BY <1>11, <2>1, <2>2
<1>12. ASSUME NEW g \in Goroutine,
              CloseIdleConnections(g) \/ CloseTransports(g) \/ Recover(g)
      PROVE  LockInv'
  <2>1. CASE CloseIdleConnections(g)  BY <2>1 DEF CloseIdleConnections
  <2>2. CASE CloseTransports(g)  BY <2>2 DEF CloseTransports
  <2>3. CASE Recover(g)  BY <2>3 DEF Recover
  <2> QED  BY <1>12, <2>1, <2>2, <2>3
<1>13. ASSUME NEW a \in Addr, NEW c \in Conn, IdleClose(a, c)
      PROVE  LockInv'
  BY <1>13 DEF IdleClose
<1>14. ASSUME NEW a \in Addr, ParkedDies(a)
      PROVE  LockInv'
  BY <1>14 DEF ParkedDies
<1>15. CASE UNCHANGED vars
  BY <1>15 DEF vars
<1> QED
  BY <1>1, <1>2, <1>3, <1>4, <1>5, <1>6, <1>7, <1>8, <1>9, <1>10, <1>11,
     <1>12, <1>13, <1>14, <1>15 DEF Next

\* LockInv is an invariant.
LEMMA LockInvariant == Spec => []LockInv
<1>1. Init => LockInv
  BY RoundTripperAssumption
  DEF Init, LockInv, HoldsTransports, HoldsConns, Stranded, DialLabel,
      RoundTripperAssumption
<1> QED
  BY <1>1, TypeInvariant, LockStep, PTL DEF Spec

\* The bad pin handler runs with neither mutex held by its goroutine, so it
\* may use the client it belongs to.
THEOREM HandlerRunsUnlocked == Spec => []HandlerUnlocked
<1>1. LockInv => HandlerUnlocked
  BY DEF LockInv, HandlerUnlocked, HoldsTransports, HoldsConns, Stranded, DialLabel
<1> QED
  BY <1>1, LockInvariant, PTL

-----------------------------------------------------------------------------
\* Every transport dials the name its request's URL gives: no host is
\* rewritten by IDNA.
SameNames == \A h \in Host : Ascii[h] = h

\* Under SameNames dialTLS works on the entry RoundTrip looked up.
LEMMA DialAddrIsKey ==
  ASSUME SameNames, TypeInv, NEW g \in Goroutine, pc[g] \in InRequest,
         url[g].scheme = "https"
  PROVE  DialAddr(g) = Key(g)
<1>1. url[g] \in [scheme : Scheme, host : Host, port : Port \cup {NoPort}]
  BY RoundTripperAssumption DEF RoundTripperAssumption, TypeInv, UrlKnown
<1> QED
  BY <1>1 DEF SameNames, DialAddr, Key, GetDialTLSAddr, CanonicalAddr

\* One step preserves CacheInv.
LEMMA CacheStep ==
  ASSUME SameNames, TypeInv, LockInv, CacheInv, [Next]_vars
  PROVE  CacheInv'
<1> USE DEF TypeInv, TypeOK, CacheInv, ProbeGetsNoConn, NegotiatedStaysInside,
            DialLabel, InRequest, Label, Key, Goto, Finish, caches, conns, locals
<1>a. \A g \in Goroutine : pc[g] \in DialLabel => DialAddr(g) = Key(g)
  BY DialAddrIsKey
<1>b. \A g \in Goroutine : pc[g] \in InRequest => Key(g) \in Addr
  BY AddrType
<1>1. ASSUME NEW g \in Goroutine, NEW u \in URL, RoundTrip(g, u)
      PROVE  CacheInv'
  BY <1>1 DEF RoundTrip
<1>2. ASSUME NEW g \in Goroutine, LockTransports(g)
      PROVE  CacheInv'
  BY <1>2 DEF LockTransports
<1>3. ASSUME NEW g \in Goroutine, Lookup(g)
      PROVE  CacheInv'
  <2>1. CASE LookupHit(g)  BY <2>1 DEF LookupHit
  <2>2. CASE LookupPlain(g)  BY <2>2 DEF LookupPlain
  <2>3. CASE LookupProbe(g)  BY <2>3 DEF LookupProbe
  <2>4. CASE LookupInvalidScheme(g)  BY <2>4 DEF LookupInvalidScheme
  <2> QED  BY <1>3, <2>1, <2>2, <2>3, <2>4 DEF Lookup
<1>4. ASSUME NEW g \in Goroutine, BuildPlain(g)
      PROVE  CacheInv'
  BY <1>4, <1>b DEF BuildPlain, LockInv, HoldsTransports, NoTransport
<1>5. ASSUME NEW g \in Goroutine, Pick(g) \/ LockConns(g)
      PROVE  CacheInv'
  BY <1>5 DEF Pick, LockConns
<1>6. ASSUME NEW g \in Goroutine, Transport(g)
      PROVE  CacheInv'
  <2>1. CASE UsePooled(g)  BY <2>1 DEF UsePooled
  <2>2. CASE CallDialTLS(g)  BY <2>2 DEF CallDialTLS
  <2>3. CASE Quic(g) \/ PlainExchange(g)  BY <2>3 DEF Quic, PlainExchange
  <2>4. CASE SchemeRefused(g) \/ Expire(g)  BY <2>4 DEF SchemeRefused, Expire
  <2> QED  BY <1>6, <2>1, <2>2, <2>3, <2>4 DEF Transport
<1>7. ASSUME NEW g \in Goroutine, DialStep(g)
      PROVE  CacheInv'
  <2>1. CASE TakeParked(g)
    <3>1. cachedTransports[Key(g)] # NoTransport /\ Key(g) \in Addr
      BY <2>1, <1>a, <1>b DEF TakeParked
    <3>2. mode[g] # "probe"
      BY <2>1, <3>1 DEF TakeParked
    <3> QED
      BY <2>1, <3>2, <1>a, <1>b DEF TakeParked, ReturnConn
  <2>2. CASE Dial(g)  BY <2>2 DEF Dial
  <2>3. CASE DialFails(g)  BY <2>3 DEF DialFails, ReturnError
  <2>4. CASE DialPanics(g)  BY <2>4 DEF DialPanics, Panic
  <2> QED  BY <1>7, <2>1, <2>2, <2>3, <2>4 DEF DialStep
<1>8. ASSUME NEW g \in Goroutine, HandshakeStep(g)
      PROVE  CacheInv'
  <2>1. CASE Handshake(g)
    <3>1. PICK p \in Kind : proto' = [proto EXCEPT ![hand[g]] = p]
      BY <2>1, <1>b, AddrType, RoundTripperAssumption
      DEF Handshake, Negotiable, RoundTripperAssumption
    <3>2. hand[g] \in Conn /\ p # NoTransport
      BY <2>1 DEF Handshake, HandFull, Kind, NoTransport
    <3> QED
      BY <2>1, <3>1, <3>2 DEF Handshake, HandFull
  <2>2. CASE HandshakeFails(g)  BY <2>2 DEF HandshakeFails, ReturnError
  <2> QED  BY <1>8, <2>1, <2>2 DEF HandshakeStep
<1>9. ASSUME NEW g \in Goroutine, CheckPin(g)
      PROVE  CacheInv'
  <2>1. CASE PinMatches(g)  BY <2>1 DEF PinMatches
  <2>2. CASE PinMismatch(g)  BY <2>2 DEF PinMismatch, ReturnError
  <2> QED  BY <1>9, <2>1, <2>2 DEF CheckPin
<1>10. ASSUME NEW g \in Goroutine, Store(g)
      PROVE  CacheInv'
  <2>1. CASE ReturnDialed(g)
    <3>1. mode[g] # "probe"
      BY <2>1, <1>a DEF ReturnDialed
    <3> QED
      BY <2>1, <3>1 DEF ReturnDialed, ReturnConn
  <2>2. CASE Install(g)
    <3>1. mode[g] = "probe" /\ DialAddr(g) = Key(g) /\ Key(g) \in Addr
      BY <2>2, <1>a, <1>b DEF Install, LockInv, Mode
    <3>2. /\ proto[hand[g]] # NoTransport
          /\ cachedTransports' = [cachedTransports EXCEPT ![Key(g)] = proto[hand[g]]]
          /\ cachedConnections' = [cachedConnections EXCEPT ![Key(g)] = hand[g]]
          /\ UNCHANGED <<proto, url, result>>
          /\ Goto(g, "pick")
          /\ mode' = [mode EXCEPT ![g] = "none"]
          /\ hand' = [hand EXCEPT ![g] = NoConn]
      BY <2>2, <3>1 DEF Install, Stash, ReturnNegotiated
    <3>3. \A h \in Goroutine \ {g} :
            /\ ~(mode[h] = "probe" /\ pc[h] \in DialLabel)
            /\ pc[h] # "buildPlain"
      BY <2>2, <3>1 DEF Install, LockInv, HoldsTransports
    <3> QED
      BY <3>1, <3>2, <3>3, <1>b
  <2> QED  BY <1>10, <2>1, <2>2 DEF Store
<1>11. ASSUME NEW g \in Goroutine, BadPinHandler(g) \/ Exchange(g)
      PROVE  CacheInv'
  <2>1. CASE BadPinHandler(g)  BY <2>1 DEF BadPinHandler
  <2>2. CASE Exchange(g)  BY <2>2 DEF Exchange
  <2> QED  BY <1>11, <2>1, <2>2
<1>12. ASSUME NEW g \in Goroutine,
              CloseIdleConnections(g) \/ CloseTransports(g) \/ Recover(g)
      PROVE  CacheInv'
  <2>1. CASE CloseIdleConnections(g)  BY <2>1 DEF CloseIdleConnections
  <2>2. CASE CloseTransports(g)  BY <2>2 DEF CloseTransports
  <2>3. CASE Recover(g)  BY <2>3 DEF Recover
  <2> QED  BY <1>12, <2>1, <2>2, <2>3
<1>13. ASSUME NEW a \in Addr, NEW c \in Conn, IdleClose(a, c)
      PROVE  CacheInv'
  BY <1>13 DEF IdleClose
<1>14. ASSUME NEW a \in Addr, ParkedDies(a)
      PROVE  CacheInv'
  BY <1>14 DEF ParkedDies
<1>15. CASE UNCHANGED vars
  BY <1>15 DEF vars
<1> QED
  BY <1>1, <1>2, <1>3, <1>4, <1>5, <1>6, <1>7, <1>8, <1>9, <1>10, <1>11,
     <1>12, <1>13, <1>14, <1>15 DEF Next

LEMMA CacheInvariant ==
  ASSUME SameNames
  PROVE  Spec => []CacheInv
<1>1. Init => CacheInv
  BY DEF Init, CacheInv, DialLabel, NoConn, ProbeGetsNoConn, NegotiatedStaysInside
<1>2. TypeInv /\ LockInv /\ CacheInv /\ [Next]_vars => CacheInv'
  BY CacheStep, SameNames
<1> QED
  BY <1>1, <1>2, TypeInvariant, LockInvariant, PTL DEF Spec

\* Where hosts keep their names, the probe never gets a connection from dialTLS,
\* so getTransport never panics for one, and no request ends with
\* errProtocolNegotiated.
THEOREM ProbeProtocol ==
  ASSUME SameNames
  PROVE  Spec => []ProbeAgreement
<1>1. CacheInv => ProbeAgreement
  BY DEF CacheInv, ProbeAgreement
<1> QED
  BY <1>1, CacheInvariant, SameNames, PTL

\* A cached transport is still there after the step.
TransportsKept == \A a \in Addr :
  cachedTransports[a] # NoTransport => cachedTransports'[a] = cachedTransports[a]

\* A step replaces no transport: BuildPlain writes only where CacheInv says there
\* is none, Install only where its guard does.
LEMMA TransportsStep ==
  ASSUME TypeInv, CacheInv, [Next]_vars
  PROVE  TransportsKept
<1> USE DEF TransportsKept, TypeInv, TypeOK
<1>1. ASSUME NEW g \in Goroutine, BuildPlain(g)
      PROVE  TransportsKept
  BY <1>1 DEF BuildPlain, CacheInv
<1>2. ASSUME NEW g \in Goroutine, Install(g)
      PROVE  TransportsKept
  BY <1>2 DEF Install, Stash
<1>3. ASSUME NEW g \in Goroutine,
             ~BuildPlain(g) /\ ~Install(g),
             \/ \E u \in URL : RoundTrip(g, u)
             \/ LockTransports(g) \/ Lookup(g) \/ Pick(g) \/ Transport(g)
             \/ LockConns(g) \/ DialStep(g) \/ HandshakeStep(g) \/ CheckPin(g)
             \/ Store(g) \/ BadPinHandler(g) \/ Exchange(g)
             \/ CloseIdleConnections(g) \/ CloseTransports(g) \/ Recover(g)
      PROVE  UNCHANGED cachedTransports
  BY <1>3 DEF RoundTrip, LockTransports, Lookup, LookupHit, LookupPlain,
    LookupProbe, LookupInvalidScheme, Pick, Transport, UsePooled, CallDialTLS,
    Quic, PlainExchange, SchemeRefused, Expire, LockConns, DialStep, TakeParked,
    Dial, DialFails, DialPanics, HandshakeStep, Handshake, HandshakeFails,
    CheckPin, PinMatches, PinMismatch, Store, ReturnDialed, BadPinHandler,
    Exchange, CloseIdleConnections, CloseTransports, Recover, caches
<1>4. ASSUME NEW a \in Addr, ParkedDies(a) \/ \E c \in Conn : IdleClose(a, c)
      PROVE  UNCHANGED cachedTransports
  BY <1>4 DEF ParkedDies, IdleClose, caches
<1>5. CASE UNCHANGED vars
  BY <1>5 DEF vars, caches
<1> QED
  BY <1>1, <1>2, <1>3, <1>4, <1>5 DEF Next

\* A transport, once cached, is never replaced.
THEOREM TransportsStay ==
  ASSUME SameNames
  PROVE  Spec => TransportsWriteOnce
<1>1. TypeInv /\ CacheInv /\ [Next]_vars => [TransportsKept]_vars
  BY TransportsStep
<1> QED
  BY <1>1, TypeInvariant, CacheInvariant, SameNames, PTL
  DEF Spec, TransportsWriteOnce, TransportsKept

\* Where every URL is an https one, the two mutexes together guard the map
\* cachedTransports: whoever writes it is a probe and holds both.
THEOREM HttpsRaceFree ==
  ASSUME SameNames, \A u \in URL : u.scheme = "https"
  PROVE  Spec => []RaceFree
<1> DEFINE NoPlain == \A g \in Goroutine : pc[g] # "buildPlain"
<1>1. Init => NoPlain
  BY DEF Init
<1>2. ASSUME TypeInv, NoPlain, [Next]_vars
      PROVE  NoPlain'
  <2> USE <1>2 DEF TypeInv, TypeOK, Goto, Finish, Panic, ReturnError, ReturnConn,
                   ReturnNegotiated
  <2>1. ASSUME NEW g \in Goroutine, Lookup(g)
        PROVE  NoPlain'
    BY <2>1 DEF Lookup, LookupHit, LookupPlain, LookupProbe, LookupInvalidScheme,
                UrlKnown, InRequest, Label
  <2>2. ASSUME NEW g \in Goroutine,
               \/ \E u \in URL : RoundTrip(g, u)
               \/ LockTransports(g) \/ Pick(g) \/ Transport(g) \/ LockConns(g)
        PROVE  NoPlain'
    BY <2>2 DEF RoundTrip, LockTransports, Pick, Transport, UsePooled, CallDialTLS,
      Quic, PlainExchange, SchemeRefused, Expire, LockConns
  <2>3. ASSUME NEW g \in Goroutine, DialStep(g) \/ HandshakeStep(g)
        PROVE  NoPlain'
    BY <2>3 DEF DialStep, TakeParked, Dial, DialFails, DialPanics, HandshakeStep,
      Handshake, HandshakeFails, locals
  <2>4. ASSUME NEW g \in Goroutine, CheckPin(g) \/ Store(g)
        PROVE  NoPlain'
    BY <2>4 DEF CheckPin, PinMatches, PinMismatch, Store, ReturnDialed, Install
  <2>5. ASSUME NEW g \in Goroutine,
               \/ BuildPlain(g) \/ BadPinHandler(g) \/ Exchange(g)
               \/ CloseIdleConnections(g) \/ CloseTransports(g) \/ Recover(g)
        PROVE  NoPlain'
    BY <2>5 DEF BuildPlain, BadPinHandler, Exchange, CloseIdleConnections,
      CloseTransports, Recover
  <2>6. ASSUME NEW a \in Addr, ParkedDies(a) \/ \E c \in Conn : IdleClose(a, c)
        PROVE  NoPlain'
    BY <2>6 DEF ParkedDies, IdleClose, locals
  <2>7. CASE UNCHANGED vars
    BY <2>7 DEF vars, locals
  <2> QED
    BY <2>1, <2>2, <2>3, <2>4, <2>5, <2>6, <2>7 DEF Next
<1>3. ASSUME TypeInv, LockInv, CacheInv, NoPlain
      PROVE  RaceFree
  <2> SUFFICES ASSUME NEW g \in Goroutine, NEW h \in Goroutine,
                      Writes(g), Accesses(h)
               PROVE  g = h
    BY DEF RaceFree
  <2>1. pc[g] = "install" /\ cachedTransports[DialAddr(g)] = NoTransport
    BY <1>3 DEF Writes
  <2>2. DialAddr(g) = Key(g)
    BY <1>3, <2>1, DialAddrIsKey DEF InRequest, Label, CacheInv, DialLabel
  <2>3. mode[g] = "probe"
    BY <1>3, <2>1, <2>2 DEF CacheInv, LockInv, DialLabel, TypeInv, TypeOK, Mode
  <2>4. transportsLck = g /\ connsLck = g
    BY <1>3, <2>1, <2>3 DEF LockInv, HoldsTransports, HoldsConns, DialLabel
  <2>5. transportsLck = h \/ connsLck = h
    BY <1>3 DEF LockInv, HoldsTransports, HoldsConns, DialLabel, Accesses
  <2> QED
    BY <2>4, <2>5
<1> QED
  BY <1>1, <1>2, <1>3, TypeInvariant, LockInvariant, CacheInvariant, SameNames, PTL
  DEF Spec

=============================================================================
