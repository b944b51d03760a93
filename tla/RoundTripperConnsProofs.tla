----------------------- MODULE RoundTripperConnsProofs -----------------------
(***************************************************************************)
(* Who owns a connection of the roundTripper, and what is spoken on it, for *)
(* every value of the constants.  A connection goes from the hand of its    *)
(* dialer to a parking place or to an exchange, from there to a pool and    *)
(* back; the mutexes and the caches of RoundTripperProofs say when it may.  *)
(***************************************************************************)
EXTENDS RoundTripperProofs

Dialing == {"handshake", "pin", "install"}

Carrying == Dialing \cup {"exchange"}

-----------------------------------------------------------------------------
(***************************************************************************)
(* A request keeps the transport it picked, which stays the one cached      *)
(* under its key, and never probes again.  Its exchange is an https one.    *)
(***************************************************************************)
ViaInv ==
  /\ \A g \in Goroutine : via[g] # NoTransport =>
       /\ pc[g] \in {"roundTrip", "exchange"} \cup DialLabel
       /\ mode[g] # "probe"
       /\ via[g] = cachedTransports[Key(g)]
  /\ \A g \in Goroutine : pc[g] = "exchange" =>
       via[g] # NoTransport /\ url[g].scheme = "https"
  /\ \A g \in Goroutine : pc[g] \in DialLabel /\ mode[g] = "callback" =>
       via[g] # NoTransport

LEMMA ViaStep ==
  ASSUME TypeInv, LockInv, CacheInv, ViaInv, [Next]_vars
  PROVE  ViaInv'
<1> USE DEF TypeInv, TypeOK, ViaInv, DialLabel, InRequest, Label, Mode, Goto, Finish,
            caches, conns, locals
<1>a. \A a \in Addr :
        cachedTransports[a] # NoTransport => cachedTransports'[a] = cachedTransports[a]
  BY TransportsStep DEF TransportsKept
<1>b. \A g \in Goroutine : pc[g] \in InRequest => Key(g) \in Addr
  BY AddrType
<1>1. ASSUME NEW g \in Goroutine, NEW u \in URL, RoundTrip(g, u)
      PROVE  ViaInv'
  BY <1>1, <1>a, <1>b DEF RoundTrip, Key
<1>2. ASSUME NEW g \in Goroutine, LockTransports(g) \/ Lookup(g) \/ BuildPlain(g)
      PROVE  ViaInv'
  BY <1>2, <1>a, <1>b
  DEF LockTransports, Lookup, LookupHit, LookupPlain, LookupProbe, LookupInvalidScheme,
      BuildPlain, Key
<1>3. ASSUME NEW g \in Goroutine, Pick(g)
      PROVE  ViaInv'
  BY <1>3, <1>a, <1>b DEF Pick, Key, LockInv
<1>4. ASSUME NEW g \in Goroutine, Transport(g)
      PROVE  ViaInv'
  BY <1>4, <1>a, <1>b
  DEF Transport, UsePooled, CallDialTLS, Quic, PlainExchange, SchemeRefused, Expire, Key, Kind,
      NoTransport
<1>5. ASSUME NEW g \in Goroutine, LockConns(g) \/ DialStep(g)
      PROVE  ViaInv'
  <2>1. CASE LockConns(g)
    BY <2>1, <1>a, <1>b DEF LockConns, Key
  <2>2. CASE TakeParked(g)
    BY <2>2, <1>a, <1>b DEF TakeParked, ReturnConn, Panic, Key, CacheInv
  <2>3. CASE Dial(g)
    BY <2>3, <1>a, <1>b DEF Dial, Key
  <2>4. CASE DialFails(g)
    BY <2>4, <1>a, <1>b DEF DialFails, ReturnError, Key
  <2>5. CASE DialPanics(g)
    BY <2>5, <1>a, <1>b DEF DialPanics, Panic, Key
  <2> QED
    BY <1>5, <2>1, <2>2, <2>3, <2>4, <2>5 DEF DialStep
<1>6. ASSUME NEW g \in Goroutine, HandshakeStep(g) \/ CheckPin(g)
      PROVE  ViaInv'
  BY <1>6, <1>a, <1>b
  DEF HandshakeStep, Handshake, HandshakeFails, CheckPin, PinMatches, PinMismatch,
      ReturnError, Key
<1>7. ASSUME NEW g \in Goroutine, Store(g)
      PROVE  ViaInv'
  BY <1>7, <1>a, <1>b
  DEF Store, ReturnDialed, Install, ReturnConn, ReturnNegotiated, ReturnError, Panic, Key, CacheInv
<1>8. ASSUME NEW g \in Goroutine, BadPinHandler(g) \/ Exchange(g) \/ Recover(g)
      PROVE  ViaInv'
  BY <1>8, <1>a, <1>b DEF BadPinHandler, Exchange, Recover, Key
<1>9. ASSUME NEW g \in Goroutine, CloseIdleConnections(g) \/ CloseTransports(g)
      PROVE  ViaInv'
  BY <1>9, <1>a, <1>b DEF CloseIdleConnections, CloseTransports, Key
<1>10. ASSUME NEW a \in Addr, ParkedDies(a) \/ \E c \in Conn : IdleClose(a, c)
       PROVE  ViaInv'
  BY <1>10, <1>a, <1>b DEF ParkedDies, IdleClose, Key
<1>11. CASE UNCHANGED vars
  BY <1>11 DEF vars, Key
<1> QED
  BY <1>1, <1>2, <1>3, <1>4, <1>5, <1>6, <1>7, <1>8, <1>9, <1>10, <1>11 DEF Next

LEMMA ViaInvariant ==
  ASSUME SameNames
  PROVE  Spec => []ViaInv
<1>1. Init => ViaInv
  BY DEF Init, ViaInv, DialLabel
<1>2. TypeInv /\ LockInv /\ CacheInv /\ ViaInv /\ [Next]_vars => ViaInv'
  BY ViaStep
<1> QED
  BY <1>1, <1>2, TypeInvariant, LockInvariant, CacheInvariant, SameNames, PTL DEF Spec

-----------------------------------------------------------------------------
(***************************************************************************)
(* Ownership.  ExclusiveConn is not inductive: a connection about to be     *)
(* parked or handed out must be nobody's yet (OwnDialed), and the next one  *)
(* dialled new (Numbered).                                                  *)
(***************************************************************************)
OwnDialed ==
  /\ \A g \in Goroutine : pc[g] \notin Carrying => hand[g] = NoConn
  /\ \A g \in Goroutine : pc[g] \in Dialing =>
       /\ \A a \in Addr : hand[g] \notin pool[a]
       /\ \A h \in Goroutine \ {g} : hand[h] # hand[g]

Numbered ==
  /\ \A c \in open \cup pinFailed : c <= dialed
  /\ \A g \in Goroutine : hand[g] <= dialed
  /\ \A a \in Addr : cachedConnections[a] <= dialed
  /\ \A a \in Addr : \A c \in pool[a] : c <= dialed

OwnerInv ==
  OwnDialed /\ Numbered /\ ExclusiveConn /\ ConnAccounted /\ PinFailedUnused

\* A step of a goroutine that carries no connection, and takes none, leaves
\* the owners of all the others.
LEMMA EmptyHanded ==
  ASSUME TypeInv, OwnerInv, TypeInv', NEW g \in Goroutine,
         hand[g] = NoConn, pc'[g] \notin Carrying,
         UNCHANGED <<conns, cachedConnections, hand>>,
         \A h \in Goroutine \ {g} :
           pc'[h] = pc[h] /\ url'[h] = url[h] /\ via'[h] = via[h]
  PROVE  OwnerInv'
<1> USE DEF TypeInv, TypeOK, OwnerInv, conns, Key, Conn, NoConn
<1>1. OwnDialed'
  <2>1. \A h \in Goroutine : pc'[h] \in Carrying => h # g /\ pc'[h] = pc[h]
    OBVIOUS
  <2> QED
    BY <2>1 DEF OwnDialed, Carrying, Dialing
<1>2. Numbered'
  BY DEF Numbered
<1>3. ExclusiveConn'
  BY DEF ExclusiveConn
<1>4. ConnAccounted'
  BY DEF ConnAccounted, InUse
<1>5. PinFailedUnused'
  BY DEF PinFailedUnused
<1> QED
  BY <1>1, <1>2, <1>3, <1>4, <1>5

\* Each step keeps the owners.
LEMMA OwnerStep ==
  ASSUME TypeInv, LockInv, CacheInv, ViaInv, OwnerInv, SameNames, [Next]_vars
  PROVE  OwnerInv'
<1> USE DEF TypeInv, TypeOK, OwnerInv, Conn, NoConn, Goto, Finish, caches, conns, locals
<1>a. TypeInv'
  BY TypeStep
<1>b. \A g \in Goroutine : pc[g] \in InRequest => Key(g) \in Addr
  BY AddrType
<1>c. \A g \in Goroutine : pc[g] \in DialLabel => DialAddr(g) = Key(g) /\ Key(g) \in Addr
  BY <1>b, DialAddrIsKey DEF CacheInv, DialLabel, InRequest, Label
<1>e. /\ MaxConn \in Nat
      /\ \A g \in Goroutine : pc[g] \in Carrying => hand[g] \in Conn
  BY RoundTripperAssumption DEF RoundTripperAssumption, HandFull, Carrying, Dialing
<1>d. ASSUME NEW g \in Goroutine, pc[g] \notin Carrying, pc'[g] \notin Carrying,
             UNCHANGED <<conns, cachedConnections>>,
             hand' \in {hand, [hand EXCEPT ![g] = NoConn]},
             \A h \in Goroutine \ {g} :
               pc'[h] = pc[h] /\ url'[h] = url[h] /\ via'[h] = via[h]
      PROVE  OwnerInv'
  <2>1. hand[g] = NoConn
    BY <1>d DEF OwnDialed
  <2>2. hand' = hand
    BY <1>d, <2>1
  <2> QED
    BY <1>a, <1>d, <2>1, <2>2, EmptyHanded
<1>1. ASSUME NEW g \in Goroutine, NEW u \in URL, RoundTrip(g, u)
      PROVE  OwnerInv'
  BY <1>1, <1>d DEF RoundTrip, Carrying, Dialing
<1>2. ASSUME NEW g \in Goroutine, LockTransports(g) \/ Lookup(g) \/ BuildPlain(g) \/ Pick(g)
      PROVE  OwnerInv'
  BY <1>2, <1>d
  DEF LockTransports, Lookup, LookupHit, LookupPlain, LookupProbe, LookupInvalidScheme,
      BuildPlain, Pick, Carrying, Dialing
<1>3. ASSUME NEW g \in Goroutine, UsePooled(g)
      PROVE  OwnerInv'
  <2>1. PICK c \in pool[Key(g)] :
          /\ hand' = [hand EXCEPT ![g] = c]
          /\ pool' = IF via[g] = "h1" THEN [pool EXCEPT ![Key(g)] = @ \ {c}] ELSE pool
    BY <1>3 DEF UsePooled
  <2>2. /\ pc[g] = "roundTrip" /\ pc' = [pc EXCEPT ![g] = "exchange"]
        /\ via[g] \in {"h1", "h2"}
        /\ UNCHANGED <<cachedConnections, open, dialed, pinFailed, url, via>>
        /\ Key(g) \in Addr /\ c \in Conn
    BY <1>3, <1>b DEF UsePooled, InRequest, Label
  <2>3. \A h \in Goroutine \ {g} : hand[h] = c =>
          /\ pc[h] \notin Dialing
          /\ via[g] = "h2" /\ via[h] = "h2" /\ Key(g) = Key(h)
    BY <2>1, <2>2 DEF OwnDialed, ExclusiveConn, ViaInv, NoTransport
  <2>4. OwnDialed'
    BY <2>1, <2>2, <2>3, <1>e DEF OwnDialed, Carrying, Dialing
  <2>5. Numbered'
    BY <2>1, <2>2, <1>e DEF Numbered
  <2>6. ExclusiveConn'
    BY <2>1, <2>2, <2>3 DEF ExclusiveConn, Key
  <2>7. ConnAccounted'
    <3>1. hand[g] = NoConn /\ hand'[g] = c /\ \A h \in Goroutine \ {g} : hand'[h] = hand[h]
      BY <2>1, <2>2 DEF OwnDialed, Carrying, Dialing
    <3>2. ASSUME NEW d \in open \ pinFailed
          PROVE  (\E a \in Addr : d = cachedConnections[a] \/ d \in pool'[a]) \/ d \in InUse'
      <4>1. CASE \E a \in Addr : d = cachedConnections[a]
        BY <4>1
      <4>2. CASE \E a \in Addr : d \in pool[a]
        BY <2>1, <2>2, <3>1, <4>2 DEF InUse
      <4>3. CASE \E h \in Goroutine : hand[h] = d
        BY <3>1, <4>3, <1>e DEF InUse
      <4> QED
        BY <4>1, <4>2, <4>3 DEF ConnAccounted, InUse
    <3> QED
      BY <2>2, <3>2 DEF ConnAccounted
  <2>8. PinFailedUnused'
    BY <2>1, <2>2 DEF PinFailedUnused
  <2> QED
    BY <2>4, <2>5, <2>6, <2>7, <2>8
<1>4. ASSUME NEW g \in Goroutine,
             \/ CallDialTLS(g) \/ Quic(g) \/ PlainExchange(g) \/ SchemeRefused(g)
             \/ Expire(g) \/ LockConns(g)
      PROVE  OwnerInv'
  BY <1>4, <1>d
  DEF CallDialTLS, Quic, PlainExchange, SchemeRefused, Expire, LockConns, Carrying, Dialing
<1>5. ASSUME NEW g \in Goroutine, TakeParked(g)
      PROVE  OwnerInv'
  <2> DEFINE c == cachedConnections[Key(g)]
  <2>1. /\ pc[g] = "dialTLS" /\ Key(g) \in Addr /\ c # NoConn /\ c \in Conn
        /\ cachedConnections' = [cachedConnections EXCEPT ![Key(g)] = NoConn]
    BY <1>5, <1>c DEF TakeParked, DialLabel
  <2>2. mode[g] = "callback" /\ via[g] # NoTransport
    BY <2>1 DEF CacheInv, LockInv, ViaInv, DialLabel, Mode
  <2>3. /\ hand' = [hand EXCEPT ![g] = c] /\ pc' = [pc EXCEPT ![g] = "exchange"]
        /\ pool' = IF via[g] = "h2" THEN [pool EXCEPT ![Key(g)] = @ \cup {c}] ELSE pool
        /\ UNCHANGED <<open, dialed, pinFailed, url, via>>
    BY <1>5, <1>c, <2>1, <2>2 DEF TakeParked, ReturnConn, DialLabel
  <2>4. \A h \in Goroutine : hand[h] # c
    BY <2>1 DEF ExclusiveConn
  <2> HIDE DEF c
  <2>5. OwnDialed'
    BY <2>1, <2>3, <2>4, <1>e DEF OwnDialed, Carrying, Dialing
  <2>6. Numbered'
    BY <2>1, <2>3, <1>e DEF Numbered, c
  <2>7. ExclusiveConn'
    BY <2>1, <2>3, <2>4 DEF ExclusiveConn, Key, c
  <2>8. ConnAccounted'
    BY <2>1, <2>3, <1>e DEF ConnAccounted, InUse, OwnDialed, Carrying, Dialing, c
  <2>9. PinFailedUnused'
    BY <2>1, <2>3 DEF PinFailedUnused, c
  <2> QED
    BY <2>5, <2>6, <2>7, <2>8, <2>9
<1>6. ASSUME NEW g \in Goroutine, Dial(g)
      PROVE  OwnerInv'
  <2>1. /\ pc[g] = "dialTLS" /\ pc' = [pc EXCEPT ![g] = "handshake"]
        /\ dialed < MaxConn /\ dialed' = dialed + 1 /\ open' = open \cup {dialed + 1}
        /\ hand' = [hand EXCEPT ![g] = dialed + 1]
        /\ UNCHANGED <<cachedConnections, pool, pinFailed, url, via>>
    BY <1>6 DEF Dial
  <2>2. hand[g] = NoConn
    BY <2>1 DEF OwnDialed, Carrying, Dialing
  <2>3. dialed \in Nat /\ dialed + 1 \in Conn
    BY <2>1, <1>e
  <2>4. OwnDialed'
    BY <2>1, <2>3, <1>e DEF OwnDialed, Numbered, Carrying, Dialing
  <2>5. Numbered'
    <3>1. \A c \in open' \cup pinFailed' : c <= dialed'
      BY <2>1, <2>3 DEF Numbered
    <3>2. \A h \in Goroutine : hand'[h] <= dialed'
      BY <2>1, <2>3 DEF Numbered
    <3>3. \A a \in Addr : cachedConnections'[a] <= dialed'
      BY <2>1, <2>3 DEF Numbered
    <3>4. \A a \in Addr : \A c \in pool'[a] : c <= dialed'
      BY <2>1, <2>3 DEF Numbered
    <3> QED
      BY <3>1, <3>2, <3>3, <3>4 DEF Numbered
  <2>6. ExclusiveConn'
    BY <2>1, <2>3 DEF ExclusiveConn, Numbered, Key
  <2>7. ConnAccounted'
    <3> SUFFICES ASSUME NEW c \in open' \ pinFailed'
                 PROVE  \/ \E a \in Addr : c = cachedConnections'[a] \/ c \in pool'[a]
                        \/ \E h \in Goroutine : c = hand'[h]
      BY DEF ConnAccounted, InUse
    <3>1. CASE c = dialed + 1
      BY <2>1, <3>1
    <3>2. CASE c \in open
      BY <2>1, <2>2, <3>2, <1>e DEF ConnAccounted, InUse
    <3> QED
      BY <2>1, <3>1, <3>2
  <2>8. PinFailedUnused'
    BY <2>1, <2>3 DEF PinFailedUnused, Numbered
  <2> QED
    BY <2>4, <2>5, <2>6, <2>7, <2>8
<1>7. ASSUME NEW g \in Goroutine, DialFails(g) \/ DialPanics(g) \/ BadPinHandler(g) \/ Recover(g)
      PROVE  OwnerInv'
  BY <1>7, <1>d
  DEF DialFails, DialPanics, BadPinHandler, Recover, ReturnError, Panic, Carrying, Dialing
<1>8. ASSUME NEW g \in Goroutine, Handshake(g) \/ PinMatches(g)
      PROVE  OwnerInv'
  <2>1. /\ pc[g] \in Dialing /\ \E l \in Dialing : pc' = [pc EXCEPT ![g] = l]
        /\ UNCHANGED <<cachedConnections, pool, open, dialed, pinFailed, url, via, hand>>
    BY <1>8 DEF Handshake, PinMatches, Dialing
  <2>2. OwnDialed'
    BY <2>1, <1>e DEF OwnDialed, Carrying, Dialing
  <2>3. Numbered'
    BY <2>1, <1>e DEF Numbered
  <2>4. ExclusiveConn'
    BY <2>1 DEF ExclusiveConn, Key
  <2>5. ConnAccounted'
    BY <2>1 DEF ConnAccounted, InUse
  <2>6. PinFailedUnused'
    BY <2>1 DEF PinFailedUnused
  <2> QED
    BY <2>2, <2>3, <2>4, <2>5, <2>6
<1>9. ASSUME NEW g \in Goroutine, HandshakeFails(g) \/ PinMismatch(g)
      PROVE  OwnerInv'
  <2>1. /\ pc[g] \in Dialing /\ hand' = [hand EXCEPT ![g] = NoConn]
        /\ \E l \in {"idle", "badPinHandler"} : pc' = [pc EXCEPT ![g] = l]
        /\ open' \subseteq open /\ pinFailed' \subseteq pinFailed \cup {hand[g]}
        /\ open' \ pinFailed' \subseteq (open \ pinFailed) \ {hand[g]}
        /\ UNCHANGED <<cachedConnections, pool, dialed>>
        /\ \A h \in Goroutine \ {g} : url'[h] = url[h] /\ via'[h] = via[h]
    BY <1>9 DEF HandshakeFails, PinMismatch, ReturnError, Dialing
  <2>2. hand[g] \in Conn
    BY <2>1 DEF HandFull, Dialing
  <2>3. OwnDialed'
    BY <2>1, <2>2, <1>e DEF OwnDialed, Carrying, Dialing
  <2>4. Numbered'
    BY <2>1, <2>2, <1>e DEF Numbered
  <2>5. ExclusiveConn'
    BY <2>1, <2>2 DEF ExclusiveConn, Key
  <2>6. ConnAccounted'
    BY <2>1, <2>2, <1>e DEF ConnAccounted, InUse
  <2>7. PinFailedUnused'
    <3>1. /\ hand[g] # NoConn /\ NoConn \notin pinFailed \cup {hand[g]}
          /\ \A a \in Addr : cachedConnections[a] # hand[g] /\ hand[g] \notin pool[a]
          /\ \A h \in Goroutine \ {g} : hand[h] # hand[g]
      BY <2>1, <2>2 DEF OwnDialed, ExclusiveConn
    <3>2. /\ \A a \in Addr : cachedConnections'[a] \notin pinFailed'
          /\ \A a \in Addr : pool'[a] \cap pinFailed' = {}
      BY <2>1, <3>1 DEF PinFailedUnused
    <3>3. \A h \in Goroutine : hand'[h] \notin pinFailed'
      BY <2>1, <3>1 DEF PinFailedUnused
    <3> QED
      BY <2>1, <3>2, <3>3 DEF PinFailedUnused
  <2> QED
    BY <2>3, <2>4, <2>5, <2>6, <2>7
<1>10. ASSUME NEW g \in Goroutine, ReturnDialed(g)
       PROVE  OwnerInv'
  <2>1. /\ pc[g] = "install" /\ Key(g) \in Addr /\ hand[g] \in Conn
        /\ mode[g] = "callback" /\ via[g] # NoTransport
    BY <1>10, <1>c DEF ReturnDialed, ReturnConn, CacheInv, ViaInv, HandFull, DialLabel
  <2>2. /\ hand' = [hand EXCEPT ![g] = hand[g]] /\ pc' = [pc EXCEPT ![g] = "exchange"]
        /\ pool' = IF via[g] = "h2" THEN [pool EXCEPT ![Key(g)] = @ \cup {hand[g]}] ELSE pool
        /\ UNCHANGED <<cachedConnections, open, dialed, pinFailed, url, via>>
    BY <1>10, <2>1 DEF ReturnDialed, ReturnConn
  <2>3. hand' = hand
    BY <2>2
  <2>4. OwnDialed'
    BY <2>1, <2>2, <2>3, <1>e DEF OwnDialed, Carrying, Dialing
  <2>5. Numbered'
    BY <2>1, <2>2, <2>3, <1>e DEF Numbered
  <2>6. ExclusiveConn'
    BY <2>1, <2>2, <2>3 DEF ExclusiveConn, OwnDialed, Dialing, Key
  <2>7. ConnAccounted'
    BY <2>1, <2>2, <2>3 DEF ConnAccounted, InUse
  <2>8. PinFailedUnused'
    BY <2>1, <2>2, <2>3 DEF PinFailedUnused
  <2> QED
    BY <2>4, <2>5, <2>6, <2>7, <2>8
<1>11. ASSUME NEW g \in Goroutine, Install(g)
       PROVE  OwnerInv'
  <2>1. /\ pc[g] = "install" /\ Key(g) \in Addr /\ hand[g] \in Conn
        /\ mode[g] = "probe" /\ cachedConnections[Key(g)] = NoConn
    BY <1>11, <1>c DEF Install, CacheInv, LockInv, HandFull, DialLabel, Mode
  <2>2. /\ hand' = [hand EXCEPT ![g] = NoConn] /\ pc' = [pc EXCEPT ![g] = "pick"]
        /\ cachedConnections' = [cachedConnections EXCEPT ![Key(g)] = hand[g]]
        /\ UNCHANGED <<pool, open, dialed, pinFailed, url, via>>
    BY <1>11, <1>c, <2>1 DEF Install, Stash, ReturnNegotiated, DialLabel
  <2>3. OwnDialed'
    BY <2>1, <2>2, <1>e DEF OwnDialed, Carrying, Dialing
  <2>4. Numbered'
    BY <2>1, <2>2, <1>e DEF Numbered
  <2>5. ExclusiveConn'
    BY <2>1, <2>2 DEF ExclusiveConn, OwnDialed, Dialing, Key
  <2>6. ConnAccounted'
    BY <2>1, <2>2, <1>e DEF ConnAccounted, InUse
  <2>7. PinFailedUnused'
    BY <2>1, <2>2 DEF PinFailedUnused
  <2> QED
    BY <2>3, <2>4, <2>5, <2>6, <2>7
<1>12. ASSUME NEW g \in Goroutine, Exchange(g)
       PROVE  OwnerInv'
  <2>1. PICK keep \in BOOLEAN :
          /\ keep => hand[g] \in open
          /\ pool' = [pool EXCEPT ![Key(g)] =
                        IF keep THEN @ \cup {hand[g]} ELSE @ \ {hand[g]}]
          /\ open' = IF keep THEN open ELSE open \ {hand[g]}
    BY <1>12 DEF Exchange
  <2>2. /\ pc[g] = "exchange" /\ pc' = [pc EXCEPT ![g] = "idle"]
        /\ Key(g) \in Addr /\ hand[g] \in Conn
        /\ hand' = [hand EXCEPT ![g] = NoConn]
        /\ url' = [url EXCEPT ![g] = NoURL] /\ via' = [via EXCEPT ![g] = NoTransport]
        /\ UNCHANGED <<cachedConnections, dialed, pinFailed>>
    BY <1>12, <1>b DEF Exchange, HandFull, InRequest, Label
  <2>3. OwnDialed'
    BY <2>1, <2>2, <1>e DEF OwnDialed, Carrying, Dialing
  <2>4. Numbered'
    BY <2>1, <2>2, <1>e DEF Numbered
  <2>5. ExclusiveConn'
    BY <2>1, <2>2 DEF ExclusiveConn, Key
  <2>6. ConnAccounted'
    BY <2>1, <2>2, <1>e DEF ConnAccounted, InUse
  <2>7. PinFailedUnused'
    BY <2>1, <2>2 DEF PinFailedUnused
  <2> QED
    BY <2>3, <2>4, <2>5, <2>6, <2>7
<1>13. ASSUME NEW g \in Goroutine, CloseIdleConnections(g)
       PROVE  OwnerInv'
  BY <1>13, <1>d DEF CloseIdleConnections, Carrying, Dialing
<1>14. ASSUME NEW g \in Goroutine, CloseTransports(g)
       PROVE  OwnerInv'
  <2>1. /\ pc[g] = "closing" /\ pc' = [pc EXCEPT ![g] = "idle"]
        /\ pool' = [a \in Addr |-> pool[a] \cap InUse]
        /\ open' = open \ ((UNION {pool[a] : a \in Addr}) \ InUse)
        /\ UNCHANGED <<cachedConnections, dialed, pinFailed, url, via, hand>>
    BY <1>14 DEF CloseTransports
  <2>2. OwnDialed'
    BY <2>1, <1>e DEF OwnDialed, Carrying, Dialing
  <2>3. Numbered'
    BY <2>1, <1>e DEF Numbered
  <2>4. ExclusiveConn'
    BY <2>1 DEF ExclusiveConn, Key
  <2>5. ConnAccounted'
    BY <2>1 DEF ConnAccounted, InUse
  <2>6. PinFailedUnused'
    BY <2>1 DEF PinFailedUnused
  <2> QED
    BY <2>2, <2>3, <2>4, <2>5, <2>6
<1>15. ASSUME NEW a \in Addr, NEW c \in Conn, IdleClose(a, c)
       PROVE  OwnerInv'
  <2>1. /\ c \in pool[a] \ InUse
        /\ pool' = [pool EXCEPT ![a] = @ \ {c}] /\ open' = open \ {c}
        /\ UNCHANGED <<cachedConnections, dialed, pinFailed, pc, url, via, hand>>
    BY <1>15 DEF IdleClose
  <2>2. OwnDialed'
    BY <2>1, <1>e DEF OwnDialed, Carrying, Dialing
  <2>3. Numbered'
    BY <2>1, <1>e DEF Numbered
  <2>4. ExclusiveConn'
    BY <2>1 DEF ExclusiveConn, Key
  <2>5. ConnAccounted'
    BY <2>1 DEF ConnAccounted, InUse
  <2>6. PinFailedUnused'
    BY <2>1 DEF PinFailedUnused
  <2> QED
    BY <2>2, <2>3, <2>4, <2>5, <2>6
<1>16. ASSUME NEW a \in Addr, ParkedDies(a)
       PROVE  OwnerInv'
  <2>1. /\ open' = open \ {cachedConnections[a]}
        /\ UNCHANGED <<cachedConnections, pool, dialed, pinFailed, pc, url, via, hand>>
    BY <1>16 DEF ParkedDies
  <2>2. OwnDialed'
    BY <2>1, <1>e DEF OwnDialed, Carrying, Dialing
  <2>3. Numbered'
    BY <2>1, <1>e DEF Numbered
  <2>4. ExclusiveConn'
    BY <2>1 DEF ExclusiveConn, Key
  <2>5. ConnAccounted'
    BY <2>1 DEF ConnAccounted, InUse
  <2>6. PinFailedUnused'
    BY <2>1 DEF PinFailedUnused
  <2> QED
    BY <2>2, <2>3, <2>4, <2>5, <2>6
<1>17. CASE UNCHANGED vars
  BY <1>17
  DEF vars, OwnDialed, Carrying, Dialing, Numbered, ExclusiveConn, ConnAccounted,
      PinFailedUnused, InUse, Key
<1> QED
  BY <1>1, <1>2, <1>3, <1>4, <1>5, <1>6, <1>7, <1>8, <1>9, <1>10, <1>11, <1>12, <1>13,
     <1>14, <1>15, <1>16, <1>17
  DEF Next, Transport, DialStep, HandshakeStep, CheckPin, Store

LEMMA OwnerInvariant ==
  ASSUME SameNames
  PROVE  Spec => []OwnerInv
<1>1. Init => OwnerInv
  BY RoundTripperAssumption
  DEF Init, OwnerInv, OwnDialed, Carrying, Dialing, Numbered, ExclusiveConn, ConnAccounted,
      PinFailedUnused, InUse, NoConn, Conn, RoundTripperAssumption
<1>2. TypeInv /\ LockInv /\ CacheInv /\ ViaInv /\ OwnerInv /\ [Next]_vars => OwnerInv'
  BY OwnerStep, SameNames
<1> QED
  BY <1>1, <1>2, TypeInvariant, LockInvariant, CacheInvariant, ViaInvariant, SameNames, PTL
  DEF Spec

\* No two requests ever write to one HTTP/1.1 connection, and no transport uses a
\* connection that dialTLS still holds parked for another.
THEOREM ConnsAreExclusive ==
  ASSUME SameNames
  PROVE  Spec => []ExclusiveConn
<1>1. OwnerInv => ExclusiveConn
  BY DEF OwnerInv
<1> QED
  BY <1>1, OwnerInvariant, SameNames, PTL

\* Nothing leaks but the connections dialTLS gives up with a bad pin.
THEOREM ConnsAreAccounted ==
  ASSUME SameNames
  PROVE  Spec => []ConnAccounted
<1>1. OwnerInv => ConnAccounted
  BY DEF OwnerInv
<1> QED
  BY <1>1, OwnerInvariant, SameNames, PTL

\* A connection whose certificates failed the pin check carries no request,
\* whoever dialled it.
THEOREM BadPinsAreUnused ==
  ASSUME SameNames
  PROVE  Spec => []PinFailedUnused
<1>1. OwnerInv => PinFailedUnused
  BY DEF OwnerInv
<1> QED
  BY <1>1, OwnerInvariant, SameNames, PTL

-----------------------------------------------------------------------------
(***************************************************************************)
(* The life of a connection.  What ConnLife calls its stage, home and users *)
(* follows from its owners (LifeKnown).  One fact is missing from OwnerInv: *)
(* a request that ends leaves a connection in the pool only if it was there *)
(* already, unless nobody else is using it (SharedPooled).                  *)
(***************************************************************************)
SharedPooled == \A g, h \in Goroutine :
  g # h /\ hand[g] = hand[h] /\ hand[g] # NoConn =>
    hand[g] \in pool[Key(g)] \/ hand[g] \notin open

LifeKnown ==
  /\ \A c \in Conn : c > dialed =>
       ConnStage[c] = "new" /\ ConnHome[c] = {} /\ ConnUsers[c] = {}
  /\ \A g \in Goroutine : pc[g] \in Dialing =>
       /\ ConnStage[hand[g]] = "making" /\ ConnHome[hand[g]] = {Key(g)}
       /\ ConnUsers[hand[g]] = {g}
  /\ \A a \in Addr : cachedConnections[a] # NoConn =>
       /\ ConnStage[cachedConnections[a]] = "parked"
       /\ ConnHome[cachedConnections[a]] = {a}
       /\ ConnUsers[cachedConnections[a]] = {}
  /\ \A a \in Addr : \A c \in pool[a] : ConnStage[c] = "pooled" /\ ConnHome[c] = {a}
  /\ \A g \in Goroutine : pc[g] = "exchange" =>
       /\ ConnHome[hand[g]] = {Key(g)}
       /\ hand[g] \notin pool[Key(g)] => ConnStage[hand[g]] = "carried"
  /\ \A c \in Conn :
       /\ c <= dialed
       /\ \A a \in Addr : cachedConnections[a] # c /\ c \notin pool[a]
       /\ \A g \in Goroutine : hand[g] # c
       => ConnStage[c] = "gone" /\ ConnHome[c] = {} /\ ConnUsers[c] = {}

LEMMA LifeIsKnown ==
  /\ TypeInv /\ OwnerInv => LifeKnown
  /\ (TypeInv /\ OwnerInv)' => LifeKnown'
<1>1. TypeInv /\ OwnerInv => LifeKnown
  <2> SUFFICES ASSUME TypeInv, OwnerInv
               PROVE  LifeKnown
    OBVIOUS
  <2> USE DEF TypeInv, TypeOK, OwnerInv, ConnStage, StageOf, ConnHome, ConnUsers, Dialing
  <2>a. /\ MaxConn \in Nat /\ Conn = 1 .. MaxConn /\ NoConn = 0
        /\ \A g \in Goroutine : pc[g] \in Carrying => hand[g] \in Conn /\ Key(g) \in Addr
        /\ \A g \in Goroutine : hand[g] \in Conn => pc[g] \in Carrying
    BY AddrType, RoundTripperAssumption
    DEF RoundTripperAssumption, HandFull, Carrying, Conn, NoConn, OwnDialed, InRequest, Label
  <2>b. \A c \in Conn : ~(c > dialed) <=> c <= dialed
    BY <2>a
  <2>c. \A g, h \in Goroutine :
          pc[g] \in Carrying /\ hand[g] = hand[h] => pc[h] \in Carrying /\ Key(g) = Key(h)
    BY <2>a DEF ExclusiveConn
  <2>1. \A c \in Conn : c > dialed =>
          /\ ConnStage[c] = "new" /\ ConnHome[c] = {} /\ ConnUsers[c] = {}
    BY <2>a DEF Numbered
  <2>2. ASSUME NEW g \in Goroutine, pc[g] \in Dialing
        PROVE  /\ ConnStage[hand[g]] = "making" /\ ConnHome[hand[g]] = {Key(g)}
               /\ ConnUsers[hand[g]] = {g}
    <3>1. hand[g] \in Conn /\ Key(g) \in Addr /\ ~(hand[g] > dialed)
      BY <2>2, <2>a, <2>b DEF Numbered, Carrying
    <3>2. /\ \A a \in Addr : cachedConnections[a] # hand[g] /\ hand[g] \notin pool[a]
          /\ \A h \in Goroutine \ {g} : hand[h] # hand[g]
      BY <2>2, <3>1, <2>a DEF OwnDialed, ExclusiveConn
    <3> QED
      BY <2>2, <3>1, <3>2
  <2>3. ASSUME NEW a \in Addr, cachedConnections[a] # NoConn
        PROVE  /\ ConnStage[cachedConnections[a]] = "parked"
               /\ ConnHome[cachedConnections[a]] = {a}
               /\ ConnUsers[cachedConnections[a]] = {}
    <3>1. cachedConnections[a] \in Conn /\ ~(cachedConnections[a] > dialed)
      BY <2>3, <2>a, <2>b DEF Numbered
    <3>2. /\ \A b \in Addr \ {a} : cachedConnections[b] # cachedConnections[a]
          /\ \A b \in Addr : cachedConnections[a] \notin pool[b]
          /\ \A h \in Goroutine : hand[h] # cachedConnections[a]
      BY <2>3, <3>1, <2>a DEF ExclusiveConn
    <3> QED
      BY <3>1, <3>2
  <2>4. ASSUME NEW a \in Addr, NEW c \in pool[a]
        PROVE  ConnStage[c] = "pooled" /\ ConnHome[c] = {a}
    <3>1. c \in Conn /\ c # NoConn /\ ~(c > dialed)
      BY <2>a, <2>b DEF Numbered
    <3>2. /\ \A b \in Addr : cachedConnections[b] # c
          /\ \A b \in Addr \ {a} : c \notin pool[b]
          /\ \A h \in Goroutine : hand[h] = c => Key(h) = a /\ pc[h] \notin Dialing
      BY <3>1, <2>a DEF ExclusiveConn, OwnDialed
    <3> QED
      BY <3>1, <3>2
  <2>5. ASSUME NEW g \in Goroutine, pc[g] = "exchange"
        PROVE  /\ ConnHome[hand[g]] = {Key(g)}
               /\ hand[g] \notin pool[Key(g)] => ConnStage[hand[g]] = "carried"
    <3>1. hand[g] \in Conn /\ Key(g) \in Addr /\ hand[g] # NoConn /\ ~(hand[g] > dialed)
      BY <2>5, <2>a, <2>b DEF Numbered, Carrying
    <3>2. /\ \A b \in Addr : cachedConnections[b] # hand[g]
          /\ \A b \in Addr : hand[g] \in pool[b] => b = Key(g)
          /\ \A h \in Goroutine : hand[h] = hand[g] => Key(h) = Key(g) /\ pc[h] \notin Dialing
      BY <2>5, <3>1, <2>c DEF ExclusiveConn, OwnDialed, Carrying
    <3> QED
      BY <3>1, <3>2
  <2>6. ASSUME NEW c \in Conn, c <= dialed,
               \A a \in Addr : cachedConnections[a] # c /\ c \notin pool[a],
               \A g \in Goroutine : hand[g] # c
        PROVE  ConnStage[c] = "gone" /\ ConnHome[c] = {} /\ ConnUsers[c] = {}
    BY <2>6, <2>b
  <2> QED
    BY <2>1, <2>2, <2>3, <2>4, <2>5, <2>6 DEF LifeKnown
<1>2. (TypeInv /\ OwnerInv)' => LifeKnown'
  BY <1>1, PTL
<1> QED
  BY <1>1, <1>2

\* A connection whose owners do not change lives on as it was.
Kept(c) ==
  /\ \A a \in Addr : cachedConnections'[a] = c <=> cachedConnections[a] = c
  /\ \A a \in Addr : c \in pool'[a] <=> c \in pool[a]
  /\ \A g \in Goroutine : hand'[g] = c <=> hand[g] = c
  /\ \A g \in Goroutine : hand[g] = c => url'[g] = url[g]
  /\ \A g \in Goroutine : hand[g] = c => (pc'[g] \in Dialing <=> pc[g] \in Dialing)
  /\ c > dialed' <=> c > dialed
  /\ c \in open' => c \in open

LEMMA Untouched ==
  ASSUME TypeInv, NEW c \in Conn, Kept(c)
  PROVE  Life!Unmoved(c)
<1> USE DEF Kept
<1>1. ConnUsers'[c] = ConnUsers[c]
  BY DEF ConnUsers
<1>2. ConnHome'[c] = ConnHome[c]
  BY DEF ConnHome, Key
<1>3. ConnStage'[c] = ConnStage[c]
  BY <1>1 DEF ConnStage, StageOf, Dialing
<1> QED
  BY <1>1, <1>2, <1>3 DEF Life!Unmoved, Life!Stays

LEMMA LifeStep ==
  ASSUME TypeInv, LockInv, CacheInv, ViaInv, OwnerInv, SharedPooled, SameNames, [Next]_vars
  PROVE  SharedPooled' /\ Life!Next
<1> DEFINE Moves(c) ==
      \/ Life!Dialled(c) \/ Life!GivenUp(c) \/ Life!Parked(c) \/ Life!Served(c)
      \/ Life!Joined(c) \/ Life!Left(c) \/ Life!Closed(c) \/ Life!Unmoved(c)
<1>a. TypeInv' /\ LifeKnown /\ LifeKnown'
  BY TypeStep, OwnerStep, LifeIsKnown
<1>b. /\ MaxConn \in Nat /\ Conn = 1 .. MaxConn /\ NoConn = 0
      /\ \A g \in Goroutine : pc[g] \in InRequest => Key(g) \in Addr
      /\ \A g \in Goroutine : pc[g] \in Carrying => hand[g] \in Conn
      /\ \A g \in Goroutine : pc[g] \notin Carrying => hand[g] = NoConn
  BY AddrType, RoundTripperAssumption
  DEF RoundTripperAssumption, TypeInv, HandFull, Carrying, Dialing, Conn, NoConn, OwnerInv,
      OwnDialed
<1>c. \A g \in Goroutine : pc[g] \in DialLabel => DialAddr(g) = Key(g) /\ Key(g) \in Addr
  BY <1>b, DialAddrIsKey DEF CacheInv, DialLabel, InRequest, Label
<1>d. \A g, h \in Goroutine : hand[g] = hand[h] /\ hand[g] \in Conn => Key(g) = Key(h)
  BY <1>b DEF OwnerInv, ExclusiveConn
<1> USE DEF TypeInv, TypeOK, Goto, Finish, caches, conns, locals
\* A step of a goroutine without a connection.
<1>e. ASSUME NEW g \in Goroutine, pc[g] \notin Carrying, pc'[g] \notin Carrying,
             UNCHANGED <<conns, cachedConnections>>,
             hand' \in {hand, [hand EXCEPT ![g] = NoConn]},
             \A h \in Goroutine \ {g} : pc'[h] = pc[h] /\ url'[h] = url[h]
      PROVE  SharedPooled' /\ \A c \in Conn : Moves(c)
  <2>1. hand[g] = NoConn /\ hand' = hand
    BY <1>e, <1>b
  <2>2. ASSUME NEW c \in Conn
        PROVE  Life!Unmoved(c)
    <3>1. Kept(c)
      BY <1>b, <1>e, <2>1 DEF Kept
    <3> QED
      BY <3>1, Untouched
  <2>3. SharedPooled'
    BY <1>e, <2>1 DEF SharedPooled, Key
  <2> QED
    BY <2>2, <2>3
<1>1. ASSUME NEW g \in Goroutine, NEW u \in URL, RoundTrip(g, u)
      PROVE  SharedPooled' /\ \A c \in Conn : Moves(c)
  <2> HIDE DEF Moves
  <2> QED
    BY <1>1, <1>e DEF RoundTrip, Carrying, Dialing
<1>2. ASSUME NEW g \in Goroutine, LockTransports(g) \/ Lookup(g) \/ BuildPlain(g) \/ Pick(g)
      PROVE  SharedPooled' /\ \A c \in Conn : Moves(c)
  <2> HIDE DEF Moves
  <2> QED
    BY <1>2, <1>e
    DEF LockTransports, Lookup, LookupHit, LookupPlain, LookupProbe, LookupInvalidScheme,
        BuildPlain, Pick, Carrying, Dialing
<1>3. ASSUME NEW g \in Goroutine,
             \/ CallDialTLS(g) \/ Quic(g) \/ PlainExchange(g) \/ SchemeRefused(g)
             \/ Expire(g) \/ LockConns(g)
      PROVE  SharedPooled' /\ \A c \in Conn : Moves(c)
  <2> HIDE DEF Moves
  <2> QED
    BY <1>3, <1>e
    DEF CallDialTLS, Quic, PlainExchange, SchemeRefused, Expire, LockConns, Carrying, Dialing
<1>4. ASSUME NEW g \in Goroutine,
             \/ DialFails(g) \/ DialPanics(g) \/ BadPinHandler(g) \/ Recover(g)
             \/ CloseIdleConnections(g)
      PROVE  SharedPooled' /\ \A c \in Conn : Moves(c)
  <2> HIDE DEF Moves
  <2> QED
    BY <1>4, <1>e
    DEF DialFails, DialPanics, BadPinHandler, Recover, CloseIdleConnections, ReturnError,
        Panic, Carrying, Dialing
\* A step of g that can move no connection but k.
<1>f. ASSUME NEW g \in Goroutine, NEW k \in Conn,
             hand[g] \in {NoConn, k}, hand'[g] \in {NoConn, k},
             \A h \in Goroutine \ {g} :
               pc'[h] = pc[h] /\ url'[h] = url[h] /\ hand'[h] = hand[h],
             \A a \in Addr, c \in Conn \ {k} :
               /\ cachedConnections'[a] = c <=> cachedConnections[a] = c
               /\ c \in pool'[a] <=> c \in pool[a],
             \A c \in Conn \ {k} : (c > dialed' <=> c > dialed) /\ (c \in open' => c \in open),
             Life!Dialled(k) \/ Life!GivenUp(k) \/ Life!Parked(k) \/ Life!Served(k)
             \/ Life!Joined(k) \/ Life!Left(k) \/ Life!Closed(k) \/ Life!Unmoved(k)
      PROVE  \A c \in Conn : Moves(c)
  <2>1. ASSUME NEW c \in Conn \ {k}
        PROVE  Life!Unmoved(c)
    <3>1. Kept(c)
      BY <1>b, <1>f, <2>1 DEF Kept
    <3> QED
      BY <3>1, Untouched
  <2> QED
    BY <1>f, <2>1
<1>5. ASSUME NEW g \in Goroutine, UsePooled(g)
      PROVE  SharedPooled' /\ \A c \in Conn : Moves(c)
  <2>1. PICK c \in pool[Key(g)] :
          /\ hand' = [hand EXCEPT ![g] = c]
          /\ pool' = IF via[g] = "h1" THEN [pool EXCEPT ![Key(g)] = @ \ {c}] ELSE pool
    BY <1>5 DEF UsePooled
  <2>2. /\ pc[g] = "roundTrip" /\ pc' = [pc EXCEPT ![g] = "exchange"]
        /\ UNCHANGED <<cachedConnections, open, dialed, url, via>>
        /\ Key(g) \in Addr /\ c \in Conn /\ c # NoConn /\ hand[g] = NoConn
        /\ via[g] \in {"h1", "h2"}
    BY <1>5, <1>b DEF UsePooled, InRequest, Label, Carrying, Dialing
  <2>3. /\ ConnStage[c] = "pooled" /\ ConnHome[c] = {Key(g)}
        /\ ConnHome'[c] = {Key(g)} /\ ConnUsers'[c] = ConnUsers[c] \cup {g}
    BY <1>a, <1>b, <2>1, <2>2 DEF LifeKnown, ConnUsers, Key
  <2>4. \A h \in Goroutine : hand[h] = c => via[g] = "h2" /\ h # g /\ Key(h) = Key(g)
    <3>1. \A h \in Goroutine : hand[h] = c => via[h] = "h2" /\ h # g /\ Key(h) = Key(g)
      BY <2>1, <2>2 DEF OwnerInv, ExclusiveConn
    <3> QED
      BY <2>2, <3>1 DEF ViaInv, NoTransport
  <2>5. \/ ConnStage'[c] = "pooled"
        \/ ConnStage'[c] = "carried" /\ ConnUsers[c] = {}
    <3>1. CASE via[g] = "h1"
      <4>1. ConnUsers[c] = {} /\ c \notin pool'[Key(g)]
        BY <2>1, <2>2, <2>4, <3>1 DEF ConnUsers
      <4> QED
        BY <1>a, <2>1, <2>2, <4>1 DEF LifeKnown, Key
    <3>2. CASE via[g] # "h1"
      BY <1>a, <2>1, <2>2, <3>2 DEF LifeKnown
    <3> QED
      BY <3>1, <3>2
  <2>6. Life!Joined(c)
    BY <2>2, <2>3, <2>5 DEF Life!Joined, Life!Stays
  <2>7. SharedPooled'
    <3>1. /\ \A h \in Goroutine \ {g} : hand'[h] = hand[h]
          /\ hand'[g] = c /\ \A h \in Goroutine : Key(h)' = Key(h)
      BY <2>1, <2>2 DEF Key
    <3>2. CASE via[g] = "h2"
      BY <2>1, <2>2, <2>4, <3>1, <3>2 DEF SharedPooled
    <3>3. CASE via[g] = "h1"
      <4>1. \A h \in Goroutine : hand[h] # c
        BY <2>4, <3>3
      <4> QED
        BY <2>1, <2>2, <3>1, <3>3, <4>1 DEF SharedPooled
    <3> QED
      BY <2>2, <3>2, <3>3
  <2> HIDE DEF Moves
  <2> QED
    BY <2>1, <2>2, <2>6, <2>7, <1>b, <1>f
<1>6. ASSUME NEW g \in Goroutine, TakeParked(g)
      PROVE  SharedPooled' /\ \A c \in Conn : Moves(c)
  <2> DEFINE c == cachedConnections[Key(g)]
  <2>1. /\ pc[g] = "dialTLS" /\ Key(g) \in Addr /\ c # NoConn /\ c \in Conn
        /\ cachedConnections' = [cachedConnections EXCEPT ![Key(g)] = NoConn]
        /\ hand[g] = NoConn
    BY <1>6, <1>b, <1>c DEF TakeParked, DialLabel, Carrying, Dialing, NoConn
  <2>2. mode[g] = "callback" /\ via[g] # NoTransport
    BY <2>1 DEF CacheInv, LockInv, ViaInv, DialLabel, Mode
  <2>3. /\ hand' = [hand EXCEPT ![g] = c] /\ pc' = [pc EXCEPT ![g] = "exchange"]
        /\ pool' = IF via[g] = "h2" THEN [pool EXCEPT ![Key(g)] = @ \cup {c}] ELSE pool
        /\ UNCHANGED <<open, dialed, url, via>>
    BY <1>6, <1>c, <2>1, <2>2 DEF TakeParked, ReturnConn, DialLabel
  <2>4. /\ ConnStage[c] = "parked" /\ ConnHome[c] = {Key(g)} /\ ConnUsers[c] = {}
        /\ ConnHome'[c] = {Key(g)} /\ ConnStage'[c] \in {"pooled", "carried"}
    <3>1. ConnStage[c] = "parked" /\ ConnHome[c] = {Key(g)} /\ ConnUsers[c] = {}
      BY <1>a, <2>1 DEF LifeKnown
    <3> HIDE DEF c
    <3>2. pc'[g] = "exchange" /\ hand'[g] = c /\ Key(g)' = Key(g)
      BY <2>3 DEF Key
    <3>3. ConnHome'[c] = {Key(g)} /\ (c \notin pool'[Key(g)] => ConnStage'[c] = "carried")
      BY <1>a, <3>2 DEF LifeKnown
    <3>4. c \in pool'[Key(g)] => ConnStage'[c] = "pooled"
      BY <1>a, <2>1 DEF LifeKnown
    <3> QED
      BY <3>1, <3>3, <3>4
  <2>5. \A h \in Goroutine : hand[h] # c
    BY <2>1 DEF OwnerInv, ExclusiveConn
  <2>6. \A b \in Addr \ {Key(g)} : cachedConnections[b] # c
    BY <2>1 DEF OwnerInv, ExclusiveConn
  <2> HIDE DEF c
  <2>7. Life!Served(c)
    <3>1. ConnUsers'[c] = {g}
      BY <2>1, <2>3, <2>5 DEF ConnUsers
    <3> QED
      BY <2>3, <2>4, <3>1 DEF Life!Served, Life!Stays
  <2>8. SharedPooled'
    BY <2>1, <2>3, <2>5, <1>b DEF SharedPooled, Key
  <2>9. \A a \in Addr, d \in Conn \ {c} :
          /\ cachedConnections'[a] = d <=> cachedConnections[a] = d
          /\ d \in pool'[a] <=> d \in pool[a]
    BY <2>1, <2>3, <1>b DEF c
  <2>10. /\ hand[g] = NoConn /\ hand'[g] = c
         /\ \A h \in Goroutine \ {g} : pc'[h] = pc[h] /\ url'[h] = url[h] /\ hand'[h] = hand[h]
         /\ \A d \in Conn : (d > dialed' <=> d > dialed) /\ (d \in open' => d \in open)
    BY <2>1, <2>3
  <2> HIDE DEF Moves
  <2>11. \A d \in Conn : Moves(d)
    BY <2>1, <2>7, <2>9, <2>10, <1>f
  <2> QED
    BY <2>8, <2>11
<1>7. ASSUME NEW g \in Goroutine, Dial(g)
      PROVE  SharedPooled' /\ \A c \in Conn : Moves(c)
  <2>1. /\ pc[g] = "dialTLS" /\ pc' = [pc EXCEPT ![g] = "handshake"]
        /\ dialed < MaxConn /\ dialed' = dialed + 1 /\ open' = open \cup {dialed + 1}
        /\ hand' = [hand EXCEPT ![g] = dialed + 1]
        /\ UNCHANGED <<cachedConnections, pool, url>>
        /\ Key(g) \in Addr /\ hand[g] = NoConn
    BY <1>7, <1>b, <1>c DEF Dial, DialLabel, Carrying, Dialing
  <2>2. dialed \in Nat /\ dialed + 1 \in Conn /\ dialed + 1 > dialed
    BY <2>1, <1>b
  <2>3. Life!Dialled(dialed + 1)
    <3>1. ConnStage[dialed + 1] = "new"
      BY <1>a, <2>2 DEF LifeKnown
    <3>2. /\ ConnStage'[dialed + 1] = "making" /\ ConnHome'[dialed + 1] = {Key(g)}
          /\ ConnUsers'[dialed + 1] = {g}
      BY <1>a, <2>1 DEF LifeKnown, Dialing, Key
    <3> QED
      BY <2>1, <3>1, <3>2 DEF Life!Dialled
  <2>4. \A h \in Goroutine : hand[h] # dialed + 1
    BY <2>2, <1>b DEF OwnerInv, Numbered
  <2>5. SharedPooled'
    BY <2>1, <2>4, <1>b DEF SharedPooled, Key
  <2>6. \A c \in Conn \ {dialed + 1} :
          (c > dialed' <=> c > dialed) /\ (c \in open' => c \in open)
    BY <2>1, <2>2, <1>b
  <2> HIDE DEF Moves
  <2> QED
    BY <2>1, <2>2, <2>3, <2>5, <2>6, <1>b, <1>f
<1>8. ASSUME NEW g \in Goroutine, Handshake(g) \/ PinMatches(g)
      PROVE  SharedPooled' /\ \A c \in Conn : Moves(c)
  <2>1. /\ pc[g] \in Dialing /\ \E l \in Dialing : pc' = [pc EXCEPT ![g] = l]
        /\ UNCHANGED <<cachedConnections, pool, open, dialed, url, hand>>
    BY <1>8 DEF Handshake, PinMatches, Dialing
  <2>2. ASSUME NEW c \in Conn
        PROVE  Life!Unmoved(c)
    <3>1. Kept(c)
      BY <2>1 DEF Kept
    <3> QED
      BY <3>1, Untouched
  <2>3. SharedPooled'
    BY <2>1 DEF SharedPooled, Key
  <2> QED
    BY <2>2, <2>3
<1>9. ASSUME NEW g \in Goroutine, HandshakeFails(g) \/ PinMismatch(g)
      PROVE  SharedPooled' /\ \A c \in Conn : Moves(c)
  <2>1. /\ pc[g] \in Dialing /\ hand' = [hand EXCEPT ![g] = NoConn]
        /\ open' \subseteq open /\ open \ {hand[g]} \subseteq open'
        /\ UNCHANGED <<cachedConnections, pool, dialed>>
        /\ \A h \in Goroutine \ {g} : pc'[h] = pc[h] /\ url'[h] = url[h]
    BY <1>9 DEF HandshakeFails, PinMismatch, ReturnError, Dialing
  <2>2. /\ hand[g] \in Conn /\ hand[g] <= dialed
        /\ \A a \in Addr : cachedConnections[a] # hand[g] /\ hand[g] \notin pool[a]
        /\ \A h \in Goroutine \ {g} : hand[h] # hand[g]
    BY <2>1, <1>b DEF OwnerInv, ExclusiveConn, OwnDialed, Numbered, Carrying
  <2>3. Life!GivenUp(hand[g])
    <3>1. ConnStage[hand[g]] = "making"
      BY <1>a, <2>1 DEF LifeKnown
    <3>2. \A h \in Goroutine : hand'[h] # hand[g]
      BY <2>1, <2>2, <1>b
    <3>3. ConnStage'[hand[g]] = "gone" /\ ConnHome'[hand[g]] = {} /\ ConnUsers'[hand[g]] = {}
      BY <1>a, <2>1, <2>2, <3>2 DEF LifeKnown
    <3> QED
      BY <3>1, <3>3 DEF Life!GivenUp, Life!Gone
  <2>4. SharedPooled'
    BY <2>1, <1>b DEF SharedPooled, Key
  <2> HIDE DEF Moves
  <2> QED
    BY <2>1, <2>2, <2>3, <2>4, <1>f
<1>10. ASSUME NEW g \in Goroutine, ReturnDialed(g)
       PROVE  SharedPooled' /\ \A c \in Conn : Moves(c)
  <2>1. /\ pc[g] = "install" /\ Key(g) \in Addr /\ hand[g] \in Conn
        /\ mode[g] = "callback" /\ via[g] # NoTransport
    BY <1>10, <1>c
    DEF ReturnDialed, ReturnConn, CacheInv, ViaInv, HandFull, DialLabel
  <2>2. /\ hand' = [hand EXCEPT ![g] = hand[g]] /\ pc' = [pc EXCEPT ![g] = "exchange"]
        /\ pool' = IF via[g] = "h2" THEN [pool EXCEPT ![Key(g)] = @ \cup {hand[g]}] ELSE pool
        /\ UNCHANGED <<cachedConnections, open, dialed, url, via>>
    BY <1>10, <2>1 DEF ReturnDialed, ReturnConn
  <2>3. hand' = hand
    BY <2>2
  <2>4. Life!Served(hand[g])
    <3>1. /\ ConnStage[hand[g]] = "making" /\ ConnHome[hand[g]] = {Key(g)}
          /\ ConnUsers[hand[g]] = {g}
      BY <1>a, <2>1 DEF LifeKnown, Dialing
    <3>2. ConnUsers' = ConnUsers
      BY <2>3 DEF ConnUsers
    <3>3. /\ ConnStage'[hand[g]] \in {"pooled", "carried"} /\ ConnHome'[hand[g]] = {Key(g)}
      BY <1>a, <2>1, <2>2, <2>3 DEF LifeKnown, Key
    <3> QED
      BY <2>2, <3>1, <3>2, <3>3 DEF Life!Served, Life!Stays
  <2>5. SharedPooled'
    <3>1. \A h, i \in Goroutine : hand[h] \in pool[Key(i)] => hand[h] \in pool'[Key(i)]
      BY <2>1, <2>2
    <3> QED
      BY <2>2, <2>3, <3>1 DEF SharedPooled, Key
  <2> HIDE DEF Moves
  <2> QED
    BY <2>1, <2>2, <2>3, <2>4, <2>5, <1>f
<1>11. ASSUME NEW g \in Goroutine, Install(g)
       PROVE  SharedPooled' /\ \A c \in Conn : Moves(c)
  <2>1. /\ pc[g] = "install" /\ Key(g) \in Addr /\ hand[g] \in Conn /\ hand[g] # NoConn
        /\ mode[g] = "probe" /\ cachedConnections[Key(g)] = NoConn
    BY <1>11, <1>b, <1>c DEF Install, CacheInv, LockInv, HandFull, DialLabel, Mode
  <2>2. /\ hand' = [hand EXCEPT ![g] = NoConn] /\ pc' = [pc EXCEPT ![g] = "pick"]
        /\ cachedConnections' = [cachedConnections EXCEPT ![Key(g)] = hand[g]]
        /\ UNCHANGED <<pool, open, dialed, url>>
    BY <1>11, <1>c, <2>1 DEF Install, Stash, ReturnNegotiated, DialLabel
  <2>3. Life!Parked(hand[g])
    <3>1. ConnStage[hand[g]] = "making" /\ ConnHome[hand[g]] = {Key(g)}
      BY <1>a, <2>1 DEF LifeKnown, Dialing
    <3>2. cachedConnections'[Key(g)] = hand[g]
      BY <2>1, <2>2
    <3>3. /\ ConnStage'[hand[g]] = "parked" /\ ConnHome'[hand[g]] = {Key(g)}
          /\ ConnUsers'[hand[g]] = {}
      BY <1>a, <2>1, <3>2 DEF LifeKnown
    <3> QED
      BY <2>2, <3>1, <3>3 DEF Life!Parked, Life!Stays
  <2>4. SharedPooled'
    BY <2>1, <2>2 DEF SharedPooled, Key
  <2>5. \A a \in Addr, c \in Conn \ {hand[g]} :
          cachedConnections'[a] = c <=> cachedConnections[a] = c
    BY <2>1, <2>2, <1>b
  <2> HIDE DEF Moves
  <2> QED
    BY <2>1, <2>2, <2>3, <2>4, <2>5, <1>f
<1>12. ASSUME NEW g \in Goroutine, Exchange(g)
       PROVE  SharedPooled' /\ \A c \in Conn : Moves(c)
  <2>1. PICK keep \in BOOLEAN :
          /\ keep => hand[g] \in open
          /\ pool' = [pool EXCEPT ![Key(g)] =
                        IF keep THEN @ \cup {hand[g]} ELSE @ \ {hand[g]}]
          /\ open' = IF keep THEN open ELSE open \ {hand[g]}
    BY <1>12 DEF Exchange
  <2>2. /\ pc[g] = "exchange" /\ pc' = [pc EXCEPT ![g] = "idle"]
        /\ Key(g) \in Addr /\ hand[g] \in Conn /\ hand[g] # NoConn /\ hand[g] <= dialed
        /\ hand' = [hand EXCEPT ![g] = NoConn] /\ url' = [url EXCEPT ![g] = NoURL]
        /\ UNCHANGED <<cachedConnections, dialed>>
    BY <1>12, <1>b DEF Exchange, HandFull, InRequest, Label, OwnerInv, Numbered
  <2>3. /\ ConnUsers[hand[g]] = {h \in Goroutine : hand[h] = hand[g]}
        /\ ConnUsers'[hand[g]] = ConnUsers[hand[g]] \ {g}
        /\ g \in ConnUsers[hand[g]] /\ ConnHome[hand[g]] = {Key(g)}
    BY <1>a, <2>2 DEF LifeKnown, ConnUsers
  <2>4. ConnStage[hand[g]] = IF hand[g] \in pool[Key(g)] THEN "pooled" ELSE "carried"
    BY <1>a, <2>2 DEF LifeKnown
  <2>5. CASE keep
    <3>1. hand[g] \in pool'[Key(g)] /\ open' = open
      BY <2>1, <2>2, <2>5
    <3>2. ConnStage'[hand[g]] = "pooled" /\ ConnHome'[hand[g]] = {Key(g)}
      BY <1>a, <2>2, <3>1 DEF LifeKnown
    <3>3. hand[g] \notin pool[Key(g)] => ConnUsers[hand[g]] = {g}
      BY <2>1, <2>2, <2>3, <2>5 DEF SharedPooled
    <3>4. Life!Left(hand[g])
      BY <2>1, <2>3, <2>4, <2>5, <3>1, <3>2, <3>3 DEF Life!Left, Life!Stays
    <3>5. SharedPooled'
      BY <2>1, <2>2, <2>5, <3>1 DEF SharedPooled, Key
    <3> HIDE DEF Moves
    <3> QED
      BY <2>1, <2>2, <3>1, <3>4, <3>5, <1>f
  <2>6. CASE ~keep
    <3>1. hand[g] \notin pool'[Key(g)] /\ hand[g] \notin open' /\ open' \subseteq open
      BY <2>1, <2>2, <2>6
    <3>2. \A a \in Addr : cachedConnections'[a] # hand[g] /\ hand[g] \notin pool'[a]
      BY <2>1, <2>2, <3>1 DEF OwnerInv, ExclusiveConn
    <3>3. ASSUME NEW h \in Goroutine \ {g}, hand[h] = hand[g]
          PROVE  Life!Left(hand[g])
      <4>1. pc'[h] = "exchange" /\ hand'[h] = hand[g] /\ Key(h)' = Key(g)
        <5>1. pc[h] = "exchange"
          BY <2>2, <3>3, <1>b DEF OwnerInv, OwnDialed, Carrying
        <5> QED
          BY <2>2, <3>3, <5>1, <1>d DEF Key
      <4>2. ConnStage'[hand[g]] = "carried" /\ ConnHome'[hand[g]] = {Key(g)}
        BY <1>a, <3>1, <4>1 DEF LifeKnown
      <4>3. ConnUsers'[hand[g]] # {}
        BY <2>3, <3>3
      <4> QED
        BY <2>3, <2>4, <3>1, <4>2, <4>3 DEF Life!Left, Life!Stays
    <3>4. ASSUME \A h \in Goroutine \ {g} : hand[h] # hand[g]
          PROVE  Life!Closed(hand[g])
      <4>1. \A h \in Goroutine : hand'[h] # hand[g]
        BY <2>2, <3>4
      <4>2. ConnStage'[hand[g]] = "gone" /\ ConnHome'[hand[g]] = {} /\ ConnUsers'[hand[g]] = {}
        BY <1>a, <2>2, <3>2, <4>1 DEF LifeKnown
      <4>3. \A h, i \in ConnUsers[hand[g]] : h = i
        BY <2>3, <3>4
      <4> QED
        BY <2>4, <3>1, <4>2, <4>3 DEF Life!Closed, Life!Gone
    <3>5. SharedPooled'
      BY <2>1, <2>2, <2>6, <3>1, <1>d DEF SharedPooled, Key
    <3> HIDE DEF Moves
    <3> QED
      BY <2>1, <2>2, <3>1, <3>3, <3>4, <3>5, <1>f
  <2> QED
    BY <2>5, <2>6
<1>13. ASSUME NEW g \in Goroutine, CloseTransports(g)
       PROVE  SharedPooled' /\ \A c \in Conn : Moves(c)
  <2>1. /\ pc[g] = "closing" /\ pc' = [pc EXCEPT ![g] = "idle"]
        /\ pool' = [a \in Addr |-> pool[a] \cap InUse]
        /\ open' = open \ ((UNION {pool[a] : a \in Addr}) \ InUse)
        /\ UNCHANGED <<cachedConnections, dialed, url, hand>>
        /\ hand[g] = NoConn
    BY <1>13, <1>b DEF CloseTransports, Carrying, Dialing
  <2>2. ASSUME NEW a \in Addr, NEW c \in pool[a] \ InUse
        PROVE  Life!Closed(c)
    <3>1. /\ c \in Conn /\ c <= dialed /\ c \notin open'
          /\ \A b \in Addr : cachedConnections[b] # c /\ c \notin pool'[b]
          /\ \A h \in Goroutine : hand[h] # c
      BY <2>1 DEF OwnerInv, Numbered, ExclusiveConn, InUse
    <3>2. ConnStage[c] = "pooled" /\ ConnUsers[c] = {}
      BY <1>a, <3>1 DEF LifeKnown, ConnUsers
    <3>3. ConnStage'[c] = "gone" /\ ConnHome'[c] = {} /\ ConnUsers'[c] = {}
      BY <1>a, <2>1, <3>1 DEF LifeKnown
    <3> QED
      BY <3>1, <3>2, <3>3 DEF Life!Closed, Life!Gone
  <2>3. ASSUME NEW c \in Conn, \A a \in Addr : c \notin pool[a] \ InUse
        PROVE  Life!Unmoved(c)
    <3>1. Kept(c)
      BY <2>1, <2>3, <1>b DEF Kept, Dialing
    <3> QED
      BY <3>1, Untouched
  <2>4. SharedPooled'
    <3>1. \A h \in Goroutine : hand[h] # NoConn => hand[h] \in InUse /\ Key(h) \in Addr
      BY <1>b DEF InUse, Carrying, Dialing, InRequest, Label
    <3> QED
      BY <2>1, <3>1 DEF SharedPooled, Key
  <2> QED
    BY <2>2, <2>3, <2>4
<1>14. ASSUME NEW a \in Addr, NEW k \in Conn, IdleClose(a, k)
       PROVE  SharedPooled' /\ \A c \in Conn : Moves(c)
  <2>1. /\ k \in pool[a] \ InUse
        /\ pool' = [pool EXCEPT ![a] = @ \ {k}] /\ open' = open \ {k}
        /\ UNCHANGED <<cachedConnections, dialed, pc, url, hand>>
    BY <1>14 DEF IdleClose
  <2>2. Life!Closed(k)
    <3>1. /\ k <= dialed /\ k \notin open'
          /\ \A b \in Addr : cachedConnections[b] # k /\ k \notin pool'[b]
          /\ \A h \in Goroutine : hand[h] # k
      BY <2>1 DEF OwnerInv, Numbered, ExclusiveConn, InUse
    <3>2. ConnStage[k] = "pooled" /\ ConnUsers[k] = {}
      BY <1>a, <2>1, <3>1 DEF LifeKnown, ConnUsers
    <3>3. ConnStage'[k] = "gone" /\ ConnHome'[k] = {} /\ ConnUsers'[k] = {}
      BY <1>a, <2>1, <3>1 DEF LifeKnown
    <3> QED
      BY <3>1, <3>2, <3>3 DEF Life!Closed, Life!Gone
  <2>3. ASSUME NEW c \in Conn \ {k}
        PROVE  Life!Unmoved(c)
    <3>1. Kept(c)
      BY <2>1 DEF Kept
    <3> QED
      BY <3>1, Untouched
  <2>4. SharedPooled'
    BY <2>1 DEF SharedPooled, Key, InUse
  <2> QED
    BY <2>2, <2>3, <2>4
<1>15. ASSUME (\E a \in Addr : ParkedDies(a)) \/ UNCHANGED vars
       PROVE  SharedPooled' /\ \A c \in Conn : Moves(c)
  <2>1. open' \subseteq open /\ UNCHANGED <<cachedConnections, pool, dialed, pc, url, hand>>
    BY <1>15 DEF ParkedDies, vars
  <2>2. ASSUME NEW c \in Conn
        PROVE  Life!Unmoved(c)
    <3>1. Kept(c)
      BY <2>1 DEF Kept
    <3> QED
      BY <3>1, Untouched
  <2>3. SharedPooled'
    BY <2>1 DEF SharedPooled, Key
  <2> QED
    BY <2>2, <2>3
<1>16. SharedPooled' /\ \A c \in Conn : Moves(c)
  <2> HIDE DEF Moves
  <2> QED
    BY <1>1, <1>2, <1>3, <1>4, <1>5, <1>6, <1>7, <1>8, <1>9, <1>10, <1>11, <1>12, <1>13,
       <1>14, <1>15
    DEF Next, Transport, DialStep, HandshakeStep, CheckPin, Store
<1> QED
  BY <1>16 DEF Life!Next

\* Every connection dialTLS makes lives as ConnLife says, in every interleaving of
\* requests with CloseIdleConnections, whatever fails.
THEOREM ConnsLiveTheirLives ==
  ASSUME SameNames
  PROVE  Spec => ImplementsLife
<1>1. Init => SharedPooled /\ Life!Init
  <2> SUFFICES ASSUME Init
               PROVE  SharedPooled /\ Life!Init
    OBVIOUS
  <2>1. MaxConn \in Nat
    BY RoundTripperAssumption DEF RoundTripperAssumption
  <2>2. SharedPooled
    BY DEF Init, SharedPooled
  <2>3. \A c \in Conn : c > dialed /\ c # NoConn
    BY <2>1 DEF Init, Conn, NoConn
  <2>4. Life!Init
    BY <2>3 DEF Init, Life!Init, ConnStage, StageOf, ConnHome, ConnUsers
  <2> QED
    BY <2>2, <2>4
<1>2. TypeInv /\ LockInv /\ CacheInv /\ ViaInv /\ OwnerInv /\ SharedPooled /\ [Next]_vars
        => SharedPooled' /\ Life!Next
  BY LifeStep, SameNames
<1> QED
  BY <1>1, <1>2, TypeInvariant, LockInvariant, CacheInvariant, ViaInvariant, OwnerInvariant,
     SameNames, PTL
  DEF Spec, ImplementsLife, Life!Spec

-----------------------------------------------------------------------------
(***************************************************************************)
(* Protocols.  An https URL and an http one may share a key, since          *)
(* getDialTLSAddr ignores the scheme, and then the HTTP/1.1 transport built *)
(* for the one serves the other, whatever its server negotiates.            *)
(***************************************************************************)
PlainKey(a) == \E u \in URL : u.scheme = "http" /\ GetDialTLSAddr(u) = a

PlainApart == \A u \in URL : u.scheme = "https" => ~PlainKey(GetDialTLSAddr(u))

\* A server negotiates the same protocol every time.
OneProtocol == \A a \in Addr : \A p, q \in Negotiable(a) : p = q

\* c speaks what the server at a negotiates, and a is dialled by https only.
Speaks(c, a) == proto[c] \in Negotiable(a) /\ ~PlainKey(a)

SpeaksInv ==
  /\ \A a \in Addr : cachedTransports[a] # NoTransport =>
       PlainKey(a) \/ cachedTransports[a] \in Negotiable(a)
  /\ \A a \in Addr : cachedConnections[a] # NoConn =>
       Speaks(cachedConnections[a], a) /\ cachedTransports[a] # NoTransport
  /\ \A a \in Addr : \A c \in pool[a] : Speaks(c, a) /\ cachedTransports[a] # NoTransport
  /\ \A g \in Goroutine : pc[g] \in {"pin", "install", "exchange"} => Speaks(hand[g], Key(g))
  /\ \A g \in Goroutine : pc[g] = "buildPlain" => PlainKey(Key(g))

LEMMA SpeaksStep ==
  ASSUME SameNames, PlainApart, TypeInv, LockInv, CacheInv, ViaInv, OwnerInv, SpeaksInv,
         [Next]_vars
  PROVE  SpeaksInv'
<1> USE DEF TypeInv, TypeOK, NoConn, Goto, Finish, caches, conns, locals
<1>a. \A a \in Addr :
        cachedTransports[a] # NoTransport => cachedTransports'[a] = cachedTransports[a]
  BY TransportsStep DEF TransportsKept
<1>b. \A g \in Goroutine : pc[g] \in InRequest => Key(g) \in Addr
  BY AddrType
<1>c. \A g \in Goroutine : pc[g] \in DialLabel =>
        DialAddr(g) = Key(g) /\ Key(g) \in Addr /\ ~PlainKey(Key(g))
  BY <1>b, DialAddrIsKey DEF CacheInv, DialLabel, InRequest, Label, PlainApart, UrlKnown, Key
\* A step that changes no protocol, and moves connections only along their key.
<1>d. ASSUME NEW g \in Goroutine, UNCHANGED <<proto, cachedTransports>>,
             \A a \in Addr : cachedConnections'[a] \in {NoConn, cachedConnections[a]},
             \A a \in Addr : \A c \in pool'[a] :
               c \in pool[a] \/ (a = Key(g) /\ Speaks(c, a) /\ cachedTransports[a] # NoTransport),
             \A h \in Goroutine \ {g} : pc'[h] = pc[h] /\ url'[h] = url[h] /\ hand'[h] = hand[h],
             pc'[g] \in {"pin", "install", "exchange"} =>
               Speaks(hand'[g], Key(g)) /\ url'[g] = url[g],
             pc'[g] # "buildPlain"
      PROVE  SpeaksInv'
  BY <1>d DEF SpeaksInv, Speaks, Key
<1>1. ASSUME NEW g \in Goroutine, NEW u \in URL, RoundTrip(g, u)
      PROVE  SpeaksInv'
  BY <1>1, <1>d DEF RoundTrip
<1>2. ASSUME NEW g \in Goroutine,
             \/ LockTransports(g) \/ LookupHit(g) \/ LookupProbe(g)
             \/ LookupInvalidScheme(g) \/ Pick(g)
      PROVE  SpeaksInv'
  BY <1>2, <1>d DEF LockTransports, LookupHit, LookupProbe, LookupInvalidScheme, Pick
<1>3. ASSUME NEW g \in Goroutine, LookupPlain(g)
      PROVE  SpeaksInv'
  <2>1. PlainKey(Key(g))
    BY <1>3 DEF LookupPlain, PlainKey, Key, UrlKnown, InRequest, Label
  <2> QED
    BY <1>3, <2>1 DEF LookupPlain, SpeaksInv, Speaks, Key
<1>4. ASSUME NEW g \in Goroutine, BuildPlain(g)
      PROVE  SpeaksInv'
  BY <1>4, <1>b DEF BuildPlain, SpeaksInv, Speaks, Key, InRequest, Label, CacheInv
<1>5. ASSUME NEW g \in Goroutine, UsePooled(g)
      PROVE  SpeaksInv'
  <2>1. PICK c \in pool[Key(g)] : hand' = [hand EXCEPT ![g] = c]
    BY <1>5 DEF UsePooled
  <2>2. Key(g) \in Addr /\ Speaks(c, Key(g))
    BY <1>5, <1>b DEF UsePooled, InRequest, Label, SpeaksInv
  <2>3. \A a \in Addr : pool'[a] \subseteq pool[a]
    BY <1>5, <2>2 DEF UsePooled
  <2> QED
    BY <1>5, <2>1, <2>2, <2>3, <1>d DEF UsePooled
<1>6. ASSUME NEW g \in Goroutine,
             \/ CallDialTLS(g) \/ Quic(g) \/ PlainExchange(g) \/ SchemeRefused(g)
             \/ Expire(g) \/ LockConns(g)
      PROVE  SpeaksInv'
  BY <1>6, <1>d DEF CallDialTLS, Quic, PlainExchange, SchemeRefused, Expire, LockConns
<1>7. ASSUME NEW g \in Goroutine, TakeParked(g)
      PROVE  SpeaksInv'
  <2> DEFINE c == cachedConnections[Key(g)]
  <2>1. /\ pc[g] = "dialTLS" /\ Key(g) \in Addr /\ c # NoConn
        /\ cachedConnections' = [cachedConnections EXCEPT ![Key(g)] = NoConn]
    BY <1>7, <1>c DEF TakeParked, DialLabel
  <2>2. mode[g] = "callback" /\ Speaks(c, Key(g)) /\ cachedTransports[Key(g)] # NoTransport
    BY <2>1 DEF CacheInv, LockInv, SpeaksInv, DialLabel, Mode
  <2>3. /\ hand' = [hand EXCEPT ![g] = c] /\ pc' = [pc EXCEPT ![g] = "exchange"]
        /\ pool' = IF via[g] = "h2" THEN [pool EXCEPT ![Key(g)] = @ \cup {c}] ELSE pool
        /\ UNCHANGED <<proto, cachedTransports, url>>
    BY <1>7, <1>c, <2>1, <2>2 DEF TakeParked, ReturnConn, DialLabel
  <2> HIDE DEF c
  <2> QED
    BY <2>1, <2>2, <2>3, <1>d
<1>8. ASSUME NEW g \in Goroutine,
             \/ Dial(g) \/ DialFails(g) \/ DialPanics(g) \/ HandshakeFails(g)
             \/ PinMismatch(g) \/ BadPinHandler(g) \/ Recover(g)
      PROVE  SpeaksInv'
  BY <1>8, <1>d
  DEF Dial, DialFails, DialPanics, HandshakeFails, PinMismatch, BadPinHandler, Recover,
      ReturnError, Panic
<1>9. ASSUME NEW g \in Goroutine, Handshake(g)
      PROVE  SpeaksInv'
  <2>1. PICK p \in Negotiable(Key(g)) : proto' = [proto EXCEPT ![hand[g]] = p]
    BY <1>9, <1>c DEF Handshake, DialLabel
  <2>2. /\ pc[g] = "handshake" /\ hand[g] \in Conn /\ pc' = [pc EXCEPT ![g] = "pin"]
        /\ UNCHANGED <<caches, pool, url, hand>>
    BY <1>9 DEF Handshake, HandFull
  <2>3. /\ \A a \in Addr : cachedConnections[a] # hand[g] /\ hand[g] \notin pool[a]
        /\ \A h \in Goroutine \ {g} : hand[h] # hand[g]
    BY <2>2 DEF OwnerInv, OwnDialed, Dialing, ExclusiveConn, Conn
  <2>4. \A c \in Conn, a \in Addr : c # hand[g] /\ Speaks(c, a) => Speaks(c, a)'
    BY <2>1 DEF Speaks
  <2>5. Speaks(hand[g], Key(g))'
    BY <2>1, <2>2, <1>c DEF Speaks, DialLabel, Key
  <2> QED
    BY <2>1, <2>2, <2>3, <2>4, <2>5, <1>b DEF SpeaksInv, Key, HandFull, InRequest, Label
<1>10. ASSUME NEW g \in Goroutine, PinMatches(g)
       PROVE  SpeaksInv'
  BY <1>10, <1>d DEF PinMatches, SpeaksInv
<1>11. ASSUME NEW g \in Goroutine, ReturnDialed(g)
       PROVE  SpeaksInv'
  <2>1. /\ pc[g] = "install" /\ Key(g) \in Addr /\ cachedTransports[Key(g)] # NoTransport
        /\ mode[g] = "callback" /\ Speaks(hand[g], Key(g))
    BY <1>11, <1>c DEF ReturnDialed, ReturnConn, CacheInv, SpeaksInv, DialLabel
  <2>2. /\ hand' = [hand EXCEPT ![g] = hand[g]] /\ pc' = [pc EXCEPT ![g] = "exchange"]
        /\ pool' = IF via[g] = "h2" THEN [pool EXCEPT ![Key(g)] = @ \cup {hand[g]}] ELSE pool
        /\ UNCHANGED <<proto, caches, url>>
    BY <1>11, <2>1 DEF ReturnDialed, ReturnConn
  <2> QED
    BY <2>1, <2>2, <1>d
<1>12. ASSUME NEW g \in Goroutine, Install(g)
       PROVE  SpeaksInv'
  <2>1. /\ pc[g] = "install" /\ Key(g) \in Addr /\ Speaks(hand[g], Key(g))
        /\ mode[g] = "probe" /\ proto[hand[g]] # NoTransport
    BY <1>12, <1>c DEF Install, CacheInv, LockInv, SpeaksInv, DialLabel, Mode
  <2>2. /\ hand' = [hand EXCEPT ![g] = NoConn] /\ pc' = [pc EXCEPT ![g] = "pick"]
        /\ cachedTransports' = [cachedTransports EXCEPT ![Key(g)] = proto[hand[g]]]
        /\ cachedConnections' = [cachedConnections EXCEPT ![Key(g)] = hand[g]]
        /\ UNCHANGED <<pool, proto, url>>
    BY <1>12, <1>c, <2>1 DEF Install, Stash, ReturnNegotiated, DialLabel
  <2> QED
    BY <2>1, <2>2, <1>a DEF SpeaksInv, Speaks, Key
<1>13. ASSUME NEW g \in Goroutine, Exchange(g)
       PROVE  SpeaksInv'
  <2>1. /\ pc[g] = "exchange" /\ Key(g) \in Addr /\ Speaks(hand[g], Key(g))
        /\ cachedTransports[Key(g)] # NoTransport
    BY <1>13, <1>b DEF Exchange, ViaInv, SpeaksInv, InRequest, Label
  <2>2. /\ pc' = [pc EXCEPT ![g] = "idle"] /\ hand' = [hand EXCEPT ![g] = NoConn]
        /\ url' = [url EXCEPT ![g] = NoURL]
        /\ \E keep \in BOOLEAN :
             pool' = [pool EXCEPT ![Key(g)] =
                        IF keep THEN @ \cup {hand[g]} ELSE @ \ {hand[g]}]
        /\ UNCHANGED <<proto, caches>>
    BY <1>13 DEF Exchange
  <2> QED
    BY <2>1, <2>2, <1>d
<1>14. ASSUME NEW g \in Goroutine, CloseIdleConnections(g) \/ CloseTransports(g)
       PROVE  SpeaksInv'
  BY <1>14, <1>d DEF CloseIdleConnections, CloseTransports
<1>15. ASSUME NEW a \in Addr, ParkedDies(a) \/ \E c \in Conn : IdleClose(a, c)
       PROVE  SpeaksInv'
  BY <1>15 DEF ParkedDies, IdleClose, SpeaksInv, Speaks, Key
<1>16. CASE UNCHANGED vars
  BY <1>16 DEF vars, SpeaksInv, Speaks, Key
<1> QED
  BY <1>1, <1>2, <1>3, <1>4, <1>5, <1>6, <1>7, <1>8, <1>9, <1>10, <1>11, <1>12, <1>13,
     <1>14, <1>15, <1>16
  DEF Next, Lookup, Transport, DialStep, HandshakeStep, CheckPin, Store

LEMMA SpeaksInvariant ==
  ASSUME SameNames, PlainApart
  PROVE  Spec => []SpeaksInv
<1>1. Init => SpeaksInv
  BY DEF Init, SpeaksInv
<1>2. TypeInv /\ LockInv /\ CacheInv /\ ViaInv /\ OwnerInv /\ SpeaksInv /\ [Next]_vars
        => SpeaksInv'
  BY SpeaksStep, SameNames, PlainApart
<1> QED
  BY <1>1, <1>2, TypeInvariant, LockInvariant, CacheInvariant, ViaInvariant, OwnerInvariant,
     SameNames, PlainApart, PTL
  DEF Spec

\* A request speaks to its server the protocol the server negotiated, where
\* servers keep to one and no http URL shares the key of an https one.
THEOREM ProtocolsAgree ==
  ASSUME SameNames, PlainApart, OneProtocol
  PROVE  Spec => []ProtocolAgrees
<1>1. TypeInv /\ ViaInv /\ SpeaksInv => ProtocolAgrees
  <2> SUFFICES ASSUME TypeInv, ViaInv, SpeaksInv
               PROVE  ProtocolAgrees
    OBVIOUS
  <2>1. \A a \in Addr, c \in Conn :
          Speaks(c, a) /\ cachedTransports[a] # NoTransport => proto[c] = cachedTransports[a]
    BY OneProtocol DEF SpeaksInv, Speaks, OneProtocol
  <2>2. \A g \in Goroutine : pc[g] = "exchange" => Key(g) \in Addr /\ hand[g] \in Conn
    BY AddrType DEF InRequest, Label, TypeInv, HandFull
  <2> QED
    BY <2>1, <2>2 DEF ProtocolAgrees, SpeaksInv, ViaInv, TypeInv, TypeOK, NoConn
<1> QED
  BY <1>1, TypeInvariant, ViaInvariant, SpeaksInvariant, SameNames, PlainApart, PTL

-----------------------------------------------------------------------------
(***************************************************************************)
(* The bad pin handler has not run while the probe is under way, and the    *)
(* panic of a probe is not mistaken for a bad pin when it is recovered.     *)
(***************************************************************************)
ReportInv ==
  /\ \A g \in Goroutine : pc[g] \in {"lockTransports", "lookup"} => ~handlerRan[g]
  /\ \A g \in Goroutine : mode[g] = "probe" =>
       /\ ~handlerRan[g]
       /\ pc[g] = "panicked" => result[g] # "badPin"

LEMMA ReportStep ==
  ASSUME TypeInv, LockInv, ReportInv, [Next]_vars
  PROVE  ReportInv'
<1> USE DEF TypeInv, TypeOK, ReportInv, Label, Mode, Goto, Finish, locals
<1>1. ASSUME NEW g \in Goroutine, NEW u \in URL, RoundTrip(g, u)
      PROVE  ReportInv'
  BY <1>1 DEF RoundTrip, LockInv, DialLabel
<1>2. ASSUME NEW g \in Goroutine, LockTransports(g) \/ Lookup(g) \/ BuildPlain(g) \/ Pick(g)
      PROVE  ReportInv'
  BY <1>2
  DEF LockTransports, Lookup, LookupHit, LookupPlain, LookupProbe, LookupInvalidScheme,
      BuildPlain, Pick
<1>3. ASSUME NEW g \in Goroutine, Transport(g) \/ LockConns(g)
      PROVE  ReportInv'
  BY <1>3
  DEF Transport, UsePooled, CallDialTLS, Quic, PlainExchange, SchemeRefused, Expire, LockConns
<1>4. ASSUME NEW g \in Goroutine, DialStep(g)
      PROVE  ReportInv'
  BY <1>4 DEF DialStep, TakeParked, Dial, DialFails, DialPanics, ReturnConn, ReturnError, Panic
<1>5. ASSUME NEW g \in Goroutine, HandshakeStep(g) \/ CheckPin(g)
      PROVE  ReportInv'
  BY <1>5
  DEF HandshakeStep, Handshake, HandshakeFails, CheckPin, PinMatches, PinMismatch, ReturnError
<1>6. ASSUME NEW g \in Goroutine, Store(g)
      PROVE  ReportInv'
  BY <1>6
  DEF Store, ReturnDialed, Install, Stash, ReturnConn, ReturnNegotiated, ReturnError, Panic
<1>7. ASSUME NEW g \in Goroutine,
             \/ BadPinHandler(g) \/ Exchange(g) \/ Recover(g)
             \/ CloseIdleConnections(g) \/ CloseTransports(g)
      PROVE  ReportInv'
  BY <1>7 DEF BadPinHandler, Exchange, Recover, CloseIdleConnections, CloseTransports
<1>8. ASSUME NEW a \in Addr, ParkedDies(a) \/ \E c \in Conn : IdleClose(a, c)
      PROVE  ReportInv'
  BY <1>8 DEF ParkedDies, IdleClose
<1>9. CASE UNCHANGED vars
  BY <1>9 DEF vars
<1> QED
  BY <1>1, <1>2, <1>3, <1>4, <1>5, <1>6, <1>7, <1>8, <1>9 DEF Next

\* The handler a user registers for bad pins runs for every bad pin a probe
\* finds, before the request returns, and for nothing else.
THEOREM BadPinsAreReported == Spec => ProbeReportsBadPin
<1> DEFINE Reports ==
      \A g \in Goroutine : mode[g] = "probe" /\ pc'[g] = "idle" =>
        (handlerRan'[g] <=> result'[g] = "badPin")
<1>1. Init => ReportInv
  BY DEF Init, ReportInv
<1>2. ASSUME TypeInv, LockInv, ReportInv, [Next]_vars
      PROVE  Reports
  <2> SUFFICES ASSUME NEW h \in Goroutine, mode[h] = "probe", pc'[h] = "idle"
               PROVE  handlerRan'[h] <=> result'[h] = "badPin"
    OBVIOUS
  <2> USE DEF TypeInv, TypeOK, Label, Mode, Goto, Finish, locals
  <2>1. /\ pc[h] \in DialLabel \cup {"badPinHandler", "panicked"}
        /\ ~handlerRan[h]
        /\ pc[h] = "panicked" => result[h] # "badPin"
    BY <1>2 DEF LockInv, ReportInv
  <2>2. pc[h] # "idle"
    BY <2>1 DEF DialLabel
  <2>3. ASSUME NEW g \in Goroutine, NEW u \in URL, RoundTrip(g, u)
        PROVE  FALSE
    BY <1>2, <2>2, <2>3 DEF RoundTrip
  <2>4. ASSUME NEW g \in Goroutine,
               \/ LockTransports(g) \/ Lookup(g) \/ BuildPlain(g) \/ Pick(g) \/ Transport(g)
               \/ LockConns(g) \/ CloseIdleConnections(g) \/ CloseTransports(g) \/ Exchange(g)
        PROVE  FALSE
    BY <1>2, <2>1, <2>2, <2>4
    DEF LockTransports, Lookup, LookupHit, LookupPlain, LookupProbe, LookupInvalidScheme,
        BuildPlain, Pick, Transport, UsePooled, CallDialTLS, Quic, PlainExchange,
        SchemeRefused, Expire, LockConns, CloseIdleConnections, CloseTransports, Exchange,
        DialLabel
  <2>5. ASSUME NEW g \in Goroutine, DialStep(g) \/ HandshakeStep(g) \/ CheckPin(g)
        PROVE  handlerRan'[h] <=> result'[h] = "badPin"
    BY <1>2, <2>1, <2>2, <2>5
    DEF DialStep, TakeParked, Dial, DialFails, DialPanics, HandshakeStep, Handshake,
        HandshakeFails, CheckPin, PinMatches, PinMismatch, ReturnConn, ReturnError, Panic
  <2>6. ASSUME NEW g \in Goroutine, Store(g)
        PROVE  FALSE
    BY <1>2, <2>1, <2>2, <2>6
    DEF Store, ReturnDialed, Install, ReturnConn, ReturnNegotiated, ReturnError, Panic
  <2>7. ASSUME NEW g \in Goroutine, BadPinHandler(g) \/ Recover(g)
        PROVE  handlerRan'[h] <=> result'[h] = "badPin"
    BY <1>2, <2>1, <2>2, <2>7 DEF BadPinHandler, Recover
  <2>8. ASSUME NEW a \in Addr, ParkedDies(a) \/ \E c \in Conn : IdleClose(a, c)
        PROVE  FALSE
    BY <2>2, <2>8 DEF ParkedDies, IdleClose
  <2>9. CASE UNCHANGED vars
    BY <2>2, <2>9 DEF vars
  <2> QED
    BY <1>2, <2>3, <2>4, <2>5, <2>6, <2>7, <2>8, <2>9 DEF Next
<1>3. TypeInv /\ LockInv /\ ReportInv /\ [Next]_vars => [Reports]_vars /\ ReportInv'
  BY <1>2, ReportStep
<1> QED
  BY <1>1, <1>3, TypeInvariant, LockInvariant, PTL DEF Spec, ProbeReportsBadPin

=============================================================================
