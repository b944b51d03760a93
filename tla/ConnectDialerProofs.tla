------------------------- MODULE ConnectDialerProofs -------------------------
(***************************************************************************)
(* The safety properties of ConnectDialer for any goroutines, proxies and   *)
(* number of connections.  HttpDialsReturn, a liveness property, is checked *)
(* by TLC only.                                                             *)
(*                                                                         *)
(* The invariant adds, to the properties, what a goroutine's place says of  *)
(* its connection: whether it has one, what is spoken on it, and whether    *)
(* another one may have it too, which is once it has been in the cache.     *)
(*                                                                         *)
(* Then the refinement: the dialer implements TunnelLife, whose stage of a  *)
(* connection the invariant and one more fact (SlotInv) determine.          *)
(***************************************************************************)
EXTENDS ConnectDialer, TLAPS

Shared == {cachedH2RawConn} \cup abandoned   \* connections that tunnels may share

\* What the place of a goroutine says of its connection.
Placed(g) ==
  /\ pc[g] \in {"idle", "lockCache", "lookup", "dial", "panicked"} => conn[g] = NoConn
  /\ pc[g] \in Alone \cup {"cachedConnect", "tunnel"} => conn[g] \in Raw
  /\ pc[g] \in {"connectHttp1", "awaitHttp1"} => proto[conn[g]] = "h1"
  /\ pc[g] \in {"cachedConnect", "connectHttp2", "lockStore", "storeClient", "storeRaw"} =>
       proto[conn[g]] = "h2"
  /\ pc[g] \in Alone => conn[g] \notin Shared
  /\ pc[g] = "cachedConnect" => conn[g] \in Shared
  /\ pc[g] = "tunnel" /\ proto[conn[g]] = "h2" => conn[g] \in Shared
  /\ pc[g] = "storeRaw" => cachedH2ClientConn = conn[g]

\* A connection that somebody has, had or cached was dialled.
Dialled ==
  \A c \in Raw :
    Users(c) # {} \/ c \in Shared => raw[c] # "unused"

DialerInv ==
  /\ TypeOK
  /\ CacheLockedBriefly
  /\ \A g \in Goroutine : Placed(g)
  /\ Dialled
  /\ CachePaired
  /\ Exclusive
  /\ OpenAccounted

-----------------------------------------------------------------------------
LEMMA DialerStep == DialerInv /\ [Next]_vars => DialerInv'
<1> SUFFICES ASSUME DialerInv, [Next]_vars
             PROVE  DialerInv'
  OBVIOUS
<1> USE ConnectDialerAssumption
    DEF DialerInv, Raw, NoConn, Goto, Alive, End, Fail, Users, Shared, Alone, Label,
        dialer, cache, net, locals
<1>1. ASSUME NEW p \in Proxy, NewConnectDialer(p)
      PROVE  DialerInv'
  <2>1. /\ built' = Outcome(p) /\ proxy' = IF Outcome(p) = "made" THEN p ELSE NoProxy
        /\ UNCHANGED <<cache, net, locals>>
    BY <1>1 DEF NewConnectDialer
  <2>2. Outcome(p) \in {"error", "panicked", "made"}
    BY DEF Outcome
  <2>3. TypeOK'
    BY <2>1, <2>2 DEF TypeOK
  <2> QED
    BY <2>1, <2>3 DEF CacheLockedBriefly, Placed, Dialled, CachePaired, Exclusive, OpenAccounted
<1>2. ASSUME NEW g \in Goroutine, NEW ends \in BOOLEAN, DialContext(g, ends)
      PROVE  DialerInv'
  BY <1>2
  DEF DialContext, TypeOK, CacheLockedBriefly, Placed, Dialled, CachePaired, Exclusive,
      OpenAccounted
<1>3. ASSUME NEW g \in Goroutine, LockCache(g)
      PROVE  DialerInv'
  <2>1. TypeOK'
    BY <1>3 DEF LockCache, TypeOK
  <2>2. CacheLockedBriefly'
    BY <1>3 DEF LockCache, TypeOK, CacheLockedBriefly, Placed
  <2>3. \A h \in Goroutine : Placed(h)'
    BY <1>3 DEF LockCache, TypeOK, CacheLockedBriefly, Placed, Dialled, Exclusive
  <2>4. Dialled'
    BY <1>3 DEF LockCache, TypeOK, Placed, Dialled
  <2>5. CachePaired'
    BY <1>3 DEF LockCache, TypeOK, CacheLockedBriefly, Placed, CachePaired
  <2>6. Exclusive'
    BY <1>3 DEF LockCache, TypeOK, Placed, Exclusive
  <2>7. OpenAccounted'
    BY <1>3 DEF LockCache, TypeOK, Placed, OpenAccounted
  <2> QED
    BY <2>1, <2>2, <2>3, <2>4, <2>5, <2>6, <2>7
<1>4. ASSUME NEW g \in Goroutine, TakeCached(g)
      PROVE  DialerInv'
  BY <1>4
  DEF TakeCached, Cached, TypeOK, CacheLockedBriefly, Placed, Dialled, CachePaired, Exclusive,
      OpenAccounted
<1>5. ASSUME NEW g \in Goroutine, PassOver(g)
      PROVE  DialerInv'
  BY <1>5
  DEF PassOver, TypeOK, CacheLockedBriefly, Placed, Dialled, CachePaired, Exclusive,
      OpenAccounted
<1>6. ASSUME NEW g \in Goroutine, CachedConnects(g)
      PROVE  DialerInv'
  BY <1>6
  DEF CachedConnects, TypeOK, CacheLockedBriefly, Placed, Dialled, CachePaired, Exclusive,
      OpenAccounted
<1>7. ASSUME NEW g \in Goroutine, CachedFails(g)
      PROVE  DialerInv'
  BY <1>7
  DEF CachedFails, TypeOK, CacheLockedBriefly, Placed, Dialled, CachePaired, Exclusive,
      OpenAccounted
<1>8. ASSUME NEW g \in Goroutine, Dial(g) \/ DialTLS(g) \/ DialSocks(g)
      PROVE  DialerInv'
  <2>1. PICK p \in {"h1", "h2", "socks"}, l \in {"connectHttp1", "connectHttp2", "tunnel"} :
          /\ NewRaw(g, p, l)
          /\ l = "connectHttp1" => p = "h1"
          /\ l = "connectHttp2" => p = "h2"
          /\ l = "tunnel" => p = "socks"
    BY <1>8 DEF Dial, DialTLS, DialSocks
  <2>2. PICK c \in Raw : /\ raw[c] = "unused"
                         /\ raw' = [raw EXCEPT ![c] = "open"]
                         /\ proto' = [proto EXCEPT ![c] = p]
                         /\ conn' = [conn EXCEPT ![g] = c]
                         /\ pc' = [pc EXCEPT ![g] = l]
    BY <2>1 DEF NewRaw
  <2>3. /\ pc[g] = "dial" /\ UNCHANGED <<dialer, cache, abandoned, bounded>>
        /\ up' \subseteq up \cup {g}
    BY <1>8 DEF Dial, DialTLS, DialSocks
  <2>4. Users(c) = {} /\ c \notin Shared
    BY <2>2 DEF Dialled
  <2>5. TypeOK'
    BY <2>1, <2>2, <2>3 DEF TypeOK
  <2>6. CacheLockedBriefly' /\ \A h \in Goroutine : Placed(h)'
    BY <2>1, <2>2, <2>3, <2>4 DEF TypeOK, CacheLockedBriefly, Placed
  <2>7. Dialled' /\ OpenAccounted'
    BY <2>2, <2>3, <2>4 DEF TypeOK, Placed, Dialled, OpenAccounted
  <2>8. CachePaired' /\ Exclusive'
    BY <2>1, <2>2, <2>3, <2>4 DEF TypeOK, Placed, CachePaired, Exclusive
  <2> QED
    BY <2>5, <2>6, <2>7, <2>8
<1>9. ASSUME NEW g \in Goroutine, DialFails(g)
      PROVE  DialerInv'
  BY <1>9
  DEF DialFails, TypeOK, CacheLockedBriefly, Placed, Dialled, CachePaired, Exclusive,
      OpenAccounted
<1>10. ASSUME NEW g \in Goroutine, DeadlineExceeded(g)
      PROVE  DialerInv'
  <2>1. TypeOK'
    <3>1. conn[g] \in Raw
      BY <1>10 DEF DeadlineExceeded, DeadlinePassed, Placed
    <3>2. CASE proxy.logger
      BY <1>10, <3>2 DEF DeadlineExceeded, TypeOK
    <3>3. CASE ~proxy.logger
      <4>1. /\ pc' = [pc EXCEPT ![g] = "panicked"]
            /\ abandoned' = abandoned \cup {conn[g]}
            /\ conn' = [conn EXCEPT ![g] = NoConn]
            /\ UNCHANGED <<raw, up, dialer, cache, proto, bounded>>
        BY <1>10, <3>3 DEF DeadlineExceeded
      <4> QED
        BY <3>1, <4>1 DEF TypeOK
    <3> QED
      BY <3>2, <3>3
  <2>2. CacheLockedBriefly'
    BY <1>10 DEF DeadlineExceeded, DeadlinePassed, TypeOK, CacheLockedBriefly, Placed
  <2>3. \A h \in Goroutine : Placed(h)'
    BY <1>10 DEF DeadlineExceeded, DeadlinePassed, TypeOK, CacheLockedBriefly, Placed, Dialled,
        Exclusive
  <2>4. Dialled'
    BY <1>10 DEF DeadlineExceeded, DeadlinePassed, TypeOK, Placed, Dialled
  <2>5. CachePaired'
    BY <1>10 DEF DeadlineExceeded, DeadlinePassed, TypeOK, CacheLockedBriefly, Placed, CachePaired
  <2>6. Exclusive'
    BY <1>10 DEF DeadlineExceeded, DeadlinePassed, TypeOK, Placed, Exclusive
  <2>7. OpenAccounted'
    BY <1>10 DEF DeadlineExceeded, DeadlinePassed, TypeOK, Placed, OpenAccounted
  <2> QED
    BY <2>1, <2>2, <2>3, <2>4, <2>5, <2>6, <2>7
<1>11. ASSUME NEW g \in Goroutine, WriteConnect(g)
      PROVE  DialerInv'
  BY <1>11
  DEF WriteConnect, TypeOK, CacheLockedBriefly, Placed, Dialled, CachePaired, Exclusive,
      OpenAccounted
<1>12. ASSUME NEW g \in Goroutine, Http1Connects(g)
      PROVE  DialerInv'
  BY <1>12
  DEF Http1Connects, TypeOK, CacheLockedBriefly, Placed, Dialled, CachePaired, Exclusive,
      OpenAccounted
<1>13. ASSUME NEW g \in Goroutine, ConnectFails(g)
      PROVE  DialerInv'
  BY <1>13
  DEF ConnectFails, TypeOK, CacheLockedBriefly, Placed, Dialled, CachePaired, Exclusive,
      OpenAccounted
<1>14. ASSUME NEW g \in Goroutine, Http2Connects(g)
      PROVE  DialerInv'
  BY <1>14
  DEF Http2Connects, TypeOK, CacheLockedBriefly, Placed, Dialled, CachePaired, Exclusive,
      OpenAccounted
<1>15. ASSUME NEW g \in Goroutine, StoreClient(g)
      PROVE  DialerInv'
  BY <1>15
  DEF StoreClient, TypeOK, CacheLockedBriefly, Placed, Dialled, CachePaired, Exclusive,
      OpenAccounted
<1>16. ASSUME NEW g \in Goroutine, StoreRaw(g)
      PROVE  DialerInv'
  <2>1. TypeOK'
    BY <1>16 DEF StoreRaw, TypeOK
  <2>2. CacheLockedBriefly'
    BY <1>16 DEF StoreRaw, TypeOK, CacheLockedBriefly, Placed
  <2>3. \A h \in Goroutine : Placed(h)'
    BY <1>16 DEF StoreRaw, TypeOK, CacheLockedBriefly, Placed, Dialled, Exclusive
  <2>4. Dialled'
    BY <1>16 DEF StoreRaw, TypeOK, Placed, Dialled
  <2>5. CachePaired'
    BY <1>16 DEF StoreRaw, TypeOK, CacheLockedBriefly, Placed, CachePaired
  <2>6. Exclusive'
    BY <1>16 DEF StoreRaw, TypeOK, Placed, Exclusive
  <2>7. OpenAccounted'
    BY <1>16 DEF StoreRaw, TypeOK, Placed, OpenAccounted
  <2> QED
    BY <2>1, <2>2, <2>3, <2>4, <2>5, <2>6, <2>7
<1>17. ASSUME NEW g \in Goroutine, Close(g)
      PROVE  DialerInv'
  <2>1. TypeOK'
    BY <1>17 DEF Close, TypeOK
  <2>2. CacheLockedBriefly'
    BY <1>17 DEF Close, TypeOK, CacheLockedBriefly, Placed
  <2>3. \A h \in Goroutine : Placed(h)'
    BY <1>17 DEF Close, TypeOK, CacheLockedBriefly, Placed, Dialled, Exclusive
  <2>4. Dialled'
    BY <1>17 DEF Close, TypeOK, Placed, Dialled
  <2>5. CachePaired'
    BY <1>17 DEF Close, TypeOK, CacheLockedBriefly, Placed, CachePaired
  <2>6. Exclusive'
    BY <1>17 DEF Close, TypeOK, Placed, Exclusive
  <2>7. OpenAccounted'
    BY <1>17 DEF Close, TypeOK, Placed, OpenAccounted
  <2> QED
    BY <2>1, <2>2, <2>3, <2>4, <2>5, <2>6, <2>7
<1>18. ASSUME NEW g \in Goroutine, Recover(g)
      PROVE  DialerInv'
  BY <1>18
  DEF Recover, TypeOK, CacheLockedBriefly, Placed, Dialled, CachePaired, Exclusive,
      OpenAccounted
<1>19. ASSUME NEW g \in Goroutine, RequestDone(g)
      PROVE  DialerInv'
  BY <1>19
  DEF RequestDone, TypeOK, CacheLockedBriefly, Placed, Dialled, CachePaired, Exclusive,
      OpenAccounted
<1>20. ASSUME NEW c \in Raw, ProxyCloses(c)
      PROVE  DialerInv'
  BY <1>20
  DEF ProxyCloses, TypeOK, CacheLockedBriefly, Placed, Dialled, CachePaired, Exclusive,
      OpenAccounted
<1>21. ASSUME NEW c \in Raw, ProxyDrains(c)
      PROVE  DialerInv'
  BY <1>21
  DEF ProxyDrains, TypeOK, CacheLockedBriefly, Placed, Dialled, CachePaired, Exclusive,
      OpenAccounted
<1>22. CASE UNCHANGED vars
  BY <1>22 DEF vars, TypeOK, CacheLockedBriefly, Placed, Dialled, CachePaired, Exclusive,
      OpenAccounted
<1> QED
  BY <1>1, <1>2, <1>3, <1>4, <1>5, <1>6, <1>7, <1>8, <1>9, <1>10, <1>11,
     <1>12, <1>13, <1>14, <1>15, <1>16, <1>17, <1>18, <1>19, <1>20, <1>21, <1>22
  DEF Next

LEMMA DialerInitially == Init => DialerInv
  BY ConnectDialerAssumption
  DEF Init, DialerInv, TypeOK, CacheLockedBriefly, Placed, Dialled, CachePaired, Exclusive,
      OpenAccounted, Users, Shared, Alone, Label, Alive, Raw, NoConn

LEMMA DialerInvariant == Spec => []DialerInv
  BY DialerInitially, DialerStep, PTL DEF Spec

-----------------------------------------------------------------------------
\* The types of the state, and that a dialer that was made has a proxy
\* (connect.go 98-151).
THEOREM DialerTypeCorrect == Spec => []TypeOK
<1>1. DialerInv => TypeOK
  BY DEF DialerInv
<1> QED
  BY <1>1, DialerInvariant, PTL

\* cacheH2Mu is held for the accesses to the cache and never while the proxy is
\* waited for (connect.go 209-226, 342-345).
THEOREM CacheIsLockedBriefly == Spec => []CacheLockedBriefly
<1>1. DialerInv => CacheLockedBriefly
  BY DEF DialerInv
<1> QED
  BY <1>1, DialerInvariant, PTL

\* Outside the two writes that replace them, the cached client connection runs on
\* the cached raw connection (connect.go 342-345).
THEOREM CacheIsPaired == Spec => []CachePaired
<1>1. DialerInv => CachePaired
  BY DEF DialerInv
<1> QED
  BY <1>1, DialerInvariant, PTL

\* Only HTTP/2 connections are cached, and only a cached one, or one that was, has
\* more than one dial or tunnel (connect.go 209-226, 299-354).
THEOREM ConnsAreExclusive == Spec => []Exclusive
<1>1. DialerInv => Exclusive
  BY DEF DialerInv
<1> QED
  BY <1>1, DialerInvariant, PTL

\* Every error path of DialContext closes its connection, but for the panic of a
\* nil logger and for the connection a newly cached one replaces (connect.go
\* 184-354).
THEOREM OpenIsAccounted == Spec => []OpenAccounted
<1>1. DialerInv => OpenAccounted
  BY DEF DialerInv
<1> QED
  BY <1>1, DialerInvariant, PTL

\* A step that ends tunnels ends those of one connection: of its only user, or of
\* an HTTP/2 connection to the proxy.
LEMMA LossStep == DialerInv /\ [Next]_vars => [LossExplained]_vars
<1> SUFFICES ASSUME DialerInv, [Next]_vars, NEW u \in up \ up'
             PROVE  \/ pc'[u] = "idle"
                    \/ raw'[conn[u]] = "lost"
                    \/ /\ proto[conn[u]] = "h2"
                       /\ \/ bounded[u] /\ ~bounded'[u]
                          \/ \E h \in Users(conn[u]) : pc[h] = "cachedConnect" /\ pc'[h] = "dial"
  BY DEF LossExplained
<1>1. u \in Goroutine /\ TypeOK /\ Exclusive /\ \A g \in Goroutine : Placed(g)
  BY DEF DialerInv, TypeOK
<1> USE DEF Goto, End, Fail, Users, locals
<1>2. ASSUME NEW g \in Goroutine, CachedFails(g)
      PROVE  /\ proto[conn[u]] = "h2"
             /\ \E h \in Users(conn[u]) : pc[h] = "cachedConnect" /\ pc'[h] = "dial"
  BY <1>1, <1>2 DEF CachedFails, Placed, TypeOK
<1>3. ASSUME NEW g \in Goroutine, u \in Users(conn[g]), pc[g] \in Alone \/ proto[conn[g]] # "h2",
             conn[g] \in Raw
      PROVE  u = g
  BY <1>1, <1>3 DEF Exclusive, Placed, Shared
<1>4. ASSUME NEW g \in Goroutine, DeadlineExceeded(g) \/ ConnectFails(g)
      PROVE  pc'[u] = "idle"
  <2>1. pc[g] \in Alone /\ u \in Users(conn[g]) /\ pc' = [pc EXCEPT ![g] = "idle"]
    BY <1>4 DEF DeadlineExceeded, DeadlinePassed, ConnectFails, Alone
  <2>2. conn[g] \in Raw
    BY <1>1, <2>1 DEF Placed
  <2> QED
    BY <1>1, <1>3, <2>1, <2>2 DEF TypeOK
<1>5. ASSUME NEW g \in Goroutine, Close(g)
      PROVE  pc'[u] = "idle"
  <2>1. pc[g] = "tunnel" /\ pc' = [pc EXCEPT ![g] = "idle"] /\ conn[g] \in Raw
    BY <1>1, <1>5 DEF Close, Placed
  <2>2. u = g \/ (u \in Users(conn[g]) /\ proto[conn[g]] # "h2")
    BY <1>5 DEF Close
  <2> QED
    BY <1>1, <1>3, <2>1, <2>2 DEF TypeOK
<1>6. ASSUME NEW g \in Goroutine, RequestDone(g)
      PROVE  proto[conn[u]] = "h2" /\ bounded[u] /\ ~bounded'[u]
  BY <1>1, <1>6 DEF RequestDone, TypeOK
<1>7. ASSUME NEW c \in Raw, ProxyCloses(c)
      PROVE  raw'[conn[u]] = "lost"
  BY <1>1, <1>7 DEF ProxyCloses, TypeOK
<1>8. ASSUME up \subseteq up'
      PROVE  FALSE
  BY <1>8
<1>9. ASSUME NEW g \in Goroutine,
             \/ \E ends \in BOOLEAN : DialContext(g, ends)
             \/ LockCache(g) \/ TakeCached(g) \/ PassOver(g) \/ CachedConnects(g)
             \/ Dial(g) \/ DialTLS(g) \/ DialSocks(g) \/ DialFails(g)
             \/ WriteConnect(g) \/ Http1Connects(g) \/ Http2Connects(g)
             \/ StoreClient(g) \/ StoreRaw(g) \/ Recover(g)
      PROVE  up \subseteq up'
  BY <1>9 DEF DialContext, LockCache, TakeCached, PassOver, CachedConnects, Dial, DialTLS,
              DialSocks, DialFails, WriteConnect, Http1Connects, Http2Connects, StoreClient,
              StoreRaw, Recover
<1>10. ASSUME \/ \E p \in Proxy : NewConnectDialer(p)
              \/ \E c \in Raw : ProxyDrains(c)
              \/ UNCHANGED vars
       PROVE  up \subseteq up'
  BY <1>10 DEF NewConnectDialer, ProxyDrains, vars
<1> QED
  BY <1>2, <1>4, <1>5, <1>6, <1>7, <1>8, <1>9, <1>10 DEF Next

\* Tunnels over HTTP/1.1 and SOCKS do not depend on other dials; one over HTTP/2
\* stops with the request it was dialled for, or when another dial's CONNECT on
\* its connection fails (connect.go 209-226, 254-297, 356-395).
THEOREM TunnelLossExplained == Spec => TunnelLoss
  BY DialerInvariant, LossStep, PTL DEF Spec, TunnelLoss

-----------------------------------------------------------------------------
(***************************************************************************)
(* The dialer implements TunnelLife.  The stage of a connection follows     *)
(* from who has it and where it is kept (LifeKnown).  One fact is missing   *)
(* from DialerInv: what the dialer forgot is not in the cache, and is not   *)
(* a tunnel's own (SlotInv).                                                *)
(***************************************************************************)
SlotInv ==
  /\ cachedH2RawConn \notin abandoned
  /\ \A g \in Goroutine :
       pc[g] = "tunnel" /\ proto[conn[g]] # "h2" => conn[g] \notin abandoned

LifeKnown ==
  /\ \A c \in Raw : raw[c] = "unused" => ConnStage[c] = "new" /\ ConnUsers[c] = {}
  /\ \A g \in Goroutine : pc[g] \in Alone =>
       ConnStage[conn[g]] = "making" /\ ConnUsers[conn[g]] = {g}
  /\ cachedH2RawConn # NoConn => ConnStage[cachedH2RawConn] = "cached"
  /\ \A c \in abandoned : ConnStage[c] = "forgotten"
  /\ \A g \in Goroutine : pc[g] = "tunnel" /\ proto[conn[g]] # "h2" =>
       ConnStage[conn[g]] = "own" /\ ConnUsers[conn[g]] = {g}
  /\ \A c \in Raw : raw[c] # "unused" /\ ConnUsers[c] = {} /\ c \notin Shared =>
       ConnStage[c] = "gone"

LEMMA LifeIsKnown ==
  /\ DialerInv /\ SlotInv => LifeKnown
  /\ (DialerInv /\ SlotInv)' => LifeKnown'
<1>1. DialerInv /\ SlotInv => LifeKnown
  <2> SUFFICES ASSUME DialerInv, SlotInv
               PROVE  LifeKnown
    OBVIOUS
  <2> USE DEF SlotInv, ConnStage, StageOf, ConnUsers, Users, Shared
  <2>a. /\ TypeOK /\ Dialled /\ Exclusive /\ \A g \in Goroutine : Placed(g)
        /\ Raw = 1 .. MaxRaw /\ NoConn = 0 /\ MaxRaw \in Nat
    BY ConnectDialerAssumption DEF DialerInv, Raw, NoConn
  <2>b. \A g \in Goroutine : conn[g] \in Raw => raw[conn[g]] # "unused"
    BY <2>a DEF Dialled
  <2>1. \A c \in Raw : raw[c] = "unused" => ConnStage[c] = "new" /\ ConnUsers[c] = {}
    BY <2>a DEF Dialled
  <2>2. ASSUME NEW g \in Goroutine, pc[g] \in Alone
        PROVE  ConnStage[conn[g]] = "making" /\ ConnUsers[conn[g]] = {g}
    <3>1. conn[g] \in Raw /\ conn[g] \notin Shared
      BY <2>2, <2>a DEF Placed
    <3>2. \A h \in Goroutine : conn[h] = conn[g] => h = g
      BY <2>a, <2>2, <3>1 DEF Exclusive
    <3> QED
      BY <2>2, <2>b, <3>1, <3>2
  <2>3. cachedH2RawConn # NoConn => ConnStage[cachedH2RawConn] = "cached"
    BY <2>a DEF TypeOK, Dialled
  <2>4. \A c \in abandoned : ConnStage[c] = "forgotten"
    BY <2>a DEF TypeOK, Dialled
  <2>5. ASSUME NEW g \in Goroutine, pc[g] = "tunnel", proto[conn[g]] # "h2"
        PROVE  ConnStage[conn[g]] = "own" /\ ConnUsers[conn[g]] = {g}
    <3>1. conn[g] \in Raw /\ conn[g] # cachedH2RawConn /\ conn[g] \notin abandoned
      BY <2>5, <2>a DEF Placed, Exclusive
    <3>2. \A h \in Goroutine : conn[h] = conn[g] => h = g
      BY <2>a, <2>5, <3>1 DEF Exclusive
    <3> QED
      BY <2>5, <2>b, <3>1, <3>2 DEF Alone
  <2>6. ASSUME NEW c \in Raw, raw[c] # "unused", ConnUsers[c] = {}, c \notin Shared
        PROVE  ConnStage[c] = "gone"
    BY <2>6
  <2> QED
    BY <2>1, <2>2, <2>3, <2>4, <2>5, <2>6 DEF LifeKnown
<1>2. (DialerInv /\ SlotInv)' => LifeKnown'
  BY <1>1, PTL
<1> QED
  BY <1>1, <1>2

\* A connection that nobody comes to or leaves, and that stays in or out of the
\* cache, lives on as it was.
Kept(c) ==
  /\ raw'[c] = "unused" <=> raw[c] = "unused"
  /\ raw'[c] \in {"open", "draining"} => raw[c] \in {"open", "draining"}
  /\ cachedH2RawConn' = c <=> cachedH2RawConn = c
  /\ c \in abandoned' <=> c \in abandoned
  /\ \A g \in Goroutine : conn'[g] = c <=> conn[g] = c
  /\ \A g \in Goroutine : conn[g] = c => (pc'[g] \in Alone <=> pc[g] \in Alone)

LEMMA Untouched ==
  ASSUME NEW c \in Raw, Kept(c)
  PROVE  Life!Unmoved(c)
<1> USE DEF Kept
<1>1. Users(c)' = Users(c)
  BY DEF Users
<1>2. (\E g \in Users(c)' : pc'[g] \in Alone) <=> (\E g \in Users(c) : pc[g] \in Alone)
  BY DEF Users
<1>3. ConnStage'[c] = ConnStage[c]
  BY <1>1, <1>2 DEF ConnStage, StageOf
<1>4. c \in ConnsAlive' => c \in ConnsAlive
  BY DEF ConnsAlive, Alive
<1> QED
  BY <1>1, <1>3, <1>4 DEF Life!Unmoved, ConnUsers

LEMMA TunnelStep ==
  ASSUME DialerInv, SlotInv, [Next]_vars
  PROVE  SlotInv' /\ Life!Next
<1> DEFINE Moves(c) ==
      \/ Life!Dialled(c) \/ Life!GivenUp(c) \/ Life!Kept(c) \/ Life!Cached(c)
      \/ Life!Replaced(c) \/ Life!Joined(c) \/ Life!Left(c) \/ Life!Ended(c)
      \/ Life!Unmoved(c)
<1>a. DialerInv' /\ LifeKnown
  BY DialerStep, LifeIsKnown
<1>b. SlotInv' => LifeKnown'
  BY <1>a, LifeIsKnown
<1>c. /\ TypeOK /\ Dialled /\ Exclusive /\ \A g \in Goroutine : Placed(g)
      /\ Raw = 1 .. MaxRaw /\ NoConn = 0 /\ MaxRaw \in Nat /\ 0 \notin Raw
  BY ConnectDialerAssumption DEF DialerInv, Raw, NoConn
<1> USE DEF TypeOK, Goto, Fail, dialer, cache, net, locals
\* A step that moves a goroutine, and no connection.
<1>d. ASSUME UNCHANGED <<cachedH2RawConn, net, conn>>,
             \A h \in Goroutine : pc'[h] \in Alone <=> pc[h] \in Alone
      PROVE  \A c \in Raw : Moves(c)
  <2>1. ASSUME NEW c \in Raw
        PROVE  Life!Unmoved(c)
    <3>1. Kept(c)
      BY <1>d DEF Kept
    <3> QED
      BY <3>1, Untouched
  <2> QED
    BY <2>1
\* A step of g that can move no connection but k.
<1>e. ASSUME NEW g \in Goroutine, NEW k \in Raw,
             conn[g] \in {NoConn, k}, conn'[g] \in {NoConn, k},
             \A h \in Goroutine \ {g} : pc'[h] = pc[h] /\ conn'[h] = conn[h],
             \A c \in Raw \ {k} :
               /\ raw'[c] = raw[c]
               /\ cachedH2RawConn' = c <=> cachedH2RawConn = c
               /\ c \in abandoned' <=> c \in abandoned,
             Moves(k)
      PROVE  \A c \in Raw : Moves(c)
  <2>1. ASSUME NEW c \in Raw \ {k}
        PROVE  Life!Unmoved(c)
    <3>1. Kept(c)
      BY <1>c, <1>e, <2>1 DEF Kept
    <3> QED
      BY <3>1, Untouched
  <2> QED
    BY <1>e, <2>1
<1>1. ASSUME NEW g \in Goroutine,
             \/ \E ends \in BOOLEAN : DialContext(g, ends)
             \/ LockCache(g) \/ PassOver(g) \/ CachedConnects(g) \/ DialFails(g)
             \/ WriteConnect(g) \/ Http2Connects(g) \/ StoreClient(g) \/ Recover(g)
             \/ RequestDone(g)
      PROVE  SlotInv' /\ \A c \in Raw : Moves(c)
  <2>1. /\ UNCHANGED <<cachedH2RawConn, net, conn>>
        /\ \A h \in Goroutine : pc'[h] \in Alone <=> pc[h] \in Alone
        /\ \A h \in Goroutine : pc'[h] = "tunnel" => pc[h] \in {"tunnel", "cachedConnect"}
    <3>1. CASE DialFails(g)
      <4>1. pc[g] = "dial" /\ conn[g] = NoConn
        BY <3>1, <1>c DEF DialFails, Placed
      <4> QED
        BY <3>1, <4>1, <1>c DEF DialFails, Alone
    <3>2. CASE ~DialFails(g)
      BY <1>1, <3>2, <1>c
      DEF DialContext, LockCache, PassOver, CachedConnects, WriteConnect, Http2Connects,
          StoreClient, Recover, RequestDone, Alone
    <3> QED
      BY <3>1, <3>2
  <2>2. SlotInv'
    BY <2>1, <1>c DEF SlotInv, Placed
  <2> HIDE DEF Moves
  <2> QED
    BY <2>1, <2>2, <1>d
<1>2. ASSUME NEW g \in Goroutine, TakeCached(g)
      PROVE  SlotInv' /\ \A c \in Raw : Moves(c)
  <2> DEFINE k == cachedH2RawConn
  <2>1. /\ pc[g] = "lookup" /\ pc' = [pc EXCEPT ![g] = "cachedConnect"]
        /\ k \in Raw /\ k # NoConn /\ conn[g] = NoConn
        /\ conn' = [conn EXCEPT ![g] = k] /\ UNCHANGED <<cachedH2RawConn, net>>
    BY <1>2, <1>c DEF TakeCached, Cached, Placed
  <2>2. SlotInv'
    BY <2>1, <1>c DEF SlotInv, Placed
  <2>3. Life!Joined(k)
    <3>1. ConnStage[k] = "cached" /\ ConnStage'[k] = "cached"
      BY <1>a, <1>b, <2>1, <2>2 DEF LifeKnown
    <3>2. g \notin ConnUsers[k] /\ ConnUsers'[k] = ConnUsers[k] \cup {g}
      BY <2>1, <1>c DEF ConnUsers, Users
    <3>3. k \in ConnsAlive' <=> k \in ConnsAlive
      BY <2>1 DEF ConnsAlive, Alive
    <3> QED
      BY <3>1, <3>2, <3>3 DEF Life!Joined
  <2>4. Moves(k)
    BY <2>3
  <2> HIDE DEF Moves
  <2> QED
    BY <2>1, <2>2, <2>4, <1>c, <1>e
<1>3. ASSUME NEW g \in Goroutine, CachedFails(g)
      PROVE  SlotInv' /\ \A c \in Raw : Moves(c)
  <2> DEFINE k == conn[g]
  <2>1. /\ pc[g] = "cachedConnect" /\ pc' = [pc EXCEPT ![g] = "dial"]
        /\ k \in Raw /\ k \in Shared /\ raw' = [raw EXCEPT ![k] = "closed"]
        /\ conn' = [conn EXCEPT ![g] = NoConn]
        /\ UNCHANGED <<cachedH2RawConn, proto, abandoned>>
    BY <1>3, <1>c DEF CachedFails, End, Placed
  <2>2. SlotInv'
    BY <2>1, <1>c DEF SlotInv
  <2>3. Life!Left(k)
    <3>1. ConnStage[k] \in {"cached", "forgotten"} /\ ConnStage'[k] = ConnStage[k]
      BY <1>a, <1>b, <1>c, <2>1, <2>2 DEF LifeKnown, Shared
    <3>2. g \in ConnUsers[k] /\ ConnUsers'[k] = ConnUsers[k] \ {g}
      BY <2>1, <1>c DEF ConnUsers, Users
    <3>3. k \notin ConnsAlive'
      BY <2>1, <1>c DEF ConnsAlive, Alive
    <3> QED
      BY <3>1, <3>2, <3>3 DEF Life!Left
  <2>4. Moves(k)
    BY <2>3
  <2>5. \A h \in Goroutine \ {g} : pc'[h] = pc[h] /\ conn'[h] = conn[h]
    BY <2>1
  <2>6. conn[g] = k /\ conn'[g] = NoConn /\ \A c \in Raw \ {k} : raw'[c] = raw[c]
    BY <2>1, <1>c
  <2> HIDE DEF Moves, k
  <2> QED
    BY <2>1, <2>2, <2>4, <2>5, <2>6, <1>e
<1>4. ASSUME NEW g \in Goroutine, Dial(g) \/ DialTLS(g) \/ DialSocks(g)
      PROVE  SlotInv' /\ \A c \in Raw : Moves(c)
  <2>1. PICK p \in {"h1", "h2", "socks"}, l \in {"connectHttp1", "connectHttp2", "tunnel"} :
          /\ NewRaw(g, p, l)
          /\ l = "tunnel" => p = "socks"
    BY <1>4 DEF Dial, DialTLS, DialSocks
  <2>2. PICK k \in Raw : /\ raw[k] = "unused"
                         /\ raw' = [raw EXCEPT ![k] = "open"]
                         /\ proto' = [proto EXCEPT ![k] = p]
                         /\ conn' = [conn EXCEPT ![g] = k]
                         /\ pc' = [pc EXCEPT ![g] = l]
    BY <2>1 DEF NewRaw
  <2>3. pc[g] = "dial" /\ UNCHANGED <<cachedH2RawConn, abandoned>> /\ conn[g] = NoConn
    BY <1>4, <1>c DEF Dial, DialTLS, DialSocks, Placed
  <2>4. Users(k) = {} /\ k \notin Shared
    BY <2>2, <1>c DEF Dialled
  <2>5. SlotInv'
    <3>1. \A h \in Goroutine \ {g} : conn[h] # k /\ conn'[h] = conn[h] /\ pc'[h] = pc[h]
      BY <2>2, <2>4, <1>c DEF Users
    <3>2. \A h \in Goroutine \ {g} : pc[h] = "tunnel" => proto'[conn[h]] = proto[conn[h]]
      BY <2>2, <3>1, <1>c DEF Placed
    <3>3. conn'[g] = k
      BY <2>2, <1>c
    <3> QED
      BY <2>3, <2>4, <3>1, <3>2, <3>3 DEF SlotInv, Shared
  <2>6. Life!Dialled(k)
    <3>1. ConnStage[k] = "new"
      BY <1>a, <2>2 DEF LifeKnown
    <3>2. ConnUsers'[k] = {g}
      BY <2>2, <2>4, <1>c DEF ConnUsers, Users
    <3>3. ConnStage'[k] \in {"making", "own"}
      <4>1. CASE l = "tunnel"
        BY <1>b, <2>1, <2>2, <2>5, <4>1, <1>c DEF LifeKnown
      <4>2. CASE l # "tunnel"
        BY <1>b, <2>2, <2>5, <4>2, <1>c DEF LifeKnown, Alone
      <4> QED
        BY <4>1, <4>2
    <3>4. k \in ConnsAlive'
      BY <2>2, <1>c DEF ConnsAlive, Alive
    <3> QED
      BY <3>1, <3>2, <3>3, <3>4 DEF Life!Dialled
  <2>7. Moves(k)
    BY <2>6
  <2>8. /\ \A h \in Goroutine \ {g} : pc'[h] = pc[h] /\ conn'[h] = conn[h]
        /\ conn'[g] = k /\ \A c \in Raw \ {k} : raw'[c] = raw[c]
    BY <2>2, <1>c
  <2> HIDE DEF Moves
  <2> QED
    BY <2>3, <2>5, <2>7, <2>8, <1>e
\* The end of a CONNECT that made no tunnel.
<1>5. ASSUME NEW g \in Goroutine, DeadlineExceeded(g) \/ ConnectFails(g)
      PROVE  SlotInv' /\ \A c \in Raw : Moves(c)
  <2> DEFINE k == conn[g]
  <2>1. /\ pc[g] \in Alone /\ k \in Raw /\ k \notin Shared /\ raw[k] # "unused"
        /\ \A h \in Goroutine \ {g} : conn[h] # k
    <3>1. pc[g] \in Alone
      BY <1>5 DEF DeadlineExceeded, DeadlinePassed, ConnectFails, Alone
    <3>2. k \in Raw /\ k \notin Shared
      BY <3>1, <1>c DEF Placed
    <3> QED
      BY <3>1, <3>2, <1>c DEF Exclusive, Shared, Dialled, Users
  <2>2. /\ conn' = [conn EXCEPT ![g] = NoConn] /\ UNCHANGED <<cachedH2RawConn, proto>>
        /\ pc' \in {[pc EXCEPT ![g] = "idle"], [pc EXCEPT ![g] = "panicked"]}
        /\ \/ raw' = [raw EXCEPT ![k] = "closed"] /\ abandoned' = abandoned
           \/ raw' = raw /\ abandoned' = abandoned \cup {k}
    BY <1>5 DEF DeadlineExceeded, ConnectFails, End
  <2>3. SlotInv'
    <3>1. \A h \in Goroutine : pc'[h] = "tunnel" => /\ pc[h] = "tunnel" /\ h # g
                                                  /\ conn'[h] = conn[h]
      BY <2>2, <1>c
    <3> QED
      BY <2>1, <2>2, <3>1 DEF SlotInv, Shared
  <2>4. Life!GivenUp(k)
    <3>1. ConnStage[k] = "making"
      BY <1>a, <2>1 DEF LifeKnown
    <3>2. ConnUsers'[k] = {}
      BY <2>1, <2>2, <1>c DEF ConnUsers, Users
    <3>3. CASE raw' = [raw EXCEPT ![k] = "closed"] /\ abandoned' = abandoned
      <4>1. raw'[k] # "unused" /\ k \notin Shared' /\ k \notin ConnsAlive'
        BY <2>1, <2>2, <3>3, <1>c DEF Shared, ConnsAlive, Alive
      <4>2. ConnStage'[k] = "gone"
        BY <1>b, <2>1, <2>3, <3>2, <4>1 DEF LifeKnown
      <4> QED
        BY <3>1, <3>2, <4>1, <4>2 DEF Life!GivenUp
    <3>4. CASE raw' = raw /\ abandoned' = abandoned \cup {k}
      <4>1. ConnStage'[k] = "forgotten"
        BY <1>b, <2>3, <3>4 DEF LifeKnown
      <4>2. k \in ConnsAlive' <=> k \in ConnsAlive
        BY <3>4 DEF ConnsAlive, Alive
      <4> QED
        BY <3>1, <3>2, <4>1, <4>2 DEF Life!GivenUp
    <3> QED
      BY <2>2, <3>3, <3>4
  <2>5. Moves(k)
    BY <2>4
  <2>6. /\ \A h \in Goroutine \ {g} : pc'[h] = pc[h] /\ conn'[h] = conn[h]
        /\ conn[g] = k /\ conn'[g] = NoConn
        /\ \A c \in Raw \ {k} :
             raw'[c] = raw[c] /\ (c \in abandoned' <=> c \in abandoned)
    BY <2>2, <1>c
  <2> HIDE DEF Moves, k
  <2> QED
    BY <2>1, <2>2, <2>3, <2>5, <2>6, <1>e
<1>6. ASSUME NEW g \in Goroutine, Http1Connects(g)
      PROVE  SlotInv' /\ \A c \in Raw : Moves(c)
  <2> DEFINE k == conn[g]
  <2>1. /\ pc[g] = "awaitHttp1" /\ pc' = [pc EXCEPT ![g] = "tunnel"]
        /\ UNCHANGED <<cachedH2RawConn, net, conn>>
        /\ k \in Raw /\ k \notin Shared /\ proto[k] # "h2"
    BY <1>6, <1>c DEF Http1Connects, Placed, Alone
  <2>2. SlotInv'
    BY <2>1, <1>c DEF SlotInv, Shared
  <2>3. Life!Kept(k)
    <3>1. ConnStage[k] = "making" /\ ConnStage'[k] = "own"
      BY <1>a, <1>b, <2>1, <2>2, <1>c DEF LifeKnown, Alone
    <3>2. ConnUsers'[k] = ConnUsers[k] /\ (k \in ConnsAlive' <=> k \in ConnsAlive)
      BY <2>1 DEF ConnUsers, Users, ConnsAlive, Alive
    <3> QED
      BY <3>1, <3>2 DEF Life!Kept, Life!Remains
  <2>4. Moves(k)
    BY <2>3
  <2>5. /\ \A h \in Goroutine \ {g} : pc'[h] = pc[h] /\ conn'[h] = conn[h]
        /\ conn[g] = k /\ conn'[g] = k
    BY <2>1
  <2> HIDE DEF Moves, k
  <2> QED
    BY <2>1, <2>2, <2>4, <2>5, <1>e
<1>7. ASSUME NEW g \in Goroutine, StoreRaw(g)
      PROVE  SlotInv' /\ \A c \in Raw : Moves(c)
  <2> DEFINE k == conn[g]
             old == cachedH2RawConn
  <2>1. /\ pc[g] = "storeRaw" /\ pc' = [pc EXCEPT ![g] = "tunnel"]
        /\ cachedH2RawConn' = k /\ abandoned' = abandoned \cup ({old} \ {NoConn})
        /\ UNCHANGED <<raw, proto, conn>>
        /\ k \in Raw /\ k # NoConn /\ k # old /\ k \notin abandoned /\ proto[k] = "h2"
    BY <1>7, <1>c DEF StoreRaw, Placed, Alone, Shared
  <2>2. SlotInv'
    <3>1. ASSUME NEW h \in Goroutine, pc'[h] = "tunnel", proto'[conn'[h]] # "h2"
          PROVE  conn'[h] \notin abandoned'
      <4>1. h # g /\ pc[h] = "tunnel" /\ conn[h] \notin abandoned /\ conn[h] \in Raw
        BY <2>1, <3>1, <1>c DEF SlotInv, Placed
      <4>2. conn[h] # old
        BY <2>1, <3>1, <4>1, <1>c DEF Exclusive
      <4> QED
        BY <2>1, <4>1, <4>2
    <3> QED
      BY <2>1, <3>1 DEF SlotInv
  <2>3. ConnUsers' = ConnUsers /\ ConnsAlive' = ConnsAlive
    BY <2>1 DEF ConnUsers, Users, ConnsAlive, Alive
  <2>4. ConnStage'[k] = "cached"
    BY <1>b, <2>1, <2>2 DEF LifeKnown
  <2>5. \A d \in Raw \ {k} : ConnStage'[d] # "cached"
    BY <2>1 DEF ConnStage, StageOf
  <2>6. Life!Cached(k)
    <3>1. ConnStage[k] = "making"
      BY <1>a, <2>1 DEF LifeKnown, Alone
    <3> QED
      BY <2>3, <2>4, <2>5, <3>1 DEF Life!Cached, Life!Remains
  <2>7. old \in Raw => Life!Replaced(old)
    <3> SUFFICES ASSUME old \in Raw
                 PROVE  Life!Replaced(old)
      OBVIOUS
    <3>1. ConnStage[old] = "cached" /\ ConnStage'[old] = "forgotten"
      BY <1>a, <1>b, <1>c, <2>1, <2>2 DEF LifeKnown
    <3> QED
      BY <2>1, <2>3, <2>4, <3>1 DEF Life!Replaced, Life!Remains
  <2>8. ASSUME NEW c \in Raw, c # k, c # old
        PROVE  Life!Unmoved(c)
    <3>1. Kept(c)
      BY <2>1, <2>8, <1>c DEF Kept
    <3> QED
      BY <3>1, Untouched
  <2> HIDE DEF k, old
  <2> QED
    BY <2>2, <2>6, <2>7, <2>8
<1>8. ASSUME NEW g \in Goroutine, Close(g)
      PROVE  SlotInv' /\ \A c \in Raw : Moves(c)
  <2> DEFINE k == conn[g]
  <2>1. /\ pc[g] = "tunnel" /\ pc' = [pc EXCEPT ![g] = "idle"] /\ k \in Raw
        /\ conn' = [conn EXCEPT ![g] = NoConn]
        /\ UNCHANGED <<cachedH2RawConn, proto, abandoned>>
        /\ raw' = IF proto[k] = "h2" THEN raw ELSE [raw EXCEPT ![k] = "closed"]
    BY <1>8, <1>c DEF Close, End, Placed
  <2>2. SlotInv'
    BY <2>1, <1>c DEF SlotInv
  <2>3. g \in ConnUsers[k] /\ ConnUsers'[k] = ConnUsers[k] \ {g}
    BY <2>1, <1>c DEF ConnUsers, Users
  <2>4. Moves(k)
    <3>1. CASE proto[k] = "h2"
      <4>1. k \in Shared
        BY <2>1, <3>1, <1>c DEF Placed
      <4>2. ConnStage[k] \in {"cached", "forgotten"} /\ ConnStage'[k] = ConnStage[k]
        BY <1>a, <1>b, <1>c, <2>1, <2>2, <4>1 DEF LifeKnown, Shared
      <4>3. k \in ConnsAlive' => k \in ConnsAlive
        BY <2>1, <3>1 DEF ConnsAlive, Alive
      <4> QED
        BY <2>3, <4>2, <4>3 DEF Life!Left
    <3>2. CASE proto[k] # "h2"
      <4>1. ConnStage[k] = "own" /\ ConnUsers[k] = {g}
        BY <1>a, <2>1, <3>2 DEF LifeKnown
      <4>2. ConnUsers'[k] = {} /\ raw'[k] = "closed"
        BY <2>1, <2>3, <3>2, <4>1, <1>c
      <4>3. k \notin Shared' /\ k \notin ConnsAlive'
        <5>1. k \notin Shared
          BY <2>1, <3>2, <1>c DEF SlotInv, Shared, Exclusive
        <5> QED
          BY <2>1, <4>2, <5>1 DEF Shared, ConnsAlive, Alive
      <4>4. ConnStage'[k] = "gone"
        BY <1>b, <2>1, <2>2, <4>2, <4>3 DEF LifeKnown
      <4> QED
        BY <4>1, <4>2, <4>3, <4>4 DEF Life!Ended
    <3> QED
      BY <3>1, <3>2
  <2>5. /\ \A h \in Goroutine \ {g} : pc'[h] = pc[h] /\ conn'[h] = conn[h]
        /\ conn[g] = k /\ conn'[g] = NoConn /\ \A c \in Raw \ {k} : raw'[c] = raw[c]
    BY <2>1, <1>c
  <2> HIDE DEF Moves, k
  <2> QED
    BY <2>1, <2>2, <2>4, <2>5, <1>e
<1>9. ASSUME NEW k \in Raw, ProxyCloses(k) \/ ProxyDrains(k)
      PROVE  SlotInv' /\ \A c \in Raw : Moves(c)
  <2>1. /\ UNCHANGED <<cachedH2RawConn, proto, abandoned, pc, conn>>
        /\ raw[k] \in {"open", "draining"}
        /\ raw' \in {[raw EXCEPT ![k] = "lost"], [raw EXCEPT ![k] = "draining"]}
    BY <1>9 DEF ProxyCloses, ProxyDrains, End, Alive
  <2>2. SlotInv'
    BY <2>1 DEF SlotInv
  <2>3. ASSUME NEW c \in Raw
        PROVE  Life!Unmoved(c)
    <3>1. Kept(c)
      BY <2>1, <1>c DEF Kept
    <3> QED
      BY <3>1, Untouched
  <2> QED
    BY <2>2, <2>3
<1>10. ASSUME \/ \E p \in Proxy : NewConnectDialer(p)
              \/ UNCHANGED vars
       PROVE  SlotInv' /\ \A c \in Raw : Moves(c)
  <2>1. UNCHANGED <<cachedH2RawConn, net, conn, pc>>
    BY <1>10 DEF NewConnectDialer, vars
  <2>2. SlotInv'
    BY <2>1 DEF SlotInv
  <2> HIDE DEF Moves
  <2> QED
    BY <2>1, <2>2, <1>d
<1>11. SlotInv' /\ \A c \in Raw : Moves(c)
  <2> HIDE DEF Moves
  <2> QED
    BY <1>1, <1>2, <1>3, <1>4, <1>5, <1>6, <1>7, <1>8, <1>9, <1>10 DEF Next
<1> QED
  BY <1>11 DEF Life!Next

\* A connection to the proxy lives as TunnelLife says: it serves one dial's tunnel,
\* or is put in the cache and found there by later dials until another replaces it,
\* which takes it from nobody and closes nothing (connect.go 209-226, 337-395).
THEOREM DialerImplementsTunnels == Spec => ImplementsTunnels
<1>1. Init => SlotInv /\ Life!Init
  <2> SUFFICES ASSUME Init
               PROVE  SlotInv /\ Life!Init
    OBVIOUS
  <2>1. \A c \in Raw : raw[c] = "unused" /\ Users(c) = {} /\ ~Alive(c)
    BY ConnectDialerAssumption DEF Init, Users, Alive, Raw, NoConn
  <2> QED
    BY <2>1
    DEF Init, SlotInv, Life!Init, ConnStage, StageOf, ConnUsers, ConnsAlive
<1>2. DialerInv /\ SlotInv /\ [Next]_vars => SlotInv' /\ [Life!Next]_Life!vars
  BY TunnelStep
<1>3. Spec => Life!Init /\ [][Life!Next]_Life!vars
  BY <1>1, <1>2, DialerInvariant, PTL DEF Spec
<1> QED
  BY <1>3 DEF ImplementsTunnels, Life!Spec

=============================================================================
