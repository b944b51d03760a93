-------------------------- MODULE SecureConnsProofs --------------------------
(***************************************************************************)
(* Theorems about CertificatePinner, for any clients, hosts, domains,       *)
(* certificates and pins, and about SecureConns, for any ClientHellos and   *)
(* numbers of proxies too.                                                  *)
(***************************************************************************)
EXTENDS SecureConns, SubsequenceTheorems, TLAPS

-----------------------------------------------------------------------------
(***************************************************************************)
(* The pins.  PinsEnforced holds where pins agree (the run pins_shared      *)
(* shows what happens otherwise): every pin a pinner is done with is        *)
(* covered, by an entry of its host or of a domain above it that neither    *)
(* another client nor a later pinner can take away.                         *)
(***************************************************************************)
\* Pins about one host ask for the same certificates, and pins of one host
\* are for its subdomains or not, whoever's they are.
PinsAgree ==
  \A c, d \in Client : \A p \in Pins[c], q \in Pins[d] :
    /\ \A h \in Host : Concerns(p, h) /\ Concerns(q, h) => p.certs = q.certs
    /\ p.host = q.host => p.sub = q.sub

\* A domain above a domain above a host is above the host.
DomainsNest ==
  \A g, h, k \in Host : IsAbove(g, h) /\ IsAbove(h, k) => IsAbove(g, k)

Agreement == PinsAgree /\ DomainsNest

-----------------------------------------------------------------------------
\* An entry of the storage is some client's pin.
EntriesArePins ==
  \A h \in Host : storage[h] # NoEntry =>
    \E c \in Client : \E p \in Pins[c] : p.host = h /\ storage[h] = NewEntry(p)

\* A client adds its own pins.
OwnPins ==
  \A c \in Client : todo[c] \subseteq Pins[c] /\ adding[c] \in Pins[c] \cup {NoPin}

Covered(p) ==
  \/ storage[p.host] # NoEntry /\ storage[p.host].sub = p.sub
  \/ \E g \in Host : IsAbove(g, p.host) /\ storage[g] # NoEntry /\ storage[g].sub

\* A pinner has covered the pins it is done with; while a client's next one is
\* made all its pins stay covered.
PinsCovered ==
  \A c \in Client :
    /\ state[c] = "making" => \A p \in Pins[c] \ todo[c] : p # adding[c] => Covered(p)
    /\ InUse(c) => \A p \in Pins[c] : Covered(p)

StorageInv == PinnerTypeOK /\ EntriesArePins /\ OwnPins

PinnerInv == StorageInv /\ PinsCovered

-----------------------------------------------------------------------------
LEMMA PinTypes == \A c \in Client : \A p \in Pins[c] :
                    p.host \in Host /\ p.sub \in BOOLEAN /\ p.certs \in SUBSET Cert /\ p \in Pin
  BY PinnerAssumption DEF Pin

LEMMA NewEntryType == \A c \in Client : \A p \in Pins[c] :
                        NewEntry(p) \in Entry /\ NewEntry(p) # NoEntry
  BY PinTypes, PinnerAssumption DEF NewEntry, Entry

\* What Lookup finds is the entry of the host, or of a domain above it that was
\* added for its subdomains too; it finds one if there is one.
LEMMA LookupFinds ==
  ASSUME PinnerTypeOK, NEW h \in Host
  PROVE  /\ Lookup(h) # NoEntry =>
              \E g \in Host : /\ storage[g] = Lookup(h)
                              /\ g = h \/ (IsAbove(g, h) /\ storage[g].sub)
         /\ storage[h] # NoEntry => Lookup(h) # NoEntry
         /\ \A g \in Host : IsAbove(g, h) /\ storage[g] # NoEntry /\ storage[g].sub =>
              Lookup(h) # NoEntry
<1>1. CASE storage[h] # NoEntry
  BY <1>1 DEF Lookup
<1>2. CASE storage[h] = NoEntry /\ Covers(h) = {}
  BY <1>2 DEF Lookup, Covers, IsAbove
<1>3. CASE storage[h] = NoEntry /\ Covers(h) # {}
  <2>1. Len(Above[h]) \in Nat /\ Covers(h) \in SUBSET (1 .. Len(Above[h]))
    BY PinnerAssumption DEF Covers
  <2>2. Nearest(h) \in Covers(h)
    <3>1. \E i \in Covers(h) : \A j \in Covers(h) : i <= j
      BY <1>3, <2>1, FirstPosition
    <3> QED
      BY <3>1 DEF Nearest
  <2>3. Above[h][Nearest(h)] \in Host
    BY <2>2, PinnerAssumption DEF Covers
  <2> QED
    BY <1>3, <2>2, <2>3 DEF Lookup, Covers, IsAbove
<1> QED
  BY <1>1, <1>2, <1>3

-----------------------------------------------------------------------------
LEMMA StorageStep == StorageInv /\ [PinnerNext]_pinnerVars => StorageInv'
<1> SUFFICES ASSUME StorageInv, [PinnerNext]_pinnerVars
             PROVE  StorageInv'
  OBVIOUS
<1> USE DEF StorageInv
<1>1. ASSUME NEW c \in Client, NewPinner(c)
      PROVE  StorageInv'
  BY <1>1, PinnerAssumption DEF NewPinner, PinnerTypeOK, EntriesArePins, OwnPins
<1>2. ASSUME NEW c \in Client, LookupPin(c)
      PROVE  StorageInv'
  BY <1>2 DEF LookupPin, PinnerTypeOK, EntriesArePins, OwnPins
<1>3. ASSUME NEW c \in Client, AddPin(c)
      PROVE  StorageInv'
  <2>1. adding[c] \in Pins[c]
    BY <1>3 DEF AddPin, OwnPins
  <2>2. PinnerTypeOK'
    BY <1>3, <2>1, NewEntryType DEF AddPin, PinnerTypeOK
  <2>3. EntriesArePins'
    BY <1>3, <2>1 DEF AddPin, EntriesArePins, PinnerTypeOK
  <2>4. OwnPins'
    BY <1>3 DEF AddPin, OwnPins, PinnerTypeOK
  <2> QED
    BY <2>2, <2>3, <2>4
<1>4. ASSUME NEW c \in Client, PinnerReady(c) \/ PinnerAbandoned(c)
      PROVE  StorageInv'
  BY <1>4 DEF PinnerReady, PinnerAbandoned, PinnerTypeOK, EntriesArePins, OwnPins
<1>5. CASE UNCHANGED pinnerVars
  BY <1>5 DEF pinnerVars, PinnerTypeOK, EntriesArePins, OwnPins
<1> QED
  BY <1>1, <1>2, <1>3, <1>4, <1>5 DEF PinnerNext

\* A pin that Lookup finds the same pins for is covered.
LEMMA SamePinsCovered ==
  ASSUME PinsAgree, PinnerTypeOK, EntriesArePins,
         NEW c \in Client, NEW p \in Pins[c], SamePins(Lookup(p.host), p)
  PROVE  Covered(p)
<1>1. PICK g \in Host : /\ storage[g] = Lookup(p.host)
                        /\ g = p.host \/ (IsAbove(g, p.host) /\ storage[g].sub)
  BY LookupFinds, PinTypes DEF SamePins
<1>2. storage[g] # NoEntry
  BY <1>1 DEF SamePins
<1>3. CASE g = p.host
  <2>1. PICK d \in Client : \E q \in Pins[d] : q.host = g /\ storage[g] = NewEntry(q)
    BY <1>2 DEF EntriesArePins
  <2>2. PICK q \in Pins[d] : q.host = g /\ storage[g] = NewEntry(q)
    BY <2>1
  <2> QED
    BY <1>2, <1>3, <2>2 DEF PinsAgree, NewEntry, Covered
<1>4. CASE IsAbove(g, p.host) /\ storage[g].sub
  BY <1>2, <1>4 DEF Covered
<1> QED
  BY <1>1, <1>3, <1>4

\* An entry replaced keeps its subdomains, so what was covered stays covered.
LEMMA CoveredStays ==
  ASSUME PinsAgree, StorageInv,
         NEW c \in Client, AddPin(c), NEW d \in Client, NEW p \in Pins[d]
  PROVE  /\ Covered(p) => Covered(p)'
         /\ p = adding[c] => Covered(p)'
<1> USE DEF StorageInv
<1>1. adding[c] \in Pins[c]
  BY DEF AddPin, OwnPins
<1> DEFINE e == NewEntry(adding[c])
<1>2. storage' = [storage EXCEPT ![adding[c].host] = e]
  BY DEF AddPin
<1>3. e # NoEntry /\ e.sub = adding[c].sub /\ adding[c].host \in Host
  BY <1>1, NewEntryType, PinTypes DEF NewEntry
<1>4. \A h \in Host : storage[h] # NoEntry =>
        storage'[h] # NoEntry /\ storage'[h].sub = storage[h].sub
  <2> SUFFICES ASSUME NEW h \in Host, storage[h] # NoEntry
               PROVE  storage'[h] # NoEntry /\ storage'[h].sub = storage[h].sub
    OBVIOUS
  <2>1. CASE h # adding[c].host
    BY <1>2, <2>1 DEF PinnerTypeOK
  <2>2. CASE h = adding[c].host
    <3>1. PICK b \in Client : \E q \in Pins[b] : q.host = h /\ storage[h] = NewEntry(q)
      BY DEF EntriesArePins
    <3>2. PICK q \in Pins[b] : q.host = h /\ storage[h] = NewEntry(q)
      BY <3>1
    <3>3. q.sub = adding[c].sub
      BY <1>1, <2>2, <3>2 DEF PinsAgree
    <3>4. storage'[h] = e
      BY <1>2, <1>3, <2>2 DEF PinnerTypeOK
    <3> QED
      BY <1>3, <3>2, <3>3, <3>4 DEF NewEntry
  <2> QED
    BY <2>1, <2>2
<1>5. p.host \in Host
  BY PinTypes
<1>6. Covered(p) => Covered(p)'
  BY <1>4, <1>5 DEF Covered
<1>7. p = adding[c] => Covered(p)'
  BY <1>2, <1>3, <1>5 DEF Covered, PinnerTypeOK
<1> QED
  BY <1>6, <1>7

LEMMA PinnerStep ==
  ASSUME PinsAgree, PinnerInv, [PinnerNext]_pinnerVars
  PROVE  PinnerInv'
<1> USE DEF PinnerInv
<1>1. StorageInv'
  BY StorageStep
<1>2. ASSUME NEW c \in Client,
             \/ NewPinner(c) \/ LookupPin(c) \/ PinnerReady(c) \/ PinnerAbandoned(c)
             \/ UNCHANGED pinnerVars
      PROVE  \A p \in Pin : Covered(p)' = Covered(p)
  <2>1. UNCHANGED storage
    BY <1>2 DEF NewPinner, LookupPin, PinnerReady, PinnerAbandoned, pinnerVars
  <2> QED
    BY <2>1 DEF Covered
<1>3. ASSUME NEW c \in Client, NewPinner(c)
      PROVE  PinsCovered'
  BY <1>2, <1>3, PinTypes DEF NewPinner, PinsCovered, InUse, StorageInv, OwnPins, PinnerTypeOK
<1>4. ASSUME NEW c \in Client, LookupPin(c)
      PROVE  PinsCovered'
  <2>1. PICK p \in todo[c] :
          /\ todo' = [todo EXCEPT ![c] = @ \ {p}]
          /\ adding' = IF SamePins(Lookup(p.host), p) THEN adding
                       ELSE [adding EXCEPT ![c] = p]
    BY <1>4 DEF LookupPin
  <2>2. p \in Pins[c]
    BY <2>1 DEF StorageInv, OwnPins
  <2>3. Covered(p) \/ adding'[c] = p
    BY <2>1, <2>2, SamePinsCovered DEF StorageInv, PinnerTypeOK
  <2>4. UNCHANGED state /\ adding[c] = NoPin
    BY <1>4 DEF LookupPin
  <2> QED
    BY <1>2, <1>4, <2>1, <2>2, <2>3, <2>4, PinTypes, PinnerAssumption
    DEF PinsCovered, InUse, StorageInv, OwnPins, PinnerTypeOK
<1>5. ASSUME NEW c \in Client, AddPin(c)
      PROVE  PinsCovered'
  <2>1. \A d \in Client : \A p \in Pins[d] :
          (Covered(p) => Covered(p)') /\ (p = adding[c] => Covered(p)')
    BY <1>5, CoveredStays
  <2> QED
    BY <1>5, <2>1 DEF AddPin, PinsCovered, InUse, StorageInv, PinnerTypeOK
<1>6. ASSUME NEW c \in Client, PinnerReady(c) \/ PinnerAbandoned(c)
      PROVE  PinsCovered'
  <2>1. PinsEntered(c) /\ UNCHANGED <<storage, todo, adding>>
    BY <1>6 DEF PinnerReady, PinnerAbandoned
  <2>2. \A p \in Pins[c] : Covered(p)
    BY <2>1, PinTypes, PinnerAssumption DEF PinsEntered, PinsCovered, InUse
  <2>3. \A p \in Pins[c] : Covered(p)'
    BY <1>2, <1>6, <2>2, PinTypes
  <2>4. /\ state'[c] \in {"new", "ready"}
        /\ \A d \in Client : d # c => state'[d] = state[d]
    BY <1>6 DEF PinnerReady, PinnerAbandoned, StorageInv, PinnerTypeOK
  <2> QED
    BY <1>2, <1>6, <2>1, <2>3, <2>4, PinTypes DEF PinsCovered, InUse
<1>7. ASSUME UNCHANGED pinnerVars
      PROVE  PinsCovered'
  BY <1>7 DEF pinnerVars, PinsCovered, Covered, InUse
<1> QED
  BY <1>1, <1>2, <1>3, <1>4, <1>5, <1>6, <1>7 DEF PinnerNext

-----------------------------------------------------------------------------
\* A host that one of a client's covered pins concerns is looked up to certificates
\* of a pin that concerns it too, so to the client's own, whoever entered them.
LEMMA CoveredIsFound ==
  ASSUME Agreement, PinnerTypeOK, EntriesArePins,
         NEW c \in Client, NEW p \in Pins[c], Covered(p),
         NEW h \in Host, Concerns(p, h)
  PROVE  Lookup(h) # NoEntry /\ Lookup(h).certs = p.certs
<1>1. \E g \in Host : /\ g = h \/ (IsAbove(g, h) /\ storage[g].sub)
                      /\ storage[g] # NoEntry
  BY PinTypes DEF Covered, Concerns, Agreement, DomainsNest
<1>2. Lookup(h) # NoEntry
  BY <1>1, LookupFinds
<1>3. PICK g \in Host : /\ storage[g] = Lookup(h)
                        /\ g = h \/ (IsAbove(g, h) /\ storage[g].sub)
  BY <1>2, LookupFinds
<1>4. PICK d \in Client : \E q \in Pins[d] : q.host = g /\ storage[g] = NewEntry(q)
  BY <1>2, <1>3 DEF EntriesArePins
<1>5. PICK q \in Pins[d] : q.host = g /\ storage[g] = NewEntry(q)
  BY <1>4
<1>6. Concerns(q, h)
  BY <1>3, <1>5 DEF Concerns, NewEntry
<1>7. q.certs = p.certs
  BY <1>6 DEF Agreement, PinsAgree
<1> QED
  BY <1>2, <1>3, <1>5, <1>7 DEF NewEntry

LEMMA PinsHold == Agreement /\ PinnerInv => PinsEnforced
<1> SUFFICES ASSUME Agreement, PinnerInv,
                    NEW c \in Client, NEW h \in Host, NEW chain \in SUBSET Cert,
                    InUse(c), PinOk(c, h, chain),
                    NEW p \in Pins[c], Concerns(p, h)
             PROVE  chain \cap p.certs # {}
  BY DEF PinsEnforced
<1>1. Covered(p)
  BY DEF PinnerInv, PinsCovered
<1>2. Lookup(h) # NoEntry /\ Lookup(h).certs = p.certs
  BY <1>1, CoveredIsFound DEF PinnerInv, StorageInv
<1> QED
  BY <1>2 DEF PinOk

LEMMA RefusedIsPinned == StorageInv => RefusedWherePinned
<1> SUFFICES ASSUME StorageInv,
                    NEW c \in Client, NEW h \in Host, NEW chain \in SUBSET Cert,
                    ~PinOk(c, h, chain)
             PROVE  \E d \in Client : \E p \in Pins[d] :
                      Concerns(p, h) /\ chain \cap p.certs = {}
  BY DEF RefusedWherePinned
<1>1. Lookup(h) # NoEntry /\ chain \cap Lookup(h).certs = {}
  BY DEF PinOk
<1>2. PICK g \in Host : /\ storage[g] = Lookup(h)
                        /\ g = h \/ (IsAbove(g, h) /\ storage[g].sub)
  BY <1>1, LookupFinds DEF StorageInv
<1>3. PICK d \in Client : \E q \in Pins[d] : q.host = g /\ storage[g] = NewEntry(q)
  BY <1>1, <1>2 DEF StorageInv, EntriesArePins
<1>4. PICK q \in Pins[d] : q.host = g /\ storage[g] = NewEntry(q)
  BY <1>3
<1> QED
  BY <1>1, <1>2, <1>4 DEF Concerns, NewEntry

LEMMA PinnerInitially == PinnerInit => PinnerInv
  BY PinnerAssumption
  DEF PinnerInit, PinnerInv, StorageInv, PinnerTypeOK, EntriesArePins, OwnPins,
      PinsCovered, InUse

\* While every client's pins agree, a client in use never accepts a connection to
\* a host it pinned that showed none of the certificates it asked for, whatever
\* order the clients enter their pins in (pinner.go 43-100).
THEOREM PinsAreEnforced == Agreement /\ PinnerSpec => []PinsEnforced
<1>1. Agreement /\ PinnerInv /\ [PinnerNext]_pinnerVars => PinnerInv'
  BY PinnerStep DEF Agreement
<1>2. Agreement => Agreement'
  BY DEF Agreement, PinsAgree, DomainsNest, Concerns, IsAbove
<1> QED
  BY <1>1, <1>2, PinnerInitially, PinsHold, PTL DEF PinnerSpec

-----------------------------------------------------------------------------
(***************************************************************************)
(* The connections.  What they do leaves the pins alone; each ticket lies   *)
(* in the cache of the roundTripper that got it, under the name it was got  *)
(* by.                                                                      *)
(***************************************************************************)
Cache == [Host -> Ticket \cup {NoTicket}]

\* A ticket got by a name says which client and roundTripper got it, and where.
TicketOf(c, i, n, t) ==
  t # NoTicket =>
    /\ t.client = c
    /\ t.proxy = i
    /\ NameOf[c] = NoName => t.host = n

TicketsInPlace ==
  \A c \in Client : \A i \in DOMAIN sessions[c] : \A n \in Host :
    TicketOf(c, i, n, sessions[c][i][n])

LastOK ==
  last # NoHandshake =>
    /\ last.client \in Client /\ last.proxy \in DOMAIN sessions[last.client]
    /\ last.host \in Host /\ last.chain \in Chains[last.host]
    /\ last.offered \in Ticket \cup {NoTicket}
    /\ last.accepted \in BOOLEAN

ConnsTypeOK ==
  /\ hello \in Config
  /\ sessions \in [Client -> Seq(Cache)]
  /\ \A c \in Client :
       /\ Len(sessions[c]) <= MaxProxy[c]
       /\ state[c] = "remaking" => sessions[c] # <<>>
       /\ state[c] = "ready" => sessions[c] # <<>>
       /\ state[c] \in {"new", "making"} => sessions[c] = <<>>
       /\ state[c] \in {"making", "remaking"} => Len(sessions[c]) < MaxProxy[c]
  /\ LastOK

ConnsInv == ConnsTypeOK /\ TicketsInPlace /\ TicketsKept

-----------------------------------------------------------------------------
\* A client's steps leave what the pins' invariants speak of as CertificatePinner
\* does.
LEMMA PinnerSteps == [Next]_vars => [PinnerNext]_pinnerVars
  BY DEF Next, vars, PinnerNext, StartRoundTripper, EnterPins, NewRoundTripper,
         NewRoundTripperPanics, Handshake, HandshakeFails

LEMMA NameInHost == \A c \in Client, h \in Host : ServerName(c, h) \in Host
  BY SecureAssumption DEF ServerName

\* What a handshake offers is a ticket in place.
LEMMA OfferedInPlace ==
  ASSUME ConnsInv, NEW c \in Client, NEW i \in DOMAIN sessions[c], NEW h \in Host
  PROVE  /\ Offered(c, i, h) \in Ticket \cup {NoTicket}
         /\ TicketOf(c, i, ServerName(c, h), Offered(c, i, h))
<1>1. sessions[c][i] \in Cache
  BY DEF ConnsInv, ConnsTypeOK
<1>2. ServerName(c, h) \in Host
  BY NameInHost
<1> QED
  BY <1>1, <1>2 DEF ConnsInv, TicketsInPlace, TicketOf, Offered, Cache

\* A ticket put or dropped in one cache leaves the others in place.
LEMMA CacheStep ==
  ASSUME ConnsInv, NEW c \in Client, NEW i \in DOMAIN sessions[c], NEW n \in Host,
         NEW t \in Ticket \cup {NoTicket}, TicketOf(c, i, n, t),
         sessions' = [sessions EXCEPT ![c][i][n] = t]
  PROVE  /\ sessions' \in [Client -> Seq(Cache)]
         /\ \A d \in Client : Len(sessions'[d]) = Len(sessions[d])
         /\ TicketsInPlace'
<1>1. sessions[c] \in Seq(Cache) /\ sessions \in [Client -> Seq(Cache)]
  BY DEF ConnsInv, ConnsTypeOK
<1> DEFINE r == [sessions[c] EXCEPT ![i][n] = t]
<1>2. sessions' = [sessions EXCEPT ![c] = r]
  OBVIOUS
<1>3. sessions[c][i] \in Cache
  BY <1>1
<1>4. [sessions[c][i] EXCEPT ![n] = t] \in Cache
  BY <1>3 DEF Cache
<1>5. /\ r \in Seq(Cache)
      /\ Len(r) = Len(sessions[c])
      /\ DOMAIN r = DOMAIN sessions[c]
      /\ \A j \in DOMAIN sessions[c] : \A m \in Host :
           r[j][m] = IF j = i /\ m = n THEN t ELSE sessions[c][j][m]
  BY <1>1, <1>3, <1>4 DEF Cache
<1> HIDE DEF r
<1>6. sessions' \in [Client -> Seq(Cache)]
  BY <1>1, <1>2, <1>5
<1>7. \A d \in Client : Len(sessions'[d]) = Len(sessions[d])
  BY <1>1, <1>2, <1>5
<1>8. TicketsInPlace'
  <2> SUFFICES ASSUME NEW d \in Client, NEW j \in DOMAIN sessions'[d], NEW m \in Host
               PROVE  TicketOf(d, j, m, sessions'[d][j][m])
    BY DEF TicketsInPlace, TicketOf
  <2>1. CASE d = c
    <3>1. sessions'[d] = r
      BY <1>1, <1>2, <2>1
    <3>2. CASE j = i /\ m = n
      BY <1>5, <2>1, <3>1, <3>2
    <3>3. CASE ~(j = i /\ m = n)
      BY <1>5, <2>1, <3>1, <3>3 DEF ConnsInv, TicketsInPlace
    <3> QED
      BY <3>2, <3>3
  <2>2. CASE d # c
    <3>1. sessions'[d] = sessions[d]
      BY <1>1, <1>2, <2>2
    <3> QED
      BY <3>1 DEF ConnsInv, TicketsInPlace
  <2> QED
    BY <2>1, <2>2
<1> QED
  BY <1>6, <1>7, <1>8

\* Caches that keep their number keep the last handshake's too.
LEMMA LastStays ==
  ASSUME ConnsInv, sessions' \in [Client -> Seq(Cache)], UNCHANGED last,
         \A c \in Client : Len(sessions[c]) <= Len(sessions'[c])
  PROVE  LastOK'
<1> SUFFICES ASSUME last # NoHandshake
             PROVE  last.proxy \in DOMAIN sessions'[last.client]
  BY DEF ConnsInv, ConnsTypeOK, LastOK
<1>1. last.client \in Client /\ last.proxy \in DOMAIN sessions[last.client]
  BY DEF ConnsInv, ConnsTypeOK, LastOK
<1>2. sessions[last.client] \in Seq(Cache) /\ sessions'[last.client] \in Seq(Cache)
  BY <1>1 DEF ConnsInv, ConnsTypeOK
<1> QED
  BY <1>1, <1>2

LEMMA ConnsStep == StorageInv /\ ConnsInv /\ [Next]_vars => ConnsInv'
<1> SUFFICES ASSUME StorageInv, ConnsInv, [Next]_vars
             PROVE  ConnsInv'
  OBVIOUS
<1>1. /\ hello \in Config /\ sessions \in [Client -> Seq(Cache)] /\ LastOK
      /\ state \in [Client -> {"new", "making", "ready", "remaking"}]
      /\ MaxProxy \in [Client -> Nat]
      /\ TicketsInPlace /\ TicketsKept
  BY SecureAssumption DEF StorageInv, PinnerTypeOK, ConnsInv, ConnsTypeOK
<1>2. ASSUME UNCHANGED <<hello, sessions, last>>,
             \A d \in Client :
               /\ state'[d] \in {"ready", "remaking"} <=> state[d] \in {"ready", "remaking"}
               /\ state'[d] \in {"making", "remaking"} =>
                    \/ state[d] \in {"making", "remaking"}
                    \/ Len(sessions[d]) < MaxProxy[d],
             state' \in [Client -> {"new", "making", "ready", "remaking"}]
      PROVE  ConnsInv'
  BY <1>1, <1>2 DEF ConnsInv, ConnsTypeOK, LastOK, TicketsInPlace, TicketOf, TicketsKept
<1>3. ASSUME NEW c \in Client, StartRoundTripper(c)
      PROVE  ConnsInv'
  <2>1. UNCHANGED <<hello, sessions, last>> /\ Len(sessions[c]) < MaxProxy[c]
    BY <1>3 DEF StartRoundTripper, secureVars
  <2>2. /\ state[c] \in {"new", "ready"}
        /\ state' = [state EXCEPT ![c] = IF @ = "new" THEN "making" ELSE "remaking"]
    BY <1>3 DEF StartRoundTripper, NewPinner
  <2> QED
    BY <1>1, <1>2, <2>1, <2>2
<1>4. ASSUME NEW c \in Client, EnterPins(c)
      PROVE  ConnsInv'
  BY <1>1, <1>2, <1>4 DEF EnterPins, LookupPin, AddPin, secureVars
<1>5. ASSUME NEW c \in Client, NewRoundTripper(c)
      PROVE  ConnsInv'
  <2>1. /\ sessions' = [sessions EXCEPT ![c] = Append(@, NewCache)]
        /\ state[c] \in {"making", "remaking"}
        /\ state' = [state EXCEPT ![c] = "ready"]
        /\ UNCHANGED <<hello, last>>
    BY <1>5 DEF NewRoundTripper, PinnerReady, PinsEntered
  <2>2. NewCache \in Cache
    BY DEF NewCache, Cache
  <2>3. sessions' \in [Client -> Seq(Cache)]
    BY <1>1, <2>1, <2>2
  <2>4. /\ sessions'[c] = Append(sessions[c], NewCache)
        /\ Len(sessions'[c]) = Len(sessions[c]) + 1
        /\ \A d \in Client : d # c => sessions'[d] = sessions[d]
    BY <1>1, <2>1
  <2>5. LastOK'
    BY <1>1, <2>1, <2>3, <2>4, LastStays
  <2>6. \A d \in Client :
          /\ Len(sessions'[d]) <= MaxProxy[d]
          /\ state'[d] \in {"ready", "remaking"} => sessions'[d] # <<>>
          /\ state'[d] \in {"new", "making"} => sessions'[d] = <<>>
          /\ state'[d] \in {"making", "remaking"} => Len(sessions'[d]) < MaxProxy[d]
    BY <1>1, <2>1, <2>4 DEF ConnsInv, ConnsTypeOK
  <2>7. TicketsInPlace'
    <3> SUFFICES ASSUME NEW d \in Client, NEW i \in DOMAIN sessions'[d], NEW n \in Host
                 PROVE  TicketOf(d, i, n, sessions'[d][i][n])
      BY DEF TicketsInPlace, TicketOf
    <3>1. CASE d # c
      BY <1>1, <2>4, <3>1 DEF TicketsInPlace
    <3>2. CASE d = c /\ i # Len(sessions[c]) + 1
      <4>1. i \in DOMAIN sessions[c] /\ sessions'[c][i] = sessions[c][i]
        BY <1>1, <2>2, <2>4, <3>2
      <4> QED
        BY <1>1, <3>2, <4>1 DEF TicketsInPlace
    <3>3. CASE d = c /\ i = Len(sessions[c]) + 1
      <4>1. sessions'[c][i] = NewCache
        BY <1>1, <2>2, <2>4, <3>3
      <4> QED
        BY <3>3, <4>1 DEF NewCache, TicketOf
    <3> QED
      BY <3>1, <3>2, <3>3
  <2> QED
    BY <1>1, <2>1, <2>3, <2>5, <2>6, <2>7 DEF ConnsInv, ConnsTypeOK, TicketsKept
<1>6. ASSUME NEW c \in Client, NewRoundTripperPanics(c)
      PROVE  ConnsInv'
  BY <1>1, <1>2, <1>6
  DEF NewRoundTripperPanics, PinnerAbandoned, PinsEntered, secureVars
<1>7. ASSUME NEW c \in Client, NEW i \in DOMAIN sessions[c], NEW n \in Host,
             NEW t \in Ticket \cup {NoTicket}, TicketOf(c, i, n, t),
             sessions' = [sessions EXCEPT ![c][i][n] = t] \/ sessions' = sessions,
             LastOK', TicketsKept', UNCHANGED <<hello, state>>
      PROVE  ConnsInv'
  <2>1. /\ sessions' \in [Client -> Seq(Cache)]
        /\ \A d \in Client : Len(sessions'[d]) = Len(sessions[d])
        /\ TicketsInPlace'
    <3>1. CASE sessions' = [sessions EXCEPT ![c][i][n] = t]
      BY <1>7, <3>1, CacheStep
    <3>2. CASE sessions' = sessions
      BY <1>1, <3>2 DEF TicketsInPlace, TicketOf
    <3> QED
      BY <1>7, <3>1, <3>2
  <2>2. \A d \in Client : sessions[d] = <<>> <=> sessions'[d] = <<>>
    BY <1>1, <2>1
  <2> QED
    BY <1>1, <1>7, <2>1, <2>2 DEF ConnsInv, ConnsTypeOK
<1>8. ASSUME NEW c \in Client, NEW i \in 1 .. MaxProxy[c], NEW h \in Host,
             Handshake(c, i, h)
      PROVE  ConnsInv'
  <2> DEFINE n == ServerName(c, h)
             offered == Offered(c, i, h)
  <2>1. i \in DOMAIN sessions[c] /\ UNCHANGED <<hello, state>>
    BY <1>8 DEF Handshake, pinnerVars
  <2>2. PICK chain \in Chains[h], resumed \in BOOLEAN, issued \in BOOLEAN,
             sent \in Sent(c, offered) :
          /\ sessions' = IF issued
               THEN [sessions EXCEPT ![c][i][n] =
                       [client |-> c, proxy |-> i, host |-> h, chain |-> chain]]
               ELSE sessions
          /\ last' = [client |-> c, proxy |-> i, host |-> h, chain |-> chain,
                      offered |-> offered, sent |-> sent,
                      accepted |-> Accepted(c, h, chain, resumed)]
    BY <1>8 DEF Handshake
  <2> DEFINE t == [client |-> c, proxy |-> i, host |-> h, chain |-> chain]
  <2>3. t \in Ticket
    BY <1>1, SecureAssumption DEF Ticket
  <2>4. n \in Host /\ TicketOf(c, i, n, t)
    BY NameInHost DEF TicketOf, ServerName
  <2>5. offered \in Ticket \cup {NoTicket} /\ TicketOf(c, i, n, offered)
    BY <2>1, OfferedInPlace
  <2>6. Accepted(c, h, chain, resumed) \in BOOLEAN
    BY DEF Accepted, PinOk
  <2>7. TicketsKept'
    BY <2>2, <2>5 DEF TicketsKept, TicketOf, ServerName
  <2>8. i \in DOMAIN sessions'[c]
    <3>1. CASE issued
      <4>1. Len(sessions'[c]) = Len(sessions[c]) /\ sessions'[c] \in Seq(Cache)
        BY <2>1, <2>2, <2>3, <2>4, <3>1, CacheStep
      <4> QED
        BY <1>1, <2>1, <4>1
    <3>2. CASE ~issued
      BY <2>1, <2>2, <3>2
    <3> QED
      BY <3>1, <3>2
  <2>9. LastOK'
    BY <2>2, <2>5, <2>6, <2>8 DEF LastOK
  <2> HIDE DEF n, offered, t
  <2> QED
    BY <1>7, <2>1, <2>2, <2>3, <2>4, <2>7, <2>9 DEF t
<1>9. ASSUME NEW c \in Client, NEW i \in 1 .. MaxProxy[c], NEW h \in Host,
             HandshakeFails(c, i, h)
      PROVE  ConnsInv'
  <2>1. /\ i \in DOMAIN sessions[c] /\ ServerName(c, h) \in Host
        /\ sessions' = [sessions EXCEPT ![c][i][ServerName(c, h)] = NoTicket]
        /\ last' = NoHandshake /\ UNCHANGED <<hello, state>>
    BY <1>9, NameInHost DEF HandshakeFails, pinnerVars
  <2>2. LastOK' /\ TicketsKept'
    BY <2>1 DEF LastOK, TicketsKept
  <2>3. TicketOf(c, i, ServerName(c, h), NoTicket)
    BY DEF TicketOf
  <2> QED
    BY <1>7, <2>1, <2>2, <2>3
<1>10. CASE UNCHANGED vars
  BY <1>1, <1>2, <1>10 DEF vars, pinnerVars, secureVars
<1> QED
  BY <1>3, <1>4, <1>5, <1>6, <1>8, <1>9, <1>10 DEF Next

LEMMA ConnsInitially == Init => StorageInv /\ PinnerInv /\ ConnsInv /\ PinnedConns
<1> SUFFICES ASSUME Init
             PROVE  StorageInv /\ PinnerInv /\ ConnsInv /\ PinnedConns
  OBVIOUS
<1>1. PinnerInv
  BY PinnerInitially DEF Init
<1>2. ConnsInv
  BY SecureAssumption
  DEF Init, PinnerInit, ConnsInv, ConnsTypeOK, LastOK, TicketsInPlace, TicketsKept
<1>3. PinnedConns
  BY DEF Init, PinnedConns
<1> QED
  BY <1>1, <1>2, <1>3 DEF PinnerInv

LEMMA SecureStep == StorageInv /\ ConnsInv /\ [Next]_vars => (StorageInv /\ ConnsInv)'
  BY PinnerSteps, StorageStep, ConnsStep

-----------------------------------------------------------------------------
\* The types of the state, and which clients are in use, which is by when they
\* have a roundTripper (roundtripper.go 373-418).
THEOREM TypeCorrect == Spec => []TypeOK
<1>1. StorageInv /\ ConnsInv => TypeOK
  <2> SUFFICES ASSUME StorageInv, ConnsInv
               PROVE  TypeOK
    OBVIOUS
  <2>1. DOMAIN hello = Client
    BY SecureAssumption DEF ConnsInv, ConnsTypeOK
  <2>2. ASSUME NEW c \in Client
        PROVE  InUse(c) <=> sessions[c] # <<>>
    BY <2>2 DEF StorageInv, PinnerTypeOK, ConnsInv, ConnsTypeOK, InUse
  <2>3. ASSUME NEW c \in Client, NEW i \in DOMAIN sessions[c]
        PROVE  sessions[c][i] \in [Host -> Ticket \cup {NoTicket}]
    BY <2>3 DEF ConnsInv, ConnsTypeOK, Cache
  <2> QED
    BY <2>1, <2>2, <2>3 DEF TypeOK, StorageInv, ConnsInv, ConnsTypeOK, LastOK
<1> QED
  BY <1>1, ConnsInitially, SecureStep, PTL DEF Spec

\* A client refuses a connection only where some client pinned the host, or a
\* domain above it with its subdomains, and expects none of the certificates
\* shown (pinner.go 65-100): whether or not the clients agree.
THEOREM RefusedOnlyWherePinned == Spec => []RefusedWherePinned
  BY ConnsInitially, SecureStep, RefusedIsPinned, PTL DEF Spec

\* A ticket is shown only by the roundTripper that got it, and to the server that
\* gave it but for a client with one name for all (roundtripper.go 145-158, 386).
THEOREM TicketsStayKept == Spec => []TicketsKept
<1>1. ConnsInv => TicketsKept
  BY DEF ConnsInv
<1> QED
  BY <1>1, ConnsInitially, SecureStep, PTL DEF Spec

LEMMA PinnedStep ==
  PinnerInv /\ Agreement /\ ConnsInv /\ PinnedConns /\ [Next]_vars => PinnedConns'
<1> SUFFICES ASSUME PinnerInv, Agreement, ConnsInv, PinnedConns, [Next]_vars
             PROVE  PinnedConns'
  OBVIOUS
<1>1. ASSUME NEW c \in Client, NEW i \in 1 .. MaxProxy[c], NEW h \in Host,
             Handshake(c, i, h)
      PROVE  PinnedConns'
  <2>1. PICK chain \in Chains[h], resumed \in BOOLEAN :
          /\ last'.client = c /\ last'.host = h /\ last'.chain = chain
          /\ last'.accepted = Accepted(c, h, chain, resumed)
    BY <1>1 DEF Handshake
  <2>2. InUse(c)
    BY <1>1 DEF Handshake, ConnsInv, ConnsTypeOK, PinnerInv, StorageInv, PinnerTypeOK, InUse
  <2>3. ServerName(c, h) \in Host /\ chain \in SUBSET Cert
    BY NameInHost, SecureAssumption
  <2>4. last'.accepted =>
          LET mine == {p \in Pins[c] : Concerns(p, ServerName(c, h))}
          IN  mine = {} \/ \E p \in mine : chain \cap p.certs # {}
    <3> DEFINE n == ServerName(c, h)
               pins == {p \in Pins[c] : Concerns(p, n)}
    <3>1. last'.accepted => PinOk(c, n, chain)
      BY <2>1 DEF Accepted
    <3>2. PinsEnforced
      BY PinsHold
    <3> HIDE DEF n
    <3>3. PinOk(c, n, chain) => pins = {} \/ \E p \in pins : chain \cap p.certs # {}
      BY <2>2, <2>3, <3>2 DEF PinsEnforced, n
    <3> QED
      BY <3>1, <3>3 DEF n
  <2> QED
    BY <2>1, <2>4 DEF PinnedConns
<1>2. ASSUME NEW c \in Client, NEW i \in 1 .. MaxProxy[c], NEW h \in Host,
             HandshakeFails(c, i, h)
      PROVE  PinnedConns'
  BY <1>2 DEF HandshakeFails, PinnedConns
<1>3. CASE UNCHANGED last
  BY <1>3 DEF PinnedConns, Concerns, IsAbove, ServerName
<1>4. ASSUME NEW c \in Client,
             \/ StartRoundTripper(c) \/ EnterPins(c)
             \/ NewRoundTripper(c) \/ NewRoundTripperPanics(c)
      PROVE  UNCHANGED last
  BY <1>4 DEF StartRoundTripper, EnterPins, NewRoundTripper, NewRoundTripperPanics, secureVars
<1>5. UNCHANGED vars => UNCHANGED last
  BY DEF vars, secureVars
<1> QED
  BY <1>1, <1>2, <1>3, <1>4, <1>5 DEF Next

\* Where the clients' pins agree, a client uses no connection on which the server
\* showed none of the certificates the client asked for under the name it sent:
\* the code's promise of pinning (client_options.go 186), across new proxies,
\* resumed sessions and whatever the other clients enter.
THEOREM PinnedConnsHold == Agreement /\ Spec => []PinnedConns
<1>1. Agreement => Agreement'
  BY DEF Agreement, PinsAgree, DomainsNest, Concerns, IsAbove
<1>2. Agreement /\ PinnerInv /\ [Next]_vars => PinnerInv'
  BY PinnerSteps, PinnerStep DEF Agreement
<1> QED
  BY <1>1, <1>2, ConnsInitially, SecureStep, PinnedStep, PTL DEF Spec

-----------------------------------------------------------------------------
(***************************************************************************)
(* The ClientHellos.  What is sent is what the factory of the client made   *)
(* (HandshakeSent), in its order or a random one, with pre_shared_key only  *)
(* where it resumes, with padding or not; so what a string or a profile     *)
(* says of itself holds on every connection.                               *)
(***************************************************************************)
\* s has x somewhere.
Has(s, x) == \E i \in DOMAIN s : s[i] = x

LEMMA LeavingIs ==
  ASSUME NEW S, NEW s \in Seq(S), NEW X
  PROVE  /\ Leaving(s, X) \in Seq(S)
         /\ \A x : Has(Leaving(s, X), x) <=> Has(s, x) /\ x \notin X
<1> DEFINE I == {j \in DOMAIN s : s[j] \notin X}
           t == Subsequence(s, I)
<1>1. t \in Seq(S) /\ {t[n] : n \in DOMAIN t} = {s[p] : p \in I}
  BY SubsequenceRange
<1>2. Leaving(s, X) = t
  BY DEF Leaving
<1> HIDE DEF t
<1>3. ASSUME NEW x
      PROVE  Has(t, x) <=> Has(s, x) /\ x \notin X
  <2>1. Has(t, x) <=> x \in {t[n] : n \in DOMAIN t}
    BY DEF Has
  <2>2. x \in {s[p] : p \in I} <=> Has(s, x) /\ x \notin X
    BY DEF Has
  <2> QED
    BY <1>1, <2>1, <2>2
<1> QED
  BY <1>1, <1>2, <1>3

\* t is s in another order: q is where each of its extensions comes from.
Reorders(q, s, t) ==
  /\ q \in [DOMAIN s -> DOMAIN s]
  /\ t = [i \in DOMAIN s |-> s[q[i]]]
  /\ \A i \in DOMAIN s : \E j \in DOMAIN s : q[j] = i
  /\ \A i, j \in DOMAIN s : q[i] = q[j] => i = j
  /\ \A i \in DOMAIN s : s[i] = PSK => q[i] = i

LEMMA PlacedIs ==
  ASSUME NEW c, NEW S, NEW s \in Seq(S), NEW t \in Placed(c, s)
  PROVE  /\ c \notin RandomOrder => t = s
         /\ \E q : Reorders(q, s, t)
<1>1. CASE t = s
  <2> DEFINE q == [i \in DOMAIN s |-> i]
  <2>1. s = [i \in DOMAIN s |-> s[q[i]]]
    OBVIOUS
  <2>2. Reorders(q, s, t)
    BY <1>1, <2>1 DEF Reorders
  <2> QED
    BY <1>1, <2>2
<1>2. CASE t # s
  <2>1. c \in RandomOrder
    BY <1>2 DEF Placed
  <2>2. PICK q \in Orders :
          /\ t = [i \in DOMAIN s |-> s[q[i]]]
          /\ DOMAIN q = DOMAIN s
          /\ \A i \in DOMAIN q : s[i] \in {GREASE, Padding, PSK} => q[i] = i
    BY <1>2, <2>1 DEF Placed
  <2>3. Reorders(q, s, t)
    BY <2>2, SecureAssumption DEF Reorders
  <2> QED
    BY <2>1, <2>3
<1> QED
  BY <1>1, <1>2

\* It has the same extensions.
LEMMA PlacedKeeps ==
  ASSUME NEW c, NEW S, NEW s \in Seq(S), NEW t \in Placed(c, s)
  PROVE  /\ t \in Seq(S) /\ DOMAIN t = DOMAIN s
         /\ \A x : Has(t, x) <=> Has(s, x)
<1>1. PICK q : Reorders(q, s, t)
  BY PlacedIs
<1>2. /\ t = [i \in DOMAIN s |-> s[q[i]]]
      /\ \A i \in DOMAIN s : q[i] \in DOMAIN s
      /\ \A i \in DOMAIN s : \E j \in DOMAIN s : q[j] = i
  BY <1>1 DEF Reorders
<1>3. DOMAIN s = 1 .. Len(s) /\ Len(s) \in Nat
  OBVIOUS
<1>4. \A i \in 1 .. Len(s) : s[q[i]] \in S
  BY <1>2, <1>3
<1>5. t \in Seq(S)
  BY <1>2, <1>3, <1>4
<1>6. \A x : Has(t, x) <=> Has(s, x)
  BY <1>2 DEF Has
<1> QED
  BY <1>2, <1>5, <1>6

HandshakeSent ==
  last # NoHandshake =>
    /\ last.client \in Client
    /\ ToSpec(last.client).kind = "spec"
    /\ last.offered # NoTicket => Resumes(last.client)
    /\ last.sent \in Sent(last.client, last.offered)

LEMMA HandshakeStep == HandshakeSent /\ [Next]_vars => HandshakeSent'
<1> SUFFICES ASSUME HandshakeSent, [Next]_vars
             PROVE  HandshakeSent'
  OBVIOUS
<1>1. ASSUME NEW c \in Client, hello' = hello
      PROVE  ToSpec(c)' = ToSpec(c)
  BY <1>1 DEF ToSpec, HasProfile
<1>2. ASSUME NEW c \in Client, hello' = hello
      PROVE  Resumes(c)' = Resumes(c)
  BY <1>1, <1>2 DEF Resumes
<1>3. ASSUME NEW c \in Client, NEW i \in 1 .. MaxProxy[c], NEW h \in Host,
             Handshake(c, i, h)
      PROVE  HandshakeSent'
  <2>1. /\ hello' = hello
        /\ last'.client = c
        /\ last'.offered = Offered(c, i, h)
        /\ last'.sent \in Sent(c, Offered(c, i, h))
        /\ ToSpec(c).kind = "spec"
    BY <1>3 DEF Handshake
  <2>2. Offered(c, i, h) # NoTicket => Resumes(c)
    BY DEF Offered
  <2>3. ToSpec(last.client)' = ToSpec(c)
    BY <2>1 DEF ToSpec, HasProfile
  <2>4. Resumes(last.client)' = Resumes(c)
    BY <2>3 DEF Resumes
  <2>5. Sent(last.client, last.offered)' = Sent(c, Offered(c, i, h))
    BY <2>1, <2>3 DEF Sent, Placed
  <2> QED
    BY <2>1, <2>2, <2>3, <2>4, <2>5 DEF HandshakeSent
<1>4. ASSUME NEW c \in Client, NEW i \in 1 .. MaxProxy[c], NEW h \in Host,
             HandshakeFails(c, i, h)
      PROVE  HandshakeSent'
  BY <1>4 DEF HandshakeFails, HandshakeSent
<1>5. CASE UNCHANGED <<hello, last>>
  <2>1. ToSpec(last.client)' = ToSpec(last.client)
    BY <1>5 DEF ToSpec, HasProfile
  <2>2. Resumes(last.client)' = Resumes(last.client)
    BY <2>1 DEF Resumes
  <2>3. Sent(last.client, last.offered)' = Sent(last.client, last.offered)
    BY <1>5, <2>1 DEF Sent, Placed
  <2> QED
    BY <1>5, <2>1, <2>2, <2>3 DEF HandshakeSent
<1>6. ASSUME NEW c \in Client,
             \/ StartRoundTripper(c) \/ EnterPins(c)
             \/ NewRoundTripper(c) \/ NewRoundTripperPanics(c)
      PROVE  UNCHANGED <<hello, last>>
  BY <1>6 DEF StartRoundTripper, EnterPins, NewRoundTripper, NewRoundTripperPanics, secureVars
<1>7. UNCHANGED vars => UNCHANGED <<hello, last>>
  BY DEF vars, secureVars
<1> QED
  BY <1>3, <1>4, <1>5, <1>6, <1>7 DEF Next

LEMMA ParsedNumbers ==
  ASSUME NEW max \in Int, NEW limit \in Int, limit <= max,
         NEW part \in Seq(Int), Parses(part, limit)
  PROVE  part \in Seq(0 .. max)
<1>1. \A i \in 1 .. Len(part) : part[i] \in 0 .. max
  BY DEF Parses
<1> QED
  BY <1>1

\* What the factory makes of a string, when it makes anything.
LEMMA SpecMade ==
  ASSUME NEW r, r.parts \in Seq(Seq(Int)), StringToSpec(r).kind = "spec"
  PROVE  /\ StringToSpec(r).hello = SpecOf(r)
         /\ r.parts[2] \in Seq(0 .. MaxUint16)
         /\ r.parts[3] \in Seq(0 .. MaxUint16)
         /\ Fields(r.parts[4]) \in Seq(0 .. MaxUint16)
         /\ Fields(r.parts[5]) \in Seq(0 .. MaxUint16)
<1> DEFINE fits == /\ Parses(Fields(r.parts[4]), MaxUint16)
                    /\ Parses(Fields(r.parts[5]), MaxUint8)
                    /\ Parses(r.parts[3], MaxUint16)
                    /\ ExtensionsKnown(Listed(r), r)
                    /\ Parses(r.parts[2], MaxUint16)
           rest == IF fits THEN [kind |-> "spec", hello |-> SpecOf(r)] ELSE [kind |-> "error"]
<1>1. ~NamesRefused(r) /\ ~(Len(r.parts) < 5) /\ StringToSpec(r) = rest
  <2>1. CASE NamesRefused(r)
    BY <2>1 DEF StringToSpec
  <2>2. CASE ~NamesRefused(r) /\ Len(r.parts) < 5
    BY <2>2 DEF StringToSpec
  <2>3. CASE ~NamesRefused(r) /\ ~(Len(r.parts) < 5)
    BY <2>3 DEF StringToSpec
  <2> QED
    BY <2>1, <2>2, <2>3
<1>2. fits /\ StringToSpec(r).hello = SpecOf(r)
  <2> HIDE DEF fits
  <2> QED
    BY <1>1
<1>3. \A n \in 1 .. 5 : r.parts[n] \in Seq(Int)
  BY <1>1
<1>4. Fields(r.parts[4]) \in Seq(Int) /\ Fields(r.parts[5]) \in Seq(Int)
  BY <1>3 DEF Fields
<1>5. r.parts[2] \in Seq(Int) /\ r.parts[3] \in Seq(Int)
  BY <1>3
<1>6. MaxUint8 <= MaxUint16 /\ MaxUint8 \in Int /\ MaxUint16 \in Int
  BY DEF MaxUint8, MaxUint16
<1> QED
  BY <1>2, <1>4, <1>5, <1>6, ParsedNumbers

\* The ClientHello made of a string has the JA3 of the string.
LEMMA SpecFaithful ==
  ASSUME NEW r, r.parts \in Seq(Seq(Int)), StringToSpec(r).kind = "spec"
  PROVE  LET h == StringToSpec(r).hello
         IN  /\ h.suites = r.parts[2] /\ h.exts = r.parts[3]
             /\ Agrees(r) => h.curves = Fields(r.parts[4]) /\ h.points = Fields(r.parts[5])
             /\ h.suites \in Seq(0 .. MaxUint16) /\ h.exts \in Seq(0 .. MaxUint16)
             /\ h.curves \in Seq(0 .. MaxUint16) /\ h.points \in Seq(0 .. MaxUint16)
             /\ {"suites", "exts", "curves", "points"} \subseteq DOMAIN h
<1> DEFINE h == SpecOf(r)
<1>1. /\ StringToSpec(r).hello = SpecOf(r)
      /\ r.parts[2] \in Seq(0 .. MaxUint16)
      /\ r.parts[3] \in Seq(0 .. MaxUint16)
      /\ Fields(r.parts[4]) \in Seq(0 .. MaxUint16)
      /\ Fields(r.parts[5]) \in Seq(0 .. MaxUint16)
  BY SpecMade
<1>2. /\ h.suites = r.parts[2] /\ h.exts = r.parts[3]
      /\ h.curves = If(Lists([exts |-> r.parts[3]], Groups), Fields(r.parts[4]))
      /\ h.points = If(Lists([exts |-> r.parts[3]], PointFormats), Fields(r.parts[5]))
      /\ DOMAIN h = {"suites", "exts", "curves", "points", "shares", "versions", "alpn"}
  BY DEF SpecOf, Listed
<1>3. ASSUME NEW ext
      PROVE  Lists([exts |-> r.parts[3]], ext) <=> Lists(Asked(r), ext)
  BY DEF Lists, Asked
<1>4. Agrees(r) => h.curves = Fields(r.parts[4]) /\ h.points = Fields(r.parts[5])
  BY <1>2, <1>3 DEF Agrees, Asked, If
<1> HIDE DEF h
<1>5. <<>> \in Seq(0 .. MaxUint16)
  OBVIOUS
<1>6. h.curves \in Seq(0 .. MaxUint16) /\ h.points \in Seq(0 .. MaxUint16)
  BY <1>1, <1>2, <1>5 DEF If
<1>7. {"suites", "exts", "curves", "points"} \subseteq DOMAIN h
  BY <1>2
<1>8. StringToSpec(r).hello = h
  BY <1>1 DEF h
<1> QED
  BY <1>1, <1>2, <1>4, <1>6, <1>7, <1>8

\* What is sent of a ClientHello h whose extensions are known.
SentAs(h, c, ticket, sent) ==
  \E exts \in Placed(c, h.exts), out \in SUBSET {PSK, Padding} :
    /\ sent = [h EXCEPT !.exts = Leaving(exts, out)]
    /\ PSK \in out <=> ticket = NoTicket

LEMMA SentIs ==
  ASSUME NEW c, NEW ticket, NEW sent \in Sent(c, ticket), "exts" \in DOMAIN ToSpec(c).hello
  PROVE  SentAs(ToSpec(c).hello, c, ticket, sent)
<1> DEFINE h == ToSpec(c).hello
<1> DEFINE unfit == IF ticket = NoTicket THEN {PSK} ELSE {}
<1>1. PICK exts \in Placed(c, h.exts), out \in {unfit, unfit \cup {Padding}} :
        sent = [h EXCEPT !.exts = Leaving(exts, out)]
  BY DEF Sent
<1>2. PSK # Padding
  BY DEF PSK, Padding
<1>3. out \in SUBSET {PSK, Padding} /\ (PSK \in out <=> ticket = NoTicket)
  BY <1>2
<1> QED
  BY <1>1, <1>3 DEF SentAs

LEMMA SentIsFaithful == hello \in Config /\ HandshakeSent => Ja3Faithful
<1> SUFFICES ASSUME hello \in Config, HandshakeSent,
                    last # NoHandshake, HasRequest(last.client)
             PROVE  Ja3Faithful
  BY DEF Ja3Faithful
<1> DEFINE r == hello[last.client]
           h == StringToSpec(r).hello
           sent == last.sent
           asked == Asked(r)
<1>1. r.parts \in Seq(Seq(Int)) /\ ~HasProfile(last.client)
  BY SecureAssumption DEF HandshakeSent, HasRequest, HasProfile
<1>2. ToSpec(last.client) = StringToSpec(r)
  BY <1>1 DEF ToSpec
<1>3. /\ h.suites = r.parts[2] /\ h.exts = r.parts[3]
      /\ Agrees(r) => h.curves = Fields(r.parts[4]) /\ h.points = Fields(r.parts[5])
      /\ h.suites \in Seq(0 .. MaxUint16) /\ h.exts \in Seq(0 .. MaxUint16)
      /\ h.curves \in Seq(0 .. MaxUint16) /\ h.points \in Seq(0 .. MaxUint16)
      /\ {"suites", "exts", "curves", "points"} \subseteq DOMAIN h
  <2>1. StringToSpec(r).kind = "spec"
    BY <1>2 DEF HandshakeSent
  <2> HIDE DEF r
  <2> QED
    BY <1>1, <2>1, SpecFaithful
<1>4. /\ asked.suites = r.parts[2] /\ asked.exts = r.parts[3]
      /\ asked.curves = Fields(r.parts[4]) /\ asked.points = Fields(r.parts[5])
  BY DEF Asked
<1>5. sent \in Sent(last.client, last.offered) /\ ToSpec(last.client).hello = h
  BY <1>2 DEF HandshakeSent
<1> HIDE DEF h, r, sent, asked
<1>6. PICK exts \in Placed(last.client, h.exts), out \in SUBSET {PSK, Padding} :
        sent = [h EXCEPT !.exts = Leaving(exts, out)]
  <2>1. SentAs(h, last.client, last.offered, sent)
    BY <1>3, <1>5, SentIs
  <2> QED
    BY <2>1 DEF SentAs
<1>7. /\ sent.suites = h.suites /\ sent.exts = Leaving(exts, out)
      /\ sent.curves = h.curves /\ sent.points = h.points
  BY <1>3, <1>6
<1>8. /\ exts \in Seq(0 .. MaxUint16)
      /\ \A x : Has(exts, x) <=> Has(h.exts, x)
  BY <1>3, PlacedKeeps
<1>9. sent.exts \in Seq(0 .. MaxUint16)
  BY <1>7, <1>8, LeavingIs
<1>10. SameElements(sent.exts, Leaving(asked.exts, out))
  <2>1. asked.exts = h.exts
    BY <1>3, <1>4
  <2>2. \A x : Has(Leaving(exts, out), x) <=> Has(exts, x) /\ x \notin out
    BY <1>8, LeavingIs
  <2>3. \A x : Has(Leaving(h.exts, out), x) <=> Has(h.exts, x) /\ x \notin out
    BY <1>3, LeavingIs
  <2>4. \A x : Has(sent.exts, x) <=> Has(Leaving(asked.exts, out), x)
    BY <1>7, <1>8, <2>1, <2>2, <2>3
  <2> QED
    BY <2>4 DEF SameElements, Has
<1>11. \E gone \in SUBSET {PSK, Padding} :
         IF last.client \in RandomOrder
         THEN SameElements(sent.exts, Leaving(asked.exts, gone))
         ELSE sent.exts = Leaving(asked.exts, gone)
  <2>1. last.client \notin RandomOrder => exts = h.exts
    BY <1>3, PlacedIs
  <2>2. last.client \notin RandomOrder => sent.exts = Leaving(asked.exts, out)
    BY <1>3, <1>4, <1>7, <2>1
  <2> QED
    BY <1>10, <2>2
<1>12. Agrees(r) =>
         Ja3Of([sent EXCEPT !.exts = <<>>]) = Ja3Of([asked EXCEPT !.exts = <<>>])
  <2>1. ASSUME NEW x, NEW y, x.suites = y.suites, x.curves = y.curves, x.points = y.points,
               {"suites", "exts", "curves", "points"} \subseteq DOMAIN x,
               {"suites", "exts", "curves", "points"} \subseteq DOMAIN y
        PROVE  Ja3Of([x EXCEPT !.exts = <<>>]) = Ja3Of([y EXCEPT !.exts = <<>>])
    <3> DEFINE v == [x EXCEPT !.exts = <<>>]
               w == [y EXCEPT !.exts = <<>>]
    <3>1. v.suites = w.suites /\ v.exts = w.exts /\ v.curves = w.curves /\ v.points = w.points
      BY <2>1
    <3> HIDE DEF v, w
    <3>2. Ja3Of(v) = Ja3Of(w)
      BY <3>1 DEF Ja3Of
    <3> QED
      BY <3>2 DEF v, w
  <2>2. /\ {"suites", "exts", "curves", "points"} \subseteq DOMAIN sent
        /\ {"suites", "exts", "curves", "points"} \subseteq DOMAIN asked
    BY <1>3, <1>6 DEF Asked, asked
  <2> QED
    BY <1>3, <1>4, <1>7, <2>1, <2>2
<1>13. ASSUME NEW part \in {sent.suites, sent.exts, sent.curves, sent.points},
              NEW i \in DOMAIN part
       PROVE  part[i] \in 0 .. MaxUint16
  <2>1. part \in Seq(0 .. MaxUint16)
    BY <1>3, <1>7, <1>9, <1>13
  <2>2. ASSUME NEW S, part \in Seq(S)
        PROVE  part[i] \in S
    BY <1>13, <2>2
  <2> QED
    BY <2>1, <2>2
<1> QED
  BY <1>11, <1>12, <1>13 DEF Ja3Faithful, sent, asked, r

\* A ClientHello that is sent for a JA3 string has the suites, extensions, groups
\* and point formats of the string: in its order, or the extensions in one of the
\* Orders for a client that asked for a random one, and but for padding and for
\* pre_shared_key; none of its numbers was cut off.  For any strings, names and
\* permutations, on any connection (ja3.go 17-224, roundtripper.go 162); the
\* version of the string is in no ClientHello, as the code does not read it.
THEOREM StringsAreSent == Spec => []Ja3Faithful
<1>1. Init => HandshakeSent
  BY DEF Init, HandshakeSent
<1>2. ConnsInv => hello \in Config
  BY DEF ConnsInv, ConnsTypeOK
<1> QED
  BY <1>1, <1>2, ConnsInitially, SecureStep, HandshakeStep, SentIsFaithful, PTL DEF Spec

-----------------------------------------------------------------------------
(***************************************************************************)
(* The profiles.  A ClientHello that is sound as the profile spells it out  *)
(* is sound as it is sent, with pre_shared_key or without it.              *)
(***************************************************************************)
LEMMA DistinctWithout ==
  ASSUME NEW S, NEW s \in Seq(S), NEW x
  PROVE  Distinct(Without(s, x)) <=> OnceBut(s, x)
<1> DEFINE I == {j \in DOMAIN s : s[j] # x}
           t == Without(s, x)
<1>1. I \in SUBSET DOMAIN s /\ DOMAIN s \subseteq Nat
  OBVIOUS
<1> HIDE DEF I
<1>2. PICK f \in [1 .. Cardinality(I) -> I] :
        /\ Subsequence(s, I) = [n \in 1 .. Cardinality(I) |-> s[f[n]]]
        /\ \A p \in I : \E n \in 1 .. Cardinality(I) : f[n] = p
        /\ \A a, b \in 1 .. Cardinality(I) : a < b => f[a] < f[b]
  BY <1>1, SubsequenceIs
<1>3. Cardinality(I) \in Nat
  BY <1>1, SubsequenceIs
<1> DEFINE N == 1 .. Cardinality(I)
<1>4. t = [n \in N |-> s[f[n]]]
  BY <1>2 DEF Without, I
<1>5. N \subseteq Nat /\ \A a \in N : f[a] \in I
  BY <1>2, <1>3
<1> HIDE DEF t, N
<1>6. \A a, b \in N : f[a] = f[b] => a = b
  <2> SUFFICES ASSUME NEW a \in N, NEW b \in N, f[a] = f[b], a # b
               PROVE  FALSE
    OBVIOUS
  <2>1. a < b \/ b < a
    BY <1>5
  <2>2. f[a] < f[b] \/ f[b] < f[a]
    BY <1>2, <2>1 DEF N
  <2>3. f[a] \in Nat /\ f[b] \in Nat
    BY <1>1, <1>5
  <2> QED
    BY <2>2, <2>3
<1>7. \A p \in I : \E n \in N : f[n] = p
  BY <1>2 DEF N
<1>8. ASSUME Distinct(t), NEW p \in DOMAIN s, NEW q \in DOMAIN s, s[p] = s[q], s[p] # x
      PROVE  p = q
  <2>1. p \in I /\ q \in I
    BY <1>8 DEF I
  <2>2. PICK a \in N, b \in N : f[a] = p /\ f[b] = q
    BY <1>7, <2>1
  <2>3. t[a] = t[b] /\ a \in DOMAIN t /\ b \in DOMAIN t
    BY <1>4, <1>8, <2>2
  <2>4. a = b
    BY <1>8, <2>3 DEF Distinct
  <2> QED
    BY <2>2, <2>4
<1>9. ASSUME OnceBut(s, x), NEW a \in DOMAIN t, NEW b \in DOMAIN t, t[a] = t[b]
      PROVE  a = b
  <2>1. a \in N /\ b \in N /\ s[f[a]] = s[f[b]]
    BY <1>4, <1>9
  <2>2. f[a] \in I /\ f[b] \in I
    BY <1>5, <2>1
  <2>3. f[a] = f[b]
    BY <1>9, <2>1, <2>2 DEF I, OnceBut
  <2> QED
    BY <1>6, <2>1, <2>3
<1> QED
  BY <1>8, <1>9 DEF Distinct, OnceBut, t

\* Moving extensions and leaving some out repeats none.
LEMMA DistinctStays ==
  ASSUME NEW c, NEW S, NEW s \in Seq(S), NEW t \in Placed(c, s), NEW X, NEW y,
         Distinct(Without(s, y))
  PROVE  Distinct(Without(Leaving(t, X), y))
<1>1. OnceBut(s, y)
  BY DistinctWithout
<1>2. PICK q : Reorders(q, s, t)
  BY PlacedIs
<1>3. t \in Seq(S) /\ DOMAIN t = DOMAIN s
  BY PlacedKeeps
<1>4. ASSUME NEW i \in DOMAIN t, NEW j \in DOMAIN t, t[i] = t[j], t[i] # y
      PROVE  i = j
  <2>1. s[q[i]] = s[q[j]] /\ s[q[i]] # y /\ q[i] \in DOMAIN s /\ q[j] \in DOMAIN s
    BY <1>2, <1>3, <1>4 DEF Reorders
  <2>2. q[i] = q[j]
    BY <1>1, <2>1 DEF OnceBut
  <2> QED
    BY <1>2, <1>3, <2>2 DEF Reorders
<1> DEFINE I == {j \in DOMAIN t : t[j] \notin X}
           u == Subsequence(t, I)
<1>5. I \in SUBSET DOMAIN t
  OBVIOUS
<1> HIDE DEF I
<1>6. OnceBut(u, y)
  <2>1. OnceBut(t, y)
    BY <1>4 DEF OnceBut
  <2> QED
    BY <1>3, <1>5, <2>1, SubsequenceDistinct
<1>7. u \in Seq(S)
  BY <1>3, <1>5, SubsequenceRange
<1>8. Leaving(t, X) = u
  BY DEF Leaving, I
<1> HIDE DEF u
<1> QED
  BY <1>6, <1>7, <1>8, DistinctWithout

\* What a profile says where it is written: the settings of all, and the
\* ClientHellos that are spelled out.
WrittenSoundly ==
  /\ \A made \in Config : \A c \in Client :
       made[c] # NotMade /\ "hello" \in DOMAIN made[c] => SettingsSound(made[c])
  /\ \A p \in Inline :
       /\ "id" \notin DOMAIN p.hello /\ "exts" \in DOMAIN p.hello
       /\ p.hello.exts \in Seq(Int)
       /\ HelloSound(p.hello)

LEMMA SoundWhenSent ==
  ASSUME NEW h, "exts" \in DOMAIN h, h.exts \in Seq(Int), HelloSound(h),
         NEW c, NEW exts \in Placed(c, h.exts), NEW out \in SUBSET {PSK, Padding}
  PROVE  LET sent == [h EXCEPT !.exts = Leaving(exts, out)]
         IN  /\ HelloSound(sent)
             /\ Lists(sent, PSK) <=> Lists(h, PSK) /\ PSK \notin out
<1> DEFINE t == Leaving(exts, out)
           sent == [h EXCEPT !.exts = t]
<1>1. /\ exts \in Seq(Int) /\ DOMAIN exts = DOMAIN h.exts
      /\ \A x : Has(exts, x) <=> Has(h.exts, x)
  BY PlacedKeeps
<1>2. \A x : Has(t, x) <=> Has(exts, x) /\ x \notin out
  BY <1>1, LeavingIs
<1>3. Distinct(NoGrease(h.exts)) => Distinct(NoGrease(t))
  BY DistinctStays DEF NoGrease
<1>4. h.exts[Len(h.exts)] = PSK /\ PSK \notin out /\ Lists(h, PSK) => t[Len(t)] = PSK
  <2> SUFFICES ASSUME h.exts[Len(h.exts)] = PSK, PSK \notin out, Lists(h, PSK)
               PROVE  t[Len(t)] = PSK
    OBVIOUS
  <2>1. Len(h.exts) \in DOMAIN h.exts
    BY DEF Lists
  <2>2. PICK q : Reorders(q, h.exts, exts)
    BY PlacedIs
  <2>3. Len(exts) = Len(h.exts)
    BY <1>1
  <2>4. Len(exts) \in DOMAIN exts /\ exts[Len(exts)] = PSK
    BY <1>1, <2>1, <2>2, <2>3 DEF Reorders
  <2> DEFINE I == {j \in DOMAIN exts : exts[j] \notin out}
  <2>5. I \in SUBSET DOMAIN exts /\ Len(exts) \in I
    BY <2>4
  <2>6. t = Subsequence(exts, I)
    BY DEF Leaving
  <2> HIDE DEF I, t
  <2> QED
    BY <1>1, <2>4, <2>5, <2>6, SubsequenceEnds
<1>5. /\ sent.exts = t /\ sent.shares = h.shares /\ sent.curves = h.curves
      /\ sent.versions = h.versions /\ sent.alpn = h.alpn
  OBVIOUS
<1> HIDE DEF t, sent
<1>6. ASSUME NEW ext
      PROVE  Lists(sent, ext) <=> Lists(h, ext) /\ ext \notin out
  BY <1>1, <1>2, <1>5 DEF Lists, Has
<1>7. /\ Lists(sent, Groups) <=> Lists(h, Groups)
      /\ Lists(sent, SignatureAlgorithms) <=> Lists(h, SignatureAlgorithms)
      /\ Lists(sent, ALPN) <=> Lists(h, ALPN)
      /\ Lists(sent, KeyShare) <=> Lists(h, KeyShare)
      /\ Lists(sent, Versions) <=> Lists(h, Versions)
      /\ Lists(sent, PskModes) <=> Lists(h, PskModes)
  <2>1. \A ext \in {Groups, SignatureAlgorithms, ALPN, KeyShare, Versions, PskModes} :
          ext # PSK /\ ext # Padding
    BY DEF Groups, SignatureAlgorithms, ALPN, KeyShare, Versions, PskModes, PSK, Padding
  <2> QED
    BY <1>6, <2>1
<1>8. Lists(sent, PSK) => sent.exts[Len(sent.exts)] = PSK /\ Lists(sent, PskModes)
  BY <1>4, <1>5, <1>6, <1>7 DEF HelloSound
<1>9. HelloSound(sent)
  BY <1>3, <1>5, <1>7, <1>8 DEF HelloSound
<1> QED
  BY <1>6, <1>9 DEF sent, t

\* No profile that is sound where it is written says on any connection, the first
\* or one that resumes, in whichever order and with padding or not, what the
\* browser it stands for would not say (a GREASE share without a GREASE group
\* aside), and it has pre_shared_key exactly when it resumes: for any profiles and
\* permutations (profiles.go, and roundtripper.go 145-162).
THEOREM ProfilesStaySound == WrittenSoundly /\ Spec => []ProfilesSound
<1>1. Init => HandshakeSent
  BY DEF Init, HandshakeSent
<1>2. WrittenSoundly /\ ConnsInv /\ HandshakeSent => ProfilesSound
  <2> SUFFICES ASSUME WrittenSoundly, ConnsInv, HandshakeSent
               PROVE  ProfilesSound
    OBVIOUS
  <2>1. ASSUME NEW c \in Client, HasProfile(c)
        PROVE  SettingsSound(hello[c])
    BY <2>1 DEF WrittenSoundly, ConnsInv, ConnsTypeOK, HasProfile
  <2>2. ASSUME last # NoHandshake, HasProfile(last.client), hello[last.client] \in Inline
        PROVE  /\ HelloSound(last.sent)
               /\ Lists(last.sent, PSK) <=> last.offered # NoTicket
    <3> DEFINE p == hello[last.client]
               h == p.hello
    <3>1. /\ "id" \notin DOMAIN h /\ "exts" \in DOMAIN h
          /\ h.exts \in Seq(Int) /\ HelloSound(h)
      BY <2>2 DEF WrittenSoundly
    <3>2. ToSpec(last.client) = [kind |-> "spec", hello |-> h]
      BY <2>2 DEF ToSpec
    <3> HIDE DEF h
    <3>3. PICK exts \in Placed(last.client, h.exts), out \in SUBSET {PSK, Padding} :
            /\ last.sent = [h EXCEPT !.exts = Leaving(exts, out)]
            /\ PSK \in out <=> last.offered = NoTicket
      <4>1. SentAs(h, last.client, last.offered, last.sent)
        BY <2>2, <3>1, <3>2, SentIs DEF HandshakeSent
      <4> QED
        BY <4>1 DEF SentAs
    <3>4. last.offered # NoTicket => Lists(h, PSK)
      <4>1. last.offered # NoTicket => SupportsSessionResumption([hello |-> h])
        BY <2>2, <3>2 DEF HandshakeSent, Resumes
      <4> QED
        BY <3>1, <4>1 DEF SupportsSessionResumption
    <3>5. HelloSound(last.sent) /\ (Lists(last.sent, PSK) <=> Lists(h, PSK) /\ PSK \notin out)
      BY <3>1, <3>3, SoundWhenSent
    <3> QED
      BY <3>3, <3>4, <3>5
  <2> QED
    BY <2>1, <2>2 DEF ProfilesSound
<1>3. WrittenSoundly => WrittenSoundly'
  OBVIOUS
<1> QED
  BY <1>1, <1>2, <1>3, ConnsInitially, SecureStep, HandshakeStep, PTL DEF Spec

-----------------------------------------------------------------------------
(***************************************************************************)
(* From a ClientHello to its JA3 and back.                                  *)
(***************************************************************************)
LEMMA MappedBack ==
  ASSUME NEW table, NEW numbers \in Seq(Int),
         \A i \in DOMAIN numbers : \E n \in DOMAIN table : table[n] = numbers[i]
  PROVE  Mapped(NamesOf(numbers, table), table) = numbers
<1> DEFINE names == NamesOf(numbers, table)
           known == {j \in DOMAIN names : names[j] \in DOMAIN table}
<1>1. DOMAIN numbers = 1 .. Len(numbers) /\ Len(numbers) \in Nat
  OBVIOUS
<1>2. /\ DOMAIN names = DOMAIN numbers
      /\ \A i \in DOMAIN numbers :
           names[i] \in DOMAIN table /\ table[names[i]] = numbers[i]
  BY DEF NamesOf
<1>3. names = [i \in 1 .. Len(numbers) |-> names[i]]
  BY <1>1 DEF NamesOf
<1> HIDE DEF names
<1>4. names \in Seq(DOMAIN table)
  BY <1>1, <1>2, <1>3
<1>5. known = DOMAIN names
  BY <1>2
<1> HIDE DEF known
<1>6. Subsequence(names, known) = names
  BY <1>4, <1>5, WholeSubsequence
<1>7. Mapped(names, table) = [i \in DOMAIN names |-> table[names[i]]]
  BY <1>6 DEF Mapped, known
<1>8. [i \in DOMAIN names |-> table[names[i]]] = [i \in DOMAIN numbers |-> numbers[i]]
  BY <1>2
<1>9. [i \in DOMAIN numbers |-> numbers[i]] = numbers
  OBVIOUS
<1> QED
  BY <1>7, <1>8, <1>9 DEF names

\* A ClientHello of numbers that fit, whose extensions the factory has (but for
\* encrypt_then_mac) and whose lists go with their extensions and have names.
SpelledOut(h) ==
  /\ h = [suites |-> h.suites, exts |-> h.exts, curves |-> h.curves,
          points |-> h.points, shares |-> h.shares, versions |-> h.versions,
          alpn |-> h.alpn]
  /\ h.suites \in Seq(0 .. MaxUint16)
  /\ h.exts \in Seq(0 .. MaxUint16)
  /\ h.curves \in Seq(0 .. MaxUint16)
  /\ h.points \in Seq(0 .. MaxUint8)
  /\ h.shares \in Seq(Int) /\ h.versions \in Seq(Int)
  /\ \A i \in DOMAIN h.exts :
       h.exts[i] \in ExtMap(RequestOf(h)) \cup {GREASE, EncryptThenMac}
  /\ Lists(h, Groups) \/ h.curves = <<>>
  /\ Lists(h, PointFormats) \/ h.points = <<>>
  /\ Lists(h, KeyShare) \/ h.shares = <<>>
  /\ Lists(h, Versions) \/ h.versions = <<>>
  /\ Lists(h, ALPN) \/ h.alpn = <<>>
  /\ \A i \in DOMAIN h.shares :
       \E n \in DOMAIN groupNames : groupNames[n] = h.shares[i]
  /\ \A i \in DOMAIN h.versions :
       \E n \in DOMAIN tlsVersions : tlsVersions[n] = h.versions[i]

LEMMA NumbersParse ==
  ASSUME NEW limit \in Int, NEW s \in Seq(0 .. limit)
  PROVE  /\ Parses(s, limit)
         /\ Parses(Fields(IF s = <<>> THEN <<Empty>> ELSE s), limit)
         /\ Fields(IF s = <<>> THEN <<Empty>> ELSE s) = s
<1>1. \A i \in DOMAIN s : s[i] \in 0 .. limit
  OBVIOUS
<1>2. Parses(s, limit)
  BY <1>1 DEF Parses
<1>3. s # <<Empty>>
  <2>1. ASSUME s = <<Empty>>
        PROVE  FALSE
    <3>1. 1 \in DOMAIN s /\ s[1] = Empty
      BY <2>1
    <3>2. Empty \in 0 .. limit
      BY <1>1, <3>1
    <3> QED
      BY <3>2 DEF Empty
  <2> QED
    BY <2>1
<1>4. Fields(IF s = <<>> THEN <<Empty>> ELSE s) = s
  BY <1>3 DEF Fields
<1> QED
  BY <1>2, <1>4

LEMMA EncryptThenMacRefused == \A r : EncryptThenMac \notin ExtMap(r) /\ EncryptThenMac # GREASE
  BY DEF EncryptThenMac, ExtMap, BaseExtensions, GREASE, Groups, PointFormats,
         SignatureAlgorithms, ALPN, Padding, Versions, PskModes, KeyShare, PSK

\* Every ClientHello of numbers the factory knows comes out of its own JA3 and
\* the names of its versions and key shares, or is refused as a whole: for any
\* ClientHello, not only the profiles (ja3.go 17-224).
THEOREM OwnJa3Rebuilds == \A h : SpelledOut(h) => Rebuilt(h)
<1> SUFFICES ASSUME NEW h, SpelledOut(h)
             PROVE  Rebuilt(h)
  OBVIOUS
<1> DEFINE r == RequestOf(h)
           part(s) == IF s = <<>> THEN <<Empty>> ELSE s
<1>1. /\ r.sigAlgs = <<"known">> /\ r.credentials = <<"known">> /\ r.ech = <<>>
      /\ r.parts = <<<<Tls12Version>>, h.suites, h.exts, part(h.curves), part(h.points)>>
      /\ r.versions = NamesOf(h.versions, tlsVersions)
      /\ r.shares = NamesOf(h.shares, groupNames)
      /\ r.alpn = h.alpn
  BY DEF RequestOf
<1> HIDE DEF r
<1>2. /\ Len(r.parts) = 5 /\ r.parts[2] = h.suites /\ r.parts[3] = h.exts
      /\ r.parts[4] = part(h.curves) /\ r.parts[5] = part(h.points)
  BY <1>1
<1>3. ~NamesRefused(r)
  BY <1>1 DEF NamesRefused
<1>4. MaxUint16 \in Int /\ MaxUint8 \in Int
  BY DEF MaxUint16, MaxUint8
<1>5. /\ Parses(h.suites, MaxUint16) /\ Parses(h.exts, MaxUint16)
      /\ Parses(Fields(part(h.curves)), MaxUint16) /\ Fields(part(h.curves)) = h.curves
      /\ Parses(Fields(part(h.points)), MaxUint8) /\ Fields(part(h.points)) = h.points
  BY <1>4, NumbersParse DEF SpelledOut
<1> HIDE DEF part
<1> DEFINE fits == /\ Parses(Fields(r.parts[4]), MaxUint16)
                   /\ Parses(Fields(r.parts[5]), MaxUint8)
                   /\ Parses(r.parts[3], MaxUint16)
                   /\ ExtensionsKnown(Listed(r), r)
                   /\ Parses(r.parts[2], MaxUint16)
<1>6. StringToSpec(r) =
        IF fits THEN [kind |-> "spec", hello |-> SpecOf(r)] ELSE [kind |-> "error"]
  <2>1. ~(Len(r.parts) < 5)
    BY <1>2
  <2> QED
    BY <1>3, <2>1 DEF StringToSpec
<1>7. fits <=> ExtensionsKnown(h.exts, r)
  BY <1>2, <1>5 DEF Listed
<1>8. ExtensionsKnown(h.exts, r) <=> ~Lists(h, EncryptThenMac)
  BY EncryptThenMacRefused DEF ExtensionsKnown, SpelledOut, Lists, r
<1>9. SpecOf(r) = h
  <2> DEFINE lists(ext) == Lists([exts |-> h.exts], ext)
  <2>1. \A ext : lists(ext) <=> Lists(h, ext)
    BY DEF Lists
  <2>2. /\ Mapped(r.shares, groupNames) = h.shares
        /\ Mapped(r.versions, tlsVersions) = h.versions
    BY <1>1, MappedBack DEF SpelledOut
  <2>3. SpecOf(r) =
          [suites |-> h.suites, exts |-> h.exts,
           curves |-> If(lists(Groups), h.curves),
           points |-> If(lists(PointFormats), h.points),
           shares |-> If(lists(KeyShare), h.shares),
           versions |-> If(lists(Versions), h.versions),
           alpn |-> If(lists(ALPN), h.alpn)]
    BY <1>1, <1>2, <1>5, <2>2 DEF SpecOf, Listed
  <2> HIDE DEF lists
  <2>4. /\ If(lists(Groups), h.curves) = h.curves
        /\ If(lists(PointFormats), h.points) = h.points
        /\ If(lists(KeyShare), h.shares) = h.shares
        /\ If(lists(Versions), h.versions) = h.versions
        /\ If(lists(ALPN), h.alpn) = h.alpn
    BY <2>1 DEF If, SpelledOut
  <2> QED
    BY <2>3, <2>4 DEF SpelledOut
<1> HIDE DEF fits
<1> QED
  BY <1>6, <1>7, <1>8, <1>9 DEF Rebuilt, r

=============================================================================
