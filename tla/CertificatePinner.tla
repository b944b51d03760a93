-------------------------- MODULE CertificatePinner --------------------------
(***************************************************************************)
(* The certificatePinner of pinner.go.  The pins of every client live in    *)
(* one storage of the package.  A client enters its own when its            *)
(* roundTripper is made, so again at each SetProxy, one host at a time and  *)
(* in the random order of a map; Pin then looks the host of a connection up *)
(* in what all clients entered.                                             *)
(*                                                                         *)
(* External: hpkp.MemStorage, whose Lookup and Add are atomic (a mutex of   *)
(* its own) and whose Lookup falls back to the nearest domain above that    *)
(* was added for its subdomains too.                                        *)
(***************************************************************************)
EXTENDS Naturals, Sequences

CONSTANTS
  Client,     \* clients of the process
  Host,       \* host names
  Above,      \* the domains above a host, the nearest first
  Cert,       \* certificates, each standing for its fingerprint
  Pins,       \* what each client asks for: a set of pins, see below
  NoEntry,    \* a host that is not in the storage
  NoPin       \* a client that is not adding a pin

\* A pin: a key of WithCertificatePinning ("*." makes sub true) and its value.
Pin == [host : Host, sub : BOOLEAN, certs : SUBSET Cert]

Entry == [certs : SUBSET Cert, sub : BOOLEAN]

ASSUME PinnerAssumption ==
  /\ Above \in [Host -> Seq(Host)]
  /\ Pins \in [Client -> SUBSET Pin]
  /\ NoEntry \notin Entry
  /\ NoPin \notin Pin

VARIABLES
  storage,    \* certificatePinStorage
  state,      \* per client: "new", "making", "ready", "remaking"
  todo,       \* per client: the pins init has not reached yet
  adding      \* per client: the pin init found missing and is about to add

pinnerVars == <<storage, state, todo, adding>>

PinnerInit ==
  /\ storage = [h \in Host |-> NoEntry]
  /\ state = [c \in Client |-> "new"]
  /\ todo = [c \in Client |-> {}]
  /\ adding = [c \in Client |-> NoPin]

-----------------------------------------------------------------------------
(***************************************************************************)
(* MemStorage.Lookup.                                                       *)
(***************************************************************************)
Covers(h) == {i \in DOMAIN Above[h] :
                storage[Above[h][i]] # NoEntry /\ storage[Above[h][i]].sub}

Nearest(h) == CHOOSE i \in Covers(h) : \A j \in Covers(h) : i <= j

Lookup(h) ==
  IF storage[h] # NoEntry THEN storage[h]
  ELSE IF Covers(h) = {} THEN NoEntry
  ELSE storage[Above[h][Nearest(h)]]

-----------------------------------------------------------------------------
(***************************************************************************)
(* NewCertificatePinner: init, per host a Lookup and, where the pins found  *)
(* differ, an Add.  While SetProxy makes a client's next pinner the present *)
(* one goes on checking.                                                    *)
(***************************************************************************)
\* Mutant: a client is out of use while it enters its pins again.
MutNewPinnerStops(c) ==
  /\ state[c] \in {"new", "ready"}
  /\ state' = [state EXCEPT ![c] = "making"]
  /\ todo' = [todo EXCEPT ![c] = Pins[c]]
  /\ UNCHANGED <<storage, adding>>

NewPinner(c) ==
  /\ state[c] \in {"new", "ready"}
  /\ state' = [state EXCEPT ![c] = IF @ = "new" THEN "making" ELSE "remaking"]
  /\ todo' = [todo EXCEPT ![c] = Pins[c]]
  /\ UNCHANGED <<storage, adding>>

SamePins(e, p) == e # NoEntry /\ e.certs = p.certs

LookupPin(c) ==
  /\ adding[c] = NoPin
  /\ \E p \in todo[c] :
       /\ todo' = [todo EXCEPT ![c] = @ \ {p}]
       /\ adding' = IF SamePins(Lookup(p.host), p) THEN adding
                    ELSE [adding EXCEPT ![c] = p]
  /\ UNCHANGED <<storage, state>>

NewEntry(p) == [certs |-> p.certs, sub |-> p.sub]

AddPin(c) ==
  /\ adding[c] # NoPin
  /\ storage' = [storage EXCEPT ![adding[c].host] = NewEntry(adding[c])]
  /\ adding' = [adding EXCEPT ![c] = NoPin]
  /\ UNCHANGED <<state, todo>>

PinsEntered(c) ==
  /\ state[c] \in {"making", "remaking"}
  /\ todo[c] = {}
  /\ adding[c] = NoPin

PinnerReady(c) ==
  /\ PinsEntered(c)
  /\ state' = [state EXCEPT ![c] = "ready"]
  /\ UNCHANGED <<storage, todo, adding>>

\* The roundTripper the pinner is for is not made: the pins stay.
PinnerAbandoned(c) ==
  /\ PinsEntered(c)
  /\ state' = [state EXCEPT ![c] = IF @ = "making" THEN "new" ELSE "ready"]
  /\ UNCHANGED <<storage, todo, adding>>

PinnerNext ==
  \E c \in Client :
    NewPinner(c) \/ LookupPin(c) \/ AddPin(c) \/ PinnerReady(c) \/ PinnerAbandoned(c)

PinnerSpec == PinnerInit /\ [][PinnerNext]_pinnerVars

-----------------------------------------------------------------------------
(***************************************************************************)
(* Pin, after a handshake of client c in which the server of h showed the   *)
(* certificates chain: whether the connection may be used.                  *)
(***************************************************************************)
\* Mutant: every certificate shown has to match.
MutPinOk(c, h, chain) ==
  Pins[c] = {} \/ Lookup(h) = NoEntry \/ chain \subseteq Lookup(h).certs

PinOk(c, h, chain) ==
  \/ Pins[c] = {}
  \/ Lookup(h) = NoEntry
  \/ chain \cap Lookup(h).certs # {}

-----------------------------------------------------------------------------
PinnerTypeOK ==
  /\ storage \in [Host -> Entry \cup {NoEntry}]
  /\ state \in [Client -> {"new", "making", "ready", "remaking"}]
  /\ todo \in [Client -> SUBSET Pin]
  /\ adding \in [Client -> Pin \cup {NoPin}]

InUse(c) == state[c] \in {"ready", "remaking"}

\* g is a domain above host h.
IsAbove(g, h) == \E i \in DOMAIN Above[h] : Above[h][i] = g

\* The pin p is about host h.
Concerns(p, h) == p.host = h \/ (p.sub /\ IsAbove(p.host, h))

\* A client that is in use accepts a connection to a host it pinned only if
\* the server showed a certificate it asked for: also while SetProxy enters
\* its pins again, and whatever the other clients enter meanwhile.
PinsEnforced ==
  \A c \in Client, h \in Host, chain \in SUBSET Cert :
    InUse(c) /\ PinOk(c, h, chain) =>
      LET mine == {p \in Pins[c] : Concerns(p, h)}
      IN  mine = {} \/ \E p \in mine : chain \cap p.certs # {}

\* A client refuses a connection only where some client, not always this one,
\* pinned the host or a domain above it with subdomains.
RefusedWherePinned ==
  \A c \in Client, h \in Host, chain \in SUBSET Cert :
    ~PinOk(c, h, chain) =>
      \E d \in Client : \E p \in Pins[d] : Concerns(p, h) /\ chain \cap p.certs = {}

=============================================================================
