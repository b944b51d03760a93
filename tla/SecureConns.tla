----------------------------- MODULE SecureConns -----------------------------
(***************************************************************************)
(* What the TLS connections of a process share: pins (CertificatePinner),   *)
(* the ClientHello a client was made with, of a profile (Profiles) or of a  *)
(* JA3 string (Ja3), and the session tickets it resumes with.  SetProxy     *)
(* makes a new roundTripper, and requests under way go on with the old one. *)
(* A connection is dialTLS after its TCP connection: handshake, then the    *)
(* pins.  Which of its protocols is chosen, and what becomes of it, is      *)
(* RoundTripper's.                                                          *)
(*                                                                         *)
(* External: utls, which makes the ClientHello again for each connection,   *)
(* in another order where it is asked to, keeps tickets under the server    *)
(* name and sends pre_shared_key only with one, and padding only for some   *)
(* lengths; a server resumes only from tickets of its own and shows one of  *)
(* its chains otherwise.  Eviction from the cache, of 32 names, is left     *)
(* out, and so are the protocols of a client that forces HTTP/1.            *)
(***************************************************************************)
EXTENDS CertificatePinner, Ja3

CONSTANTS
  Config,       \* what the clients may be made with, see hello
  NotMade,
  RandomOrder,  \* the clients made with WithRandomTLSExtensionOrder
  Orders,       \* bound: the orders utls may come up with, as permutations
  NameOf,       \* the serverNameOverwrite of each client, or NoName
  NoName,
  Chains,       \* the chains a server may show, each a set of certificates
  NoTicket,
  NoHandshake,
  MaxProxy      \* bound: roundTrippers of each client

VARIABLES
  hello,        \* per client, never changed: a profile, a request for a JA3
                \* string, or NotMade
  sessions,     \* per client: the session caches of its roundTrippers, by name
  last          \* the last handshake that ended, of any client

secureVars == <<hello, sessions, last>>
vars == <<pinnerVars, secureVars>>

Ticket == [client : Client, proxy : Nat, host : Host, chain : SUBSET Cert]

ASSUME SecureAssumption ==
  /\ \A made \in Config :
       /\ DOMAIN made = Client
       /\ \A c \in Client :
            made[c] # NotMade /\ "parts" \in DOMAIN made[c] =>
              "hello" \notin DOMAIN made[c] /\ made[c].parts \in Seq(Seq(Int))
  /\ RandomOrder \subseteq Client
  /\ \A q \in Orders : /\ DOMAIN q \subseteq Nat
                       /\ q \in [DOMAIN q -> DOMAIN q]
                       /\ \A i \in DOMAIN q : \E j \in DOMAIN q : q[j] = i
                       /\ \A i, j \in DOMAIN q : q[i] = q[j] => i = j
  /\ NameOf \in [Client -> Host \cup {NoName}]
  /\ Chains \in [Host -> SUBSET SUBSET Cert]
  /\ MaxProxy \in [Client -> Nat]

Init ==
  /\ PinnerInit
  /\ hello \in Config
  /\ sessions = [c \in Client |-> <<>>]
  /\ last = NoHandshake

-----------------------------------------------------------------------------
(***************************************************************************)
(* newRoundTripper: the pinner, then whether the ClientHello can resume     *)
(* sessions, which parses the JA3 string.                                   *)
(***************************************************************************)
HasProfile(c) == hello[c] # NotMade /\ "hello" \in DOMAIN hello[c]
HasRequest(c) == hello[c] # NotMade /\ "parts" \in DOMAIN hello[c]

\* ClientHelloID.ToSpec.
ToSpec(c) ==
  IF HasProfile(c) THEN [kind |-> "spec", hello |-> hello[c].hello]
  ELSE StringToSpec(hello[c])

Resumes(c) ==
  /\ ToSpec(c).kind = "spec"
  /\ SupportsSessionResumption([hello |-> ToSpec(c).hello])

StartRoundTripper(c) ==
  /\ hello[c] # NotMade
  /\ Len(sessions[c]) < MaxProxy[c]
  /\ NewPinner(c)
  /\ UNCHANGED secureVars

EnterPins(c) ==
  /\ LookupPin(c) \/ AddPin(c)
  /\ UNCHANGED secureVars

NewCache == [h \in Host |-> NoTicket]

\* Mutant: the session cache of the roundTripper before is taken over.
MutNewRoundTripper(c) ==
  /\ PinnerReady(c)
  /\ ToSpec(c).kind # "panic"
  /\ sessions' = [sessions EXCEPT ![c] =
       Append(@, IF @ = <<>> THEN NewCache ELSE @[Len(@)])]
  /\ UNCHANGED <<hello, last>>

NewRoundTripper(c) ==
  /\ PinnerReady(c)
  /\ ToSpec(c).kind # "panic"
  /\ sessions' = [sessions EXCEPT ![c] = Append(@, NewCache)]
  /\ UNCHANGED <<hello, last>>

\* A JA3 string with too few parts: NewHttpClient panics, the pins stay.
NewRoundTripperPanics(c) ==
  /\ PinnerAbandoned(c)
  /\ ToSpec(c).kind = "panic"
  /\ UNCHANGED secureVars

-----------------------------------------------------------------------------
ServerName(c, h) == IF NameOf[c] = NoName THEN h ELSE NameOf[c]

Offered(c, i, h) ==
  IF Resumes(c) THEN sessions[c][i][ServerName(c, h)] ELSE NoTicket

\* The orders in which extensions may be sent: GREASE, padding and
\* pre_shared_key stay where they are.
Placed(c, exts) ==
  LET moves(q) == /\ DOMAIN q = DOMAIN exts
                  /\ \A i \in DOMAIN q : exts[i] \in {GREASE, Padding, PSK} => q[i] = i
  IN  IF c \in RandomOrder
      THEN {exts} \cup {[i \in DOMAIN exts |-> exts[q[i]]] : q \in {q \in Orders : moves(q)}}
      ELSE {exts}

Leaving(exts, out) == Subsequence(exts, {i \in DOMAIN exts : exts[i] \notin out})

\* The ClientHellos that may be sent: pre_shared_key with a ticket only, padding
\* or not as their length has it.
Sent(c, ticket) ==
  LET h == ToSpec(c).hello
      unfit == IF ticket = NoTicket THEN {PSK} ELSE {}
  IN  IF "exts" \in DOMAIN h
      THEN {[h EXCEPT !.exts = Leaving(exts, out)] :
              exts \in Placed(c, h.exts), out \in {unfit, unfit \cup {Padding}}}
      ELSE {h}

\* Mutant: a resumed connection was checked when its ticket was given out.
MutAccepted(c, h, chain, resumed) == resumed \/ PinOk(c, ServerName(c, h), chain)

\* certificatePinner.Pin with the name of the TLS config.
Accepted(c, h, chain, resumed) == PinOk(c, ServerName(c, h), chain)

\* The i-th roundTripper of c connects to h.  A ticket may come in the handshake
\* (TLS 1.2), so also when the pins then refuse it, or after (TLS 1.3).
Handshake(c, i, h) ==
  /\ i \in DOMAIN sessions[c]
  /\ ToSpec(c).kind = "spec"
  /\ \E chain \in Chains[h], resumed, issued \in BOOLEAN, sent \in Sent(c, Offered(c, i, h)) :
       LET offered == Offered(c, i, h)
       IN  /\ resumed => offered # NoTicket /\ offered.host = h /\ offered.chain = chain
           /\ issued => Resumes(c)
           /\ sessions' = IF issued
                THEN [sessions EXCEPT ![c][i][ServerName(c, h)] =
                        [client |-> c, proxy |-> i, host |-> h, chain |-> chain]]
                ELSE sessions
           /\ last' = [client |-> c, proxy |-> i, host |-> h, chain |-> chain,
                       offered |-> offered, sent |-> sent,
                       accepted |-> Accepted(c, h, chain, resumed)]
  /\ UNCHANGED <<pinnerVars, hello>>

\* A handshake that fails, as all do when the JA3 string was refused, drops the
\* ticket it offered.
HandshakeFails(c, i, h) ==
  /\ i \in DOMAIN sessions[c]
  /\ sessions' = [sessions EXCEPT ![c][i][ServerName(c, h)] = NoTicket]
  /\ last' = NoHandshake
  /\ UNCHANGED <<pinnerVars, hello>>

Next ==
  \E c \in Client :
    \/ StartRoundTripper(c)
    \/ EnterPins(c)
    \/ NewRoundTripper(c)
    \/ NewRoundTripperPanics(c)
    \/ \E i \in 1 .. MaxProxy[c], h \in Host : Handshake(c, i, h) \/ HandshakeFails(c, i, h)

Spec == Init /\ [][Next]_vars

-----------------------------------------------------------------------------
TypeOK ==
  /\ PinnerTypeOK
  /\ DOMAIN hello = Client
  /\ \A c \in Client :
       /\ Len(sessions[c]) <= MaxProxy[c]
       /\ InUse(c) <=> sessions[c] # <<>>
       /\ \A i \in DOMAIN sessions[c] :
            sessions[c][i] \in [Host -> Ticket \cup {NoTicket}]
  /\ last # NoHandshake =>
       /\ last.client \in Client /\ last.proxy \in DOMAIN sessions[last.client]
       /\ last.host \in Host /\ last.chain \in Chains[last.host]
       /\ last.offered \in Ticket \cup {NoTicket}
       /\ last.accepted \in BOOLEAN

\* A connection is used only if the server showed a certificate the client asked
\* for under the name it sent: also when it resumes a session, one whose pins
\* were refused included, while the pins are entered again for SetProxy, and
\* whatever the other clients enter.
PinnedConns ==
  last # NoHandshake /\ last.accepted =>
    LET mine == {p \in Pins[last.client] :
                   Concerns(p, ServerName(last.client, last.host))}
    IN  mine = {} \/ \E p \in mine : last.chain \cap p.certs # {}

\* A ticket, by which servers recognise who returns, is shown only by the client
\* and through the proxy that got it, and to the server that gave it unless the
\* client gives all servers one name.
TicketsKept ==
  last # NoHandshake /\ last.offered # NoTicket =>
    /\ last.offered.client = last.client
    /\ last.offered.proxy = last.proxy
    /\ NameOf[last.client] = NoName => last.offered.host = last.host

\* A client with a profile has the fingerprints the tests expect of it, which
\* otherwise only a server on the internet tells.
TestedFingerprints == \A c \in Client : HasProfile(c) => Tested(hello[c])

\* No profile, by a slip in one of its many lists, says on any connection, the
\* first or one that resumes, in the order written or a random one, what the
\* browser it stands for would not say; but for a GREASE share without a GREASE
\* group, which NikeAndroidMobile has.
ProfilesSound ==
  /\ \A c \in Client : HasProfile(c) => SettingsSound(hello[c])
  /\ last # NoHandshake /\ HasProfile(last.client) /\ hello[last.client] \in Inline =>
       /\ HelloSound(last.sent)
       /\ Lists(last.sent, PSK) <=> last.offered # NoTicket

SameElements(s, t) == {s[i] : i \in DOMAIN s} = {t[i] : i \in DOMAIN t}

\* A ClientHello sent for a JA3 string has the suites, extensions, groups and
\* point formats of that string, in its order unless the client asked for a
\* random one, which moves extensions only.  What cannot be sent is refused and
\* not left out, but for padding and for pre_shared_key on a connection that
\* resumes nothing; numbers that do not fit and words are never sent.  Nothing is
\* said of the first field of the string, the version, which is never read: a
\* word there does no harm, and another version makes no difference.
Ja3Faithful ==
  last # NoHandshake /\ HasRequest(last.client) =>
    LET sent == last.sent
        asked == Asked(hello[last.client])
        others(h) == Ja3Of([h EXCEPT !.exts = <<>>])
    IN  /\ \E out \in SUBSET {PSK, Padding} :
             IF last.client \in RandomOrder
             THEN SameElements(sent.exts, Leaving(asked.exts, out))
             ELSE sent.exts = Leaving(asked.exts, out)
        /\ Agrees(hello[last.client]) => others(sent) = others(asked)
        /\ \A part \in {sent.suites, sent.exts, sent.curves, sent.points} :
             \A i \in DOMAIN part : part[i] \in 0 .. MaxUint16

\* Every ClientHello the repository spells out can be asked for by its JA3, with
\* the names of its versions and key shares, and comes out the same: all but one
\* with encrypt_then_mac, which is refused.
Ja3Rebuilds ==
  \A c \in Client : HasProfile(c) /\ hello[c] \in Inline => Rebuilt(hello[c].hello)

=============================================================================
