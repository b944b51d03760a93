---------------------------- MODULE MCSecureConns ----------------------------
(***************************************************************************)
(* Instances of SecureConns for TLC: a host, a host below it and another    *)
(* host; two clients that pin them and resume sessions, or a third one      *)
(* alone with any profile or any of some requests for a JA3 string, or a    *)
(* fourth one that sends its extensions in a random order.                  *)
(***************************************************************************)
EXTENDS SecureConns

LOCAL INSTANCE FiniteSetsExt

CONSTANTS c1, c2, c3, c4, a, sub, b, k1, k2

Hosts == {a, sub, b}
Domains == (a :> <<>>) @@ (sub :> <<a>>) @@ (b :> <<>>)

\* What each host may show: a its certificate or another one, the others one.
Shown == (a :> {{k1}, {k2}}) @@ (sub :> {{k2}}) @@ (b :> {{k2}})

P(host, below, certs) == [host |-> host, sub |-> below, certs |-> certs]

\* c1 pins a, the hosts below it, and b; c2 pins a the same way.
Agreeing ==
  (c1 :> {P(a, TRUE, {k1}), P(b, FALSE, {k2})}) @@ (c2 :> {P(a, TRUE, {k1})}) @@
  (c3 :> {}) @@ (c4 :> {})

\* c1 and c2 do not expect the same certificate of a.
Disagreeing == (c1 :> {P(a, TRUE, {k1})}) @@ (c2 :> {P(a, TRUE, {k2})}) @@ (c3 :> {}) @@
  (c4 :> {})

\* c2 overwrites server names.
Names == (c1 :> NoName) @@ (c2 :> a) @@ (c3 :> NoName) @@ (c4 :> NoName)

\* c1 changes its proxy once.
OneChange == (c1 :> 2) @@ (c2 :> 1) @@ (c3 :> 1) @@ (c4 :> 1)

Nobody == [c \in Client |-> NotMade]
Two == [Nobody EXCEPT ![c1] = Chrome_116_PSK, ![c2] = Chrome_133_PSK]
Alone(c, x) == [Nobody EXCEPT ![c] = x]

\* Every extension that may move goes to the place of the next one, with the last
\* to the first: a derangement of a profile's extensions, and all the orders of a
\* list of up to three.
Turned(exts) ==
  LET free == {i \in DOMAIN exts : exts[i] \notin {GREASE, Padding, PSK}}
      later(i) == {j \in free : j > i}
  IN  [i \in DOMAIN exts |->
         IF i \notin free THEN i ELSE Min(IF later(i) = {} THEN free ELSE later(i))]

SomeOrders ==
  {Turned(p.hello.exts) : p \in Inline} \cup UNION {Permutations(1 .. n) : n \in 1 .. 3}

-----------------------------------------------------------------------------
\* Requests: strings of five parts, of fewer and of more, and names of each kind.
Suites == {<<4865>>, <<GREASE, 49195>>, <<Empty>>, <<70000>>}
Exts == UNION {[1 .. k -> {0, Groups, PointFormats, Padding, 22, 27, PSK, GREASE}] : k \in 1 .. 2}
        \cup {<<Word>>, <<Empty>>, <<65536>>}
Curves == {<<Empty>>, <<GREASE, 29>>}
Points == {<<Empty>>, <<0>>}
BadCurves == {<<65536>>, <<Word>>}
BadPoints == {<<256>>, <<Word>>}

Plain == <<<<771>>, <<4865>>, <<0>>, <<29>>, <<0>>>>

PartLists ==
  {<<<<771>>, s, <<0>>, <<29>>, p>> : s \in Suites, p \in Points \cup BadPoints}
  \cup {<<<<Word>>, <<4865>>, e, g, p>> : e \in Exts, g \in Curves, p \in Points}
  \cup {<<<<771>>, <<4865>>, <<Groups, PointFormats>>, g, p>> :
           g \in Curves \cup BadCurves, p \in Points \cup BadPoints}
  \cup {SubSeq(Plain, 1, n) : n \in 1 .. 4}
  \cup {Append(Plain, <<1>>)}

Ask(parts, sig, ech, compression) ==
  [parts |-> parts, sigAlgs |-> sig, credentials |-> <<>>, versions |-> <<"1.3", "0.9">>,
   shares |-> <<"X25519", "nosuch">>, alpn |-> <<"h2">>, ech |-> ech,
   compression |-> compression]

Requests ==
  {Ask(f, <<"known", "hex">>, <<>>, <<"brotli">>) : f \in PartLists}
  \cup {Ask([Plain EXCEPT ![3] = <<0, 27>>], <<>>, <<>>, z)
     : z \in {<<>>, <<"nosuch">>, <<"nosuch", "zlib">>}}
  \cup {Ask(f, sig, <<[kdf |-> x, aead |-> y]>>, <<"nosuch">>)
     : f \in {Plain, <<<<771>>>>}, sig \in {<<"known">>, <<"bad">>},
       x, y \in {"known", "hex", "bad"}}

AnyHello ==
  {Two} \cup {Alone(c3, x) : x \in MappedTLSClients \cup Inline \cup Requests}
        \cup {Alone(c4, x) : x \in {Chrome_133_PSK, Chrome_117, Firefox_132} \cup Requests}

OnlyTwo == {Two}

=============================================================================
