-------------------------------- MODULE Ja3 --------------------------------
(***************************************************************************)
(* GetSpecFactoryFromJa3String of ja3.go: the ClientHello a JA3 string and   *)
(* lists of names ask for, with the tables of mapper.go.                    *)
(*                                                                         *)
(* A request holds the string split at its commas and dashes; a field is a  *)
(* number, or Empty (nothing between two separators) or Word (anything that *)
(* is not a decimal number).  Names of signature algorithms, KDFs and AEADs *)
(* matter by whether a table has them ("known"), they are hexadecimal       *)
(* numbers of 16 bits ("hex") or neither ("bad").                           *)
(***************************************************************************)
EXTENDS Profiles, TLC

Empty == -1
Word == -2
MaxUint8 == 255
MaxUint16 == 65535

-----------------------------------------------------------------------------
\* mapper.go.
tlsVersions ==
  "GREASE" :> GREASE @@ "1.3" :> Tls13Version @@ "1.2" :> Tls12Version @@
  "1.1" :> 770 @@ "1.0" :> 769

groupNames ==
  "GREASE" :> GREASE @@ "P256" :> 23 @@ "P384" :> 24 @@ "P521" :> 25 @@ "X25519" :> 29 @@
  "P256Kyber768" :> 65074 @@ "X25519Kyber512D" :> 65072 @@ "X25519Kyber768" :> 25497 @@
  "X25519Kyber768Old" :> 65073 @@ "X25519MLKEM768" :> 4588

certCompression == {"zlib", "brotli", "zstd"}

\* The numbers of the names a table has; other names are passed over.
Mapped(names, table) ==
  LET known == Subsequence(names, {j \in DOMAIN names : names[j] \in DOMAIN table})
  IN  [i \in DOMAIN known |-> table[known[i]]]

-----------------------------------------------------------------------------
\* The names that make the factory fail: of a cipher suite for ECH both halves
\* must be known, or both hexadecimal.
NamesRefused(r) ==
  \/ \E i \in DOMAIN r.sigAlgs : r.sigAlgs[i] = "bad"
  \/ \E i \in DOMAIN r.credentials : r.credentials[i] = "bad"
  \/ \E i \in DOMAIN r.ech :
       ~ \/ r.ech[i].kdf = "known" /\ r.ech[i].aead = "known"
         \/ r.ech[i].kdf = "hex" /\ r.ech[i].aead = "hex"

\* strconv.ParseUint of every field of a part.
Parses(part, limit) == \A i \in DOMAIN part : part[i] \in 0 .. limit

\* Groups and point formats may be left out.
Fields(part) == IF part = <<Empty>> THEN <<>> ELSE part

BaseExtensions == {0, 5, 18, Padding, 23, 35, PSK, 42, 44, PskModes, 13172, 65281}

\* Mutant: the new number of ALPS is not in the map.
MutExtMap(r) ==
  BaseExtensions
  \cup {Groups, PointFormats, SignatureAlgorithms, ALPN, 28, 34, Versions, KeyShare,
        17513, 65037}
  \cup (IF \E i \in DOMAIN r.compression : r.compression[i] \in certCompression
        THEN {27} ELSE {})

\* What stringToSpec has an extension for.
ExtMap(r) ==
  BaseExtensions
  \cup {Groups, PointFormats, SignatureAlgorithms, ALPN, 28, 34, Versions, KeyShare,
        17513, 17613, 65037}
  \cup (IF \E i \in DOMAIN r.compression : r.compression[i] \in certCompression
        THEN {27} ELSE {})

\* Mutant: an extension that is not known is passed over.
MutListed(r) == SelectSeq(r.parts[3], LAMBDA e : e = GREASE \/ e \in ExtMap(r))

\* The extensions, in their order.
Listed(r) == r.parts[3]

ExtensionsKnown(exts, r) ==
  \A i \in DOMAIN exts : exts[i] = GREASE \/ exts[i] \in ExtMap(r)

If(listed, s) == IF listed THEN s ELSE <<>>

\* The spec made of a string with five parts; an extension that is not listed
\* carries nothing.
SpecOf(r) ==
  LET exts == Listed(r)
      lists(ext) == Lists([exts |-> exts], ext)
  IN  [suites |-> r.parts[2], exts |-> exts,
       curves |-> If(lists(Groups), Fields(r.parts[4])),
       points |-> If(lists(PointFormats), Fields(r.parts[5])),
       shares |-> If(lists(KeyShare), Mapped(r.shares, groupNames)),
       versions |-> If(lists(Versions), Mapped(r.versions, tlsVersions)),
       alpn |-> If(lists(ALPN), r.alpn)]

\* The names are looked at first; then the parts are indexed, which panics when
\* there are fewer than five; the first one is not read.
StringToSpec(r) ==
  CASE NamesRefused(r) -> [kind |-> "error"]
    [] ~NamesRefused(r) /\ Len(r.parts) < 5 -> [kind |-> "panic"]
    [] OTHER ->
         IF /\ Parses(Fields(r.parts[4]), MaxUint16)
            /\ Parses(Fields(r.parts[5]), MaxUint8)
            /\ Parses(r.parts[3], MaxUint16)
            /\ ExtensionsKnown(Listed(r), r)
            /\ Parses(r.parts[2], MaxUint16)
         THEN [kind |-> "spec", hello |-> SpecOf(r)]
         ELSE [kind |-> "error"]

-----------------------------------------------------------------------------
\* The JA3 a string stands for when its lists of groups and point formats go
\* with their extensions.
Asked(r) ==
  [suites |-> r.parts[2], exts |-> r.parts[3], curves |-> Fields(r.parts[4]),
   points |-> Fields(r.parts[5])]

Agrees(r) ==
  /\ Lists(Asked(r), Groups) \/ Asked(r).curves = <<>>
  /\ Lists(Asked(r), PointFormats) \/ Asked(r).points = <<>>

\* The request that describes a ClientHello by its own JA3.
NamesOf(numbers, table) ==
  [i \in DOMAIN numbers |-> CHOOSE n \in DOMAIN table : table[n] = numbers[i]]

RequestOf(h) ==
  LET part(s) == IF s = <<>> THEN <<Empty>> ELSE s
  IN  [parts |-> <<<<Tls12Version>>, h.suites, h.exts, part(h.curves), part(h.points)>>,
       sigAlgs |-> <<"known">>, credentials |-> <<"known">>,
       versions |-> NamesOf(h.versions, tlsVersions),
       shares |-> NamesOf(h.shares, groupNames),
       alpn |-> h.alpn, ech |-> <<>>, compression |-> <<"brotli">>]

EncryptThenMac == 22

\* A ClientHello comes back from its own JA3, unless encrypt_then_mac refuses it.
Rebuilt(h) ==
  StringToSpec(RequestOf(h)) =
    IF Lists(h, EncryptThenMac) THEN [kind |-> "error"]
    ELSE [kind |-> "spec", hello |-> h]

=============================================================================
