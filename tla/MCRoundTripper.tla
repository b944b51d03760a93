--------------------------- MODULE MCRoundTripper ---------------------------
(***************************************************************************)
(* Instances of RoundTripper for TLC: hosts, servers and URLs.             *)
(***************************************************************************)
EXTENDS RoundTripper, TLC

Ports == {"80", "443"}

AllHosts == Host

Symmetry == Permutations(Goroutine)

\* Every host is dialled under the name its URL gives.
SameName == [h \in Host |-> h]

U(s, h, p) == [scheme |-> s, host |-> h, port |-> p]

\* What the servers negotiate: HTTP/1.1, but HTTP/2 or HTTP/3 on "b".
H3OnB == [a \in Addr |-> IF a[1] = "b" THEN {"h3"} ELSE {"h1"}]
H2OnB == [a \in Addr |-> IF a[1] = "b" THEN {"h2"} ELSE {"h1"}]

HttpsURLs == {U("https", h, NoPort) : h \in Host}
MixedURLs == {U("https", "a", NoPort), U("http", "a", "443"),
              U("http", "b", NoPort), U("https", "b", NoPort),
              U("other", "b", NoPort)}

=============================================================================
