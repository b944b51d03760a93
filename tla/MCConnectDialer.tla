--------------------------- MODULE MCConnectDialer ---------------------------
(***************************************************************************)
(* Instances of ConnectDialer for TLC: the proxies.                        *)
(***************************************************************************)
EXTENDS ConnectDialer, TLC

P(s, host, user, headers, logger, timeout) ==
  [scheme |-> s, host |-> host, user |-> user, headers |-> headers,
   logger |-> logger, timeout |-> timeout]

\* A proxy of each scheme as the default options make it, one without a
\* timeout, one without a logger, and URLs that make no dialer.
Proxies ==
  {P(s, TRUE, TRUE, TRUE, TRUE, TRUE) : s \in ProxyScheme}
  \cup {P("http", FALSE, FALSE, TRUE, TRUE, TRUE),
        P("https", TRUE, TRUE, FALSE, TRUE, TRUE),
        P("http", TRUE, FALSE, FALSE, TRUE, FALSE),
        P("https", TRUE, FALSE, TRUE, FALSE, TRUE)}

Symmetry == Permutations(Goroutine)

=============================================================================
