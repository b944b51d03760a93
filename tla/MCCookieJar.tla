----------------------------- MODULE MCCookieJar -----------------------------
(***************************************************************************)
(* Instances of CookieJar for TLC.                                          *)
(***************************************************************************)
EXTENDS CookieJar, TLC

Symmetry == Permutations(Goroutine)

\* Two hosts of one site, and a host of a single label.
Hosts == {<<"www", "shop", "com">>, <<"api", "shop", "com">>, <<"localhost">>}
OneHost == {<<"shop", "com">>}

AnyConfig == [skipExisting : BOOLEAN, allowEmpty : BOOLEAN]
Default == {[skipExisting |-> FALSE, allowEmpty |-> FALSE]}

\* Every sequence of at most two cookies, those without a value not deleted.
UpToTwo ==
  LET some == {c \in Cookie : c.value = Empty => ~c.deleted}
  IN  UNION {[1 .. n -> some] : n \in 0 .. 2}

C(n, v, d) == [name |-> n, value |-> v, deleted |-> d]

\* Responses of a server: three cookies at once, of which it deletes the third,
\* two of which it deletes the second, and a single one.
Responses == {<<C("a", "v", FALSE), C("b", "v", FALSE), C("c", "v", TRUE)>>,
              <<C("a", "x", FALSE), C("b", "v", TRUE)>>,
              <<C("c", "v", FALSE)>>}

=============================================================================
