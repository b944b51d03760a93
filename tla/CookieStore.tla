----------------------------- MODULE CookieStore -----------------------------
(***************************************************************************)
(* What the cookie jar of jar.go promises: for every host key one alive     *)
(* cookie per name, changed by SetCookies only.  Reading is a stuttering    *)
(* step.  Cookies the server deletes (MaxAge below 0) are as good as absent *)
(* and all others alive: none expires here by its age or its Expires.       *)
(***************************************************************************)
EXTENDS Naturals

CONSTANTS
  HostKey,        \* the keys hosts are grouped under
  Given,          \* the sequences of cookies passed to SetCookies
  Empty,          \* the empty value
  Config          \* the options jars are made with

VARIABLES
  config,         \* the jar's options: WithSkipExisting and WithAllowEmpty
  store,          \* the alive cookies of each host key
  asked           \* the last call of SetCookies: its host key and cookies

\* The positions of s whose cookie is accepted: it has a value, or needs none,
\* and no accepted one follows under its name.
Accepted(s, i) == config.allowEmpty \/ s[i].value # Empty

LastOf(s) ==
  {s[i] : i \in {j \in DOMAIN s :
     /\ Accepted(s, j)
     /\ \A k \in DOMAIN s : k > j /\ s[k].name = s[j].name => ~Accepted(s, k)}}

Alive(S) == {c \in S : ~c.deleted}

Names(S) == {c.name : c \in S}

Init ==
  /\ config \in Config
  /\ store = [k \in HostKey |-> {}]
  /\ asked = [key |-> <<>>, given |-> <<>>]

\* The cookies given replace those of the same name: a deleted one only removes.
Replace(k, s) ==
  /\ ~config.skipExisting
  /\ store' = [store EXCEPT ![k] =
       {c \in @ : c.name \notin Names(LastOf(s))} \cup Alive(LastOf(s))]

\* The cookies given are added where their name is free; a deleted cookie
\* not yet forgotten may occupy it.
Add(k, s) ==
  /\ config.skipExisting
  /\ \E new \in SUBSET {c \in Alive(LastOf(s)) : c.name \notin Names(store[k])} :
       store' = [store EXCEPT ![k] = @ \cup new]

SetCookies(k, s) ==
  /\ asked' = [key |-> k, given |-> s]
  /\ Replace(k, s) \/ Add(k, s)
  /\ UNCHANGED config

Next == \E k \in HostKey, s \in Given : SetCookies(k, s)

Spec == Init /\ [][Next]_<<config, store, asked>>

\* A cookie is lost.
Lose(k) ==
  /\ \E c \in store[k] : store' = [store EXCEPT ![k] = @ \ {c}]
  /\ UNCHANGED <<config, asked>>

\* What is left of the promise when cookies may get lost, one at a time.
LossySpec == Init /\ [][Next \/ \E k \in HostKey : Lose(k)]_<<config, store, asked>>

=============================================================================
