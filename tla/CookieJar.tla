------------------------------ MODULE CookieJar ------------------------------
(***************************************************************************)
(* The cookie jar of jar.go.  It keeps a slice of cookies per host key,     *)
(* guarded by an RWMutex.  SetCookies runs alone.  Cookies runs under the   *)
(* read lock, and yet filters the stored slice in place (cookies[:0]): it   *)
(* compacts the array that the jar, its earlier results and every other     *)
(* reader look at.  So arrays live in a heap here, and slices refer to them.*)
(*                                                                          *)
(* A cookie is deleted when its MaxAge is -1 (CookieExpired) or less, which *)
(* the server says when it sets it; others are alive, also those whose      *)
(* Expires has passed or whose positive MaxAge has run out: the code looks  *)
(* at neither.                                                              *)
(*                                                                          *)
(* The underlying cookiejar.Jar is only ever written and is left out, and   *)
(* so is CookiesMap, which copies slice headers and changes nothing.        *)
(***************************************************************************)
EXTENDS Naturals, Sequences, SequencesExt, Subsequences

CONSTANTS
  Goroutine,      \* goroutines that use the jar
  Host,           \* hosts of URLs, as sequences of labels
  Name,           \* cookie names
  Value,          \* cookie values
  Empty,          \* the empty value
  Given,          \* the sequences of cookies passed to SetCookies
  Config,         \* the options jars are made with
  NoCookie,       \* the nil cookie
  MaxArray,       \* bound: arrays allocated in a behaviour
  MaxLen          \* bound: cookies stored under one host key

Cookie == [name : Name, value : Value, deleted : BOOLEAN]

ASSUME CookieJarAssumption ==
  /\ Empty \in Value
  /\ Given \subseteq Seq(Cookie)
  /\ \A h \in Host : DOMAIN h # {}
  /\ Config \subseteq [skipExisting : BOOLEAN, allowEmpty : BOOLEAN]
  /\ NoCookie \notin Cookie
  /\ MaxArray \in Nat /\ MaxLen \in Nat

VARIABLES
  config,    \* the jar's options: WithSkipExisting and WithAllowEmpty
  heap,      \* the contents of the arrays allocated so far
  asked,     \* the last call of SetCookies (history): its host key and cookies
  cookies,   \* for each host key, the slice the jar stores: array and length
  readers,   \* goroutines that hold the read lock
  pc,        \* what a goroutine is doing in the jar
  key,       \* the host key it reads
  slice,     \* the slice it reads
  i, w,      \* elements it has read, and kept
  cookie,    \* the element it read last
  sought,    \* the name Cookie looks for
  filtered,  \* the slice its last call of Cookies returned
  found      \* the cookie its last call of Cookie returned

reading == <<key, slice, i, w, cookie, sought>>
call == <<pc, reading, filtered, found>>
vars == <<config, asked, heap, cookies, readers, call>>

Nil == [arr |-> 0, len |-> 0]
NoName == "none"
NoKey == <<>>

Contents(s) == IF s.arr = 0 THEN <<>> ELSE SubSeq(heap[s.arr], 1, s.len)

-----------------------------------------------------------------------------
(***************************************************************************)
(* The helpers.                                                             *)
(***************************************************************************)
\* The last two labels of a host, or the host.
BuildCookieHostKey(h) ==
  IF Len(h) >= 2 THEN SubSeq(h, Len(h) - 1, Len(h)) ELSE h

HostKey == {BuildCookieHostKey(h) : h \in Host}

HasName(s, n) == \E j \in DOMAIN s : s[j].name = n

\* Mutant: the first cookie of a name is kept.
MutUnique(s) ==
  Reverse(Subsequence(s,
    {j \in DOMAIN s : \A k \in 1 .. j - 1 : s[k].name # s[j].name}))

\* The last cookie of each name, in reverse order.
Unique(s) ==
  Reverse(Subsequence(s,
    {j \in DOMAIN s : \A k \in j + 1 .. Len(s) : s[k].name # s[j].name}))

NonEmpty(s) ==
  IF config.allowEmpty THEN s
  ELSE Subsequence(s, {j \in DOMAIN s : s[j].value # Empty})

\* The cookies of s whose name is not among those of t.
NotNamedIn(s, t) == Subsequence(s, {j \in DOMAIN s : ~HasName(t, s[j].name)})

\* Mutant: existing cookies stay beside new ones of their name.
MutMerge(existing, new) == existing \o new

Merge(existing, new) ==
  IF config.skipExisting
  THEN existing \o NotNamedIn(new, existing)
  ELSE NotNamedIn(existing, new) \o new

-----------------------------------------------------------------------------
Init ==
  /\ config \in Config
  /\ asked = [key |-> NoKey, given |-> <<>>]
  /\ heap = <<>>
  /\ cookies = [k \in HostKey |-> Nil]
  /\ readers = {}
  /\ pc = [g \in Goroutine |-> "idle"]
  /\ key = [g \in Goroutine |-> NoKey]
  /\ slice = [g \in Goroutine |-> Nil]
  /\ i = [g \in Goroutine |-> 0]
  /\ w = [g \in Goroutine |-> 0]
  /\ cookie = [g \in Goroutine |-> NoCookie]
  /\ sought = [g \in Goroutine |-> NoName]
  /\ filtered = [g \in Goroutine |-> Nil]
  /\ found = [g \in Goroutine |-> NoCookie]

(***************************************************************************)
(* SetCookies, alone in the jar.  Its slice is a new one, except that with  *)
(* skipExisting append may extend the array of the stored slice, and does   *)
(* nothing to it when there is nothing to add.                              *)
(***************************************************************************)
StoreNew(k, merged) ==
  /\ Len(heap) < MaxArray
  /\ heap' = Append(heap, merged)
  /\ cookies' = [cookies EXCEPT ![k] = [arr |-> Len(heap) + 1, len |-> Len(merged)]]

StoreInPlace(k, merged) ==
  /\ cookies[k].arr # 0
  /\ heap' = [heap EXCEPT ![cookies[k].arr] = merged]
  /\ cookies' = [cookies EXCEPT ![k].len = Len(merged)]

SetCookies(h, given) ==
  /\ asked' = [key |-> BuildCookieHostKey(h), given |-> given]
  /\ readers = {}
  /\ LET k == BuildCookieHostKey(h)
         existing == Contents(cookies[k])
         merged == Merge(existing, Unique(NonEmpty(given)))
     IN  /\ Len(merged) <= MaxLen
         /\ IF config.skipExisting /\ merged = existing
            THEN UNCHANGED <<heap, cookies>>
            ELSE \/ StoreNew(k, merged)
                 \/ config.skipExisting /\ StoreInPlace(k, merged)
  /\ UNCHANGED <<config, readers, call>>

-----------------------------------------------------------------------------
(***************************************************************************)
(* Cookies and Cookie, one element at a time under the read lock.           *)
(***************************************************************************)
\* Mutant: no read lock.
MutRLock(g, h, l, n) ==
  /\ pc[g] = "idle"
  /\ pc' = [pc EXCEPT ![g] = l]
  /\ key' = [key EXCEPT ![g] = BuildCookieHostKey(h)]
  /\ slice' = [slice EXCEPT ![g] = cookies[BuildCookieHostKey(h)]]
  /\ sought' = [sought EXCEPT ![g] = n]
  /\ filtered' = [filtered EXCEPT ![g] = Nil]
  /\ found' = [found EXCEPT ![g] = NoCookie]
  /\ UNCHANGED <<config, asked, heap, cookies, readers, i, w, cookie>>

RLock(g, h, l, n) ==
  /\ pc[g] = "idle"
  /\ readers' = readers \cup {g}
  /\ pc' = [pc EXCEPT ![g] = l]
  /\ key' = [key EXCEPT ![g] = BuildCookieHostKey(h)]
  /\ slice' = [slice EXCEPT ![g] = cookies[BuildCookieHostKey(h)]]
  /\ sought' = [sought EXCEPT ![g] = n]
  /\ filtered' = [filtered EXCEPT ![g] = Nil]
  /\ found' = [found EXCEPT ![g] = NoCookie]
  /\ UNCHANGED <<config, asked, heap, cookies, i, w, cookie>>

RUnlock(g) ==
  /\ readers' = readers \ {g}
  /\ pc' = [pc EXCEPT ![g] = "idle"]
  /\ key' = [key EXCEPT ![g] = NoKey]
  /\ slice' = [slice EXCEPT ![g] = Nil]
  /\ i' = [i EXCEPT ![g] = 0]
  /\ w' = [w EXCEPT ![g] = 0]
  /\ cookie' = [cookie EXCEPT ![g] = NoCookie]
  /\ sought' = [sought EXCEPT ![g] = NoName]
  /\ UNCHANGED <<config, asked, heap, cookies>>

Cookies(g, h) == RLock(g, h, "filter", NoName)

\* The element after those read.
Element(g) == heap[slice[g].arr][i[g] + 1]

\* Mutant: the test of MaxAge is < and not <=.
MutFilterRead(g) ==
  /\ pc[g] = "filter"
  /\ i[g] < slice[g].len
  /\ i' = [i EXCEPT ![g] = @ + 1]
  /\ cookie' = [cookie EXCEPT ![g] = Element(g)]
  /\ pc' = [pc EXCEPT ![g] = "keep"]
  /\ UNCHANGED <<config, asked, heap, cookies, readers, key, slice, w, sought, filtered, found>>

\* Mutant: a deleted cookie ends the loop.
MutFilterStops(g) ==
  /\ pc[g] = "filter"
  /\ i[g] < slice[g].len
  /\ i' = [i EXCEPT ![g] = IF Element(g).deleted THEN slice[g].len ELSE @ + 1]
  /\ cookie' = [cookie EXCEPT ![g] = Element(g)]
  /\ pc' = [pc EXCEPT ![g] = IF Element(g).deleted THEN "filter" ELSE "keep"]
  /\ UNCHANGED <<config, asked, heap, cookies, readers, key, slice, w, sought, filtered, found>>

FilterRead(g) ==
  /\ pc[g] = "filter"
  /\ i[g] < slice[g].len
  /\ i' = [i EXCEPT ![g] = @ + 1]
  /\ cookie' = [cookie EXCEPT ![g] = Element(g)]
  /\ pc' = [pc EXCEPT ![g] = IF Element(g).deleted THEN "filter" ELSE "keep"]
  /\ UNCHANGED <<config, asked, heap, cookies, readers, key, slice, w, sought, filtered, found>>

FilterKeep(g) ==
  /\ pc[g] = "keep"
  /\ heap' = [heap EXCEPT ![slice[g].arr][w[g] + 1] = cookie[g]]
  /\ w' = [w EXCEPT ![g] = @ + 1]
  /\ pc' = [pc EXCEPT ![g] = "filter"]
  /\ UNCHANGED <<config, asked, cookies, readers, key, slice, i, cookie, sought, filtered, found>>

FilterReturn(g) ==
  /\ pc[g] = "filter"
  /\ i[g] = slice[g].len
  /\ filtered' = [filtered EXCEPT ![g] = [arr |-> slice[g].arr, len |-> w[g]]]
  /\ RUnlock(g)
  /\ UNCHANGED found

CookieOfName(g, h, n) == RLock(g, h, "scan", n)

\* Mutant: a deleted cookie matches.
MutMatches(g) == Element(g).name = sought[g]

Matches(g) == Element(g).name = sought[g] /\ ~Element(g).deleted

ScanHit(g) ==
  /\ pc[g] = "scan"
  /\ i[g] < slice[g].len /\ Matches(g)
  /\ found' = [found EXCEPT ![g] = Element(g)]
  /\ RUnlock(g)
  /\ UNCHANGED filtered

ScanMiss(g) ==
  /\ pc[g] = "scan"
  /\ i[g] < slice[g].len /\ ~Matches(g)
  /\ i' = [i EXCEPT ![g] = @ + 1]
  /\ UNCHANGED <<config, asked, heap, cookies, readers, pc, key, slice, w, cookie, sought,
                 filtered, found>>

ScanReturn(g) ==
  /\ pc[g] = "scan"
  /\ i[g] = slice[g].len
  /\ RUnlock(g)
  /\ UNCHANGED <<filtered, found>>

-----------------------------------------------------------------------------
Next ==
  \/ \E h \in Host, given \in Given : SetCookies(h, given)
  \/ \E g \in Goroutine :
       \/ \E h \in Host : Cookies(g, h)
       \/ \E h \in Host, n \in Name : CookieOfName(g, h, n)
       \/ FilterRead(g) \/ FilterKeep(g) \/ FilterReturn(g)
       \/ ScanHit(g) \/ ScanMiss(g) \/ ScanReturn(g)

Spec == Init /\ [][Next]_vars

-----------------------------------------------------------------------------
Slice == [arr : 0 .. MaxArray, len : Nat]

TypeOK ==
  /\ config \in Config
  /\ asked \in [key : HostKey \cup {NoKey}, given : Given \cup {<<>>}]
  /\ heap \in Seq(Seq(Cookie)) /\ Len(heap) <= MaxArray
  /\ cookies \in [HostKey -> Slice]
  /\ readers = {g \in Goroutine : pc[g] # "idle"}
  /\ pc \in [Goroutine -> {"idle", "filter", "keep", "scan"}]
  /\ key \in [Goroutine -> HostKey \cup {NoKey}]
  /\ slice \in [Goroutine -> Slice]
  /\ i \in [Goroutine -> Nat] /\ w \in [Goroutine -> Nat]
  /\ \A g \in Goroutine : w[g] <= i[g] /\ i[g] <= slice[g].len
  /\ cookie \in [Goroutine -> Cookie \cup {NoCookie}]
  /\ sought \in [Goroutine -> Name \cup {NoName}]
  /\ filtered \in [Goroutine -> Slice]
  /\ found \in [Goroutine -> Cookie \cup {NoCookie}]

\* The cookies stored under a host key that are not deleted.
AliveAt(k) == {c \in ToSet(Contents(cookies[k])) : ~c.deleted}

\* No slice Cookies returned ever shows a deleted cookie, not even later, when
\* others compact the array it shares with the jar.  It may show one that is past
\* its Expires (jar.go:234-239).
DeletedNeverShown ==
  \A g \in Goroutine : \A c \in ToSet(Contents(filtered[g])) : ~c.deleted

\* A host key stores at most one alive cookie of a name.
OneCookiePerName ==
  \A k \in HostKey : \A c, d \in AliveAt(k) : c.name = d.name => c = d

\* "Cookies returns the cookies for the given url, filtering out expired
\* cookies." (jar.go:139): every cookie not deleted is in the slice it returns.
AliveReturned ==
  [][\A g \in Goroutine : pc[g] = "filter" /\ pc'[g] = "idle" =>
       AliveAt(key[g]) \subseteq ToSet(Contents(filtered[g])')]_vars

\* Cookie returns the alive cookie of the name, "or nil if not found."
\* (jar.go:161)
ScanFinds ==
  [][\A g \in Goroutine : pc[g] = "scan" /\ pc'[g] = "idle" =>
       {c \in AliveAt(key[g]) : c.name = sought[g]} = {found'[g]} \ {NoCookie}]_vars

\* The jar implements CookieStore: its alive cookies change by SetCookies
\* only, the last cookie given under a name winning, whatever compacting does
\* to its arrays.
Store == INSTANCE CookieStore WITH store <- [k \in HostKey |-> AliveAt(k)]

ImplementsStore == Store!Spec

\* The alive cookies of a host key, those filters are about to write included.
Known(k) == AliveAt(k) \cup {cookie[g] : g \in {h \in Goroutine : pc[h] = "keep" /\ key[h] = k}}

\* However many goroutines filter one array, all they can do to what the jar knows
\* is to lose cookies of it, one by one: none is made up, doubled, moved to another
\* host key or brought back, and SetCookies does to the rest what it promises.
Remains == INSTANCE CookieStore WITH store <- [k \in HostKey |-> Known(k)]

ImplementsLossyStore == Remains!LossySpec

=============================================================================
