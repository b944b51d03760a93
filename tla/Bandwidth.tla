------------------------------ MODULE Bandwidth ------------------------------
(***************************************************************************)
(* The bandwidth tracker of bandwidth/.  A Tracker has two atomic counters, *)
(* to which the connections dialTLS makes add the bytes they carry, after   *)
(* the I/O call that carried them.  GetTotalBandwidth reads the counters    *)
(* one after the other and Reset clears them one after the other, with no   *)
(* lock.  A NopeTracker, of a client without WithBandwidthTracker, wraps no *)
(* connection and answers 0.                                                *)
(*                                                                         *)
(* A connection is read by one goroutine and written by one.               *)
(***************************************************************************)
EXTENDS Naturals

CONSTANTS
  Conn,       \* the connections dialTLS makes
  Caller,     \* goroutines that call GetTotalBandwidth or Reset
  MaxChunk,   \* bound: bytes one I/O call carries
  MaxBytes    \* bound: bytes carried in a behaviour

Dir == {"read", "write"}

ASSUME BandwidthAssumption == MaxChunk \in Nat /\ MaxBytes \in Nat

VARIABLES
  tracker,         \* "Tracker" or "NopeTracker"
  bytes,           \* the counters: readBytes and writeBytes
  pending,         \* per connection and direction: carried, not yet added
  doing,           \* per caller: where it is
  readSeen, total, \* per caller: readBytes as it was read, the result
  \* What happened, to state properties with:
  added,           \* the bytes added so far, per direction
  cleared,         \* those added before a Reset that has returned began
  mark,            \* per caller: added when its Reset began
  floor, ceiling   \* per caller: bytes when its GetTotalBandwidth began, or 0
                   \* once a Reset touched them; cleared when it began

calls == <<doing, readSeen, total>>
history == <<added, cleared, mark, floor, ceiling>>
vars == <<tracker, bytes, pending, calls, history>>

Zero == [d \in Dir |-> 0]
Sum(f) == f["read"] + f["write"]

Init ==
  /\ tracker \in {"Tracker", "NopeTracker"}
  /\ bytes = Zero
  /\ pending = [c \in Conn |-> Zero]
  /\ doing = [g \in Caller |-> "idle"]
  /\ readSeen = [g \in Caller |-> 0]
  /\ total = [g \in Caller |-> 0]
  /\ added = Zero
  /\ cleared = Zero
  /\ mark = [g \in Caller |-> Zero]
  /\ floor = [g \in Caller |-> Zero]
  /\ ceiling = [g \in Caller |-> Zero]

-----------------------------------------------------------------------------
(***************************************************************************)
(* Read and Write of a BTConn: first the I/O, then addReadBytes or          *)
(* addWriteBytes, whatever error came with the bytes.  A connection that is *)
(* not wrapped adds nothing.                                                *)
(***************************************************************************)
Carry(c, d) ==
  /\ pending[c][d] = 0
  /\ \E n \in 1 .. MaxChunk :
       /\ Sum(added) + n <= MaxBytes
       /\ pending' = [pending EXCEPT ![c][d] = n]
  /\ UNCHANGED <<tracker, bytes, calls, history>>

AddBytes(c, d) ==
  /\ pending[c][d] > 0
  /\ pending' = [pending EXCEPT ![c][d] = 0]
  /\ IF tracker = "Tracker"
     THEN /\ bytes' = [bytes EXCEPT ![d] = @ + pending[c][d]]
          /\ added' = [added EXCEPT ![d] = @ + pending[c][d]]
     ELSE UNCHANGED <<bytes, added>>
  /\ UNCHANGED <<tracker, calls, cleared, mark, floor, ceiling>>

-----------------------------------------------------------------------------
GetTotalBandwidth(g) ==
  /\ doing[g] = "idle"
  /\ doing' = [doing EXCEPT ![g] = "loadRead"]
  /\ floor' = [floor EXCEPT ![g] = bytes]
  /\ ceiling' = [ceiling EXCEPT ![g] = cleared]
  /\ UNCHANGED <<tracker, bytes, pending, readSeen, total, added, cleared, mark>>

LoadRead(g) ==
  /\ doing[g] = "loadRead"
  /\ readSeen' = [readSeen EXCEPT ![g] = bytes["read"]]
  /\ doing' = [doing EXCEPT ![g] = "loadWrite"]
  /\ UNCHANGED <<tracker, bytes, pending, total, history>>

LoadWrite(g) ==
  /\ doing[g] = "loadWrite"
  /\ total' = [total EXCEPT ![g] = readSeen[g] + bytes["write"]]
  /\ doing' = [doing EXCEPT ![g] = "returned"]
  /\ UNCHANGED <<tracker, bytes, pending, readSeen, history>>

\* The caller has its result and goes on.
Done(g) ==
  /\ doing[g] = "returned"
  /\ doing' = [doing EXCEPT ![g] = "idle"]
  /\ total' = [total EXCEPT ![g] = 0]
  /\ readSeen' = [readSeen EXCEPT ![g] = 0]
  /\ floor' = [floor EXCEPT ![g] = Zero]
  /\ ceiling' = [ceiling EXCEPT ![g] = Zero]
  /\ UNCHANGED <<tracker, bytes, pending, added, cleared, mark>>

Reset(g) ==
  /\ doing[g] = "idle"
  /\ tracker = "Tracker"
  /\ doing' = [doing EXCEPT ![g] = "storeWrite"]
  /\ mark' = [mark EXCEPT ![g] = added]
  /\ UNCHANGED <<tracker, bytes, pending, readSeen, total, added, cleared, floor,
                 ceiling>>

StoreWrite(g) ==
  /\ doing[g] = "storeWrite"
  /\ bytes' = [bytes EXCEPT !["write"] = 0]
  /\ floor' = [h \in Caller |-> Zero]
  /\ doing' = [doing EXCEPT ![g] = "storeRead"]
  /\ UNCHANGED <<tracker, pending, readSeen, total, added, cleared, mark, ceiling>>

\* Mutant: Reset forgets readBytes.
MutCleared == bytes

Cleared == [bytes EXCEPT !["read"] = 0]

StoreRead(g) ==
  /\ doing[g] = "storeRead"
  /\ bytes' = Cleared
  /\ floor' = [h \in Caller |-> Zero]
  /\ cleared' = [d \in Dir |-> IF mark[g][d] > cleared[d] THEN mark[g][d] ELSE cleared[d]]
  /\ mark' = [mark EXCEPT ![g] = Zero]
  /\ doing' = [doing EXCEPT ![g] = "idle"]
  /\ UNCHANGED <<tracker, pending, readSeen, total, added, ceiling>>

-----------------------------------------------------------------------------
Next ==
  \/ \E c \in Conn, d \in Dir : Carry(c, d) \/ AddBytes(c, d)
  \/ \E g \in Caller :
       \/ GetTotalBandwidth(g) \/ LoadRead(g) \/ LoadWrite(g) \/ Done(g)
       \/ Reset(g) \/ StoreWrite(g) \/ StoreRead(g)

Spec == Init /\ [][Next]_vars

-----------------------------------------------------------------------------
Counts == [Dir -> Nat]

TypeOK ==
  /\ tracker \in {"Tracker", "NopeTracker"}
  /\ bytes \in Counts
  /\ pending \in [Conn -> Counts]
  /\ doing \in [Caller -> {"idle", "loadRead", "loadWrite", "returned",
                           "storeWrite", "storeRead"}]
  /\ readSeen \in [Caller -> Nat]
  /\ total \in [Caller -> Nat]
  /\ {added, cleared} \subseteq Counts
  /\ {mark, floor, ceiling} \subseteq [Caller -> Counts]

\* GetTotalBandwidth counts no byte added before a Reset that had returned when
\* it was called, and no byte twice, although it may read one counter before
\* and one after another Reset; and at least what was counted when it was
\* called, unless a Reset ran meanwhile.
TotalBounded ==
  \A g \in Caller : doing[g] = "returned" =>
    /\ total[g] <= Sum(added) - Sum(ceiling[g])
    /\ Sum(floor[g]) <= total[g]

=============================================================================
