--------------------------- MODULE BandwidthProofs ---------------------------
(***************************************************************************)
(* TotalBounded for any number of connections and callers.                 *)
(*                                                                         *)
(* It is not inductive: a Reset under way has cleared one counter and not   *)
(* the other, and a GetTotalBandwidth under way has read one.  CountInv     *)
(* says of each counter what holds between those steps.                     *)
(***************************************************************************)
EXTENDS Bandwidth, TLAPS

\* Of a counter: what it shows was added after the last Reset.
CounterInv ==
  \A d \in Dir : bytes[d] + cleared[d] <= added[d]

\* Of a Reset under way: what it will have cleared had been added, and is no
\* longer in the counter it has stored to.
ResetInv ==
  \A g \in Caller :
    /\ \A d \in Dir : mark[g][d] <= added[d]
    /\ doing[g] = "storeRead" => bytes["write"] + mark[g]["write"] <= added["write"]

\* Of a GetTotalBandwidth, before each of its loads and after both.
TotalInv ==
  \A g \in Caller :
    /\ \A d \in Dir : ceiling[g][d] <= cleared[d]
    /\ doing[g] = "loadRead" => \A d \in Dir : floor[g][d] <= bytes[d]
    /\ doing[g] = "loadWrite" =>
         /\ readSeen[g] + ceiling[g]["read"] <= added["read"]
         /\ floor[g]["read"] <= readSeen[g]
         /\ floor[g]["write"] <= bytes["write"]
    /\ doing[g] = "returned" =>
         /\ total[g] + Sum(ceiling[g]) <= Sum(added)
         /\ Sum(floor[g]) <= total[g]

CountInv == CounterInv /\ ResetInv /\ TotalInv

-----------------------------------------------------------------------------
\* The counters and the calls hold values of their types.
THEOREM TypeCorrect == Spec => []TypeOK
<1>1. Init => TypeOK
  BY DEF Init, TypeOK, Zero, Counts, Dir
<1>2. TypeOK /\ [Next]_vars => TypeOK'
  <2> SUFFICES ASSUME TypeOK, [Next]_vars
               PROVE  TypeOK'
    OBVIOUS
  <2> USE DEF TypeOK, Counts, Dir
  <2>1. ASSUME NEW c \in Conn, NEW d \in Dir, Carry(c, d)
        PROVE  TypeOK'
    BY <2>1, BandwidthAssumption DEF Carry, calls, history
  <2>2. ASSUME NEW c \in Conn, NEW d \in Dir, AddBytes(c, d)
        PROVE  TypeOK'
    BY <2>2 DEF AddBytes, calls
  <2>3. ASSUME NEW g \in Caller, GetTotalBandwidth(g)
        PROVE  TypeOK'
    BY <2>3 DEF GetTotalBandwidth
  <2>4. ASSUME NEW g \in Caller, LoadRead(g)
        PROVE  TypeOK'
    BY <2>4 DEF LoadRead, history
  <2>5. ASSUME NEW g \in Caller, LoadWrite(g)
        PROVE  TypeOK'
    BY <2>5 DEF LoadWrite, history
  <2>6. ASSUME NEW g \in Caller, Done(g)
        PROVE  TypeOK'
    BY <2>6 DEF Done, Zero
  <2>7. ASSUME NEW g \in Caller, Reset(g)
        PROVE  TypeOK'
    BY <2>7 DEF Reset
  <2>8. ASSUME NEW g \in Caller, StoreWrite(g)
        PROVE  TypeOK'
    BY <2>8 DEF StoreWrite, Zero
  <2>9. ASSUME NEW g \in Caller, StoreRead(g)
        PROVE  TypeOK'
    <3>1. cleared' \in Counts
      BY <2>9 DEF StoreRead
    <3>2. bytes' \in Counts
      BY <2>9 DEF StoreRead, Cleared
    <3> QED
      BY <2>9, <3>1, <3>2 DEF StoreRead, Zero
  <2>10. CASE UNCHANGED vars
    BY <2>10 DEF vars, calls, history
  <2> QED
    BY <2>1, <2>2, <2>3, <2>4, <2>5, <2>6, <2>7, <2>8, <2>9, <2>10 DEF Next
<1> QED
  BY <1>1, <1>2, PTL DEF Spec

-----------------------------------------------------------------------------
LEMMA CountStep == TypeOK /\ CountInv /\ [Next]_vars => CountInv'
<1> SUFFICES ASSUME TypeOK, CountInv, [Next]_vars
             PROVE  CountInv'
  OBVIOUS
<1> USE DEF TypeOK, Counts, Dir, CountInv, CounterInv, ResetInv, TotalInv, Sum
<1>1. ASSUME NEW c \in Conn, NEW d \in Dir, Carry(c, d)
      PROVE  CountInv'
  BY <1>1 DEF Carry, calls, history
<1>2. ASSUME NEW c \in Conn, NEW d \in Dir, AddBytes(c, d)
      PROVE  CountInv'
  <2>1. CASE tracker = "Tracker"
    <3> DEFINE n == pending[c][d]
    <3>1. n \in Nat
      OBVIOUS
    <3>2. bytes' = [bytes EXCEPT ![d] = @ + n] /\ added' = [added EXCEPT ![d] = @ + n]
      BY <1>2, <2>1 DEF AddBytes
    <3>3. UNCHANGED <<calls, cleared, mark, floor, ceiling>>
      BY <1>2 DEF AddBytes
    <3> HIDE DEF n
    <3> QED
      BY <3>1, <3>2, <3>3 DEF calls
  <2>2. CASE tracker # "Tracker"
    BY <1>2, <2>2 DEF AddBytes, calls
  <2> QED
    BY <2>1, <2>2
<1>3. ASSUME NEW g \in Caller, GetTotalBandwidth(g)
      PROVE  CountInv'
  BY <1>3 DEF GetTotalBandwidth
<1>4. ASSUME NEW g \in Caller, LoadRead(g)
      PROVE  CountInv'
  BY <1>4 DEF LoadRead, history
<1>5. ASSUME NEW g \in Caller, LoadWrite(g)
      PROVE  CountInv'
  BY <1>5 DEF LoadWrite, history
<1>6. ASSUME NEW g \in Caller, Done(g)
      PROVE  CountInv'
  BY <1>6 DEF Done, Zero
<1>7. ASSUME NEW g \in Caller, Reset(g)
      PROVE  CountInv'
  BY <1>7 DEF Reset
<1>8. ASSUME NEW g \in Caller, StoreWrite(g)
      PROVE  CountInv'
  BY <1>8 DEF StoreWrite, Zero
<1>9. ASSUME NEW g \in Caller, StoreRead(g)
      PROVE  CountInv'
  BY <1>9 DEF StoreRead, Cleared, Zero
<1>10. CASE UNCHANGED vars
  BY <1>10 DEF vars, calls, history
<1> QED
  BY <1>1, <1>2, <1>3, <1>4, <1>5, <1>6, <1>7, <1>8, <1>9, <1>10 DEF Next

\* What GetTotalBandwidth returns counts nothing that a Reset before it cleared,
\* and all that was counted when it was called unless a Reset ran meanwhile.
THEOREM TotalsBounded == Spec => []TotalBounded
<1>1. Init => CountInv
  BY DEF Init, CountInv, CounterInv, ResetInv, TotalInv, Zero, Dir
<1>2. TypeOK /\ CountInv => TotalBounded
  BY DEF TypeOK, Counts, Dir, CountInv, TotalInv, TotalBounded, Sum
<1> QED
  BY <1>1, <1>2, CountStep, TypeCorrect, PTL DEF Spec

=============================================================================
