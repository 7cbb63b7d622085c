-------------------------- MODULE SelectionProofs --------------------------
(***************************************************************************)
(* Proofs about Selection, for pools, counters and callers of any size:    *)
(* the types, that the first member is handed out as a last resort only,   *)
(* that Selection implements RoundRobin, and that while all members are    *)
(* healthy no two of them are picked unevenly.                             *)
(***************************************************************************)
EXTENDS Selection, FiniteSetTheorems, TLAPS

-----------------------------------------------------------------------------
(* Arithmetic of the scan.                                                 *)

\* Adding multiples of the divisor does not change the remainder.
LEMMA ModPlus ==
    ASSUME NEW n \in Nat \ {0}, NEW q \in Nat, NEW r \in 0 .. n - 1
    PROVE  (q * n + r) % n = r
OBVIOUS

\* The remainder of a division is below the divisor.
LEMMA ModRange ==
    ASSUME NEW n \in Nat \ {0}, NEW s \in Nat
    PROVE  s % n \in 0 .. n - 1
OBVIOUS

\* A number is the divisor times the quotient, plus the remainder.
LEMMA Division ==
    ASSUME NEW n \in Nat \ {0}, NEW s \in Nat
    PROVE  /\ s \div n \in Nat
           /\ s = ((s \div n) * n) + (s % n)
OBVIOUS

\* What a call looks at is a member of the pool, whether or not its addition
\* wraps around.
LEMMA IndexType ==
    ASSUME NEW start \in Nat, NEW i \in Nat
    PROVE  Index(start, i, PoolLen) \in Member
<1>1. start + i \in Nat
  OBVIOUS
<1>2. (start + i) % Modulus \in Nat
  BY <1>1, ModRange, ModulusAssumption
<1> QED
  BY <1>2, ModRange, PoolLenAssumption DEF Index, Member

\* PoolLen turns of a scan whose additions do not wrap around look at every
\* member.
LEMMA ScanCovers ==
    ASSUME NEW start \in Nat, NoWrap(start, PoolLen), NEW b \in Member
    PROVE  \E i \in 0 .. PoolLen - 1 : Index(start, i, PoolLen) = b
<1> DEFINE n == PoolLen
           q == start \div n
           r == start % n
<1>0. n \in Nat \ {0} /\ b \in 0 .. n - 1
  BY PoolLenAssumption DEF Member
<1>1. q \in Nat /\ start = q * n + r
  BY <1>0, Division
<1>2. r \in 0 .. n - 1
  BY <1>0, ModRange
<1>3. ASSUME NEW i \in 0 .. n - 1
      PROVE  Index(start, i, n) = (start + i) % n
  <2>1. start + i \in 0 .. Modulus - 1
    BY <1>0, ModulusAssumption DEF NoWrap
  <2>2. (start + i) % Modulus = start + i
    BY <2>1, ModulusAssumption
  <2> QED
    BY <2>2 DEF Index
<1> HIDE DEF n, q, r
<1>4. CASE b >= r
  <2>1. b - r \in 0 .. n - 1
    BY <1>0, <1>2, <1>4
  <2>2. start + (b - r) = q * n + b
    BY <1>0, <1>1, <1>2
  <2>3. (q * n + b) % n = b
    BY <1>0, <1>1, ModPlus
  <2>4. Index(start, b - r, n) = b
    BY <1>3, <2>1, <2>2, <2>3
  <2> QED
    BY <2>1, <2>4 DEF n
<1>5. CASE b < r
  <2>1. (b - r) + n \in 0 .. n - 1
    BY <1>0, <1>2, <1>5
  <2>2. start + ((b - r) + n) = (q + 1) * n + b
    BY <1>0, <1>1, <1>2
  <2>3. ((q + 1) * n + b) % n = b
    <3>1. q + 1 \in Nat
      BY <1>1
    <3> QED
      BY <3>1, <1>0, ModPlus
  <2>4. Index(start, (b - r) + n, n) = b
    BY <1>3, <2>1, <2>2, <2>3
  <2> QED
    BY <2>1, <2>4 DEF n
<1> QED
  BY <1>0, <1>2, <1>4, <1>5

-----------------------------------------------------------------------------
(* The types.                                                              *)

\* What a running call looks at is a member.
LEMMA AtType ==
    ASSUME TypeOK, NEW c \in Caller
    PROVE  At(c) \in Member
<1>1. call[c].start \in Nat /\ call[c].i \in Nat
  <2>1. call[c] \in Call
    BY DEF TypeOK
  <2> QED
    BY <2>1, ModulusAssumption, PoolLenAssumption DEF Call
<1> QED
  BY <1>1, IndexType DEF At

\* The member that a fallback returns is the first one.
LEMMA FirstMember == 0 \in Member
BY PoolLenAssumption DEF Member

\* Every step keeps the types.
LEMMA TypeStep == TypeOK /\ [Next]_vars => TypeOK'
<1> SUFFICES ASSUME TypeOK, [Next]_vars PROVE TypeOK'
  OBVIOUS
<1> USE DEF TypeOK
<1>1. ASSUME NEW c \in Caller, Enter(c) PROVE TypeOK'
  <2>1. nextIndex' \in 0 .. Modulus - 1
    BY <1>1, ModRange, ModulusAssumption DEF Enter, Bump
  <2>2. [call[c] EXCEPT !.state = "scan", !.start = nextIndex, !.i = 0] \in Call
    <3>1. call[c] \in Call /\ 0 \in 0 .. PoolLen
      BY PoolLenAssumption
    <3> QED
      BY <3>1, Zenon DEF Call
  <2>3. call' \in [Caller -> Call]
    BY <1>1, <2>2 DEF Enter
  <2>4. quiet' \in BOOLEAN
    BY <1>1 DEF Enter, NoWrap
  <2> QED
    BY <1>1, <2>1, <2>3, <2>4 DEF Enter
<1>2. ASSUME NEW c \in Caller, Look(c) PROVE TypeOK'
  <2>0. At(c) \in Member
    BY AtType
  <2>1. CASE healthy[At(c)]
    <3>1. [call[c] EXCEPT !.state = "found", !.got = At(c)] \in Call
      BY <2>0 DEF Call
    <3>2. call' \in [Caller -> Call]
      BY <1>2, <2>1, <3>1 DEF Look
    <3>3. picks' \in [Member -> Nat]
      BY <1>2, <2>0, <2>1 DEF Look
    <3> QED
      BY <1>2, <3>2, <3>3 DEF Look
  <2>2. CASE ~healthy[At(c)]
    <3>1. [call[c] EXCEPT !.i = @ + 1] \in Call
      BY <1>2, PoolLenAssumption DEF Call, Look, Scanned
    <3>2. call' \in [Caller -> Call]
      BY <1>2, <2>2, <3>1 DEF Look
    <3> QED
      BY <1>2, <2>2, <3>2 DEF Look
  <2> QED
    BY <2>1, <2>2
<1>3. ASSUME NEW c \in Caller, FallBack(c) PROVE TypeOK'
  <2>1. [call[c] EXCEPT !.state = "fallback", !.got = 0] \in Call
    BY FirstMember DEF Call
  <2> QED
    BY <1>3, <2>1 DEF FallBack
<1>4. ASSUME NEW b \in Member, MarkUnhealthy(b) PROVE TypeOK'
  BY <1>4 DEF MarkUnhealthy
<1>5. ASSUME NEW b \in Member, Replace(b) PROVE TypeOK'
  <2>1. ASSUME NEW c \in Caller PROVE [call[c] EXCEPT !.state = "idle"] \in Call
    BY DEF Call
  <2> QED
    BY <1>5, <2>1 DEF Replace
<1>6. CASE UNCHANGED vars
  BY <1>6 DEF vars
<1> QED
  BY <1>1, <1>2, <1>3, <1>4, <1>5, <1>6 DEF Next

\* The variables always have their types: in particular the counter stays
\* within its width, and no call leaves the pool.
THEOREM SelectionTypes == Spec => []TypeOK
<1>1. Init => TypeOK
  BY FirstMember, ModulusAssumption, PoolLenAssumption DEF Init, TypeOK, Call
<1> QED
  BY <1>1, TypeStep, PTL DEF Spec

-----------------------------------------------------------------------------
(* The last resort.                                                        *)

\* The members a call has already looked at are not healthy: a flag that a
\* call has seen down stays down until the call is over.
SeenDown ==
    \A c \in Caller :
        InCall(c) /\ NoWrap(call[c].start, PoolLen)
            => \A j \in 0 .. call[c].i - 1 : ~healthy[Index(call[c].start, j, PoolLen)]

\* The inductive invariant.
ScanInv == TypeOK /\ SeenDown /\ FallBackIsLastResort

\* A step of c alone leaves the calls of the others as they are.
LEMMA OtherCalls ==
    ASSUME TypeOK, NEW c \in Caller, Enter(c) \/ Look(c) \/ FallBack(c),
           NEW d \in Caller, d # c
    PROVE  call'[d] = call[d] /\ healthy' = healthy
BY DEF Enter, Look, FallBack, TypeOK

\* Every step keeps the invariant.
LEMMA ScanStep == ScanInv /\ [Next]_vars => ScanInv'
<1> SUFFICES ASSUME ScanInv, [Next]_vars PROVE ScanInv'
  OBVIOUS
<1>0. TypeOK /\ TypeOK'
  BY TypeStep DEF ScanInv
<1>1. ASSUME NEW c \in Caller, Enter(c) PROVE SeenDown' /\ FallBackIsLastResort'
  <2>1. call'[c].state = "scan" /\ call'[c].i = 0
    BY <1>0, <1>1 DEF Enter, TypeOK, Call
  <2>2. ASSUME NEW d \in Caller, d # c PROVE call'[d] = call[d] /\ healthy' = healthy
    BY <1>0, <1>1, <2>2, OtherCalls
  <2>3. healthy' = healthy
    BY <1>1 DEF Enter
  <2>4. SeenDown'
    BY <2>1, <2>2, <2>3 DEF SeenDown, ScanInv, InCall
  <2>5. FallBackIsLastResort'
    BY <2>1, <2>2, <2>3 DEF FallBackIsLastResort, ScanInv
  <2> QED
    BY <2>4, <2>5
<1>2. ASSUME NEW c \in Caller, Look(c) PROVE SeenDown' /\ FallBackIsLastResort'
  <2>1. ASSUME NEW d \in Caller, d # c PROVE call'[d] = call[d] /\ healthy' = healthy
    BY <1>0, <1>2, <2>1, OtherCalls
  <2>2. healthy' = healthy
    BY <1>2 DEF Look
  <2>3. call[c].state = "scan" /\ call[c] \in Call
    BY <1>0, <1>2 DEF Look, InCall, TypeOK
  <2>4. CASE healthy[At(c)]
    <3>1. call'[c].state = "found"
      BY <1>0, <1>2, <2>4 DEF Look, TypeOK, Call
    <3>2. SeenDown'
      BY <2>1, <2>2, <3>1 DEF SeenDown, ScanInv, InCall
    <3>3. FallBackIsLastResort'
      BY <2>1, <2>2, <3>1 DEF FallBackIsLastResort, ScanInv
    <3> QED
      BY <3>2, <3>3
  <2>5. CASE ~healthy[At(c)]
    <3>1. /\ call'[c].state = "scan"
          /\ call'[c].start = call[c].start
          /\ call'[c].i = call[c].i + 1
      BY <1>0, <1>2, <2>3, <2>5 DEF Look, TypeOK, Call
    <3>2. ASSUME NoWrap(call[c].start, PoolLen), NEW j \in 0 .. call[c].i
          PROVE  ~healthy[Index(call[c].start, j, PoolLen)]
      <4>1. CASE j = call[c].i
        BY <2>5, <4>1 DEF At
      <4>2. CASE j # call[c].i
        <5>1. j \in 0 .. call[c].i - 1
          BY <2>3, <4>2 DEF Call
        <5> QED
          BY <5>1, <2>3, <3>2 DEF ScanInv, SeenDown, InCall
      <4> QED
        BY <4>1, <4>2
    <3>3. 0 .. (call[c].i + 1) - 1 = 0 .. call[c].i
      BY <2>3 DEF Call
    <3>4. SeenDown'
      BY <2>1, <2>2, <3>1, <3>2, <3>3 DEF SeenDown, ScanInv, InCall
    <3>5. FallBackIsLastResort'
      BY <2>1, <2>2, <3>1 DEF FallBackIsLastResort, ScanInv
    <3> QED
      BY <3>4, <3>5
  <2> QED
    BY <2>4, <2>5
<1>3. ASSUME NEW c \in Caller, FallBack(c) PROVE SeenDown' /\ FallBackIsLastResort'
  <2>1. ASSUME NEW d \in Caller, d # c PROVE call'[d] = call[d] /\ healthy' = healthy
    BY <1>0, <1>3, <2>1, OtherCalls
  <2>2. healthy' = healthy
    BY <1>3 DEF FallBack
  <2>3. call[c].state = "scan" /\ call[c].i = PoolLen /\ call[c] \in Call
    BY <1>0, <1>3 DEF FallBack, Scanned, InCall, TypeOK
  <2>4. call'[c].state = "fallback" /\ call'[c].start = call[c].start
    BY <1>0, <1>3, <2>3 DEF FallBack, TypeOK, Call
  <2>5. ASSUME NoWrap(call[c].start, PoolLen), NEW b \in Member PROVE ~healthy[b]
    <3>1. call[c].start \in Nat
      BY <2>3, ModulusAssumption DEF Call
    <3>2. PICK j \in 0 .. PoolLen - 1 : Index(call[c].start, j, PoolLen) = b
      BY <2>5, <3>1, ScanCovers
    <3> QED
      BY <2>3, <2>5, <3>2 DEF ScanInv, SeenDown, InCall
  <2>6. SeenDown'
    BY <2>1, <2>2, <2>4 DEF SeenDown, ScanInv, InCall
  <2>7. FallBackIsLastResort'
    BY <2>1, <2>2, <2>4, <2>5 DEF FallBackIsLastResort, ScanInv
  <2> QED
    BY <2>6, <2>7
<1>4. ASSUME NEW b \in Member, MarkUnhealthy(b) PROVE SeenDown' /\ FallBackIsLastResort'
  <2>1. call' = call
    BY <1>4 DEF MarkUnhealthy
  <2>2. ASSUME NEW m \in Member, ~healthy[m] PROVE ~healthy'[m]
    BY <1>0, <1>4, <2>2 DEF MarkUnhealthy, TypeOK
  <2>3. ASSUME NEW c \in Caller, NEW j \in 0 .. call[c].i - 1
        PROVE  Index(call[c].start, j, PoolLen) \in Member
    <3>1. call[c] \in Call
      BY <1>0 DEF TypeOK
    <3>2. call[c].start \in Nat /\ j \in Nat
      BY <3>1, ModulusAssumption DEF Call
    <3> QED
      BY <3>2, IndexType
  <2>4. SeenDown'
    BY <2>1, <2>2, <2>3 DEF SeenDown, ScanInv, InCall
  <2>5. FallBackIsLastResort'
    BY <2>1, <2>2 DEF FallBackIsLastResort, ScanInv
  <2> QED
    BY <2>4, <2>5
<1>5. ASSUME NEW b \in Member, Replace(b) PROVE SeenDown' /\ FallBackIsLastResort'
  <2>1. ASSUME NEW c \in Caller PROVE call'[c].state = "idle"
    <3>1. call[c] \in Call
      BY <1>0 DEF TypeOK
    <3> QED
      BY <1>5, <3>1 DEF Replace, Call
  <2> QED
    BY <2>1 DEF SeenDown, FallBackIsLastResort, InCall
<1>6. CASE UNCHANGED vars
  BY <1>6 DEF vars, ScanInv, TypeOK, Call, SeenDown, FallBackIsLastResort, InCall, Member
<1> QED
  <2>1. CASE Next
    BY <1>0, <1>1, <1>2, <1>3, <1>4, <1>5, <2>1 DEF Next, ScanInv
  <2> QED
    BY <1>6, <2>1

\* Whatever flags fall while calls scan, and however many calls share the
\* counter, a call whose additions do not wrap around returns the first member
\* unasked only if no member is healthy.
THEOREM LastResort == Spec => []FallBackIsLastResort
<1>1. Init => ScanInv
  <2>1. Init => TypeOK
    BY FirstMember, ModulusAssumption, PoolLenAssumption DEF Init, TypeOK, Call
  <2> QED
    BY <2>1 DEF Init, ScanInv, SeenDown, FallBackIsLastResort, InCall
<1>2. ScanInv => FallBackIsLastResort
  BY DEF ScanInv
<1> QED
  BY <1>1, <1>2, ScanStep, PTL DEF Spec
-----------------------------------------------------------------------------
(* The balance.  Where a call begins decides what it returns as long as    *)
(* every flag is up, so the calls that have begun at indices with the      *)
(* same remainder have returned the same member, or are about to.          *)

Calling == {c \in Caller : InCall(c)}

\* The calls under way that begin at member b.
Heading(b) == {c \in Calling : call[c].start % PoolLen = b}

\* How many of the numbers below the counter have remainder b.
Turns(next, b) == (next + PoolLen - 1 - b) \div PoolLen

\* The inductive invariant.  A pool of one needs no balance, and its counter may
\* wrap around without an addition of a call doing so.
BalanceInv ==
    /\ TypeOK
    /\ IsFiniteSet(Calling)
    /\ quiet => /\ \A b \in Member : healthy[b]
                /\ \A c \in Calling : call[c].i = 0
    /\ quiet /\ PoolLen > 1
         => \A b \in Member : picks[b] + Cardinality(Heading(b)) = Turns(nextIndex, b)

\* The quotient of a number written as a multiple and a rest.
LEMMA DivPlus ==
    ASSUME NEW n \in Nat \ {0}, NEW q \in Nat, NEW r \in 0 .. n - 1
    PROVE  (q * n + r) \div n = q
OBVIOUS

\* The next call is a turn of the member at its remainder and of no other one.
LEMMA OneTurn ==
    ASSUME NEW s \in Nat, NEW b \in Member
    PROVE  /\ Turns(s, b) \in Nat
           /\ Turns(s + 1, b) = Turns(s, b) + (IF s % PoolLen = b THEN 1 ELSE 0)
<1> DEFINE n == PoolLen
<1>1. n \in Nat \ {0} /\ b \in 0 .. n - 1
  BY PoolLenAssumption DEF Member
<1> HIDE DEF n
<1>2. PICK q \in Nat, r \in 0 .. n - 1 : s = q * n + r /\ r = s % n
  BY <1>1, Division, ModRange
<1>3. PICK x \in Nat : x = q * n
  BY <1>1
<1>4. (q + 1) * n = x + n
  BY <1>1, <1>3
<1>5. CASE r < b
  <2>1. s + n - 1 - b = q * n + (r + n - 1 - b) /\ r + n - 1 - b \in 0 .. n - 1
    BY <1>1, <1>2, <1>3, <1>5
  <2>2. s + 1 + n - 1 - b = q * n + (r + n - b) /\ r + n - b \in 0 .. n - 1
    BY <1>1, <1>2, <1>3, <1>5
  <2>3. (s + n - 1 - b) \div n = q /\ (s + 1 + n - 1 - b) \div n = q
    BY <1>1, <2>1, <2>2, DivPlus
  <2> QED
    BY <1>2, <1>5, <2>3 DEF Turns, n
<1>6. CASE r = b
  <2>1. s + n - 1 - b = q * n + (n - 1) /\ n - 1 \in 0 .. n - 1
    BY <1>1, <1>2, <1>3, <1>6
  <2>2. s + 1 + n - 1 - b = (q + 1) * n + 0 /\ 0 \in 0 .. n - 1 /\ q + 1 \in Nat
    BY <1>1, <1>2, <1>3, <1>4, <1>6
  <2>3. (s + n - 1 - b) \div n = q /\ (s + 1 + n - 1 - b) \div n = q + 1
    BY <1>1, <2>1, <2>2, DivPlus
  <2> QED
    BY <1>2, <1>6, <2>3 DEF Turns, n
<1>7. CASE r > b
  <2>1. s + n - 1 - b = (q + 1) * n + (r - 1 - b) /\ r - 1 - b \in 0 .. n - 1 /\ q + 1 \in Nat
    BY <1>1, <1>2, <1>3, <1>4, <1>7
  <2>2. s + 1 + n - 1 - b = (q + 1) * n + (r - b) /\ r - b \in 0 .. n - 1
    BY <1>1, <1>2, <1>3, <1>4, <1>7
  <2>3. (s + n - 1 - b) \div n = q + 1 /\ (s + 1 + n - 1 - b) \div n = q + 1
    BY <1>1, <2>1, <2>2, DivPlus
  <2> QED
    BY <1>2, <1>7, <2>3 DEF Turns, n
<1> QED
  BY <1>1, <1>2, <1>5, <1>6, <1>7

\* At any time no member has had two turns more than another one.
LEMMA TurnsAreEven ==
    ASSUME NEW s \in Nat, NEW a \in Member, NEW b \in Member
    PROVE  Turns(s, a) <= Turns(s, b) + 1
<1> DEFINE n == PoolLen
           x == s + n - 1 - a
           y == s + n - 1 - b
<1>1. n \in Nat \ {0} /\ a \in 0 .. n - 1 /\ b \in 0 .. n - 1
  BY PoolLenAssumption DEF Member
<1>2. x \in Nat /\ y \in Nat /\ x <= y + n - 1
  BY <1>1
<1> HIDE DEF n, x, y
<1>3. PICK q \in Nat, r \in 0 .. n - 1 : x = q * n + r /\ q = x \div n
  BY <1>1, <1>2, Division, ModRange
<1>4. PICK p \in Nat, u \in 0 .. n - 1 : y = p * n + u /\ p = y \div n
  BY <1>1, <1>2, Division, ModRange
<1>5. ASSUME q >= p + 2 PROVE FALSE
  <2>1. PICK d \in Nat : q = p + 2 + d
    <3>1. q - p - 2 \in Nat /\ q = p + 2 + (q - p - 2)
      BY <1>5
    <3> QED
      BY <3>1
  <2>2. q * n = p * n + 2 * n + d * n
    BY <1>1, <2>1
  <2>3. PICK k \in Nat, e \in Nat : k = p * n /\ e = d * n
    BY <1>1
  <2>4. x = k + 2 * n + e + r /\ y = k + u
    BY <1>3, <1>4, <2>2, <2>3
  <2> QED
    BY <1>1, <1>2, <2>4
<1> QED
  BY <1>3, <1>4, <1>5 DEF Turns, n, x, y

\* A call goes first to the member at its remainder.
LEMMA AtFirst ==
    ASSUME TypeOK, NEW c \in Caller, call[c].i = 0
    PROVE  At(c) = call[c].start % PoolLen
<1>1. call[c].start \in 0 .. Modulus - 1
  BY DEF TypeOK, Call
<1>2. (call[c].start + 0) % Modulus = call[c].start
  BY <1>1, ModulusAssumption
<1> QED
  BY <1>2 DEF At, Index

\* A call that begins takes the next turn.
LEMMA EnterBalance ==
    ASSUME BalanceInv, NEW c \in Caller, Enter(c)
    PROVE  BalanceInv'
<1>0. TypeOK /\ TypeOK'
  BY TypeStep DEF BalanceInv, Next
<1>1. /\ call'[c].state = "scan" /\ call'[c].i = 0 /\ call'[c].start = nextIndex
      /\ \A d \in Caller \ {c} : call'[d] = call[d]
      /\ c \notin Calling
  BY <1>0 DEF Enter, TypeOK, Call, InCall, Calling
<1>2. Calling' = Calling \cup {c}
  BY <1>1 DEF Calling, InCall
<1>3. IsFiniteSet(Calling')
  BY <1>2, FS_AddElement DEF BalanceInv
<1>4. quiet' => quiet
  BY DEF Enter
<1>5. ASSUME quiet' PROVE \A d \in Calling' : call'[d].i = 0
  BY <1>1, <1>2, <1>4, <1>5 DEF BalanceInv, Calling
<1>6. ASSUME quiet', PoolLen > 1, NEW b \in Member
      PROVE  picks'[b] + Cardinality(Heading(b)') = Turns(nextIndex', b)
  <2>1. nextIndex \in Nat /\ nextIndex + 1 < Modulus
    <3>1. NoWrap(nextIndex, PoolLen)
      BY <1>6 DEF Enter
    <3>2. nextIndex + PoolLen <= Modulus
      BY <3>1 DEF NoWrap
    <3> QED
      BY <1>0, <1>6, <3>2, ModulusAssumption, PoolLenAssumption DEF TypeOK
  <2>2. nextIndex' = nextIndex + 1
    BY <2>1, ModulusAssumption DEF Enter, Bump
  <2>3. /\ Turns(nextIndex, b) \in Nat
        /\ Turns(nextIndex', b)
             = Turns(nextIndex, b) + (IF nextIndex % PoolLen = b THEN 1 ELSE 0)
    BY <2>1, <2>2, OneTurn
  <2>4. picks[b] + Cardinality(Heading(b)) = Turns(nextIndex, b) /\ picks' = picks
    BY <1>4, <1>6 DEF BalanceInv, Enter
  <2>5. IsFiniteSet(Heading(b)) /\ c \notin Heading(b)
    BY <1>1, FS_Subset DEF Heading, BalanceInv
  <2>6. Cardinality(Heading(b)) \in Nat /\ picks[b] \in Nat
    BY <1>0, <2>5, FS_CardinalityType DEF TypeOK
  <2>7. CASE nextIndex % PoolLen = b
    <3>1. Heading(b)' = Heading(b) \cup {c}
      BY <1>1, <1>2, <2>7 DEF Heading, Calling
    <3>2. Cardinality(Heading(b)') = Cardinality(Heading(b)) + 1
      BY <2>5, <3>1, FS_AddElement
    <3> QED
      BY <2>3, <2>4, <2>6, <2>7, <3>2
  <2>8. CASE nextIndex % PoolLen # b
    <3>1. Heading(b)' = Heading(b)
      BY <1>1, <1>2, <2>8 DEF Heading, Calling
    <3> QED
      BY <2>3, <2>4, <2>6, <2>8, <3>1
  <2> QED
    BY <2>7, <2>8
<1> QED
  BY <1>0, <1>3, <1>4, <1>5, <1>6 DEF BalanceInv, Enter

\* A call that finds its first member healthy returns it.
LEMMA LookBalance ==
    ASSUME BalanceInv, NEW c \in Caller, Look(c)
    PROVE  BalanceInv'
<1>0. TypeOK /\ TypeOK'
  BY TypeStep DEF BalanceInv, Next
<1>1. /\ c \in Calling /\ At(c) \in Member
      /\ \A d \in Caller \ {c} : call'[d] = call[d]
      /\ call[c] \in Call /\ call \in [Caller -> Call]
  BY <1>0, AtType DEF Look, TypeOK, Calling
<1>2. CASE healthy[At(c)]
  <2>1. call'[c].state = "found"
    BY <1>1, <1>2 DEF Look, Call
  <2>2. Calling' = Calling \ {c}
    BY <1>1, <2>1 DEF Calling, InCall
  <2>3. IsFiniteSet(Calling')
    BY <2>2, FS_RemoveElement DEF BalanceInv
  <2>4. ASSUME quiet PROVE \A d \in Calling' : call'[d].i = 0
    BY <1>1, <2>2, <2>4 DEF BalanceInv, Calling
  <2>5. ASSUME quiet, PoolLen > 1, NEW b \in Member
        PROVE  picks'[b] + Cardinality(Heading(b)') = Turns(nextIndex, b)
    <3>1. At(c) = call[c].start % PoolLen
      BY <1>0, <1>1, <2>5, AtFirst DEF BalanceInv
    <3>2. picks' = [picks EXCEPT ![At(c)] = @ + 1]
      BY <1>2, <2>5 DEF Look
    <3>3. picks[b] + Cardinality(Heading(b)) = Turns(nextIndex, b)
      BY <2>5 DEF BalanceInv
    <3>4. IsFiniteSet(Heading(b))
      BY FS_Subset DEF Heading, BalanceInv
    <3>5. Cardinality(Heading(b)) \in Nat /\ picks[b] \in Nat /\ picks \in [Member -> Nat]
      BY <1>0, <3>4, FS_CardinalityType DEF TypeOK
    <3>6. CASE At(c) = b
      <4>1. c \in Heading(b) /\ Heading(b)' = Heading(b) \ {c}
        BY <1>1, <2>2, <3>1, <3>6 DEF Heading, Calling
      <4>2. Cardinality(Heading(b)') = Cardinality(Heading(b)) - 1
        BY <3>4, <4>1, FS_RemoveElement
      <4>3. picks'[b] = picks[b] + 1
        BY <1>1, <3>2, <3>5, <3>6
      <4> QED
        BY <3>3, <3>5, <4>2, <4>3
    <3>7. CASE At(c) # b
      <4>1. Heading(b)' = Heading(b)
        BY <1>1, <2>2, <3>1, <3>7 DEF Heading, Calling
      <4>2. picks'[b] = picks[b]
        BY <1>1, <3>2, <3>5, <3>7
      <4> QED
        BY <3>3, <4>1, <4>2
    <3> QED
      BY <3>6, <3>7
  <2> QED
    BY <1>0, <2>3, <2>4, <2>5 DEF BalanceInv, Look
<1>3. CASE ~healthy[At(c)]
  <2>1. ~quiet /\ quiet' = quiet
    BY <1>1, <1>3 DEF BalanceInv, Look
  <2>2. call'[c].state = call[c].state
    BY <1>1, <1>3 DEF Look, Call
  <2>3. Calling' = Calling
    BY <1>1, <2>2 DEF Calling, InCall
  <2> QED
    BY <1>0, <2>1, <2>3 DEF BalanceInv
<1> QED
  BY <1>2, <1>3

\* While no flag falls no call falls back, and other steps are of no account.
LEMMA BalanceStep == BalanceInv /\ [Next]_vars => BalanceInv'
<1> SUFFICES ASSUME BalanceInv, [Next]_vars PROVE BalanceInv'
  OBVIOUS
<1>0. TypeOK /\ TypeOK'
  BY TypeStep DEF BalanceInv
<1>1. CASE \E c \in Caller : Enter(c) \/ Look(c)
  BY <1>1, EnterBalance, LookBalance
<1>2. ASSUME NEW c \in Caller, FallBack(c) PROVE BalanceInv'
  <2>1. c \in Calling /\ call[c].i = PoolLen
    BY <1>2 DEF FallBack, Scanned, Calling
  <2>2. ~quiet /\ quiet' = quiet
    BY <1>2, <2>1, PoolLenAssumption DEF BalanceInv, FallBack
  <2>3. Calling' \subseteq Calling
    BY <1>0, <1>2, <2>1 DEF FallBack, Calling, InCall, TypeOK
  <2>4. IsFiniteSet(Calling')
    BY <2>3, FS_Subset DEF BalanceInv
  <2> QED
    BY <1>0, <2>2, <2>4 DEF BalanceInv
<1>3. ASSUME NEW b \in Member, MarkUnhealthy(b) PROVE BalanceInv'
  <2>1. ~quiet' /\ Calling' = Calling
    BY <1>3 DEF MarkUnhealthy, Calling, InCall
  <2> QED
    BY <1>0, <2>1 DEF BalanceInv
<1>4. ASSUME NEW b \in Member, Replace(b) PROVE BalanceInv'
  <2>1. ~quiet'
    BY <1>4 DEF Replace, BalanceInv
  <2>2. ASSUME NEW c \in Caller PROVE call'[c].state = "idle"
    <3>1. call[c] \in Call
      BY <1>0 DEF TypeOK
    <3> QED
      BY <1>4, <3>1 DEF Replace, Call
  <2>3. Calling' = {}
    BY <2>2 DEF Calling, InCall
  <2> QED
    BY <1>0, <2>1, <2>3, FS_EmptySet DEF BalanceInv
<1>5. CASE UNCHANGED vars
  <2>1. /\ Calling' = Calling /\ \A b : Heading(b)' = Heading(b)
        /\ quiet' = quiet /\ healthy' = healthy /\ call' = call /\ picks' = picks
        /\ nextIndex' = nextIndex
    BY <1>5 DEF vars, Calling, Heading, InCall
  <2> QED
    BY <1>0, <2>1 DEF BalanceInv
<1> QED
  BY <1>1, <1>2, <1>3, <1>4, <1>5 DEF Next

\* However the calls interleave, the members are returned equally often up to
\* one and to the calls under way, until a flag falls or a call's additions wrap
\* around: the shared counter alone spreads the load.
THEOREM CallsAreBalanced == Spec => []Balanced
<1>1. Init => BalanceInv
  <2> SUFFICES ASSUME Init PROVE BalanceInv
    OBVIOUS
  <2>1. TypeOK
    BY FirstMember, ModulusAssumption, PoolLenAssumption DEF Init, TypeOK, Call
  <2>2. Calling = {} /\ \A b : Heading(b) = {}
    BY DEF Init, Calling, Heading, InCall
  <2>3. ASSUME NEW b \in Member PROVE Turns(0, b) = 0
    <3>1. PoolLen \in Nat \ {0} /\ PoolLen - 1 - b \in 0 .. PoolLen - 1
      BY PoolLenAssumption DEF Member
    <3>2. (0 * PoolLen + (PoolLen - 1 - b)) \div PoolLen = 0
      BY <3>1, DivPlus
    <3>3. 0 + PoolLen - 1 - b = 0 * PoolLen + (PoolLen - 1 - b)
      BY <3>1
    <3> QED
      BY <3>2, <3>3 DEF Turns
  <2> QED
    BY <2>1, <2>2, <2>3, FS_EmptySet DEF BalanceInv, Init
<1>2. BalanceInv => Balanced
  <2> SUFFICES ASSUME BalanceInv, quiet, NEW a \in Member, NEW b \in Member
               PROVE  picks[a] <= picks[b] + 1 + Cardinality(Calling)
    BY DEF Balanced, Calling
  <2>1. /\ IsFiniteSet(Calling) /\ Cardinality(Calling) \in Nat
        /\ picks[a] \in Nat /\ picks[b] \in Nat
    BY FS_CardinalityType DEF BalanceInv, TypeOK
  <2>2. CASE PoolLen = 1
    <3>1. a = b
      BY <2>2 DEF Member
    <3> QED
      BY <2>1, <3>1
  <2>3. CASE PoolLen > 1
    <3>1. nextIndex \in Nat
      BY ModulusAssumption DEF BalanceInv, TypeOK
    <3>2. /\ Turns(nextIndex, a) \in Nat /\ Turns(nextIndex, b) \in Nat
          /\ Turns(nextIndex, a) <= Turns(nextIndex, b) + 1
      BY <3>1, OneTurn, TurnsAreEven
    <3>3. /\ picks[a] + Cardinality(Heading(a)) = Turns(nextIndex, a)
          /\ picks[b] + Cardinality(Heading(b)) = Turns(nextIndex, b)
      BY <2>3 DEF BalanceInv
    <3>4. /\ Cardinality(Heading(a)) \in Nat
          /\ Cardinality(Heading(b)) \in Nat
          /\ Cardinality(Heading(b)) <= Cardinality(Calling)
      BY <2>1, FS_Subset, FS_CardinalityType DEF Heading
    <3> QED
      BY <2>1, <3>2, <3>3, <3>4
  <2> QED
    BY <2>2, <2>3, PoolLenAssumption
<1> QED
  BY <1>1, <1>2, BalanceStep, PTL DEF Spec
=============================================================================
