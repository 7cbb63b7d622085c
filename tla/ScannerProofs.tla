---------------------------- MODULE ScannerProofs ----------------------------
(***************************************************************************)
(* Proofs about Scanner and the IPGenerator it EXTENDS, for every width of *)
(* an address, all prefixes and queues of any size.                        *)
(***************************************************************************)
EXTENDS Scanner, FiniteSetTheorems, TLAPS

-----------------------------------------------------------------------------
(* Arithmetic of prefixes.                                                 *)

\* A power of two is the number of subsets, and so a positive number.
LEMMA PowerType ==
    ASSUME NEW n \in Nat
    PROVE  2^n \in Nat \ {0}
<1>1. IsFiniteSet(1 .. n) /\ Cardinality(1 .. n) = n
  BY FS_Interval
<1>2. IsFiniteSet(SUBSET (1 .. n)) /\ Cardinality(SUBSET (1 .. n)) = 2^n
  BY <1>1, FS_SUBSET
<1>3. SUBSET (1 .. n) # {}
  BY {} \in SUBSET (1 .. n)
<1> QED
  BY <1>2, <1>3, FS_CardinalityType, FS_EmptySet

\* Powers multiply: a subset of 1 .. m + n is one of 1 .. m and one of the rest.
LEMMA PowerSplit ==
    ASSUME NEW m \in Nat, NEW n \in Nat
    PROVE  2^(m + n) = 2^m * 2^n
<1> DEFINE A == 1 .. m
           B == m + 1 .. m + n
           C == 1 .. m + n
           S == SUBSET C
           T == (SUBSET A) \X (SUBSET B)
           f == [X \in S |-> <<X \cap A, X \cap B>>]
<1>1. /\ IsFiniteSet(A) /\ Cardinality(A) = m
      /\ IsFiniteSet(B) /\ Cardinality(B) = n
      /\ IsFiniteSet(C) /\ Cardinality(C) = m + n
  <2>1. IsFiniteSet(A) /\ Cardinality(A) = IF 1 > m THEN 0 ELSE m - 1 + 1
    BY FS_Interval
  <2>2. IsFiniteSet(B) /\ Cardinality(B) = IF m + 1 > m + n THEN 0 ELSE m + n - (m + 1) + 1
    <3>1. m + 1 \in Int /\ m + n \in Int
      OBVIOUS
    <3> QED
      BY <3>1, FS_Interval
  <2>3. IsFiniteSet(C) /\ Cardinality(C) = IF 1 > m + n THEN 0 ELSE m + n - 1 + 1
    BY FS_Interval
  <2> QED
    BY <2>1, <2>2, <2>3
<1>2. /\ IsFiniteSet(S) /\ Cardinality(S) = 2^(m + n)
      /\ IsFiniteSet(SUBSET A) /\ Cardinality(SUBSET A) = 2^m
      /\ IsFiniteSet(SUBSET B) /\ Cardinality(SUBSET B) = 2^n
  BY <1>1, FS_SUBSET
<1>3. IsFiniteSet(T) /\ Cardinality(T) = 2^m * 2^n
  <2> HIDE DEF A, B
  <2>1. IsFiniteSet(T) /\ Cardinality(T) = Cardinality(SUBSET A) * Cardinality(SUBSET B)
    BY <1>2, FS_Product
  <2> QED
    BY <1>2, <2>1
<1>4. C = A \cup B /\ A \cap B = {}
  OBVIOUS
<1>5. f \in [S -> T]
  OBVIOUS
<1>6. ASSUME NEW X \in S, NEW Y \in S, f[X] = f[Y]
      PROVE  X = Y
  <2>1. X \cap A = Y \cap A /\ X \cap B = Y \cap B
    BY <1>6
  <2> QED
    BY <1>4, <2>1
<1>7. ASSUME NEW t \in T
      PROVE  \E X \in S : f[X] = t
  <2> DEFINE X == t[1] \cup t[2]
  <2>1. X \in S
    BY <1>4
  <2>2. X \cap A = t[1] /\ X \cap B = t[2]
    BY <1>4
  <2>3. f[X] = t
    BY <2>1, <2>2
  <2> QED
    BY <2>1, <2>3
<1>8. f \in Bijection(S, T)
  <2> HIDE DEF f, S, T
  <2> QED
    BY <1>5, <1>6, <1>7 DEF Bijection, Injection, IsInjective, Surjection
<1>9. ExistsBijection(S, T)
  BY <1>8 DEF ExistsBijection
<1> QED
  BY <1>2, <1>3, <1>9, FS_Bijection

\* A number is the divisor times the quotient, plus the remainder.
LEMMA Division ==
    ASSUME NEW h \in Nat \ {0}, NEW a \in Nat
    PROVE  a \div h \in Nat /\ a % h \in 0 .. h - 1 /\ a = (a \div h) * h + (a % h)
  OBVIOUS

\* Multiples of a number are at least that number apart.
LEMMA Multiples ==
    ASSUME NEW h \in Nat, NEW p \in Nat, NEW q \in Nat, p < q
    PROVE  p * h \in Nat /\ q * h \in Nat /\ p * h + h <= q * h
<1>1. PICK d \in Nat : q = p + 1 + d
  <2>1. q - p - 1 \in Nat /\ q = p + 1 + (q - p - 1)
    OBVIOUS
  <2> QED
    BY <2>1
<1>2. q * h = p * h + h + d * h
  BY <1>1
<1>3. p * h \in Nat /\ q * h \in Nat /\ d * h \in Nat
  OBVIOUS
<1> QED
  BY <1>2, <1>3

\* Two numbers have the same quotient iff one lies in the divisor's span around
\* the other.
LEMMA SameQuotient ==
    ASSUME NEW h \in Nat \ {0}, NEW a \in Nat, NEW b \in Nat
    PROVE  a \div h = b \div h <=> a \in b - (b % h) .. b - (b % h) + h - 1
<1>1. PICK p \in Nat, r \in 0 .. h - 1 : p = a \div h /\ a = p * h + r
  BY Division
<1>2. PICK q \in Nat, t \in 0 .. h - 1 : q = b \div h /\ t = b % h /\ b = q * h + t
  BY Division
<1>3. PICK P \in Nat, Q \in Nat : P = p * h /\ Q = q * h
  OBVIOUS
<1>4. p < q => P + h <= Q
  BY <1>3, Multiples
<1>5. q < p => Q + h <= P
  BY <1>3, Multiples
<1>6. p = q => P = Q
  BY <1>3
<1>7. a = P + r /\ b = Q + t
  BY <1>1, <1>2, <1>3
<1>8. p = q <=> a \in Q .. Q + h - 1
  BY <1>4, <1>5, <1>6, <1>7
<1>9. b - (b % h) = Q
  BY <1>2, <1>7
<1> QED
  BY <1>1, <1>2, <1>8, <1>9

\* The size of a prefix is a positive number, and divides the address space.
LEMMA HostsType ==
    ASSUME NEW g \in Prefix
    PROVE  /\ Hosts(g) \in Nat \ {0} /\ 2^g.bits \in Nat \ {0} /\ 2^Width \in Nat \ {0}
           /\ 2^Width = 2^g.bits * Hosts(g)
<1>1. g.bits \in Nat /\ Width - g.bits \in Nat /\ Width \in Nat /\ Width = g.bits + (Width - g.bits)
  BY WidthAssumption DEF Prefix
<1> QED
  BY <1>1, PowerType, PowerSplit DEF Hosts

\* The addresses from that of a prefix to its last one are the addresses of its
\* network that are not below it.
LEMMA PrefixRange ==
    ASSUME NEW g \in Prefix
    PROVE  /\ g.addr \in Address /\ Last(g) \in Address /\ g.addr <= Last(g)
           /\ \A a \in Nat : a \in g.addr .. Last(g) <=> a >= g.addr /\ SamePrefix(a, g)
<1>1. PICK h \in Nat \ {0}, k \in Nat \ {0}, W \in Nat \ {0} :
          h = Hosts(g) /\ W = 2^Width /\ W = k * h
  BY HostsType
<1>2. PICK b \in Nat : b = g.addr /\ b < W
  BY <1>1 DEF Prefix, Address
<1>3. Last(g) = b - (b % h) + h - 1
  BY <1>1, <1>2 DEF Last
<1>4. PICK q \in Nat, t \in 0 .. h - 1 : t = b % h /\ b = q * h + t
  BY Division
<1>5. PICK Q \in Nat : Q = q * h
  OBVIOUS
<1>6. b = Q + t /\ Last(g) = Q + h - 1
  BY <1>3, <1>4, <1>5
<1>7. Q + h <= W
  <2>1. q < k
    <3>1. k < q => W + h <= Q
      BY <1>1, <1>5, Multiples
    <3>2. k = q => W = Q
      BY <1>1, <1>5
    <3> QED
      BY <1>2, <1>6, <3>1, <3>2
  <2> QED
    BY <1>1, <1>5, <2>1, Multiples
<1>8. b <= Last(g) /\ Last(g) \in 0 .. W - 1 /\ b \in 0 .. W - 1
  BY <1>6, <1>7
<1>9. ASSUME NEW a \in Nat
      PROVE  a \in b .. Last(g) <=> a >= b /\ SamePrefix(a, g)
  <2>1. SamePrefix(a, g) <=> a \in b - (b % h) .. b - (b % h) + h - 1
    BY <1>1, <1>2, SameQuotient DEF SamePrefix
  <2>2. b - (b % h) = Q
    BY <1>4, <1>6
  <2> QED
    BY <1>6, <2>1, <2>2
<1> QED
  BY <1>1, <1>2, <1>8, <1>9 DEF Address

-----------------------------------------------------------------------------
(* The invariant.                                                          *)

\* The next address of g's generator, as long as there is one.
UpTo(g) == gen[g].ranges[1].current

\* A generator of one range, that of its prefix.
GeneratorOf(g, c, r) ==
    [ranges |-> <<[current |-> c, end |-> Last(g)]>>, currentRange |-> r]

CommandTypes == /\ command \in {"run", "scanner"} /\ families \subseteq BOOLEAN
                /\ main \in {"scanning", "found", "failed"}
Flags == interrupted \in BOOLEAN /\ engDone \in BOOLEAN /\ ideal \in BOOLEAN
ScanTypes == scan \in {"new", "init", "loop", "round", "save", "over", "unsaved"}
PingerTypes == pinger \in [Prefixes -> {"ping", "cache", "enqueue", "done"}]
AddressTypes == ip \in [Prefixes -> Address]
InfoTypes == info \in [Prefixes -> SUBSET Info]
ItemTypes == offered \subseteq Info /\ reserved \subseteq Info
SignalTypes == signals \in 0 .. QueueSize
CacheTypes == cached \subseteq Endpoint /\ file \subseteq Endpoint
ResultTypes == result \in Seq(Endpoint) /\ Len(result) <= QueueSize

\* A generator walks from the address of its prefix to the last one.
Walks ==
    /\ DOMAIN gen = Prefixes
    /\ \A g \in Prefixes : \E c \in g.addr .. (Last(g) + 1), r \in 1 .. 2 :
          gen[g] = GeneratorOf(g, c, r) /\ (r = 2 => c = Last(g) + 1)

\* A goroutine pings in a round, for a wanted family, the address its generator
\* has yielded last.
Pings ==
    \A g \in Prefixes : pinger[g] # "done" =>
        scan = "round" /\ g.v6 \in families /\ ip[g] >= g.addr /\ ip[g] = UpTo(g) - 1

\* What it has found is that address, which is cached before it is enqueued.
Finds ==
    \A g \in Prefixes : pinger[g] \in {"cache", "enqueue"} => \E r \in RTT :
        /\ info[g] = {[ep |-> ip[g], rtt |-> r]}
        /\ pinger[g] = "enqueue" => r < MaxRTT /\ ip[g] \in cached

\* What was offered to the queue is fast and cached, and a generator of a wanted
\* family has yielded it.
Offers ==
    \A i \in offered : /\ i.rtt < MaxRTT /\ i.ep \in cached
                       /\ \E g \in Prefixes : /\ g.v6 \in families
                                              /\ i.ep \in g.addr .. (UpTo(g) - 1)

\* The address being pinged was not offered yet, nor was one that follows it.
Fresh ==
    \A g \in Prefixes : pinger[g] # "done" =>
        \A j \in offered : j.ep \in g.addr .. Last(g) => j.ep < ip[g]

\* The queue is a part of what was offered, each endpoint once, and all of it as
\* long as it can hold that.
Queues ==
    /\ IsFiniteSet(offered) /\ queue \subseteq offered
    /\ \A i, j \in offered : i.ep = j.ep => i = j
    /\ Cardinality(queue) \in 0 .. QueueSize
    /\ Cardinality(offered) <= QueueSize => queue = offered

\* What was found is cached, and what is cached is in the file when it was
\* written at the end.
Saves == /\ main = "found" => \A i \in DOMAIN result : result[i] \in cached
         /\ scan = "over" => file = cached

ScanInv ==
    /\ CommandTypes /\ Flags /\ ScanTypes /\ PingerTypes /\ AddressTypes /\ InfoTypes
    /\ ItemTypes /\ SignalTypes /\ CacheTypes /\ ResultTypes
    /\ Walks /\ Pings /\ Finds /\ Offers /\ Fresh /\ Queues /\ Saves

-----------------------------------------------------------------------------
(* The steps of the scanner.                                               *)

\* What a generator of one range does: it yields the next address up to the
\* last one, and then has no more.
LEMMA GeneratorSteps ==
    ASSUME NEW g \in Prefixes, NEW c \in g.addr .. (Last(g) + 1), NEW r \in 1 .. 2,
           r = 2 => c = Last(g) + 1
    PROVE  LET G == GeneratorOf(g, c, r) IN
           /\ c \in Nat /\ Last(g) \in Nat /\ c + 1 \in Nat
           /\ More(G) <=> c <= Last(g)
           /\ More(G) => NextIP(G) = c /\ Advanced(G) = GeneratorOf(g, c + 1, 1)
           /\ ~More(G) => Advanced(G) = GeneratorOf(g, c, 2)
<1> DEFINE G == GeneratorOf(g, c, r)
<1>1. g \in Prefix /\ g.addr \in Nat /\ Last(g) \in Nat
  <2>1. g \in Prefix
    BY ScannerAssumption
  <2> QED
    BY <2>1, PrefixRange, HostsType DEF Address
<1>2. c \in Nat /\ c <= Last(g) + 1
  BY <1>1
<1>3. Len(G.ranges) = 1 /\ G.ranges[1] = [current |-> c, end |-> Last(g)] /\ G.currentRange = r
  BY DEF GeneratorOf
<1>4. Live(G) = IF c <= Last(g) THEN {1} ELSE {}
  <2>1. HasNext(G.ranges[1]) <=> c <= Last(g)
    BY <1>3 DEF HasNext
  <2>2. \A i : i \in Live(G) <=> i \in r .. 1 /\ HasNext(G.ranges[i])
    BY <1>3 DEF Live
  <2>3. c <= Last(g) => r = 1
    BY <1>1, <1>2
  <2>4. \A i : i \in r .. 1 => i = 1
    OBVIOUS
  <2>5. 1 \in 1 .. 1
    OBVIOUS
  <2> QED
    BY <2>1, <2>2, <2>3, <2>4, <2>5
<1>5. More(G) <=> c <= Last(g)
  BY <1>4 DEF More
<1>6. ASSUME c <= Last(g)
      PROVE  NextIP(G) = c /\ Advanced(G) = GeneratorOf(g, c + 1, 1)
  <2>1. Live(G) = {1}
    BY <1>4, <1>6
  <2>2. First(G) = 1
    BY <2>1 DEF First
  <2>3. NextIP(G) = c
    BY <1>3, <2>2 DEF NextIP
  <2>4. Advanced(G) = [ranges |-> [G.ranges EXCEPT ![1].current = @ + 1], currentRange |-> 1]
    BY <1>5, <1>6, <2>2 DEF Advanced
  <2>5. [G.ranges EXCEPT ![1].current = @ + 1] = <<[current |-> c + 1, end |-> Last(g)]>>
    <3>1. \A x : [<<x>> EXCEPT ![1].current = @ + 1] = <<[x EXCEPT !.current = @ + 1]>>
      OBVIOUS
    <3>2. [[current |-> c, end |-> Last(g)] EXCEPT !.current = @ + 1]
             = [current |-> c + 1, end |-> Last(g)]
      OBVIOUS
    <3>3. G.ranges = <<[current |-> c, end |-> Last(g)]>>
      BY DEF GeneratorOf
    <3> QED
      BY <3>1, <3>2, <3>3
  <2>6. Advanced(G) = GeneratorOf(g, c + 1, 1)
    BY <2>4, <2>5 DEF GeneratorOf
  <2> QED
    BY <2>3, <2>6
<1>7. ASSUME ~(c <= Last(g))
      PROVE  Advanced(G) = GeneratorOf(g, c, 2)
  BY <1>3, <1>5, <1>7 DEF Advanced, GeneratorOf
<1> QED
  BY <1>1, <1>2, <1>5, <1>6, <1>7

\* The initial states satisfy the invariant.
LEMMA ScanInit ==
    ASSUME Init
    PROVE  ScanInv
<1>1. \A g \in Prefixes : /\ g.addr \in Address /\ Last(g) \in Address /\ g.addr <= Last(g)
                          /\ g.addr \in Nat /\ Last(g) \in Nat
  BY ScannerAssumption, PrefixRange, HostsType DEF Address
<1>2. QueueSize \in Nat \ {0}
  BY ScannerAssumption DEF QueueSize
<1>3. CommandTypes /\ Flags /\ ScanTypes /\ ItemTypes
  BY DEF Init, CommandTypes, Flags, ScanTypes, ItemTypes
<1>4. PingerTypes /\ AddressTypes /\ InfoTypes
  BY <1>1 DEF Init, PingerTypes, AddressTypes, InfoTypes
<1>5. SignalTypes /\ ResultTypes
  BY <1>2 DEF Init, SignalTypes, ResultTypes
<1>6. CacheTypes /\ Saves
  BY FileAssumption DEF Init, CacheTypes, Saves
<1>7. Walks
  <2>1. \A g \in Prefixes : gen[g] = GeneratorOf(g, g.addr, 1)
    BY DEF Init, NewIpGenerator, NewIPRange, GeneratorOf
  <2>2. \A g \in Prefixes : g.addr \in g.addr .. (Last(g) + 1)
    BY <1>1
  <2>3. DOMAIN gen = Prefixes
    BY DEF Init
  <2> QED
    BY <2>1, <2>2, <2>3 DEF Walks
<1>8. Pings /\ Finds /\ Fresh
  BY DEF Init, Pings, Finds, Fresh
<1>9. Offers /\ Queues
  BY <1>2, FS_EmptySet DEF Init, Offers, Queues
<1> QED
  BY <1>3, <1>4, <1>5, <1>6, <1>7, <1>8, <1>9 DEF ScanInv

\* The engine is made.
LEMMA CreateStep ==
    ASSUME ScanInv, Create
    PROVE  ScanInv'
<1>1. UNCHANGED <<command, families, main, result, interrupted, gen, ip, pinger,
                   info, queue, reserved, ideal, signals, cached, file, offered>>
  BY DEF Create, mainVars, genVars, queueVars, cacheVars
<1>2. scan = "new" /\ scan' = "init" /\ engDone' = interrupted
  BY DEF Create
<1>3. CommandTypes' /\ PingerTypes' /\ AddressTypes' /\ InfoTypes' /\ ItemTypes' /\
      SignalTypes' /\ CacheTypes' /\ ResultTypes' /\ Walks' /\ Finds' /\ Offers' /\ Fresh' /\
      Queues'
  BY <1>1
  DEF ScanInv, CommandTypes, PingerTypes, AddressTypes, InfoTypes, ItemTypes,
      SignalTypes, CacheTypes, ResultTypes, Walks, Finds, Offers, Fresh, Queues,
      QueueSize, UpTo
<1>4. Flags'
  BY <1>1, <1>2 DEF ScanInv, Flags
<1>5. ScanTypes'
  BY <1>1, <1>2 DEF ScanInv, ScanTypes
<1>6. Pings'
  BY <1>1, <1>2 DEF ScanInv, Pings, UpTo
<1>7. Saves'
  BY <1>1, <1>2 DEF ScanInv, Saves
<1> QED
  BY <1>3, <1>4, <1>5, <1>6, <1>7 DEF ScanInv

\* The queue is told that it is there.
LEMMA InitQueueStep ==
    ASSUME ScanInv, InitQueue
    PROVE  ScanInv'
<1>1. UNCHANGED <<command, families, main, result, interrupted, engDone, gen, ip,
                   pinger, info, queue, reserved, ideal, cached, file, offered>>
  BY DEF InitQueue, mainVars, genVars, queueVars, cacheVars
<1>2. scan = "init" /\ scan' = "loop"
  BY DEF InitQueue
<1>3. signals' \in 0 .. QueueSize
  BY ScannerAssumption DEF InitQueue, ScanInv, SignalTypes, QueueSize
<1>4. CommandTypes' /\ Flags' /\ PingerTypes' /\ AddressTypes' /\ InfoTypes' /\ ItemTypes' /\
      CacheTypes' /\ ResultTypes' /\ Walks' /\ Finds' /\ Offers' /\ Fresh' /\ Queues'
  BY <1>1
  DEF ScanInv, CommandTypes, Flags, PingerTypes, AddressTypes, InfoTypes, ItemTypes,
      CacheTypes, ResultTypes, Walks, Finds, Offers, Fresh, Queues, QueueSize, UpTo
<1>5. ScanTypes'
  BY <1>1, <1>2, <1>3 DEF ScanInv, ScanTypes
<1>6. SignalTypes'
  BY <1>1, <1>2, <1>3 DEF ScanInv, SignalTypes, QueueSize
<1>7. Pings'
  BY <1>1, <1>2, <1>3 DEF ScanInv, Pings, UpTo
<1>8. Saves'
  BY <1>1, <1>2, <1>3 DEF ScanInv, Saves
<1> QED
  BY <1>4, <1>5, <1>6, <1>7, <1>8 DEF ScanInv

\* A round begins: a generator that has an address left yields it.
LEMMA RoundStep ==
    ASSUME ScanInv, Round
    PROVE  ScanInv'
<1>1. UNCHANGED <<command, families, main, result, interrupted, engDone, info, queue,
                   reserved, ideal, signals, cached, file, offered>>
  BY DEF Round, mainVars, genVars, queueVars, cacheVars
<1>2. scan = "loop" /\ scan' = "round"
  BY DEF Round
<1>3. \A g \in Prefixes : pinger[g] = "done"
  BY <1>2 DEF ScanInv, Pings
<1>4. ASSUME NEW g \in Prefixes
      PROVE  \E c \in g.addr .. (Last(g) + 1), r \in 1 .. 2 :
                /\ gen[g] = GeneratorOf(g, c, r) /\ (r = 2 => c = Last(g) + 1)
                /\ UpTo(g) = c /\ c \in Nat /\ g.addr \in Nat /\ Last(g) \in Nat
                /\ \/ /\ c <= Last(g) /\ g.v6 \in families
                      /\ gen'[g] = GeneratorOf(g, c + 1, 1) /\ UpTo(g)' = c + 1
                      /\ ip'[g] = c /\ pinger'[g] = "ping"
                   \/ /\ ip'[g] = ip[g] /\ pinger'[g] = "done"
                      /\ \/ gen'[g] = gen[g] /\ UpTo(g)' = c
                         \/ gen'[g] = GeneratorOf(g, c, 2) /\ c = Last(g) + 1 /\ UpTo(g)' = c
  <2>1. PICK c \in g.addr .. (Last(g) + 1), r \in 1 .. 2 :
            gen[g] = GeneratorOf(g, c, r) /\ (r = 2 => c = Last(g) + 1)
    BY DEF ScanInv, Walks
  <2>2. /\ c \in Nat /\ Last(g) \in Nat
        /\ More(gen[g]) <=> c <= Last(g)
        /\ More(gen[g]) => NextIP(gen[g]) = c /\ Advanced(gen[g]) = GeneratorOf(g, c + 1, 1)
        /\ ~More(gen[g]) => Advanced(gen[g]) = GeneratorOf(g, c, 2)
    BY <2>1, GeneratorSteps
  <2>3. g.addr \in Nat
    BY ScannerAssumption, PrefixRange, HostsType DEF Address
  <2>4. \A d, s : GeneratorOf(g, d, s).ranges[1].current = d
    BY DEF GeneratorOf
  <2>5. UpTo(g) = c
    BY <2>1, <2>4 DEF UpTo
  <2>6. /\ pinger'[g] = IF g.v6 \in families /\ More(gen[g]) THEN "ping" ELSE "done"
        /\ ip'[g] = IF g.v6 \in families /\ More(gen[g]) THEN NextIP(gen[g]) ELSE ip[g]
        /\ gen'[g] = IF g.v6 \in families THEN Advanced(gen[g]) ELSE gen[g]
    BY DEF Round, Generators
  <2>7. CASE g.v6 \in families /\ More(gen[g])
    <3>1. UpTo(g)' = c + 1
      BY <2>2, <2>4, <2>6, <2>7 DEF UpTo
    <3> QED
      BY <2>1, <2>2, <2>3, <2>5, <2>6, <2>7, <3>1
  <2>8. CASE g.v6 \in families /\ ~More(gen[g])
    <3>1. UpTo(g)' = c
      BY <2>2, <2>4, <2>6, <2>8 DEF UpTo
    <3>2. c = Last(g) + 1
      BY <2>2, <2>3, <2>8
    <3> QED
      BY <2>1, <2>2, <2>3, <2>5, <2>6, <2>8, <3>1, <3>2
  <2>9. CASE g.v6 \notin families
    <3>1. UpTo(g)' = c
      BY <2>5, <2>6, <2>9 DEF UpTo
    <3> QED
      BY <2>1, <2>2, <2>3, <2>5, <2>6, <2>9, <3>1
  <2> QED
    BY <2>7, <2>8, <2>9
<1>5. \A g \in Prefixes : \A a \in Nat : a \in g.addr .. Last(g) => a \in Address
  BY ScannerAssumption, PrefixRange, HostsType DEF Address
<1>6. DOMAIN gen' = Prefixes /\ DOMAIN pinger' = Prefixes /\ DOMAIN ip' = Prefixes
  BY DEF Round
<1>7. CommandTypes' /\ Flags' /\ InfoTypes' /\ ItemTypes' /\ SignalTypes' /\ CacheTypes' /\
      ResultTypes' /\ Queues'
  BY <1>1
  DEF ScanInv, CommandTypes, Flags, InfoTypes, ItemTypes, SignalTypes, CacheTypes,
      ResultTypes, Queues, QueueSize
<1>8. ScanTypes'
  BY <1>1, <1>2, <1>3, <1>4, <1>5, <1>6 DEF ScanInv, ScanTypes
<1>9. PingerTypes'
  <2>1. \A g \in Prefixes : pinger'[g] \in {"ping", "cache", "enqueue", "done"}
    BY <1>4
  <2>2. pinger' = [g \in Prefixes |-> pinger'[g]]
    BY DEF Round
  <2> QED
    BY <2>1, <2>2 DEF PingerTypes
<1>10. AddressTypes'
  <2>1. \A g \in Prefixes : ip'[g] \in Address
    BY <1>4, <1>5 DEF ScanInv, AddressTypes
  <2>2. ip' = [g \in Prefixes |-> ip'[g]]
    BY DEF Round
  <2> QED
    BY <2>1, <2>2 DEF AddressTypes
<1>11. Walks'
  <2> SUFFICES ASSUME NEW g \in Prefixes
               PROVE  \E c \in g.addr .. (Last(g) + 1), r \in 1 .. 2 :
                         gen'[g] = GeneratorOf(g, c, r) /\ (r = 2 => c = Last(g) + 1)
    BY <1>6 DEF Walks
  <2>1. PICK c \in g.addr .. (Last(g) + 1), r \in 1 .. 2 :
            /\ gen[g] = GeneratorOf(g, c, r) /\ (r = 2 => c = Last(g) + 1)
            /\ c \in Nat /\ g.addr \in Nat /\ Last(g) \in Nat
            /\ \/ c <= Last(g) /\ gen'[g] = GeneratorOf(g, c + 1, 1)
               \/ gen'[g] = gen[g]
               \/ gen'[g] = GeneratorOf(g, c, 2) /\ c = Last(g) + 1
    BY <1>4
  <2>2. c <= Last(g) => c + 1 \in g.addr .. (Last(g) + 1)
    BY <2>1
  <2>3. 1 \in 1 .. 2 /\ 2 \in 1 .. 2 /\ 1 # 2
    OBVIOUS
  <2>4. CASE c <= Last(g) /\ gen'[g] = GeneratorOf(g, c + 1, 1)
    BY <2>2, <2>3, <2>4
  <2>5. CASE gen'[g] = gen[g]
    <3>1. gen'[g] = GeneratorOf(g, c, r) /\ (r = 2 => c = Last(g) + 1)
      BY <2>1, <2>5
    <3> QED
      BY <3>1
  <2>6. CASE gen'[g] = GeneratorOf(g, c, 2) /\ c = Last(g) + 1
    BY <2>3, <2>6
  <2> QED
    BY <2>1, <2>4, <2>5, <2>6
<1>12. Pings'
  <2> SUFFICES ASSUME NEW g \in Prefixes, pinger'[g] # "done"
               PROVE  scan' = "round" /\ g.v6 \in families' /\ ip'[g] >= g.addr
                      /\ ip'[g] = UpTo(g)' - 1
    BY DEF Pings
  <2> QED
    BY <1>1, <1>2, <1>4
<1>13. Finds'
  BY <1>4 DEF Finds
<1>14. Offers'
  <2> SUFFICES ASSUME NEW i \in offered
               PROVE  /\ i.rtt < MaxRTT /\ i.ep \in cached
                      /\ \E g \in Prefixes : g.v6 \in families /\ i.ep \in g.addr .. (UpTo(g)' - 1)
    BY <1>1 DEF Offers
  <2>1. PICK g \in Prefixes : g.v6 \in families /\ i.ep \in g.addr .. (UpTo(g) - 1)
    BY DEF ScanInv, Offers
  <2>2. UpTo(g) \in Nat /\ g.addr \in Nat /\ UpTo(g)' \in {UpTo(g), UpTo(g) + 1}
    BY <1>4
  <2>3. i.ep \in g.addr .. (UpTo(g)' - 1)
    BY <2>1, <2>2
  <2> QED
    BY <2>1, <2>3 DEF ScanInv, Offers
<1>15. Fresh'
  <2> SUFFICES ASSUME NEW g \in Prefixes, pinger'[g] # "done",
                      NEW j \in offered, j.ep \in g.addr .. Last(g)
               PROVE  j.ep < ip'[g]
    BY <1>1 DEF Fresh
  <2>1. ip'[g] = UpTo(g) /\ UpTo(g) \in Nat
    BY <1>4
  <2>2. PICK p \in Prefixes : j.ep \in p.addr .. (UpTo(p) - 1)
    BY DEF ScanInv, Offers
  <2>3. UpTo(p) \in Nat /\ UpTo(p) <= Last(p) + 1 /\ Last(p) \in Nat /\ p.addr \in Nat
    BY <1>4
  <2>4. Last(g) \in Nat /\ g.addr \in Nat
    BY <1>4
  <2>5. p = g
    <3>1. j.ep >= p.addr /\ j.ep <= Last(p) /\ j.ep >= g.addr /\ j.ep <= Last(g) /\ j.ep \in Int
      BY <2>2, <2>3, <2>4
    <3>2. ~(Last(p) < g.addr) /\ ~(Last(g) < p.addr)
      BY <2>3, <2>4, <3>1
    <3> QED
      BY <3>2, ScannerAssumption
  <2> QED
    BY <2>1, <2>2, <2>5
<1>16. Saves'
  BY <1>1, <1>2, <1>3, <1>4, <1>5, <1>6 DEF ScanInv, Saves
<1> QED
  BY <1>7, <1>8, <1>9, <1>10, <1>11, <1>12, <1>13, <1>14, <1>15, <1>16 DEF ScanInv

\* All pings of a round are over.
LEMMA RoundOverStep ==
    ASSUME ScanInv, RoundOver
    PROVE  ScanInv'
<1>1. UNCHANGED <<command, families, main, result, interrupted, engDone, gen, ip,
                   pinger, info, queue, reserved, ideal, signals, cached, file,
                   offered>>
  BY DEF RoundOver, mainVars, genVars, queueVars, cacheVars
<1>2. /\ scan' = "loop" /\ scan = "round"
      /\ \A g \in Prefixes : pinger[g] = "done"
  BY DEF RoundOver
<1>3. CommandTypes' /\ Flags' /\ PingerTypes' /\ AddressTypes' /\ InfoTypes' /\ ItemTypes' /\
      SignalTypes' /\ CacheTypes' /\ ResultTypes' /\ Walks' /\ Finds' /\ Offers' /\ Fresh' /\
      Queues'
  BY <1>1
  DEF ScanInv, CommandTypes, Flags, PingerTypes, AddressTypes, InfoTypes, ItemTypes,
      SignalTypes, CacheTypes, ResultTypes, Walks, Finds, Offers, Fresh, Queues,
      QueueSize, UpTo
<1>4. ScanTypes'
  BY <1>1, <1>2 DEF ScanInv, ScanTypes
<1>5. Pings'
  BY <1>1, <1>2 DEF ScanInv, Pings, UpTo
<1>6. Saves'
  BY <1>1, <1>2 DEF ScanInv, Saves
<1> QED
  BY <1>3, <1>4, <1>5, <1>6 DEF ScanInv

\* The rounds are over.
LEMMA EngineStopsStep ==
    ASSUME ScanInv, EngineStops
    PROVE  ScanInv'
<1>1. UNCHANGED <<command, families, main, result, interrupted, engDone, gen, ip,
                   pinger, info, queue, reserved, ideal, signals, cached, file,
                   offered>>
  BY DEF EngineStops, mainVars, genVars, queueVars, cacheVars
<1>2. scan = "loop" /\ scan' = "save"
  BY DEF EngineStops
<1>3. CommandTypes' /\ Flags' /\ PingerTypes' /\ AddressTypes' /\ InfoTypes' /\ ItemTypes' /\
      SignalTypes' /\ CacheTypes' /\ ResultTypes' /\ Walks' /\ Finds' /\ Offers' /\ Fresh' /\
      Queues'
  BY <1>1
  DEF ScanInv, CommandTypes, Flags, PingerTypes, AddressTypes, InfoTypes, ItemTypes,
      SignalTypes, CacheTypes, ResultTypes, Walks, Finds, Offers, Fresh, Queues,
      QueueSize, UpTo
<1>4. ScanTypes'
  BY <1>1, <1>2 DEF ScanInv, ScanTypes
<1>5. Pings'
  BY <1>1, <1>2 DEF ScanInv, Pings, UpTo
<1>6. Saves'
  BY <1>1, <1>2 DEF ScanInv, Saves
<1> QED
  BY <1>3, <1>4, <1>5, <1>6 DEF ScanInv

\* The cache is written to the file, or cannot be.
LEMMA SaveCacheStep ==
    ASSUME ScanInv, SaveCache
    PROVE  ScanInv'
<1>1. UNCHANGED <<command, families, main, result, interrupted, engDone, gen, ip,
                   pinger, info, queue, reserved, ideal, signals, cached, offered>>
  BY DEF SaveCache, mainVars, genVars, queueVars, cacheVars
<1>2. /\ scan = "save"
      /\ \/ file' = cached /\ scan' = "over"
         \/ file' = file /\ scan' = "unsaved"
  BY DEF SaveCache
<1>3. CommandTypes' /\ Flags' /\ PingerTypes' /\ AddressTypes' /\ InfoTypes' /\ ItemTypes' /\
      SignalTypes' /\ ResultTypes' /\ Walks' /\ Finds' /\ Offers' /\ Fresh' /\ Queues'
  BY <1>1
  DEF ScanInv, CommandTypes, Flags, PingerTypes, AddressTypes, InfoTypes, ItemTypes,
      SignalTypes, ResultTypes, Walks, Finds, Offers, Fresh, Queues, QueueSize, UpTo
<1>4. ScanTypes'
  BY <1>1, <1>2 DEF ScanInv, ScanTypes
<1>5. CacheTypes'
  BY <1>1, <1>2 DEF ScanInv, CacheTypes
<1>6. Pings'
  BY <1>1, <1>2 DEF ScanInv, Pings, UpTo
<1>7. Saves'
  BY <1>1, <1>2 DEF ScanInv, Saves
<1> QED
  BY <1>3, <1>4, <1>5, <1>6, <1>7 DEF ScanInv

\* Nothing answers at the address.
LEMMA PingFailsStep ==
    ASSUME ScanInv, NEW g \in Prefixes, PingFails(g)
    PROVE  ScanInv'
<1>1. UNCHANGED <<command, families, main, result, interrupted, scan, engDone, gen,
                   ip, queue, reserved, ideal, signals, cached, file, offered>>
  BY DEF PingFails, mainVars, genVars, queueVars, cacheVars
<1>2. /\ pinger' = [pinger EXCEPT ![g] = "done"]
      /\ info' = [info EXCEPT ![g] = {}]
  BY DEF PingFails
<1>3. CommandTypes' /\ Flags' /\ ScanTypes' /\ AddressTypes' /\ ItemTypes' /\ SignalTypes' /\
      CacheTypes' /\ ResultTypes' /\ Walks' /\ Offers' /\ Queues' /\ Saves'
  BY <1>1
  DEF ScanInv, CommandTypes, Flags, ScanTypes, AddressTypes, ItemTypes, SignalTypes,
      CacheTypes, ResultTypes, Walks, Offers, Queues, Saves, QueueSize, UpTo
<1>4. PingerTypes'
  BY <1>1, <1>2 DEF ScanInv, PingerTypes
<1>5. InfoTypes'
  BY <1>1, <1>2 DEF ScanInv, InfoTypes
<1>6. Pings'
  BY <1>1, <1>2 DEF ScanInv, PingerTypes, Pings, UpTo
<1>7. Finds'
  BY <1>1, <1>2 DEF ScanInv, PingerTypes, InfoTypes, Finds
<1>8. Fresh'
  BY <1>1, <1>2 DEF ScanInv, PingerTypes, Fresh
<1> QED
  BY <1>3, <1>4, <1>5, <1>6, <1>7, <1>8 DEF ScanInv

\* The address answers.
LEMMA PingAnswersStep ==
    ASSUME ScanInv, NEW g \in Prefixes, PingAnswers(g)
    PROVE  ScanInv'
<1>1. UNCHANGED <<command, families, main, result, interrupted, scan, engDone, gen,
                   ip, queue, reserved, ideal, signals, cached, file, offered>>
  BY DEF PingAnswers, mainVars, genVars, queueVars, cacheVars
<1>2. pinger[g] = "ping" /\ pinger' = [pinger EXCEPT ![g] = "cache"]
  BY DEF PingAnswers
<1>3. PICK r \in RTT : info' = [info EXCEPT ![g] = {[ep |-> ip[g], rtt |-> r]}]
  BY DEF PingAnswers
<1>4. [ep |-> ip[g], rtt |-> r] \in Info
  BY DEF ScanInv, AddressTypes, Info, Endpoint
<1>5. CommandTypes' /\ Flags' /\ ScanTypes' /\ AddressTypes' /\ ItemTypes' /\ SignalTypes' /\
      CacheTypes' /\ ResultTypes' /\ Walks' /\ Offers' /\ Queues' /\ Saves'
  BY <1>1
  DEF ScanInv, CommandTypes, Flags, ScanTypes, AddressTypes, ItemTypes, SignalTypes,
      CacheTypes, ResultTypes, Walks, Offers, Queues, Saves, QueueSize, UpTo
<1>6. PingerTypes'
  BY <1>1, <1>2, <1>3, <1>4 DEF ScanInv, PingerTypes
<1>7. InfoTypes'
  BY <1>1, <1>2, <1>3, <1>4 DEF ScanInv, InfoTypes
<1>8. Pings'
  BY <1>1, <1>2, <1>3, <1>4 DEF ScanInv, PingerTypes, Pings, UpTo
<1>9. Finds'
  BY <1>1, <1>2, <1>3, <1>4 DEF ScanInv, PingerTypes, InfoTypes, Finds
<1>10. Fresh'
  BY <1>1, <1>2, <1>3, <1>4 DEF ScanInv, PingerTypes, Fresh
<1> QED
  BY <1>5, <1>6, <1>7, <1>8, <1>9, <1>10 DEF ScanInv

\* What has answered is cached.
LEMMA SaveEndpointStep ==
    ASSUME ScanInv, NEW g \in Prefixes, SaveEndpoint(g)
    PROVE  ScanInv'
<1>1. UNCHANGED <<command, families, main, result, interrupted, scan, engDone, gen,
                   ip, info, queue, reserved, ideal, signals, file, offered>>
  BY DEF SaveEndpoint, mainVars, genVars, queueVars, cacheVars
<1>2. pinger[g] = "cache"
  BY DEF SaveEndpoint
<1>3. PICK r \in RTT : info[g] = {[ep |-> ip[g], rtt |-> r]}
  BY <1>2 DEF ScanInv, Finds
<1>4. PICK i \in info[g] :
          /\ cached' = cached \cup {i.ep}
          /\ pinger' = [pinger EXCEPT ![g] = IF i.rtt < MaxRTT THEN "enqueue" ELSE "done"]
  BY DEF SaveEndpoint, CachedWith
<1>5. i.ep = ip[g] /\ i.rtt = r
  BY <1>3, <1>4
<1>6. /\ cached' = cached \cup {ip[g]}
      /\ pinger' = [pinger EXCEPT ![g] = IF r < MaxRTT THEN "enqueue" ELSE "done"]
  BY <1>4, <1>5
<1>7. ip[g] \in Endpoint /\ scan = "round"
  BY <1>2 DEF ScanInv, AddressTypes, Endpoint, Pings
<1>8. CommandTypes' /\ Flags' /\ ScanTypes' /\ AddressTypes' /\ InfoTypes' /\ ItemTypes' /\
      SignalTypes' /\ ResultTypes' /\ Walks' /\ Queues'
  BY <1>1
  DEF ScanInv, CommandTypes, Flags, ScanTypes, AddressTypes, InfoTypes, ItemTypes,
      SignalTypes, ResultTypes, Walks, Queues, QueueSize
<1>9. PingerTypes'
  BY <1>1, <1>2, <1>3, <1>4, <1>5, <1>6, <1>7 DEF ScanInv, PingerTypes
<1>10. CacheTypes'
  BY <1>1, <1>2, <1>3, <1>4, <1>5, <1>6, <1>7 DEF ScanInv, CacheTypes
<1>11. Pings'
  BY <1>1, <1>2, <1>3, <1>4, <1>5, <1>6, <1>7 DEF ScanInv, PingerTypes, Pings, UpTo
<1>12. Finds'
  BY <1>1, <1>2, <1>3, <1>4, <1>5, <1>6, <1>7 DEF ScanInv, PingerTypes, Finds
<1>13. Offers'
  BY <1>1, <1>2, <1>3, <1>4, <1>5, <1>6, <1>7 DEF ScanInv, Offers, UpTo
<1>14. Fresh'
  BY <1>1, <1>2, <1>3, <1>4, <1>5, <1>6, <1>7 DEF ScanInv, PingerTypes, Fresh
<1>15. Saves'
  BY <1>1, <1>2, <1>3, <1>4, <1>5, <1>6, <1>7 DEF ScanInv, Saves
<1> QED
  BY <1>8, <1>9, <1>10, <1>11, <1>12, <1>13, <1>14, <1>15 DEF ScanInv

\* What is fast is offered to the queue, under its lock: it was not offered before, so
\* the queue loses something only when it was offered more than it can hold.
LEMMA EnqueueStep ==
    ASSUME ScanInv, NEW g \in Prefixes, Enqueue(g)
    PROVE  ScanInv'
<1>1. UNCHANGED <<command, families, main, result, interrupted, scan, engDone, gen,
                   ip, info, signals, cached, file>>
  BY DEF Enqueue, mainVars, genVars, queueVars, cacheVars
<1>2. pinger[g] = "enqueue" /\ pinger' = [pinger EXCEPT ![g] = "done"]
  BY DEF Enqueue
<1>3. /\ scan = "round" /\ g.v6 \in families /\ ip[g] >= g.addr /\ ip[g] = UpTo(g) - 1
      /\ ip[g] \in Address
  BY <1>2 DEF ScanInv, Pings, AddressTypes
<1>4. /\ UpTo(g) \in g.addr .. (Last(g) + 1) /\ g.addr \in Nat /\ Last(g) \in Nat /\ ip[g] \in Nat
  <2>1. g.addr \in Nat /\ Last(g) \in Nat /\ ip[g] \in Nat
    BY <1>3, ScannerAssumption, PrefixRange, HostsType DEF Address
  <2>2. \A c, r : GeneratorOf(g, c, r).ranges[1].current = c
    BY DEF GeneratorOf
  <2> QED
    BY <2>1, <2>2 DEF ScanInv, Walks, UpTo
<1>5. PICK i \in Info : /\ info[g] = {i} /\ i.ep = ip[g] /\ i.ep \in cached
                         /\ i.rtt < MaxRTT /\ i.rtt \in Nat
  <2>1. PICK r \in RTT : /\ info[g] = {[ep |-> ip[g], rtt |-> r]}
                         /\ r < MaxRTT /\ ip[g] \in cached
    BY <1>2 DEF ScanInv, Finds
  <2>2. [ep |-> ip[g], rtt |-> r] \in Info /\ r \in Nat
    BY <1>3, ScannerAssumption DEF Info, Endpoint
  <2> QED
    BY <2>1, <2>2
<1>6. offered' = offered \cup {i}
  BY <1>5 DEF Enqueue
<1>7. \A j \in offered : j.ep # i.ep
  <2>1. i.ep \in g.addr .. Last(g)
    BY <1>3, <1>4, <1>5
  <2> QED
    BY <1>2, <1>4, <1>5, <2>1 DEF ScanInv, Fresh
<1>8. /\ IsFiniteSet(offered) /\ IsFiniteSet(queue) /\ queue \subseteq offered
      /\ Cardinality(offered) \in Nat /\ Cardinality(queue) \in 0 .. QueueSize
      /\ QueueSize \in Nat \ {0} /\ MaxRTT \in Nat
  <2>1. IsFiniteSet(offered) /\ queue \subseteq offered /\ Cardinality(queue) \in 0 .. QueueSize
    BY DEF ScanInv, Queues
  <2>2. QueueSize \in Nat \ {0} /\ MaxRTT \in Nat
    BY ScannerAssumption DEF QueueSize
  <2> QED
    BY <2>1, <2>2, FS_Subset, FS_CardinalityType
<1>9. /\ i \notin offered /\ i \notin queue /\ ~Queued(i)
      /\ Cardinality(offered') = Cardinality(offered) + 1 /\ IsFiniteSet(offered')
  <2>1. i \notin offered
    BY <1>7
  <2>2. i \notin queue /\ ~Queued(i)
    BY <1>7, <1>8, <2>1 DEF Queued
  <2> QED
    BY <1>6, <1>8, <2>1, <2>2, FS_AddElement
<1>10. \/ queue = {} /\ queue' = {i} /\ reserved' = reserved /\ ideal' = ideal
       \/ queue # {} /\ Insert(i) /\ ideal' \in BOOLEAN
  <2> DEFINE now == ideal \/ (/\ \A j \in queue' : j.rtt <= MaxRTT
                            /\ Cardinality(queue') >= QueueSize)
  <2>1. now \in BOOLEAN
    OBVIOUS
  <2> HIDE DEF now
  <2>2. \E k \in info[g] :
          \/ Queued(k) /\ UNCHANGED <<queue, reserved, ideal>>
          \/ ~Queued(k) /\ queue = {} /\ queue' = {k} /\ UNCHANGED <<reserved, ideal>>
          \/ ~Queued(k) /\ queue # {} /\ Insert(k) /\ ideal' = now
    BY DEF Enqueue, now
  <2>3. \/ queue = {} /\ queue' = {i} /\ UNCHANGED <<reserved, ideal>>
        \/ queue # {} /\ Insert(i) /\ ideal' = now
    BY <1>5, <1>9, <2>2
  <2> QED
    BY <2>1, <2>3
<1>11. \/ queue' = {i} /\ queue = {} /\ reserved' = reserved
       \/ queue' = queue \cup {i} /\ reserved' = reserved /\ Cardinality(queue) < QueueSize
       \/ /\ \E j \in queue : queue' = queue \ {j}
          /\ reserved' = reserved /\ Cardinality(queue) = QueueSize
       \/ queue' = queue /\ reserved' = reserved \cup {i} /\ Cardinality(queue) = QueueSize
  <2>1. CASE queue = {} /\ queue' = {i} /\ reserved' = reserved
    BY <2>1
  <2>2. CASE Insert(i)
    <3>1. ~(i.rtt > MaxRTT)
      BY <1>5, <1>8
    <3>2. Full <=> Cardinality(queue) = QueueSize
      BY <1>8 DEF Full
    <3>3. ~Full <=> Cardinality(queue) < QueueSize
      BY <1>8 DEF Full
    <3>4. \/ ~Full /\ queue' = queue \cup {i} /\ reserved' = reserved
          \/ Full /\ (\E j \in Slowest : queue' = queue \ {j}) /\ reserved' = reserved
          \/ Full /\ reserved' = reserved \cup {i} /\ queue' = queue
      BY <2>2, <3>1 DEF Insert
    <3>5. Slowest \subseteq queue
      BY DEF Slowest
    <3> QED
      BY <3>2, <3>3, <3>4, <3>5
  <2> QED
    BY <1>10, <2>1, <2>2
<1>12. CommandTypes' /\ ScanTypes' /\ AddressTypes' /\ InfoTypes' /\ SignalTypes' /\
       CacheTypes' /\ ResultTypes' /\ Walks' /\ Saves'
  BY <1>1
  DEF ScanInv, CommandTypes, ScanTypes, AddressTypes, InfoTypes, SignalTypes,
      CacheTypes, ResultTypes, Walks, Saves, QueueSize
<1>13. Flags'
  BY <1>1, <1>10 DEF ScanInv, Flags
<1>14. PingerTypes'
  BY <1>2 DEF ScanInv, PingerTypes
<1>15. ItemTypes'
  BY <1>6, <1>11 DEF ScanInv, ItemTypes
<1>16. Pings'
  BY <1>1, <1>2 DEF ScanInv, PingerTypes, Pings, UpTo
<1>17. Finds'
  BY <1>1, <1>2 DEF ScanInv, PingerTypes, Finds
<1>18. Offers'
  <2>1. i.ep \in g.addr .. (UpTo(g) - 1)
    BY <1>3, <1>4, <1>5
  <2>2. \A j \in offered' : /\ j.rtt < MaxRTT /\ j.ep \in cached
                            /\ \E p \in Prefixes : /\ p.v6 \in families
                                                   /\ j.ep \in p.addr .. (UpTo(p) - 1)
    BY <1>3, <1>5, <1>6, <2>1 DEF ScanInv, Offers
  <2>3. \A p : UpTo(p)' = UpTo(p)
    BY <1>1 DEF UpTo
  <2> QED
    BY <1>1, <2>2, <2>3 DEF Offers
<1>19. Fresh'
  <2> SUFFICES ASSUME NEW p \in Prefixes, pinger'[p] # "done", p # g,
                      i.ep \in p.addr .. Last(p)
               PROVE  FALSE
    BY <1>1, <1>2, <1>6 DEF ScanInv, PingerTypes, Fresh
  <2>1. i.ep >= g.addr /\ i.ep <= Last(g)
    BY <1>3, <1>4, <1>5
  <2>2. p.addr \in Nat /\ Last(p) \in Nat
    BY ScannerAssumption, PrefixRange, HostsType DEF Address
  <2>3. i.ep >= p.addr /\ i.ep <= Last(p)
    BY <2>2
  <2>4. ~(Last(p) < g.addr) /\ ~(Last(g) < p.addr)
    BY <1>4, <1>5, <2>1, <2>2, <2>3
  <2> QED
    BY <2>4, ScannerAssumption
<1>20. Queues'
  <2>1. \A j, k \in offered' : j.ep = k.ep => j = k
    BY <1>6, <1>7 DEF ScanInv, Queues
  <2>2. Cardinality(queue') \in 0 .. QueueSize /\ queue' \subseteq offered'
    <3>1. CASE queue' = {i}
      <4>1. Cardinality({i}) = 1
        BY FS_Singleton
      <4> QED
        BY <1>6, <1>8, <3>1, <4>1
    <3>2. CASE queue' = queue \cup {i} /\ Cardinality(queue) < QueueSize
      <4>1. Cardinality(queue') = Cardinality(queue) + 1
        BY <1>8, <1>9, <3>2, FS_AddElement
      <4> QED
        BY <1>6, <1>8, <3>2, <4>1
    <3>3. CASE \E j \in queue : queue' = queue \ {j}
      <4>1. PICK j \in queue : queue' = queue \ {j}
        BY <3>3
      <4>2. Cardinality(queue') = Cardinality(queue) - 1
        BY <1>8, <4>1, FS_RemoveElement
      <4>3. Cardinality(queue) # 0
        BY <1>8, <4>1, FS_EmptySet
      <4> QED
        BY <1>6, <1>8, <4>1, <4>2, <4>3
    <3>4. CASE queue' = queue
      BY <1>6, <1>8, <3>4
    <3> QED
      BY <1>11, <3>1, <3>2, <3>3, <3>4
  <2>3. ASSUME Cardinality(offered') <= QueueSize
        PROVE  queue' = offered'
    <3>1. Cardinality(offered) < QueueSize /\ queue = offered
      BY <1>8, <1>9, <2>3 DEF ScanInv, Queues
    <3> QED
      BY <1>6, <1>8, <1>11, <3>1
  <2>4. QueueSize' = QueueSize
    BY <1>1 DEF QueueSize
  <2> QED
    BY <1>9, <2>1, <2>2, <2>3, <2>4 DEF Queues
<1> QED
  BY <1>12, <1>13, <1>14, <1>15, <1>16, <1>17, <1>18, <1>19, <1>20 DEF ScanInv

\* What is taken from the queue are endpoints of the cache.
LEMMA TakeResult ==
    ASSUME ScanInv, NEW n \in Nat, n <= QueueSize, Take(n)
    PROVE  /\ result' \in Seq(Endpoint) /\ Len(result') <= QueueSize /\ DOMAIN result' = 1 .. n
           /\ \A i \in DOMAIN result' : result'[i] \in cached
<1>1. PICK s \in [1 .. n -> queue] : result' = [i \in 1 .. n |-> s[i].ep]
  BY DEF Take, Available
<1>2. \A i \in 1 .. n : s[i].ep \in cached /\ s[i].ep \in Endpoint
  BY DEF ScanInv, Queues, Offers, ItemTypes, CacheTypes
<1>3. result' \in [1 .. n -> Endpoint]
  BY <1>1, <1>2
<1>4. result' \in Seq(Endpoint) /\ Len(result') = n
  BY <1>3
<1> QED
  BY <1>1, <1>2, <1>4

\* RunScan returns the two fastest of the queue.
LEMMA CheckFindsStep ==
    ASSUME ScanInv, CheckFinds
    PROVE  ScanInv'
<1>1. UNCHANGED <<command, families, interrupted, scan, gen, ip, pinger, info, queue,
                   reserved, ideal, signals, cached, file, offered>>
  BY DEF CheckFinds, mainVars, genVars, queueVars, cacheVars
<1>2. main' = "found" /\ engDone' \in BOOLEAN
  BY DEF CheckFinds, StopScanner
<1>3. /\ result' \in Seq(Endpoint) /\ Len(result') <= QueueSize
      /\ \A i \in DOMAIN result' : result'[i] \in cached
  <2>1. QueueSize \in Nat /\ Cardinality(queue) \in 0 .. QueueSize
    BY ScannerAssumption DEF ScanInv, Queues, QueueSize
  <2> QED
    BY <2>1, TakeResult DEF CheckFinds
<1>4. ScanTypes' /\ PingerTypes' /\ AddressTypes' /\ InfoTypes' /\ ItemTypes' /\ SignalTypes' /\
      CacheTypes' /\ Walks' /\ Pings' /\ Finds' /\ Offers' /\ Fresh' /\ Queues'
  BY <1>1
  DEF ScanInv, ScanTypes, PingerTypes, AddressTypes, InfoTypes, ItemTypes,
      SignalTypes, CacheTypes, Walks, Pings, Finds, Offers, Fresh, Queues, QueueSize,
      UpTo
<1>5. CommandTypes'
  BY <1>1, <1>2, <1>3 DEF ScanInv, CommandTypes
<1>6. Flags'
  BY <1>1, <1>2, <1>3 DEF ScanInv, Flags
<1>7. ResultTypes'
  BY <1>1, <1>2, <1>3 DEF ScanInv, ResultTypes, QueueSize
<1>8. Saves'
  BY <1>1, <1>2, <1>3 DEF ScanInv, Saves
<1> QED
  BY <1>4, <1>5, <1>6, <1>7, <1>8 DEF ScanInv

\* RunScan gives up.
LEMMA CheckGivesUpStep ==
    ASSUME ScanInv, CheckGivesUp
    PROVE  ScanInv'
<1>1. UNCHANGED <<command, families, result, interrupted, scan, gen, ip, pinger,
                   info, queue, reserved, ideal, signals, cached, file, offered>>
  BY DEF CheckGivesUp, mainVars, genVars, queueVars, cacheVars
<1>2. main' = "failed" /\ engDone' \in BOOLEAN
  BY DEF CheckGivesUp, StopScanner
<1>3. ScanTypes' /\ PingerTypes' /\ AddressTypes' /\ InfoTypes' /\ ItemTypes' /\ SignalTypes' /\
      CacheTypes' /\ ResultTypes' /\ Walks' /\ Pings' /\ Finds' /\ Offers' /\ Fresh' /\ Queues'
  BY <1>1
  DEF ScanInv, ScanTypes, PingerTypes, AddressTypes, InfoTypes, ItemTypes,
      SignalTypes, CacheTypes, ResultTypes, Walks, Pings, Finds, Offers, Fresh,
      Queues, QueueSize, UpTo
<1>4. CommandTypes'
  BY <1>1, <1>2 DEF ScanInv, CommandTypes
<1>5. Flags'
  BY <1>1, <1>2 DEF ScanInv, Flags
<1>6. Saves'
  BY <1>1, <1>2 DEF ScanInv, Saves
<1> QED
  BY <1>3, <1>4, <1>5, <1>6 DEF ScanInv

\* The scanner command is interrupted.
LEMMA InterruptStep ==
    ASSUME ScanInv, Interrupt
    PROVE  ScanInv'
<1>1. UNCHANGED <<command, families, main, result, scan, gen, ip, pinger, info,
                   queue, reserved, ideal, signals, cached, file, offered>>
  BY DEF Interrupt, mainVars, genVars, queueVars, cacheVars
<1>2. interrupted' \in BOOLEAN /\ engDone' \in BOOLEAN
  BY DEF Interrupt
<1>3. CommandTypes' /\ ScanTypes' /\ PingerTypes' /\ AddressTypes' /\ InfoTypes' /\ ItemTypes' /\
      SignalTypes' /\ CacheTypes' /\ ResultTypes' /\ Walks' /\ Pings' /\ Finds' /\ Offers' /\
      Fresh' /\ Queues' /\ Saves'
  BY <1>1
  DEF ScanInv, CommandTypes, ScanTypes, PingerTypes, AddressTypes, InfoTypes,
      ItemTypes, SignalTypes, CacheTypes, ResultTypes, Walks, Pings, Finds, Offers,
      Fresh, Queues, Saves, QueueSize, UpTo
<1>4. Flags'
  BY <1>1, <1>2 DEF ScanInv, Flags
<1> QED
  BY <1>3, <1>4 DEF ScanInv

\* The scanner command lists what is in the queue.
LEMMA ListStep ==
    ASSUME ScanInv, List
    PROVE  ScanInv'
<1>1. UNCHANGED <<command, families, interrupted, scan, engDone, gen, ip, pinger,
                   info, queue, reserved, ideal, signals, cached, file, offered>>
  BY DEF List, mainVars, genVars, queueVars, cacheVars
<1>2. main' \in {"found", "failed"}
  BY DEF List
<1>3. \/ main' # "found" /\ result' = result
      \/ /\ result' \in Seq(Endpoint) /\ Len(result') <= QueueSize
         /\ \A i \in DOMAIN result' : result'[i] \in cached
  <2>1. CASE queue = {}
    BY <2>1 DEF List
  <2>2. CASE queue # {}
    <3>1. Cardinality(queue) \in Nat /\ Cardinality(queue) <= QueueSize
      BY ScannerAssumption DEF ScanInv, Queues, QueueSize
    <3> QED
      BY <2>2, <3>1, TakeResult DEF List
  <2> QED
    BY <2>1, <2>2
<1>4. Flags' /\ ScanTypes' /\ PingerTypes' /\ AddressTypes' /\ InfoTypes' /\ ItemTypes' /\
      SignalTypes' /\ CacheTypes' /\ Walks' /\ Pings' /\ Finds' /\ Offers' /\ Fresh' /\ Queues'
  BY <1>1
  DEF ScanInv, Flags, ScanTypes, PingerTypes, AddressTypes, InfoTypes, ItemTypes,
      SignalTypes, CacheTypes, Walks, Pings, Finds, Offers, Fresh, Queues, QueueSize,
      UpTo
<1>5. CommandTypes'
  BY <1>1, <1>2, <1>3 DEF ScanInv, CommandTypes
<1>6. ResultTypes'
  BY <1>1, <1>2, <1>3 DEF ScanInv, ResultTypes, QueueSize
<1>7. Saves'
  BY <1>1, <1>2, <1>3 DEF ScanInv, Saves
<1> QED
  BY <1>4, <1>5, <1>6, <1>7 DEF ScanInv

\* A step of the goroutine of a generator keeps the invariant.
LEMMA PingStep ==
    ASSUME ScanInv, NEW g \in Prefixes, Ping(g)
    PROVE  ScanInv'
BY PingFailsStep, PingAnswersStep, SaveEndpointStep, EnqueueStep DEF Ping

\* When nothing changes, the invariant goes on holding.
LEMMA ScanStutters ==
    ASSUME ScanInv, UNCHANGED vars
    PROVE  ScanInv'
<1>1. UNCHANGED <<command, families, main, result, interrupted, scan, engDone, gen, ip,
                  pinger, info, queue, reserved, ideal, signals, cached, file, offered>>
  BY DEF vars, mainVars, genVars, queueVars, cacheVars
<1>2. (CommandTypes /\ Flags /\ ScanTypes /\ PingerTypes /\ AddressTypes /\ InfoTypes)'
  BY <1>1 DEF ScanInv, CommandTypes, Flags, ScanTypes, PingerTypes, AddressTypes, InfoTypes
<1>3. (ItemTypes /\ SignalTypes /\ CacheTypes /\ ResultTypes)'
  BY <1>1 DEF ScanInv, ItemTypes, SignalTypes, CacheTypes, ResultTypes, QueueSize
<1>4. (Walks /\ Pings /\ Finds /\ Offers)'
  BY <1>1 DEF ScanInv, Walks, Pings, Finds, Offers, UpTo
<1>5. (Fresh /\ Queues /\ Saves)'
  BY <1>1 DEF ScanInv, Fresh, Queues, Saves, QueueSize
<1> QED
  BY <1>2, <1>3, <1>4, <1>5 DEF ScanInv

\* Every step keeps the invariant.
LEMMA ScanNext ==
    ASSUME ScanInv, [Next]_vars
    PROVE  ScanInv'
<1>1. CASE Scanning
  BY <1>1, CreateStep, InitQueueStep, RoundStep, RoundOverStep, EngineStopsStep, SaveCacheStep
  DEF Scanning
<1>2. CASE \E g \in Prefixes : Ping(g)
  BY <1>2, PingStep
<1>3. CASE CheckFinds
  BY <1>3, CheckFindsStep
<1>4. CASE CheckGivesUp
  BY <1>4, CheckGivesUpStep
<1>5. CASE Interrupt
  BY <1>5, InterruptStep
<1>6. CASE List
  BY <1>6, ListStep
<1>7. CASE Terminated \/ UNCHANGED vars
  BY <1>7, ScanStutters DEF Terminated
<1> QED
  BY <1>1, <1>2, <1>3, <1>4, <1>5, <1>6, <1>7 DEF Next

\* The invariant holds in every reachable state.
THEOREM ScanInvariant == Spec => []ScanInv
BY ScanInit, ScanNext, PTL DEF Spec

-----------------------------------------------------------------------------
(* What follows from it.                                                   *)

\* The next address of a generator lies in its prefix, or follows its last one; a
\* generator that has no more has yielded the last one.
LEMMA UpToRange ==
    ASSUME ScanInv, NEW g \in Prefixes
    PROVE  /\ g.addr \in Nat /\ Last(g) \in Nat
           /\ UpTo(g) \in g.addr .. (Last(g) + 1) /\ gen[g].currentRange \in 1 .. 2
           /\ ~More(gen[g]) => UpTo(g) = Last(g) + 1
<1>1. g.addr \in Nat /\ Last(g) \in Nat
  BY ScannerAssumption, PrefixRange, HostsType DEF Address
<1>2. PICK c \in g.addr .. (Last(g) + 1), r \in 1 .. 2 :
          gen[g] = GeneratorOf(g, c, r) /\ (r = 2 => c = Last(g) + 1)
  BY DEF ScanInv, Walks
<1>3. UpTo(g) = c /\ gen[g].currentRange = r
  BY <1>2 DEF UpTo, GeneratorOf
<1>4. More(gen[g]) <=> c <= Last(g)
  BY <1>2, GeneratorSteps
<1> QED
  BY <1>1, <1>2, <1>3, <1>4

\* The variables have their types: TypeOK of the scan run.
THEOREM ScanTypesHold == Spec => []TypeOK
<1>1. ASSUME ScanInv
      PROVE  TypeOK
  <2>1. \A g \in Prefixes : /\ ip[g] \in Address
                            /\ gen[g].currentRange \in 1 .. 2
                            /\ gen[g].ranges[1].current \in g.addr .. (Last(g) + 1)
    BY <1>1, UpToRange DEF ScanInv, AddressTypes, UpTo
  <2>2. /\ command \in {"run", "scanner"} /\ families \subseteq BOOLEAN
        /\ main \in {"scanning", "found", "failed"}
    BY <1>1 DEF ScanInv, CommandTypes
  <2>3. interrupted \in BOOLEAN /\ engDone \in BOOLEAN /\ ideal \in BOOLEAN
    BY <1>1 DEF ScanInv, Flags
  <2>4. /\ scan \in {"new", "init", "loop", "round", "save", "over", "unsaved"}
        /\ pinger \in [Prefixes -> {"ping", "cache", "enqueue", "done"}]
        /\ \A g \in Prefixes : info[g] \subseteq Info
    BY <1>1 DEF ScanInv, ScanTypes, PingerTypes, InfoTypes
  <2>5. queue \subseteq Info /\ reserved \subseteq Info /\ offered \subseteq Info
    BY <1>1 DEF ScanInv, ItemTypes, Queues
  <2>6. /\ result \in Seq(Endpoint) /\ Len(result) <= QueueSize
        /\ signals \in 0 .. QueueSize
        /\ cached \subseteq Endpoint /\ file \subseteq Endpoint
    BY <1>1 DEF ScanInv, ResultTypes, SignalTypes, CacheTypes
  <2> QED
    BY <2>1, <2>2, <2>3, <2>4, <2>5, <2>6 DEF TypeOK
<1> QED
  BY <1>1, ScanInvariant, PTL

\* The queue is sound: it holds fast endpoints, each once, and no more than its size.
THEOREM QueueIsSound == Spec => []QueueSound
<1>1. ASSUME ScanInv
      PROVE  QueueSound
  <2>1. Cardinality(queue) <= QueueSize
    BY <1>1, ScannerAssumption DEF ScanInv, Queues, QueueSize
  <2> QED
    BY <1>1, <2>1 DEF ScanInv, Queues, Offers, QueueSound
<1> QED
  BY <1>1, ScanInvariant, PTL

\* The endpoints a scan returned or listed are in the cache, and in the file when
\* that was written.
THEOREM ResultsAreSaved == Spec => []ResultIsSaved
<1>1. ScanInv => ResultIsSaved
  BY DEF ScanInv, Saves, ResultIsSaved
<1> QED
  BY <1>1, ScanInvariant, PTL

\* A scan stays in the prefixes it was asked for and leaves nothing of them out, for
\* prefixes of any length and addresses of any width.
THEOREM ScanStaysInPrefixes == Spec => []ScansItsPrefixes
<1>1. ASSUME ScanInv
      PROVE  ScansItsPrefixes
  <2>1. ASSUME NEW g \in Prefixes, NEW a \in Nat
        PROVE  /\ a \in g.addr .. (UpTo(g) - 1) => SamePrefix(a, g)
               /\ (~More(gen[g]) /\ SamePrefix(a, g) /\ a >= g.addr) => a < UpTo(g)
    <3>1. a \in g.addr .. Last(g) <=> a >= g.addr /\ SamePrefix(a, g)
      BY ScannerAssumption, PrefixRange
    <3>2. /\ g.addr \in Nat /\ Last(g) \in Nat /\ UpTo(g) \in g.addr .. (Last(g) + 1)
          /\ ~More(gen[g]) => UpTo(g) = Last(g) + 1
      BY <1>1, UpToRange
    <3> QED
      BY <3>1, <3>2
  <2>2. ASSUME NEW i \in offered
        PROVE  \E g \in Prefixes : SamePrefix(i.ep, g) /\ g.v6 \in families
    <3>1. PICK g \in Prefixes : g.v6 \in families /\ i.ep \in g.addr .. (UpTo(g) - 1)
      BY <1>1 DEF ScanInv, Offers
    <3>2. g.addr \in Nat /\ UpTo(g) \in Nat
      BY <1>1, UpToRange
    <3>3. i.ep \in Nat
      BY <3>1, <3>2
    <3> QED
      BY <2>1, <3>1, <3>3
  <2>3. \A a \in Address : a \in Nat
    <3>1. 2^Width \in Nat
      BY PowerType, WidthAssumption
    <3> QED
      BY <3>1 DEF Address
  <2> QED
    BY <2>1, <2>2, <2>3 DEF ScansItsPrefixes, UpTo
<1> QED
  BY <1>1, ScanInvariant, PTL

\* While the queue has held all that was offered, RunScan returns the two fastest of
\* them and the scanner command lists them all, fastest first.
THEOREM FastestIsFound == Spec => FastestFound
<1> DEFINE Step == (main = "scanning" /\ main' = "found" /\ Cardinality(offered) <= QueueSize)
                     => LET n == IF command = "run" THEN 2 ELSE Cardinality(offered) IN
                        \E s \in Fastest(offered, n) : result' = [i \in 1 .. n |-> s[i].ep]
<1>1. ASSUME ScanInv, Next, main = "scanning", main' = "found",
             Cardinality(offered) <= QueueSize
      PROVE  LET n == IF command = "run" THEN 2 ELSE Cardinality(offered) IN
             \E s \in Fastest(offered, n) : result' = [i \in 1 .. n |-> s[i].ep]
  <2>1. queue = offered
    BY <1>1 DEF ScanInv, Queues
  <2>2. \/ command = "run" /\ Take(2)
        \/ command = "scanner" /\ Take(Cardinality(offered))
    <3>1. CheckFinds \/ List
      BY <1>1 DEF Next, Scanning, Ping, CheckGivesUp, Interrupt, Terminated, Create, InitQueue,
                  Round, RoundOver, EngineStops, SaveCache, PingFails, PingAnswers,
                  SaveEndpoint, Enqueue, mainVars, vars
    <3> QED
      BY <1>1, <2>1, <3>1 DEF CheckFinds, List
  <2>3. ASSUME NEW n, Take(n)
        PROVE  \E s \in Fastest(offered, n) : result' = [i \in 1 .. n |-> s[i].ep]
    <3>1. PICK s \in Available(n) : result' = [i \in 1 .. n |-> s[i].ep]
      BY <2>3 DEF Take
    <3>2. s \in Fastest(offered, n)
      BY <2>1, <3>1 DEF Available, Fastest
    <3> QED
      BY <3>1, <3>2
  <2> QED
    BY <2>2, <2>3
<1>2. ScanInv /\ [Next]_vars => [Step]_vars
  BY <1>1
<1>3. FastestFound <=> [][Step]_vars
  BY DEF FastestFound
<1> QED
  BY <1>2, <1>3, ScanInvariant, PTL DEF Spec

-----------------------------------------------------------------------------
(* The scan implements ScanPromise.                                        *)

Status == IF main = "scanning" \/ command # "run" THEN "running" ELSE main
Pinged == {i.ep : i \in offered}
FoundOf == IF command = "run" THEN result ELSE <<>>

\* What the refinement needs of a state: what has answered is cached.
LEMMA PingedIsCached ==
    ASSUME ScanInv
    PROVE  Pinged \subseteq cached /\ cached \subseteq Endpoint
BY DEF ScanInv, Offers, CacheTypes, Pinged

\* Nothing has answered at first.
LEMMA PromiseInit ==
    ASSUME Init
    PROVE  Promise!Init
BY FileAssumption DEF Init, Promise!Init

\* The scan that finds two endpoints returns two different ones that have answered.
LEMMA PromiseSucceeds ==
    ASSUME ScanInv, CheckFinds
    PROVE  Promise!Next
<1>1. PICK s \in [1 .. 2 -> queue] : /\ result' = [i \in 1 .. 2 |-> s[i].ep]
                                     /\ \A i, j \in 1 .. 2 : i < j => s[i] # s[j]
  BY DEF CheckFinds, Take, Available
<1>2. s[1] \in offered /\ s[2] \in offered /\ s[1] # s[2]
  <2>1. 1 \in 1 .. 2 /\ 2 \in 1 .. 2 /\ 1 < 2
    OBVIOUS
  <2> QED
    BY <1>1, <2>1 DEF ScanInv, Queues
<1>3. s[1].ep \in Pinged /\ s[2].ep \in Pinged /\ s[1].ep # s[2].ep
  BY <1>2 DEF ScanInv, Queues, Pinged
<1>4. result' = <<s[1].ep, s[2].ep>>
  BY <1>1
<1>5. result' \in Found(Pinged)
  BY <1>3, <1>4 DEF Found
<1>6. /\ command = "run" /\ command' = command /\ main = "scanning" /\ main' = "found"
      /\ offered' = offered /\ cached' = cached
  BY DEF CheckFinds, cacheVars
<1>7. Promise!Succeed
  BY <1>5, <1>6 DEF Promise!Succeed, Promise!Found, Found, Pinged
<1> QED
  BY <1>7 DEF Promise!Next

\* Every step of the scan is one of the promise, or leaves what it speaks of alone.
LEMMA PromiseNext ==
    ASSUME ScanInv, ScanInv', [Next]_vars
    PROVE  [Promise!Next]_(Promise!vars)
<1> DEFINE Same == UNCHANGED <<command, main, result, offered, cached>>
<1>1. CASE Scanning \/ Interrupt \/ Terminated \/ UNCHANGED vars
  <2>1. Same
    BY <1>1 DEF Scanning, Create, InitQueue, Round, RoundOver, EngineStops, SaveCache, Interrupt,
                Terminated, vars, mainVars, cacheVars
  <2> QED
    BY <2>1 DEF Promise!vars
<1>2. ASSUME NEW g \in Prefixes, Ping(g)
      PROVE  [Promise!Next]_(Promise!vars)
  <2>1. UNCHANGED <<command, main, result>>
    BY <1>2 DEF Ping, PingFails, PingAnswers, SaveEndpoint, Enqueue, mainVars
  <2>2. offered \subseteq offered' /\ cached \subseteq cached'
    BY <1>2 DEF Ping, PingFails, PingAnswers, SaveEndpoint, Enqueue, CachedWith, cacheVars
  <2>3. Pinged' \subseteq cached' /\ cached' \subseteq Endpoint
    BY DEF ScanInv, Offers, CacheTypes, Pinged
  <2>4. Pinged \subseteq Pinged'
    BY <2>2 DEF Pinged
  <2>5. Promise!Answer
    BY <2>1, <2>2, <2>3, <2>4 DEF Promise!Answer, Pinged
  <2> QED
    BY <2>5 DEF Promise!Next
<1>3. CASE CheckFinds
  BY <1>3, PromiseSucceeds
<1>4. CASE CheckGivesUp
  <2>1. /\ command = "run" /\ main = "scanning" /\ main' = "failed"
        /\ UNCHANGED <<command, result, offered, cached>>
    BY <1>4 DEF CheckGivesUp, cacheVars
  <2>2. Promise!Fail
    BY <2>1 DEF Promise!Fail
  <2> QED
    BY <2>2 DEF Promise!Next
<1>5. CASE List
  <2>1. command = "scanner" /\ UNCHANGED <<command, offered, cached>>
    BY <1>5 DEF List, cacheVars
  <2> QED
    BY <2>1 DEF Promise!vars
<1> QED
  BY <1>1, <1>2, <1>3, <1>4, <1>5 DEF Next

\* To the engine of the run command a scan is what ScanPromise says.
THEOREM ScanKeepsPromise == Spec => KeepsPromise
<1>1. Init => Promise!Init
  BY PromiseInit
<1>2. ScanInv /\ ScanInv' /\ [Next]_vars => [Promise!Next]_(Promise!vars)
  BY PromiseNext
<1> QED
  BY <1>1, <1>2, ScanInvariant, PTL DEF Spec, KeepsPromise, Promise!Spec
=============================================================================
