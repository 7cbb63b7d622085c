------------------------- MODULE EndpointCacheProofs -------------------------
(***************************************************************************)
(* Proofs about EndpointCache, for every number of commands and endpoints: *)
(* the types, that no command forgets an endpoint, and that the file can   *)
(* be read unless a write of it was cut short.                             *)
(***************************************************************************)
EXTENDS EndpointCache, TLAPS

-----------------------------------------------------------------------------
(* The lists.                                                              *)

\* A list is a function from some of the endpoints to their failures.
LEMMA EntriesDef ==
    /\ \A D \in SUBSET Address : \A f \in [D -> 0 .. MaxFailures - 1] : f \in Entries
    /\ \A f \in Entries : /\ DOMAIN f \subseteq Address
                          /\ f \in [DOMAIN f -> 0 .. MaxFailures - 1]
<1>1. ASSUME NEW D \in SUBSET Address, NEW f \in [D -> 0 .. MaxFailures - 1]
      PROVE  f \in Entries
  BY <1>1 DEF Entries
<1>2. ASSUME NEW f \in Entries
      PROVE  /\ DOMAIN f \subseteq Address
             /\ f \in [DOMAIN f -> 0 .. MaxFailures - 1]
  <2>1. PICK D \in SUBSET Address : f \in [D -> 0 .. MaxFailures - 1]
    BY DEF Entries
  <2> QED
    BY <2>1
<1> QED
  BY <1>1, <1>2

\* The empty list is a list.
LEMMA NoneType == None \in Entries /\ DOMAIN None = {}
<1>1. None \in [{} -> 0 .. MaxFailures - 1] /\ DOMAIN None = {}
  BY DEF None
<1> QED
  BY <1>1, EntriesDef

\* Adding, updating or dropping an endpoint makes a list again.
LEMMA ListOperations ==
    ASSUME NEW f \in Entries, NEW a \in Address
    PROVE  /\ \A n \in 0 .. MaxFailures - 1 :
                  With(f, a, n) \in Entries /\ DOMAIN With(f, a, n) = DOMAIN f \cup {a}
           /\ Without(f, a) \in Entries /\ DOMAIN Without(f, a) = DOMAIN f \ {a}
           /\ a \in DOMAIN f =>
                /\ f[a] \in 0 .. MaxFailures - 1
                /\ \A n \in 0 .. MaxFailures - 1 :
                       [f EXCEPT ![a] = n] \in Entries
                /\ \A n : DOMAIN [f EXCEPT ![a] = n] = DOMAIN f
<1>1. DOMAIN f \subseteq Address /\ f \in [DOMAIN f -> 0 .. MaxFailures - 1]
  BY EntriesDef
<1>2. ASSUME NEW n \in 0 .. MaxFailures - 1
      PROVE  With(f, a, n) \in Entries /\ DOMAIN With(f, a, n) = DOMAIN f \cup {a}
  <2>1. With(f, a, n) \in [DOMAIN f \cup {a} -> 0 .. MaxFailures - 1]
    BY <1>1 DEF With
  <2>2. DOMAIN f \cup {a} \in SUBSET Address
    BY <1>1
  <2> QED
    BY <2>1, <2>2, EntriesDef DEF With
<1>3. Without(f, a) \in Entries /\ DOMAIN Without(f, a) = DOMAIN f \ {a}
  <2>1. Without(f, a) \in [DOMAIN f \ {a} -> 0 .. MaxFailures - 1]
    BY <1>1 DEF Without
  <2>2. DOMAIN f \ {a} \in SUBSET Address
    BY <1>1
  <2> QED
    BY <2>1, <2>2, EntriesDef DEF Without
<1>4. ASSUME a \in DOMAIN f, NEW n \in 0 .. MaxFailures - 1
      PROVE  [f EXCEPT ![a] = n] \in Entries
  <2>1. [f EXCEPT ![a] = n] \in [DOMAIN f -> 0 .. MaxFailures - 1]
    BY <1>1, <1>4
  <2> QED
    BY <1>1, <2>1, EntriesDef
<1>5. a \in DOMAIN f => f[a] \in 0 .. MaxFailures - 1
  BY <1>1
<1> QED
  BY <1>2, <1>3, <1>4, <1>5

-----------------------------------------------------------------------------
(* The invariant.                                                          *)

\* A write that nothing has cut short is the only one, and finds the file as
\* it has opened it.
OneWriter ==
    ~cutShort =>
        /\ \A p, q \in Command : Writing(p) /\ Writing(q) => p = q
        /\ \A p \in Command : Writing(p) => file.state = "empty"

\* The file is a state and the list in it.
FileType == file \in [state : {"missing", "empty", "torn", "whole"}, has : Entries]

\* What a command may lose at its second load is what the writer of the file did not
\* owe: all that is due of the command was in the file, or counts as rewritten.
Loads ==
    \A p \in Command :
        /\ at[p] = "off" => due[p] = {}
        /\ at[p] = "up" /\ file.state = "whole" => due[p] \subseteq kept \cup rewritten[p]

CacheInv ==
    /\ TypeOK
    /\ FileType
    /\ Loads
    /\ NothingForgotten
    /\ OneWriter
    /\ ReadableUnlessCutShort

\* The invariant holds of a state that begins as the program does.
LEMMA InitInv == Init => CacheInv
<1> SUFFICES ASSUME Init PROVE CacheInv
  OBVIOUS
<1> USE DEF Init
<1>1. FileType
  BY NoneType DEF FileType
<1>2. TypeOK
  BY NoneType, CacheAssumption DEF TypeOK
<1>3. NothingForgotten /\ Loads
  BY NoneType DEF NothingForgotten, Loads
<1>4. OneWriter /\ ReadableUnlessCutShort
  BY DEF OneWriter, ReadableUnlessCutShort, Writing
<1> QED
  BY <1>1, <1>2, <1>3, <1>4 DEF CacheInv

\* The steps of a command that do not touch the file: its writers stay, and so
\* does all that is said of the file.
LEMMA FileUntouched ==
    ASSUME CacheInv, NEW p \in Command,
           file' = file, kept' = kept, cutShort' = cutShort,
           \A q \in Command : Writing(q)' <=> Writing(q)
    PROVE  FileType' /\ OneWriter' /\ ReadableUnlessCutShort'
<1>1. FileType'
  BY DEF CacheInv, FileType
<1>2. OneWriter'
  BY DEF CacheInv, OneWriter
<1>3. ReadableUnlessCutShort'
  BY DEF CacheInv, ReadableUnlessCutShort
<1> QED
  BY <1>1, <1>2, <1>3

\* Loading gives a list again, and all that is due of it.
LEMMA LoadKeeps ==
    ASSUME CacheInv, NEW p \in Command, Start(p) \/ NewScanner(p)
    PROVE  /\ mem' \in [Command -> Entries]
           /\ due' \in [Command -> SUBSET Address]
           /\ rewritten' \in [Command -> SUBSET Address]
           /\ \A q \in Command : due'[q] \subseteq DOMAIN mem'[q] \cup
                                     (IF at'[q] = "up" THEN {} ELSE rewritten'[q])
<1>1. LoadCache(p) /\ file' = file /\ kept' = kept
  BY DEF Start, NewScanner
<1>2. mem' \in [Command -> Entries]
  BY <1>1 DEF CacheInv, TypeOK, LoadCache, Loaded
<1>3. due' \in [Command -> SUBSET Address] /\ rewritten' \in [Command -> SUBSET Address]
  BY <1>1 DEF CacheInv, TypeOK, LoadCache, Start, NewScanner
<1>4. ASSUME NEW q \in Command, q # p
      PROVE  /\ due'[q] = due[q] /\ mem'[q] = mem[q]
             /\ rewritten'[q] = rewritten[q] /\ at'[q] = at[q]
  BY <1>1, <1>4 DEF CacheInv, TypeOK, LoadCache, Start, NewScanner
<1>5. mem'[p] = Loaded(p) /\ due'[p] = IF file.state = "whole" THEN due[p] \cup kept ELSE due[p]
  BY <1>1 DEF CacheInv, TypeOK, LoadCache
<1>6. CASE Start(p)
  <2>1. at[p] = "off" /\ due[p] = {} /\ at'[p] = "up"
    BY <1>6 DEF Start, CacheInv, TypeOK, Loads
  <2>2. due'[p] \subseteq DOMAIN mem'[p]
    BY <1>5, <2>1 DEF CacheInv, NothingForgotten, Loaded
  <2> QED
    BY <1>2, <1>3, <1>4, <2>2 DEF CacheInv, NothingForgotten
<1>7. CASE NewScanner(p)
  <2>1. at[p] = "up" /\ due[p] \subseteq DOMAIN mem[p] /\ at'[p] = "scan"
    BY <1>7 DEF NewScanner, CacheInv, TypeOK, NothingForgotten
  <2>2. file.state = "whole" => rewritten'[p] = rewritten[p]
    BY <1>7 DEF NewScanner, CacheInv, TypeOK
  <2>3. due'[p] \subseteq DOMAIN mem'[p] \cup rewritten'[p]
    BY <1>5, <2>1, <2>2 DEF CacheInv, NothingForgotten, Loads, Loaded
  <2> QED
    BY <1>2, <1>3, <1>4, <2>1, <2>3 DEF CacheInv, NothingForgotten
<1> QED
  BY <1>6, <1>7

\* What the operations on one list do to the invariant: the new list is one, and
\* holds what is due of it.
LEMMA ListKeeps ==
    ASSUME CacheInv, NEW p \in Command, NEW f \in Entries,
           NEW D \in SUBSET Address, NEW R \in SUBSET Address, Free(p),
           D \subseteq DOMAIN f \cup (IF at[p] = "up" THEN {} ELSE R),
           at[p] = "up" => D \subseteq due[p] /\ R = rewritten[p],
           mem' = [mem EXCEPT ![p] = f], due' = [due EXCEPT ![p] = D],
           rewritten' = [rewritten EXCEPT ![p] = R],
           UNCHANGED <<at, file, kept, cutShort>>
    PROVE  CacheInv'
<1>1. FileType' /\ OneWriter' /\ ReadableUnlessCutShort'
  <2>1. \A q \in Command : Writing(q)' <=> Writing(q)
    BY DEF Writing
  <2> QED
    BY <2>1, FileUntouched
<1>2. TypeOK'
  BY DEF CacheInv, TypeOK
<1>3. /\ mem'[p] = f /\ due'[p] = D /\ rewritten'[p] = R
      /\ \A q \in Command : q # p => /\ mem'[q] = mem[q] /\ due'[q] = due[q]
                                     /\ rewritten'[q] = rewritten[q]
  BY DEF CacheInv, TypeOK
<1>4. NothingForgotten'
  BY <1>3 DEF CacheInv, NothingForgotten
<1>5. Loads'
  BY <1>3 DEF CacheInv, Loads, Free
<1> QED
  BY <1>1, <1>2, <1>4, <1>5 DEF CacheInv

-----------------------------------------------------------------------------
(* The steps.                                                              *)

\* A command loads the file, when it starts and when it makes a scanner.
LEMMA LoadStep ==
    ASSUME CacheInv, NEW p \in Command, Start(p) \/ NewScanner(p)
    PROVE  CacheInv'
<1>1. LoadCache(p) /\ file' = file /\ kept' = kept /\ cutShort' = cutShort
  BY DEF Start, NewScanner
<1>2. /\ mem' \in [Command -> Entries]
      /\ due' \in [Command -> SUBSET Address]
      /\ rewritten' \in [Command -> SUBSET Address]
      /\ \A q \in Command : due'[q] \subseteq DOMAIN mem'[q] \cup
                                (IF at'[q] = "up" THEN {} ELSE rewritten'[q])
  BY LoadKeeps
<1>3. /\ at' \in [Command -> {"off", "up", "scan", "write", "stopped"}]
      /\ \A q \in Command : Writing(q)' <=> Writing(q)
  <2>1. at[p] \in {"off", "up"} /\ \E s \in {"up", "scan"} : at' = [at EXCEPT ![p] = s]
    BY DEF Start, NewScanner
  <2> QED
    BY <2>1 DEF CacheInv, TypeOK, Writing
<1>4. FileType' /\ OneWriter' /\ ReadableUnlessCutShort'
  BY <1>1, <1>3, FileUntouched
<1>5. TypeOK'
  BY <1>1, <1>2, <1>3 DEF CacheInv, TypeOK, FileType
<1>6. NothingForgotten'
  BY <1>1, <1>2 DEF CacheInv, NothingForgotten
<1>7. Loads'
  <2>1. \A q \in Command : q # p => /\ at'[q] = at[q] /\ due'[q] = due[q]
                                   /\ rewritten'[q] = rewritten[q]
    BY <1>1 DEF CacheInv, TypeOK, LoadCache, Start, NewScanner
  <2>2. CASE NewScanner(p)
    <3>1. at'[p] = "scan"
      BY <2>2 DEF NewScanner, CacheInv, TypeOK
    <3> QED
      BY <1>1, <2>1, <3>1 DEF CacheInv, Loads
  <2>3. CASE Start(p)
    <3>1. at[p] = "off" /\ due[p] = {} /\ at'[p] = "up"
      BY <2>3 DEF Start, CacheInv, TypeOK, Loads
    <3>2. due'[p] = IF file.state = "whole" THEN kept ELSE {}
      BY <1>1, <3>1 DEF CacheInv, TypeOK, LoadCache
    <3> QED
      BY <1>1, <2>1, <3>1, <3>2 DEF CacheInv, Loads
  <2> QED
    BY <2>2, <2>3
<1> QED
  BY <1>4, <1>5, <1>6, <1>7 DEF CacheInv

\* A ping that has answered is put into the list.
LEMMA SaveEndpointStep ==
    ASSUME CacheInv, NEW p \in Command, NEW a \in Address, SaveEndpoint(p, a)
    PROVE  CacheInv'
<1>1. /\ mem[p] \in Entries /\ due[p] \in SUBSET Address /\ rewritten[p] \in SUBSET Address
      /\ at[p] = "scan" /\ due[p] \subseteq DOMAIN mem[p] \cup rewritten[p]
  BY DEF CacheInv, TypeOK, NothingForgotten, SaveEndpoint
<1>2. With(mem[p], a, 0) \in Entries /\ DOMAIN With(mem[p], a, 0) = DOMAIN mem[p] \cup {a}
  <2>1. 0 \in 0 .. MaxFailures - 1
    BY CacheAssumption
  <2> QED
    BY <1>1, <2>1, ListOperations
<1>3. /\ mem' = [mem EXCEPT ![p] = With(mem[p], a, 0)]
      /\ due' = [due EXCEPT ![p] = due[p] \cup {a}]
      /\ rewritten' = [rewritten EXCEPT ![p] = rewritten[p] \ {a}]
      /\ UNCHANGED <<at, file, kept, cutShort>>
  BY DEF SaveEndpoint
<1>4. /\ due[p] \cup {a} \in SUBSET Address /\ rewritten[p] \ {a} \in SUBSET Address
      /\ due[p] \cup {a} \subseteq DOMAIN With(mem[p], a, 0) \cup (rewritten[p] \ {a})
  BY <1>1, <1>2
<1> QED
  BY <1>1, <1>2, <1>3, <1>4, ListKeeps DEF Free

\* A failure is counted: the endpoint whose last one it was is dropped, and is
\* no longer due.
LEMMA RecordFailureStep ==
    ASSUME CacheInv, NEW p \in Command, NEW a \in Address, RecordFailure(p, a)
    PROVE  CacheInv'
<1> DEFINE n == mem[p][a]
<1> DEFINE E == IF at[p] = "up" THEN {} ELSE rewritten[p]
<1>1. /\ mem[p] \in Entries /\ due[p] \in SUBSET Address /\ rewritten[p] \in SUBSET Address
      /\ due[p] \subseteq DOMAIN mem[p] \cup E /\ a \in DOMAIN mem[p] /\ Free(p)
  BY DEF CacheInv, TypeOK, NothingForgotten, RecordFailure
<1>2. /\ n \in 0 .. MaxFailures - 1 /\ UNCHANGED <<at, file, kept, cutShort>>
      /\ rewritten' = [rewritten EXCEPT ![p] = rewritten[p]]
  BY <1>1, ListOperations DEF RecordFailure, CacheInv, TypeOK
<1>3. CASE n = MaxFailures - 1
  <2>1. TooMany(n + 1)
    BY <1>3, CacheAssumption DEF TooMany
  <2>2. /\ mem' = [mem EXCEPT ![p] = Without(mem[p], a)]
        /\ due' = [due EXCEPT ![p] = due[p] \ {a}]
    BY <1>3, <2>1 DEF RecordFailure
  <2>3. Without(mem[p], a) \in Entries /\ DOMAIN Without(mem[p], a) = DOMAIN mem[p] \ {a}
    BY <1>1, ListOperations
  <2>4. /\ due[p] \ {a} \subseteq DOMAIN Without(mem[p], a) \cup E
        /\ due[p] \ {a} \in SUBSET Address /\ due[p] \ {a} \subseteq due[p]
    BY <1>1, <2>3
  <2> QED
    BY <1>1, <1>2, <2>2, <2>3, <2>4, ListKeeps
<1>4. CASE n # MaxFailures - 1
  <2>1. n + 1 \in 0 .. MaxFailures - 1 /\ ~TooMany(n + 1)
    BY <1>2, <1>4, CacheAssumption DEF TooMany
  <2>2. mem' = [mem EXCEPT ![p][a] = n + 1] /\ due' = [due EXCEPT ![p] = due[p]]
    BY <1>4, <2>1 DEF RecordFailure
  <2>3. /\ [mem[p] EXCEPT ![a] = n + 1] \in Entries
        /\ DOMAIN [mem[p] EXCEPT ![a] = n + 1] = DOMAIN mem[p]
    BY <1>1, <2>1, ListOperations
  <2>4. mem' = [mem EXCEPT ![p] = [mem[p] EXCEPT ![a] = n + 1]]
    BY <2>2
  <2> QED
    BY <1>1, <1>2, <2>2, <2>3, <2>4, ListKeeps
<1> QED
  BY <1>3, <1>4

\* A success takes the failures away.
LEMMA RecordSuccessStep ==
    ASSUME CacheInv, NEW p \in Command, NEW a \in Address, RecordSuccess(p, a)
    PROVE  CacheInv'
<1> DEFINE E == IF at[p] = "up" THEN {} ELSE rewritten[p]
<1>1. /\ mem[p] \in Entries /\ due[p] \in SUBSET Address /\ rewritten[p] \in SUBSET Address
      /\ due[p] \subseteq DOMAIN mem[p] \cup E /\ a \in DOMAIN mem[p] /\ Free(p)
  BY DEF CacheInv, TypeOK, NothingForgotten, RecordSuccess
<1>2. 0 \in 0 .. MaxFailures - 1
  BY CacheAssumption
<1>3. /\ [mem[p] EXCEPT ![a] = 0] \in Entries
      /\ DOMAIN [mem[p] EXCEPT ![a] = 0] = DOMAIN mem[p]
  BY <1>1, <1>2, ListOperations
<1>4. mem' = [mem EXCEPT ![p] = [mem[p] EXCEPT ![a] = 0]] /\ UNCHANGED <<at, file, kept, cutShort>>
  BY DEF RecordSuccess
<1>5. due' = [due EXCEPT ![p] = due[p]] /\ rewritten' = [rewritten EXCEPT ![p] = rewritten[p]]
  BY DEF RecordSuccess, CacheInv, TypeOK
<1> QED
  BY <1>1, <1>3, <1>4, <1>5, ListKeeps

\* The file is opened: it is empty, and the write counts as cut short if
\* another is under way.
LEMMA OpenStep ==
    ASSUME CacheInv, NEW p \in Command, Open(p)
    PROVE  CacheInv'
<1>0. /\ at' = [at EXCEPT ![p] = "write"] /\ file' = Opened
      /\ cutShort' = OthersWrite(p) /\ UNCHANGED <<mem, due, kept, rewritten>>
      /\ at[p] = "scan"
  BY DEF Open
<1>1. FileType'
  BY <1>0, NoneType DEF FileType, Opened
<1>2. TypeOK'
  BY <1>0, <1>1 DEF CacheInv, TypeOK, FileType, OthersWrite
<1>3. NothingForgotten' /\ Loads'
  <2>1. \A q \in Command : at'[q] = IF q = p THEN "write" ELSE at[q]
    BY <1>0 DEF CacheInv, TypeOK
  <2> QED
    BY <1>0, <2>1 DEF CacheInv, NothingForgotten, Loads, Opened
<1>4. \A q \in Command : Writing(q)' <=> q = p \/ Writing(q)
  BY <1>0 DEF CacheInv, TypeOK, Writing
<1>5. OneWriter'
  <2>1. file'.state = "empty"
    BY <1>0 DEF Opened
  <2>2. ~cutShort' => \A q \in Command \ {p} : ~Writing(q)
    BY <1>0 DEF OthersWrite
  <2>3. ~cutShort' => \A q, r \in Command : Writing(q)' /\ Writing(r)' => q = r
    BY <1>4, <2>2
  <2> QED
    BY <2>1, <2>3 DEF OneWriter
<1>6. ReadableUnlessCutShort'
  BY <1>4 DEF ReadableUnlessCutShort
<1> QED
  BY <1>1, <1>2, <1>3, <1>5, <1>6 DEF CacheInv

\* The writer that leaves is gone, and nobody else writes unless the file
\* counts as cut short.
LEMMA WriterLeaves ==
    ASSUME CacheInv, NEW p \in Command, NEW s \in {"off", "stopped"},
           at' = [at EXCEPT ![p] = s]
    PROVE  /\ at' \in [Command -> {"off", "up", "scan", "write", "stopped"}]
           /\ \A q \in Command : Writing(q)' <=> q # p /\ Writing(q)
           /\ ~cutShort /\ Writing(p) => \A q \in Command : ~Writing(q)'
<1>1. \A q \in Command : Writing(q)' <=> q # p /\ Writing(q)
  BY DEF CacheInv, TypeOK, Writing
<1>2. ~cutShort /\ Writing(p) => \A q \in Command : ~Writing(q)'
  BY <1>1 DEF CacheInv, OneWriter
<1> QED
  BY <1>1, <1>2 DEF CacheInv, TypeOK

\* The file is written: whole, if the writer was alone.
LEMMA WriteStep ==
    ASSUME CacheInv, NEW p \in Command, Write(p)
    PROVE  CacheInv'
<1>0. /\ Writing(p) /\ at' = [at EXCEPT ![p] = "stopped"]
      /\ kept' = Owed(p) /\ UNCHANGED <<mem, due, cutShort>>
  BY DEF Write
<1>1. /\ file' = Whole(mem[p]) \/ file' = Torn
      /\ file.state = "empty" => file' = Whole(mem[p])
  BY DEF Write
<1>2. mem[p] \in Entries /\ Owed(p) \in SUBSET Address /\ Owed(p) \subseteq DOMAIN mem[p]
  BY <1>0 DEF CacheInv, TypeOK, NothingForgotten, Owed, Writing
<1>3. FileType'
  BY <1>1, <1>2, NoneType DEF FileType, Whole, Torn
<1>4. at' \in [Command -> {"off", "up", "scan", "write", "stopped"}]
  BY <1>0, WriterLeaves
<1>5. /\ rewritten' \in [Command -> SUBSET Address]
      /\ \A q \in Command : rewritten'[q] = IF at[q] = "up" THEN due[q] \ Owed(p) ELSE rewritten[q]
  BY DEF Write, CacheInv, TypeOK
<1>6. TypeOK'
  BY <1>0, <1>2, <1>3, <1>4, <1>5 DEF CacheInv, TypeOK, FileType
<1>7. \A q \in Command : at'[q] = IF q = p THEN "stopped" ELSE at[q]
  BY <1>0 DEF CacheInv, TypeOK
<1>8. NothingForgotten'
  <2>1. ASSUME NEW q \in Command
        PROVE  due[q] \subseteq DOMAIN mem[q] \cup (IF at'[q] = "up" THEN {} ELSE rewritten'[q])
    BY <1>0, <1>5, <1>7 DEF CacheInv, NothingForgotten, Writing
  <2>2. (file.state = "whole" => kept \subseteq DOMAIN file.has)'
    BY <1>0, <1>1, <1>2 DEF Whole, Torn
  <2> QED
    BY <1>0, <2>1, <2>2 DEF NothingForgotten
<1>9. Loads'
  BY <1>0, <1>5, <1>7 DEF CacheInv, Loads
<1>10. ~cutShort' => \A q \in Command : ~Writing(q)'
  BY <1>0, WriterLeaves
<1>11. OneWriter'
  BY <1>10 DEF OneWriter
<1>12. ReadableUnlessCutShort'
  <2>1. ~cutShort' => file.state = "empty"
    BY <1>0 DEF CacheInv, OneWriter
  <2> QED
    BY <1>1, <2>1 DEF ReadableUnlessCutShort, Whole
<1> QED
  BY <1>3, <1>8, <1>11, <1>12, <1>6, <1>9 DEF CacheInv

\* A write that fails leaves the file as it was, or torn, and cut short.
LEMMA WriteFailsStep ==
    ASSUME CacheInv, NEW p \in Command, WriteFails(p)
    PROVE  CacheInv'
<1>0. /\ at' = [at EXCEPT ![p] = "stopped"] /\ cutShort'
      /\ file' = file \/ file' = Torn
      /\ cutShort' = TRUE /\ UNCHANGED <<mem, due, kept, rewritten>>
      /\ Writing(p)
  BY DEF WriteFails
<1>1. FileType'
  BY <1>0, NoneType DEF CacheInv, FileType, Torn
<1>2. at' \in [Command -> {"off", "up", "scan", "write", "stopped"}]
  BY <1>0, WriterLeaves
<1>3. TypeOK'
  BY <1>0, <1>1, <1>2 DEF CacheInv, TypeOK, FileType
<1>4. NothingForgotten' /\ Loads'
  <2>1. \A q \in Command : at'[q] = IF q = p THEN "stopped" ELSE at[q]
    BY <1>0 DEF CacheInv, TypeOK
  <2> QED
    BY <1>0, <2>1 DEF CacheInv, NothingForgotten, Loads, Torn, Writing
<1>5. OneWriter' /\ ReadableUnlessCutShort'
  BY <1>0 DEF OneWriter, ReadableUnlessCutShort
<1> QED
  BY <1>1, <1>3, <1>4, <1>5 DEF CacheInv

\* A command ends: in the middle of a write, that write is cut short.
LEMMA EndStep ==
    ASSUME CacheInv, NEW p \in Command, End(p)
    PROVE  CacheInv'
<1>0. /\ at' = [at EXCEPT ![p] = "off"] /\ mem' = [mem EXCEPT ![p] = None]
      /\ due' = [due EXCEPT ![p] = {}] /\ kept' = kept
      /\ rewritten' = [rewritten EXCEPT ![p] = {}]
  BY DEF End
<1>1. /\ file' = file \/ (Writing(p) /\ file' = Torn)
      /\ cutShort' = (cutShort \/ Writing(p))
  BY DEF End
<1>2. FileType'
  BY <1>1, NoneType DEF CacheInv, FileType, Torn
<1>3. /\ at' \in [Command -> {"off", "up", "scan", "write", "stopped"}]
      /\ \A q \in Command : Writing(q)' <=> q # p /\ Writing(q)
  BY <1>0, WriterLeaves
<1>4. cutShort' \in BOOLEAN
  BY <1>1
<1>5. TypeOK'
  BY <1>0, <1>2, <1>3, <1>4, NoneType DEF CacheInv, TypeOK, FileType
<1>6. NothingForgotten'
  <2>1. ASSUME NEW q \in Command
        PROVE  due'[q] \subseteq DOMAIN mem'[q] \cup (IF at'[q] = "up" THEN {} ELSE rewritten'[q])
    <3>1. CASE q = p
      BY <1>0, <3>1 DEF CacheInv, TypeOK
    <3>2. CASE q # p
      BY <1>0, <3>2 DEF CacheInv, TypeOK, NothingForgotten
    <3> QED
      BY <3>1, <3>2
  <2>2. (file.state = "whole" => kept \subseteq DOMAIN file.has)'
    BY <1>0, <1>1 DEF CacheInv, NothingForgotten, Torn
  <2> QED
    BY <2>1, <2>2 DEF NothingForgotten
<1>7. Loads'
  <2>1. ASSUME NEW q \in Command
        PROVE  /\ at'[q] = "off" => due'[q] = {}
               /\ at'[q] = "up" /\ file'.state = "whole"
                    => due'[q] \subseteq kept' \cup rewritten'[q]
    <3>1. CASE q = p
      BY <1>0, <3>1 DEF CacheInv, TypeOK
    <3>2. CASE q # p
      <4>1. at'[q] = at[q] /\ due'[q] = due[q] /\ rewritten'[q] = rewritten[q]
        BY <1>0, <3>2 DEF CacheInv, TypeOK
      <4> QED
        BY <1>0, <1>1, <4>1 DEF CacheInv, Loads, Torn
    <3> QED
      BY <3>1, <3>2
  <2> QED
    BY <2>1 DEF Loads
<1>8. ~cutShort' => ~cutShort /\ ~Writing(p) /\ file' = file
  BY <1>1
<1>9. OneWriter'
  BY <1>3, <1>8 DEF CacheInv, OneWriter
<1>10. ReadableUnlessCutShort'
  BY <1>3, <1>8 DEF CacheInv, ReadableUnlessCutShort
<1> QED
  BY <1>2, <1>5, <1>6, <1>9, <1>10, <1>7 DEF CacheInv

\* Every step of a command, and every stutter, keeps the invariant.
LEMMA StepInv == CacheInv /\ [Next]_vars => CacheInv'
<1>1. ASSUME CacheInv, NEW p \in Command, Run(p)
      PROVE  CacheInv'
  <2>1. CASE Start(p) \/ NewScanner(p)
    BY <1>1, <2>1, LoadStep
  <2>2. CASE Open(p)
    BY <1>1, <2>2, OpenStep
  <2>3. CASE Write(p)
    BY <1>1, <2>3, WriteStep
  <2>4. CASE WriteFails(p)
    BY <1>1, <2>4, WriteFailsStep
  <2>5. CASE End(p)
    BY <1>1, <2>5, EndStep
  <2>6. ASSUME NEW a \in Address, SaveEndpoint(p, a) \/ RecordFailure(p, a) \/ RecordSuccess(p, a)
        PROVE  CacheInv'
    BY <1>1, <2>6, SaveEndpointStep, RecordFailureStep, RecordSuccessStep
  <2> QED
    BY <1>1, <2>1, <2>2, <2>3, <2>4, <2>5, <2>6 DEF Run
<1>2. CASE UNCHANGED vars
  BY <1>2 DEF vars, CacheInv, TypeOK, FileType, Loads, NothingForgotten, OneWriter,
              ReadableUnlessCutShort, Writing
<1> QED
  BY <1>1, <1>2 DEF Next

-----------------------------------------------------------------------------
(* The theorems.                                                           *)

\* The invariant holds in every state, of any number of commands that share the
\* file and end where they will.
THEOREM CacheInvariant == Spec => []CacheInv
  BY InitInv, StepInv, PTL DEF Spec

\* No list of a command holds an endpoint that has failed MaxFailures times, and
\* the other variables have their types.
THEOREM CacheTypes == Spec => []TypeOK
<1>1. CacheInv => TypeOK
  BY DEF CacheInv
<1> QED
  BY <1>1, CacheInvariant, PTL

\* What a command has found, or has loaded, is in its list and in the file it writes
\* until it has failed MaxFailures times, unless another command that did not owe it
\* has written the file between the two loads.
THEOREM CacheForgetsNothing == Spec => []NothingForgotten
<1>1. CacheInv => NothingForgotten
  BY DEF CacheInv
<1> QED
  BY <1>1, CacheInvariant, PTL

\* The file cannot be read only after a write that was cut short, or that
\* overlapped another: one command that saves alone mends it.
THEOREM CacheReadable == Spec => []ReadableUnlessCutShort
<1>1. CacheInv => ReadableUnlessCutShort
  BY DEF CacheInv
<1> QED
  BY <1>1, CacheInvariant, PTL
=============================================================================
