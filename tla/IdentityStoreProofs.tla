------------------------- MODULE IdentityStoreProofs -------------------------
(***************************************************************************)
(* Proofs about IdentityStore and the ApiClient it EXTENDS, for every      *)
(* number of devices, licenses, handshakes, attempts and mishaps: the      *)
(* types, and every safety invariant its run checks.                       *)
(***************************************************************************)
EXTENDS IdentityStore, FiniteSetTheorems, TLAPS

-----------------------------------------------------------------------------
(* The invariant of the client.                                            *)

\* The connection of the client fits the step of the request, and is one of the
\* open ones: a client that has none leaves room for one.
ClientInv ==
    /\ ClientTypeOK
    /\ call = "quiet" => link # "plain"
    /\ call = "dial" => link # "secure"
    /\ call \in {"send", "body"} => link = "secure"
    /\ call = "failed" => link = "none"
    /\ link # "none" => open \in 1 .. clients
    /\ link = "none" => open < clients \/ (open = 0 /\ clients = 0)

-----------------------------------------------------------------------------
(* The invariant of the store.                                             *)

\* TypeOK by parts.
FileTypes ==
    /\ reg \in Device \cup {None, Partial} /\ conf \in Conf \cup {None, Partial}
    /\ DOMAIN account \subseteq Device /\ account \in [DOMAIN account -> License]
CommandTypes ==
    /\ cmd \in Command /\ asked \in License
    /\ pc \in Requests \cup {"idle", "reg", "conf", "license",
                           "truncReg", "writeReg", "truncConf", "writeConf"}
    /\ load \in 1 .. 2 /\ seen \in Device \cup {None, Partial}
NamedType == named \in BOOLEAN
MemoryTypes ==
    /\ ident \in Identity \cup {None} /\ kept \in Identity \cup {None}
    /\ saves \in 0 .. 2
    /\ outcome \in {"none", "ok", "error"} /\ mishaps \in 0 .. MaxMishaps

FilesAre(i) == reg = i.key /\ conf = [dev |-> i.dev, lic |-> i.lic]
FilesWhole == reg \in Device /\ conf \in Conf

\* The steps at which the identity in memory is the command's own.
Working ==
    \/ pc \in {"update", "account", "name", "license", "device", "devices",
               "truncReg", "writeReg", "truncConf", "writeConf"}
    \/ pc = "register" /\ call = "body"

\* The requests are made where the command says, over a client that was made.
Phases ==
    /\ pc \notin Requests => call = "quiet"
    /\ pc \in Requests \/ (pc \in {"reg", "conf"} /\ load = 2) => clients >= 1
    /\ pc = "conf" => seen = reg /\ None \notin {reg, conf}
    /\ Working => ident \in Identity
    /\ pc \in {"truncReg", "writeReg", "truncConf", "writeConf"} => saves >= 1

\* Every device that is named anywhere is registered.
Registered ==
    /\ reg \in Device => reg \in DOMAIN account
    /\ conf \in Conf => conf.dev \in DOMAIN account
    /\ Working => ident.key \in DOMAIN account /\ ident.dev \in DOMAIN account

\* What the files hold while the identity in memory was read from them, while
\* it is written to them, and after a command that succeeded.
Saved ==
    /\ pc \in {"name", "license", "device", "devices"} => FilesAre(ident)
    /\ pc \in {"truncConf", "writeConf"} => reg = ident.key
    /\ pc = "idle" /\ outcome = "ok" => kept \in Identity /\ FilesAre(kept)

\* While nothing has failed, the one device there is stands in both files, or
\* is about to.
Calm ==
    mishaps = 0 =>
        /\ pc \in {"idle", "reg", "conf"} =>
              \/ reg = None /\ conf = None /\ DOMAIN account = {}
              \/ /\ FilesWhole /\ reg = conf.dev
                 /\ DOMAIN account = {reg} /\ account[reg] = conf.lic
        /\ pc = "register" => reg = None /\ conf = None
        /\ pc = "register" /\ call # "body" => DOMAIN account = {}
        /\ Working =>
              /\ ident.key = ident.dev
              /\ conf \in Conf => conf.dev = ident.dev
              /\ DOMAIN account = {ident.key}
              /\ \/ pc = "update"
                 \/ pc = "account" /\ call # "body"
                 \/ account[ident.key] = ident.lic

\* With one mishap, the two files disagree only between the two writes of a
\* command that goes on.
Agree ==
    mishaps <= 1 =>
        /\ Working \/ ident # None => ident.key = ident.dev
        /\ FilesWhole /\ pc # "truncConf" => reg = conf.dev

\* A command that will register a device has lost all that were registered
\* before, each to a mishap.
Cost ==
    /\ IsFiniteSet(DOMAIN account)
    /\ Cardinality(DOMAIN account) \in 0 .. 1 + mishaps
    /\ pc \in {"idle", "reg", "conf"} /\ ~FilesWhole => Cardinality(DOMAIN account) \in 0 .. mishaps
    /\ pc = "register" /\ call # "body" => Cardinality(DOMAIN account) \in 0 .. mishaps

StoreInv ==
    /\ FileTypes /\ CommandTypes /\ NamedType /\ MemoryTypes
    /\ ClientInv /\ Phases /\ Registered /\ Saved /\ Calm /\ Agree /\ Cost

-----------------------------------------------------------------------------
(* The steps of the client.                                                *)

\* TLSDial makes at least one dial.
LEMMA Dialable == Rounds * Attempts \in Nat \ {0}
  BY ClientAssumption

\* A process that has ended has no connection.
LEMMA ExitClient == Exit => ClientInv'
  BY Dialable DEF Exit, ClientInv, ClientTypeOK

\* A new client has none either, and leaves those of the ones before it.
LEMMA NewClient == ClientInv /\ NewWarpAPI => ClientInv' /\ clients' >= 1
  BY Dialable DEF NewWarpAPI, ClientInv, ClientTypeOK

\* A dial that fails is followed by another, or TLSDial has nothing to return.
LEMMA NextDialType ==
    ASSUME ClientInv, NextDial, call = "dial", link' = "none"
    PROVE  call' \in {"dial", "failed"} /\ dials' \in 0 .. Rounds * Attempts - 1
<1> DEFINE Most == Rounds * Attempts
<1>1. Most \in Nat \ {0} /\ dials \in 0 .. Most - 1
  BY Dialable DEF ClientInv, ClientTypeOK
<1>2. CASE dials + 1 < Most
  <2>1. dials' = dials + 1 /\ call' = call
    BY <1>2 DEF NextDial
  <2> HIDE DEF Most
  <2>2. dials' \in 0 .. Most - 1
    BY <1>1, <1>2, <2>1
  <2> QED
    BY <2>1, <2>2 DEF Most
<1>3. CASE ~(dials + 1 < Most)
  <2>1. dials' = 0 /\ call' = "failed"
    BY <1>3 DEF NextDial, Given
  <2> HIDE DEF Most
  <2>2. dials' \in 0 .. Most - 1
    BY <1>1, <2>1
  <2> QED
    BY <2>1, <2>2 DEF Most
<1> QED
  BY <1>2, <1>3

\* The steps that connect, successful or not.
LEMMA ConnectClient ==
    ASSUME ClientInv, clients >= 1, Connecting \/ DialFails
    PROVE  ClientInv' /\ clients' = clients /\ call' # "body"
<1>1. CASE Request
  BY <1>1 DEF Request, ClientInv, ClientTypeOK
<1>2. CASE DialPlain
  BY <1>2 DEF DialPlain, ClientInv, ClientTypeOK
<1>3. CASE Handshake
  BY <1>3, Dialable DEF Handshake, Given, ClientInv, ClientTypeOK
<1>4. CASE DialRefused
  <2>1. /\ call = "dial" /\ link = "none" /\ NextDial
        /\ link' = link /\ open' = open /\ clients' = clients
    BY <1>4 DEF DialRefused
  <2>2. call' \in {"dial", "failed"} /\ dials' \in 0 .. Rounds * Attempts - 1
    BY <2>1, NextDialType
  <2> QED
    BY <2>1, <2>2 DEF ClientInv, ClientTypeOK
<1>5. CASE HandshakeFails
  <2>1. /\ call = "dial" /\ link = "plain" /\ NextDial
        /\ link' = "none" /\ open' = open - 1 /\ clients' = clients
    BY <1>5 DEF HandshakeFails, Closed
  <2>2. call' \in {"dial", "failed"} /\ dials' \in 0 .. Rounds * Attempts - 1
    BY <2>1, NextDialType
  <2> QED
    BY <2>1, <2>2 DEF ClientInv, ClientTypeOK
<1> QED
  BY <1>1, <1>2, <1>3, <1>4, <1>5 DEF Connecting, DialFails

\* The steps of the API.
LEMMA ApiSteps ==
    ASSUME ClientInv
    PROVE  /\ Handled => ClientInv' /\ clients' = clients
           /\ Answered => ClientInv' /\ clients' = clients
           /\ KeptCloses => ClientInv' /\ clients' = clients
<1>1. Handled => ClientInv' /\ clients' = clients
  BY DEF Handled, ClientInv, ClientTypeOK
<1>2. Answered => ClientInv' /\ clients' = clients
  BY DEF Answered, ClientInv, ClientTypeOK
<1>3. KeptCloses => ClientInv' /\ clients' = clients
  BY DEF KeptCloses, ClientInv, ClientTypeOK
<1> QED
  BY <1>1, <1>2, <1>3

\* A client that does not move.
LEMMA SameClient == ClientInv /\ UNCHANGED apiVars => ClientInv'
  BY DEF apiVars, ClientInv, ClientTypeOK

-----------------------------------------------------------------------------
(* The steps of the store.                                                 *)

\* A command starts.
LEMMA StartStep ==
    ASSUME StoreInv, NEW c \in Command, Start(c)
    PROVE  StoreInv'
<1>1. /\ pc = "idle" /\ pc' = "reg" /\ load' = 1 /\ cmd' = c
      /\ asked' \in License /\ named' \in BOOLEAN
      /\ UNCHANGED <<reg, conf, account, seen, ident, saves, outcome, kept, mishaps>>
      /\ UNCHANGED apiVars /\ call' = call /\ clients' = clients
  BY StoreAssumption DEF Start, fileVars, apiVars
<1>2. ClientInv'
  BY <1>1, SameClient DEF StoreInv
<1>3. FileTypes'
  BY <1>1 DEF StoreInv, FileTypes
<1>4. CommandTypes'
  BY <1>1 DEF StoreInv, CommandTypes
<1>5. NamedType'
  BY <1>1 DEF NamedType
<1>6. MemoryTypes'
  BY <1>1 DEF StoreInv, MemoryTypes
<1>7. Phases'
  BY <1>1 DEF StoreInv, Requests, Phases, Working
<1>8. Registered'
  BY <1>1 DEF StoreInv, Registered, Working
<1>9. Saved'
  BY <1>1 DEF Saved
<1>10. Calm'
  BY <1>1 DEF StoreInv, Calm, FilesWhole, Working
<1>11. Agree'
  BY <1>1 DEF StoreInv, Agree, FilesWhole, Working
<1>12. Cost'
  BY <1>1 DEF StoreInv, Cost, FilesWhole
<1> QED
  BY <1>2, <1>3, <1>4, <1>5, <1>6, <1>7, <1>8, <1>9, <1>10, <1>11, <1>12 DEF StoreInv

\* A command crashes, or one of its calls fails.
LEMMA StopStep ==
    ASSUME StoreInv, Stop
    PROVE  StoreInv'
<1>1. /\ pc' = "idle" /\ outcome' = "error" /\ Exit /\ call' = "quiet"
      /\ mishaps < MaxMishaps /\ mishaps' = mishaps + 1
      /\ UNCHANGED <<reg, conf, account, cmd, asked, named, load, seen, ident, saves, kept>>
  BY DEF Stop, Return, Mishap, Exit, fileVars, cmdVars
<1>2. ClientInv'
  BY <1>1, ExitClient
<1>3. FileTypes'
  BY <1>1 DEF StoreInv, FileTypes
<1>4. CommandTypes'
  BY <1>1 DEF StoreInv, CommandTypes
<1>5. NamedType'
  BY <1>1 DEF StoreInv, NamedType
<1>6. MemoryTypes'
  BY <1>1, StoreAssumption DEF StoreInv, MemoryTypes
<1>7. Phases'
  BY <1>1 DEF Requests, Phases, Working
<1>8. Registered'
  BY <1>1 DEF StoreInv, Registered, Working
<1>9. Saved'
  BY <1>1 DEF Saved
<1>10. Calm'
  BY <1>1 DEF StoreInv, MemoryTypes, Calm
<1>11. Agree'
  BY <1>1 DEF StoreInv, MemoryTypes, Calm, Agree, Saved, FilesWhole, Working
<1>12. Cost'
  BY <1>1 DEF StoreInv, MemoryTypes, Cost
<1> QED
  BY <1>2, <1>3, <1>4, <1>5, <1>6, <1>7, <1>8, <1>9, <1>10, <1>11, <1>12 DEF StoreInv

\* The API closes the connection that was kept.
LEMMA DropStep ==
    ASSUME StoreInv, Drop
    PROVE  StoreInv'
<1>1. /\ KeptCloses /\ call' = call
      /\ UNCHANGED <<reg, conf, account, cmd, asked, named, pc, load, seen, ident, saves,
                     outcome, kept, mishaps>>
  BY DEF Drop, KeptCloses, storeVars, fileVars, cmdVars
<1>2. clients' = clients
  BY <1>1, ApiSteps DEF StoreInv
<1>3. ClientInv'
  BY <1>1, ApiSteps DEF StoreInv
<1>4. FileTypes'
  BY <1>1 DEF StoreInv, FileTypes
<1>5. CommandTypes'
  BY <1>1 DEF StoreInv, CommandTypes
<1>6. NamedType'
  BY <1>1 DEF StoreInv, NamedType
<1>7. MemoryTypes'
  BY <1>1 DEF StoreInv, MemoryTypes
<1>8. Phases'
  BY <1>1, <1>2 DEF StoreInv, Phases, Working
<1>9. Registered'
  BY <1>1 DEF StoreInv, Registered, Working
<1>10. Saved'
  BY <1>1 DEF StoreInv, Saved, FilesAre
<1>11. Calm'
  BY <1>1 DEF StoreInv, Calm, FilesWhole, Working
<1>12. Agree'
  BY <1>1 DEF StoreInv, Agree, FilesWhole, Working
<1>13. Cost'
  BY <1>1 DEF StoreInv, Cost, FilesWhole
<1> QED
  BY <1>3, <1>4, <1>5, <1>6, <1>7, <1>8, <1>9, <1>10, <1>11, <1>12, <1>13 DEF StoreInv

\* A load fails, for a mishap or because the files are not whole: the command
\* gives up, loads once more, or registers a device.
LEMMA LoadFailsStep ==
    ASSUME StoreInv, pc \in {"reg", "conf"}, LoadFails,
           seen' \in {seen, reg},
           (mishaps' = mishaps /\ ~FilesWhole) \/ Mishap,
           UNCHANGED <<reg, conf, account, cmd, asked, named, ident, saves, kept>>
    PROVE  StoreInv'
<1>1. call = "quiet" /\ mishaps \in 0 .. MaxMishaps /\ mishaps' \in {mishaps, mishaps + 1}
      /\ mishaps' \in 0 .. MaxMishaps
  BY StoreAssumption DEF StoreInv, Phases, Requests, MemoryTypes, Mishap
<1>2. \/ /\ pc' = "reg" /\ load' = 2 /\ outcome' = outcome /\ NewWarpAPI
      \/ /\ pc' = "register" /\ load = 2 /\ load' = 2 /\ outcome' = outcome /\ UNCHANGED apiVars
      \/ /\ pc' = "idle" /\ load' = load /\ outcome' = "error" /\ Exit
  BY DEF LoadFails, CreateOrUpdateIdentity, Return
<1>3. /\ ClientInv' /\ call' = "quiet"
      /\ pc' # "idle" => clients' >= 1 /\ load' = 2
  BY <1>1, <1>2, NewClient, ExitClient, SameClient
  DEF StoreInv, Phases, NewWarpAPI, Exit, apiVars
<1>4. /\ pc' \in {"idle", "reg", "register"} /\ load' \in 1 .. 2
      /\ outcome' \in {outcome, "error"} /\ pc' = "idle" => outcome' = "error"
  BY <1>2 DEF StoreInv, CommandTypes
<1>5. ClientInv'
  BY <1>3
<1>6. FileTypes'
  BY DEF StoreInv, FileTypes
<1>7. CommandTypes'
  BY <1>4 DEF StoreInv, FileTypes, CommandTypes, Requests
<1>8. NamedType'
  BY DEF StoreInv, NamedType
<1>9. MemoryTypes'
  BY <1>1, <1>2 DEF StoreInv, MemoryTypes
<1>10. Phases'
  BY <1>3, <1>4 DEF Requests, Phases, Working
<1>11. Registered'
  BY <1>3, <1>4 DEF StoreInv, Registered, Working
<1>12. Saved'
  BY <1>2 DEF Saved
<1>13. Calm'
  BY <1>1, <1>3, <1>4 DEF StoreInv, Calm, Working, Mishap
<1>14. Agree'
  BY <1>1, <1>3, <1>4 DEF StoreInv, Agree, FilesWhole, Working
<1>15. Cost'
  BY <1>1 DEF StoreInv, Cost, Mishap
<1> QED
  BY <1>5, <1>6, <1>7, <1>8, <1>9, <1>10, <1>11, <1>12, <1>13, <1>14, <1>15 DEF StoreInv

\* A load has read both files: they are whole, and what the command goes on
\* with is what they hold.
LEMMA LoadedStep ==
    ASSUME StoreInv, pc = "conf", Parses,
           ident' = [key |-> seen, dev |-> conf.dev, lic |-> conf.lic], Loaded(ident'),
           UNCHANGED <<reg, conf, account, cmd, asked, named, seen, mishaps>>
    PROVE  StoreInv'
<1>1. FilesWhole /\ seen = reg /\ call = "quiet"
  BY DEF StoreInv, Phases, Requests, FileTypes, Parses, FilesWhole
<1>2. /\ ident' \in Identity /\ ident'.key = reg /\ ident'.dev = conf.dev /\ ident'.lic = conf.lic
      /\ conf = [dev |-> conf.dev, lic |-> conf.lic]
  BY <1>1 DEF FilesWhole, Conf, Identity
<1>3. \/ /\ pc' = "idle" /\ outcome' = "ok" /\ kept' = ident' /\ Exit
         /\ UNCHANGED <<load, saves>>
      \/ /\ pc' \in {"device", "name", "license"} /\ NewWarpAPI
         /\ UNCHANGED <<load, saves, outcome, kept>>
      \/ /\ load = 2 /\ UNCHANGED <<load, outcome, kept>> /\ UNCHANGED apiVars
         /\ \/ pc' = "update" /\ saves' = saves
            \/ pc' = "truncReg" /\ saves' = 1
  BY DEF Loaded, Succeed, Return, Save
<1>4. /\ ClientInv' /\ call' = "quiet"
      /\ pc' # "idle" => clients' >= 1
  BY <1>1, <1>3, NewClient, ExitClient, SameClient
  DEF StoreInv, Phases, NewWarpAPI, Exit, apiVars
<1>5. /\ pc' \in {"idle", "device", "name", "license", "update", "truncReg"} /\ load' = load
      /\ saves' \in {saves, 1} /\ (pc' = "truncReg" => saves' = 1)
      /\ outcome' \in {outcome, "ok"} /\ kept' \in {kept, ident'}
      /\ pc' = "idle" => outcome' = "ok" /\ kept' = ident'
  BY <1>3
<1>6. ClientInv'
  BY <1>4
<1>7. FileTypes'
  BY DEF StoreInv, FileTypes
<1>8. CommandTypes'
  BY <1>5 DEF StoreInv, CommandTypes, Requests
<1>9. NamedType'
  BY DEF StoreInv, NamedType
<1>10. MemoryTypes'
  BY <1>2, <1>5 DEF StoreInv, MemoryTypes
<1>11. Phases'
  BY <1>2, <1>4, <1>5 DEF Requests, Phases
<1>12. Registered'
  BY <1>1 DEF StoreInv, Registered, FilesWhole
<1>13. Saved'
  BY <1>2, <1>5 DEF Saved, FilesAre
<1>14. Calm'
  BY <1>1, <1>5, StoreAssumption DEF StoreInv, Calm, FilesWhole, FilesWhole
<1>15. Agree'
  BY <1>1 DEF StoreInv, Agree
<1>16. Cost'
  BY <1>5 DEF StoreInv, Cost, FilesWhole, FilesWhole
<1> QED
  BY <1>6, <1>7, <1>8, <1>9, <1>10, <1>11, <1>12, <1>13, <1>14, <1>15, <1>16
  DEF StoreInv

\* The first file is read.
LEMMA ReadRegStep ==
    ASSUME StoreInv, ReadReg
    PROVE  StoreInv'
<1>0. /\ pc = "reg" /\ seen' = reg
      /\ UNCHANGED <<reg, conf, account, cmd, asked, named, ident, saves, kept>>
  BY DEF ReadReg, fileVars, cmdVars
<1>1. CASE /\ None \notin {reg, conf} /\ pc' = "conf"
           /\ UNCHANGED <<load, outcome, mishaps>> /\ UNCHANGED apiVars
  <2>1. ClientInv' /\ call' = call /\ clients' = clients
    BY <1>1, SameClient DEF StoreInv, apiVars
  <2>2. FileTypes' /\ CommandTypes' /\ MemoryTypes'
    BY <1>0, <1>1 DEF StoreInv, FileTypes, CommandTypes, MemoryTypes
  <2>3. NamedType'
    BY <1>0 DEF StoreInv, NamedType
  <2>4. Phases' /\ Registered' /\ Saved'
    BY <1>0, <1>1, <2>1 DEF StoreInv, Phases, Registered, Saved, Working, Requests
  <2>5. Calm'
    BY <1>0, <1>1 DEF StoreInv, Calm, Working, FilesWhole
  <2>6. Agree' /\ Cost'
    BY <1>0, <1>1 DEF StoreInv, Agree, Cost, Working, FilesWhole
  <2> QED
    BY <2>1, <2>2, <2>3, <2>4, <2>5, <2>6 DEF StoreInv
<1>2. CASE LoadFails /\ ((mishaps' = mishaps /\ ~FilesWhole) \/ Mishap)
  BY <1>0, <1>2, LoadFailsStep
<1>3. None \in {reg, conf} => ~FilesWhole
  BY StoreAssumption DEF FilesWhole, Conf
<1> QED
  BY <1>1, <1>2, <1>3 DEF ReadReg

\* The second file is read, and both are parsed.
LEMMA ReadConfStep ==
    ASSUME StoreInv, ReadConf
    PROVE  StoreInv'
<1>0. pc = "conf" /\ UNCHANGED <<reg, conf, account, cmd, asked, named, seen>>
  BY DEF ReadConf, fileVars, cmdVars
<1>1. CASE /\ Parses /\ ident' = [key |-> seen, dev |-> conf.dev, lic |-> conf.lic]
           /\ Loaded(ident') /\ UNCHANGED mishaps
  BY <1>0, <1>1, LoadedStep
<1>2. ~Parses => ~FilesWhole
  BY <1>0, StoreAssumption DEF StoreInv, Phases, Parses, FilesWhole, Conf
<1>3. CASE /\ LoadFails /\ UNCHANGED <<ident, saves, kept>>
           /\ (mishaps' = mishaps /\ ~FilesWhole) \/ Mishap
  BY <1>0, <1>3, LoadFailsStep
<1> QED
  BY <1>1, <1>2, <1>3 DEF ReadConf

\* A request gets its connection, or fails to.
LEMMA ConnectStep ==
    ASSUME StoreInv, Connect
    PROVE  StoreInv'
<1>1. pc \in Requests /\ (Connecting \/ DialFails)
      /\ UNCHANGED <<reg, conf, account, cmd, asked, named, pc, load, seen, ident, saves,
                     outcome, kept, mishaps>>
  BY DEF Connect, storeVars, fileVars, cmdVars
<1>2. ClientInv' /\ clients' = clients /\ call' # "body" /\ call # "body"
  BY <1>1, ConnectClient
  DEF StoreInv, Phases, Connecting, DialFails, Request, DialPlain, Handshake,
      DialRefused, HandshakeFails
<1>3. ClientInv'
  BY <1>2
<1>4. FileTypes'
  BY <1>1 DEF StoreInv, FileTypes
<1>5. CommandTypes'
  BY <1>1 DEF StoreInv, CommandTypes
<1>6. NamedType'
  BY <1>1 DEF StoreInv, NamedType
<1>7. MemoryTypes'
  BY <1>1 DEF StoreInv, MemoryTypes
<1>8. Phases'
  BY <1>1, <1>2 DEF StoreInv, Phases, Working
<1>9. Registered'
  BY <1>1, <1>2 DEF StoreInv, Registered, Working
<1>10. Saved'
  BY <1>1 DEF StoreInv, Saved, FilesAre
<1>11. Calm'
  BY <1>1, <1>2 DEF StoreInv, Calm, FilesWhole, Working
<1>12. Agree'
  BY <1>1, <1>2 DEF StoreInv, Agree, FilesWhole, Working
<1>13. Cost'
  BY <1>1, <1>2 DEF StoreInv, Cost, FilesWhole
<1> QED
  BY <1>3, <1>4, <1>5, <1>6, <1>7, <1>8, <1>9, <1>10, <1>11, <1>12, <1>13 DEF StoreInv

\* The API registers a device, and the answer is its identity.
LEMMA RegisterStep ==
    ASSUME StoreInv, Register
    PROVE  StoreInv'
<1>1. pc = "register" /\ Handled /\ call = "send" /\ call' = "body"
      /\ UNCHANGED <<reg, conf, cmd, asked, named, pc, load, seen, saves, outcome, kept, mishaps>>
  BY DEF Register, Handled, fileVars, cmdVars
<1>2. PICK d \in Device \ DOMAIN account :
          /\ account' = [e \in DOMAIN account \cup {d} |-> IF e = d THEN Free ELSE account[e]]
          /\ ident' = [key |-> d, dev |-> d, lic |-> Free]
  BY DEF Register
<1>3. DOMAIN account' = DOMAIN account \cup {d} /\ account'[d] = Free
  BY <1>2
<1>4. ident' \in Identity /\ ident'.key = d /\ ident'.dev = d /\ ident'.lic = Free
  BY <1>2, StoreAssumption DEF Identity
<1>5. IsFiniteSet(DOMAIN account') /\ Cardinality(DOMAIN account') = Cardinality(DOMAIN account) + 1
  BY <1>3, FS_AddElement DEF StoreInv, Cost
<1>6. clients' = clients
  BY <1>1, ApiSteps DEF StoreInv
<1>7. ClientInv'
  BY <1>1, ApiSteps DEF StoreInv
<1>8. FileTypes'
  BY <1>1, <1>2, StoreAssumption DEF StoreInv, FileTypes
<1>9. CommandTypes'
  BY <1>1 DEF StoreInv, CommandTypes
<1>10. NamedType'
  BY <1>1 DEF StoreInv, NamedType
<1>11. MemoryTypes'
  BY <1>1, <1>4 DEF StoreInv, MemoryTypes
<1>12. Phases'
  BY <1>1, <1>4, <1>6 DEF StoreInv, Phases
<1>13. Registered'
  BY <1>1, <1>3, <1>4 DEF StoreInv, Registered
<1>14. Saved'
  BY <1>1 DEF Saved
<1>15. Calm'
  BY <1>1, <1>3, <1>4 DEF StoreInv, Registered, Calm
<1>16. Agree'
  BY <1>1, <1>4 DEF StoreInv, Agree, FilesWhole
<1>17. Cost'
  BY <1>1, <1>5 DEF StoreInv, MemoryTypes, Cost
<1> QED
  BY <1>7, <1>8, <1>9, <1>10, <1>11, <1>12, <1>13, <1>14, <1>15, <1>16, <1>17
  DEF StoreInv

\* The API gives the device the license that was asked for.
LEMMA UpdateAccountStep ==
    ASSUME StoreInv, UpdateAccount
    PROVE  StoreInv'
<1>1. Handled /\ call = "send" /\ call' = "body"
      /\ UNCHANGED <<reg, conf, cmd, asked, named, pc, load, seen, ident, saves, outcome,
                     kept, mishaps>>
  BY DEF UpdateAccount, Handled, storeVars, fileVars, cmdVars
<1>2. pc = "update" /\ account' = [account EXCEPT ![ident.key] = asked]
      /\ DOMAIN account' = DOMAIN account
  BY DEF UpdateAccount
<1>3. clients' = clients
  BY <1>1, ApiSteps DEF StoreInv
<1>4. ClientInv'
  BY <1>1, ApiSteps DEF StoreInv
<1>5. FileTypes'
  BY <1>1, <1>2 DEF StoreInv, FileTypes, CommandTypes
<1>6. CommandTypes'
  BY <1>1 DEF StoreInv, CommandTypes
<1>7. NamedType'
  BY <1>1 DEF StoreInv, NamedType
<1>8. MemoryTypes'
  BY <1>1 DEF StoreInv, MemoryTypes
<1>9. Phases'
  BY <1>1, <1>2, <1>3 DEF StoreInv, Phases, Working
<1>10. Registered'
  BY <1>1, <1>2 DEF StoreInv, Registered, Working
<1>11. Saved'
  BY <1>1, <1>2 DEF Saved
<1>12. Calm'
  BY <1>1, <1>2 DEF StoreInv, Calm, Working
<1>13. Agree'
  BY <1>1, <1>2 DEF StoreInv, Agree, FilesWhole, Working
<1>14. Cost'
  BY <1>1, <1>2 DEF StoreInv, Cost
<1> QED
  BY <1>4, <1>5, <1>6, <1>7, <1>8, <1>9, <1>10, <1>11, <1>12, <1>13, <1>14 DEF StoreInv

\* The API tells the license of the device.
LEMMA GetAccountStep ==
    ASSUME StoreInv, GetAccount
    PROVE  StoreInv'
<1>1. Handled /\ call = "send" /\ call' = "body"
      /\ UNCHANGED <<reg, conf, account, cmd, asked, named, pc, load, seen, saves, outcome,
                     kept, mishaps>>
  BY DEF GetAccount, Handled, storeVars, fileVars, cmdVars
<1>2. pc = "account" /\ ident' = [ident EXCEPT !.lic = account[ident.key]]
  BY DEF GetAccount, Fetched
<1>3. /\ ident \in Identity /\ ident' \in Identity /\ ident'.key = ident.key
      /\ ident'.dev = ident.dev
      /\ ident'.lic = account[ident.key]
  BY <1>2 DEF StoreInv, Phases, Registered, FileTypes, Working, Identity
<1>4. clients' = clients
  BY <1>1, ApiSteps DEF StoreInv
<1>5. ClientInv'
  BY <1>1, ApiSteps DEF StoreInv
<1>6. FileTypes'
  BY <1>1 DEF StoreInv, FileTypes
<1>7. CommandTypes'
  BY <1>1 DEF StoreInv, CommandTypes
<1>8. NamedType'
  BY <1>1 DEF StoreInv, NamedType
<1>9. MemoryTypes'
  BY <1>1, <1>3 DEF StoreInv, MemoryTypes
<1>10. Phases'
  BY <1>1, <1>3, <1>4 DEF StoreInv, Phases
<1>11. Registered'
  BY <1>1, <1>2 DEF StoreInv, Registered, Working
<1>12. Saved'
  BY <1>1, <1>2 DEF Saved
<1>13. Calm'
  BY <1>1, <1>2 DEF StoreInv, Calm, Working
<1>14. Agree'
  BY <1>1, <1>2 DEF StoreInv, Agree, FilesWhole, Working
<1>15. Cost'
  BY <1>1, <1>2 DEF StoreInv, Cost
<1> QED
  BY <1>5, <1>6, <1>7, <1>8, <1>9, <1>10, <1>11, <1>12, <1>13, <1>14, <1>15 DEF StoreInv

\* The API handles a request that changes nothing.
LEMMA OtherRequestStep ==
    ASSUME StoreInv, OtherRequest
    PROVE  StoreInv'
<1>1. Handled /\ call = "send" /\ call' = "body"
      /\ UNCHANGED <<reg, conf, account, cmd, asked, named, pc, load, seen, ident, saves,
                     outcome, kept, mishaps>>
  BY DEF OtherRequest, Handled, storeVars, fileVars, cmdVars
<1>2. pc \in {"name", "device", "devices"}
  BY DEF OtherRequest
<1>3. clients' = clients
  BY <1>1, ApiSteps DEF StoreInv
<1>4. ClientInv'
  BY <1>1, ApiSteps DEF StoreInv
<1>5. FileTypes'
  BY <1>1 DEF StoreInv, FileTypes
<1>6. CommandTypes'
  BY <1>1 DEF StoreInv, CommandTypes
<1>7. NamedType'
  BY <1>1 DEF StoreInv, NamedType
<1>8. MemoryTypes'
  BY <1>1 DEF StoreInv, MemoryTypes
<1>9. Phases'
  BY <1>1, <1>2, <1>3 DEF StoreInv, Phases, Working
<1>10. Registered'
  BY <1>1, <1>2 DEF StoreInv, Registered, Working
<1>11. Saved'
  BY <1>1 DEF StoreInv, Saved, FilesAre
<1>12. Calm'
  BY <1>1, <1>2 DEF StoreInv, Calm, Working
<1>13. Agree'
  BY <1>1, <1>2 DEF StoreInv, Agree, FilesWhole, Working
<1>14. Cost'
  BY <1>1, <1>2 DEF StoreInv, Cost
<1> QED
  BY <1>4, <1>5, <1>6, <1>7, <1>8, <1>9, <1>10, <1>11, <1>12, <1>13, <1>14 DEF StoreInv

\* The command takes the answer, and goes on.
LEMMA TakeAnswerStep ==
    ASSUME StoreInv, TakeAnswer
    PROVE  StoreInv'
<1>1. call = "body" /\ UNCHANGED <<reg, conf, account, cmd, asked, named, seen, ident, mishaps>>
  BY DEF TakeAnswer, Answered, fileVars, cmdVars
<1>2. \/ /\ Answered /\ UNCHANGED <<load, outcome, kept>>
         /\ \/ pc = "register" /\ pc' = "update" /\ saves' = saves
            \/ pc = "register" /\ pc' = "truncReg" /\ saves' = 1
            \/ pc = "update" /\ pc' = "account" /\ saves' = saves
            \/ pc = "account" /\ pc' = "truncReg" /\ saves' = 2
            \/ pc = "device" /\ pc' = "devices" /\ saves' = saves
            \/ pc = "name" /\ pc' = "license" /\ saves' = saves
      \/ /\ pc = "devices" /\ pc' = "idle" /\ outcome' = "ok" /\ kept' = ident /\ Exit
         /\ UNCHANGED <<load, saves>>
  BY DEF TakeAnswer, AfterRegister, Save, Succeed, Return
<1>3. ClientInv' /\ call' = "quiet" /\ (pc' # "idle" => clients' = clients)
  BY <1>2, ApiSteps, ExitClient DEF StoreInv, Answered, Exit
<1>4. /\ pc' \in {"update", "truncReg", "account", "devices", "license", "idle"}
      /\ load' = load /\ saves' \in {saves, 1, 2} /\ outcome' \in {outcome, "ok"}
      /\ kept' \in {kept, ident}
  BY <1>2
<1>5. Working /\ ident \in Identity
  BY <1>1, <1>2 DEF StoreInv, Phases, Working
<1>6. ClientInv'
  BY <1>3
<1>7. FileTypes'
  BY <1>1 DEF StoreInv, FileTypes
<1>8. CommandTypes'
  BY <1>1, <1>4 DEF StoreInv, CommandTypes, Requests
<1>9. NamedType'
  BY <1>1 DEF StoreInv, NamedType
<1>10. MemoryTypes'
  BY <1>1, <1>4 DEF StoreInv, MemoryTypes
<1>11. Phases'
  BY <1>1, <1>2, <1>3, <1>5 DEF StoreInv, Requests, Phases
<1>12. Registered'
  BY <1>1, <1>5 DEF StoreInv, Registered
<1>13. Saved'
  BY <1>1, <1>2, <1>5 DEF StoreInv, Saved, FilesAre
<1>14. Calm'
  BY <1>1, <1>2, <1>3, <1>5, StoreAssumption
  DEF StoreInv, FileTypes, CommandTypes, MemoryTypes, Requests, Phases, Registered,
      Saved, Calm, FilesAre, FilesWhole
<1>15. Agree'
  BY <1>1, <1>2, <1>5 DEF StoreInv, Agree, FilesWhole
<1>16. Cost'
  BY <1>1, <1>2, <1>5 DEF StoreInv, Cost, Saved, FilesAre, FilesWhole, Identity, Conf
<1> QED
  BY <1>6, <1>7, <1>8, <1>9, <1>10, <1>11, <1>12, <1>13, <1>14, <1>15, <1>16
  DEF StoreInv

\* After the name, update goes on with the license or saves the identity.
LEMMA UpdateLicenseStep ==
    ASSUME StoreInv, UpdateLicense
    PROVE  StoreInv'
<1>1. pc = "license" /\ call = "quiet"
      /\ UNCHANGED <<reg, conf, account, cmd, asked, named, seen, ident, outcome, kept, mishaps>>
  BY DEF UpdateLicense, fileVars, cmdVars, StoreInv, Phases, Requests
<1>2. \/ pc' = "reg" /\ load' = 2 /\ saves' = saves /\ NewWarpAPI
      \/ pc' = "truncReg" /\ saves' = 1 /\ load' = load /\ UNCHANGED apiVars
  BY DEF UpdateLicense, CreateOrUpdateIdentity, Save
<1>3. ClientInv' /\ call' = "quiet" /\ (pc' = "reg" => clients' >= 1)
  BY <1>1, <1>2, NewClient, SameClient DEF StoreInv, NewWarpAPI, apiVars
<1>4. ClientInv'
  BY <1>3
<1>5. FileTypes'
  BY <1>1 DEF StoreInv, FileTypes, Identity
<1>6. CommandTypes'
  BY <1>1, <1>2 DEF StoreInv, CommandTypes
<1>7. NamedType'
  BY <1>1 DEF StoreInv, NamedType, Identity, Conf
<1>8. MemoryTypes'
  BY <1>1, <1>2 DEF StoreInv, MemoryTypes
<1>9. Phases'
  BY <1>1, <1>2, <1>3 DEF StoreInv, Requests, Phases, Working
<1>10. Registered'
  BY <1>1 DEF StoreInv, Registered, Working
<1>11. Saved'
  BY <1>2 DEF Saved
<1>12. Calm'
  BY <1>1, <1>2
  DEF StoreInv, Phases, Saved, Calm, FilesAre, FilesWhole, Working, Identity, Conf
<1>13. Agree'
  BY <1>1 DEF StoreInv, Agree, FilesWhole, Working
<1>14. Cost'
  BY <1>1, <1>2
  DEF StoreInv, Phases, Cost, Saved, FilesAre, FilesWhole, Working, Identity, Conf
<1> QED
  BY <1>4, <1>5, <1>6, <1>7, <1>8, <1>9, <1>10, <1>11, <1>12, <1>13, <1>14 DEF StoreInv

\* A file is truncated.
LEMMA TruncateStep ==
    ASSUME StoreInv, Truncate
    PROVE  StoreInv'
<1>1. UNCHANGED <<account, cmd, asked, named, load, seen, ident, saves, outcome, kept,
                  mishaps>>
      /\ UNCHANGED apiVars /\ call' = call /\ clients' = clients
  BY DEF Truncate, apiVars, fileVars, cmdVars
<1>2. \/ pc = "truncReg" /\ reg' = Partial /\ pc' = "writeReg" /\ conf' = conf
      \/ pc = "truncConf" /\ conf' = Partial /\ pc' = "writeConf" /\ reg' = reg
  BY DEF Truncate
<1>3. ClientInv'
  BY <1>1, SameClient DEF StoreInv
<1>4. FileTypes'
  BY <1>1, <1>2 DEF StoreInv, FileTypes
<1>5. CommandTypes'
  BY <1>1, <1>2 DEF StoreInv, CommandTypes
<1>6. NamedType'
  BY <1>1 DEF StoreInv, NamedType, Conf
<1>7. MemoryTypes'
  BY <1>1 DEF StoreInv, MemoryTypes, Conf
<1>8. Phases'
  BY <1>1, <1>2 DEF StoreInv, Requests, Phases, Working
<1>9. Registered'
  BY <1>1, <1>2, StoreAssumption DEF StoreInv, Registered, Working, Conf
<1>10. Saved'
  BY <1>1, <1>2 DEF StoreInv, Saved
<1>11. Calm'
  BY <1>1, <1>2, StoreAssumption DEF StoreInv, Calm, Working, Conf
<1>12. Agree'
  BY <1>1, <1>2, StoreAssumption DEF StoreInv, Agree, FilesWhole, Working, Conf
<1>13. Cost'
  BY <1>1, <1>2 DEF StoreInv, Cost
<1> QED
  BY <1>3, <1>4, <1>5, <1>6, <1>7, <1>8, <1>9, <1>10, <1>11, <1>12, <1>13 DEF StoreInv

\* The first file is written.
LEMMA WriteRegStep ==
    ASSUME StoreInv, WriteReg
    PROVE  StoreInv'
<1>1. UNCHANGED <<conf, account, cmd, asked, named, load, seen, ident, saves, outcome, kept,
                  mishaps>>
      /\ UNCHANGED apiVars /\ call' = call /\ clients' = clients
  BY DEF WriteReg, apiVars, fileVars, cmdVars
<1>2. pc = "writeReg" /\ reg' = ident.key /\ pc' = "truncConf"
  BY DEF WriteReg
<1>3. ident.key \in Device
  BY <1>2 DEF StoreInv, Phases, Working, Identity
<1>4. ClientInv'
  BY <1>1, SameClient DEF StoreInv
<1>5. FileTypes'
  BY <1>1, <1>2, <1>3 DEF StoreInv, FileTypes
<1>6. CommandTypes'
  BY <1>1, <1>2 DEF StoreInv, CommandTypes
<1>7. NamedType'
  BY <1>1 DEF StoreInv, NamedType, Conf
<1>8. MemoryTypes'
  BY <1>1 DEF StoreInv, MemoryTypes, Conf
<1>9. Phases'
  BY <1>1, <1>2 DEF StoreInv, Requests, Phases, Working
<1>10. Registered'
  BY <1>1, <1>2 DEF StoreInv, Registered, Working
<1>11. Saved'
  BY <1>1, <1>2 DEF Saved
<1>12. Calm'
  BY <1>1, <1>2 DEF StoreInv, Calm, Working
<1>13. Agree'
  BY <1>1, <1>2 DEF StoreInv, Agree, Working
<1>14. Cost'
  BY <1>1, <1>2 DEF StoreInv, Cost
<1> QED
  BY <1>4, <1>5, <1>6, <1>7, <1>8, <1>9, <1>10, <1>11, <1>12, <1>13, <1>14 DEF StoreInv

\* The second file is written: the identity is saved, and update may do so once
\* more.
LEMMA WriteConfStep ==
    ASSUME StoreInv, WriteConf
    PROVE  StoreInv'
<1>1. /\ pc = "writeConf" /\ call = "quiet" /\ conf' = [dev |-> ident.dev, lic |-> ident.lic]
      /\ saves' = saves - 1 /\ saves \in 1 .. 2
      /\ UNCHANGED <<reg, account, cmd, asked, named, load, seen, ident, mishaps>>
  BY DEF WriteConf, ConfFile, cmdVars, StoreInv, Phases, MemoryTypes, Requests
<1>2. \/ saves > 1 /\ pc' = "truncReg" /\ UNCHANGED <<outcome, kept>> /\ UNCHANGED apiVars
      \/ pc' = "idle" /\ outcome' = "ok" /\ kept' = ident /\ Exit
  BY DEF WriteConf, Succeed, Return
<1>3. ClientInv' /\ call' = "quiet"
  BY <1>1, <1>2, ExitClient, SameClient DEF StoreInv, apiVars, Exit
<1>4. ident \in Identity /\ conf' \in Conf /\ conf'.dev = ident.dev /\ conf'.lic = ident.lic
  BY <1>1 DEF StoreInv, Phases, Working, Identity, Conf
<1>5. reg = ident.key /\ reg \in Device
  BY <1>1, <1>4 DEF StoreInv, Saved, Identity
<1>6. ClientInv'
  BY <1>3
<1>7. FileTypes'
  BY <1>1, <1>4 DEF StoreInv, FileTypes
<1>8. CommandTypes'
  BY <1>1, <1>2 DEF StoreInv, CommandTypes
<1>9. NamedType'
  BY <1>1 DEF StoreInv, NamedType
<1>10. MemoryTypes'
  BY <1>1, <1>2 DEF StoreInv, MemoryTypes
<1>11. Phases'
  BY <1>1, <1>2, <1>3, <1>4 DEF Requests, Phases
<1>12. Registered'
  BY <1>1 DEF StoreInv, Registered, Working
<1>13. Saved'
  BY <1>1, <1>2, <1>4, <1>5 DEF Saved, FilesAre
<1>14. Calm'
  BY <1>1, <1>2, <1>4, <1>5 DEF StoreInv, Calm, FilesWhole, Working
<1>15. Agree'
  BY <1>1, <1>5 DEF StoreInv, Agree, Working
<1>16. Cost'
  BY <1>1, <1>2, <1>4, <1>5 DEF StoreInv, Cost, FilesWhole
<1> QED
  BY <1>6, <1>7, <1>8, <1>9, <1>10, <1>11, <1>12, <1>13, <1>14, <1>15, <1>16
  DEF StoreInv

\* The invariant holds of a state that begins as the program does.
LEMMA InitStore == Init => StoreInv
<1> SUFFICES ASSUME Init PROVE StoreInv
  OBVIOUS
<1>1. /\ pc = "idle" /\ call = "quiet" /\ load = 1 /\ seen = None /\ ident = None
      /\ kept = None /\ saves = 0 /\ outcome = "none" /\ mishaps = 0 /\ asked = Free
      /\ named = FALSE /\ cmd = "scanner"
  BY DEF Init, Disconnected
<1>2. ClientInv
  BY Dialable DEF Init, Disconnected, ClientInv, ClientTypeOK
<1>3. \/ reg = None /\ conf = None /\ DOMAIN account = {} /\ account \in [{} -> License]
      \/ /\ reg \in Device /\ conf \in Conf /\ conf.dev = reg /\ conf.lic = Free
         /\ DOMAIN account = {reg} /\ account \in [{reg} -> License] /\ account[reg] = Free
  <2>1. CASE reg = None /\ conf = None /\ account = [d \in {} |-> Free]
    BY <2>1
  <2>2. ASSUME NEW d \in Device, reg = d, conf = [dev |-> d, lic |-> Free],
               account = [e \in {d} |-> Free]
        PROVE  /\ reg \in Device /\ conf \in Conf /\ conf.dev = reg /\ conf.lic = Free
               /\ DOMAIN account = {reg} /\ account \in [{reg} -> License] /\ account[reg] = Free
    BY <2>2, StoreAssumption DEF Conf
  <2> QED
    BY <2>2 DEF Init
<1>4. FileTypes
  BY <1>3 DEF FileTypes
<1>5. CommandTypes /\ MemoryTypes
  BY <1>1, StoreAssumption DEF CommandTypes, MemoryTypes, Command
<1>9. NamedType
  BY <1>1 DEF NamedType
<1>6. Phases /\ Saved
  BY <1>1 DEF Phases, Saved, Requests, Working
<1>7. Registered /\ Calm /\ Agree
  BY <1>1, <1>3, StoreAssumption DEF Registered, Calm, Agree, Working, FilesWhole, Conf
<1>8. Cost
  <2>1. CASE DOMAIN account = {}
    <3>1. IsFiniteSet(DOMAIN account) /\ Cardinality(DOMAIN account) = 0
      BY <2>1, FS_EmptySet
    <3> QED
      BY <1>1, <3>1 DEF Cost
  <2>2. CASE FilesWhole /\ DOMAIN account = {reg}
    <3>1. IsFiniteSet(DOMAIN account) /\ Cardinality(DOMAIN account) = 1
      BY <2>2, FS_Singleton
    <3> QED
      BY <1>1, <2>2, <3>1 DEF Cost
  <2> QED
    BY <1>3, <2>1, <2>2 DEF FilesWhole
<1> QED
  BY <1>2, <1>4, <1>5, <1>6, <1>7, <1>8, <1>9 DEF StoreInv

\* Every step, and every stutter, keeps the invariant.
LEMMA StepStore == StoreInv /\ [Next]_vars => StoreInv'
<1> SUFFICES ASSUME StoreInv, [Next]_vars PROVE StoreInv'
  OBVIOUS
<1>1. ASSUME NEW c \in Command, Start(c) PROVE StoreInv'
  BY <1>1, StartStep
<1>2. CASE ReadReg \/ ReadConf \/ Connect \/ Register
  BY <1>2, ReadRegStep, ReadConfStep, ConnectStep, RegisterStep
<1>3. CASE UpdateAccount \/ GetAccount \/ OtherRequest \/ TakeAnswer
  BY <1>3, UpdateAccountStep, GetAccountStep, OtherRequestStep, TakeAnswerStep
<1>4. CASE UpdateLicense \/ Truncate \/ WriteReg \/ WriteConf
  BY <1>4, UpdateLicenseStep, TruncateStep, WriteRegStep, WriteConfStep
<1>5. CASE Stop \/ Drop
  BY <1>5, StopStep, DropStep
<1>6. CASE UNCHANGED vars
  <2>1. UNCHANGED apiVars /\ call' = call /\ clients' = clients
        /\ UNCHANGED <<reg, conf, account, cmd, asked, named, pc, load, seen, ident, saves,
                       outcome, kept, mishaps>>
    BY <1>6 DEF vars, apiVars, storeVars, fileVars, cmdVars
  <2>2. ClientInv'
    BY <2>1, SameClient DEF StoreInv
  <2>3. FileTypes' /\ CommandTypes' /\ NamedType' /\ MemoryTypes'
    BY <2>1 DEF StoreInv, FileTypes, CommandTypes, NamedType, MemoryTypes
  <2>4. Phases' /\ Registered' /\ Saved'
    BY <2>1 DEF StoreInv, Phases, Registered, Saved, FilesAre, Working
  <2>5. Calm' /\ Agree' /\ Cost'
    BY <2>1 DEF StoreInv, Calm, Agree, Cost, FilesWhole, Working
  <2> QED
    BY <2>2, <2>3, <2>4, <2>5 DEF StoreInv
<1> QED
  BY <1>1, <1>2, <1>3, <1>4, <1>5, <1>6 DEF Next, Run

-----------------------------------------------------------------------------
(* The theorems.                                                           *)

\* The invariant holds in every state, wherever commands crash or fail.
THEOREM StoreInvariant == Spec => []StoreInv
  BY InitStore, StepStore, PTL DEF Spec

\* The variables have their types.
THEOREM StoreTypes == Spec => []TypeOK
<1>1. StoreInv => TypeOK
  BY DEF StoreInv, TypeOK, FileTypes, CommandTypes, NamedType, MemoryTypes, ClientInv
<1> QED
  BY <1>1, StoreInvariant, PTL

\* No command works with the keys of one device and the configuration of another
\* before a second mishap.
THEOREM IdentityIsWhole == Spec => []WholeIdentity
<1>1. StoreInv => WholeIdentity
  BY DEF StoreInv, Agree, WholeIdentity
<1> QED
  BY <1>1, StoreInvariant, PTL

\* A command that succeeds leaves in the directory what it worked with.
THEOREM UsedIdentityIsSaved == Spec => []UsedIsSaved
<1>1. StoreInv => UsedIsSaved
  BY DEF StoreInv, Saved, FilesAre, UsedIsSaved
<1> QED
  BY <1>1, StoreInvariant, PTL

\* No crash or failure makes the API register more than one device more.
THEOREM MishapsCostOneDevice == Spec => []MishapCostsOneDevice
<1>1. StoreInv => MishapCostsOneDevice
  BY DEF StoreInv, Cost, MishapCostsOneDevice
<1> QED
  BY <1>1, StoreInvariant, PTL

\* While nothing fails there is one device, and the files know the license the
\* API knows.
THEOREM StoreForgetsNothing == Spec => []NothingForgotten
<1>1. ASSUME StoreInv, mishaps = 0, pc = "idle", outcome = "ok"
      PROVE  account = [d \in {kept.key} |-> kept.lic]
  <2>1. kept \in Identity /\ reg = kept.key /\ conf = [dev |-> kept.dev, lic |-> kept.lic]
    BY <1>1 DEF StoreInv, Saved, FilesAre
  <2>2. reg # None
    BY <2>1, StoreAssumption DEF Identity
  <2>3. DOMAIN account = {kept.key} /\ account[kept.key] = kept.lic
    BY <1>1, <2>1, <2>2 DEF StoreInv, Calm
  <2> QED
    BY <1>1, <2>3 DEF StoreInv, FileTypes
<1>2. StoreInv => NothingForgotten
  BY <1>1 DEF NothingForgotten
<1> QED
  BY <1>2, StoreInvariant, PTL

\* Requests travel over connections whose handshake was completed, and nothing
\* stays open but one connection of each client.
THEOREM ClientKeepsConnections == Spec => []ConnectionsKept
<1>1. StoreInv => ConnectionsKept
  BY DEF StoreInv, ClientInv, ClientTypeOK, ConnectionsKept
<1> QED
  BY <1>1, StoreInvariant, PTL
=============================================================================
