--------------------------- MODULE IdentityStore ---------------------------
(***************************************************************************)
(* The WARP identity in one directory (cloudflare/identity.go): reg.json   *)
(* has the device and its keys, conf.json the account and configuration    *)
(* the API gave that device.  Commands run one after another and load,     *)
(* create, update and save it; each may crash or fail at any step, and     *)
(* os.WriteFile truncates a file before it writes it.  The requests go     *)
(* through an ApiClient.                                                   *)
(*                                                                         *)
(* A file is missing (None), incomplete (Partial: it does not parse) or    *)
(* whole.  An identity in memory is what the two files hold together.      *)
(***************************************************************************)
EXTENDS ApiClient, FiniteSets

CONSTANTS Device,      \* devices the API can register
          License,     \* license keys
          Free,        \* the license of a new device
          None, Partial,
          MaxMishaps   \* bound: crashes and failures in a behaviour

ASSUME StoreAssumption ==
    /\ Free \in License /\ MaxMishaps \in Nat
    /\ None # Partial /\ {None, Partial} \cap Device = {}
    /\ {None, Partial} \cap [dev : Device, lic : License] = {}

VARIABLES
    reg,       \* reg.json: the device whose keys it has
    conf,      \* conf.json: the device and license it is about
    account,   \* the API: registered device -> its license
    cmd,       \* the command that runs, or ran last
    asked,     \* the license update was given; Free: none
    named,     \* update was given a name too
    pc,        \* the step it is at; idle: it has returned
    load,      \* which call of LoadIdentity it is in
    seen,      \* what that call read of reg.json
    ident,     \* the identity in memory
    saves,     \* how often it will still save the identity
    outcome,   \* how the last command ended
    kept,      \* history: the identity of the last command that succeeded
    mishaps    \* history: crashes and failures

fileVars == <<reg, conf>>
cmdVars  == <<cmd, asked, named>>
storeVars == <<fileVars, account, cmdVars, pc, load, seen, ident, saves, outcome, kept, mishaps>>
vars == <<storeVars, apiVars>>

Conf == [dev : Device, lic : License]
Identity == [key : Device, dev : Device, lic : License]

\* generate, run and rotate end up in LoadOrCreateIdentity; update is given a
\* name, a license or both; scanner only looks at the files.
Command == {"generate", "update", "status", "scanner"}

\* The steps that are requests of the API.
Requests == {"register", "update", "account", "name", "device", "devices"}

Init ==
    /\ \/ reg = None /\ conf = None /\ account = [d \in {} |-> Free]
       \/ \E d \in Device : /\ reg = d /\ conf = [dev |-> d, lic |-> Free]
                            /\ account = [e \in {d} |-> Free]
    /\ cmd = "scanner" /\ asked = Free /\ named = FALSE
    /\ pc = "idle" /\ load = 1 /\ seen = None /\ ident = None /\ saves = 0
    /\ outcome = "none" /\ kept = None /\ mishaps = 0
    /\ Disconnected

-----------------------------------------------------------------------------
Start(c) ==
    /\ pc = "idle"
    /\ cmd' = c
    /\ IF c = "update"
       THEN /\ asked' \in License /\ named' \in BOOLEAN
            /\ named' \/ asked' # Free
       ELSE asked' = Free /\ named' = FALSE
    /\ pc' = "reg" /\ load' = 1
    /\ UNCHANGED <<fileVars, account, seen, ident, saves, outcome, kept, mishaps, apiVars>>

\* The command returns, and with it its process.
Return(result) ==
    /\ pc' = "idle"
    /\ outcome' = result
    /\ Exit

\* The command returns without an error, and has used the identity i.
Succeed(i) == Return("ok") /\ kept' = i

Mishap == mishaps < MaxMishaps /\ mishaps' = mishaps + 1

\* CreateOrUpdateIdentity makes a client and loads the identity (again).
CreateOrUpdateIdentity ==
    /\ pc' = "reg" /\ load' = 2
    /\ NewWarpAPI

\* What a command does when LoadIdentity returns an error.  LoadOrCreateIdentity
\* calls CreateOrUpdateIdentity, which creates when its load fails; the others
\* give up at their own load.
LoadFails ==
    \/ cmd = "generate" /\ load = 1 /\ CreateOrUpdateIdentity /\ UNCHANGED outcome
    \/ load = 2 /\ pc' = "register" /\ UNCHANGED <<load, outcome, apiVars>>
    \/ cmd # "generate" /\ load = 1 /\ Return("error") /\ UNCHANGED load

Save(n) == pc' = "truncReg" /\ saves' = n

\* What a command does with an identity i that was loaded.
Loaded(i) ==
    \/ /\ cmd \in {"generate", "scanner"}
       /\ Succeed(i) /\ UNCHANGED <<load, saves>>
    \/ /\ cmd = "status" /\ pc' = "device"
       /\ NewWarpAPI /\ UNCHANGED <<load, saves, outcome, kept>>
    \/ /\ cmd = "update" /\ load = 1
       /\ pc' = IF named THEN "name" ELSE "license"
       /\ NewWarpAPI /\ UNCHANGED <<load, saves, outcome, kept>>
    \/ /\ cmd = "update" /\ load = 2
       /\ IF i.lic # asked THEN pc' = "update" /\ UNCHANGED saves ELSE Save(1)
       /\ UNCHANGED <<load, outcome, kept, apiVars>>

\* LoadIdentity: both files must exist, and reg.json is read.
ReadReg ==
    /\ pc = "reg"
    /\ seen' = reg
    /\ \/ /\ None \notin {reg, conf}
          /\ pc' = "conf" /\ UNCHANGED <<load, outcome, mishaps, apiVars>>
       \/ None \in {reg, conf} /\ LoadFails /\ UNCHANGED mishaps
       \/ Mishap /\ LoadFails
    /\ UNCHANGED <<fileVars, account, cmdVars, ident, saves, kept>>

\* Mutant: the errors of json.Unmarshal are not looked at in reg.json.
ParsesLoosely == conf # Partial

Parses == Partial \notin {seen, conf}

\* conf.json is read, and both are parsed.
ReadConf ==
    /\ pc = "conf"
    /\ \/ /\ Parses
          /\ ident' = [key |-> seen, dev |-> conf.dev, lic |-> conf.lic]
          /\ Loaded(ident')
          /\ UNCHANGED mishaps
       \/ ~Parses /\ LoadFails /\ UNCHANGED <<ident, saves, kept, mishaps>>
       \/ Mishap /\ LoadFails /\ UNCHANGED <<ident, saves, kept>>
    /\ UNCHANGED <<fileVars, account, cmdVars, seen>>

-----------------------------------------------------------------------------
(* The requests: each is connected, handled by the API and answered.       *)

Connect ==
    /\ pc \in Requests
    /\ \/ Connecting
       \/ mishaps < MaxMishaps /\ DialFails
    /\ UNCHANGED storeVars

\* A new device; the answer will be its identity.
Register ==
    /\ pc = "register" /\ Handled
    /\ \E d \in Device \ DOMAIN account :
          /\ account' = [e \in DOMAIN account \cup {d} |->
                           IF e = d THEN Free ELSE account[e]]
          /\ ident' = [key |-> d, dev |-> d, lic |-> Free]
    /\ UNCHANGED <<fileVars, cmdVars, pc, load, seen, saves, outcome, kept, mishaps>>

\* Authorised by the token of reg.json.
UpdateAccount ==
    /\ pc = "update" /\ Handled
    /\ account' = [account EXCEPT ![ident.key] = asked]
    /\ UNCHANGED <<fileVars, cmdVars, pc, load, seen, ident, saves, outcome, kept, mishaps>>

\* Mutant: the account is not asked for again.
FetchedBefore == ident.lic

Fetched == account[ident.key]

GetAccount ==
    /\ pc = "account" /\ Handled
    /\ ident' = [ident EXCEPT !.lic = Fetched]
    /\ UNCHANGED <<fileVars, account, cmdVars, pc, load, seen, saves, outcome, kept, mishaps>>

\* UpdateSourceDevice changes the name of the device, which no file holds;
\* GetSourceDevice and GetSourceBoundDevice change nothing.
OtherRequest ==
    /\ pc \in {"name", "device", "devices"} /\ Handled
    /\ UNCHANGED storeVars

\* CreateIdentity: the license that update was given comes next.
AfterRegister ==
    IF asked # Free THEN pc' = "update" /\ UNCHANGED saves ELSE Save(1)

\* What the command does with the answer.  After the account has been fetched
\* CreateOrUpdateIdentity saves the identity, and update does so once more.
TakeAnswer ==
    /\ \/ Answered /\ pc = "register" /\ AfterRegister /\ UNCHANGED <<load, outcome, kept>>
       \/ Answered /\ pc = "update" /\ pc' = "account" /\ UNCHANGED <<load, saves, outcome, kept>>
       \/ Answered /\ pc = "account" /\ Save(2) /\ UNCHANGED <<load, outcome, kept>>
       \/ Answered /\ pc = "device" /\ pc' = "devices" /\ UNCHANGED <<load, saves, outcome, kept>>
       \/ call = "body" /\ pc = "devices" /\ Succeed(ident) /\ UNCHANGED <<load, saves>>
       \/ Answered /\ pc = "name" /\ pc' = "license" /\ UNCHANGED <<load, saves, outcome, kept>>
    /\ UNCHANGED <<fileVars, account, cmdVars, seen, ident, mishaps>>

\* What update does after the name.
UpdateLicense ==
    /\ pc = "license"
    /\ IF asked # Free THEN CreateOrUpdateIdentity /\ UNCHANGED saves
                       ELSE Save(1) /\ UNCHANGED <<load, apiVars>>
    /\ UNCHANGED <<fileVars, account, cmdVars, seen, ident, outcome, kept, mishaps>>

-----------------------------------------------------------------------------
(* saveIdentityToDir and SaveIdentity: each WriteFile truncates and writes. *)

Truncate ==
    /\ \/ pc = "truncReg"  /\ reg' = Partial  /\ pc' = "writeReg"  /\ UNCHANGED conf
       \/ pc = "truncConf" /\ conf' = Partial /\ pc' = "writeConf" /\ UNCHANGED reg
    /\ UNCHANGED <<account, cmdVars, load, seen, ident, saves, outcome, kept, mishaps, apiVars>>

WriteReg ==
    /\ pc = "writeReg"
    /\ reg' = ident.key
    /\ pc' = "truncConf"
    /\ UNCHANGED <<conf, account, cmdVars, load, seen, ident, saves, outcome, kept, mishaps,
                   apiVars>>

\* Mutants: the configuration without the account; no configuration at all.
ConfUnlicensed == [dev |-> ident.dev, lic |-> Free]
ConfMissing == Partial

ConfFile == [dev |-> ident.dev, lic |-> ident.lic]

WriteConf ==
    /\ pc = "writeConf"
    /\ conf' = ConfFile
    /\ saves' = saves - 1
    /\ IF saves > 1 THEN pc' = "truncReg" /\ UNCHANGED <<outcome, kept, apiVars>>
                    ELSE Succeed(ident)
    /\ UNCHANGED <<reg, account, cmdVars, load, seen, ident, mishaps>>

-----------------------------------------------------------------------------
\* The process crashes, or a call fails: it ends where it is, and what it has
\* written so far stays.  A request may fail after the API has handled it.
Stop ==
    /\ pc # "idle"
    /\ Mishap
    /\ Return("error")
    /\ UNCHANGED <<fileVars, account, cmdVars, load, seen, ident, saves, kept>>

\* A connection that the latest client keeps closes meanwhile.
Drop == KeptCloses /\ UNCHANGED storeVars

Run == \/ ReadReg \/ ReadConf \/ Connect \/ Register \/ UpdateAccount \/ GetAccount
       \/ OtherRequest \/ TakeAnswer
       \/ UpdateLicense \/ Truncate \/ WriteReg \/ WriteConf

Next == (\E c \in Command : Start(c)) \/ Run \/ Stop \/ Drop

Spec == Init /\ [][Next]_vars

-----------------------------------------------------------------------------
\* The variables have their types.
TypeOK ==
    /\ reg \in Device \cup {None, Partial} /\ conf \in Conf \cup {None, Partial}
    /\ DOMAIN account \subseteq Device /\ account \in [DOMAIN account -> License]
    /\ ClientTypeOK
    /\ cmd \in Command /\ asked \in License /\ named \in BOOLEAN
    /\ pc \in Requests \cup {"idle", "reg", "conf", "license",
                           "truncReg", "writeReg", "truncConf", "writeConf"}
    /\ load \in 1 .. 2 /\ seen \in Device \cup {None, Partial}
    /\ ident \in Identity \cup {None} /\ kept \in Identity \cup {None}
    /\ saves \in 0 .. 2
    /\ outcome \in {"none", "ok", "error"} /\ mishaps \in 0 .. MaxMishaps

\* A crash or a failure, wherever it happens, never makes a later command work
\* with the keys of one device and the configuration of another: with two, it
\* may come to that.
WholeIdentity == (mishaps <= 1 /\ ident # None) => ident.key = ident.dev

\* What a command that succeeded worked with is what the directory holds, also
\* when commands before it broke off half way.
UsedIsSaved ==
    (pc = "idle" /\ outcome = "ok") =>
        reg = kept.key /\ conf = [dev |-> kept.dev, lic |-> kept.lic]

\* A crash or failure costs one device at most: otherwise the one that is
\* registered is found again by every command.
MishapCostsOneDevice == Cardinality(DOMAIN account) <= 1 + mishaps

\* While nothing fails, what a command loads is what the last one left, and the
\* file knows the license the API knows.
NothingForgotten ==
    (mishaps = 0 /\ pc = "idle" /\ outcome = "ok") =>
        account = [d \in {kept.key} |-> kept.lic]
=============================================================================
