--------------------------- MODULE ContractRegistry ---------------------------
(***************************************************************************)
(* The contracts a server knows by name (contract-registry.ts,              *)
(* contract-registrations.ts, prover-keys.ts): the registrations of the     *)
(* config and those an admin makes while the server runs, which are saved   *)
(* and loaded again at a start; the generation a job is pinned to when its  *)
(* command is accepted and checked against when it runs; and the download   *)
(* of missing prover keys.                                                  *)
(*                                                                         *)
(* A folder holds a generation of a contract. Whoever deploys contracts     *)
(* may replace it at any time, also by files that do not load.              *)
(***************************************************************************)
EXTENDS Integers, FiniteSets

CONSTANTS
    Names,        \* contract names
    ConfigOf,     \* [Names -> folder]: the folder the config gives a name, when it gives one
    Folders,      \* folders inside NIGHTGATE_CONTRACTS_DIR
    Generations,  \* positive numbers
    Admins,       \* admin calls in flight
    Jobs,         \* contract commands
    MaxEdits,     \* bound on replaced folders
    MaxRestarts   \* bound on restarts

VARIABLES
    folder,       \* [Folders -> [gen, loads, prover]]
    configNames,  \* names of the config of this start
    registry,     \* [Names -> folder or None]
    digests,      \* generationDigests: cached generation of each name, 0 for none
    rows,         \* ContractRegistrations: [Names -> folder or None]
    locked,       \* names whose registration lock is taken
    admin,        \* each admin call
    job,          \* each command
    fetching,     \* inFlight: folders whose prover keys are being downloaded
    skipped,      \* names whose row was not loaded at this start
    edits, restarts

registryVars == <<folder, configNames, registry, digests, rows, locked, admin, job, fetching, skipped, edits, restarts>>

None == "none"
IdleAdmin == [step |-> "idle", op |-> None, name |-> None, folder |-> None, previous |-> None]
NewJob == [step |-> "new", name |-> None, pin |-> 0, folder |-> None, seen |-> 0]

\* registerContract and unregisterContract: both forget the cached generation
Registered(r, n, f) == [r EXCEPT ![n] = f]
Forgotten(d, n) == [d EXCEPT ![n] = 0]

\* getArtifactGenerationDigest: computed once per registration
digestOf(n) == IF digests[n] # 0 THEN digests[n] ELSE folder[registry[n]].gen

------------------------------------------------------------------------------
(* Admin calls                                                              *)

Calls(a, op, n, f) == admin' = [admin EXCEPT ![a] = [IdleAdmin EXCEPT !.step = "wait", !.op = op, !.name = n, !.folder = f]]
Ends(a) == admin' = [admin EXCEPT ![a] = IdleAdmin]
KeepsJobs == UNCHANGED <<folder, configNames, job, fetching, edits, restarts>>

adminCall(a, op, n, f) ==
    /\ admin[a].step = "idle"
    /\ Calls(a, op, n, f)
    /\ UNCHANGED <<registry, digests, rows, locked, skipped>> /\ KeepsJobs

\* withKeyedLock; a name of the config is refused
lockName(a) ==
    LET n == admin[a].name IN
    /\ admin[a].step = "wait"
    /\ IF n \in configNames THEN Ends(a) /\ UNCHANGED locked
       ELSE /\ n \notin locked
            /\ locked' = locked \cup {n}
            /\ admin' = [admin EXCEPT ![a].step = IF admin[a].op = "register" THEN "validate" ELSE "delete"]
    /\ UNCHANGED <<registry, digests, rows, skipped>> /\ KeepsJobs

\* validateRuntimeRegistration: the files are there and the module loads in a short-lived worker
validateRuntimeRegistration(a) ==
    LET n == admin[a].name IN
    /\ admin[a].step = "validate"
    /\ IF folder[admin[a].folder].loads
       THEN admin' = [admin EXCEPT ![a].step = "publish"] /\ UNCHANGED locked
       ELSE Ends(a) /\ locked' = locked \ {n}
    /\ UNCHANGED <<registry, digests, rows, skipped>> /\ KeepsJobs

\* the entry and its digest; a digest that cannot be computed puts the previous entry back
publishRegistration(a) ==
    LET n == admin[a].name  f == admin[a].folder IN
    /\ admin[a].step = "publish"
    /\ IF folder[f].loads
       THEN /\ admin' = [admin EXCEPT ![a].step = "save", ![a].previous = registry[n]]
            /\ registry' = Registered(registry, n, f)
            /\ digests' = [digests EXCEPT ![n] = folder[f].gen]
            /\ UNCHANGED locked
       ELSE /\ Ends(a) /\ locked' = locked \ {n}
            /\ digests' = Forgotten(digests, n)
            /\ UNCHANGED registry
    /\ UNCHANGED <<rows, skipped>> /\ KeepsJobs

\* Mutant: the new entry stays when its row could not be saved.
saveOrKeep(a) ==
    LET n == admin[a].name IN
    /\ admin[a].step = "save"
    /\ \/ /\ rows' = [rows EXCEPT ![n] = admin[a].folder]
          /\ skipped' = skipped \ {n}
       \/ UNCHANGED <<rows, skipped>>
    /\ UNCHANGED <<registry, digests>>
    /\ Ends(a) /\ locked' = locked \ {n}
    /\ KeepsJobs

\* the row is saved, or the previous entry comes back
saveRegistration(a) ==
    LET n == admin[a].name IN
    /\ admin[a].step = "save"
    /\ \/ /\ rows' = [rows EXCEPT ![n] = admin[a].folder]
          /\ skipped' = skipped \ {n}
          /\ UNCHANGED <<registry, digests>>
       \/ /\ registry' = Registered(registry, n, admin[a].previous)
          /\ digests' = Forgotten(digests, n)
          /\ UNCHANGED <<rows, skipped>>
    /\ Ends(a) /\ locked' = locked \ {n}
    /\ KeepsJobs

\* unregisterContractAtRuntime: the row first, then the entry; a failed delete changes nothing
deleteRow(a) ==
    LET n == admin[a].name IN
    /\ admin[a].step = "delete"
    /\ \/ /\ rows' = [rows EXCEPT ![n] = None]
          /\ skipped' = skipped \ {n}
          /\ admin' = [admin EXCEPT ![a].step = "unregister"]
          /\ UNCHANGED locked
       \/ Ends(a) /\ locked' = locked \ {n} /\ UNCHANGED <<rows, skipped>>
    /\ UNCHANGED <<registry, digests>> /\ KeepsJobs

unregisterContract(a) ==
    LET n == admin[a].name IN
    /\ admin[a].step = "unregister"
    /\ registry' = Registered(registry, n, None)
    /\ digests' = Forgotten(digests, n)
    /\ Ends(a) /\ locked' = locked \ {n}
    /\ UNCHANGED <<rows, skipped>> /\ KeepsJobs

------------------------------------------------------------------------------
(* Commands                                                                 *)

KeepsRegistry == UNCHANGED <<folder, configNames, registry, rows, locked, admin, skipped, edits, restarts>>
Refuses(j) == job' = [job EXCEPT ![j].step = "refused"]

\* startBackgroundJob pins the command to the generation the name has now
acceptCommand(j, n) ==
    /\ job[j].step = "new"
    /\ registry[n] # None
    /\ job' = [job EXCEPT ![j] = [NewJob EXCEPT !.step = "queued", !.name = n, !.pin = digestOf(n)]]
    /\ digests' = [digests EXCEPT ![n] = digestOf(n)]
    /\ UNCHANGED fetching /\ KeepsRegistry

\* the executor's check: the name still has the generation of the command
assertArtifactGeneration(j) ==
    LET n == job[j].name IN
    /\ job[j].step = "queued"
    /\ IF registry[n] # None /\ digestOf(n) = job[j].pin
       THEN job' = [job EXCEPT ![j].step = "resolve"] ELSE Refuses(j)
    /\ digests' = IF registry[n] # None THEN [digests EXCEPT ![n] = digestOf(n)] ELSE digests
    /\ UNCHANGED fetching /\ KeepsRegistry

\* resolveContract: the registration is read once, and the files it names are hashed before anything is downloaded
resolveContract(j) ==
    LET f == registry[job[j].name] IN
    /\ job[j].step = "resolve"
    /\ IF f = None \/ folder[f].gen # job[j].pin THEN Refuses(j)
       ELSE job' = [job EXCEPT ![j].step = "keys", ![j].folder = f, ![j].seen = folder[f].gen]
    /\ UNCHANGED <<digests, fetching>> /\ KeepsRegistry

\* ensureProverKeys: nothing to do, a download of its own, or the one that runs for this folder
ensureProverKeys(j) ==
    LET f == job[j].folder IN
    /\ job[j].step = "keys"
    /\ \/ /\ f \in fetching
          /\ job' = [job EXCEPT ![j].step = "joined"]
          /\ UNCHANGED fetching
       \/ /\ f \notin fetching
          /\ IF folder[f].prover # 0 THEN job' = [job EXCEPT ![j].step = "sent"] /\ UNCHANGED fetching
             ELSE /\ job' = [job EXCEPT ![j].step = "fetch", ![j].seen = folder[f].gen]
                  /\ fetching' = fetching \cup {f}
    /\ UNCHANGED digests /\ KeepsRegistry

\* the end of a download, for its owner and for everyone who joined: the key is the one the manifest listed when the
\* download began, or nothing is written
fetchProverKeys(j) ==
    LET f == job[j].folder
        others == { k \in Jobs : job[k].step = "joined" /\ job[k].folder = f } IN
    /\ job[j].step = "fetch"
    /\ fetching' = fetching \ {f}
    /\ \E ok \in BOOLEAN :
         /\ job' = [k \in Jobs |-> IF k \in others \cup {j} THEN [job[k] EXCEPT !.step = IF ok THEN "sent" ELSE "refused"] ELSE job[k]]
         /\ folder' = IF ok THEN [folder EXCEPT ![f].prover = job[j].seen] ELSE folder
    /\ UNCHANGED <<digests, configNames, registry, rows, locked, admin, skipped, edits, restarts>>

------------------------------------------------------------------------------
(* Deployment and restarts                                                  *)

\* a folder is replaced, with or without prover keys
replaceFolder(f, gen, loads, keys) ==
    /\ edits < MaxEdits
    /\ edits' = edits + 1
    /\ folder' = [folder EXCEPT ![f] = [gen |-> gen, loads |-> loads, prover |-> IF keys THEN gen ELSE 0]]
    /\ UNCHANGED <<configNames, registry, digests, rows, locked, admin, job, fetching, skipped, restarts>>

\* loadRegistryFromConfig and loadPersistedRegistrations, before the server takes requests: a row whose name the config has, or
\* whose files do not load, is skipped and kept
Loaded(config, n) ==
    IF n \in config THEN ConfigOf[n] ELSE IF rows[n] # None /\ folder[rows[n]].loads THEN rows[n] ELSE None

restart(config) ==
    /\ restarts < MaxRestarts
    /\ restarts' = restarts + 1
    /\ configNames' = config
    /\ registry' = [n \in Names |-> Loaded(config, n)]
    /\ skipped' = { n \in Names \ config : rows[n] # Loaded(config, n) }
    /\ digests' = [n \in Names |-> 0]
    /\ locked' = {}
    /\ admin' = [a \in Admins |-> IdleAdmin]
    /\ fetching' = {}
    /\ job' = [j \in Jobs |-> IF job[j].step \in {"resolve", "keys", "joined", "fetch"} THEN [job[j] EXCEPT !.step = "queued"] ELSE job[j]]
    /\ UNCHANGED <<folder, rows, edits>>

RegistryInit ==
    /\ folder = [f \in Folders |-> [gen |-> CHOOSE g \in Generations : \A h \in Generations : g <= h, loads |-> TRUE, prover |-> 0]]
    /\ configNames \in SUBSET Names
    /\ registry = [n \in Names |-> IF n \in configNames THEN ConfigOf[n] ELSE None]
    /\ digests = [n \in Names |-> 0]
    /\ rows = [n \in Names |-> None]
    /\ locked = {} /\ skipped = {} /\ fetching = {}
    /\ admin = [a \in Admins |-> IdleAdmin]
    /\ job = [j \in Jobs |-> NewJob]
    /\ edits = 0 /\ restarts = 0

RegistryNext ==
    \/ \E a \in Admins :
        \/ \E n \in Names : (\E f \in Folders : adminCall(a, "register", n, f)) \/ adminCall(a, "unregister", n, None)
        \/ lockName(a) \/ validateRuntimeRegistration(a) \/ publishRegistration(a) \/ saveRegistration(a)
        \/ deleteRow(a) \/ unregisterContract(a)
    \/ \E j \in Jobs :
        \/ \E n \in Names : acceptCommand(j, n)
        \/ assertArtifactGeneration(j) \/ resolveContract(j) \/ ensureProverKeys(j) \/ fetchProverKeys(j)
    \/ \E f \in Folders, g \in Generations, loads, keys \in BOOLEAN : replaceFolder(f, g, loads, keys)
    \/ \E config \in SUBSET Names : restart(config)

RegistrySpec == RegistryInit /\ [][RegistryNext]_registryVars

------------------------------------------------------------------------------
\* "Lock per name, so the registry entry, its digest and the saved row always match": between admin calls a name the config
\* does not have is registered exactly as its row says, so a restart changes nothing for it; only a row that was
\* not loaded at the start has no entry.  After any overlap of registrations, removals, failed saves and restarts.
RegistryMatchesRows ==
    \A n \in Names \ (configNames \cup locked) : registry[n] = IF n \in skipped THEN None ELSE rows[n]
==============================================================================
