--------------------------- MODULE Gateway_sponsors ---------------------------
(***************************************************************************)
(* The contract registry, the pool of sponsor wallets, the sponsor policy  *)
(* and the sync verdict, for every size.                                   *)
(*                                                                         *)
(* Registry: a call past the lock has its name to itself, and at each step *)
(* knows how far the entry and the row of that name have come apart        *)
(* (HolderKnows).                                                          *)
(* Pool: the type of the lanes and jobs makes BusyLaneHasHolder inductive. *)
(* Policy: no step is needed; narrowing is compared with the floor and the *)
(* grant, call by call (CallNarrows).                                      *)
(* Sync: what was read is what the outside had at a time not long ago      *)
(* (ReadsAreRecent), and the last progress is measured from such a reading *)
(* (ProgressIsMeasured).                                                   *)
(***************************************************************************)
EXTENDS MC_Gateway, FiniteSetTheorems, SequenceTheorems, TLAPS

-----------------------------------------------------------------------------
(* The contract registry.                                                  *)

AdminRecord == [step : {"idle", "wait", "validate", "publish", "save", "delete", "unregister"}, op : {Registry!None, "register", "unregister"},
                name : ContractNames \cup {Registry!None}, folder : ContractFolders \cup {Registry!None},
                previous : ContractFolders \cup {Registry!None}]

RegistryShape ==
    /\ configNames \subseteq ContractNames /\ locked \subseteq ContractNames /\ skipped \subseteq ContractNames
    /\ registry \in [ContractNames -> ContractFolders \cup {Registry!None}]
    /\ rows \in [ContractNames -> ContractFolders \cup {Registry!None}]
    /\ admin \in [AdminCalls -> AdminRecord]
    /\ \A a \in AdminCalls : 
           admin[a].step # "idle" => admin[a].name \in ContractNames /\ admin[a].op # Registry!None
                                     /\ (admin[a].op = "register" => admin[a].folder \in ContractFolders)

\* what a start would make of the row of a name
AsSaved(n) == IF n \in skipped THEN Registry!None ELSE rows[n]

Holds(a) == admin[a].step \notin {"idle", "wait"}

\* A call that is past the lock has its name to itself, and knows how far entry and row have come apart.
HolderKnows(a) ==
    LET n == admin[a].name IN
    Holds(a) =>
        /\ n \in locked /\ n \notin configNames
        /\ \A b \in AdminCalls : b # a /\ Holds(b) => admin[b].name # n
        /\ admin[a].op = IF admin[a].step \in {"validate", "publish", "save"} THEN "register" ELSE "unregister"
        /\ admin[a].step \in {"validate", "publish", "delete"} => registry[n] = AsSaved(n)
        /\ admin[a].step = "save" => registry[n] = admin[a].folder /\ admin[a].previous = AsSaved(n)
        /\ admin[a].step = "unregister" => AsSaved(n) = Registry!None

RInv == RegistryShape /\ Registry!RegistryMatchesRows /\ \A a \in AdminCalls : HolderKnows(a)

LEMMA RInvInit == Registry!RegistryInit => RInv
  <1> SUFFICES ASSUME Registry!RegistryInit PROVE RInv
    OBVIOUS
  <1>1. \A n \in configNames : ConfigFolder[n] \in ContractFolders
    BY RegistryAssumption DEF Registry!RegistryInit
  <1>2. RegistryShape
    BY <1>1 DEF Registry!RegistryInit, RegistryShape, Registry!IdleAdmin, AdminRecord
  <1>3. Registry!RegistryMatchesRows
    BY DEF Registry!RegistryInit, Registry!RegistryMatchesRows, Registry!None
  <1> QED
    BY <1>2, <1>3 DEF RInv, HolderKnows, Holds, Registry!RegistryInit, Registry!IdleAdmin

\* Steps of the commands and of deployment leave entries, rows and locks alone.
LEMMA RInvStays ==
    ASSUME RInv, UNCHANGED <<configNames, registry, rows, locked, admin, skipped>>
    PROVE  RInv'
  BY DEF RInv, RegistryShape, Registry!RegistryMatchesRows, HolderKnows, Holds, AsSaved

\* A step of one call that keeps the entries and rows of other names, and locks no name but its own.
LEMMA OthersKnow ==
    ASSUME RInv, NEW a \in AdminCalls, RegistryShape', UNCHANGED configNames,
           \A b \in AdminCalls \ {a} : admin'[b] = admin[b],
           admin'[a].name = admin[a].name \/ ~Holds(a)',
           \A n \in ContractNames \ {admin[a].name} :
               registry'[n] = registry[n] /\ rows'[n] = rows[n] /\ (n \in skipped' <=> n \in skipped) /\ (n \in locked' <=> n \in locked),
           Holds(a) \/ (UNCHANGED <<registry, rows, skipped>> /\ locked \subseteq locked' /\ (Holds(a)' => admin[a].name \notin locked))
    PROVE  \A b \in AdminCalls \ {a} : HolderKnows(b)'
  <1> SUFFICES ASSUME NEW b \in AdminCalls, b # a, Holds(b)
               PROVE  HolderKnows(b)'
    BY DEF HolderKnows, Holds
  <1> DEFINE n == admin[b].name
  <1>1. n \in ContractNames /\ HolderKnows(b) /\ HolderKnows(a) /\ n \in locked
    BY DEF RInv, RegistryShape, HolderKnows, Holds
  <1>2. Holds(a) => admin[a].name # n
    BY <1>1 DEF HolderKnows
  <1>3. registry'[n] = registry[n] /\ rows'[n] = rows[n] /\ (n \in skipped' <=> n \in skipped) /\ n \in locked'
    BY <1>1, <1>2
  <1>4. Holds(a)' => admin'[a].name # n
    BY <1>1, <1>2
  <1>5. admin'[b] = admin[b] /\ AsSaved(n)' = AsSaved(n)
    BY <1>3 DEF AsSaved
  <1>6. \A c \in AdminCalls : c # b /\ Holds(c)' => admin'[c].name # n
    BY <1>1, <1>4, <1>5 DEF HolderKnows, Holds
  <1> QED
    BY <1>1, <1>3, <1>5, <1>6 DEF HolderKnows, Holds

\* what the step of a call owes
LEMMA RInvCall ==
    ASSUME RInv, NEW a \in AdminCalls, RegistryShape', UNCHANGED configNames,
           \A b \in AdminCalls \ {a} : admin'[b] = admin[b],
           admin'[a].name = admin[a].name \/ ~Holds(a)',
           \A n \in ContractNames \ {admin[a].name} :
               registry'[n] = registry[n] /\ rows'[n] = rows[n] /\ (n \in skipped' <=> n \in skipped) /\ (n \in locked' <=> n \in locked),
           Holds(a) \/ (UNCHANGED <<registry, rows, skipped>> /\ locked \subseteq locked' /\ (Holds(a)' => admin[a].name \notin locked)),
           HolderKnows(a)',
           \A n \in ContractNames : n = admin[a].name /\ Holds(a) /\ n \notin locked' => registry'[n] = AsSaved(n)'
    PROVE  RInv'
  <1> DEFINE n == admin[a].name
  <1>1. \A b \in AdminCalls : HolderKnows(b)'
    BY OthersKnow
  <1>2. ASSUME NEW m \in ContractNames, m \notin configNames, m \notin locked'
        PROVE  registry'[m] = AsSaved(m)'
    <2>1. CASE m = n /\ Holds(a)
      BY <1>2, <2>1
    <2>2. CASE m = n /\ ~Holds(a)
      BY <1>2, <2>2 DEF RInv, Registry!RegistryMatchesRows, AsSaved
    <2>3. CASE m # n
      BY <1>2, <2>3 DEF RInv, Registry!RegistryMatchesRows, AsSaved
    <2> QED
      BY <2>1, <2>2, <2>3
  <1>3. Registry!RegistryMatchesRows'
    BY <1>2 DEF Registry!RegistryMatchesRows, AsSaved
  <1> QED
    BY <1>1, <1>3 DEF RInv

\* a new call: its folder is given when it registers
Asked(a) == \E n \in ContractNames : (\E f \in ContractFolders : Registry!adminCall(a, "register", n, f))
                                     \/ Registry!adminCall(a, "unregister", n, Registry!None)

\* A step that starts a call, or lets it wait on or end at the lock, holds nothing before.
LEMMA RInvLock ==
    ASSUME RInv, NEW a \in AdminCalls, Asked(a) \/ Registry!lockName(a)
    PROVE  RInv'
  <1> USE DEF Registry!KeepsJobs, Registry!Calls, Registry!Ends, Registry!IdleAdmin, Registry!None
  <1>1. RegistryShape /\ admin[a] \in AdminRecord
    BY DEF RInv, RegistryShape
  <1>2. CASE Asked(a)
    <2> PICK op \in {"register", "unregister"}, n \in ContractNames, f \in ContractFolders \cup {Registry!None} :
            (op = "register" => f \in ContractFolders) /\ Registry!adminCall(a, op, n, f)
      BY <1>2 DEF Asked
    <2> DEFINE rec == [Registry!IdleAdmin EXCEPT !.step = "wait", !.op = op, !.name = n, !.folder = f]
    <2>0. admin[a].step = "idle" /\ admin' = [admin EXCEPT ![a] = rec] /\ UNCHANGED <<configNames, registry, rows, skipped, locked>>
          /\ rec \in AdminRecord /\ rec.step = "wait" /\ rec.name = n /\ rec.op = op /\ rec.folder = f
      <3>1. rec \in AdminRecord /\ rec.step = "wait" /\ rec.name = n /\ rec.op = op /\ rec.folder = f
        BY DEF AdminRecord
      <3> QED
        BY <3>1 DEF Registry!adminCall
    <2> HIDE DEF rec
    <2>1. RegistryShape'
      BY <1>1, <2>0 DEF RegistryShape
    <2>2. ~Holds(a) /\ ~Holds(a)' /\ HolderKnows(a)'
      BY <1>1, <2>0 DEF RegistryShape, Holds, HolderKnows
    <2>3. UNCHANGED <<configNames, registry, rows, skipped, locked>> /\ \A b \in AdminCalls \ {a} : admin'[b] = admin[b]
      BY <1>1, <2>0 DEF RegistryShape
    <2> QED
      BY <2>1, <2>2, <2>3, RInvCall
  <1>3. CASE Registry!lockName(a)
    <2> DEFINE n == admin[a].name
    <2>1. RegistryShape' /\ n \in ContractNames
      BY <1>1, <1>3 DEF RegistryShape, AdminRecord, Registry!lockName
    <2>2. UNCHANGED <<configNames, registry, rows, skipped>> /\ \A b \in AdminCalls \ {a} : admin'[b] = admin[b]
      BY <1>1, <1>3 DEF RegistryShape, Registry!lockName
    <2>3. CASE n \in configNames
      <3>1. ~Holds(a)' /\ ~Holds(a) /\ locked' = locked
        BY <1>1, <1>3, <2>3 DEF RegistryShape, Registry!lockName, Holds
      <3> QED
        BY <2>1, <2>2, <3>1, RInvCall DEF HolderKnows
    <2>4. CASE n \notin configNames
      <3>1. n \notin locked /\ locked' = locked \cup {n} /\ ~Holds(a)
            /\ admin'[a] = [admin[a] EXCEPT !.step = IF admin[a].op = "register" THEN "validate" ELSE "delete"]
        BY <1>1, <1>3, <2>4 DEF RegistryShape, Registry!lockName, Holds
      <3>2. registry[n] = AsSaved(n)
        BY <2>1, <2>4, <3>1 DEF RInv, Registry!RegistryMatchesRows, AsSaved
      <3>3. admin'[a].name = n /\ admin'[a].step \in {"validate", "delete"} /\ admin'[a].op = admin[a].op
            /\ (admin'[a].step = "validate" <=> admin[a].op = "register")
        BY <1>1, <3>1 DEF AdminRecord
      <3>4. \A b \in AdminCalls : b # a /\ Holds(b) => admin[b].name # n
        BY <3>1 DEF RInv, HolderKnows
      <3>5. admin[a].op \in {"register", "unregister"}
        BY <1>1, <1>3 DEF RegistryShape, Registry!lockName, AdminRecord
      <3>6. HolderKnows(a)'
        BY <2>1, <2>2, <2>4, <3>1, <3>2, <3>3, <3>4, <3>5 DEF HolderKnows, Holds, AsSaved
      <3> QED
        BY <2>1, <2>2, <3>1, <3>3, <3>6, RInvCall
    <2> QED
      BY <2>3, <2>4
  <1> QED
    BY <1>2, <1>3

\* A step of the call that holds the name.
LEMMA RInvHeld ==
    ASSUME RInv, NEW a \in AdminCalls,
           \/ Registry!validateRuntimeRegistration(a) \/ Registry!publishRegistration(a) \/ Registry!saveRegistration(a)
           \/ Registry!deleteRow(a) \/ Registry!unregisterContract(a)
    PROVE  RInv'
  <1> PICK n \in ContractNames : n = admin[a].name
    BY DEF RInv, RegistryShape, Registry!validateRuntimeRegistration, Registry!publishRegistration, Registry!saveRegistration,
           Registry!deleteRow, Registry!unregisterContract
  <1> USE DEF Registry!KeepsJobs, Registry!Ends, Registry!Registered, Registry!Forgotten
  <1>0. /\ RegistryShape /\ admin[a] \in AdminRecord /\ Holds(a) /\ HolderKnows(a)
        /\ Registry!IdleAdmin \in AdminRecord
    BY DEF RInv, RegistryShape, Holds, Registry!validateRuntimeRegistration, Registry!publishRegistration, Registry!saveRegistration,
           Registry!deleteRow, Registry!unregisterContract, Registry!IdleAdmin, AdminRecord, Registry!None
  <1>1. /\ UNCHANGED configNames /\ \A b \in AdminCalls \ {a} : admin'[b] = admin[b]
        /\ \A m \in ContractNames \ {n} :
               registry'[m] = registry[m] /\ rows'[m] = rows[m] /\ (m \in skipped' <=> m \in skipped) /\ (m \in locked' <=> m \in locked)
    BY <1>0 DEF RegistryShape, Registry!validateRuntimeRegistration, Registry!publishRegistration, Registry!saveRegistration,
           Registry!deleteRow, Registry!unregisterContract
  <1>2. RegistryShape'
    <2>1. admin[a].op = "register" => admin[a].folder \in ContractFolders
      BY <1>0 DEF RegistryShape, Holds
    <2>2. admin[a].step \in {"validate", "publish", "save"} => admin[a].op = "register"
      BY <1>0 DEF HolderKnows, Holds
    <2>3. CASE admin' = [admin EXCEPT ![a] = Registry!IdleAdmin] \/ Registry!validateRuntimeRegistration(a) \/ Registry!deleteRow(a)
      BY <1>0, <2>1, <2>2, <2>3 DEF RegistryShape, AdminRecord, Registry!IdleAdmin, Registry!None, Registry!validateRuntimeRegistration,
           Registry!publishRegistration, Registry!saveRegistration, Registry!deleteRow, Registry!unregisterContract
    <2>4. CASE Registry!publishRegistration(a)
      BY <1>0, <2>1, <2>2, <2>4 DEF RegistryShape, AdminRecord, Registry!IdleAdmin, Registry!None, Registry!publishRegistration
    <2> QED
      BY <2>3, <2>4 DEF Registry!saveRegistration, Registry!unregisterContract
  <1>3. ASSUME admin' = [admin EXCEPT ![a] = Registry!IdleAdmin], registry'[n] = AsSaved(n)'
        PROVE  RInv'
    <2>1. ~Holds(a)'
      BY <1>0, <1>3 DEF RegistryShape, Holds, Registry!IdleAdmin
    <2> QED
      BY <1>0, <1>1, <1>2, <1>3, <2>1, RInvCall DEF HolderKnows
  <1>4. ASSUME n \in locked', admin'[a].name = n, Holds(a)',
               admin'[a].op = IF admin'[a].step \in {"validate", "publish", "save"} THEN "register" ELSE "unregister",
               admin'[a].step \in {"validate", "publish", "delete"} => registry'[n] = AsSaved(n)',
               admin'[a].step = "save" => registry'[n] = admin'[a].folder /\ admin'[a].previous = AsSaved(n)',
               admin'[a].step = "unregister" => AsSaved(n)' = Registry!None
        PROVE  RInv'
    <2>1. HolderKnows(a)'
      BY <1>0, <1>1, <1>4 DEF HolderKnows, Holds
    <2> QED
      BY <1>0, <1>1, <1>2, <1>4, <2>1, RInvCall
  <1>5. CASE Registry!validateRuntimeRegistration(a)
    <2>1. UNCHANGED <<registry, rows, skipped>> /\ admin[a].step = "validate" /\ registry[n] = AsSaved(n)
      BY <1>0, <1>5 DEF Registry!validateRuntimeRegistration, HolderKnows
    <2>2. registry'[n] = AsSaved(n)'
      BY <2>1 DEF AsSaved
    <2> QED
      BY <1>0, <1>3, <1>4, <1>5, <2>1, <2>2 DEF Registry!validateRuntimeRegistration, RegistryShape, AdminRecord, HolderKnows, Holds
  <1>6. CASE Registry!publishRegistration(a)
    <2>1. UNCHANGED <<rows, skipped>> /\ admin[a].step = "publish" /\ registry[n] = AsSaved(n) /\ AsSaved(n)' = AsSaved(n)
      BY <1>0, <1>6 DEF Registry!publishRegistration, HolderKnows, AsSaved
    <2> QED
      BY <1>0, <1>3, <1>4, <1>6, <2>1 DEF Registry!publishRegistration, RegistryShape, AdminRecord, HolderKnows, Holds
  <1>7. CASE Registry!saveRegistration(a)
    <2>1. registry'[n] = AsSaved(n)'
      BY <1>0, <1>7 DEF Registry!saveRegistration, RegistryShape, HolderKnows, AsSaved
    <2> QED
      BY <1>3, <1>7, <2>1 DEF Registry!saveRegistration
  <1>8. CASE Registry!deleteRow(a)
    <2>1. UNCHANGED registry /\ admin[a].step = "delete" /\ registry[n] = AsSaved(n)
      BY <1>0, <1>8 DEF Registry!deleteRow, HolderKnows
    <2>2. CASE admin' = [admin EXCEPT ![a] = Registry!IdleAdmin] /\ UNCHANGED <<rows, skipped>>
      BY <1>3, <2>1, <2>2 DEF AsSaved
    <2>3. CASE rows' = [rows EXCEPT ![n] = Registry!None] /\ skipped' = skipped \ {n} /\ admin' = [admin EXCEPT ![a].step = "unregister"] /\ UNCHANGED locked
      <3>1. AsSaved(n)' = Registry!None
        BY <1>0, <2>3 DEF RegistryShape, AsSaved
      <3> QED
        BY <1>0, <1>4, <2>1, <2>3, <3>1 DEF RegistryShape, AdminRecord, HolderKnows, Holds
    <2> QED
      BY <1>8, <2>2, <2>3 DEF Registry!deleteRow
  <1>9. CASE Registry!unregisterContract(a)
    <2>1. registry'[n] = AsSaved(n)'
      BY <1>0, <1>9 DEF Registry!unregisterContract, RegistryShape, HolderKnows, AsSaved
    <2> QED
      BY <1>3, <1>9, <2>1 DEF Registry!unregisterContract
  <1> QED
    BY <1>5, <1>6, <1>7, <1>8, <1>9

\* A start drops every call, and makes of the rows what they say.
LEMMA RInvRestart ==
    ASSUME RInv, NEW config \in SUBSET ContractNames, Registry!restart(config)
    PROVE  RInv'
  <1>1. RegistryShape'
    BY RegistryAssumption DEF RInv, RegistryShape, Registry!restart, Registry!Loaded, Registry!IdleAdmin, AdminRecord
  <1>2. Registry!RegistryMatchesRows'
    BY DEF RInv, RegistryShape, Registry!restart, Registry!Loaded, Registry!RegistryMatchesRows
  <1>3. \A a \in AdminCalls : HolderKnows(a)'
    BY DEF Registry!restart, Registry!IdleAdmin, HolderKnows, Holds
  <1> QED
    BY <1>1, <1>2, <1>3 DEF RInv

LEMMA RInvNext == RInv /\ Registry!RegistryNext => RInv'
  <1> SUFFICES ASSUME RInv, Registry!RegistryNext PROVE RInv'
    OBVIOUS
  <1>1. CASE \E a \in AdminCalls : Asked(a) \/ Registry!lockName(a)
    BY <1>1, RInvLock
  <1>2. CASE \E a \in AdminCalls : \/ Registry!validateRuntimeRegistration(a) \/ Registry!publishRegistration(a)
                                   \/ Registry!saveRegistration(a) \/ Registry!deleteRow(a) \/ Registry!unregisterContract(a)
    BY <1>2, RInvHeld
  <1>3. CASE \/ \E j \in ContractJobs :
                 \/ \E n \in ContractNames : Registry!acceptCommand(j, n)
                 \/ Registry!assertArtifactGeneration(j) \/ Registry!resolveContract(j) \/ Registry!ensureProverKeys(j)
                 \/ Registry!fetchProverKeys(j)
             \/ \E f \in ContractFolders, g \in ContractGens, loads, keys \in BOOLEAN : Registry!replaceFolder(f, g, loads, keys)
    BY <1>3, RInvStays DEF Registry!KeepsRegistry, Registry!acceptCommand, Registry!assertArtifactGeneration, Registry!resolveContract,
           Registry!ensureProverKeys, Registry!fetchProverKeys, Registry!replaceFolder
  <1>4. CASE \E config \in SUBSET ContractNames : Registry!restart(config)
    BY <1>4, RInvRestart
  <1> QED
    BY <1>1, <1>2, <1>3, <1>4 DEF Registry!RegistryNext, Asked

RegistryPart == part = "registry" => RInv

\* Between admin calls a name the config does not have is registered exactly as its row says (registerContractAtRuntime,
\* unregisterContractAtRuntime), for any number of names, folders, calls, commands and restarts.
THEOREM RegistryMatchesRowsAlways == Spec => []RegistryMatchesRows
  <1>1. Init => RegistryPart
    BY RInvInit DEF Init, RegistryPart
  <1>2. RegistryPart /\ [Next]_vars => RegistryPart'
    <2> SUFFICES ASSUME RegistryPart, [Next]_vars PROVE RegistryPart'
      OBVIOUS
    <2>1. CASE UNCHANGED <<part, registryVars>>
      BY <2>1, RInvStays DEF RegistryPart, registryVars
    <2>2. CASE Only("registry") /\ Registry!RegistryNext
      BY <2>2, RInvNext DEF RegistryPart, Only
    <2>3. CASE part # "registry" /\ part' = part
      BY <2>3 DEF RegistryPart
    <2>4. part = "registry" /\ Next => Only("registry") /\ Registry!RegistryNext
      BY DEF Next, Only
    <2>5. Next => part' = part
      BY DEF Next, Only
    <2>6. UNCHANGED vars => UNCHANGED <<part, registryVars>>
      BY DEF vars
    <2> QED
      BY <2>1, <2>2, <2>3, <2>4, <2>5, <2>6
  <1>3. RegistryPart => RegistryMatchesRows
    BY DEF RegistryPart, RInv, RegistryMatchesRows
  <1> QED
    BY <1>1, <1>2, <1>3, PTL DEF Spec

-----------------------------------------------------------------------------
(* The pool of sponsors.                                                   *)

SponsorJobRecord == [step : Pool!Steps, cand : SUBSET Pool!Sponsors, order : Seq(Pool!Sponsors), at : Pool!Sponsors,
                     attempt : 0..SponsorRetries, err : Pool!Decisions]

Lane == [busy : BOOLEAN, lastUsed : 0..SponsorSeconds, cooldownUntil : 0..(SponsorSeconds + SponsorPause)]

PInv == Pool!PoolTypeOK /\ Pool!BusyLaneHasHolder

\* the wallets of the pool are finitely many
LEMMA SponsorFacts ==
    /\ SponsorIds \in Seq(Pool!Sponsors) /\ Head(SponsorIds) \in Pool!Sponsors /\ IsFiniteSet(Pool!Sponsors)
  <1>1. Pool!Sponsors = {SponsorIds[i] : i \in DOMAIN SponsorIds}
    BY DEF Pool!Sponsors, Pool!Range
  <1>2. SponsorIds \in Seq(Pool!Sponsors) /\ SponsorIds # <<>>
    BY <1>1, PoolAssumption
  <1>3. Len(SponsorIds) \in Nat /\ DOMAIN SponsorIds = 1..Len(SponsorIds)
    BY <1>2, LenProperties
  <1>4. IsFiniteSet(1..Len(SponsorIds))
    BY <1>3, FS_Interval
  <1>5. SponsorIds \in Surjection(1..Len(SponsorIds), Pool!Sponsors)
    BY <1>1, <1>2, <1>3 DEF Surjection
  <1> QED
    BY <1>2, <1>4, <1>5, HeadTailProperties, FS_Surjection

\* the order of the candidates of an unbound job
LEMMA OrderType ==
    ASSUME NEW atGate, NEW q \in Pool!sponsorCandidatesNonExclusive(atGate)
    PROVE  q \in Seq(Pool!Sponsors)
  <1> DEFINE open == {s \in Pool!Sponsors : ~Pool!Cooling(s)}
  <1>1. Cardinality(open) \in Nat
    BY SponsorFacts, FS_Subset, FS_CardinalityType
  <1>2. Pool!Cardinality(open) = Cardinality(open)
    BY DEF Pool!Cardinality, Cardinality
  <1>3. q \in [1..Cardinality(open) -> Pool!Sponsors]
    BY <1>2 DEF Pool!sponsorCandidatesNonExclusive
  <1>4. ASSUME NEW n \in Nat, q \in [1..n -> Pool!Sponsors] PROVE q \in Seq(Pool!Sponsors)
    BY <1>4
  <1> QED
    BY <1>1, <1>3, <1>4

LEMMA PInvInit == Pool!PoolInit => PInv
  <1> SUFFICES ASSUME Pool!PoolInit PROVE PInv
    OBVIOUS
  <1>1. Pool!Fresh \in SponsorJobRecord
    BY SponsorFacts, PoolAssumption DEF Pool!Fresh, SponsorJobRecord, Pool!Steps, Pool!Decisions
  <1>2. lanes \in [Pool!Sponsors -> Lane] /\ time \in 1..SponsorSeconds
    BY PoolAssumption DEF Pool!PoolInit, Lane
  <1>3. Pool!PoolTypeOK
    BY <1>1, <1>2 DEF Pool!PoolInit, Pool!PoolTypeOK, SponsorJobRecord, Lane
  <1> QED
    BY <1>3 DEF PInv, Pool!PoolInit, Pool!BusyLaneHasHolder

\* A step of one job, which may touch the lane of one wallet: what it leaves busy it uses itself.
LEMMA PInvJob ==
    ASSUME PInv, NEW j \in Pool!Jobs, NEW rec \in SponsorJobRecord, sponsorJob' = [sponsorJob EXCEPT ![j] = rec], time' = time,
           lanes' \in [Pool!Sponsors -> Lane],
           \A s \in Pool!Sponsors : lanes'[s].busy => \/ (lanes[s].busy /\ j \notin Pool!Holders(s))
                                                    \/ (j \in BoundSponsorJobs /\ rec.step \in {"attempt", "closing"} /\ rec.at = s)
    PROVE  PInv'
  <1>1. sponsorJob \in [Pool!Jobs -> SponsorJobRecord]
    BY DEF PInv, Pool!PoolTypeOK, SponsorJobRecord
  <1>2. sponsorJob' \in [Pool!Jobs -> SponsorJobRecord]
    BY <1>1
  <1>3. Pool!PoolTypeOK'
    BY <1>2 DEF PInv, Pool!PoolTypeOK, SponsorJobRecord, Lane
  <1>4. ASSUME NEW s \in Pool!Sponsors, lanes'[s].busy
        PROVE  Pool!Holders(s)' # {}
    <2>1. CASE lanes[s].busy /\ j \notin Pool!Holders(s)
      <3>1. PICK k \in BoundSponsorJobs : k \in Pool!Holders(s) /\ k # j
        BY <2>1 DEF PInv, Pool!BusyLaneHasHolder, Pool!Holders
      <3>2. sponsorJob'[k] = sponsorJob[k]
        BY <1>1, <3>1 DEF Pool!Jobs
      <3>3. k \in Pool!Holders(s)'
        BY <3>1, <3>2 DEF Pool!Holders
      <3> QED
        BY <3>3
    <2>2. CASE j \in BoundSponsorJobs /\ rec.step \in {"attempt", "closing"} /\ rec.at = s
      <3>1. sponsorJob'[j] = rec
        BY <1>1
      <3>2. j \in Pool!Holders(s)'
        BY <2>2, <3>1 DEF Pool!Holders
      <3> QED
        BY <3>2
    <2> QED
      BY <1>4, <2>1, <2>2
  <1> QED
    BY <1>3, <1>4 DEF PInv, Pool!BusyLaneHasHolder

\* What a step makes of the lanes, and what becomes of a lane it frees.
LEMMA LaneSteps ==
    ASSUME PInv, NEW s \in Pool!Sponsors
    PROVE  /\ Pool!releaseSponsor(s) \in [Pool!Sponsors -> Lane] /\ Pool!benchSponsor(s) \in [Pool!Sponsors -> Lane]
           /\ Pool!acquireSponsor(s) \in [Pool!Sponsors -> Lane]
           /\ \A t \in Pool!Sponsors :
                 /\ Pool!releaseSponsor(s)[t].busy => t # s /\ lanes[t].busy
                 /\ Pool!benchSponsor(s)[t].busy => t # s /\ lanes[t].busy
                 /\ Pool!acquireSponsor(s)[t].busy => t = s \/ lanes[t].busy
  <1>1. lanes \in [Pool!Sponsors -> Lane] /\ time \in 1..SponsorSeconds
    BY DEF PInv, Pool!PoolTypeOK, Lane
  <1>2. time \in 0..SponsorSeconds /\ time + SponsorPause \in 0..(SponsorSeconds + SponsorPause)
    BY <1>1, PoolAssumption
  <1> QED
    BY <1>1, <1>2 DEF Pool!releaseSponsor, Pool!benchSponsor, Pool!acquireSponsor, Lane

LEMMA TouchStep ==
    ASSUME PInv, NEW ls \in [Pool!Sponsors -> Lane], NEW s \in Pool!Sponsors
    PROVE  /\ Pool!touchSponsor(ls, s) \in [Pool!Sponsors -> Lane]
           /\ \A t \in Pool!Sponsors : Pool!touchSponsor(ls, s)[t].busy => ls[t].busy
  <1>1. time \in 0..SponsorSeconds
    BY PoolAssumption DEF PInv, Pool!PoolTypeOK
  <1> QED
    BY <1>1 DEF Pool!touchSponsor, Lane

\* A job that comes to its end, or goes on without the lane it is at.
LEMMA LetsGo ==
    ASSUME PInv, NEW j \in Pool!Jobs, NEW rec \in SponsorJobRecord, sponsorJob' = [sponsorJob EXCEPT ![j] = rec], time' = time,
           \/ lanes' = lanes /\ \A s \in Pool!Sponsors : j \notin Pool!Holders(s)
           \/ lanes' = Pool!releaseSponsor(sponsorJob[j].at) \/ lanes' = Pool!benchSponsor(sponsorJob[j].at)
    PROVE  PInv'
  <1>1. lanes \in [Pool!Sponsors -> Lane] /\ sponsorJob[j].at \in Pool!Sponsors
    BY DEF PInv, Pool!PoolTypeOK, Lane
  <1>2. \A s \in Pool!Sponsors : s # sponsorJob[j].at => j \notin Pool!Holders(s)
    BY DEF Pool!Holders
  <1>3. lanes' \in [Pool!Sponsors -> Lane] /\ \A s \in Pool!Sponsors : lanes'[s].busy => lanes[s].busy /\ j \notin Pool!Holders(s)
    BY <1>1, <1>2, LaneSteps
  <1> QED
    BY <1>3, PInvJob

LEMMA RecordFacts ==
    ASSUME PInv, NEW j \in Pool!Jobs
    PROVE  /\ sponsorJob[j] \in SponsorJobRecord /\ sponsorJob \in [Pool!Jobs -> SponsorJobRecord]
           /\ Pool!Fresh \in SponsorJobRecord /\ [Pool!Fresh EXCEPT !.step = "ended"] \in SponsorJobRecord
           /\ j \notin BoundSponsorJobs \/ sponsorJob[j].step \notin {"attempt", "closing"} => \A s : j \notin Pool!Holders(s)
  <1>1. sponsorJob \in [Pool!Jobs -> SponsorJobRecord]
    BY DEF PInv, Pool!PoolTypeOK, SponsorJobRecord
  <1>2. Pool!Fresh \in SponsorJobRecord
    BY SponsorFacts, PoolAssumption DEF Pool!Fresh, SponsorJobRecord, Pool!Steps, Pool!Decisions
  <1>3. [Pool!Fresh EXCEPT !.step = "ended"] \in SponsorJobRecord
    BY <1>2 DEF SponsorJobRecord, Pool!Steps
  <1> QED
    BY <1>1, <1>2, <1>3 DEF Pool!Holders

\* The finalized job, between two awaits.
LEMMA PInvBound ==
    ASSUME PInv, NEW j \in Pool!Jobs,
           \/ Pool!Start(j) \/ Pool!Lease(j) \/ Pool!GiveUp(j) \/ Pool!Succeed(j) \/ Pool!recordOnGrant(j) \/ Pool!AttemptFails(j)
           \/ Pool!CloseFails(j)
    PROVE  PInv'
  <1> DEFINE q == sponsorJob[j]
  <1> USE RecordFacts DEF Pool!End
  <1>1. CASE Pool!Start(j)
    <2>1. PICK c \in SUBSET Pool!Sponsors : sponsorJob' = [sponsorJob EXCEPT ![j].step = "waiting", ![j].cand = c]
      BY <1>1 DEF Pool!Start, Pool!sponsorCandidates
    <2>2. sponsorJob' = [sponsorJob EXCEPT ![j] = [q EXCEPT !.step = "waiting", !.cand = c]]
      BY <2>1 DEF SponsorJobRecord
    <2>3. [q EXCEPT !.step = "waiting", !.cand = c] \in SponsorJobRecord
      BY DEF SponsorJobRecord, Pool!Steps
    <2> QED
      BY <1>1, <2>2, <2>3, LetsGo DEF Pool!Start
  <1>2. CASE Pool!Lease(j)
    <2>1. PICK atGate, s \in q.cand : lanes' = Pool!acquireSponsor(s) /\ sponsorJob' = [sponsorJob EXCEPT ![j].step = "attempt", ![j].at = s]
      BY <1>2 DEF Pool!Lease, Pool!pickFreeSponsor
    <2> DEFINE rec == [q EXCEPT !.step = "attempt", !.at = s]
    <2>2. s \in Pool!Sponsors
      BY DEF SponsorJobRecord
    <2>3. sponsorJob' = [sponsorJob EXCEPT ![j] = rec] /\ rec \in SponsorJobRecord /\ rec.step = "attempt" /\ rec.at = s
      BY <2>1, <2>2 DEF SponsorJobRecord, Pool!Steps
    <2>4. \A t \in Pool!Sponsors : lanes'[t].busy => t = s \/ lanes[t].busy
      BY <2>1, <2>2, LaneSteps
    <2>5. j \in BoundSponsorJobs /\ time' = time /\ lanes' \in [Pool!Sponsors -> Lane] /\ \A t : j \notin Pool!Holders(t)
      BY <1>2, <2>1, <2>2, LaneSteps DEF Pool!Lease
    <2> HIDE DEF rec
    <2> QED
      BY <2>3, <2>4, <2>5, PInvJob
  <1>3. CASE Pool!GiveUp(j) \/ Pool!recordOnGrant(j)
    BY <1>3, LetsGo DEF Pool!GiveUp, Pool!recordOnGrant
  <1>4. CASE Pool!Succeed(j)
    <2>1. [Pool!Fresh EXCEPT !.step = "recording", !.at = q.at] \in SponsorJobRecord
      BY DEF SponsorJobRecord, Pool!Steps
    <2> QED
      BY <1>4, <2>1, LetsGo DEF Pool!Succeed
  <1>5. CASE Pool!AttemptFails(j)
    <2>1. CASE lanes' = Pool!releaseSponsor(q.at) /\ sponsorJob' = [sponsorJob EXCEPT ![j] = [Pool!Fresh EXCEPT !.step = "ended"]]
      BY <1>5, <2>1, LetsGo DEF Pool!AttemptFails
    <2>2. ASSUME NEW d \in Pool!Decisions, lanes' = lanes, sponsorJob' = [sponsorJob EXCEPT ![j].step = "closing", ![j].err = d]
          PROVE  PInv'
      <3> DEFINE rec == [q EXCEPT !.step = "closing", !.err = d]
      <3>1. sponsorJob' = [sponsorJob EXCEPT ![j] = rec] /\ rec \in SponsorJobRecord /\ rec.step = "closing" /\ rec.at = q.at
        BY <2>2 DEF SponsorJobRecord, Pool!Steps
      <3>2. j \in BoundSponsorJobs /\ time' = time
        BY <1>5 DEF Pool!AttemptFails
      <3>3. lanes' \in [Pool!Sponsors -> Lane] /\ \A s \in Pool!Sponsors : s # q.at => j \notin Pool!Holders(s)
        BY <2>2 DEF PInv, Pool!PoolTypeOK, Lane, Pool!Holders
      <3> HIDE DEF rec
      <3> QED
        BY <2>2, <3>1, <3>2, <3>3, PInvJob
    <2> QED
      BY <1>5, <2>1, <2>2 DEF Pool!AttemptFails
  <1>6. CASE Pool!CloseFails(j)
    BY <1>6, LetsGo DEF Pool!CloseFails
  <1> QED
    BY <1>1, <1>2, <1>3, <1>4, <1>5, <1>6

\* A rebuild keeps the wallet.
LEMMA PInvRebuild ==
    ASSUME PInv, NEW j \in Pool!Jobs, Pool!Rebuild(j), time' = time, sponsorJob[j].step = "closing"
    PROVE  PInv'
  <1> DEFINE q == sponsorJob[j]
             rec == [q EXCEPT !.step = "attempt", !.attempt = @ + 1, !.err = Pool!Fresh.err]
  <1>1. q \in SponsorJobRecord /\ sponsorJob \in [Pool!Jobs -> SponsorJobRecord]
    BY RecordFacts
  <1>2. q.attempt + 1 \in 0..SponsorRetries
    <2>1. q.attempt \in Nat /\ SponsorRetries \in Nat
      BY <1>1, PoolAssumption DEF SponsorJobRecord
    <2>2. Pool!rebuildBudget(j) <= SponsorRetries /\ q.attempt < Pool!rebuildBudget(j) /\ Pool!rebuildBudget(j) \in Nat
      BY <2>1 DEF Pool!rebuildBudget, Pool!Rebuild
    <2> QED
      BY <2>1, <2>2
  <1>3. Pool!Fresh.err \in Pool!Decisions
    BY DEF Pool!Fresh, Pool!Decisions
  <1>4. rec \in SponsorJobRecord /\ rec.step = "attempt" /\ rec.at = q.at
    BY <1>1, <1>2, <1>3 DEF SponsorJobRecord, Pool!Steps
  <1>5. sponsorJob' = [sponsorJob EXCEPT ![j] = rec]
    BY <1>1 DEF Pool!Rebuild
  <1>6. lanes' \in [Pool!Sponsors -> Lane] /\ lanes' = lanes
    BY DEF PInv, Pool!PoolTypeOK, Lane, Pool!Rebuild
  <1> HIDE DEF rec
  <1>7. CASE j \in BoundSponsorJobs
    <2>1. \A s \in Pool!Sponsors : s # q.at => j \notin Pool!Holders(s)
      BY DEF Pool!Holders
    <2> QED
      BY <1>4, <1>5, <1>6, <1>7, <2>1, PInvJob
  <1>8. CASE j \notin BoundSponsorJobs
    <2>1. \A s \in Pool!Sponsors : j \notin Pool!Holders(s)
      BY <1>8 DEF Pool!Holders
    <2> QED
      BY <1>4, <1>5, <1>6, <2>1, PInvJob
  <1> QED
    BY <1>7, <1>8

LEMMA PInvFinalized ==
    ASSUME PInv, NEW j \in Pool!Jobs, Pool!executeSponsorFinalized(j)
    PROVE  PInv'
  <1> DEFINE q == sponsorJob[j]
             rec == [Pool!Fresh EXCEPT !.step = "waiting", !.cand = q.cand \ {q.at}]
  <1> USE RecordFacts DEF Pool!End
  <1>1. CASE Pool!Rebuild(j)
    BY <1>1, PInvRebuild DEF Pool!executeSponsorFinalized
  <1>2. CASE lanes' = Pool!releaseSponsor(q.at) /\ sponsorJob' = [sponsorJob EXCEPT ![j] = [Pool!Fresh EXCEPT !.step = "ended"]]
    BY <1>2, LetsGo DEF Pool!executeSponsorFinalized
  <1>3. CASE lanes' = Pool!benchSponsor(q.at) /\ sponsorJob' = [sponsorJob EXCEPT ![j] = rec]
    <2>1. rec \in SponsorJobRecord
      BY DEF SponsorJobRecord, Pool!Steps
    <2> HIDE DEF rec
    <2> QED
      BY <1>3, <2>1, LetsGo DEF Pool!executeSponsorFinalized
  <1> QED
    BY <1>1, <1>2, <1>3 DEF Pool!executeSponsorFinalized

\* The next candidate of an unbound job, which leases nothing.
LEMMA PInvCandidate ==
    ASSUME PInv, NEW j \in Pool!Jobs, NEW order \in Seq(Pool!Sponsors), NEW ls \in [Pool!Sponsors -> Lane],
           Pool!NextCandidate(j, order, ls), time' = time, \A s \in Pool!Sponsors : ls[s].busy => lanes[s].busy /\ j \notin Pool!Holders(s)
    PROVE  PInv'
  <1> USE RecordFacts DEF Pool!End
  <1>1. CASE order = <<>>
    BY <1>1, PInvJob DEF Pool!NextCandidate
  <1>2. CASE order # <<>>
    <2> DEFINE rec == [Pool!Fresh EXCEPT !.step = "attempt", !.at = Head(order), !.order = Tail(order)]
    <2>1. Head(order) \in Pool!Sponsors /\ Tail(order) \in Seq(Pool!Sponsors)
      BY <1>2, HeadTailProperties
    <2>2. rec \in SponsorJobRecord
      BY <2>1 DEF SponsorJobRecord, Pool!Steps
    <2>3. lanes' = Pool!touchSponsor(ls, Head(order)) /\ sponsorJob' = [sponsorJob EXCEPT ![j] = rec]
      BY <1>2 DEF Pool!NextCandidate
    <2> HIDE DEF rec
    <2>4. lanes' \in [Pool!Sponsors -> Lane] /\ \A s \in Pool!Sponsors : lanes'[s].busy => lanes[s].busy /\ j \notin Pool!Holders(s)
      BY <2>1, <2>3, TouchStep
    <2> QED
      BY <2>2, <2>3, <2>4, PInvJob
  <1> QED
    BY <1>1, <1>2

LEMMA PInvUnbound ==
    ASSUME PInv, NEW j \in Pool!Jobs,
           \/ Pool!StartUnbound(j) \/ Pool!SucceedUnbound(j) \/ Pool!AttemptUnboundFails(j) \/ Pool!executeSponsorUnbound(j)
    PROVE  PInv'
  <1> DEFINE q == sponsorJob[j]
  <1> USE RecordFacts DEF Pool!End
  <1>0. lanes \in [Pool!Sponsors -> Lane] /\ q.at \in Pool!Sponsors /\ q.order \in Seq(Pool!Sponsors)
    BY DEF PInv, Pool!PoolTypeOK, Lane
  <1>1. CASE Pool!StartUnbound(j)
    <2>1. PICK order : order \in Seq(Pool!Sponsors) /\ Pool!NextCandidate(j, order, lanes)
      <3>1. \A s \in Pool!Sponsors : <<s>> \in Seq(Pool!Sponsors)
        OBVIOUS
      <3> QED
        BY <1>1, <3>1, OrderType DEF Pool!StartUnbound
    <2>2. \A s \in Pool!Sponsors : j \notin Pool!Holders(s)
      BY <1>1 DEF Pool!StartUnbound
    <2> QED
      BY <1>0, <1>1, <2>1, <2>2, PInvCandidate DEF Pool!StartUnbound
  <1>2. \A s : j \notin Pool!Holders(s)
    BY <1>1, PoolAssumption DEF Pool!Holders, Pool!StartUnbound, Pool!SucceedUnbound, Pool!AttemptUnboundFails, Pool!executeSponsorUnbound
  <1>3. CASE Pool!SucceedUnbound(j)
    BY <1>2, <1>3, LetsGo DEF Pool!SucceedUnbound
  <1>4. CASE Pool!AttemptUnboundFails(j)
    <2>1. PICK d \in Pool!Decisions : \/ Pool!End(j) \/ sponsorJob' = [sponsorJob EXCEPT ![j].step = "closing", ![j].err = d]
      BY <1>4 DEF Pool!AttemptUnboundFails
    <2>2. [q EXCEPT !.step = "closing", !.err = d] \in SponsorJobRecord
      BY DEF SponsorJobRecord, Pool!Steps
    <2>3. CASE sponsorJob' = [sponsorJob EXCEPT ![j].step = "closing", ![j].err = d]
      <3>1. sponsorJob' = [sponsorJob EXCEPT ![j] = [q EXCEPT !.step = "closing", !.err = d]]
        BY <2>3
      <3> QED
        BY <1>2, <1>4, <2>2, <3>1, LetsGo DEF Pool!AttemptUnboundFails
    <2> QED
      BY <1>2, <1>4, <2>1, <2>3, LetsGo DEF Pool!AttemptUnboundFails
  <1>5. CASE Pool!executeSponsorUnbound(j)
    <2>1. CASE Pool!Rebuild(j)
      BY <1>5, <2>1, PInvRebuild DEF Pool!executeSponsorUnbound
    <2>2. CASE Pool!NextCandidate(j, q.order, Pool!benchSponsor(q.at))
      <3>1. Pool!benchSponsor(q.at) \in [Pool!Sponsors -> Lane] /\ \A s \in Pool!Sponsors : Pool!benchSponsor(q.at)[s].busy => lanes[s].busy
        BY <1>0, LaneSteps
      <3> QED
        BY <1>0, <1>2, <1>5, <2>2, <3>1, PInvCandidate DEF Pool!executeSponsorUnbound
    <2>3. CASE Pool!End(j) /\ UNCHANGED lanes
      BY <1>2, <1>5, <2>3, LetsGo DEF Pool!executeSponsorUnbound
    <2> QED
      BY <1>5, <2>1, <2>2, <2>3 DEF Pool!executeSponsorUnbound
  <1> QED
    BY <1>1, <1>3, <1>4, <1>5

LEMMA PInvNext == PInv /\ (Pool!PoolNext \/ UNCHANGED poolVars) => PInv'
  <1> SUFFICES ASSUME PInv, Pool!PoolNext \/ UNCHANGED poolVars PROVE PInv'
    OBVIOUS
  <1>1. ASSUME NEW j \in Pool!Jobs,
               \/ Pool!Start(j) \/ Pool!Lease(j) \/ Pool!GiveUp(j) \/ Pool!Succeed(j) \/ Pool!recordOnGrant(j)
               \/ Pool!AttemptFails(j) \/ Pool!CloseFails(j)
        PROVE  PInv'
    BY <1>1, PInvBound
  <1>2. ASSUME NEW j \in Pool!Jobs, Pool!executeSponsorFinalized(j) PROVE PInv'
    BY <1>2, PInvFinalized
  <1>3. ASSUME NEW j \in Pool!Jobs,
               \/ Pool!StartUnbound(j) \/ Pool!SucceedUnbound(j) \/ Pool!AttemptUnboundFails(j) \/ Pool!executeSponsorUnbound(j)
        PROVE  PInv'
    BY <1>3, PInvUnbound
  <1>4. CASE Pool!Tick
    BY <1>4, PoolAssumption DEF Pool!Tick, PInv, Pool!PoolTypeOK, Pool!BusyLaneHasHolder, Pool!Holders
  <1>5. CASE UNCHANGED poolVars
    BY <1>5 DEF poolVars, PInv, Pool!PoolTypeOK, Pool!BusyLaneHasHolder, Pool!Holders
  <1> QED
    BY <1>1, <1>2, <1>3, <1>4, <1>5 DEF Pool!PoolNext

PoolPart == part = "pool" => PInv

\* A leased lane always has the job that will free it, on every path of executeSponsorFinalized and executeSponsorUnbound,
\* for any pool of wallets and any number of jobs, rebuilds and pauses.
THEOREM BusyLaneHasHolderAlways == Spec => []BusyLaneHasHolder
  <1>1. Init => PoolPart
    BY PInvInit DEF Init, PoolPart
  <1>2. PoolPart /\ [Next]_vars => PoolPart'
    <2> SUFFICES ASSUME PoolPart, [Next]_vars PROVE PoolPart'
      OBVIOUS
    <2>1. CASE UNCHANGED <<part, poolVars>>
      BY <2>1, PInvNext DEF PoolPart, poolVars
    <2>2. CASE Only("pool") /\ Pool!PoolNext
      BY <2>2, PInvNext DEF PoolPart, Only
    <2>3. CASE part # "pool" /\ part' = part
      BY <2>3 DEF PoolPart
    <2>4. part = "pool" /\ Next => Only("pool") /\ Pool!PoolNext
      BY DEF Next, Only
    <2>5. Next => part' = part
      BY DEF Next, Only
    <2>6. UNCHANGED vars => UNCHANGED <<part, poolVars>>
      BY DEF vars
    <2> QED
      BY <2>1, <2>2, <2>3, <2>4, <2>5, <2>6
  <1>3. PoolPart => BusyLaneHasHolder
    BY DEF PoolPart, PInv, BusyLaneHasHolder
  <1> QED
    BY <1>1, <1>2, <1>3, PTL DEF Spec

-----------------------------------------------------------------------------
(* The policy of a sponsored call.                                         *)

GrantSays(g, c, k) == (g.contracts = {} \/ c \in g.contracts) /\ (g.circuits = {} \/ k \in g.circuits)

\* The two lists of contracts, when they are not disjoint, narrow to the list of what both name: the empty one still means "all".
LEMMA ContractsNarrow ==
    ASSUME NEW floor, NEW list, ~Policy!NoOverlap(floor, list), NEW c
    PROVE  (Policy!intersect(floor, list) = {} \/ c \in Policy!intersect(floor, list))
               <=> (floor = {} \/ c \in floor) /\ (list = {} \/ c \in list)
  BY DEF Policy!intersect, Policy!NoOverlap

\* what both say of a call, with the contracts already narrowed
Wanted(floor, list, contracts, c, k) ==
    /\ contracts = {} \/ c \in contracts
    /\ IF c \in DOMAIN floor.rules THEN k \in floor.rules[c] ELSE floor.circuits = {} \/ k \in floor.circuits
    /\ list = {} \/ k \in list

\* what the narrowed lists say of it
Kept(n, c, k) == (n.contracts = {} \/ c \in n.contracts) /\ Policy!circuitSponsorable(n, c, k)

\* Narrowing the circuits keeps a call exactly when both sides allow it, whichever of the platform's lists names its circuit.
LEMMA CircuitsNarrow ==
    ASSUME NEW floor, NEW list, NEW contracts, NEW c, NEW k
    PROVE  /\ Policy!narrowCircuits(floor, list, contracts).ok =>
                  (Kept(Policy!narrowCircuits(floor, list, contracts), c, k) <=> Wanted(floor, list, contracts, c, k))
           /\ ~Policy!narrowCircuits(floor, list, contracts).ok => ~Wanted(floor, list, contracts, c, k)
  <1> DEFINE flat == IF floor.circuits = {} THEN list ELSE list \cap floor.circuits
             narrowed == [a \in DOMAIN floor.rules |-> floor.rules[a] \cap list]
             usable == {a \in DOMAIN narrowed : narrowed[a] # {} /\ (contracts = {} \/ a \in contracts)}
             n == Policy!narrowCircuits(floor, list, contracts)
             wanted == Wanted(floor, list, contracts, c, k)
             Narrowed(cs, ks, rs) == [ok |-> TRUE, contracts |-> cs, circuits |-> ks, rules |-> rs]
  <1>1. CASE list = {}
    <2>1. n = Narrowed(contracts, floor.circuits, floor.rules)
      BY <1>1 DEF Policy!narrowCircuits
    <2> QED
      BY <1>1, <2>1 DEF Policy!circuitSponsorable, Kept, Wanted
  <1>2. CASE list # {} /\ flat # {}
    <2>1. n = Narrowed(contracts, flat, narrowed)
      BY <1>2 DEF Policy!narrowCircuits
    <2> QED
      BY <1>2, <2>1 DEF Policy!circuitSponsorable, Kept, Wanted
  <1>3. CASE list # {} /\ flat = {}
    <2>1. wanted => c \in usable
      BY <1>3 DEF Wanted
    <2>2. CASE usable = {}
      <3>1. n = Policy!Refused
        BY <1>3, <2>2 DEF Policy!narrowCircuits
      <3> QED
        BY <2>1, <2>2, <3>1 DEF Policy!Refused
    <2>3. CASE usable # {}
      <3>1. n = Narrowed(usable, list, [a \in usable |-> narrowed[a]])
        BY <1>3, <2>3 DEF Policy!narrowCircuits
      <3>2. c \in usable => (wanted <=> k \in narrowed[c])
        BY <1>3 DEF Wanted
      <3> QED
        BY <2>1, <2>3, <3>1, <3>2 DEF Policy!circuitSponsorable, Kept, Wanted
    <2> QED
      BY <2>2, <2>3
  <1> QED
    BY <1>1, <1>2, <1>3

\* Narrowing and the worker's check of one call.
LEMMA CallNarrows ==
    ASSUME NEW floor, NEW g, NEW shared, NEW c, NEW k
    PROVE  LET p == Policy!effectiveSponsorPolicy(floor, g, shared)
           IN  IF p.ok THEN Policy!callSponsorable(p, c, k) <=> (Policy!Says(floor, c, k) /\ GrantSays(g, c, k)) \/ c \in g.deployed
                       ELSE ~(Policy!Says(floor, c, k) /\ GrantSays(g, c, k))
  <1> DEFINE p == Policy!effectiveSponsorPolicy(floor, g, shared)
             cs == Policy!intersect(floor.contracts, g.contracts)
             n == Policy!narrowCircuits(floor, g.circuits, cs)
             wanted == Wanted(floor, g.circuits, cs, c, k)
  <1>1. CASE Policy!NoOverlap(floor.contracts, g.contracts)
    <2>1. ~p.ok
      BY <1>1 DEF Policy!effectiveSponsorPolicy, Policy!Refused
    <2>2. ~(Policy!Says(floor, c, k) /\ GrantSays(g, c, k))
      BY <1>1 DEF Policy!NoOverlap, Policy!Says, GrantSays
    <2> QED
      BY <2>1, <2>2
  <1>2. CASE ~Policy!NoOverlap(floor.contracts, g.contracts)
    <2>1. wanted <=> Policy!Says(floor, c, k) /\ GrantSays(g, c, k)
      BY <1>2, ContractsNarrow DEF Policy!Says, GrantSays, Wanted
    <2>2. (n.ok => (Kept(n, c, k) <=> wanted)) /\ (~n.ok => ~wanted)
      BY CircuitsNarrow
    <2>3. CASE ~n.ok
      <3>1. ~p.ok
        BY <2>3 DEF Policy!effectiveSponsorPolicy, Policy!Refused
      <3> QED
        BY <2>1, <2>2, <2>3, <3>1
    <2>4. CASE n.ok
      <3>1. /\ p.ok /\ p.contracts = (IF n.contracts = {} THEN {} ELSE n.contracts \cup g.deployed)
            /\ p.circuits = n.circuits /\ p.rules = n.rules /\ p.own = g.deployed
        BY <1>2, <2>4 DEF Policy!effectiveSponsorPolicy
      <3> HIDE DEF n, wanted
      <3> SUFFICES Policy!callSponsorable(p, c, k) <=> (Policy!Says(floor, c, k) /\ GrantSays(g, c, k)) \/ c \in g.deployed
        BY <3>1
      <3> HIDE DEF p
      <3>2. Policy!circuitSponsorable(p, c, k) <=> Policy!circuitSponsorable(n, c, k)
        BY <3>1 DEF Policy!circuitSponsorable
      <3>3. Policy!callSponsorable(p, c, k)
                <=> c \in g.deployed \/ Kept(n, c, k)
        BY <3>1, <3>2 DEF Policy!callSponsorable, Kept
      <3> QED
        BY <2>1, <2>2, <2>4, <3>3
    <2> QED
      BY <2>3, <2>4
  <1> QED
    BY <1>1, <1>2

LEMMA PolicyHolds == Policy!PolicyIsIntersection
  BY CallNarrows DEF Policy!PolicyIsIntersection, GrantSays

\* Narrowing (effectiveSponsorPolicy) and the worker's check of a call let exactly those calls through that the platform's policy and
\* the grant both allow, whatever their lists and rules are, and every call of a contract deployed under the grant.
THEOREM PolicyIsIntersectionAlways == Spec => []PolicyIsIntersection
  <1>1. PolicyIsIntersection
    BY PolicyHolds DEF PolicyIsIntersection
  <1> QED
    BY <1>1, PTL

-----------------------------------------------------------------------------
(* When a wallet counts as synced.                                         *)

WaitSteps == {"poll", "peek", "stream", "done"}
WaitResults == {"none", "synced", "stalled", "unreadable", "ceiling", "cancelled"}
SyncWait == [step : WaitSteps, tip : Nat, applied : Int, connected : BOOLEAN, since : Int, progressApplied : Int, lastProgressAt : Int,
             first : Nat, result : WaitResults]
SyncWatch == [step : {"idle", "tips"}, last : [applied : Int, at : Int, progressAt : Int, caughtUp : BOOLEAN], applied : Int,
              connected : BOOLEAN, since : Int, reports : Nat]

SyncShape ==
    /\ world \in SyncWorlds /\ syncTime \in 1..Len(world)
    /\ tips \in [block : Nat, blockAt : 0..syncTime, stream : Nat, streamAt : 0..syncTime]
    /\ wait \in SyncWait /\ watch \in SyncWatch
    /\ progress \in [applied : Int, at : Int, progressAt : Int, caughtUp : BOOLEAN] /\ progress.at <= syncTime

\* A cached tip is what the indexer had when it was read, and no newer block than it has now.
TipsAreRead ==
    /\ tips.block <= world[syncTime].block
    /\ tips.streamAt # 0 => tips.stream = world[tips.streamAt].events

\* What the wait and the watch have read is no older than the timeout of a read.
ReadsAreRecent ==
    /\ wait.tip <= world[syncTime].block
    /\ wait.step = "stream" => /\ wait.since \in 1..syncTime /\ syncTime <= wait.since + SyncReadLimit
                               /\ wait.applied = world[wait.since].applied /\ wait.connected = world[wait.since].connected
    /\ wait.step = "peek" => wait.since \in 1..syncTime /\ syncTime <= wait.since + SyncReadLimit
    /\ watch.step = "tips" => /\ watch.since \in 1..syncTime /\ syncTime <= watch.since + SyncReadLimit
                              /\ watch.applied = world[watch.since].applied /\ watch.connected = world[watch.since].connected

\* The wallet has been no further than at its first reading, or at the last progress.
ProgressIsMeasured ==
    /\ wait.lastProgressAt <= syncTime
    /\ wait.progressApplied >= 0
       => \E p \in 1..syncTime : wait.progressApplied <= world[p].applied /\ (p = wait.first \/ p <= wait.lastProgressAt)
    /\ wait.first = 0 <=> wait.progressApplied < 0
    /\ wait.result # "none" => wait.step = "done"

SyncInv == SyncShape /\ TipsAreRead /\ ReadsAreRecent /\ ProgressIsMeasured /\ Syncs!SyncedIsRecent /\ Syncs!StallIsReal

LEMMA SyncAssumptions ==
    /\ SyncGap \in Nat /\ SyncFreshness \in Nat /\ SyncStall \in Nat /\ SyncCeiling \in Nat /\ SyncPoll \in Nat /\ SyncWatchEvery \in Nat
    /\ SyncTipGrace \in Nat /\ SyncStreamAge \in Nat /\ SyncStreamGrace \in Nat /\ SyncReadLimit \in Nat /\ SyncReports \in Nat
  BY SyncAssumption

\* What happens outside, at each time there is.
LEMMA WorldFacts ==
    ASSUME NEW w \in SyncWorlds
    PROVE  /\ Len(w) \in Nat /\ Len(w) >= 1
           /\ \A t \in 1..Len(w) : w[t] \in [events : Nat, block : Nat, applied : Nat, connected : BOOLEAN]
           /\ \A t, u \in 1..Len(w) : t <= u => w[t].block <= w[u].block
  <1>1. w \in Seq([events : Nat, block : Nat, applied : Nat, connected : BOOLEAN]) /\ w # <<>>
    BY SyncAssumption
  <1>2. DOMAIN w = 1..Len(w) /\ Len(w) \in Nat /\ Len(w) # 0
    BY <1>1
  <1>3. \A t \in 1..Len(w) : w[t] \in [events : Nat, block : Nat, applied : Nat, connected : BOOLEAN]
    BY <1>1, ElementOfSeq
  <1>4. \A t, u \in DOMAIN w : t <= u => w[t].block <= w[u].block
    BY SyncAssumption
  <1> QED
    BY <1>2, <1>3, <1>4

LEMMA SyncInvInit == Syncs!SyncInit => SyncInv
  <1> SUFFICES ASSUME Syncs!SyncInit PROVE SyncInv
    OBVIOUS
  <1> USE SyncAssumptions DEF Syncs!SyncInit, Syncs!None, Syncs!Unknown, Syncs!NoProgress, Syncs!IdleWatch
  <1>1. SyncShape
    BY WorldFacts DEF SyncShape, SyncWait, SyncWatch, WaitSteps, WaitResults
  <1>2. TipsAreRead /\ ReadsAreRecent /\ ProgressIsMeasured
    BY WorldFacts DEF TipsAreRead, ReadsAreRecent, ProgressIsMeasured
  <1>3. Syncs!SyncedIsRecent /\ Syncs!StallIsReal
    BY DEF Syncs!SyncedIsRecent, Syncs!StallIsReal
  <1> QED
    BY <1>1, <1>2, <1>3 DEF SyncInv

\* A cache with one tip replaced.
LEMMA TipRecords ==
    ASSUME NEW S, NEW T, NEW c \in [block : S, blockAt : T, stream : S, streamAt : T], NEW v \in S, NEW n \in T,
           NEW b, NEW s, b = [c EXCEPT !.block = v, !.blockAt = n], s = [c EXCEPT !.stream = v, !.streamAt = n]
    PROVE  /\ b \in [block : S, blockAt : T, stream : S, streamAt : T]
           /\ b.block = v /\ b.stream = c.stream /\ b.streamAt = c.streamAt
           /\ s \in [block : S, blockAt : T, stream : S, streamAt : T]
           /\ s.block = c.block /\ s.stream = v /\ s.streamAt = n
  OBVIOUS

\* A read of the block tip gives no newer block than there is, and leaves a cache that holds none.
LEMMA BlockReads ==
    ASSUME SyncInv, NEW read \in Syncs!getIndexerTip
    PROVE  /\ read.tip \in Nat /\ read.tip <= world[syncTime].block
           /\ read.tips \in [block : Nat, blockAt : 0..syncTime, stream : Nat, streamAt : 0..syncTime]
           /\ read.tips.block <= world[syncTime].block /\ read.tips.stream = tips.stream /\ read.tips.streamAt = tips.streamAt
  <1>1. world[syncTime].block \in Nat
    BY WorldFacts DEF SyncInv, SyncShape
  <1>2. tips \in [block : Nat, blockAt : 0..syncTime, stream : Nat, streamAt : 0..syncTime] /\ syncTime \in Nat \ {0}
    BY WorldFacts DEF SyncInv, SyncShape
  <1>3. tips.block <= world[syncTime].block
    BY DEF SyncInv, TipsAreRead
  <1>4. CASE read = [tip |-> world[syncTime].block, tips |-> [tips EXCEPT !.block = world[syncTime].block, !.blockAt = syncTime]]
    <2> DEFINE b == world[syncTime].block
               new == [tips EXCEPT !.block = b, !.blockAt = syncTime]
    <2>0. b \in Nat /\ syncTime \in 0..syncTime
      BY <1>1, <1>2
    <2>1. new \in [block : Nat, blockAt : 0..syncTime, stream : Nat, streamAt : 0..syncTime]
          /\ new.block = b /\ new.stream = tips.stream /\ new.streamAt = tips.streamAt
      <3> HIDE DEF b
      <3> QED
        BY <1>2, <2>0, TipRecords
    <2>3. read.tips = new /\ read.tip = b /\ b \in Nat
      BY <1>1, <1>4
    <2> HIDE DEF new, b
    <2>4. read.tip <= b
      BY <2>3
    <2> QED
      BY <2>1, <2>3, <2>4 DEF b
  <1>5. CASE read.tips = tips /\ (read.tip = tips.block \/ read.tip = 0)
    BY <1>1, <1>2, <1>3, <1>5
  <1> QED
    BY <1>4, <1>5 DEF Syncs!getIndexerTip, Syncs!Now, Syncs!None

\* A read of the stream tip gives what the indexer had within the grace, or nothing.
LEMMA StreamReads ==
    ASSUME SyncInv, NEW read \in Syncs!getDustStreamTip
    PROVE  /\ read.tip \in Int
           /\ read.tip > 0 => \E t \in 1..syncTime : t >= syncTime - Syncs!Oldest /\ read.tip = world[t].events
           /\ read.tips \in [block : Nat, blockAt : 0..syncTime, stream : Nat, streamAt : 0..syncTime]
           /\ read.tips.streamAt # 0 => read.tips.stream = world[read.tips.streamAt].events
           /\ read.tips.block = tips.block
  <1>1. world[syncTime].events \in Nat
    BY WorldFacts DEF SyncInv, SyncShape
  <1>2. tips \in [block : Nat, blockAt : 0..syncTime, stream : Nat, streamAt : 0..syncTime] /\ syncTime \in Nat \ {0}
    BY WorldFacts DEF SyncInv, SyncShape
  <1>3. tips.streamAt # 0 => tips.stream = world[tips.streamAt].events
    BY DEF SyncInv, TipsAreRead
  <1>4. Syncs!Oldest \in Nat /\ Syncs!Oldest >= SyncStreamAge /\ Syncs!Oldest >= SyncStreamGrace
    BY SyncAssumptions DEF Syncs!Oldest
  <1>5. CASE read = [tip |-> world[syncTime].events, tips |-> [tips EXCEPT !.stream = world[syncTime].events, !.streamAt = syncTime]]
    <2> DEFINE e == world[syncTime].events
               new == [tips EXCEPT !.stream = e, !.streamAt = syncTime]
    <2>0. e \in Nat /\ syncTime \in 0..syncTime
      BY <1>1, <1>2
    <2>1. new \in [block : Nat, blockAt : 0..syncTime, stream : Nat, streamAt : 0..syncTime]
          /\ new.stream = e /\ new.streamAt = syncTime /\ new.block = tips.block
      <3> HIDE DEF e
      <3> QED
        BY <1>2, <2>0, TipRecords
    <2>3. syncTime \in 1..syncTime /\ syncTime >= syncTime - Syncs!Oldest
      BY <1>2, <1>4
    <2>4. read.tips = new /\ read.tip = e /\ e \in Nat
      BY <1>1, <1>5
    <2> HIDE DEF new
    <2> QED
      BY <1>2, <2>1, <2>3, <2>4
  <1>6. CASE read = [tip |-> tips.stream, tips |-> tips] /\ tips.streamAt # 0 /\ syncTime - tips.streamAt < SyncStreamAge
    BY <1>2, <1>3, <1>4, <1>6, SyncAssumptions
  <1>7. CASE read = [tip |-> Syncs!staleStreamTip, tips |-> tips]
    BY <1>2, <1>3, <1>4, <1>7, SyncAssumptions DEF Syncs!staleStreamTip, Syncs!None, Syncs!Unknown
  <1> QED
    BY <1>5, <1>6, <1>7 DEF Syncs!getDustStreamTip, Syncs!Now, Syncs!None

\* A verdict that rests on these reads is one of SyncedIsRecent.
LEMMA VerdictIsRecent ==
    ASSUME SyncInv, NEW applied \in Int, NEW connected \in BOOLEAN, NEW since \in 1..syncTime, NEW stream \in Int, NEW newest \in Nat,
           syncTime <= since + SyncReadLimit, applied = world[since].applied, connected = world[since].connected,
           newest <= world[syncTime].block, stream > 0 => \E t \in 1..syncTime : t >= syncTime - Syncs!Oldest /\ stream = world[t].events,
           Syncs!isGenuinelyCaughtUp(connected, applied, stream, newest)
    PROVE  /\ \E t \in Syncs!Since(Syncs!Oldest + SyncReadLimit) : applied >= world[t].events - SyncGap
           /\ \E t \in Syncs!Since(SyncReadLimit) : applied = world[t].applied /\ world[t].connected
           /\ world[syncTime].block >= syncTime - SyncFreshness
  <1>0. syncTime \in Nat /\ world[syncTime].block \in Nat
    BY WorldFacts DEF SyncInv, SyncShape
  <1>1. connected /\ stream > 0 /\ applied >= stream - SyncGap /\ newest # 0 /\ syncTime - newest <= SyncFreshness
    BY DEF Syncs!isGenuinelyCaughtUp, Syncs!fresh, Syncs!None
  <1>2. PICK t \in 1..syncTime : t >= syncTime - Syncs!Oldest /\ stream = world[t].events
    BY <1>1
  <1>3. t \in Syncs!Since(Syncs!Oldest + SyncReadLimit)
    BY <1>0, <1>2, SyncAssumptions DEF Syncs!Since, Syncs!Oldest
  <1>4. since \in Syncs!Since(SyncReadLimit)
    BY <1>0, SyncAssumptions DEF Syncs!Since
  <1>5. world[syncTime].block >= syncTime - SyncFreshness
    BY <1>0, <1>1, SyncAssumptions
  <1> QED
    BY <1>1, <1>2, <1>3, <1>4, <1>5

\* A read by one of the two, and a step of the wait that measures nothing and gives up no sync as stalled.
LEMMA SyncInvWaits ==
    ASSUME SyncInv, UNCHANGED <<world, syncTime, watch, progress>>, wait' \in SyncWait,
           tips' \in [block : Nat, blockAt : 0..syncTime, stream : Nat, streamAt : 0..syncTime],
           tips'.block <= world[syncTime].block, tips'.streamAt # 0 => tips'.stream = world[tips'.streamAt].events,
           wait'.tip <= world[syncTime].block,
           wait'.step = "stream" => /\ wait'.since = syncTime /\ wait'.applied = world[syncTime].applied
                                    /\ wait'.connected = world[syncTime].connected,
           wait'.step = "peek" => wait'.since = syncTime,
           wait'.progressApplied = wait.progressApplied, wait'.lastProgressAt = wait.lastProgressAt, wait'.first = wait.first,
           wait'.result # "none" => wait'.step = "done", wait'.result # "stalled"
    PROVE  SyncInv'
  <1>0. syncTime \in 1..syncTime /\ syncTime <= syncTime + SyncReadLimit
    BY SyncAssumptions, WorldFacts DEF SyncInv, SyncShape
  <1>1. SyncShape'
    BY DEF SyncInv, SyncShape
  <1>2. TipsAreRead'
    BY DEF TipsAreRead
  <1>3. ReadsAreRecent'
    BY <1>0 DEF SyncInv, ReadsAreRecent
  <1>4. ProgressIsMeasured'
    BY DEF SyncInv, ProgressIsMeasured
  <1>5. Syncs!SyncedIsRecent' /\ Syncs!StallIsReal'
    BY DEF SyncInv, Syncs!SyncedIsRecent, Syncs!StallIsReal, Syncs!Since, Syncs!Oldest, Syncs!Now
  <1> QED
    BY <1>1, <1>2, <1>3, <1>4, <1>5 DEF SyncInv

\* What a wait becomes: past its first read, past its second, ended, and asleep.
LEMMA WaitPolled ==
    ASSUME wait \in SyncWait, NEW newest \in Nat, NEW since \in Int, wait' = [wait EXCEPT !.step = "peek", !.tip = newest, !.since = since]
    PROVE  /\ wait' \in SyncWait /\ wait'.step = "peek" /\ wait'.tip = newest /\ wait'.since = since /\ wait'.result = wait.result
           /\ wait'.progressApplied = wait.progressApplied /\ wait'.lastProgressAt = wait.lastProgressAt /\ wait'.first = wait.first
  <1>1. "peek" \in WaitSteps
    BY DEF WaitSteps
  <1> QED
    BY <1>1 DEF SyncWait

LEMMA WaitPeeked ==
    ASSUME wait \in SyncWait, NEW applied \in Int, NEW connected \in BOOLEAN, NEW since \in Int,
           wait' = [wait EXCEPT !.step = "stream", !.applied = applied, !.connected = connected, !.since = since]
    PROVE  /\ wait' \in SyncWait /\ wait'.step = "stream" /\ wait'.tip = wait.tip /\ wait'.since = since /\ wait'.result = wait.result
           /\ wait'.applied = applied /\ wait'.connected = connected
           /\ wait'.progressApplied = wait.progressApplied /\ wait'.lastProgressAt = wait.lastProgressAt /\ wait'.first = wait.first
  <1>1. "stream" \in WaitSteps
    BY DEF WaitSteps
  <1> QED
    BY <1>1 DEF SyncWait

LEMMA WaitUnread ==
    ASSUME NEW w \in SyncWait
    PROVE  LET v == Syncs!Unread(w) IN
           /\ v \in SyncWait /\ v.tip = 0 /\ v.result = w.result
           /\ v.progressApplied = w.progressApplied /\ v.lastProgressAt = w.lastProgressAt /\ v.first = w.first
  <1> DEFINE none == Syncs!None
             unknown == Syncs!Unknown
             v == [w EXCEPT !.tip = none, !.applied = unknown, !.connected = FALSE]
  <1>1. none \in Nat /\ unknown \in Int /\ FALSE \in BOOLEAN /\ none = 0 /\ Syncs!Unread(w) = v
    BY DEF Syncs!None, Syncs!Unknown, Syncs!Unread
  <1>2. v \in SyncWait /\ v.tip = none /\ v.result = w.result
        /\ v.progressApplied = w.progressApplied /\ v.lastProgressAt = w.lastProgressAt /\ v.first = w.first
    <2> HIDE DEF none, unknown
    <2> QED
      BY <1>1 DEF SyncWait
  <1> HIDE DEF v
  <1> QED
    BY <1>1, <1>2

LEMMA WaitEnded ==
    ASSUME wait \in SyncWait, NEW result \in {"synced", "stalled", "unreadable", "ceiling", "cancelled"}, NEW v, v = Syncs!Ended(result)
    PROVE  /\ v \in SyncWait /\ v.step = "done" /\ v.tip = 0 /\ v.result = result
           /\ v.progressApplied = wait.progressApplied /\ v.lastProgressAt = wait.lastProgressAt /\ v.first = wait.first
  <1> DEFINE u == Syncs!Unread(wait)
  <1>1. v = [u EXCEPT !.step = "done", !.since = 0, !.result = result]
    BY DEF Syncs!Ended
  <1>2. u \in SyncWait /\ u.tip = 0
        /\ u.progressApplied = wait.progressApplied /\ u.lastProgressAt = wait.lastProgressAt /\ u.first = wait.first
    BY WaitUnread
  <1>3. "done" \in WaitSteps /\ result \in WaitResults /\ 0 \in Int
    BY DEF WaitSteps, WaitResults
  <1> HIDE DEF u
  <1> QED
    BY <1>1, <1>2, <1>3 DEF SyncWait

LEMMA WaitSlept ==
    ASSUME wait \in SyncWait, syncTime \in Int, NEW v, v = Syncs!Slept
    PROVE  /\ v \in SyncWait /\ v.step = "poll" /\ v.tip = 0 /\ v.result = wait.result
           /\ v.progressApplied = wait.progressApplied /\ v.lastProgressAt = wait.lastProgressAt /\ v.first = wait.first
  <1> DEFINE u == Syncs!Unread(wait)
  <1>1. v = [u EXCEPT !.step = "poll", !.since = syncTime]
    BY DEF Syncs!Slept
  <1>2. u \in SyncWait /\ u.tip = 0 /\ u.result = wait.result
        /\ u.progressApplied = wait.progressApplied /\ u.lastProgressAt = wait.lastProgressAt /\ u.first = wait.first
    BY WaitUnread
  <1>3. "poll" \in WaitSteps
    BY DEF WaitSteps
  <1> HIDE DEF u
  <1> QED
    BY <1>1, <1>2, <1>3 DEF SyncWait

LEMMA SyncInvPolls ==
    ASSUME SyncInv, Syncs!poll \/ Syncs!throwIfRpcCancelled \/ Syncs!peekFacadeState
    PROVE  SyncInv'
  <1>0. /\ wait \in SyncWait /\ syncTime \in Nat /\ syncTime \in Int /\ world[syncTime].block \in Nat /\ world[syncTime].applied \in Nat
        /\ world[syncTime].connected \in BOOLEAN
        /\ tips \in [block : Nat, blockAt : 0..syncTime, stream : Nat, streamAt : 0..syncTime]
        /\ tips.block <= world[syncTime].block /\ (tips.streamAt # 0 => tips.stream = world[tips.streamAt].events)
        /\ wait.tip <= world[syncTime].block /\ (wait.result # "none" => wait.step = "done")
    BY WorldFacts DEF SyncInv, SyncShape, TipsAreRead, ReadsAreRecent, ProgressIsMeasured
  <1>1. ASSUME NEW result \in {"unreadable", "ceiling", "cancelled"}, wait' = Syncs!Ended(result)
        PROVE  /\ wait' \in SyncWait /\ wait'.step = "done" /\ wait'.tip = 0 /\ wait'.result = result
               /\ wait'.progressApplied = wait.progressApplied /\ wait'.lastProgressAt = wait.lastProgressAt /\ wait'.first = wait.first
    BY <1>0, <1>1, WaitEnded
  <1>2. CASE Syncs!throwIfRpcCancelled
    BY <1>0, <1>1, <1>2, SyncInvWaits DEF Syncs!throwIfRpcCancelled
  <1>3. CASE Syncs!poll
    <2>1. PICK read \in Syncs!getIndexerTip :
             /\ tips' = read.tips
             /\ wait' = Syncs!Ended("ceiling") \/ wait' = [wait EXCEPT !.step = "peek", !.tip = read.tip, !.since = syncTime]
      BY <1>3 DEF Syncs!poll
    <2>2. CASE wait' = Syncs!Ended("ceiling")
      <3>1. 0 <= world[syncTime].block
        BY <1>0
      <3>2. /\ read.tips \in [block : Nat, blockAt : 0..syncTime, stream : Nat, streamAt : 0..syncTime]
            /\ read.tips.block <= world[syncTime].block /\ read.tips.stream = tips.stream /\ read.tips.streamAt = tips.streamAt
        BY BlockReads
      <3>3. UNCHANGED <<world, syncTime, watch, progress>>
        BY <1>3 DEF Syncs!poll
      <3> QED
        BY <1>0, <1>1, <2>1, <2>2, <3>1, <3>2, <3>3, SyncInvWaits
    <2>3. CASE wait' = [wait EXCEPT !.step = "peek", !.tip = read.tip, !.since = syncTime]
      <3> DEFINE tp == read.tip
      <3>1. tp \in Nat /\ tp <= world[syncTime].block
        BY BlockReads
      <3>2. wait' \in SyncWait /\ wait'.step = "peek" /\ wait'.tip = tp /\ wait'.since = syncTime /\ wait'.result = wait.result
            /\ wait'.progressApplied = wait.progressApplied /\ wait'.lastProgressAt = wait.lastProgressAt /\ wait'.first = wait.first
        <4>1. wait' = [wait EXCEPT !.step = "peek", !.tip = tp, !.since = syncTime]
          BY <2>3
        <4> HIDE DEF tp
        <4> QED
          BY <1>0, <3>1, <4>1, WaitPolled
      <3>3. wait.result = "none"
        BY <1>0, <1>3 DEF Syncs!poll
      <3> QED
        BY <1>0, <1>3, <2>1, <3>1, <3>2, <3>3, BlockReads, SyncInvWaits DEF Syncs!poll
    <2> QED
      BY <2>1, <2>2, <2>3
  <1>4. CASE Syncs!peekFacadeState
    <2>1. CASE wait' = [wait EXCEPT !.step = "stream", !.applied = Syncs!Now.applied, !.connected = Syncs!Now.connected, !.since = syncTime]
      <3> DEFINE a == world[syncTime].applied
                 c == world[syncTime].connected
      <3>1. wait' = [wait EXCEPT !.step = "stream", !.applied = a, !.connected = c, !.since = syncTime]
        BY <2>1 DEF Syncs!Now
      <3>2. a \in Int /\ c \in BOOLEAN
        BY <1>0
      <3>3. wait' \in SyncWait /\ wait'.step = "stream" /\ wait'.tip = wait.tip /\ wait'.since = syncTime /\ wait'.result = wait.result
            /\ wait'.applied = a /\ wait'.connected = c
            /\ wait'.progressApplied = wait.progressApplied /\ wait'.lastProgressAt = wait.lastProgressAt /\ wait'.first = wait.first
        <4> HIDE DEF a, c
        <4> QED
          BY <1>0, <3>1, <3>2, WaitPeeked
      <3>4. wait.result = "none"
        BY <1>0, <1>4 DEF Syncs!peekFacadeState
      <3> QED
        BY <1>0, <1>4, <3>3, <3>4, SyncInvWaits DEF Syncs!peekFacadeState
    <2>2. CASE wait' = Syncs!Ended("unreadable")
      BY <1>0, <1>1, <1>4, <2>2, SyncInvWaits DEF Syncs!peekFacadeState
    <2>3. CASE wait' = Syncs!Slept
      <3>1. wait.result = "none"
        BY <1>0, <1>4 DEF Syncs!peekFacadeState
      <3> QED
        BY <1>0, <1>4, <2>3, <3>1, WaitSlept, SyncInvWaits DEF Syncs!peekFacadeState
    <2> QED
      BY <1>4, <2>1, <2>2, <2>3 DEF Syncs!peekFacadeState
  <1> QED
    BY <1>2, <1>3, <1>4

LEMMA SyncInvJudges ==
    ASSUME SyncInv, Syncs!judge
    PROVE  SyncInv'
  <1>0. /\ wait \in SyncWait /\ syncTime \in Nat \ {0} /\ syncTime \in Int
        /\ wait.since \in 1..syncTime /\ syncTime <= wait.since + SyncReadLimit
        /\ wait.applied = world[wait.since].applied /\ wait.connected = world[wait.since].connected
        /\ wait.applied \in Nat /\ wait.connected \in BOOLEAN /\ wait.tip \in Nat /\ wait.tip <= world[syncTime].block
        /\ wait.lastProgressAt \in Int /\ wait.lastProgressAt <= syncTime /\ wait.progressApplied \in Int /\ wait.first \in Nat
        /\ (wait.first = 0 <=> wait.progressApplied < 0) /\ wait.result = "none"
        /\ \A t \in 1..syncTime : world[t].applied \in Nat
        /\ world[syncTime].block \in Nat
    <2>1. wait.step = "stream" /\ wait \in SyncWait /\ syncTime \in Nat \ {0} /\ wait.since \in 1..syncTime
      BY WorldFacts DEF Syncs!judge, SyncInv, SyncShape, ReadsAreRecent
    <2>2. /\ \A t \in 1..syncTime : world[t].applied \in Nat /\ world[t].connected \in BOOLEAN
          /\ world[syncTime].block \in Nat
      BY WorldFacts DEF SyncInv, SyncShape
    <2>3. wait.applied \in Nat /\ wait.connected \in BOOLEAN /\ wait.result = "none"
      BY <2>1, <2>2 DEF SyncInv, ReadsAreRecent, ProgressIsMeasured
    <2>4. wait.tip \in Nat /\ wait.lastProgressAt \in Int /\ wait.progressApplied \in Int /\ wait.first \in Nat
      BY <2>1 DEF SyncWait
    <2>5. /\ syncTime <= wait.since + SyncReadLimit
          /\ wait.applied = world[wait.since].applied /\ wait.connected = world[wait.since].connected
          /\ wait.tip <= world[syncTime].block
      BY <2>1 DEF SyncInv, ReadsAreRecent
    <2>6. wait.lastProgressAt <= syncTime /\ (wait.first = 0 <=> wait.progressApplied < 0)
      BY DEF SyncInv, ProgressIsMeasured
    <2> QED
      BY <2>1, <2>2, <2>3, <2>4, <2>5, <2>6
  <1> DEFINE moved == wait.progressApplied >= 0 /\ wait.applied > wait.progressApplied
             at == IF moved THEN syncTime ELSE wait.lastProgressAt
             first == IF wait.first = 0 THEN wait.since ELSE wait.first
  <1>1. PICK read \in Syncs!getDustStreamTip :
           LET caughtUp == Syncs!isGenuinelyCaughtUp(wait.connected, wait.applied, read.tip, wait.tip) IN
           /\ tips' = read.tips
           /\ wait' = [(IF caughtUp THEN Syncs!Ended("synced") ELSE IF Syncs!Stalled(at) THEN Syncs!Ended("stalled") ELSE Syncs!Slept)
                       EXCEPT !.progressApplied = wait.applied, !.lastProgressAt = at, !.first = IF @ = 0 THEN wait.since ELSE @]
           /\ progress' = [applied |-> wait.applied, at |-> syncTime, progressAt |-> at, caughtUp |-> caughtUp]
    BY DEF Syncs!judge, Syncs!None
  <1> DEFINE caughtUp == Syncs!isGenuinelyCaughtUp(wait.connected, wait.applied, read.tip, wait.tip)
             u == IF caughtUp THEN Syncs!Ended("synced") ELSE IF Syncs!Stalled(at) THEN Syncs!Ended("stalled") ELSE Syncs!Slept
  <1>2. /\ u \in SyncWait /\ u.tip = 0 /\ u.first = wait.first /\ u.step \in {"done", "poll"}
        /\ u.step = "done" <=> u.result # "none"
        /\ u.result = "stalled" => Syncs!Stalled(at)
    <2>1. CASE caughtUp
      BY <1>0, <2>1, WaitEnded
    <2>2. CASE ~caughtUp /\ Syncs!Stalled(at)
      BY <1>0, <2>2, WaitEnded
    <2>3. CASE ~caughtUp /\ ~Syncs!Stalled(at)
      BY <1>0, <2>3, WaitSlept
    <2> QED
      BY <2>1, <2>2, <2>3
  <1>3. /\ wait' \in SyncWait /\ wait'.step = u.step /\ wait'.tip = 0 /\ wait'.result = u.result
        /\ wait'.progressApplied = wait.applied /\ wait'.lastProgressAt = at /\ wait'.first = first
    <2>1. wait' = [u EXCEPT !.progressApplied = wait.applied, !.lastProgressAt = at, !.first = first]
      BY <1>1, <1>2
    <2> DEFINE a == wait.applied
    <2>2. a \in Int /\ at \in Int /\ first \in Nat
      BY <1>0
    <2> HIDE DEF u, a, at, first
    <2>3. /\ wait' \in SyncWait /\ wait'.step = u.step /\ wait'.tip = u.tip /\ wait'.result = u.result
          /\ wait'.progressApplied = a /\ wait'.lastProgressAt = at /\ wait'.first = first
      <3>1. wait' = [u EXCEPT !.progressApplied = a, !.lastProgressAt = at, !.first = first]
        BY <2>1 DEF a
      <3> QED
        BY <1>2, <2>2, <3>1 DEF SyncWait
    <2> QED
      BY <1>2, <2>3 DEF a
  <1>4. progress' = [applied |-> wait.applied, at |-> syncTime, progressAt |-> at, caughtUp |-> caughtUp] /\ tips' = read.tips
        /\ UNCHANGED <<world, syncTime, watch>> /\ caughtUp \in BOOLEAN /\ at \in Int /\ at <= syncTime
    BY <1>0, <1>1 DEF Syncs!judge, Syncs!isGenuinelyCaughtUp
  <1>5. /\ read.tips \in [block : Nat, blockAt : 0..syncTime, stream : Nat, streamAt : 0..syncTime]
        /\ read.tips.streamAt # 0 => read.tips.stream = world[read.tips.streamAt].events
        /\ read.tips.block = tips.block /\ tips.block <= world[syncTime].block
    BY StreamReads DEF SyncInv, TipsAreRead
  <1>6. SyncShape'
    <2>1. progress' \in [applied : Int, at : Int, progressAt : Int, caughtUp : BOOLEAN] /\ progress'.at = syncTime
      <3> HIDE DEF caughtUp, at
      <3> QED
        BY <1>0, <1>4
    <2> QED
      BY <1>0, <1>3, <1>4, <1>5, <2>1 DEF SyncInv, SyncShape
  <1>7. TipsAreRead'
    BY <1>4, <1>5 DEF TipsAreRead
  <1>8. ReadsAreRecent'
    BY <1>0, <1>2, <1>3, <1>4 DEF SyncInv, ReadsAreRecent
  <1>9. PICK p \in 1..syncTime : wait.applied <= world[p].applied /\ (p = first \/ p <= at)
    <2>1. CASE wait.progressApplied < 0
      BY <1>0, <2>1
    <2>2. CASE moved
      BY <1>0, <2>2
    <2>3. CASE wait.progressApplied >= 0 /\ ~moved
      <3>1. PICK p \in 1..syncTime : wait.progressApplied <= world[p].applied /\ (p = wait.first \/ p <= wait.lastProgressAt)
        BY <2>3 DEF SyncInv, ProgressIsMeasured
      <3> QED
        BY <1>0, <2>3, <3>1
    <2> QED
      BY <1>0, <2>1, <2>2, <2>3
  <1>10. ProgressIsMeasured'
    BY <1>0, <1>2, <1>3, <1>4, <1>9 DEF ProgressIsMeasured
  <1>11. Syncs!SyncedIsRecent'
    <2> SUFFICES ASSUME caughtUp
                 PROVE  /\ \E t \in Syncs!Since(Syncs!Oldest + SyncReadLimit) : wait.applied >= world[t].events - SyncGap
                        /\ \E t \in Syncs!Since(SyncReadLimit) : wait.applied = world[t].applied /\ world[t].connected
                        /\ world[syncTime].block >= syncTime - SyncFreshness
      BY <1>4 DEF Syncs!SyncedIsRecent, Syncs!Since, Syncs!Oldest, Syncs!Now
    <2>1. read.tip \in Int /\ (read.tip > 0 => \E t \in 1..syncTime : t >= syncTime - Syncs!Oldest /\ read.tip = world[t].events)
      BY StreamReads
    <2> QED
      BY <1>0, <2>1, VerdictIsRecent
  <1>12. Syncs!StallIsReal'
    <2> SUFFICES ASSUME u.result = "stalled"
                 PROVE  \E r, q \in 1..syncTime : /\ q >= syncTime - SyncReadLimit /\ (q - r >= SyncStall - SyncReadLimit \/ r = first)
                                                  /\ world[q].applied <= world[r].applied
      BY <1>3, <1>4 DEF Syncs!StallIsReal
    <2>1. SyncStall > 0 /\ syncTime - at > SyncStall
      BY <1>2 DEF Syncs!Stalled
    <2>2. wait.since >= syncTime - SyncReadLimit /\ world[wait.since].applied <= world[p].applied
      BY <1>0, <1>9, SyncAssumptions
    <2>3. wait.since - p >= SyncStall - SyncReadLimit \/ p = first
      BY <1>0, <1>4, <1>9, <2>1, SyncAssumptions
    <2> QED
      BY <1>0, <2>2, <2>3
  <1> QED
    BY <1>6, <1>7, <1>8, <1>10, <1>11, <1>12 DEF SyncInv

LEMMA SyncInvWatches ==
    ASSUME SyncInv, Syncs!progressWatchTick \/ Syncs!watchReports
    PROVE  SyncInv'
  <1>0. /\ syncTime \in Nat \ {0} /\ syncTime \in 1..syncTime /\ watch \in SyncWatch
        /\ \A t \in 1..syncTime : world[t].applied \in Nat /\ world[t].connected \in BOOLEAN
        /\ world[syncTime].block \in Nat
    <2>1. world \in SyncWorlds /\ syncTime \in 1..Len(world) /\ watch \in SyncWatch
      BY DEF SyncInv, SyncShape
    <2>2. Len(world) \in Nat /\ \A t \in 1..Len(world) : /\ world[t].applied \in Nat /\ world[t].connected \in BOOLEAN
                                                        /\ world[t].block \in Nat
      BY <2>1, WorldFacts
    <2>3. syncTime \in Nat \ {0} /\ syncTime \in 1..syncTime /\ 1..syncTime \subseteq 1..Len(world)
      BY <2>1, <2>2
    <2> QED
      BY <2>1, <2>2, <2>3
  <1>1. CASE Syncs!progressWatchTick
    <2>1. watch' \in SyncWatch /\ watch'.since = syncTime /\ watch'.applied = world[syncTime].applied
          /\ watch'.connected = world[syncTime].connected
      <3> DEFINE a == world[syncTime].applied
                 c == world[syncTime].connected
      <3>1. a \in Int /\ c \in BOOLEAN /\ syncTime \in Int /\ watch.reports + 1 \in Nat
            /\ progress \in [applied : Int, at : Int, progressAt : Int, caughtUp : BOOLEAN]
        <4>1. watch.reports \in Nat
          BY <1>0 DEF SyncWatch
        <4>2. progress \in [applied : Int, at : Int, progressAt : Int, caughtUp : BOOLEAN]
          BY DEF SyncInv, SyncShape
        <4>3. a \in Int /\ c \in BOOLEAN /\ syncTime \in Int
          BY <1>0
        <4> QED
          BY <4>1, <4>2, <4>3
      <3>2. watch' = [step |-> "tips", last |-> progress, applied |-> a, connected |-> c, since |-> syncTime, reports |-> watch.reports + 1]
        BY <1>1 DEF Syncs!progressWatchTick, Syncs!Now
      <3> HIDE DEF a, c
      <3>3. watch' \in SyncWatch /\ watch'.since = syncTime /\ watch'.applied = a /\ watch'.connected = c
        BY <3>1, <3>2 DEF SyncWatch
      <3> QED
        BY <3>3 DEF a, c
    <2>2. UNCHANGED <<world, syncTime, tips, wait, progress>>
      BY <1>1 DEF Syncs!progressWatchTick
    <2>3. SyncShape' /\ TipsAreRead' /\ ProgressIsMeasured'
      BY <2>1, <2>2 DEF SyncInv, SyncShape, TipsAreRead, ProgressIsMeasured
    <2>4. ReadsAreRecent'
      BY <1>0, <2>1, <2>2, SyncAssumptions DEF SyncInv, ReadsAreRecent
    <2>5. Syncs!SyncedIsRecent' /\ Syncs!StallIsReal'
      BY <2>2 DEF SyncInv, Syncs!SyncedIsRecent, Syncs!StallIsReal, Syncs!Since, Syncs!Oldest, Syncs!Now
    <2> QED
      BY <2>3, <2>4, <2>5 DEF SyncInv
  <1>2. CASE Syncs!watchReports
    <2> DEFINE at == IF watch.last.at # 0 /\ watch.last.applied = watch.applied THEN watch.last.progressAt ELSE syncTime
    <2>1. PICK stream \in Syncs!getDustStreamTip, block \in Syncs!getIndexerTip :
             LET caughtUp == Syncs!isGenuinelyCaughtUp(watch.connected, watch.applied, stream.tip, block.tip) IN
             /\ tips' = [stream.tips EXCEPT !.block = block.tips.block, !.blockAt = block.tips.blockAt]
             /\ progress' = [applied |-> watch.applied, at |-> syncTime, progressAt |-> at, caughtUp |-> caughtUp]
      BY <1>2 DEF Syncs!watchReports, Syncs!None
    <2> DEFINE caughtUp == Syncs!isGenuinelyCaughtUp(watch.connected, watch.applied, stream.tip, block.tip)
    <2>2. /\ watch.since \in 1..syncTime /\ syncTime <= watch.since + SyncReadLimit
          /\ watch.applied = world[watch.since].applied /\ watch.connected = world[watch.since].connected
      BY <1>2 DEF Syncs!watchReports, SyncInv, ReadsAreRecent
    <2>3. watch.applied \in Int /\ watch.connected \in BOOLEAN /\ at \in Int /\ caughtUp \in BOOLEAN
      BY <1>0, <2>2 DEF SyncWatch, Syncs!isGenuinelyCaughtUp
    <2>4. /\ stream.tip \in Int
          /\ stream.tip > 0 => \E t \in 1..syncTime : t >= syncTime - Syncs!Oldest /\ stream.tip = world[t].events
          /\ stream.tips \in [block : Nat, blockAt : 0..syncTime, stream : Nat, streamAt : 0..syncTime]
          /\ stream.tips.streamAt # 0 => stream.tips.stream = world[stream.tips.streamAt].events
      BY StreamReads
    <2>5. /\ block.tip \in Nat /\ block.tip <= world[syncTime].block
          /\ block.tips \in [block : Nat, blockAt : 0..syncTime, stream : Nat, streamAt : 0..syncTime]
          /\ block.tips.block <= world[syncTime].block
      BY BlockReads
    <2>6. /\ tips' \in [block : Nat, blockAt : 0..syncTime, stream : Nat, streamAt : 0..syncTime]
          /\ tips'.block = block.tips.block /\ tips'.stream = stream.tips.stream /\ tips'.streamAt = stream.tips.streamAt
      <3> DEFINE v == block.tips.block
                 n == block.tips.blockAt
      <3>1. v \in Nat /\ n \in 0..syncTime /\ tips' = [stream.tips EXCEPT !.block = v, !.blockAt = n]
        BY <2>1, <2>5
      <3> HIDE DEF v, n
      <3>2. /\ tips' \in [block : Nat, blockAt : 0..syncTime, stream : Nat, streamAt : 0..syncTime]
            /\ tips'.block = v /\ tips'.stream = stream.tips.stream /\ tips'.streamAt = stream.tips.streamAt
        BY <2>4, <3>1, TipRecords
      <3> QED
        BY <3>2 DEF v
    <2>7. UNCHANGED <<world, syncTime, wait>> /\ watch' \in SyncWatch /\ watch'.step = "idle"
      <3>1. Syncs!IdleWatch \in SyncWatch /\ Syncs!IdleWatch.step = "idle"
        BY DEF Syncs!IdleWatch, Syncs!NoProgress, Syncs!Unknown, Syncs!None, SyncWatch
      <3>2. watch' = [Syncs!IdleWatch EXCEPT !.reports = watch.reports] /\ watch.reports \in Nat
        BY <1>0, <1>2 DEF Syncs!watchReports, SyncWatch
      <3> QED
        BY <1>2, <3>1, <3>2 DEF Syncs!watchReports, SyncWatch
    <2>8. progress' \in [applied : Int, at : Int, progressAt : Int, caughtUp : BOOLEAN] /\ progress'.at = syncTime
          /\ progress'.applied = watch.applied /\ progress'.caughtUp = caughtUp
      <3>1. progress' = [applied |-> watch.applied, at |-> syncTime, progressAt |-> at, caughtUp |-> caughtUp]
        BY <2>1
      <3> HIDE DEF at, caughtUp
      <3> QED
        BY <1>0, <2>3, <3>1
    <2>9. SyncShape'
      BY <1>0, <2>6, <2>7, <2>8 DEF SyncInv, SyncShape
    <2>10. TipsAreRead'
      BY <2>4, <2>5, <2>6, <2>7 DEF TipsAreRead
    <2>11. ReadsAreRecent' /\ ProgressIsMeasured'
      BY <2>7 DEF SyncInv, ReadsAreRecent, ProgressIsMeasured
    <2>12. Syncs!SyncedIsRecent'
      <3> SUFFICES ASSUME caughtUp
                   PROVE  /\ \E t \in Syncs!Since(Syncs!Oldest + SyncReadLimit) : watch.applied >= world[t].events - SyncGap
                          /\ \E t \in Syncs!Since(SyncReadLimit) : watch.applied = world[t].applied /\ world[t].connected
                          /\ world[syncTime].block >= syncTime - SyncFreshness
        BY <2>7, <2>8 DEF Syncs!SyncedIsRecent, Syncs!Since, Syncs!Oldest, Syncs!Now
      <3> QED
        BY <2>2, <2>3, <2>4, <2>5, VerdictIsRecent
    <2>13. Syncs!StallIsReal'
      BY <2>7 DEF SyncInv, Syncs!StallIsReal
    <2> QED
      BY <2>9, <2>10, <2>11, <2>12, <2>13 DEF SyncInv
  <1> QED
    BY <1>1, <1>2

LEMMA SyncInvTicks ==
    ASSUME SyncInv, Syncs!Tick
    PROVE  SyncInv'
  <1> USE DEF Syncs!Tick
  <1>0. /\ syncTime \in Nat \ {0} /\ syncTime + 1 \in 1..Len(world) /\ syncTime' = syncTime + 1
        /\ 1..syncTime \subseteq 1..(syncTime + 1) /\ 0..syncTime \subseteq 0..(syncTime + 1)
    BY WorldFacts DEF SyncInv, SyncShape
  <1>1. world[syncTime].block \in Nat /\ world[syncTime + 1].block \in Nat /\ world[syncTime].block <= world[syncTime + 1].block
    BY <1>0, WorldFacts DEF SyncInv, SyncShape
  <1>2. SyncShape'
    BY <1>0 DEF SyncInv, SyncShape
  <1>3. tips.block \in Nat /\ wait.tip \in Nat
    BY DEF SyncInv, SyncShape, SyncWait
  <1>4. TipsAreRead'
    BY <1>0, <1>1, <1>3 DEF SyncInv, TipsAreRead
  <1>5. ReadsAreRecent'
    BY <1>0, <1>1, <1>3, SyncAssumptions DEF SyncInv, ReadsAreRecent
  <1>6. ProgressIsMeasured'
    BY <1>0 DEF SyncInv, SyncShape, SyncWait, ProgressIsMeasured
  <1>7. Syncs!SyncedIsRecent'
    BY <1>0 DEF SyncInv, SyncShape, Syncs!SyncedIsRecent
  <1>8. Syncs!StallIsReal'
    BY DEF SyncInv, ProgressIsMeasured, Syncs!StallIsReal
  <1> QED
    BY <1>2, <1>4, <1>5, <1>6, <1>7, <1>8 DEF SyncInv

LEMMA SyncInvNext == SyncInv /\ (Syncs!SyncNext \/ UNCHANGED syncVars) => SyncInv'
  <1>1. SyncInv /\ UNCHANGED syncVars => SyncInv'
    BY DEF syncVars, SyncInv, SyncShape, TipsAreRead, ReadsAreRecent, ProgressIsMeasured, Syncs!SyncedIsRecent, Syncs!StallIsReal,
           Syncs!Since, Syncs!Oldest, Syncs!Now
  <1> QED
    BY <1>1, SyncInvPolls, SyncInvJudges, SyncInvWatches, SyncInvTicks DEF Syncs!SyncNext

LEMMA SyncHolds == SyncInv => Syncs!SyncTypeOK /\ Syncs!SyncedIsRecent /\ Syncs!StallIsReal
  BY DEF SyncInv, SyncShape, SyncWait, SyncWatch, WaitSteps, WaitResults, Syncs!SyncTypeOK

SyncPart == part = "sync" => SyncInv

\* A wallet said to be synced had all events but SyncGap that the indexer knew of within the grace of a failed read, and the wallet of
\* a sync given up as stalled was no further than at its first reading or its last progress, in every order of reads, failed reads, progress and replacement of the wallet, for any grace and timeout.
THEOREM SyncVerdictIsTrueAlways == Spec => []SyncVerdictIsTrue
  <1>1. Init => SyncPart
    BY SyncInvInit DEF Init, SyncPart
  <1>2. SyncPart /\ [Next]_vars => SyncPart'
    <2> SUFFICES ASSUME SyncPart, [Next]_vars PROVE SyncPart'
      OBVIOUS
    <2>1. CASE UNCHANGED <<part, syncVars>>
      BY <2>1, SyncInvNext DEF SyncPart, syncVars
    <2>2. CASE Only("sync") /\ Syncs!SyncNext
      BY <2>2, SyncInvNext DEF SyncPart, Only
    <2>3. CASE part # "sync" /\ part' = part
      BY <2>3 DEF SyncPart
    <2>4. part = "sync" /\ Next => Only("sync") /\ Syncs!SyncNext
      BY DEF Next, Only
    <2>5. Next => part' = part
      BY DEF Next, Only
    <2>6. UNCHANGED vars => UNCHANGED <<part, syncVars>>
      BY DEF vars
    <2> QED
      BY <2>1, <2>2, <2>3, <2>4, <2>5, <2>6
  <1>3. SyncPart => SyncVerdictIsTrue
    BY SyncHolds DEF SyncPart, SyncVerdictIsTrue
  <1> QED
    BY <1>1, <1>2, <1>3, PTL DEF Spec
==============================================================================
