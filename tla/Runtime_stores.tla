----------------------------- MODULE Runtime_stores ---------------------------
(***************************************************************************)
(* Theorems about what the wallet worker keeps on disk and in the          *)
(* database, in MC_Runtime, for any constants.                             *)
(*                                                                         *)
(* Contract files: a snapshot folder has nothing but files of the          *)
(* generation it is named by (FolderKnows), and a call has its             *)
(* generation's module once it has one (LoadKnows).                        *)
(*                                                                         *)
(* Wallet states: everything a wallet has pushed stands in one order, what *)
(* is stored, what is on its way to the store, what a save tick has        *)
(* collected, and the state itself (Older). A tick that no longer stands   *)
(* in this order is one whose epoch was raised (TickKnows), and unless it  *)
(* waited for its log line meanwhile it pushes nothing: once such a tick   *)
(* has pushed what was replaced (overtaken) nothing of this is known. A    *)
(* confirmation on its way is one of a state the store has got at least as *)
(* new (AckKnows).                                                         *)
(***************************************************************************)
EXTENDS MC_Runtime, SequenceTheorems, WellFoundedInduction, TLAPS

-----------------------------------------------------------------------------
(* The files a call proves from.                                           *)

SnapshotPins == {SnapshotPin[j] : j \in SnapshotJobs}
SnapshotVersions == {d[1] : d \in SnapshotPins} \cup {d[2] : d \in SnapshotPins} \cup {0}
Files == [module : SnapshotVersions, keys : SnapshotVersions, prover : SnapshotVersions]
EmptyFiles == [module |-> 0, keys |-> 0, prover |-> 0]
Folder == [at : Files, holders : SUBSET SnapshotProcs, old : BOOLEAN]
Loading == {"materialize", "copyModule", "copyKeys", "check", "rename", "hold"}
LoadSteps == Loading \cup {"idle", "scaffold", "import", "assets", "prove", "proved", "failed", "done"}
Load == [home : SnapshotProcs, step : LoadSteps, for : {"", "import", "assets"}, tmp : Files, module : SnapshotVersions, keys : SnapshotVersions]

\* the files of a generation, of which a removal that stopped half way may have left the module only
AreOf(f, d) == f = EmptyFiles \/ (f.module = d[1] /\ f.keys \in {0, d[2]} /\ f.prover \in {0, d[2]})

\* A folder has the files of the generation it is named by.
FolderKnows(r, d) == r \in Folder /\ AreOf(r.at, d)

\* A copy that was checked has the files of the call's generation, unless it was taken away; from then on the call has that
\* generation's module, and once it is proved its keys.
LoadKnows(r, j) ==
    /\ r \in Load
    /\ r.step \in Loading => r.for \in {"import", "assets"} /\ (r.for = "assets" => r.module = SnapshotPin[j][1])
    /\ r.step \in {"assets", "prove", "proved"} => r.module = SnapshotPin[j][1]
    /\ r.step = "rename" => AreOf(r.tmp, SnapshotPin[j])
    /\ r.step = "proved" => r.keys = SnapshotPin[j][2]

FoldersKnow(folders) == folders = [d \in SnapshotPins |-> folders[d]] /\ \A d \in SnapshotPins : FolderKnows(folders[d], d)
LoadsKnow(jobs) == jobs = [j \in SnapshotJobs |-> jobs[j]] /\ \A j \in SnapshotJobs : LoadKnows(jobs[j], j)

AInv == source \in Files /\ FoldersKnow(dir) /\ LoadsKnow(job)

LEMMA PinFacts ==
    /\ EmptyFiles \in Files /\ 0 \in SnapshotVersions
    /\ \A d \in SnapshotPins : d[1] \in SnapshotVersions /\ d[2] \in SnapshotVersions
    /\ \A j \in SnapshotJobs : SnapshotPin[j] \in SnapshotPins
  <1>1. 0 \in SnapshotVersions /\ \A d \in SnapshotPins : d[1] \in SnapshotVersions /\ d[2] \in SnapshotVersions
    BY DEF SnapshotVersions
  <1>2. EmptyFiles \in Files
    BY <1>1 DEF EmptyFiles, Files
  <1> QED
    BY <1>1, <1>2 DEF SnapshotPins

\* what a mark changes, what a check of a copy shows, and a prover key that is there
LEMMA FolderHeld ==
    ASSUME NEW r, NEW d, FolderKnows(r, d), NEW h \in SnapshotProcs
    PROVE  FolderKnows([r EXCEPT !.holders = r.holders \cup {h}], d) /\ FolderKnows([r EXCEPT !.holders = r.holders \cup {h}, !.old = FALSE], d)
  <1>1. r.holders \cup {h} \in SUBSET SnapshotProcs
    BY DEF FolderKnows, Folder
  <1> QED
    BY <1>1 DEF FolderKnows, Folder

LEMMA FilesChecked ==
    ASSUME NEW f, NEW d, <<f.module, f.keys>> = d, f.prover \in {0, f.keys}
    PROVE  AreOf(f, d)
  BY DEF AreOf

LEMMA ProverKey == ASSUME NEW f, NEW d, AreOf(f, d), f.prover # 0 PROVE f.prover = d[2]
  BY DEF AreOf, EmptyFiles

\* one call, one folder changes
LEMMA OneLoad ==
    ASSUME LoadsKnow(job), NEW j \in SnapshotJobs, NEW r, LoadKnows(r, j), job' = [job EXCEPT ![j] = r]
    PROVE  LoadsKnow(job')
  BY DEF LoadsKnow

LEMMA OneFolder ==
    ASSUME FoldersKnow(dir), NEW d, NEW r, d \in SnapshotPins => FolderKnows(r, d), dir' = [dir EXCEPT ![d] = r]
    PROVE  FoldersKnow(dir')
  BY DEF FoldersKnow

\* the model's names for these values
LEMMA SnapshotNames ==
    Snapshots!Generations = SnapshotPins /\ Snapshots!Nothing = EmptyFiles /\ Snapshots!NoFolder = [at |-> EmptyFiles, holders |-> {}, old |-> FALSE]
  BY DEF Snapshots!Generations, SnapshotPins, Snapshots!Nothing, EmptyFiles, Snapshots!NoFolder

LEMMA NoFolderKnows == ASSUME NEW d PROVE FolderKnows(Snapshots!NoFolder, d)
  BY SnapshotNames, PinFacts DEF FolderKnows, AreOf, Folder

LEMMA AInvInit == Snapshots!SnapshotInit => AInv
  <1> SUFFICES ASSUME Snapshots!SnapshotInit PROVE AInv
    OBVIOUS
  <1>1. source \in Files
    BY SnapshotNames, PinFacts DEF Snapshots!SnapshotInit, Files
  <1>2. FoldersKnow(dir)
    BY SnapshotNames, NoFolderKnows DEF Snapshots!SnapshotInit, FoldersKnow
  <1>3. ASSUME NEW p \in SnapshotProcs PROVE Snapshots!IdleJob(p) \in Load /\ Snapshots!IdleJob(p).step = "idle"
    BY SnapshotNames, PinFacts DEF Snapshots!IdleJob, Load, LoadSteps
  <1>4. PICK home \in [SnapshotJobs -> SnapshotProcs] : job = [j \in SnapshotJobs |-> Snapshots!IdleJob(home[j])]
    BY SnapshotAssumption DEF Snapshots!SnapshotInit
  <1>5. LoadsKnow(job)
    BY <1>3, <1>4 DEF LoadsKnow, LoadKnows, Loading
  <1> QED
    BY <1>1, <1>2, <1>5 DEF AInv

\* what a step of a call finds
LoadFacts(j) ==
    /\ LoadKnows(job[j], j) /\ LoadsKnow(job) /\ FoldersKnow(dir) /\ source \in Files
    /\ SnapshotPin[j] \in SnapshotPins /\ job[j].home \in SnapshotProcs /\ FolderKnows(dir[SnapshotPin[j]], SnapshotPin[j])

LEMMA LoadFactsHold == ASSUME AInv, NEW j \in SnapshotJobs PROVE LoadFacts(j)
  BY PinFacts DEF LoadFacts, AInv, LoadsKnow, FoldersKnow, LoadKnows, Load

\* A call's own steps.
LEMMA RetainKeeps ==
    ASSUME AInv, NEW j \in SnapshotJobs, Snapshots!retainGeneration(j)
    PROVE  FoldersKnow(dir') /\ LoadsKnow(job')
  <1> DEFINE d == SnapshotPin[j]
  <1>0. LoadFacts(j)
    BY LoadFactsHold
  <1>1. LoadsKnow(job')
    <2> DEFINE r == [job[j] EXCEPT !.step = "scaffold"]
    <2>1. job' = [job EXCEPT ![j] = r]
      BY SnapshotNames DEF Snapshots!retainGeneration, Snapshots!Goes
    <2>2. LoadKnows(r, j)
      BY <1>0, PinFacts DEF LoadFacts, LoadKnows, Loading, LoadSteps, Load
    <2> QED
      BY <1>0, <2>1, <2>2, OneLoad DEF LoadFacts
  <1>2. FoldersKnow(dir')
    <2>1. CASE Snapshots!Exists(d)
      <3> DEFINE r == [dir[d] EXCEPT !.holders = dir[d].holders \cup {job[j].home}]
      <3>1. dir' = [dir EXCEPT ![d] = r]
        BY SnapshotNames, <2>1 DEF Snapshots!retainGeneration, Snapshots!Goes
      <3>2. FolderKnows(r, d)
        BY <1>0, <2>1, PinFacts, FolderHeld DEF LoadFacts
      <3> QED
        BY <1>0, <3>1, <3>2, OneFolder DEF LoadFacts
    <2>2. CASE ~Snapshots!Exists(d)
      BY <1>0, <2>2, SnapshotNames DEF LoadFacts, Snapshots!retainGeneration
    <2> QED
      BY <2>1, <2>2
  <1> QED
    BY <1>1, <1>2

LEMMA ScaffoldKeeps ==
    ASSUME AInv, NEW j \in SnapshotJobs, Snapshots!getContractScaffold(j)
    PROVE  FoldersKnow(dir') /\ LoadsKnow(job')
  <1> DEFINE d == SnapshotPin[j]
  <1>0. LoadFacts(j)
    BY LoadFactsHold
  <1>1. LoadsKnow(job')
    <2>1. CASE Snapshots!generationCached(job[j].home, d)
      <3> DEFINE r == [job[j] EXCEPT !.step = "materialize", !.for = "assets", !.module = d[1]]
      <3>1. job' = [job EXCEPT ![j] = r]
        BY SnapshotNames, <2>1 DEF Snapshots!getContractScaffold, Snapshots!Goes
      <3>2. LoadKnows(r, j)
        BY <1>0, <2>1, PinFacts DEF LoadFacts, LoadKnows, Loading, LoadSteps, Load
      <3> QED
        BY <1>0, <3>1, <3>2, OneLoad DEF LoadFacts
    <2>2. CASE ~Snapshots!generationCached(job[j].home, d)
      <3> DEFINE r == [job[j] EXCEPT !.step = "materialize", !.for = "import"]
      <3>1. job' = [job EXCEPT ![j] = r]
        BY SnapshotNames, <2>2 DEF Snapshots!getContractScaffold, Snapshots!Goes
      <3>2. LoadKnows(r, j)
        BY <1>0, <2>2, PinFacts DEF LoadFacts, LoadKnows, Loading, LoadSteps, Load
      <3> QED
        BY <1>0, <3>1, <3>2, OneLoad DEF LoadFacts
    <2> QED
      BY <2>1, <2>2
  <1>2. FoldersKnow(dir')
    BY <1>0 DEF LoadFacts, Snapshots!getContractScaffold
  <1> QED
    BY <1>1, <1>2

LEMMA ImportKeeps ==
    ASSUME AInv, NEW j \in SnapshotJobs, Snapshots!importArtifactGeneration(j)
    PROVE  FoldersKnow(dir') /\ LoadsKnow(job')
  <1> DEFINE d == SnapshotPin[j]
  <1>0. LoadFacts(j)
    BY LoadFactsHold
  <1>1. LoadsKnow(job')
    <2>1. CASE Snapshots!Exists(d)
      <3> DEFINE r == [job[j] EXCEPT !.step = "materialize", !.for = "assets", !.module = dir[d].at.module]
      <3>1. job' = [job EXCEPT ![j] = r]
        BY SnapshotNames, <2>1 DEF Snapshots!importArtifactGeneration, Snapshots!Goes, Snapshots!Exists
      <3>2. LoadKnows(r, j)
        BY <1>0, <2>1, PinFacts, SnapshotNames DEF LoadFacts, LoadKnows, Loading, LoadSteps, Load, FolderKnows, Folder, Files, AreOf, Snapshots!Exists
      <3> QED
        BY <1>0, <3>1, <3>2, OneLoad DEF LoadFacts
    <2>2. CASE ~Snapshots!Exists(d)
      <3> DEFINE r == [job[j] EXCEPT !.step = "failed"]
      <3>1. job' = [job EXCEPT ![j] = r]
        BY SnapshotNames, <2>2 DEF Snapshots!importArtifactGeneration, Snapshots!Goes, Snapshots!Exists
      <3>2. LoadKnows(r, j)
        BY <1>0, <2>2, PinFacts, SnapshotNames DEF LoadFacts, LoadKnows, Loading, LoadSteps, Load, FolderKnows, Folder, Files, AreOf, Snapshots!Exists
      <3> QED
        BY <1>0, <3>1, <3>2, OneLoad DEF LoadFacts
    <2> QED
      BY <2>1, <2>2
  <1>2. FoldersKnow(dir')
    BY <1>0 DEF LoadFacts, Snapshots!importArtifactGeneration
  <1> QED
    BY <1>1, <1>2

LEMMA BundleKeeps ==
    ASSUME AInv, NEW j \in SnapshotJobs, Snapshots!buildWorkerContractProviders(j)
    PROVE  FoldersKnow(dir') /\ LoadsKnow(job')
  <1> DEFINE d == SnapshotPin[j]
  <1>0. LoadFacts(j) /\ job[j].step = "assets"
    BY LoadFactsHold DEF Snapshots!buildWorkerContractProviders
  <1>1. LoadsKnow(job')
    <2> DEFINE r == [job[j] EXCEPT !.step = "prove"]
    <2>1. job' = [job EXCEPT ![j] = r]
      BY SnapshotNames DEF Snapshots!buildWorkerContractProviders, Snapshots!Goes
    <2>2. LoadKnows(r, j)
      BY <1>0, PinFacts DEF LoadFacts, LoadKnows, Loading, LoadSteps, Load
    <2> QED
      BY <1>0, <2>1, <2>2, OneLoad DEF LoadFacts
  <1>2. FoldersKnow(dir')
    BY <1>0 DEF LoadFacts, Snapshots!buildWorkerContractProviders
  <1> QED
    BY <1>1, <1>2

LEMMA ProveKeeps ==
    ASSUME AInv, NEW j \in SnapshotJobs, Snapshots!prove(j)
    PROVE  FoldersKnow(dir') /\ LoadsKnow(job')
  <1> DEFINE d == SnapshotPin[j]
  <1>0. LoadFacts(j) /\ job[j].step = "prove"
    BY LoadFactsHold DEF Snapshots!prove
  <1>1. LoadsKnow(job')
    <2>1. CASE dir[d].at.prover = 0
      <3> DEFINE r == [job[j] EXCEPT !.step = "failed"]
      <3>1. job' = [job EXCEPT ![j] = r]
        BY SnapshotNames, <2>1 DEF Snapshots!prove, Snapshots!Goes
      <3>2. LoadKnows(r, j)
        BY <1>0, <2>1, PinFacts, ProverKey DEF LoadFacts, LoadKnows, Loading, LoadSteps, Load, FolderKnows, Folder
      <3> QED
        BY <1>0, <3>1, <3>2, OneLoad DEF LoadFacts
    <2>2. CASE ~dir[d].at.prover = 0
      <3> DEFINE r == [job[j] EXCEPT !.step = "proved", !.keys = dir[d].at.prover]
      <3>1. job' = [job EXCEPT ![j] = r]
        BY SnapshotNames, <2>2 DEF Snapshots!prove, Snapshots!Goes
      <3>2. LoadKnows(r, j)
        BY <1>0, <2>2, PinFacts, ProverKey DEF LoadFacts, LoadKnows, Loading, LoadSteps, Load, FolderKnows, Folder
      <3> QED
        BY <1>0, <3>1, <3>2, OneLoad DEF LoadFacts
    <2> QED
      BY <2>1, <2>2
  <1>2. FoldersKnow(dir')
    BY <1>0 DEF LoadFacts, Snapshots!prove
  <1> QED
    BY <1>1, <1>2

LEMMA ReleaseKeeps ==
    ASSUME AInv, NEW j \in SnapshotJobs, Snapshots!releaseGeneration(j)
    PROVE  FoldersKnow(dir') /\ LoadsKnow(job')
  <1> DEFINE d == SnapshotPin[j]
  <1>0. LoadFacts(j)
    BY LoadFactsHold
  <1>1. LoadsKnow(job')
    <2> DEFINE r == [job[j] EXCEPT !.step = "done", !.tmp = EmptyFiles]
    <2>1. job' = [job EXCEPT ![j] = r]
      BY SnapshotNames DEF Snapshots!releaseGeneration, Snapshots!Goes
    <2>2. LoadKnows(r, j)
      BY <1>0, PinFacts DEF LoadFacts, LoadKnows, Loading, LoadSteps, Load
    <2> QED
      BY <1>0, <2>1, <2>2, OneLoad DEF LoadFacts
  <1>2. FoldersKnow(dir')
    BY <1>0 DEF LoadFacts, Snapshots!releaseGeneration
  <1> QED
    BY <1>1, <1>2

LEMMA PrepareKeeps ==
    ASSUME AInv, NEW j \in SnapshotJobs, Snapshots!prepareSnapshotRoot(j)
    PROVE  FoldersKnow(dir') /\ LoadsKnow(job')
  <1>1. ASSUME NEW k \in SnapshotJobs PROVE LoadKnows(job'[k], k)
    <2>1. LoadKnows(job[k], k) /\ job'[k] \in {job[k], [job[k] EXCEPT !.tmp = EmptyFiles]}
      BY SnapshotNames DEF AInv, LoadsKnow, Snapshots!prepareSnapshotRoot
    <2>2. LoadKnows([job[k] EXCEPT !.tmp = EmptyFiles], k)
      BY <2>1, PinFacts DEF LoadKnows, AreOf, Loading, LoadSteps, Load
    <2> QED
      BY <2>1, <2>2
  <1>2. ASSUME NEW d \in SnapshotPins PROVE FolderKnows(dir'[d], d)
    BY SnapshotNames, NoFolderKnows DEF AInv, FoldersKnow, Snapshots!prepareSnapshotRoot
  <1>3. job' = [k \in SnapshotJobs |-> job'[k]] /\ dir' = [d \in SnapshotPins |-> dir'[d]]
    BY SnapshotNames DEF Snapshots!prepareSnapshotRoot
  <1> QED
    BY <1>1, <1>2, <1>3 DEF LoadsKnow, FoldersKnow

LEMMA FindKeeps ==
    ASSUME AInv, NEW j \in SnapshotJobs, Snapshots!findSnapshot(j)
    PROVE  FoldersKnow(dir') /\ LoadsKnow(job')
  <1> DEFINE d == SnapshotPin[j]
  <1>0. LoadFacts(j) /\ job[j].step = "materialize"
    BY LoadFactsHold DEF Snapshots!findSnapshot
  <1>1. LoadsKnow(job')
    <2>1. CASE (Snapshots!Exists(d) /\ ((d \in proc[job[j].home].verified /\ dir[d].at.module # 0) \/ Snapshots!digestOf(dir[d].at) = d))
      <3> DEFINE r == [job[j] EXCEPT !.step = job[j].for]
      <3>1. job' = [job EXCEPT ![j] = r]
        BY SnapshotNames, <2>1 DEF Snapshots!findSnapshot, Snapshots!Goes
      <3>2. LoadKnows(r, j)
        BY <1>0, <2>1, PinFacts DEF LoadFacts, LoadKnows, Loading, LoadSteps, Load
      <3> QED
        BY <1>0, <3>1, <3>2, OneLoad DEF LoadFacts
    <2>2. CASE ~(Snapshots!Exists(d) /\ ((d \in proc[job[j].home].verified /\ dir[d].at.module # 0) \/ Snapshots!digestOf(dir[d].at) = d))
      <3> DEFINE r == [job[j] EXCEPT !.step = "copyModule"]
      <3>1. job' = [job EXCEPT ![j] = r]
        BY SnapshotNames, <2>2 DEF Snapshots!findSnapshot, Snapshots!Goes
      <3>2. LoadKnows(r, j)
        BY <1>0, <2>2, PinFacts DEF LoadFacts, LoadKnows, Loading, LoadSteps, Load
      <3> QED
        BY <1>0, <3>1, <3>2, OneLoad DEF LoadFacts
    <2> QED
      BY <2>1, <2>2 DEF Snapshots!findSnapshot
  <1>2. FoldersKnow(dir')
    <2>1. CASE (Snapshots!Exists(d) /\ ((d \in proc[job[j].home].verified /\ dir[d].at.module # 0) \/ Snapshots!digestOf(dir[d].at) = d))
      <3> DEFINE r == [dir[d] EXCEPT !.holders = dir[d].holders \cup {job[j].home}, !.old = FALSE]
      <3>1. dir' = [dir EXCEPT ![d] = r]
        BY SnapshotNames, <2>1 DEF Snapshots!findSnapshot, Snapshots!Goes, Snapshots!Held
      <3>2. FolderKnows(r, d)
        BY <1>0, <2>1, PinFacts, FolderHeld DEF LoadFacts
      <3> QED
        BY <1>0, <3>1, <3>2, OneFolder DEF LoadFacts
    <2>2. CASE ~(Snapshots!Exists(d) /\ ((d \in proc[job[j].home].verified /\ dir[d].at.module # 0) \/ Snapshots!digestOf(dir[d].at) = d))
      <3> DEFINE r == Snapshots!NoFolder
      <3>1. dir' = [dir EXCEPT ![d] = r]
        BY SnapshotNames, <2>2 DEF Snapshots!findSnapshot, Snapshots!Goes, Snapshots!Held
      <3>2. FolderKnows(r, d)
        BY <1>0, <2>2, PinFacts, NoFolderKnows DEF LoadFacts
      <3> QED
        BY <1>0, <3>1, <3>2, OneFolder DEF LoadFacts
    <2> QED
      BY <2>1, <2>2 DEF Snapshots!findSnapshot
  <1> QED
    BY <1>1, <1>2

LEMMA CopyModuleKeeps ==
    ASSUME AInv, NEW j \in SnapshotJobs, Snapshots!copyModule(j)
    PROVE  FoldersKnow(dir') /\ LoadsKnow(job')
  <1> DEFINE d == SnapshotPin[j]
  <1>0. LoadFacts(j) /\ job[j].step = "copyModule"
    BY LoadFactsHold DEF Snapshots!copyModule
  <1>1. LoadsKnow(job')
    <2> DEFINE r == [job[j] EXCEPT !.tmp = [EmptyFiles EXCEPT !.module = source.module], !.step = "copyKeys"]
    <2>1. job' = [job EXCEPT ![j] = r]
      BY SnapshotNames DEF Snapshots!copyModule, Snapshots!Goes
    <2>2. LoadKnows(r, j)
      BY <1>0, PinFacts DEF LoadFacts, LoadKnows, Loading, LoadSteps, Load, Files
    <2> QED
      BY <1>0, <2>1, <2>2, OneLoad DEF LoadFacts
  <1>2. FoldersKnow(dir')
    BY <1>0 DEF LoadFacts, Snapshots!copyModule
  <1> QED
    BY <1>1, <1>2

LEMMA CopyKeysKeeps ==
    ASSUME AInv, NEW j \in SnapshotJobs, Snapshots!copyKeys(j)
    PROVE  FoldersKnow(dir') /\ LoadsKnow(job')
  <1> DEFINE d == SnapshotPin[j]
  <1>0. LoadFacts(j) /\ job[j].step = "copyKeys"
    BY LoadFactsHold DEF Snapshots!copyKeys
  <1>1. LoadsKnow(job')
    <2> DEFINE r == [job[j] EXCEPT !.tmp = [job[j].tmp EXCEPT !.keys = source.keys, !.prover = source.prover], !.step = "check"]
    <2>1. job' = [job EXCEPT ![j] = r]
      BY SnapshotNames DEF Snapshots!copyKeys, Snapshots!Goes
    <2>2. LoadKnows(r, j)
      BY <1>0, PinFacts DEF LoadFacts, LoadKnows, Loading, LoadSteps, Load, Files
    <2> QED
      BY <1>0, <2>1, <2>2, OneLoad DEF LoadFacts
  <1>2. FoldersKnow(dir')
    BY <1>0 DEF LoadFacts, Snapshots!copyKeys
  <1> QED
    BY <1>1, <1>2

LEMMA CheckKeeps ==
    ASSUME AInv, NEW j \in SnapshotJobs, Snapshots!checkCopy(j)
    PROVE  FoldersKnow(dir') /\ LoadsKnow(job')
  <1> DEFINE d == SnapshotPin[j]
  <1>0. LoadFacts(j) /\ job[j].step = "check"
    BY LoadFactsHold DEF Snapshots!checkCopy
  <1>1. LoadsKnow(job')
    <2>1. CASE (job[j].tmp.module # 0 /\ ~Snapshots!proverKeyManifestProblems(job[j].tmp) /\ Snapshots!digestOf(job[j].tmp) = d)
      <3> DEFINE r == [job[j] EXCEPT !.step = "rename"]
      <3>1. job' = [job EXCEPT ![j] = r]
        BY SnapshotNames, <2>1 DEF Snapshots!checkCopy, Snapshots!Goes, Snapshots!proverKeyManifestProblems, Snapshots!digestOf
      <3>2. LoadKnows(r, j)
        BY <1>0, <2>1, PinFacts, FilesChecked DEF LoadFacts, LoadKnows, Loading, LoadSteps, Load, Snapshots!proverKeyManifestProblems,
           Snapshots!digestOf
      <3> QED
        BY <1>0, <3>1, <3>2, OneLoad DEF LoadFacts
    <2>2. CASE ~(job[j].tmp.module # 0 /\ ~Snapshots!proverKeyManifestProblems(job[j].tmp) /\ Snapshots!digestOf(job[j].tmp) = d)
      <3> DEFINE r == [job[j] EXCEPT !.step = "failed"]
      <3>1. job' = [job EXCEPT ![j] = r]
        BY SnapshotNames, <2>2 DEF Snapshots!checkCopy, Snapshots!Goes, Snapshots!proverKeyManifestProblems, Snapshots!digestOf
      <3>2. LoadKnows(r, j)
        BY <1>0, <2>2, PinFacts, FilesChecked DEF LoadFacts, LoadKnows, Loading, LoadSteps, Load, Snapshots!proverKeyManifestProblems,
           Snapshots!digestOf
      <3> QED
        BY <1>0, <3>1, <3>2, OneLoad DEF LoadFacts
    <2> QED
      BY <2>1, <2>2
  <1>2. FoldersKnow(dir')
    BY <1>0 DEF LoadFacts, Snapshots!checkCopy
  <1> QED
    BY <1>1, <1>2

LEMMA RenameKeeps ==
    ASSUME AInv, NEW j \in SnapshotJobs, Snapshots!renameSnapshot(j)
    PROVE  FoldersKnow(dir') /\ LoadsKnow(job')
  <1> DEFINE d == SnapshotPin[j]
  <1>0. LoadFacts(j) /\ job[j].step = "rename"
    BY LoadFactsHold DEF Snapshots!renameSnapshot
  <1>1. LoadsKnow(job')
    <2>1. CASE (~Snapshots!Exists(d) /\ job[j].tmp # EmptyFiles) \/ (Snapshots!Exists(d) /\ Snapshots!digestOf(dir[d].at) = d)
      <3> DEFINE r == [job[j] EXCEPT !.step = "hold"]
      <3>1. job' = [job EXCEPT ![j] = r]
        BY SnapshotNames, <2>1 DEF Snapshots!renameSnapshot, Snapshots!Goes
      <3>2. LoadKnows(r, j)
        BY <1>0, <2>1, PinFacts DEF LoadFacts, LoadKnows, Loading, LoadSteps, Load
      <3> QED
        BY <1>0, <3>1, <3>2, OneLoad DEF LoadFacts
    <2>2. CASE ~((~Snapshots!Exists(d) /\ job[j].tmp # EmptyFiles) \/ (Snapshots!Exists(d) /\ Snapshots!digestOf(dir[d].at) = d))
      <3> DEFINE r == [job[j] EXCEPT !.step = "failed"]
      <3>1. job' = [job EXCEPT ![j] = r]
        BY SnapshotNames, <2>2 DEF Snapshots!renameSnapshot, Snapshots!Goes
      <3>2. LoadKnows(r, j)
        BY <1>0, <2>2, PinFacts DEF LoadFacts, LoadKnows, Loading, LoadSteps, Load
      <3> QED
        BY <1>0, <3>1, <3>2, OneLoad DEF LoadFacts
    <2> QED
      BY <2>1, <2>2
  <1>2. FoldersKnow(dir')
    <2>1. CASE (~Snapshots!Exists(d) /\ job[j].tmp # EmptyFiles)
      <3> DEFINE r == [Snapshots!NoFolder EXCEPT !.at = job[j].tmp]
      <3>1. dir' = [dir EXCEPT ![d] = r]
        BY SnapshotNames, <2>1 DEF Snapshots!renameSnapshot, Snapshots!Goes
      <3>2. FolderKnows(r, d)
        BY <1>0, <2>1, PinFacts, SnapshotNames DEF LoadFacts, LoadKnows, Load, FolderKnows, Folder
      <3> QED
        BY <1>0, <3>1, <3>2, OneFolder DEF LoadFacts
    <2>2. CASE ~(~Snapshots!Exists(d) /\ job[j].tmp # EmptyFiles)
      BY <1>0, <2>2, SnapshotNames DEF LoadFacts, Snapshots!renameSnapshot
    <2> QED
      BY <2>1, <2>2
  <1> QED
    BY <1>1, <1>2

LEMMA HoldKeeps ==
    ASSUME AInv, NEW j \in SnapshotJobs, Snapshots!holdSnapshot(j)
    PROVE  FoldersKnow(dir') /\ LoadsKnow(job')
  <1> DEFINE d == SnapshotPin[j]
  <1>0. LoadFacts(j) /\ job[j].step = "hold"
    BY LoadFactsHold DEF Snapshots!holdSnapshot
  <1>1. LoadsKnow(job')
    <2> DEFINE r == [job[j] EXCEPT !.step = job[j].for, !.tmp = EmptyFiles]
    <2>1. job' = [job EXCEPT ![j] = r]
      BY SnapshotNames DEF Snapshots!holdSnapshot, Snapshots!Goes
    <2>2. LoadKnows(r, j)
      BY <1>0, PinFacts DEF LoadFacts, LoadKnows, Loading, LoadSteps, Load
    <2> QED
      BY <1>0, <2>1, <2>2, OneLoad DEF LoadFacts
  <1>2. FoldersKnow(dir')
    <2>1. CASE Snapshots!Exists(d)
      <3> DEFINE r == [dir[d] EXCEPT !.holders = dir[d].holders \cup {job[j].home}]
      <3>1. dir' = [dir EXCEPT ![d] = r]
        BY SnapshotNames, <2>1 DEF Snapshots!holdSnapshot, Snapshots!Goes
      <3>2. FolderKnows(r, d)
        BY <1>0, <2>1, PinFacts, FolderHeld DEF LoadFacts
      <3> QED
        BY <1>0, <3>1, <3>2, OneFolder DEF LoadFacts
    <2>2. CASE ~Snapshots!Exists(d)
      BY <1>0, <2>2, SnapshotNames DEF LoadFacts, Snapshots!holdSnapshot
    <2> QED
      BY <2>1, <2>2
  <1> QED
    BY <1>1, <1>2

\* Sweeps, restarts and time.
LEMMA SweepKeeps ==
    ASSUME AInv, NEW p, Snapshots!sweepLooks(p) \/ Snapshots!sweepRemoves(p)
    PROVE  FoldersKnow(dir') /\ LoadsKnow(job')
  <1> DEFINE d == Head(proc[p].sweep)
             r == [dir[d] EXCEPT !.holders = @ \ {p}]
  <1>1. job' = job /\ (dir' = dir \/ dir' = [dir EXCEPT ![d] = r] \/ dir' = [dir EXCEPT ![d] = Snapshots!NoFolder])
    BY DEF Snapshots!sweepLooks, Snapshots!sweepRemoves
  <1>2. d \in SnapshotPins => FolderKnows(r, d)
    BY DEF AInv, FoldersKnow, FolderKnows, Folder
  <1> HIDE DEF d, r
  <1> QED
    BY <1>1, <1>2, OneFolder, NoFolderKnows DEF AInv

LEMMA EndsKeep ==
    ASSUME AInv, NEW p, Snapshots!workerRestarts(p) \/ Snapshots!kill(p)
    PROVE  LoadsKnow(job')
  <1>1. job' = Snapshots!Ends(p)
    BY DEF Snapshots!workerRestarts, Snapshots!kill
  <1>2. ASSUME NEW k \in SnapshotJobs PROVE LoadKnows(job'[k], k)
    <2>1. LoadKnows(job[k], k) /\ job'[k] \in {job[k], [job[k] EXCEPT !.step = "done", !.tmp = EmptyFiles]}
      BY <1>1, SnapshotNames DEF AInv, LoadsKnow, Snapshots!Ends
    <2>2. LoadKnows([job[k] EXCEPT !.step = "done", !.tmp = EmptyFiles], k)
      BY <2>1, PinFacts DEF LoadKnows, Loading, LoadSteps, Load
    <2> QED
      BY <2>1, <2>2
  <1> QED
    BY <1>1, <1>2 DEF LoadsKnow, Snapshots!Ends

LEMMA KillKeeps == ASSUME AInv, NEW p, Snapshots!kill(p) PROVE FoldersKnow(dir')
  <1>1. ASSUME NEW d \in SnapshotPins PROVE FolderKnows(dir'[d], d)
    <2> DEFINE at == dir[d].at
    <2>1. PICK f \in {at, [at EXCEPT !.prover = 0], [at EXCEPT !.prover = 0, !.keys = 0]} :
             dir'[d] = [dir[d] EXCEPT !.holders = @ \ {p}, !.at = f] /\ (f # at => at # EmptyFiles)
      BY SnapshotNames DEF Snapshots!kill, Snapshots!Exists
    <2>2. FolderKnows(dir[d], d)
      BY DEF AInv, FoldersKnow
    <2>3. f \in Files /\ AreOf(f, d)
      BY <2>1, <2>2, PinFacts DEF FolderKnows, Folder, Files, AreOf
    <2> QED
      BY <2>1, <2>2, <2>3 DEF FolderKnows, Folder
  <1> QED
    BY <1>1, SnapshotNames DEF FoldersKnow, Snapshots!kill

LEMMA AgesKeeps ==
    ASSUME AInv, NEW d \in SnapshotPins, Snapshots!ages(d)
    PROVE  FoldersKnow(dir') /\ LoadsKnow(job')
  <1> DEFINE r == [dir[d] EXCEPT !.old = TRUE]
  <1>1. job' = job /\ dir' = [dir EXCEPT ![d] = r] /\ FoldersKnow(dir)
    BY DEF Snapshots!ages, AInv
  <1>2. FolderKnows(r, d)
    BY <1>1 DEF FoldersKnow, FolderKnows, Folder
  <1> QED
    BY <1>1, <1>2, OneFolder DEF AInv

\* Whoever edits the registered files puts versions there.
LEMMA SourceKept == ASSUME AInv, Snapshots!SnapshotNext PROVE source' \in Files
  <1>1. \/ source' = source
        \/ \E share \in {"module", "keys", "prover"}, v \in Snapshots!Versions \cup {0} : source' = [source EXCEPT ![share] = v]
    BY DEF Snapshots!SnapshotNext, Snapshots!retainGeneration, Snapshots!getContractScaffold, Snapshots!importArtifactGeneration,
       Snapshots!buildWorkerContractProviders, Snapshots!prove, Snapshots!releaseGeneration, Snapshots!prepareSnapshotRoot,
       Snapshots!findSnapshot, Snapshots!copyModule, Snapshots!copyKeys, Snapshots!checkCopy, Snapshots!renameSnapshot, Snapshots!holdSnapshot,
       Snapshots!sweepLooks, Snapshots!sweepRemoves, Snapshots!workerRestarts, Snapshots!kill, Snapshots!editSource, Snapshots!ages
  <1>2. ASSUME NEW v \in Snapshots!Versions \cup {0} PROVE v \in SnapshotVersions
    <2>1. v = 0 \/ \E d \in SnapshotPins : v \in {d[1], d[2]}
      BY SnapshotNames DEF Snapshots!Versions
    <2> QED
      BY <2>1, PinFacts
  <1> QED
    BY <1>1, <1>2 DEF AInv, Files

LEMMA AInvNext == ASSUME AInv, Snapshots!SnapshotNext PROVE AInv'
  <1> SUFFICES FoldersKnow(dir') /\ LoadsKnow(job')
    BY SourceKept DEF AInv
  <1>1. CASE \E j \in SnapshotJobs :
                \/ Snapshots!retainGeneration(j) \/ Snapshots!getContractScaffold(j) \/ Snapshots!importArtifactGeneration(j)
                \/ Snapshots!buildWorkerContractProviders(j) \/ Snapshots!prove(j) \/ Snapshots!releaseGeneration(j)
                \/ Snapshots!prepareSnapshotRoot(j) \/ Snapshots!findSnapshot(j) \/ Snapshots!copyModule(j) \/ Snapshots!copyKeys(j) \/ Snapshots!checkCopy(j)
                \/ Snapshots!renameSnapshot(j) \/ Snapshots!holdSnapshot(j)
    BY <1>1, RetainKeeps, ScaffoldKeeps, ImportKeeps, BundleKeeps,
       ProveKeeps, ReleaseKeeps, PrepareKeeps, FindKeeps, CopyModuleKeeps, CopyKeysKeeps,
       CheckKeeps, RenameKeeps, HoldKeeps
  <1>2. CASE \E p : Snapshots!sweepLooks(p) \/ Snapshots!sweepRemoves(p) \/ Snapshots!workerRestarts(p) \/ Snapshots!kill(p)
    <2>1. PICK p : Snapshots!sweepLooks(p) \/ Snapshots!sweepRemoves(p) \/ Snapshots!workerRestarts(p) \/ Snapshots!kill(p)
      BY <1>2
    <2>2. Snapshots!workerRestarts(p) => dir' = dir
      BY DEF Snapshots!workerRestarts
    <2> QED
      BY <2>1, <2>2, SweepKeeps, EndsKeep, KillKeeps DEF AInv
  <1>3. CASE UNCHANGED <<dir, job>>
    BY <1>3 DEF AInv
  <1>4. CASE \E d \in SnapshotPins : Snapshots!ages(d)
    BY <1>4, AgesKeeps
  <1>5. ASSUME NEW share, NEW v, Snapshots!editSource(share, v) PROVE UNCHANGED <<dir, job>>
    BY <1>5 DEF Snapshots!editSource
  <1> QED
    BY <1>1, <1>2, <1>3, <1>4, <1>5, SnapshotNames DEF Snapshots!SnapshotNext

LEMMA AInvImplies == AInv => Snapshots!ProvesPinnedGeneration
  BY DEF AInv, LoadsKnow, LoadKnows, Snapshots!ProvesPinnedGeneration

SnapshotPart == part = "snapshots" => AInv

\* A call runs and proves the generation it was pinned to, for any calls, processes and generations, any size of the caches, and any
\* number of edits, restarts and half-removed folders (materializeArtifactSnapshot, sweepGenerationIfUnused).
THEOREM ProvesPinnedGenerationAlways == Spec => []ProvesPinnedGeneration
  <1>1. Init => SnapshotPart
    BY AInvInit DEF Init, SnapshotPart
  <1>2. SnapshotPart /\ [Next]_vars => SnapshotPart'
    <2> SUFFICES ASSUME SnapshotPart, [Next]_vars PROVE SnapshotPart'
      OBVIOUS
    <2>1. CASE UNCHANGED <<part, snapshotVars>>
      BY <2>1 DEF SnapshotPart, AInv, snapshotVars
    <2>2. CASE Only("snapshots") /\ Snapshots!SnapshotNext
      BY <2>2, AInvNext DEF SnapshotPart, Only
    <2>3. CASE part # "snapshots" /\ part' = part
      BY <2>3 DEF SnapshotPart
    <2>4. part = "snapshots" /\ Next => Only("snapshots") /\ Snapshots!SnapshotNext
      BY DEF Next, Only
    <2>5. Next => part' = part
      BY DEF Next, Only
    <2>6. UNCHANGED vars => UNCHANGED <<part, snapshotVars>>
      BY DEF vars
    <2> QED
      BY <2>1, <2>2, <2>3, <2>4, <2>5, <2>6
  <1>3. SnapshotPart => ProvesPinnedGeneration
    BY AInvImplies DEF SnapshotPart, ProvesPinnedGeneration
  <1> QED
    BY <1>1, <1>2, <1>3, PTL DEF Spec
-----------------------------------------------------------------------------
(* Types of a saved wallet.                                                *)

WalletStates == Wallet!States
EntryRecord == [here : WalletStates, restored : BOOLEAN, epoch : Nat, saved : WalletStates, pending : SUBSET Wallet!Saves]
SlotSteps == {"none", "building", "cancelled", "loaded", "leaving"}
Lives == 0..WalletLives
Gens == 0..(WalletReplacements + 1)
Progress == 0..WalletProgress
WorkerRecord == [life : Lives, seq : Nat, slot : SlotSteps, entry : EntryRecord]
TickRecord == [step : {"idle", "collect", "check", "log"}, epoch : Nat, blob : WalletStates]
ChangeRecord == [step : {"idle", "swapped", "waits"}, seq : Nat, to : WalletStates]
LeavingRecord == [step : {"idle", "lane", "waits", "done"}, seq : Nat, saved : BOOLEAN, blob : WalletStates]

LEMMA TypeParts ==
    Wallet!WalletTypeOK <=>
        /\ worker \in WorkerRecord /\ lock \in {"free", "submit", "change", "evict"}
        /\ tick \in TickRecord /\ change \in ChangeRecord /\ leaving \in LeavingRecord
        /\ posted \in Seq(Wallet!Saves) /\ acks \in Seq(Nat)
        /\ session \in BOOLEAN /\ store \in WalletStates /\ overtaken \in BOOLEAN
  BY DEF Wallet!WalletTypeOK, WorkerRecord, EntryRecord, SlotSteps, TickRecord, ChangeRecord, LeavingRecord, Lives, WalletStates

LEMMA StateTypes ==
    /\ Wallet!Nothing \in WalletStates /\ Wallet!Nothing.gen = 0 /\ Wallet!Nothing.at = 0 /\ Wallet!Nothing.life = 0
    /\ \A s \in WalletStates : s.gen \in 0..(WalletReplacements + 1) /\ s.at \in 0..WalletProgress /\ s.life \in 0..WalletLives
    /\ \A s \in WalletStates : s.gen \in Nat /\ s.at \in Nat /\ s.life \in Nat
    /\ \A e \in Wallet!Saves : e.seq \in Nat /\ e.blob \in WalletStates /\ e.epoch \in Nat
  BY WalletAssumption DEF WalletStates, Wallet!States, Wallet!Nothing, Wallet!Saves

LEMMA StateParts == WalletStates = [gen : Gens, at : Progress, life : Lives]
  BY DEF WalletStates, Wallet!States, Gens, Progress, Lives

LEMMA EntryTypes ==
    /\ Wallet!NoEntry \in EntryRecord
    /\ \A s \in WalletStates : Wallet!Entry(s) \in EntryRecord
    /\ Wallet!NoTick \in TickRecord /\ Wallet!NoChange \in ChangeRecord /\ Wallet!NoLeave \in LeavingRecord
  BY StateTypes DEF Wallet!NoEntry, Wallet!Entry, EntryRecord, Wallet!NoTick, Wallet!NoChange, Wallet!NoLeave, TickRecord,
     ChangeRecord, LeavingRecord

LEMMA WorkerTypes ==
  ASSUME worker \in WorkerRecord
  PROVE  /\ worker.life \in Nat /\ worker.life <= WalletLives /\ worker.seq \in Nat /\ worker.slot \in SlotSteps
         /\ worker.entry \in EntryRecord /\ worker.entry.here \in WalletStates /\ worker.entry.epoch \in Nat
         /\ worker.entry.saved \in WalletStates /\ worker.entry.pending \subseteq Wallet!Saves /\ worker.entry.restored \in BOOLEAN
  BY WalletAssumption DEF WorkerRecord, EntryRecord, Lives

\* What a confirmation leaves of the entry.
LEMMA ConfirmedTypes ==
  ASSUME NEW e \in EntryRecord, NEW s \in e.pending
  PROVE  /\ Wallet!Confirmed(e, s) \in EntryRecord /\ Wallet!Confirmed(e, s).here = e.here
         /\ Wallet!Confirmed(e, s).epoch = e.epoch /\ Wallet!Confirmed(e, s).pending \subseteq e.pending
         /\ Wallet!Confirmed(e, s).saved \in {e.saved, s.blob}
  <1> DEFINE pending1 == {t \in e.pending : t.seq # s.seq}
             saved1 == IF s.epoch = e.epoch THEN s.blob ELSE e.saved
  <1>1. Wallet!Confirmed(e, s) = [e EXCEPT !.pending = pending1, !.saved = saved1]
    BY DEF Wallet!Confirmed
  <1>2. pending1 \subseteq e.pending /\ pending1 \in SUBSET Wallet!Saves
    BY DEF EntryRecord
  <1>3. saved1 \in {e.saved, s.blob} /\ saved1 \in WalletStates
    BY StateTypes DEF EntryRecord
  <1> HIDE DEF pending1, saved1
  <1> QED
    BY <1>1, <1>2, <1>3 DEF EntryRecord

\* A push adds one save with the next number.
LEMMA PushTyped ==
  ASSUME worker \in WorkerRecord, posted \in Seq(Wallet!Saves), NEW e \in EntryRecord, NEW blob \in WalletStates, Wallet!pushStateSave(e, blob)
  PROVE  /\ worker' \in WorkerRecord /\ posted' \in Seq(Wallet!Saves)
         /\ posted' = Append(posted, [seq |-> worker.seq + 1, blob |-> blob, epoch |-> e.epoch])
         /\ worker'.life = worker.life /\ worker'.seq = worker.seq + 1 /\ worker'.slot = worker.slot
         /\ worker'.entry.here = e.here /\ worker'.entry.epoch = e.epoch /\ worker'.entry.saved = e.saved
         /\ worker'.entry.pending \subseteq e.pending \cup {[seq |-> worker.seq + 1, blob |-> blob, epoch |-> e.epoch]}
  <1> DEFINE save == [seq |-> worker.seq + 1, blob |-> blob, epoch |-> e.epoch]
             kept == Wallet!Newest(e.pending \cup {save})
  <1>1. save \in Wallet!Saves
    BY WorkerTypes DEF EntryRecord, Wallet!Saves, WalletStates
  <1>2. kept \subseteq e.pending \cup {save}
    BY DEF Wallet!Newest
  <1>3. posted' = Append(posted, save) /\ worker' = [worker EXCEPT !.seq = @ + 1, !.entry = [e EXCEPT !.pending = kept]]
    BY DEF Wallet!pushStateSave
  <1> HIDE DEF kept, save
  <1>4. [e EXCEPT !.pending = kept] \in EntryRecord
    BY <1>1, <1>2 DEF EntryRecord
  <1>5. worker' \in WorkerRecord
    <2>1. worker.seq + 1 \in Nat
      BY WorkerTypes
    <2> QED
      BY <1>3, <1>4, <2>1 DEF WorkerRecord
  <1>6. posted' \in Seq(Wallet!Saves)
    BY <1>1, <1>3
  <1>7. worker'.entry = [e EXCEPT !.pending = kept]
    BY <1>3 DEF WorkerRecord
  <1> QED
    BY <1>2, <1>3, <1>5, <1>6, <1>7 DEF WorkerRecord, EntryRecord, save

-----------------------------------------------------------------------------
(* What is known of the saves of a wallet.                                 *)

Live == worker.slot # "none"
Entry == worker.entry
Here == worker.entry.here

\* No replacement was saved since the wallet was loaded, and none is under way: its progress never fell.
Quiet == Live /\ Entry.epoch = 0 /\ change.step # "swapped"

\* A state that may be stored before another one: of an earlier load, or of the same and no newer.
Older(a, b) ==
    /\ a.life <= b.life
    /\ a.life = b.life => a.gen <= b.gen
    /\ Quiet /\ a.life = worker.life /\ b.life = worker.life => a.at <= b.at

\* The store has got this state of the current load, or a newer one.
Stored(b) == b.life = worker.life /\ store.life = worker.life /\ Older(b, store)

WorkerKnows ==
    /\ ~Live => Entry = Wallet!NoEntry
    /\ Live => Here.life = worker.life /\ worker.life > 0
    /\ worker.slot \in {"building", "cancelled"} => Entry.epoch = 0 /\ Entry.pending = {} /\ Entry.saved = Wallet!Nothing
    /\ worker.slot \notin {"loaded", "leaving"} =>
          tick.step = "idle" /\ change = Wallet!NoChange /\ leaving = Wallet!NoLeave /\ lock = "free"
    /\ leaving.step # "idle" <=> worker.slot = "leaving"

\* What was pushed is stored in its order, and the wallet is newer than all of it.
PostedKnows ==
    /\ store.life <= worker.life
    /\ \A i \in DOMAIN posted : posted[i].blob.life <= worker.life /\ Older(store, posted[i].blob)
    /\ \A i, k \in DOMAIN posted : i < k => Older(posted[i].blob, posted[k].blob) /\ posted[i].seq < posted[k].seq
    /\ Live => Older(store, Here) /\ \A i \in DOMAIN posted : Older(posted[i].blob, Here)

\* What a tick collected is newer than all that was pushed, unless the epoch was raised meanwhile.
TickKnows ==
    /\ tick.step # "idle" => tick.epoch <= Entry.epoch
    /\ tick.step \in {"check", "log"} /\ tick.epoch = Entry.epoch =>
          /\ tick.blob.life = worker.life /\ Older(tick.blob, Here) /\ Older(store, tick.blob)
          /\ \A i \in DOMAIN posted : Older(posted[i].blob, tick.blob)

ChangeKnows ==
    /\ lock = "submit" <=> change.step = "idle" /\ change # Wallet!NoChange
    /\ lock = "change" <=> change.step # "idle"
    /\ lock = "submit" => change.to.life = worker.life
    /\ change.step = "swapped" /\ change.to # Wallet!Nothing => change.to.life = worker.life /\ change.to.gen = Here.gen
    /\ lock = "evict" <=> leaving.step \in {"waits", "done"}

\* A save has one number; its confirmation comes after it was stored.
AckKnows ==
    /\ \A i \in DOMAIN posted : posted[i].seq <= worker.seq
    /\ \A i \in DOMAIN acks : acks[i] <= worker.seq
    /\ \A s \in Entry.pending :
          /\ s.seq <= worker.seq /\ s.blob.life = worker.life
          /\ \A i \in DOMAIN posted : posted[i].seq = s.seq => posted[i].blob = s.blob
          /\ \A i \in DOMAIN acks : acks[i] = s.seq => Stored(s.blob)
    /\ Entry.saved # Wallet!Nothing => Stored(Entry.saved)

\* The last save of a wallet that is unloaded is the last push of its load.
LeavingKnows ==
    /\ leaving.step \in {"waits", "done"} => tick.step = "idle" /\ leaving.blob.life = worker.life
    /\ leaving.step = "waits" =>
          /\ leaving.seq = worker.seq /\ ~leaving.saved
          /\ \A i \in DOMAIN posted : posted[i].seq = leaving.seq => posted[i].blob = leaving.blob
          /\ \A i \in DOMAIN acks : acks[i] = leaving.seq => store = leaving.blob /\ posted = <<>>
    /\ leaving.step = "done" /\ leaving.saved =>
          /\ store.life = worker.life
          /\ store.gen = leaving.blob.gen /\ (store.at = leaving.blob.at \/ Entry.epoch > 0)
          /\ \A i \in DOMAIN posted :
                posted[i].blob.gen = leaving.blob.gen /\ (posted[i].blob.at = leaving.blob.at \/ Entry.epoch > 0)

Knows == WorkerKnows /\ PostedKnows /\ TickKnows /\ ChangeKnows /\ AckKnows /\ LeavingKnows

\* No tick was overtaken by a replacement at its log line.
SaveInv == Wallet!WalletTypeOK /\ (~overtaken => Knows)

-----------------------------------------------------------------------------
(* Steps keep the types.                                                   *)

LEMMA OvertakenKept ==
  ASSUME Wallet!WalletTypeOK, Wallet!WalletNext
  PROVE  overtaken' \in BOOLEAN /\ (overtaken => overtaken')
  <1>1. overtaken \in BOOLEAN
    BY TypeParts
  <1>2. CASE Wallet!saveTick
    BY <1>1, <1>2 DEF Wallet!saveTick
  <1>3. CASE overtaken' = overtaken
    BY <1>1, <1>3
  <1> QED
    BY <1>2, <1>3 DEF Wallet!WalletNext, Wallet!buildFacade, Wallet!init, Wallet!Sync, Wallet!applySaveAck, Wallet!startPeriodicSave,
       Wallet!collectSerializedStates, Wallet!checkCollected, Wallet!handleStateSave, Wallet!saveDropped, Wallet!submitStarts,
       Wallet!submitEnds, Wallet!resetRestoredSubWallet, Wallet!restoreDustFromSnapshot, Wallet!replacementSaved,
       Wallet!replacementUnconfirmed, Wallet!evict, Wallet!finalSave, Wallet!finalSaveUnconfirmed, Wallet!zeroEntry, Wallet!onWorkerGone

LEMMA TypesKept == ASSUME Wallet!WalletTypeOK, Wallet!WalletNext PROVE Wallet!WalletTypeOK'
  <1> worker \in WorkerRecord /\ lock \in {"free", "submit", "change", "evict"}
      /\ tick \in TickRecord /\ change \in ChangeRecord /\ leaving \in LeavingRecord
      /\ posted \in Seq(Wallet!Saves) /\ acks \in Seq(Nat) /\ session \in BOOLEAN /\ store \in WalletStates
    BY TypeParts
  <1>0. /\ "none" \in SlotSteps /\ "building" \in SlotSteps /\ "cancelled" \in SlotSteps /\ "loaded" \in SlotSteps
        /\ "leaving" \in SlotSteps
    BY DEF SlotSteps
  <1>00. Here \in WalletStates /\ Here.gen \in Nat /\ Here.at \in Nat /\ Wallet!entry.here = Here
    BY WorkerTypes, StateTypes DEF Here, Wallet!entry
  <1>01. overtaken' \in BOOLEAN
    BY OvertakenKept
  <1> SUFFICES
        /\ worker' \in WorkerRecord /\ lock' \in {"free", "submit", "change", "evict"}
        /\ tick' \in TickRecord /\ change' \in ChangeRecord /\ leaving' \in LeavingRecord
        /\ posted' \in Seq(Wallet!Saves) /\ acks' \in Seq(Nat) /\ session' \in BOOLEAN /\ store' \in WalletStates
    BY <1>01, TypeParts DEF Wallet!WalletTypeOK, WorkerRecord, EntryRecord, SlotSteps, TickRecord, ChangeRecord, LeavingRecord, Lives, WalletStates
  <1>1. CASE Wallet!buildFacade
    <2> DEFINE here == [store EXCEPT !.life = worker.life + 1, !.gen = IF store = Wallet!Nothing THEN 1 ELSE store.gen]
    <2>1. worker' = [worker EXCEPT !.slot = "building", !.life = @ + 1, !.entry = [Wallet!Entry(store) EXCEPT !.here = here]]
      BY <1>1 DEF Wallet!buildFacade, Wallet!Entry
    <2>2. here \in WalletStates
      <3>1. worker.life + 1 \in Lives /\ 1 \in Gens
        BY <1>1, WalletAssumption, WorkerTypes DEF Wallet!buildFacade, Lives, Gens
      <3> QED
        BY <3>1, StateParts
    <2>3. [Wallet!Entry(store) EXCEPT !.here = here] \in EntryRecord
      BY <2>2, EntryTypes DEF EntryRecord
    <2>4. worker.life + 1 \in Lives
      BY <1>1, WalletAssumption, WorkerTypes DEF Wallet!buildFacade, Lives
    <2>5. worker' \in WorkerRecord
      <3> HIDE DEF here
      <3> QED
        BY <1>0, <2>1, <2>3, <2>4 DEF WorkerRecord
    <2> QED
      BY <1>1, <2>5 DEF Wallet!buildFacade
  <1>2. CASE Wallet!init
    <2>1. worker' \in WorkerRecord
      BY <1>0, <1>2, EntryTypes DEF Wallet!init, WorkerRecord
    <2> QED
      BY <1>2, <2>1 DEF Wallet!init
  <1>3. CASE Wallet!Sync
    <2>1. [Here EXCEPT !.at = @ + 1] \in WalletStates
      <3>1. Here.at + 1 \in Progress /\ Here \in WalletStates
        BY <1>00, <1>3, WalletAssumption DEF Wallet!Sync, Progress
      <3> QED
        BY <3>1, StateParts
    <2>2. worker' = [worker EXCEPT !.entry = [worker.entry EXCEPT !.here = [Here EXCEPT !.at = @ + 1]]]
      BY <1>3 DEF Wallet!Sync, Here, WorkerRecord, EntryRecord
    <2>3. worker' \in WorkerRecord
      BY <2>1, <2>2 DEF WorkerRecord, EntryRecord
    <2> QED
      BY <1>3, <2>3 DEF Wallet!Sync
  <1>4. CASE Wallet!applySaveAck
    <2>1. worker' \in WorkerRecord
      <3>1. CASE UNCHANGED worker
        BY <3>1
      <3>2. ASSUME NEW s \in worker.entry.pending,
                   worker' = [worker EXCEPT !.entry = Wallet!Confirmed(worker.entry, s)]
            PROVE worker' \in WorkerRecord
        BY <3>2, ConfirmedTypes, WorkerTypes DEF WorkerRecord
      <3> QED
        BY <1>4, <3>1, <3>2 DEF Wallet!applySaveAck, Wallet!entry
    <2>2. acks' \in Seq(Nat)
      <3>1. acks # <<>> /\ acks' = Tail(acks)
        BY <1>4 DEF Wallet!applySaveAck
      <3> QED
        BY <3>1
    <2>3. change' \in ChangeRecord /\ leaving' \in LeavingRecord /\ lock' \in {"free", "submit", "change", "evict"}
      BY <1>4, EntryTypes DEF Wallet!applySaveAck, LeavingRecord
    <2> QED
      BY <1>4, <2>1, <2>2, <2>3 DEF Wallet!applySaveAck
  <1>5. CASE Wallet!startPeriodicSave
    BY <1>5, StateTypes, WorkerTypes DEF Wallet!startPeriodicSave, Wallet!entry, TickRecord, Wallet!NoTick
  <1>6. CASE Wallet!collectSerializedStates
    BY <1>6, WorkerTypes DEF Wallet!collectSerializedStates, Wallet!entry, TickRecord
  <1>7. CASE Wallet!checkCollected \/ Wallet!saveTick
    <2>1. tick' \in TickRecord
      BY <1>7, EntryTypes DEF Wallet!checkCollected, Wallet!saveTick, TickRecord
    <2>2. worker' \in WorkerRecord /\ posted' \in Seq(Wallet!Saves)
      <3>1. UNCHANGED <<worker, posted>> \/ Wallet!pushStateSave(worker.entry, tick.blob)
        BY <1>7 DEF Wallet!checkCollected, Wallet!saveTick, Wallet!pushChanged, Wallet!entry
      <3>2. tick.blob \in WalletStates
        BY DEF TickRecord
      <3> QED
        BY <3>1, <3>2, PushTyped, WorkerTypes
    <2> QED
      BY <1>7, <2>1, <2>2 DEF Wallet!checkCollected, Wallet!saveTick
  <1>8. CASE Wallet!handleStateSave
    <2>1. Head(posted) \in Wallet!Saves /\ posted' \in Seq(Wallet!Saves)
      BY <1>8 DEF Wallet!handleStateSave
    <2>2. acks' \in Seq(Nat)
      BY <1>8, <2>1, StateTypes DEF Wallet!handleStateSave
    <2> QED
      BY <1>8, <2>1, <2>2, StateTypes DEF Wallet!handleStateSave
  <1>9. CASE Wallet!saveDropped
    BY <1>9 DEF Wallet!saveDropped
  <1>10. CASE Wallet!submitStarts \/ Wallet!submitEnds
    BY <1>10, EntryTypes, WorkerTypes DEF Wallet!submitStarts, Wallet!submitEnds, Wallet!entry, ChangeRecord
  <1>11. ASSUME NEW to \in WalletStates, NEW snapshot \in WalletStates, Wallet!Replacing(to, snapshot)
         PROVE worker' \in WorkerRecord /\ change' \in ChangeRecord
    <2>1. [worker.entry EXCEPT !.here = to, !.restored = FALSE] \in EntryRecord
      BY WorkerTypes DEF EntryRecord
    <2> QED
      BY <1>11, <2>1 DEF Wallet!Replacing, Wallet!entry, WorkerRecord, ChangeRecord
  <1>12. CASE Wallet!resetRestoredSubWallet
    <2>1. [Here EXCEPT !.at = 0, !.gen = @ + 1] \in WalletStates
      <3>1. Here.gen + 1 \in Gens /\ 0 \in Progress /\ Here \in WalletStates
        BY <1>00, <1>12, WalletAssumption DEF Wallet!resetRestoredSubWallet, Wallet!Replacing, Gens, Progress
      <3> QED
        BY <3>1, StateParts
    <2> QED
      BY <1>11, <1>12, <2>1, StateTypes DEF Wallet!resetRestoredSubWallet, Wallet!entry, Here
  <1>13. CASE Wallet!restoreDustFromSnapshot
    <2>1. [change.to EXCEPT !.gen = Here.gen + 1] \in WalletStates
      <3>1. Here.gen + 1 \in Gens /\ change.to \in WalletStates
        BY <1>00, <1>13, WalletAssumption DEF Wallet!restoreDustFromSnapshot, Wallet!Replacing, Gens, ChangeRecord
      <3> QED
        BY <3>1, StateParts
    <2> QED
      BY <1>11, <1>13, <2>1 DEF Wallet!restoreDustFromSnapshot, Wallet!entry, Here
  <1>14. CASE Wallet!replacementSaved
    <2>1. [worker.entry EXCEPT !.epoch = @ + 1] \in EntryRecord
      <3>1. worker.entry \in EntryRecord /\ worker.entry.epoch + 1 \in Nat
        BY WorkerTypes
      <3> QED
        BY ONLY <3>1 DEF EntryRecord
    <2>2. (IF change.to = Wallet!Nothing THEN worker.entry.here ELSE change.to) \in WalletStates
      BY WorkerTypes DEF ChangeRecord
    <2>3. worker' \in WorkerRecord /\ posted' \in Seq(Wallet!Saves)
      BY <1>14, <2>1, <2>2, PushTyped DEF Wallet!replacementSaved, Wallet!entry
    <2> QED
      <3>1. worker.seq + 1 \in Nat
        BY WorkerTypes
      <3> QED
        BY <1>14, <2>3, <3>1 DEF Wallet!replacementSaved, ChangeRecord
  <1>15. CASE Wallet!replacementUnconfirmed
    BY <1>15, EntryTypes DEF Wallet!replacementUnconfirmed
  <1>16. CASE Wallet!evict
    <2>1. worker' \in WorkerRecord
      BY <1>0, <1>16 DEF Wallet!evict, WorkerRecord
    <2>2. leaving' \in LeavingRecord
      BY <1>16, EntryTypes DEF Wallet!evict, LeavingRecord
    <2> QED
      BY <1>16, <2>1, <2>2 DEF Wallet!evict
  <1>17. CASE Wallet!finalSave
    <2>1. leaving' \in LeavingRecord
      <3>1. worker.seq + 1 \in Nat
        BY WorkerTypes
      <3> QED
        BY <1>17, <3>1, WorkerTypes DEF Wallet!finalSave, Wallet!entry, LeavingRecord
    <2>2. worker' \in WorkerRecord /\ posted' \in Seq(Wallet!Saves)
      BY <1>17, PushTyped, WorkerTypes DEF Wallet!finalSave, Wallet!pushChanged, Wallet!entry
    <2> QED
      BY <1>17, <2>1, <2>2 DEF Wallet!finalSave
  <1>18. CASE Wallet!finalSaveUnconfirmed
    BY <1>18 DEF Wallet!finalSaveUnconfirmed, LeavingRecord
  <1>19. CASE Wallet!zeroEntry \/ Wallet!onWorkerGone
    <2>1. worker' \in WorkerRecord
      BY <1>0, <1>19, EntryTypes DEF Wallet!zeroEntry, Wallet!onWorkerGone, WorkerRecord
    <2> QED
      <3>1. lock' = "free" /\ leaving' = Wallet!NoLeave /\ acks' = <<>> /\ UNCHANGED <<posted, store>>
            /\ session' \in {session, FALSE} /\ tick' \in {tick, Wallet!NoTick} /\ change' \in {change, Wallet!NoChange}
        BY <1>19 DEF Wallet!zeroEntry, Wallet!onWorkerGone
      <3>2. Wallet!NoTick \in TickRecord /\ Wallet!NoChange \in ChangeRecord /\ Wallet!NoLeave \in LeavingRecord
        BY EntryTypes
      <3>4. tick' \in TickRecord /\ change' \in ChangeRecord /\ leaving' \in LeavingRecord
        BY <3>1, <3>2
      <3>3. acks' \in Seq(Nat)
        BY <3>1
      <3>5. session' \in BOOLEAN
        BY <3>1
      <3> QED
        BY <2>1, <3>1, <3>3, <3>4, <3>5
  <1> QED
    BY <1>1, <1>2, <1>3, <1>4, <1>5, <1>6, <1>7, <1>8, <1>9, <1>10, <1>12, <1>13, <1>14, <1>15, <1>16, <1>17, <1>18, <1>19
    DEF Wallet!WalletNext

-----------------------------------------------------------------------------
(* Steps keep the order.                                                   *)

\* All numbers are numbers.
Numbers(s) == s.life \in Nat /\ s.gen \in Nat /\ s.at \in Nat
Counted ==
    /\ worker.life \in Nat /\ worker.seq \in Nat /\ Entry.epoch \in Nat /\ tick.epoch \in Nat /\ leaving.seq \in Nat
    /\ Numbers(Here) /\ Numbers(store) /\ Numbers(tick.blob) /\ Numbers(change.to) /\ Numbers(leaving.blob) /\ Numbers(Entry.saved)
    /\ \A i \in DOMAIN posted : posted[i].seq \in Nat /\ Numbers(posted[i].blob)
    /\ \A i \in DOMAIN acks : acks[i] \in Nat
    /\ \A s \in Entry.pending : s.seq \in Nat /\ Numbers(s.blob)
    /\ Wallet!Nothing.life = 0

LEMMA TypesCount == ASSUME Wallet!WalletTypeOK PROVE Counted
  <1>1. worker \in WorkerRecord /\ tick \in TickRecord /\ change \in ChangeRecord /\ leaving \in LeavingRecord
        /\ posted \in Seq(Wallet!Saves) /\ acks \in Seq(Nat) /\ store \in WalletStates
    BY TypeParts
  <1>2. \A s \in WalletStates : Numbers(s)
    BY StateTypes DEF Numbers
  <1>3. tick.epoch \in Nat /\ tick.blob \in WalletStates /\ change.to \in WalletStates /\ leaving.seq \in Nat /\ leaving.blob \in WalletStates
    BY <1>1 DEF TickRecord, ChangeRecord, LeavingRecord
  <1>4. \A i \in DOMAIN posted : posted[i] \in Wallet!Saves
    BY <1>1, ElementOfSeq, LenProperties
  <1>5. \A i \in DOMAIN acks : acks[i] \in Nat
    BY <1>1, ElementOfSeq, LenProperties
  <1>6. worker.life \in Nat /\ worker.seq \in Nat /\ Entry.epoch \in Nat /\ Here \in WalletStates /\ Entry.saved \in WalletStates
        /\ Entry.pending \subseteq Wallet!Saves
    BY <1>1, WorkerTypes DEF Entry, Here
  <1>7. \A s \in Wallet!Saves : s.seq \in Nat /\ Numbers(s.blob)
    BY <1>2, StateTypes
  <1>8. Numbers(Here) /\ Numbers(store) /\ Numbers(tick.blob) /\ Numbers(change.to) /\ Numbers(leaving.blob) /\ Numbers(Entry.saved)
    BY <1>1, <1>2, <1>3, <1>6
  <1> QED
    BY <1>3, <1>4, <1>5, <1>6, <1>7, <1>8, StateTypes DEF Counted

\* what a push puts at the end of the queue
LEMMA PushKeeps ==
  ASSUME Wallet!WalletTypeOK, Live, PostedKnows, AckKnows,
         NEW e \in EntryRecord, NEW blob \in WalletStates, Wallet!pushStateSave(e, blob),
         e.here = Here, e.saved = Entry.saved, e.pending = Entry.pending, blob.life = worker.life,
         Older(store, blob), \A i \in DOMAIN posted : Older(posted[i].blob, blob), Older(blob, Here),
         Quiet' => Quiet, UNCHANGED <<acks, store>>
  PROVE  PostedKnows' /\ AckKnows'
  <1> DEFINE save == [seq |-> worker.seq + 1, blob |-> blob, epoch |-> e.epoch]
  <1>1. Counted /\ worker \in WorkerRecord /\ posted \in Seq(Wallet!Saves)
    BY TypesCount, TypeParts
  <1>2. posted' = Append(posted, save) /\ worker'.life = worker.life /\ worker'.seq = worker.seq + 1 /\ worker'.slot = worker.slot
        /\ Here' = Here /\ Entry'.saved = Entry.saved /\ Entry'.pending \subseteq Entry.pending \cup {save}
    BY <1>1, PushTyped DEF Here, Entry
  <1>3. DOMAIN posted' = DOMAIN posted \cup {Len(posted) + 1} /\ posted'[Len(posted) + 1] = save
        /\ \A i \in DOMAIN posted : posted'[i] = posted[i] /\ i < Len(posted) + 1 /\ i \in Nat
    BY <1>1, <1>2
  <1>4. save.seq = worker.seq + 1 /\ save.blob = blob /\ Numbers(blob)
    BY StateTypes DEF Numbers
  <1> HIDE DEF save
  <1>5. PostedKnows'
    <2>1. store'.life <= worker'.life
      BY <1>2 DEF PostedKnows
    <2>2. ASSUME NEW i \in DOMAIN posted' PROVE posted'[i].blob.life <= worker'.life /\ Older(store, posted[i].blob)'
      <3>1. CASE i \in DOMAIN posted
        BY <1>2, <1>3, <3>1 DEF PostedKnows, Older
      <3>2. CASE i = Len(posted) + 1
        BY <1>1, <1>2, <1>3, <1>4, <3>2 DEF Older, Counted
      <3> QED
        BY <1>3, <3>1, <3>2
    <2>3. ASSUME NEW i \in DOMAIN posted', NEW k \in DOMAIN posted', i < k
          PROVE  Older(posted[i].blob, posted[k].blob)' /\ posted'[i].seq < posted'[k].seq
      <3>1. i \in DOMAIN posted /\ posted'[i] = posted[i]
        BY <1>1, <1>3, <2>3
      <3>2. CASE k \in DOMAIN posted
        BY <1>2, <1>3, <2>3, <3>1, <3>2 DEF PostedKnows, Older
      <3>3. CASE k = Len(posted) + 1
        <4>1. Older(posted[i].blob, blob) /\ posted[i].seq <= worker.seq /\ posted[i].seq \in Nat
          BY <1>1, <3>1 DEF AckKnows, Counted
        <4> QED
          BY <1>1, <1>2, <1>3, <1>4, <3>1, <3>3, <4>1 DEF Older, Counted
      <3> QED
        BY <1>3, <3>2, <3>3
    <2>4. Older(store, Here)' /\ \A i \in DOMAIN posted' : Older(posted[i].blob, Here)'
      BY <1>2, <1>3, <1>4 DEF PostedKnows, Older
    <2> QED
      BY <2>1, <2>2, <2>3, <2>4 DEF PostedKnows
  <1>6. AckKnows'
    <2>1. \A i \in DOMAIN posted' : posted'[i].seq <= worker'.seq
      BY <1>1, <1>2, <1>3, <1>4 DEF AckKnows, Counted
    <2>2. \A i \in DOMAIN acks' : acks'[i] <= worker'.seq
      BY <1>1, <1>2 DEF AckKnows, Counted
    <2>3. ASSUME NEW s \in Entry'.pending
          PROVE  /\ s.seq <= worker'.seq /\ s.blob.life = worker'.life
                 /\ \A i \in DOMAIN posted' : posted'[i].seq = s.seq => posted'[i].blob = s.blob
                 /\ \A i \in DOMAIN acks' : acks'[i] = s.seq => Stored(s.blob)'
      <3>1. CASE s \in Entry.pending
        BY <1>1, <1>2, <1>3, <1>4, <3>1 DEF AckKnows, Counted, Stored, Older
      <3>2. CASE s = save
        BY <1>1, <1>2, <1>3, <1>4, <3>2 DEF AckKnows, Counted
      <3> QED
        BY <1>2, <3>1, <3>2
    <2>4. Entry'.saved # Wallet!Nothing => Stored(Entry.saved)'
      BY <1>2 DEF AckKnows, Stored, Older
    <2> QED
      BY <2>1, <2>2, <2>3, <2>4 DEF AckKnows
  <1> QED
    BY <1>5, <1>6

-----------------------------------------------------------------------------
(* What steps elsewhere leave as it was.                                   *)

LEMMA PostedFrame ==
  ASSUME PostedKnows, UNCHANGED <<posted, store>>, worker'.life = worker.life, Live' => Live /\ Here' = Here, Quiet' => Quiet
  PROVE  PostedKnows'
  BY DEF PostedKnows, Older

LEMMA TickFrame ==
  ASSUME TickKnows, UNCHANGED <<tick, posted, store>>, worker'.life = worker.life, Here' = Here, Entry'.epoch = Entry.epoch,
         Quiet' => Quiet
  PROVE  TickKnows'
  BY DEF TickKnows, Older

LEMMA AckFrame ==
  ASSUME AckKnows, UNCHANGED <<posted, store, acks>>, worker'.life = worker.life, worker'.seq = worker.seq,
         Entry'.pending \subseteq Entry.pending, Entry'.saved \in {Entry.saved, Wallet!Nothing}, Quiet' => Quiet
  PROVE  AckKnows'
  BY DEF AckKnows, Stored, Older

LEMMA LeavingFrame ==
  ASSUME LeavingKnows, UNCHANGED <<leaving, posted, store, acks>>, worker'.life = worker.life, worker'.seq = worker.seq,
         Entry'.epoch = Entry.epoch, leaving.step \in {"waits", "done"} => tick'.step = tick.step
  PROVE  LeavingKnows'
  BY DEF LeavingKnows

-----------------------------------------------------------------------------
(* Submits and save ticks.                                                 *)

LEMMA LockKeeps ==
  ASSUME Wallet!WalletTypeOK, Knows, Wallet!submitStarts \/ Wallet!submitEnds \/ Wallet!replacementUnconfirmed
  PROVE  Knows'
  <1>1. UNCHANGED <<worker, tick, leaving, posted, acks, store>>
    BY DEF Wallet!submitStarts, Wallet!submitEnds, Wallet!replacementUnconfirmed
  <1>2. change'.step = "idle" /\ change.step \in {"idle", "waits"}
    BY DEF Wallet!submitStarts, Wallet!submitEnds, Wallet!replacementUnconfirmed, Wallet!NoChange, Knows, ChangeKnows
  <1>3. /\ Here' = Here /\ Entry' = Entry /\ (Live' => Live) /\ (Quiet' => Quiet)
    BY <1>1, <1>2 DEF Here, Entry, Live, Quiet
  <1>4. ChangeKnows'
    <2>1. CASE Wallet!submitStarts
      <3>1. change'.to = Here /\ change'.step = "idle" /\ Here.life = worker.life /\ worker.life > 0 /\ leaving.step = "idle"
        BY <2>1, TypeParts DEF Wallet!submitStarts, Wallet!entry, Wallet!loaded, Knows, ChangeKnows, WorkerKnows, Here, Live, ChangeRecord
      <3>2. change' # Wallet!NoChange
        BY <3>1, StateTypes, TypesCount DEF Wallet!NoChange, Counted
      <3> QED
        BY <1>1, <1>3, <2>1, <3>1, <3>2 DEF Wallet!submitStarts, ChangeKnows
    <2>2. CASE Wallet!submitEnds \/ Wallet!replacementUnconfirmed
      <3>1. lock' = "free" /\ change' = Wallet!NoChange /\ lock \in {"submit", "change"}
        BY <2>2 DEF Wallet!submitEnds, Wallet!replacementUnconfirmed, Knows, ChangeKnows
      <3> QED
        BY <1>1, <3>1 DEF Knows, ChangeKnows, Wallet!NoChange
    <2> QED
      BY <2>1, <2>2
  <1>5. WorkerKnows'
    <2>1. worker.slot \in {"loaded", "leaving"}
      BY TypeParts DEF Wallet!submitStarts, Wallet!submitEnds, Wallet!replacementUnconfirmed, Wallet!loaded, Knows, WorkerKnows,
         Wallet!NoChange
    <2> QED
      BY <1>1, <1>3, <2>1 DEF Knows, WorkerKnows, Live
  <1> QED
    BY <1>1, <1>3, <1>4, <1>5, PostedFrame, TickFrame, AckFrame, LeavingFrame DEF Knows

LEMMA CollectKeeps ==
  ASSUME Wallet!WalletTypeOK, Knows, Wallet!startPeriodicSave \/ Wallet!collectSerializedStates
  PROVE  Knows'
  <1>1. UNCHANGED <<worker, lock, change, leaving, posted, acks, store>>
    BY DEF Wallet!startPeriodicSave, Wallet!collectSerializedStates
  <1>2. Here' = Here /\ Entry' = Entry /\ (Live' => Live) /\ (Quiet' => Quiet)
    BY <1>1 DEF Here, Entry, Live, Quiet
  <1>3. worker.slot \in {"loaded", "leaving"} /\ leaving.step \notin {"waits", "done"} /\ Live /\ tick'.step \in {"collect", "check"}
    BY TypeParts DEF Wallet!startPeriodicSave, Wallet!collectSerializedStates, Wallet!loaded, Wallet!NoTick, Knows, WorkerKnows,
       LeavingKnows, Live, TickRecord
  <1>4. TickKnows'
    <2>1. CASE Wallet!startPeriodicSave
      <3>1. tick'.step = "collect" /\ tick'.epoch = Entry.epoch
        BY <2>1 DEF Wallet!startPeriodicSave, Wallet!NoTick, Wallet!entry, Entry
      <3> QED
        BY <1>2, <3>1, TypesCount DEF TickKnows, Counted
    <2>2. CASE Wallet!collectSerializedStates
      <3>1. tick'.step = "check" /\ tick'.epoch = tick.epoch /\ tick'.blob = Here /\ tick.step = "collect"
        BY <2>2, TypeParts DEF Wallet!collectSerializedStates, Wallet!entry, Here, TickRecord
      <3>2. Here.life = worker.life /\ Older(store, Here) /\ (\A i \in DOMAIN posted : Older(posted[i].blob, Here))
            /\ tick.epoch <= Entry.epoch
        BY <1>3, <3>1 DEF Knows, WorkerKnows, PostedKnows, TickKnows
      <3>3. Older(Here, Here)
        BY TypesCount DEF Older, Counted, Numbers
      <3> QED
        BY <1>1, <1>2, <3>1, <3>2, <3>3 DEF TickKnows, Older
    <2> QED
      BY <2>1, <2>2
  <1>5. WorkerKnows' /\ ChangeKnows'
    BY <1>1, <1>2, <1>3 DEF Knows, WorkerKnows, ChangeKnows, Live
  <1> QED
    BY <1>1, <1>2, <1>3, <1>4, <1>5, PostedFrame, AckFrame, LeavingFrame DEF Knows

\* What the tick pushes is newer than all that was pushed, unless the tick was overtaken.
LEMMA CheckCollectedKeeps ==
  ASSUME Wallet!WalletTypeOK, ~overtaken', Knows, Wallet!checkCollected \/ Wallet!saveTick
  PROVE  Knows'
  <1>1. UNCHANGED <<lock, change, leaving, acks, store>> /\ tick.step \in {"check", "log"}
    BY DEF Wallet!checkCollected, Wallet!saveTick
  <1>2. worker.slot \in {"loaded", "leaving"} /\ leaving.step \notin {"waits", "done"} /\ Live
    BY <1>1, TypeParts DEF Knows, WorkerKnows, LeavingKnows, Live, WorkerRecord, SlotSteps
  <1>3. CASE UNCHANGED <<worker, posted>> /\ (tick' = Wallet!NoTick \/ tick' = [tick EXCEPT !.step = "log"])
    <2>1. Here' = Here /\ Entry' = Entry /\ (Live' => Live) /\ (Quiet' => Quiet)
      BY <1>1, <1>3 DEF Here, Entry, Live, Quiet
    <2>2. WorkerKnows' /\ ChangeKnows'
      BY <1>1, <1>2, <1>3, <2>1 DEF Knows, WorkerKnows, ChangeKnows, Live
    <2>3. TickKnows'
      <3>1. CASE tick' = Wallet!NoTick
        BY <3>1 DEF TickKnows, Wallet!NoTick
      <3>2. CASE tick' = [tick EXCEPT !.step = "log"]
        <4>1. tick'.step = "log" /\ tick'.epoch = tick.epoch /\ tick'.blob = tick.blob
          BY <3>2, TypeParts DEF TickRecord
        <4> QED
          BY <1>1, <1>3, <2>1, <4>1 DEF Knows, TickKnows, Older
      <3> QED
        BY <1>3, <3>1, <3>2
    <2>4. LeavingKnows'
      BY <1>1, <1>2 DEF LeavingKnows
    <2> QED
      BY <1>1, <1>3, <2>1, <2>2, <2>3, <2>4, PostedFrame, AckFrame DEF Knows
  <1>4. CASE tick' = Wallet!NoTick /\ tick.epoch = Entry.epoch /\ Wallet!pushStateSave(Entry, tick.blob)
    <2>1. worker \in WorkerRecord /\ posted \in Seq(Wallet!Saves) /\ Entry \in EntryRecord /\ tick.blob \in WalletStates
      BY TypeParts, WorkerTypes DEF Entry, TickRecord
    <2>2. worker'.life = worker.life /\ worker'.slot = worker.slot /\ Here' = Here /\ Entry'.epoch = Entry.epoch
      BY <1>4, <2>1, PushTyped DEF Here, Entry
    <2>3. (Quiet' => Quiet) /\ (Live' <=> Live)
      BY <1>1, <2>2 DEF Quiet, Live
    <2>4. /\ tick.blob.life = worker.life /\ Older(tick.blob, Here) /\ Older(store, tick.blob)
          /\ \A i \in DOMAIN posted : Older(posted[i].blob, tick.blob)
      BY <1>1, <1>4 DEF Knows, TickKnows
    <2>5. PostedKnows' /\ AckKnows'
      BY <1>1, <1>2, <1>4, <2>1, <2>3, <2>4, PushKeeps DEF Knows, Here, Entry
    <2>6. WorkerKnows' /\ ChangeKnows'
      BY <1>1, <1>2, <2>2, <2>3 DEF Knows, WorkerKnows, ChangeKnows, Live
    <2>7. LeavingKnows' /\ TickKnows'
      BY <1>1, <1>2, <1>4 DEF LeavingKnows, TickKnows, Wallet!NoTick
    <2> QED
      BY <2>5, <2>6, <2>7 DEF Knows
  <1>5. CASE Wallet!checkCollected
    BY <1>3, <1>4, <1>5 DEF Wallet!checkCollected, Wallet!pushChanged, Wallet!entry, Entry
  <1>6. CASE Wallet!saveTick
    <2>1. tick.blob # Entry.saved => tick.epoch = Entry.epoch
      BY <1>6 DEF Wallet!saveTick, Wallet!entry, Entry
    <2> QED
      BY <1>3, <1>4, <1>6, <2>1 DEF Wallet!saveTick, Wallet!pushChanged, Wallet!entry, Entry
  <1> QED
    BY <1>5, <1>6

\* The oldest save on its way reaches the store, or is lost.
LEMMA StoreKeeps ==
  ASSUME Wallet!WalletTypeOK, Knows, Wallet!handleStateSave \/ Wallet!saveDropped
  PROVE  Knows'
  <1> DEFINE first == posted[1]
  <1>1. UNCHANGED <<worker, lock, tick, change, leaving>> /\ posted # <<>> /\ posted' = Tail(posted)
    BY DEF Wallet!handleStateSave, Wallet!saveDropped
  <1>2. Here' = Here /\ Entry' = Entry /\ (Live' <=> Live) /\ (Quiet' <=> Quiet)
    BY <1>1 DEF Here, Entry, Live, Quiet
  <1>3. posted \in Seq(Wallet!Saves) /\ acks \in Seq(Nat) /\ Counted
    BY TypeParts, TypesCount
  <1>4. /\ 1 \in DOMAIN posted
        /\ \A i \in DOMAIN posted' : posted'[i] = posted[i + 1] /\ i + 1 \in DOMAIN posted /\ i \in Nat /\ 1 < i + 1
        /\ \A i, k \in DOMAIN posted' : i < k => i + 1 < k + 1
    BY <1>1, <1>3, HeadTailProperties, LenProperties
  <1>5. \/ store' = first.blob /\ (first.blob.life = worker.life => acks' = Append(acks, first.seq))
           /\ (first.blob.life # worker.life => acks' = acks)
        \/ store' = store /\ acks' = acks
    BY <1>1, <1>3 DEF Wallet!handleStateSave, Wallet!saveDropped
  <1>6. \A i \in DOMAIN acks' : (i \in DOMAIN acks /\ acks'[i] = acks[i])
                                \/ (acks'[i] = first.seq /\ first.blob.life = worker.life /\ store' = first.blob)
    <2>1. acks' = acks \/ (acks' = Append(acks, first.seq) /\ first.blob.life = worker.life /\ store' = first.blob)
      BY <1>5
    <2>2. CASE acks' = Append(acks, first.seq)
      <3>1. first.seq \in Nat
        BY <1>3, <1>4 DEF Counted
      <3> QED
        BY <1>3, <2>1, <2>2, <3>1, AppendProperties
    <2> QED
      BY <2>1, <2>2
  <1>7. store' = store \/ store' = first.blob
    BY <1>5
  <1> HIDE DEF first
  <1>9. /\ Older(store, first.blob) /\ first.blob.life <= worker.life /\ first.seq <= worker.seq
        /\ Numbers(first.blob) /\ Numbers(store) /\ first.seq \in Nat /\ worker.life \in Nat /\ worker.seq \in Nat
    BY <1>3, <1>4 DEF Knows, PostedKnows, AckKnows, Counted, first
  <1>8. /\ \A i \in DOMAIN posted' : Older(store, posted'[i].blob) /\ Older(first.blob, posted'[i].blob) /\ first.seq < posted'[i].seq
        /\ \A i \in DOMAIN posted' : posted'[i].blob.life <= worker.life /\ Numbers(posted'[i].blob)
        /\ \A i, k \in DOMAIN posted' : i < k => Older(posted'[i].blob, posted'[k].blob) /\ posted'[i].seq < posted'[k].seq
        /\ Live => Older(store, Here) /\ Older(first.blob, Here) /\ \A i \in DOMAIN posted' : Older(posted'[i].blob, Here)
    BY <1>3, <1>4 DEF Knows, PostedKnows, AckKnows, Counted, first
  <1>11. PostedKnows'
    <2>1. \A i \in DOMAIN posted' : Older(store', posted'[i].blob)
      BY <1>7, <1>8
    <2>2. store'.life <= worker.life /\ (Live => Older(store', Here))
      BY <1>7, <1>8, <1>9 DEF Knows, PostedKnows
    <2> QED
      BY <1>1, <1>2, <1>8, <2>1, <2>2 DEF PostedKnows, Older
  <1>12. TickKnows'
    BY <1>1, <1>2, <1>4, <1>7 DEF Knows, TickKnows, Older, first
  <1> DEFINE Kept(b) == b.life = worker.life /\ store'.life = worker.life /\ Older(b, store')
  <1>13. store' = first.blob /\ first.blob.life = worker.life => Kept(first.blob)
    BY <1>9 DEF Older, Numbers
  <1>14. ASSUME NEW b, Numbers(b), Stored(b) PROVE Kept(b)
    <2>1. CASE store' = store
      BY <1>14, <2>1 DEF Stored
    <2>2. CASE store' = first.blob
      <3>1. first.blob.life = worker.life
        BY <1>9, <1>14 DEF Stored, Older, Numbers
      <3> QED
        BY <1>9, <1>14, <2>2, <3>1 DEF Stored, Older, Numbers
    <2> QED
      BY <1>7, <2>1, <2>2
  <1> HIDE DEF Kept
  <1>15. AckKnows'
    <2>1. \A i \in DOMAIN posted' : posted'[i].seq <= worker.seq
      BY <1>4 DEF Knows, AckKnows
    <2>2. \A i \in DOMAIN acks' : acks'[i] <= worker.seq
      BY <1>6, <1>9 DEF Knows, AckKnows
    <2>3. ASSUME NEW s \in Entry.pending
          PROVE  /\ s.seq <= worker.seq /\ s.blob.life = worker.life
                 /\ \A i \in DOMAIN posted' : posted'[i].seq = s.seq => posted'[i].blob = s.blob
                 /\ \A i \in DOMAIN acks' : acks'[i] = s.seq => Kept(s.blob)
      <3>1. Numbers(s.blob)
        BY <1>3 DEF Counted
      <3>2. first.seq = s.seq => first.blob = s.blob
        BY <1>4 DEF Knows, AckKnows, first
      <3>3. ASSUME NEW i \in DOMAIN acks', acks'[i] = s.seq PROVE Kept(s.blob)
        <4>1. CASE i \in DOMAIN acks /\ acks'[i] = acks[i]
          BY <1>14, <3>1, <3>3, <4>1 DEF Knows, AckKnows
        <4>2. CASE acks'[i] = first.seq /\ first.blob.life = worker.life /\ store' = first.blob
          BY <1>13, <3>2, <3>3, <4>2
        <4> QED
          BY <1>6, <4>1, <4>2
      <3> QED
        BY <1>4, <3>3 DEF Knows, AckKnows
    <2>4. Entry.saved # Wallet!Nothing => Kept(Entry.saved)
      BY <1>3, <1>14 DEF Knows, AckKnows, Counted
    <2> QED
      BY <1>1, <1>2, <2>1, <2>2, <2>3, <2>4 DEF AckKnows, Stored, Older, Kept
  <1>16. LeavingKnows'
    <2>1. ASSUME leaving.step = "waits"
          PROVE  /\ \A i \in DOMAIN posted' : posted'[i].seq = leaving.seq => posted'[i].blob = leaving.blob
                 /\ \A i \in DOMAIN acks' : acks'[i] = leaving.seq => store' = leaving.blob /\ posted' = <<>>
      <3>1. leaving.seq = worker.seq /\ leaving.blob.life = worker.life /\ (first.seq = leaving.seq => first.blob = leaving.blob)
        BY <1>4, <2>1 DEF Knows, LeavingKnows, first
      <3>2. first.seq = leaving.seq => DOMAIN posted' = {}
        <4>1. \A i \in DOMAIN posted' : posted'[i].seq <= worker.seq /\ posted'[i].seq \in Nat
          BY <1>3, <1>4 DEF Knows, AckKnows, Counted
        <4>2. \A i \in DOMAIN posted' : first.seq < posted'[i].seq
          BY <1>8
        <4>3. ASSUME first.seq = leaving.seq, NEW i \in DOMAIN posted' PROVE FALSE
          BY <1>9, <3>1, <4>1, <4>2, <4>3
        <4> QED
          BY <4>3
      <3>3. DOMAIN posted' = {} => posted' = <<>>
        BY <1>1, <1>3, LenProperties, EmptySeq
      <3>4. \A i \in DOMAIN acks : acks[i] # leaving.seq
        BY <1>1, <2>1 DEF Knows, LeavingKnows
      <3> QED
        BY <1>4, <1>6, <2>1, <3>1, <3>2, <3>3, <3>4 DEF Knows, LeavingKnows
    <2>2. ASSUME leaving.step = "done", leaving.saved
          PROVE  /\ store'.life = worker.life
                 /\ store'.gen = leaving.blob.gen /\ (store'.at = leaving.blob.at \/ Entry.epoch > 0)
                 /\ \A i \in DOMAIN posted' :
                       posted'[i].blob.gen = leaving.blob.gen /\ (posted'[i].blob.at = leaving.blob.at \/ Entry.epoch > 0)
      <3>1. store.life = worker.life => first.blob.life = worker.life
        BY <1>9 DEF Older, Numbers
      <3> QED
        BY <1>4, <1>7, <2>2, <3>1 DEF Knows, LeavingKnows, first
    <2> QED
      BY <1>1, <1>2, <2>1, <2>2 DEF Knows, LeavingKnows
  <1>17. WorkerKnows' /\ ChangeKnows'
    BY <1>1, <1>2 DEF Knows, WorkerKnows, ChangeKnows
  <1> QED
    BY <1>11, <1>12, <1>15, <1>16, <1>17 DEF Knows

\* A confirmation that counts is one of a state the store has got.
LEMMA AckKeeps ==
  ASSUME Wallet!WalletTypeOK, Knows, Wallet!applySaveAck
  PROVE  Knows'
  <1>1. UNCHANGED <<tick, posted, store>> /\ acks # <<>> /\ acks' = Tail(acks)
    BY DEF Wallet!applySaveAck
  <1>2. worker \in WorkerRecord /\ acks \in Seq(Nat) /\ Counted
    BY TypeParts, TypesCount
  <1>3. 1 \in DOMAIN acks /\ Head(acks) = acks[1] /\ \A i \in DOMAIN acks' : acks'[i] = acks[i + 1] /\ i + 1 \in DOMAIN acks
    BY <1>1, <1>2, HeadTailProperties, LenProperties
  <1> DEFINE Kept ==
        /\ worker'.life = worker.life /\ worker'.seq = worker.seq /\ worker'.slot = worker.slot
        /\ Here' = Here /\ Entry'.epoch = Entry.epoch /\ Entry'.pending \subseteq Entry.pending
        /\ Entry'.saved = Entry.saved \/ (\E s \in Entry.pending : s.seq = acks[1] /\ Entry'.saved = s.blob)
        /\ worker' = worker \/ worker.slot = "loaded"
  <1>4. Kept
    <2>1. CASE UNCHANGED worker
      BY <2>1 DEF Here, Entry
    <2>2. ASSUME NEW s \in Entry.pending, s.seq = Head(acks), worker.slot = "loaded",
                 worker' = [worker EXCEPT !.entry = Wallet!Confirmed(worker.entry, s)]
          PROVE Kept
      <3>1. /\ worker'.entry.here = worker.entry.here /\ worker'.entry.epoch = worker.entry.epoch
            /\ worker'.entry.pending \subseteq worker.entry.pending
            /\ worker'.entry.saved \in {worker.entry.saved, s.blob}
        <4>1. worker'.entry = Wallet!Confirmed(worker.entry, s)
          BY <1>2, <2>2 DEF WorkerRecord
        <4> QED
          BY <1>2, <4>1, ConfirmedTypes, WorkerTypes DEF Entry
      <3>2. worker'.life = worker.life /\ worker'.seq = worker.seq /\ worker'.slot = worker.slot
        BY <1>2, <2>2 DEF WorkerRecord
      <3> QED
        BY <1>3, <2>2, <3>1, <3>2 DEF Here, Entry
    <2> QED
      BY <2>1, <2>2 DEF Wallet!applySaveAck, Wallet!entry, Wallet!loaded, Entry
  <1>5. \/ change' = change /\ lock' = lock
        \/ change.step = "waits" /\ change' = Wallet!NoChange /\ lock' = "free"
    BY DEF Wallet!applySaveAck
  <1>6. \/ leaving' = leaving
        \/ /\ leaving.step = "waits" /\ leaving.seq = acks[1]
           /\ leaving'.step = "done" /\ leaving'.saved = TRUE /\ leaving'.blob = leaving.blob
    <2>1. leaving \in LeavingRecord
      BY TypeParts
    <2> QED
      BY <1>3, <2>1 DEF Wallet!applySaveAck, LeavingRecord
  <1>7. (Live' <=> Live) /\ (Quiet' => Quiet)
    BY <1>4, <1>5 DEF Live, Quiet, Wallet!NoChange
  <1>8. PostedKnows' /\ TickKnows'
    BY <1>1, <1>4, <1>7, PostedFrame, TickFrame DEF Knows
  <1>9. AckKnows'
    <2>1. ASSUME NEW b, Stored(b) PROVE Stored(b)'
      BY <1>1, <1>4, <1>7, <2>1 DEF Stored, Older
    <2>2. \A s \in Entry'.pending : \A i \in DOMAIN acks' : acks'[i] = s.seq => Stored(s.blob)'
      BY <1>3, <1>4, <2>1 DEF Knows, AckKnows
    <2>3. Entry'.saved # Wallet!Nothing => Entry'.saved.life = worker.life /\ store.life = worker.life /\ Older(Entry'.saved, store)
      BY <1>3, <1>4 DEF Knows, AckKnows, Stored
    <2>4. Entry'.saved # Wallet!Nothing => Stored(Entry.saved)'
      BY <1>1, <1>4, <1>7, <2>3 DEF Stored, Older
    <2>5. /\ \A i \in DOMAIN posted' : posted'[i].seq <= worker'.seq
          /\ \A i \in DOMAIN acks' : acks'[i] <= worker'.seq
      BY <1>1, <1>3, <1>4 DEF Knows, AckKnows
    <2> QED
      BY <1>1, <1>4, <2>2, <2>4, <2>5 DEF Knows, AckKnows
  <1>10. ChangeKnows'
    <2>1. leaving.step = "waits" => lock = "evict" /\ change.step # "waits"
      BY DEF Knows, ChangeKnows
    <2> QED
      BY <1>4, <1>5, <1>6, <2>1 DEF Knows, ChangeKnows, Wallet!NoChange
  <1>11. WorkerKnows'
    <2>1. worker.slot \notin {"loaded", "leaving"} => worker' = worker /\ change' = change /\ leaving' = leaving /\ lock' = lock
      BY <1>4, <1>5, <1>6 DEF Knows, WorkerKnows, Wallet!NoChange, Wallet!NoLeave
    <2>2. worker.slot \in {"loaded", "leaving"} => Live
      BY DEF Live
    <2>3. leaving'.step = "idle" <=> leaving.step = "idle"
      BY <1>6
    <2>4. worker.slot \notin {"loaded", "leaving"} => WorkerKnows'
      BY <1>1, <2>1, <2>3 DEF Knows, WorkerKnows, Live, Here, Entry
    <2> QED
      BY <1>1, <1>4, <1>7, <2>2, <2>3, <2>4 DEF Knows, WorkerKnows
  <1>12. LeavingKnows'
    <2>1. CASE leaving' = leaving
      BY <1>1, <1>3, <1>4, <2>1 DEF Knows, LeavingKnows
    <2>2. CASE leaving' # leaving
      <3>1. store = leaving.blob /\ posted = <<>> /\ leaving.blob.life = worker.life /\ tick.step = "idle"
        BY <1>3, <1>6, <2>2 DEF Knows, LeavingKnows
      <3> QED
        BY <1>1, <1>4, <1>6, <2>2, <3>1 DEF LeavingKnows
    <2> QED
      BY <2>1, <2>2
  <1> QED
    BY <1>8, <1>9, <1>10, <1>11, <1>12 DEF Knows

-----------------------------------------------------------------------------
(* Loading and syncing.                                                    *)

LEMMA BuildKeeps ==
  ASSUME Wallet!WalletTypeOK, Knows, Wallet!buildFacade
  PROVE  Knows'
  <1>1. UNCHANGED <<lock, tick, change, leaving, posted, acks, store>> /\ worker.slot = "none" /\ leaving.step = "idle"
    BY DEF Wallet!buildFacade
  <1>2. worker \in WorkerRecord /\ Counted
    BY TypeParts, TypesCount
  <1>3. /\ worker'.life = worker.life + 1 /\ worker'.seq = worker.seq /\ worker'.slot = "building"
        /\ Here'.life = worker.life + 1 /\ Entry'.epoch = 0 /\ Entry'.pending = {} /\ Entry'.saved = Wallet!Nothing
    <2> DEFINE here == [store EXCEPT !.life = worker.life + 1, !.gen = IF store = Wallet!Nothing THEN 1 ELSE store.gen]
    <2>1. worker' = [worker EXCEPT !.slot = "building", !.life = @ + 1, !.entry = [Wallet!Entry(store) EXCEPT !.here = here]]
      BY DEF Wallet!buildFacade
    <2>2. here.life = worker.life + 1
      BY TypeParts, StateParts
    <2> HIDE DEF here
    <2>3. worker'.entry = [Wallet!Entry(store) EXCEPT !.here = here] /\ worker'.life = worker.life + 1 /\ worker'.seq = worker.seq
          /\ worker'.slot = "building"
      BY <1>2, <2>1 DEF WorkerRecord
    <2> QED
      BY <2>2, <2>3 DEF Wallet!Entry, Here, Entry
  <1>4. worker.life \in Nat /\ Live' /\ tick.step = "idle" /\ change = Wallet!NoChange /\ lock = "free"
    BY <1>1, <1>2, <1>3 DEF Knows, WorkerKnows, Counted, Live
  <1>5. WorkerKnows' /\ ChangeKnows'
    BY <1>1, <1>3, <1>4 DEF Knows, WorkerKnows, ChangeKnows, Wallet!NoChange
  <1>6. PostedKnows'
    <2>1. Numbers(store) /\ \A i \in DOMAIN posted : Numbers(posted[i].blob)
      BY <1>2 DEF Counted
    <2> QED
      BY <1>1, <1>3, <1>4, <2>1 DEF Knows, PostedKnows, Older, Numbers
  <1>7. TickKnows' /\ LeavingKnows'
    BY <1>1, <1>4 DEF TickKnows, LeavingKnows
  <1>8. AckKnows'
    BY <1>1, <1>3 DEF Knows, AckKnows
  <1> QED
    BY <1>5, <1>6, <1>7, <1>8 DEF Knows

LEMMA InitKeeps ==
  ASSUME Wallet!WalletTypeOK, Knows, Wallet!init
  PROVE  Knows'
  <1>1. UNCHANGED <<lock, tick, change, leaving, posted, acks, store>> /\ worker.slot \in {"building", "cancelled"}
    BY DEF Wallet!init
  <1>2. /\ leaving.step = "idle" /\ tick.step = "idle" /\ change = Wallet!NoChange /\ lock = "free" /\ Live
        /\ Entry.epoch = 0 /\ Entry.pending = {} /\ Entry.saved = Wallet!Nothing
    BY <1>1 DEF Knows, WorkerKnows, Wallet!NoLeave, Live
  <1>3. /\ worker'.life = worker.life /\ worker'.seq = worker.seq
        /\ (worker'.slot = "loaded" /\ worker'.entry = worker.entry) \/ (worker'.slot = "none" /\ worker'.entry = Wallet!NoEntry)
    BY TypeParts DEF Wallet!init, WorkerRecord
  <1>4. Entry'.epoch = Entry.epoch /\ Entry'.pending \subseteq Entry.pending /\ Entry'.saved \in {Entry.saved, Wallet!Nothing}
        /\ (Live' => Here' = Here) /\ (Quiet' => Quiet)
    BY <1>1, <1>2, <1>3 DEF Entry, Here, Live, Quiet, Wallet!NoEntry, Wallet!Entry
  <1>5. WorkerKnows' /\ ChangeKnows'
    BY <1>1, <1>2, <1>3, <1>4 DEF Knows, WorkerKnows, ChangeKnows, Live, Entry, Wallet!NoChange
  <1>6. TickKnows' /\ LeavingKnows'
    BY <1>1, <1>2 DEF TickKnows, LeavingKnows
  <1> QED
    BY <1>1, <1>2, <1>3, <1>4, <1>5, <1>6, PostedFrame, AckFrame DEF Knows

LEMMA SyncKeeps ==
  ASSUME Wallet!WalletTypeOK, Knows, Wallet!Sync
  PROVE  Knows'
  <1>1. UNCHANGED <<lock, tick, change, leaving, posted, acks, store>> /\ worker.slot \in {"loaded", "leaving"}
    BY DEF Wallet!Sync
  <1>2. worker \in WorkerRecord /\ Counted /\ Here \in WalletStates
    BY TypeParts, TypesCount, WorkerTypes DEF Here
  <1>3. /\ worker'.life = worker.life /\ worker'.seq = worker.seq /\ worker'.slot = worker.slot
        /\ Entry'.epoch = Entry.epoch /\ Entry'.pending = Entry.pending /\ Entry'.saved = Entry.saved
        /\ Here'.life = Here.life /\ Here'.gen = Here.gen /\ Here'.at = Here.at + 1
    <2>1. worker' = [worker EXCEPT !.entry = [worker.entry EXCEPT !.here = [Here EXCEPT !.at = @ + 1]]]
      BY <1>2 DEF Wallet!Sync, Here, WorkerRecord, EntryRecord
    <2>2. worker'.entry = [worker.entry EXCEPT !.here = [Here EXCEPT !.at = @ + 1]]
          /\ worker'.life = worker.life /\ worker'.seq = worker.seq /\ worker'.slot = worker.slot
      BY <1>2, <2>1 DEF WorkerRecord
    <2>3. worker'.entry.here = [Here EXCEPT !.at = @ + 1]
      BY <1>2, <2>2 DEF WorkerRecord, EntryRecord
    <2> QED
      BY <1>2, <2>2, <2>3, StateParts DEF Entry, Here, WorkerRecord, EntryRecord
  <1>4. (Live' <=> Live) /\ (Quiet' <=> Quiet)
    BY <1>1, <1>3 DEF Live, Quiet
  <1>5. WorkerKnows' /\ ChangeKnows'
    <2>1. Live /\ Here.life = worker.life /\ worker.life > 0
      BY <1>1 DEF Live, Knows, WorkerKnows
    <2> QED
      BY <1>1, <1>3, <1>4, <2>1 DEF Knows, WorkerKnows, ChangeKnows
  <1>6. ASSUME NEW b, Numbers(b), Older(b, Here) PROVE b.life <= Here'.life /\ (b.life = Here'.life => b.gen <= Here'.gen)
                                                   /\ (Quiet /\ b.life = worker.life /\ Here'.life = worker.life => b.at <= Here'.at)
    BY <1>2, <1>3, <1>6 DEF Older, Counted, Numbers
  <1>7. PostedKnows'
    BY <1>1, <1>2, <1>3, <1>4, <1>6 DEF Knows, PostedKnows, Older, Counted
  <1>8. TickKnows'
    BY <1>1, <1>2, <1>3, <1>4, <1>6 DEF Knows, TickKnows, Older, Counted
  <1>9. LeavingKnows' /\ AckKnows'
    BY <1>1, <1>3, <1>4, LeavingFrame, AckFrame DEF Knows
  <1> QED
    BY <1>5, <1>7, <1>8, <1>9 DEF Knows

-----------------------------------------------------------------------------
(* Replacements.                                                           *)

\* the part is replaced in memory
LEMMA ReplaceKeeps ==
  ASSUME Wallet!WalletTypeOK, Knows, Wallet!resetRestoredSubWallet \/ Wallet!restoreDustFromSnapshot
  PROVE  Knows'
  <1>1. UNCHANGED <<tick, leaving, posted, acks, store>> /\ lock' = "change" /\ lock \in {"free", "submit"}
    BY DEF Wallet!resetRestoredSubWallet, Wallet!restoreDustFromSnapshot
  <1>2. worker \in WorkerRecord /\ Counted /\ Entry \in EntryRecord
    BY TypeParts, TypesCount, WorkerTypes DEF Entry
  <1>3. worker.slot \in {"loaded", "leaving"} /\ change.step = "idle" /\ leaving.step \notin {"waits", "done"} /\ Live
    <2>1. change.step = "idle" /\ leaving.step \notin {"waits", "done"}
      BY <1>1, TypeParts DEF Knows, ChangeKnows, ChangeRecord
    <2>2. worker.slot \in {"loaded", "leaving"}
      BY <1>2 DEF Wallet!resetRestoredSubWallet, Wallet!restoreDustFromSnapshot, Wallet!loaded, Knows, WorkerKnows, WorkerRecord, SlotSteps
    <2> QED
      BY <2>1, <2>2 DEF Live
  <1>4. PICK to, snapshot : /\ Wallet!Replacing(to, snapshot) /\ to \in WalletStates /\ to.life = worker.life /\ to.gen = Here.gen + 1
                            /\ snapshot = Wallet!Nothing \/ (snapshot.life = worker.life /\ snapshot.gen = Here.gen + 1)
    <2>1. Here.gen <= WalletReplacements /\ Here \in WalletStates /\ change.to \in WalletStates /\ Here.life = worker.life
      BY <1>2, <1>3, TypeParts DEF Wallet!resetRestoredSubWallet, Wallet!restoreDustFromSnapshot, Wallet!Replacing, Wallet!entry, Here,
         Knows, WorkerKnows, Entry, EntryRecord, ChangeRecord
    <2>2. Here.gen + 1 \in Gens /\ 0 \in Progress
      BY <1>2, <2>1, WalletAssumption DEF Gens, Progress, Counted, Numbers
    <2>3. CASE Wallet!resetRestoredSubWallet
      <3> DEFINE fresh == [Here EXCEPT !.at = 0, !.gen = Here.gen + 1]
      <3>1. fresh \in WalletStates /\ fresh.life = worker.life /\ fresh.gen = Here.gen + 1
        BY <2>1, <2>2, StateParts
      <3>2. Wallet!Replacing(fresh, Wallet!Nothing)
        BY <2>3 DEF Wallet!resetRestoredSubWallet, Wallet!entry, Here
      <3> HIDE DEF fresh
      <3> QED
        BY <3>1, <3>2
    <2>4. CASE Wallet!restoreDustFromSnapshot
      <3> DEFINE back == [change.to EXCEPT !.gen = Here.gen + 1]
      <3>1. change.to.life = worker.life
        BY <2>4 DEF Wallet!restoreDustFromSnapshot, Knows, ChangeKnows
      <3>2. back \in WalletStates /\ back.life = worker.life /\ back.gen = Here.gen + 1
        BY <2>1, <2>2, <3>1, StateParts
      <3>3. Wallet!Replacing(back, back)
        BY <2>4 DEF Wallet!restoreDustFromSnapshot, Wallet!entry, Here
      <3> HIDE DEF back
      <3> QED
        BY <3>2, <3>3
    <2> QED
      BY <2>3, <2>4
  <1>5. /\ worker'.life = worker.life /\ worker'.seq = worker.seq /\ worker'.slot = worker.slot
        /\ Here' = to /\ Entry'.epoch = Entry.epoch /\ Entry'.pending = Entry.pending /\ Entry'.saved = Entry.saved
        /\ change'.step = "swapped" /\ change'.to = snapshot
    <2>1. worker' = [worker EXCEPT !.entry = [Entry EXCEPT !.here = to, !.restored = FALSE]]
          /\ change' = [step |-> "swapped", seq |-> 0, to |-> snapshot]
      BY <1>4 DEF Wallet!Replacing, Wallet!entry, Entry
    <2>2. worker'.entry = [Entry EXCEPT !.here = to, !.restored = FALSE]
          /\ worker'.life = worker.life /\ worker'.seq = worker.seq /\ worker'.slot = worker.slot
      BY <1>2, <2>1 DEF WorkerRecord
    <2>3. /\ worker'.entry.here = to /\ worker'.entry.epoch = Entry.epoch /\ worker'.entry.pending = Entry.pending
          /\ worker'.entry.saved = Entry.saved
      BY <1>2, <2>2 DEF EntryRecord
    <2> QED
      BY <2>1, <2>2, <2>3 DEF Entry, Here
  <1>6. ~Quiet' /\ Live' /\ Here.gen \in Nat
    BY <1>2, <1>3, <1>5 DEF Quiet, Live, Counted, Numbers
  <1>7. WorkerKnows' /\ ChangeKnows'
    BY <1>1, <1>3, <1>4, <1>5, <1>6 DEF Knows, WorkerKnows, ChangeKnows, Wallet!NoChange
  <1>8. ASSUME NEW b, Numbers(b), Older(b, Here) PROVE b.life <= to.life /\ (b.life = to.life => b.gen <= to.gen)
    BY <1>3, <1>4, <1>6, <1>8 DEF Older, Numbers, Knows, WorkerKnows
  <1>9. PostedKnows'
    BY <1>1, <1>2, <1>3, <1>5, <1>6, <1>8 DEF Knows, PostedKnows, Older, Counted
  <1>10. TickKnows'
    BY <1>1, <1>2, <1>5, <1>6, <1>8 DEF Knows, TickKnows, Older, Counted
  <1>11. AckKnows' /\ LeavingKnows'
    BY <1>1, <1>3, <1>5, <1>6, AckFrame, LeavingFrame DEF Knows
  <1> QED
    BY <1>7, <1>9, <1>10, <1>11 DEF Knows

\* the epoch is raised and the replacement pushed
LEMMA EpochKeeps ==
  ASSUME Wallet!WalletTypeOK, Knows, Wallet!replacementSaved
  PROVE  Knows'
  <1> DEFINE e == [Entry EXCEPT !.epoch = @ + 1]
             blob == IF change.to = Wallet!Nothing THEN Here ELSE change.to
  <1>1. UNCHANGED <<lock, tick, leaving, acks, store>> /\ change.step = "swapped" /\ change'.step = "waits"
    BY TypeParts DEF Wallet!replacementSaved, ChangeRecord
  <1>2. worker \in WorkerRecord /\ Counted /\ Entry \in EntryRecord /\ posted \in Seq(Wallet!Saves) /\ change.to \in WalletStates /\ Here \in WalletStates
    BY TypeParts, TypesCount, WorkerTypes DEF Entry, Here, ChangeRecord
  <1>3. worker.slot \in {"loaded", "leaving"} /\ leaving.step \notin {"waits", "done"} /\ Live /\ ~Quiet
    <2>1. worker.slot \in {"loaded", "leaving"} /\ lock = "change"
      BY <1>1 DEF Knows, WorkerKnows, ChangeKnows, Wallet!NoChange
    <2> QED
      BY <1>1, <2>1 DEF Knows, ChangeKnows, Live, Quiet
  <1>4. e \in EntryRecord /\ e.here = Here /\ e.saved = Entry.saved /\ e.pending = Entry.pending /\ e.epoch = Entry.epoch + 1
    BY <1>2 DEF EntryRecord, Here, Entry
  <1>5. blob \in WalletStates /\ blob.life = worker.life /\ blob.gen = Here.gen
    BY <1>1, <1>2, <1>3 DEF Knows, ChangeKnows, WorkerKnows
  <1>6. Wallet!pushStateSave(e, blob)
    BY DEF Wallet!replacementSaved, Wallet!entry, Entry, Here
  <1> HIDE DEF e, blob
  <1>7. /\ worker'.life = worker.life /\ worker'.slot = worker.slot /\ Here' = Here /\ Entry'.epoch = Entry.epoch + 1
    BY <1>2, <1>4, <1>5, <1>6, PushTyped DEF Here, Entry
  <1>8. ~Quiet' /\ Live' /\ Here.life = worker.life
    BY <1>2, <1>3, <1>7 DEF Quiet, Counted, Knows, WorkerKnows, Live
  <1>9. Older(store, blob) /\ (\A i \in DOMAIN posted : Older(posted[i].blob, blob)) /\ Older(blob, Here)
    <2>1. Older(store, Here) /\ \A i \in DOMAIN posted : Older(posted[i].blob, Here)
      BY <1>3 DEF Knows, PostedKnows
    <2>2. worker.life \in Nat /\ Here.gen \in Nat
      BY <1>2 DEF Counted, Numbers
    <2> QED
      BY <1>3, <1>5, <1>8, <2>1, <2>2 DEF Older
  <1>10. PostedKnows' /\ AckKnows'
    BY <1>1, <1>3, <1>4, <1>5, <1>6, <1>8, <1>9, PushKeeps DEF Knows
  <1>11. TickKnows'
    BY <1>1, <1>2, <1>7 DEF Knows, TickKnows, Counted
  <1>12. WorkerKnows' /\ ChangeKnows' /\ LeavingKnows'
    BY <1>1, <1>3, <1>7, <1>8 DEF Knows, WorkerKnows, ChangeKnows, LeavingKnows, Wallet!NoChange
  <1> QED
    BY <1>10, <1>11, <1>12 DEF Knows

-----------------------------------------------------------------------------
(* Unloading.                                                              *)

LEMMA EvictKeeps ==
  ASSUME Wallet!WalletTypeOK, Knows, Wallet!evict
  PROVE  Knows'
  <1>1. UNCHANGED <<lock, tick, change, posted, acks, store>> /\ leaving.step = "idle" /\ leaving'.step \in {"idle", "lane"}
    BY DEF Wallet!evict, Wallet!NoLeave
  <1>2. worker \in WorkerRecord
    BY TypeParts
  <1>3. /\ worker'.life = worker.life /\ worker'.seq = worker.seq /\ worker'.entry = worker.entry
        /\ \/ worker.slot = "building" /\ worker'.slot = "cancelled" /\ leaving' = leaving
           \/ worker.slot = "loaded" /\ worker'.slot = "leaving" /\ leaving'.step = "lane"
    BY <1>2 DEF Wallet!evict, Wallet!loaded, WorkerRecord, Wallet!NoLeave
  <1>4. Here' = Here /\ Entry' = Entry /\ (Live' <=> Live) /\ (Quiet' <=> Quiet)
    BY <1>1, <1>3 DEF Here, Entry, Live, Quiet
  <1>5. WorkerKnows' /\ ChangeKnows'
    BY <1>1, <1>3, <1>4 DEF Knows, WorkerKnows, ChangeKnows
  <1>6. LeavingKnows'
    BY <1>1 DEF LeavingKnows
  <1> QED
    BY <1>1, <1>3, <1>4, <1>5, <1>6, PostedFrame, TickFrame, AckFrame DEF Knows

\* the last save: nothing newer is pushed or stored after it
LEMMA FinalKeeps ==
  ASSUME Wallet!WalletTypeOK, Knows, Wallet!finalSave
  PROVE  Knows'
  <1>1. UNCHANGED <<tick, change, acks, store>> /\ leaving.step = "lane" /\ tick.step = "idle" /\ lock = "free" /\ lock' = "evict"
    BY DEF Wallet!finalSave
  <1>2. worker \in WorkerRecord /\ Counted /\ Entry \in EntryRecord /\ posted \in Seq(Wallet!Saves) /\ Here \in WalletStates /\ leaving \in LeavingRecord
    BY TypeParts, TypesCount, WorkerTypes DEF Entry, Here
  <1>3. worker.slot = "leaving" /\ Live /\ Here.life = worker.life /\ worker.life > 0 /\ change.step = "idle" /\ (Quiet <=> Entry.epoch = 0)
    <2>1. change.step = "idle"
      BY <1>1, TypeParts DEF Knows, ChangeKnows, ChangeRecord
    <2> QED
      BY <1>1, <2>1 DEF Knows, WorkerKnows, Live, Quiet
  <1>0. Older(store, Here) /\ Numbers(store) /\ Numbers(Here) /\ worker.life \in Nat /\ Entry.epoch \in Nat
    BY <1>2, <1>3 DEF Knows, PostedKnows, Counted
  <1>4. leaving'.blob = Here /\ leaving'.seq = worker.seq + 1
        /\ (Here = Entry.saved => leaving'.step = "done") /\ (Here # Entry.saved => leaving'.step = "waits" /\ ~leaving'.saved)
    BY <1>2 DEF Wallet!finalSave, Wallet!entry, Here, Entry, LeavingRecord
  <1>5. CASE Here = Entry.saved
    <2>1. UNCHANGED <<worker, posted>>
      BY <1>5 DEF Wallet!finalSave, Wallet!pushChanged, Wallet!entry, Here, Entry
    <2>2. Here' = Here /\ Entry' = Entry /\ (Live' <=> Live) /\ (Quiet' <=> Quiet)
      BY <1>1, <2>1 DEF Here, Entry, Live, Quiet
    <2>3. WorkerKnows' /\ ChangeKnows'
      BY <1>1, <1>3, <1>4, <1>5, <2>1, <2>2 DEF Knows, WorkerKnows, ChangeKnows
    <2>4. Stored(Here)
      BY <1>2, <1>3, <1>5 DEF Knows, AckKnows, Counted
    <2>5. store.life = worker.life /\ store.gen = Here.gen /\ (store.at = Here.at \/ Entry.epoch > 0)
      BY <1>0, <1>3, <2>4 DEF Stored, Older, Numbers
    <2>6. ASSUME NEW i \in DOMAIN posted PROVE posted[i].blob.gen = Here.gen /\ (posted[i].blob.at = Here.at \/ Entry.epoch > 0)
      <3>1. Older(store, posted[i].blob) /\ Older(posted[i].blob, Here) /\ posted[i].blob.life <= worker.life /\ Numbers(posted[i].blob)
        BY <1>2, <1>3 DEF Knows, PostedKnows, Counted
      <3> QED
        BY <1>0, <1>3, <2>5, <3>1 DEF Older, Numbers
    <2>7. LeavingKnows'
      BY <1>1, <1>3, <1>4, <1>5, <2>1, <2>2, <2>5, <2>6 DEF LeavingKnows
    <2> QED
      BY <1>1, <2>1, <2>2, <2>3, <2>7, PostedFrame, TickFrame, AckFrame DEF Knows
  <1>6. CASE Here # Entry.saved
    <2>1. Wallet!pushStateSave(Entry, Here)
      BY <1>6 DEF Wallet!finalSave, Wallet!pushChanged, Wallet!entry, Here, Entry
    <2>2. /\ worker'.life = worker.life /\ worker'.slot = worker.slot /\ Here' = Here /\ Entry'.epoch = Entry.epoch
          /\ worker'.seq = worker.seq + 1
          /\ posted' = Append(posted, [seq |-> worker.seq + 1, blob |-> Here, epoch |-> Entry.epoch])
      BY <1>2, <2>1, PushTyped DEF Here, Entry
    <2>3. (Quiet' <=> Quiet) /\ (Live' <=> Live)
      BY <1>1, <2>2 DEF Quiet, Live
    <2>4. Older(Here, Here) /\ Older(store, Here) /\ \A i \in DOMAIN posted : Older(posted[i].blob, Here)
      <3>1. Older(Here, Here)
        BY <1>0 DEF Older, Numbers
      <3> QED
        BY <1>3, <3>1 DEF Knows, PostedKnows
    <2>5. PostedKnows' /\ AckKnows'
      BY <1>1, <1>2, <1>3, <2>1, <2>3, <2>4, PushKeeps DEF Knows, Here, Entry
    <2>6. WorkerKnows' /\ ChangeKnows' /\ TickKnows'
      BY <1>1, <1>3, <1>4, <1>6, <2>2, <2>3 DEF Knows, WorkerKnows, ChangeKnows, TickKnows
    <2>7. LeavingKnows'
      <3>1. \A i \in DOMAIN posted : posted[i].seq # worker.seq + 1
        BY <1>2 DEF Knows, AckKnows, Counted
      <3>2. \A i \in DOMAIN acks : acks[i] # worker.seq + 1
        BY <1>2 DEF Knows, AckKnows, Counted
      <3>3. \A i \in DOMAIN posted' : posted'[i].blob = Here \/ (i \in DOMAIN posted /\ posted'[i] = posted[i])
        BY <1>2, <2>2
      <3> QED
        BY <1>1, <1>3, <1>4, <1>6, <2>2, <3>1, <3>2, <3>3 DEF LeavingKnows
    <2> QED
      BY <2>5, <2>6, <2>7 DEF Knows
  <1> QED
    BY <1>5, <1>6

LEMMA ForgetKeeps ==
  ASSUME Wallet!WalletTypeOK, Knows, Wallet!finalSaveUnconfirmed \/ Wallet!zeroEntry \/ Wallet!onWorkerGone
  PROVE  Knows'
  <1>1. CASE Wallet!finalSaveUnconfirmed
    <2>1. UNCHANGED <<worker, lock, tick, change, posted, acks, store>> /\ leaving.step = "waits" /\ leaving'.step = "done"
          /\ leaving'.saved = leaving.saved /\ leaving'.blob = leaving.blob
      BY <1>1, TypeParts DEF Wallet!finalSaveUnconfirmed, LeavingRecord
    <2>2. Here' = Here /\ Entry' = Entry /\ (Live' <=> Live) /\ (Quiet' <=> Quiet)
      BY <2>1 DEF Here, Entry, Live, Quiet
    <2>3. ~leaving.saved
      BY <2>1 DEF Knows, LeavingKnows
    <2>4. WorkerKnows' /\ ChangeKnows' /\ LeavingKnows'
      BY <2>1, <2>2, <2>3 DEF Knows, WorkerKnows, ChangeKnows, LeavingKnows, Wallet!NoLeave
    <2> QED
      BY <2>1, <2>2, <2>4, PostedFrame, TickFrame, AckFrame DEF Knows
  <1>2. CASE Wallet!zeroEntry \/ Wallet!onWorkerGone
    <2>1. UNCHANGED <<posted, store>> /\ acks' = <<>> /\ lock' = "free" /\ leaving' = Wallet!NoLeave
      BY <1>2 DEF Wallet!zeroEntry, Wallet!onWorkerGone
    <2>2. change' = Wallet!NoChange /\ tick'.step = "idle"
      BY <1>2 DEF Wallet!zeroEntry, Wallet!onWorkerGone, Knows, LeavingKnows, ChangeKnows, Wallet!NoTick
    <2>3. worker'.life = worker.life /\ worker'.seq = worker.seq /\ worker'.slot = "none"
          /\ worker'.entry = Wallet!NoEntry
      BY <1>2, TypeParts DEF Wallet!zeroEntry, Wallet!onWorkerGone, WorkerRecord
    <2>4. Entry'.pending = {} /\ Entry'.saved = Wallet!Nothing /\ ~Live' /\ ~Quiet'
      BY <2>3 DEF Entry, Live, Quiet, Wallet!NoEntry, Wallet!Entry
    <2>5. WorkerKnows' /\ ChangeKnows' /\ TickKnows' /\ LeavingKnows'
      BY <2>1, <2>2, <2>3, <2>4 DEF WorkerKnows, ChangeKnows, TickKnows, LeavingKnows, Live, Entry, Wallet!NoChange, Wallet!NoLeave
    <2>6. PostedKnows'
      BY <2>1, <2>3, <2>4 DEF Knows, PostedKnows, Older
    <2>7. AckKnows'
      BY <2>1, <2>3, <2>4 DEF Knows, AckKnows
    <2> QED
      BY <2>5, <2>6, <2>7 DEF Knows
  <1> QED
    BY <1>1, <1>2

-----------------------------------------------------------------------------
(* Saves never go back.                                                    *)

LEMMA SaveInvInit == Wallet!WalletInit => SaveInv
  <1> SUFFICES ASSUME Wallet!WalletInit PROVE SaveInv
    OBVIOUS
  <1>1. worker.life = 0 /\ worker.seq = 0 /\ worker.slot = "none" /\ worker.entry = Wallet!NoEntry /\ worker \in WorkerRecord
    <2>1. 0 \in Lives
      BY WalletAssumption DEF Lives
    <2> QED
      BY <2>1, EntryTypes DEF Wallet!WalletInit, WorkerRecord, SlotSteps
  <1>2. lock = "free" /\ tick = Wallet!NoTick /\ change = Wallet!NoChange /\ leaving = Wallet!NoLeave /\ posted = <<>> /\ acks = <<>>
        /\ session = FALSE /\ store = Wallet!Nothing /\ overtaken = FALSE
    BY DEF Wallet!WalletInit
  <1>3. Wallet!WalletTypeOK
    <2>1. tick \in TickRecord /\ change \in ChangeRecord /\ leaving \in LeavingRecord /\ store \in WalletStates
      BY <1>2, EntryTypes, StateTypes
    <2>2. posted \in Seq(Wallet!Saves) /\ acks \in Seq(Nat)
      BY <1>2
    <2>3. session \in BOOLEAN /\ overtaken \in BOOLEAN /\ lock \in {"free", "submit", "change", "evict"}
      BY <1>2
    <2> QED
      BY <1>1, <2>1, <2>2, <2>3, TypeParts
  <1>4. tick.step = "idle" /\ change.step = "idle" /\ leaving.step = "idle" /\ Entry.pending = {} /\ Entry.saved = Wallet!Nothing /\ ~Live
    BY <1>1, <1>2 DEF Wallet!NoTick, Wallet!NoChange, Wallet!NoLeave, Wallet!NoEntry, Wallet!Entry, Entry, Live
  <1>5. WorkerKnows /\ TickKnows /\ ChangeKnows /\ LeavingKnows
    BY <1>1, <1>2, <1>4 DEF WorkerKnows, TickKnows, ChangeKnows, LeavingKnows, Entry
  <1>6. PostedKnows /\ AckKnows
    BY <1>1, <1>2, <1>4, StateTypes DEF PostedKnows, AckKnows
  <1> QED
    BY <1>3, <1>5, <1>6 DEF SaveInv, Knows

LEMMA SaveInvKept == ASSUME SaveInv, Wallet!WalletNext PROVE SaveInv'
  <1>1. Wallet!WalletTypeOK' /\ (overtaken => overtaken')
    BY TypesKept, OvertakenKept DEF SaveInv
  <1>2. ASSUME ~overtaken' PROVE Knows'
    BY <1>1, <1>2, LockKeeps, CollectKeeps, CheckCollectedKeeps, StoreKeeps, AckKeeps, BuildKeeps, InitKeeps, SyncKeeps, ReplaceKeeps, EpochKeeps,
       EvictKeeps, FinalKeeps, ForgetKeeps DEF SaveInv, Wallet!WalletNext
  <1> QED
    BY <1>1, <1>2 DEF SaveInv

LEMMA WalletStays == ASSUME SaveInv, UNCHANGED walletVars PROVE SaveInv'
  BY DEF SaveInv, walletVars, Wallet!WalletTypeOK, Knows, WorkerKnows, PostedKnows, TickKnows, ChangeKnows, AckKnows, LeavingKnows,
     Live, Entry, Here, Quiet, Older, Stored

\* what is stored is replaced only by what was pushed
LEMMA StoreGoesOn ==
  ASSUME SaveInv, ~overtaken, Wallet!WalletNext, store'.life = store.life
  PROVE  store'.gen >= store.gen
  <1>1. Counted /\ posted \in Seq(Wallet!Saves)
    BY TypesCount, TypeParts DEF SaveInv
  <1>2. CASE store' = store
    BY <1>1, <1>2 DEF Counted, Numbers
  <1>3. CASE Wallet!handleStateSave
    <2>1. 1 \in DOMAIN posted /\ store' = posted[1].blob
      BY <1>1, <1>3, LenProperties DEF Wallet!handleStateSave
    <2> QED
      BY <1>1, <2>1 DEF SaveInv, Knows, PostedKnows, Older, Counted, Numbers
  <1> QED
    BY <1>2, <1>3 DEF Wallet!WalletNext, Wallet!buildFacade, Wallet!init, Wallet!Sync, Wallet!applySaveAck, Wallet!startPeriodicSave,
       Wallet!collectSerializedStates, Wallet!checkCollected, Wallet!saveTick, Wallet!saveDropped, Wallet!submitStarts,
       Wallet!submitEnds, Wallet!resetRestoredSubWallet, Wallet!restoreDustFromSnapshot, Wallet!replacementSaved,
       Wallet!replacementUnconfirmed, Wallet!evict, Wallet!finalSave, Wallet!finalSaveUnconfirmed, Wallet!zeroEntry, Wallet!onWorkerGone

WalletPart == part = "wallet" => SaveInv

LEMMA WalletPartKept == WalletPart /\ [Next]_vars => WalletPart'
  <1> SUFFICES ASSUME WalletPart, [Next]_vars, part' = "wallet" PROVE SaveInv'
    BY DEF WalletPart
  <1>1. part = "wallet" /\ (Wallet!WalletNext \/ UNCHANGED walletVars)
    BY DEF Next, Only, vars
  <1> QED
    BY <1>1, SaveInvKept, WalletStays DEF WalletPart

\* The stored state of a wallet is never replaced by an older one of the same load, and a wallet unloaded as saved is stored, for any
\* number of loads, replaced parts, remembered saves and any length of the sync, whatever ticks, replacements, confirmations, lost
\* saves and deaths of the worker overlap (checkCollected, pushStateSave, resetRestoredSubWallet, evict), as long as no part is
\* replaced while a save tick waits for its log line.
THEOREM SavesNeverGoBackAlways == Spec => SavesNeverGoBack
  <1>1. Init => WalletPart
    BY SaveInvInit DEF Init, WalletPart
  <1>2. WalletPart /\ [Next]_vars => WalletPart'
    BY WalletPartKept
  <1>3. WalletPart /\ WalletPart' /\ [Next]_vars
          => [part = "wallet" => Wallet!WalletTypeOK' /\ Wallet!StoreKeepsReplacement /\ Wallet!SavedMeansStored']_vars
    <2> SUFFICES ASSUME WalletPart, WalletPart', Next, part = "wallet"
                 PROVE  Wallet!WalletTypeOK' /\ Wallet!StoreKeepsReplacement /\ Wallet!SavedMeansStored'
      OBVIOUS
    <2>1. SaveInv /\ SaveInv' /\ Wallet!WalletNext
      BY DEF WalletPart, Next, Only
    <2>2. Wallet!WalletTypeOK' /\ Wallet!SavedMeansStored'
      BY <2>1 DEF SaveInv, Knows, LeavingKnows, Wallet!SavedMeansStored, Wallet!entry, Entry
    <2>3. Wallet!StoreKeepsReplacement
      BY <2>1, StoreGoesOn DEF Wallet!StoreKeepsReplacement
    <2> QED
      BY <2>2, <2>3
  <1> QED
    BY <1>1, <1>2, <1>3, PTL DEF Spec, SavesNeverGoBack

==============================================================================
