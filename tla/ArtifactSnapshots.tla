-------------------------- MODULE ArtifactSnapshots --------------------------
(***************************************************************************)
(* How the wallet worker loads a compiled contract and its keys            *)
(* (worker/artifacts.ts, worker/contracts.ts, worker/bounded-cache.ts). A  *)
(* job is pinned to a generation, the digest of module and keys. The       *)
(* worker copies the registered files to a snapshot folder named by the    *)
(* digest, checks the copy, and proves from it, because somebody may       *)
(* replace the registered files at any time. Several processes of one      *)
(* installation share the snapshot folders.                                *)
(*                                                                         *)
(* File calls are synchronous: other calls of the same thread wait for     *)
(* them (busy), other processes and whoever edits the files do not. A      *)
(* generation is <<module, keys>>; the content of a folder is a version of *)
(* the module, of the verifier keys with their manifest, and of the prover *)
(* keys, which the digest does not cover.                                  *)
(***************************************************************************)
EXTENDS Integers, Sequences, FiniteSets, SequencesExt

CONSTANTS
    Procs,        \* processes of this installation
    Jobs,         \* calls that need a contract
    Homes,        \* of [Jobs -> Procs]: how the calls may be spread over the processes
    Pin,          \* [Jobs -> <<module, keys>>]: the generation the main thread chose
    CacheSize,    \* NIGHTGATE_WORKER_GENERATION_CACHE
    MaxEdits,     \* bound on changes of the registered files
    MaxLosses     \* bound on restarts and on folders left unused too long

VARIABLES
    source,       \* the registered files
    dir,          \* the snapshot folder of each generation
    proc,         \* memory of each process
    job,          \* each call, with the process that runs it
    edits, losses \* used bounds

snapshotVars == <<source, dir, proc, job, edits, losses>>

Generations == { Pin[j] : j \in Jobs }
Versions == UNION { {g[1], g[2]} : g \in Generations }

Nothing == [module |-> 0, keys |-> 0, prover |-> 0]
NoFolder == [at |-> Nothing, holders |-> {}, old |-> FALSE]
NoJob == "none"
Fresh == [prepared |-> FALSE, verified |-> {}, scaffolds |-> <<>>, bundles |-> <<>>, busy |-> NoJob, sweep |-> <<>>]
IdleJob(p) == [home |-> p, step |-> "idle", for |-> "", tmp |-> Nothing, module |-> 0, keys |-> 0]

Exists(d) == dir[d].at # Nothing

\* computeArtifactGenerationDigest: module and verifier keys, not the prover keys
digestOf(files) == <<files.module, files.keys>>

\* proverKeyManifestProblems: a prover key that is there must be the one the manifest lists
proverKeyManifestProblems(files) == files.prover \notin {0, files.keys}

Retained(p, d) == \E j \in Jobs : job[j].home = p /\ Pin[j] = d /\ job[j].step \notin {"idle", "done"}

generationCached(p, d) == \E i \in DOMAIN proc[p].scaffolds : proc[p].scaffolds[i] = d
generationBundled(p, d) == \E i \in DOMAIN proc[p].bundles : proc[p].bundles[i] = d

------------------------------------------------------------------------------
(* The caches: least recently used first                                    *)

Cached(list, d) == Append(SelectSeq(list, LAMBDA x : x # d), d)
Bounded(list) == IF Len(list) > CacheSize THEN Tail(list) ELSE list
Evicted(list) == IF Len(list) > CacheSize THEN <<Head(list)>> ELSE <<>>

------------------------------------------------------------------------------
(* A call                                                                   *)

\* whose turn it is: a thread in the middle of file calls does nothing else
Runs(j) == proc[job[j].home].busy \in {NoJob, j} /\ proc[job[j].home].sweep = <<>>
Goes(j, step) == job' = [job EXCEPT ![j].step = step]

\* dispatch and retainGeneration
retainGeneration(j) ==
    /\ job[j].step = "idle" /\ proc[job[j].home].busy = NoJob /\ proc[job[j].home].sweep = <<>>
    /\ Goes(j, "scaffold")
    /\ dir' = IF Exists(Pin[j]) THEN [dir EXCEPT ![Pin[j]].holders = @ \cup {job[j].home}] ELSE dir
    /\ UNCHANGED <<source, proc, edits, losses>>

\* getContractScaffold: from the cache, or the snapshot's module
getContractScaffold(j) ==
    LET p == job[j].home  d == Pin[j] IN
    /\ job[j].step = "scaffold" /\ Runs(j)
    /\ IF generationCached(p, d)
       THEN /\ proc' = [proc EXCEPT ![p].scaffolds = Cached(@, d)]
            /\ job' = [job EXCEPT ![j] = [@ EXCEPT !.step = "materialize", !.for = "assets", !.module = d[1]]]
       ELSE job' = [job EXCEPT ![j] = [@ EXCEPT !.step = "materialize", !.for = "import"]] /\ UNCHANGED proc
    /\ UNCHANGED <<source, dir, edits, losses>>

\* the import reads the module after the file calls are over; the class goes to the cache
importArtifactGeneration(j) ==
    LET p == job[j].home  d == Pin[j] IN
    /\ job[j].step = "import" /\ Runs(j)
    /\ IF Exists(d)
       THEN /\ job' = [job EXCEPT ![j] = [@ EXCEPT !.step = "materialize", !.for = "assets", !.module = dir[d].at.module]]
            /\ LET list == Cached(proc[p].scaffolds, d)
               IN  proc' = [proc EXCEPT ![p].scaffolds = Bounded(list), ![p].sweep = Evicted(list)]
       ELSE Goes(j, "failed") /\ UNCHANGED proc
    /\ UNCHANGED <<source, dir, edits, losses>>

\* buildWorkerContractProviders: one proving provider per generation
buildWorkerContractProviders(j) ==
    LET p == job[j].home  d == Pin[j]  list == Cached(proc[p].bundles, d) IN
    /\ job[j].step = "assets" /\ Runs(j)
    /\ proc' = [proc EXCEPT ![p].bundles = Bounded(list), ![p].sweep = Evicted(list)]
    /\ Goes(j, "prove")
    /\ UNCHANGED <<source, dir, edits, losses>>

\* the keys are read from the snapshot when the call is proved; without a prover key the proof fails
prove(j) ==
    /\ job[j].step = "prove" /\ Runs(j)
    /\ job' = [job EXCEPT ![j] = IF dir[Pin[j]].at.prover = 0 THEN [@ EXCEPT !.step = "failed"]
                                 ELSE [@ EXCEPT !.step = "proved", !.keys = dir[Pin[j]].at.prover]]
    /\ UNCHANGED <<source, dir, proc, edits, losses>>

\* the dispatcher's finally: the last user of a generation asks for the sweep
releaseGeneration(j) ==
    LET p == job[j].home  d == Pin[j]
        last == ~\E k \in Jobs \ {j} : job[k].home = p /\ Pin[k] = d /\ job[k].step \notin {"idle", "done"} IN
    /\ job[j].step \in {"proved", "failed"} /\ Runs(j)
    /\ job' = [job EXCEPT ![j] = [@ EXCEPT !.step = "done", !.tmp = Nothing]]
    /\ proc' = [proc EXCEPT ![p].sweep = IF last THEN <<d>> ELSE <<>>]
    /\ UNCHANGED <<source, dir, edits, losses>>

------------------------------------------------------------------------------
(* materializeArtifactSnapshot, file call by file call                      *)

\* prepareSnapshotRoot, once per thread: unfinished builds of anybody and unused old snapshots go
prepareSnapshotRoot(j) ==
    LET p == job[j].home IN
    /\ job[j].step = "materialize" /\ Runs(j) /\ ~proc[p].prepared
    /\ proc' = [proc EXCEPT ![p].prepared = TRUE]
    /\ dir' = [d \in Generations |-> IF dir[d].old /\ dir[d].holders \subseteq {p} THEN NoFolder ELSE dir[d]]
    /\ job' = [k \in Jobs |-> IF job[k].home # p THEN [job[k] EXCEPT !.tmp = Nothing] ELSE job[k]]
    /\ UNCHANGED <<source, edits, losses>>

\* holdSnapshot and touchSnapshot
Held(d, p) == [dir EXCEPT ![d] = [@ EXCEPT !.holders = dir[d].holders \cup {p}, !.old = FALSE]]

\* a snapshot this thread checked, one that checks now, or a new build after removing one that does not
findSnapshot(j) ==
    LET p == job[j].home  d == Pin[j] IN
    /\ job[j].step = "materialize" /\ Runs(j) /\ proc[p].prepared
    /\ \/ /\ Exists(d)
          /\ (d \in proc[p].verified /\ dir[d].at.module # 0) \/ digestOf(dir[d].at) = d
          /\ proc' = [proc EXCEPT ![p].verified = @ \cup {d}]
          /\ dir' = Held(d, p)
          /\ Goes(j, job[j].for)
       \/ /\ ~(Exists(d) /\ ((d \in proc[p].verified /\ dir[d].at.module # 0) \/ digestOf(dir[d].at) = d))
          /\ proc' = [proc EXCEPT ![p].busy = j]
          /\ dir' = [dir EXCEPT ![d] = NoFolder]
          /\ Goes(j, "copyModule")
    /\ UNCHANGED <<source, edits, losses>>

copyModule(j) ==
    /\ job[j].step = "copyModule"
    /\ job' = [job EXCEPT ![j] = [@ EXCEPT !.tmp = [Nothing EXCEPT !.module = source.module], !.step = "copyKeys"]]
    /\ UNCHANGED <<source, dir, proc, edits, losses>>

copyKeys(j) ==
    /\ job[j].step = "copyKeys"
    /\ job' = [job EXCEPT ![j] = [@ EXCEPT !.tmp = [job[j].tmp EXCEPT !.keys = source.keys, !.prover = source.prover], !.step = "check"]]
    /\ UNCHANGED <<source, dir, proc, edits, losses>>

\* Mutant: the digest of the copy is not compared.
checkCopyKeys(j) ==
    LET ok == job[j].tmp.module # 0 /\ ~proverKeyManifestProblems(job[j].tmp) IN
    /\ job[j].step = "check"
    /\ Goes(j, IF ok THEN "rename" ELSE "failed")
    /\ proc' = IF ok THEN proc ELSE [proc EXCEPT ![job[j].home].busy = NoJob]
    /\ UNCHANGED <<source, dir, edits, losses>>

\* the copy must be the generation asked for, with the prover keys its manifest lists
checkCopy(j) ==
    LET ok == job[j].tmp.module # 0 /\ ~proverKeyManifestProblems(job[j].tmp) /\ digestOf(job[j].tmp) = Pin[j] IN
    /\ job[j].step = "check"
    /\ Goes(j, IF ok THEN "rename" ELSE "failed")
    /\ proc' = IF ok THEN proc ELSE [proc EXCEPT ![job[j].home].busy = NoJob]
    /\ UNCHANGED <<source, dir, edits, losses>>

\* the rename fails on a folder another process made meanwhile; that one is used if it checks
renameSnapshot(j) ==
    LET d == Pin[j] IN
    /\ job[j].step = "rename"
    /\ LET made == ~Exists(d) /\ job[j].tmp # Nothing
           theirs == Exists(d) /\ digestOf(dir[d].at) = d
       IN  IF made \/ theirs
           THEN /\ dir' = IF made THEN [dir EXCEPT ![d] = [NoFolder EXCEPT !.at = job[j].tmp]] ELSE dir
                /\ Goes(j, "hold") /\ UNCHANGED proc
           ELSE Goes(j, "failed") /\ proc' = [proc EXCEPT ![job[j].home].busy = NoJob] /\ UNCHANGED dir
    /\ UNCHANGED <<source, edits, losses>>

\* holdSnapshot; a folder of which only the marks are left counts as gone
holdSnapshot(j) ==
    LET p == job[j].home  d == Pin[j] IN
    /\ job[j].step = "hold"
    /\ dir' = IF Exists(d) THEN [dir EXCEPT ![d].holders = @ \cup {p}] ELSE dir
    /\ proc' = [proc EXCEPT ![p].busy = NoJob, ![p].verified = @ \cup {d}]
    /\ job' = [job EXCEPT ![j] = [@ EXCEPT !.step = job[j].for, !.tmp = Nothing]]
    /\ UNCHANGED <<source, edits, losses>>

------------------------------------------------------------------------------
(* sweepGenerationIfUnused, after a release or an eviction                  *)

\* nobody of this thread needs it: the own mark goes, then the marks of others are read
sweepLooks(p) ==
    /\ proc[p].sweep # <<>> /\ Len(proc[p].sweep) = 1
    /\ LET d == Head(proc[p].sweep)
           used == Retained(p, d) \/ generationCached(p, d) \/ generationBundled(p, d)
       IN  IF used THEN proc' = [proc EXCEPT ![p].sweep = <<>>] /\ UNCHANGED dir
           ELSE /\ dir' = [dir EXCEPT ![d].holders = @ \ {p}]
                /\ proc' = [proc EXCEPT ![p].verified = @ \ {d}, ![p].sweep = IF Exists(d) /\ dir[d].holders \subseteq {p} THEN <<d, d>> ELSE <<>>]
    /\ UNCHANGED <<source, job, edits, losses>>

sweepRemoves(p) ==
    /\ Len(proc[p].sweep) = 2
    /\ dir' = [dir EXCEPT ![Head(proc[p].sweep)] = NoFolder]
    /\ proc' = [proc EXCEPT ![p].sweep = <<>>]
    /\ UNCHANGED <<source, job, edits, losses>>

------------------------------------------------------------------------------
(* Whoever replaces the registered files, restarts and the passing of time  *)

editSource(part, v) ==
    /\ edits < MaxEdits
    /\ edits' = edits + 1
    /\ source[part] # v
    /\ source' = [source EXCEPT ![part] = v]
    /\ UNCHANGED <<dir, proc, job, losses>>

Ends(p) == [j \in Jobs |-> IF job[j].home = p /\ job[j].step # "idle" THEN [job[j] EXCEPT !.step = "done", !.tmp = Nothing] ELSE job[j]]

\* the thread ends: its memory goes, the process id and its marks stay
workerRestarts(p) ==
    /\ losses < MaxLosses
    /\ losses' = losses + 1
    /\ proc' = [proc EXCEPT ![p] = Fresh]
    /\ job' = Ends(p)
    /\ UNCHANGED <<source, dir, edits>>

\* the process is killed, its marks count no more; a removal stops half way
kill(p) ==
    /\ losses < MaxLosses
    /\ losses' = losses + 1
    /\ proc' = [proc EXCEPT ![p] = Fresh]
    /\ job' = Ends(p)
    /\ \E left \in IF Len(proc[p].sweep) = 2 THEN {"all", "noProver", "noKeys"} ELSE {"all"} :
         dir' = [d \in Generations |->
                   LET cut == Len(proc[p].sweep) = 2 /\ d = Head(proc[p].sweep) /\ Exists(d)
                       at == dir[d].at
                   IN  [dir[d] EXCEPT !.holders = @ \ {p},
                        !.at = IF ~cut \/ left = "all" THEN at
                               ELSE IF left = "noProver" THEN [at EXCEPT !.prover = 0] ELSE [at EXCEPT !.prover = 0, !.keys = 0]]]
    /\ UNCHANGED <<source, edits>>

\* a snapshot nobody used for the whole TTL
ages(d) ==
    /\ losses < MaxLosses
    /\ losses' = losses + 1
    /\ Exists(d) /\ ~dir[d].old
    /\ dir' = [dir EXCEPT ![d].old = TRUE]
    /\ UNCHANGED <<source, proc, job, edits>>

SnapshotInit ==
    /\ source \in { [module |-> g[1], keys |-> g[2], prover |-> g[2]] : g \in Generations }
    /\ dir = [d \in Generations |-> NoFolder]
    /\ proc = [p \in Procs |-> Fresh]
    /\ job \in {[j \in Jobs |-> IdleJob(home[j])] : home \in Homes}
    /\ edits = 0 /\ losses = 0

SnapshotNext ==
    \/ \E j \in Jobs :
        \/ retainGeneration(j) \/ getContractScaffold(j) \/ importArtifactGeneration(j)
        \/ buildWorkerContractProviders(j) \/ prove(j) \/ releaseGeneration(j)
        \/ prepareSnapshotRoot(j) \/ findSnapshot(j) \/ copyModule(j) \/ copyKeys(j) \/ checkCopy(j) \/ renameSnapshot(j) \/ holdSnapshot(j)
    \/ \E p \in Procs : sweepLooks(p) \/ sweepRemoves(p) \/ workerRestarts(p) \/ kill(p)
    \/ \E part \in {"module", "keys", "prover"}, v \in Versions \cup {0} : (part = "prover" \/ v # 0) /\ editSource(part, v)
    \/ \E d \in Generations : ages(d)

SnapshotSpec == SnapshotInit /\ [][SnapshotNext]_snapshotVars

------------------------------------------------------------------------------
\* A call runs the module and proves with the keys of the generation it was pinned to, or it fails: whatever is replaced in the
\* registered folder while it is copied, and however builds, removals, restarts and half-removed folders of other
\* processes overlap.  About materializeArtifactSnapshot and the scaffold cache.
ProvesPinnedGeneration ==
    \A j \in Jobs : job[j].step = "proved" => job[j].module = Pin[j][1] /\ job[j].keys = Pin[j][2]
==============================================================================
