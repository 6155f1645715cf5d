------------------------------ MODULE WalletState ------------------------------
(***************************************************************************)
(* One wallet in the worker and its saved state (midnight/worker/facades.ts,*)
(* the dust guard of worker/submit.ts, and on the main thread the save      *)
(* chain of wallet-worker-client.ts, wallet-facade-builder.ts and           *)
(* wallet-sync-state-store.ts). The dust part stands for the parts that can *)
(* be replaced (dust, shielded). A state is the wallet's generation, raised *)
(* by each replacement, and the progress of its sync.                       *)
(***************************************************************************)
EXTENDS Integers, Sequences, FiniteSets

CONSTANTS
    MaxPending,      \* unconfirmed saves an entry remembers
    MaxProgress,     \* bound: progress of a sync
    MaxReplacements, \* bound: replaced parts
    MaxSaves,        \* bound: save numbers after which no tick starts
    MaxLives         \* bound: loads of the wallet

VARIABLES
    worker,   \* the thread: the load it is at, its save counter and the wallet's entry
    lock,     \* withSessionLocks of the wallet
    tick,     \* saveTick
    change,   \* resetRestoredSubWallet or restoreDustFromSnapshot
    leaving,  \* evict
    posted,   \* state-save messages the main thread has not stored yet
    acks,     \* state-save-ack messages on their way to the worker
    session,  \* sessionRegistry has the wallet: a save can be encrypted and stored
    store,    \* WalletSyncStates
    overtaken \* a save tick pushed a part that had been replaced since its check of the epoch

walletVars == <<worker, lock, tick, change, leaving, posted, acks, session, store, overtaken>>

Nothing == [gen |-> 0, at |-> 0, life |-> 0]
NoTick == [step |-> "idle", epoch |-> 0, blob |-> Nothing]
NoChange == [step |-> "idle", seq |-> 0, to |-> Nothing]
NoLeave == [step |-> "idle", seq |-> 0, saved |-> FALSE, blob |-> Nothing]

States == [gen : 0..(MaxReplacements + 1), at : 0..MaxProgress, life : 0..MaxLives]
Saves == [seq : Nat, blob : States, epoch : Nat]
Entry(s) == [here |-> s, restored |-> s # Nothing, epoch |-> 0, saved |-> Nothing, pending |-> {}]
NoEntry == [Entry(Nothing) EXCEPT !.restored = FALSE]

WalletTypeOK ==
    /\ worker \in [life : 0..MaxLives, seq : Nat, slot : {"none", "building", "cancelled", "loaded", "leaving"},
                   entry : [here : States, restored : BOOLEAN, epoch : Nat, saved : States, pending : SUBSET Saves]]
    /\ lock \in {"free", "submit", "change", "evict"}
    /\ tick \in [step : {"idle", "collect", "check", "log"}, epoch : Nat, blob : States]
    /\ change \in [step : {"idle", "swapped", "waits"}, seq : Nat, to : States]
    /\ leaving \in [step : {"idle", "lane", "waits", "done"}, seq : Nat, saved : BOOLEAN, blob : States]
    /\ posted \in Seq(Saves) /\ acks \in Seq(Nat)
    /\ session \in BOOLEAN /\ store \in States /\ overtaken \in BOOLEAN

WalletInit ==
    /\ worker = [life |-> 0, seq |-> 0, slot |-> "none", entry |-> NoEntry]
    /\ lock = "free" /\ tick = NoTick /\ change = NoChange /\ leaving = NoLeave
    /\ posted = <<>> /\ acks = <<>> /\ session = FALSE /\ store = Nothing /\ overtaken = FALSE

-----------------------------------------------------------------------------
(* Loading.                                                                *)

entry == worker.entry
loaded == worker.slot = "loaded"

\* loadSyncState and the init call: the worker builds from what is stored, or from nothing
buildFacade ==
    /\ worker.slot = "none" /\ leaving.step = "idle" /\ worker.life < MaxLives
    /\ worker' = [worker EXCEPT !.slot = "building", !.life = @ + 1,
                                !.entry = [Entry(store) EXCEPT !.here = [store EXCEPT
                                                !.life = worker.life + 1, !.gen = IF store = Nothing THEN 1 ELSE store.gen]]]
    /\ UNCHANGED <<lock, tick, change, leaving, posted, acks, session, store, overtaken>>

\* a wallet unloaded while it was built is discarded; a second init joined the running build
init ==
    /\ worker.slot \in {"building", "cancelled"}
    /\ IF worker.slot = "cancelled"
       THEN worker' = [worker EXCEPT !.slot = "none", !.entry = NoEntry] /\ UNCHANGED session
       ELSE worker' = [worker EXCEPT !.slot = "loaded"] /\ session' = TRUE
    /\ UNCHANGED <<lock, tick, change, leaving, posted, acks, store, overtaken>>

Sync ==
    /\ worker.slot \in {"loaded", "leaving"} /\ entry.here.at < MaxProgress
    /\ worker' = [worker EXCEPT !.entry.here.at = @ + 1]
    /\ UNCHANGED <<lock, tick, change, leaving, posted, acks, session, store, overtaken>>

-----------------------------------------------------------------------------
(* Saving.                                                                 *)

\* the oldest unconfirmed save is forgotten when there are too many
Newest(saves) == IF Cardinality(saves) > MaxPending THEN {s \in saves : \E t \in saves : t.seq < s.seq} ELSE saves

pushStateSave(e, blob) ==
    LET save == [seq |-> worker.seq + 1, blob |-> blob, epoch |-> e.epoch]
    IN  /\ posted' = Append(posted, save)
        /\ worker' = [worker EXCEPT !.seq = @ + 1, !.entry = [e EXCEPT !.pending = Newest(@ \cup {save})]]

\* a confirmation counts unless the part was replaced after the save was pushed
Confirmed(e, s) ==
    [e EXCEPT !.pending = {t \in e.pending : t.seq # s.seq}, !.saved = IF s.epoch = e.epoch THEN s.blob ELSE e.saved]

\* a loaded wallet looks for the confirmed save
applySaveAck ==
    /\ acks # <<>>
    /\ acks' = Tail(acks)
    /\ \/ /\ loaded
          /\ \E s \in entry.pending :
                /\ s.seq = Head(acks)
                /\ worker' = [worker EXCEPT !.entry = Confirmed(entry, s)]
       \/ (~loaded \/ \A s \in entry.pending : s.seq # Head(acks)) /\ UNCHANGED worker
    /\ change' = IF change.step = "waits" /\ change.seq = Head(acks) THEN NoChange ELSE change
    /\ lock' = IF change.step = "waits" /\ change.seq = Head(acks) THEN "free" ELSE lock
    /\ leaving' = IF leaving.step = "waits" /\ leaving.seq = Head(acks) THEN [leaving EXCEPT !.step = "done", !.saved = TRUE] ELSE leaving
    /\ UNCHANGED <<tick, posted, session, store, overtaken>>

\* the timer: one tick at a time, and none for a wallet that is no longer loaded
startPeriodicSave ==
    /\ loaded /\ tick.step = "idle" /\ worker.seq < MaxSaves
    /\ tick' = [NoTick EXCEPT !.step = "collect", !.epoch = entry.epoch]
    /\ UNCHANGED <<worker, lock, change, leaving, posted, acks, session, store, overtaken>>

collectSerializedStates ==
    /\ tick.step = "collect" /\ worker.slot \in {"loaded", "leaving"}
    /\ tick' = [tick EXCEPT !.step = "check", !.blob = entry.here]
    /\ UNCHANGED <<worker, lock, change, leaving, posted, acks, session, store, overtaken>>

pushChanged(blob) ==
    IF blob = entry.saved THEN UNCHANGED <<worker, posted>> ELSE pushStateSave(entry, blob)

\* Mutant: the tick saves what it collected without asking for the epoch.
checkNothing ==
    /\ tick.step = "check"
    /\ \/ tick' = [tick EXCEPT !.step = "log"] /\ UNCHANGED <<worker, posted>>
       \/ tick' = NoTick /\ pushChanged(tick.blob)
    /\ UNCHANGED <<lock, change, leaving, acks, session, store, overtaken>>

\* a part replaced during the collect is dropped; when the tick's log line is due the wallet is read once more
checkCollected ==
    /\ tick.step = "check"
    /\ \/ tick.epoch # entry.epoch /\ tick' = NoTick /\ UNCHANGED <<worker, posted>>
       \/ tick.epoch = entry.epoch /\ tick' = [tick EXCEPT !.step = "log"] /\ UNCHANGED <<worker, posted>>
       \/ tick.epoch = entry.epoch /\ tick' = NoTick /\ pushChanged(tick.blob)
    /\ UNCHANGED <<lock, change, leaving, acks, session, store, overtaken>>

\* maybeLogSyncState has returned; the epoch is not asked for again
saveTick ==
    /\ tick.step = "log"
    /\ tick' = NoTick /\ pushChanged(tick.blob)
    /\ overtaken' = (overtaken \/ (tick.epoch # entry.epoch /\ tick.blob # entry.saved))
    /\ UNCHANGED <<lock, change, leaving, acks, session, store>>

\* the main thread stores one wallet's saves in arrival order and confirms only a stored one
handleStateSave ==
    /\ posted # <<>> /\ session
    /\ store' = Head(posted).blob
    /\ posted' = Tail(posted)
    /\ acks' = IF Head(posted).blob.life = worker.life THEN Append(acks, Head(posted).seq) ELSE acks
    /\ UNCHANGED <<worker, lock, tick, change, leaving, session, overtaken>>

\* the database refuses, or the wallet is not registered any more: no confirmation
saveDropped ==
    /\ posted # <<>>
    /\ posted' = Tail(posted)
    /\ UNCHANGED <<worker, lock, tick, change, leaving, acks, session, store, overtaken>>

-----------------------------------------------------------------------------
(* Replacing a part, under the lock of the wallet.                         *)

\* a submit captures the state before it builds; the lock lasts until it answers
submitStarts ==
    /\ loaded /\ lock = "free"
    /\ lock' = "submit"
    /\ change' = [change EXCEPT !.to = entry.here]
    /\ UNCHANGED <<worker, tick, leaving, posted, acks, session, store, overtaken>>

submitEnds ==
    /\ lock = "submit"
    /\ lock' = "free" /\ change' = NoChange
    /\ UNCHANGED <<worker, tick, leaving, posted, acks, session, store, overtaken>>

Replacing(to, snapshot) ==
    /\ entry.here.gen <= MaxReplacements
    /\ worker' = [worker EXCEPT !.entry = [entry EXCEPT !.here = to, !.restored = FALSE]]
    /\ change' = [step |-> "swapped", seq |-> 0, to |-> snapshot]

\* a restored part whose events the ledger rejects is replaced by an empty one
resetRestoredSubWallet ==
    /\ loaded /\ lock = "free" /\ entry.restored
    /\ Replacing([entry.here EXCEPT !.at = 0, !.gen = @ + 1], Nothing)
    /\ lock' = "change"
    /\ UNCHANGED <<tick, leaving, posted, acks, session, store, overtaken>>

\* a submit the node refused before the mempool puts the captured state back
restoreDustFromSnapshot ==
    /\ lock = "submit"
    /\ LET snapshot == [change.to EXCEPT !.gen = entry.here.gen + 1] IN Replacing(snapshot, snapshot)
    /\ lock' = "change"
    /\ UNCHANGED <<tick, leaving, posted, acks, session, store, overtaken>>

\* the old part is stopped; then the epoch is raised and the snapshot (or the fresh state) saved, which
\* waits for the confirmation
replacementSaved ==
    /\ change.step = "swapped"
    /\ pushStateSave([entry EXCEPT !.epoch = @ + 1], IF change.to = Nothing THEN entry.here ELSE change.to)
    /\ change' = [change EXCEPT !.step = "waits", !.seq = worker.seq + 1]
    /\ UNCHANGED <<lock, tick, leaving, acks, session, store, overtaken>>

replacementUnconfirmed ==
    /\ change.step = "waits"
    /\ change' = NoChange /\ lock' = "free"
    /\ UNCHANGED <<worker, tick, leaving, posted, acks, session, store, overtaken>>

-----------------------------------------------------------------------------
(* Unloading.                                                              *)

\* no submit finds the wallet from now on; one that is being built is only marked
evict ==
    /\ leaving.step = "idle"
    /\ \/ worker.slot = "building" /\ worker' = [worker EXCEPT !.slot = "cancelled"] /\ UNCHANGED leaving
       \/ loaded /\ worker' = [worker EXCEPT !.slot = "leaving"] /\ leaving' = [NoLeave EXCEPT !.step = "lane"]
    /\ UNCHANGED <<lock, tick, change, posted, acks, session, store, overtaken>>

\* after a running save tick and under the lock: the last save, unless the state is confirmed already
finalSave ==
    /\ leaving.step = "lane" /\ tick.step = "idle" /\ lock = "free"
    /\ lock' = "evict"
    /\ pushChanged(entry.here)
    /\ leaving' = [leaving EXCEPT !.blob = entry.here, !.seq = worker.seq + 1,
                                  !.step = IF entry.here = entry.saved THEN "done" ELSE "waits", !.saved = entry.here = entry.saved]
    /\ UNCHANGED <<tick, change, acks, session, store, overtaken>>

finalSaveUnconfirmed ==
    /\ leaving.step = "waits"
    /\ leaving' = [leaving EXCEPT !.step = "done"]
    /\ UNCHANGED <<worker, lock, tick, change, posted, acks, session, store, overtaken>>

\* the keys are wiped and the answer is sent; the main thread then forgets how to store this wallet
zeroEntry ==
    /\ leaving.step = "done"
    /\ worker' = [worker EXCEPT !.slot = "none", !.entry = NoEntry]
    /\ lock' = "free" /\ leaving' = NoLeave /\ session' = FALSE
    /\ acks' = <<>>
    /\ UNCHANGED <<tick, change, posted, store, overtaken>>

\* the worker dies; what it sent may still be stored, because the passphrases are kept
onWorkerGone ==
    /\ worker.slot # "none"
    /\ worker' = [worker EXCEPT !.slot = "none", !.entry = NoEntry]
    /\ lock' = "free" /\ tick' = NoTick /\ change' = NoChange /\ leaving' = NoLeave /\ acks' = <<>>
    /\ UNCHANGED <<posted, session, store, overtaken>>

WalletNext ==
    \/ buildFacade \/ init \/ Sync \/ applySaveAck
    \/ startPeriodicSave \/ collectSerializedStates \/ checkCollected \/ saveTick
    \/ handleStateSave \/ saveDropped
    \/ submitStarts \/ submitEnds \/ resetRestoredSubWallet \/ restoreDustFromSnapshot
    \/ replacementSaved \/ replacementUnconfirmed
    \/ evict \/ finalSave \/ finalSaveUnconfirmed \/ zeroEntry \/ onWorkerGone

WalletSpec == WalletInit /\ [][WalletNext]_walletVars

-----------------------------------------------------------------------------
(* Properties.                                                             *)

\* "raise the epoch, so no older save can overwrite it": once the replacement of a broken part is stored, no step of
\* the same loaded wallet brings the replaced part back, whatever ticks, replacements and unloads overlap
\* (checkCollected, resetRestoredSubWallet, evict). The code does not keep this where the part is replaced while a tick
\* waits for its log line, after its check of the epoch: StoreNeverGoesBack.
StoreKeepsReplacement == ~overtaken /\ store'.life = store.life => store'.gen >= store.gen

\* The same for every tick: "so no restart or old save brings the broken state back" (facades.ts:691).
StoreNeverGoesBack == [][store'.life = store.life => store'.gen >= store.gen]_walletVars

\* A wallet unloaded as saved is stored as it was collected at the end, so no synced progress and no
\* replaced part is lost when its keys are wiped. Only a replacement may store its own, older, snapshot
\* over a save of the new part that a tick pushed before the epoch was raised; and a tick overtaken at its
\* log line may store the replaced part, as above.
SavedMeansStored ==
    ~overtaken /\ leaving.step = "done" /\ leaving.saved =>
        store.gen = leaving.blob.gen /\ (store.at = leaving.blob.at \/ entry.epoch > 0)

=============================================================================
