--------------------------- MODULE Crawler_proofs ---------------------------
(***************************************************************************)
(* Theorems about the crawler, for chains of any length, any number of     *)
(* forks, losses, restarts and prefetched blocks, under the hypotheses     *)
(* that StartsAtGenesis and FixedChain name:                               *)
(*   - the index is one unbroken chain, and a step of the crawler is a     *)
(*     step of ChainIndex or leaves the index alone;                       *)
(*   - the trailing pass skips no block: what lies at or below its cursor  *)
(*     was worked on, although rollbacks, restarts and redecodeFromHeight  *)
(*     overlap it (cursor-pass.ts);                                        *)
(*   - on a chain that does not change, indexing halts only at a block     *)
(*     that cannot be indexed (poisonBlock).                               *)
(***************************************************************************)
EXTENDS Crawler, SequenceTheorems, FiniteSetTheorems, FunctionTheorems, TLAPS

-----------------------------------------------------------------------------
(* Blocks are paths: facts about heights, parents and ancestors. *)

Path == Seq(Nat) \ {Null}

LEMMA PathFacts ==
    ASSUME NEW b \in Path
    PROVE  /\ Height(b) \in Nat
           /\ Len(b) \in Nat \ {0}
           /\ Ancestor(b, Height(b)) = b
  <1>1. Len(b) \in Nat \ {0}
    BY EmptySeq DEF Path, Null
  <1>2. SubSeq(b, 1, Len(b)) = b
    BY SubSeqFull DEF Path
  <1> QED
    BY <1>1, <1>2 DEF Height, Ancestor

LEMMA AncestorFacts ==
    ASSUME NEW b \in Path, NEW h \in 0..Height(b)
    PROVE  /\ Ancestor(b, h) \in Path
           /\ Height(Ancestor(b, h)) = h
           /\ \A i \in 1..(h + 1) : Ancestor(b, h)[i] = b[i]
  <1>1. /\ b \in Seq(Nat) /\ Len(b) \in Nat /\ h + 1 \in Int /\ h \in Nat /\ h + 1 <= Len(b)
    BY PathFacts DEF Path, Height
  <1>2. \A i \in 1..(h + 1) : b[i] \in Nat
    BY <1>1, ElementOfSeq
  <1>3. /\ SubSeq(b, 1, h + 1) \in Seq(Nat)
        /\ Len(SubSeq(b, 1, h + 1)) = h + 1
        /\ \A i \in 1..(h + 1) : SubSeq(b, 1, h + 1)[i] = b[i]
    BY <1>1, <1>2, SubSeqProperties
  <1>4. SubSeq(b, 1, h + 1) # << >>
    BY <1>1, <1>3, EmptySeq
  <1> QED
    BY <1>1, <1>3, <1>4 DEF Path, Null, Ancestor, Height

\* The ancestors of an ancestor.
LEMMA AncestorOfAncestor ==
    ASSUME NEW b \in Path, NEW h \in 0..Height(b), NEW j \in 0..h
    PROVE  Ancestor(Ancestor(b, h), j) = Ancestor(b, j)
  <1> DEFINE a == Ancestor(b, h)
  <1>1. Height(b) \in Nat /\ h \in Nat /\ j \in Nat /\ j \in 0..Height(b)
    BY PathFacts
  <1>2. a \in Path /\ Height(a) = h /\ \A i \in 1..(h + 1) : a[i] = b[i]
    BY AncestorFacts
  <1>3. /\ Ancestor(a, j) \in Path
        /\ Height(Ancestor(a, j)) = j
        /\ \A i \in 1..(j + 1) : Ancestor(a, j)[i] = a[i]
    BY <1>1, <1>2, AncestorFacts
  <1>4. /\ Ancestor(b, j) \in Path
        /\ Height(Ancestor(b, j)) = j
        /\ \A i \in 1..(j + 1) : Ancestor(b, j)[i] = b[i]
    BY <1>1, AncestorFacts
  <1>5. Len(Ancestor(a, j)) = j + 1 /\ Len(Ancestor(b, j)) = j + 1
    BY <1>1, <1>3, <1>4, PathFacts DEF Height
  <1>6. \A i \in 1..(j + 1) : Ancestor(a, j)[i] = Ancestor(b, j)[i]
    BY <1>1, <1>2, <1>3, <1>4
  <1> HIDE DEF a
  <1>7. Ancestor(a, j) = Ancestor(b, j)
    BY <1>3, <1>4, <1>5, <1>6, SeqEqual DEF Path
  <1> QED
    BY <1>7 DEF a

LEMMA ParentFacts ==
    ASSUME NEW b \in Path, Height(b) # 0
    PROVE  Parent(b) = Ancestor(b, Height(b) - 1) /\ Height(b) - 1 \in 0..Height(b)
  <1>1. Len(b) \in Nat \ {0} /\ Height(b) \in Nat
    BY PathFacts
  <1>2. (Len(b) - 1) - 1 + 1 = Len(b) - 1
    BY <1>1
  <1>3. Parent(b) = Ancestor(b, Height(b) - 1)
    BY <1>2 DEF Parent, Ancestor, Height
  <1> QED
    BY <1>1, <1>3

-----------------------------------------------------------------------------
(* What storing a block and rolling back do to a chain. *)

Chain(t) == {Ancestor(t, h) : h \in 0..Height(t)}

\* A chain has one block at every height up to that of its tip.
LEMMA ChainFacts ==
    ASSUME NEW t \in Path
    PROVE  /\ Chain(t) \subseteq Path
           /\ t \in Chain(t)
           /\ \A c \in Chain(t) : Height(c) \in 0..Height(t) /\ c = Ancestor(t, Height(c))
           /\ \A h \in 0..Height(t) : Ancestor(t, h) \in Chain(t) /\ Height(Ancestor(t, h)) = h
  <1>1. Height(t) \in Nat /\ Ancestor(t, Height(t)) = t
    BY PathFacts
  <1>2. \A h \in 0..Height(t) : Ancestor(t, h) \in Path /\ Height(Ancestor(t, h)) = h
    BY AncestorFacts
  <1> QED
    BY <1>1, <1>2 DEF Chain

\* A block whose parent is in the chain, at a height where the chain has none, extends it.
LEMMA ChainGrows ==
    ASSUME NEW t \in Path, NEW b \in Path,
           Height(b) = 0 \/ Parent(b) \in Chain(t),
           \A c \in Chain(t) : Height(c) # Height(b)
    PROVE  Chain(t) \cup {b} = Chain(b)
  <1>1. Height(t) \in Nat /\ Height(b) \in Nat
    BY PathFacts
  <1>2. Height(b) \notin 0..Height(t)
    BY ChainFacts
  <1>3. Height(b) # 0
    BY <1>1, <1>2
  <1>4. /\ Parent(b) \in Chain(t)
        /\ Parent(b) = Ancestor(b, Height(b) - 1)
        /\ Height(b) - 1 \in 0..Height(b)
    BY <1>3, ParentFacts
  <1>5. Height(Parent(b)) = Height(b) - 1
    BY <1>4, AncestorFacts
  <1>6. Height(b) - 1 \in 0..Height(t)
    BY <1>4, <1>5, ChainFacts
  <1>7. Height(b) = Height(t) + 1
    BY <1>1, <1>2, <1>6
  <1>8. Parent(b) = t
    BY <1>1, <1>4, <1>5, <1>7, ChainFacts, PathFacts
  <1>9. \A h \in 0..Height(t) : Ancestor(t, h) = Ancestor(b, h)
    <2> TAKE h \in 0..Height(t)
    <2>1. Height(b) - 1 \in 0..Height(b) /\ h \in 0..(Height(b) - 1)
      BY <1>1, <1>4, <1>7
    <2>2. Ancestor(Ancestor(b, Height(b) - 1), h) = Ancestor(b, h)
      BY <2>1, AncestorOfAncestor
    <2> QED
      BY <2>2, <1>4, <1>8
  <1>10. 0..Height(b) = (0..Height(t)) \cup {Height(b)}
    BY <1>1, <1>7
  <1>11. Ancestor(b, Height(b)) = b
    BY PathFacts
  <1> QED
    BY <1>9, <1>10, <1>11 DEF Chain

\* A block without ancestors is a chain.
LEMMA ChainStarts ==
    ASSUME NEW b \in Path, Height(b) = 0
    PROVE  {b} = Chain(b)
  <1>1. Ancestor(b, 0) = b
    BY PathFacts
  <1>2. 0..Height(b) = {0}
    OBVIOUS
  <1> QED
    BY <1>1, <1>2 DEF Chain

\* What is left below a height is the chain of its highest block.
LEMMA ChainCut ==
    ASSUME NEW t \in Path, NEW from \in Nat,
           NEW kept, kept = {c \in Chain(t) : Height(c) < from},
           kept # Chain(t), kept # {}
    PROVE  /\ \E top \in kept : \A c \in kept : Height(c) <= Height(top)
           /\ \A top \in kept : (\A c \in kept : Height(c) <= Height(top)) =>
                 top \in Path /\ kept = Chain(top)
  <1> DEFINE a == Ancestor(t, from - 1)
  <1>1. Height(t) \in Nat
    BY PathFacts
  <1>2. from - 1 \in 0..Height(t)
    <2>1. PICK c \in Chain(t) : ~(Height(c) < from)
      OBVIOUS
    <2>2. PICK d \in kept : TRUE
      OBVIOUS
    <2>3. Height(c) \in 0..Height(t) /\ Height(d) \in 0..Height(t) /\ Height(d) < from
      BY ChainFacts
    <2> QED
      BY <1>1, <2>1, <2>3
  <1>3. a \in Path /\ Height(a) = from - 1
    BY <1>2, AncestorFacts
  <1>4. a \in kept
    BY <1>2, <1>3, ChainFacts
  <1>5. \A c \in kept : Height(c) \in 0..(from - 1) /\ c = Ancestor(t, Height(c))
    BY ChainFacts
  <1>6. \A c \in kept : Height(c) <= Height(a)
    BY <1>3, <1>5
  <1>7. \A top \in kept : (\A c \in kept : Height(c) <= Height(top)) => top = a
    BY <1>3, <1>4, <1>5, <1>6
  <1>8. \A h \in 0..(from - 1) : Ancestor(a, h) = Ancestor(t, h)
    BY <1>2, AncestorOfAncestor
  <1>9. \A h \in 0..(from - 1) : /\ h \in 0..Height(t) /\ h < from
                                 /\ Ancestor(t, h) \in Chain(t)
                                 /\ Height(Ancestor(t, h)) = h
    BY <1>1, <1>2, ChainFacts
  <1>10. kept = {Ancestor(t, h) : h \in 0..(from - 1)}
    BY <1>5, <1>9
  <1> HIDE DEF a
  <1>11. kept = Chain(a)
    BY <1>3, <1>8, <1>10 DEF Chain
  <1> QED
    BY <1>3, <1>4, <1>6, <1>7, <1>11

-----------------------------------------------------------------------------
(* The inductive invariant. *)

\* Nothing is indexed below the anchor: it is genesis or there is none.
StartsAtGenesis == StartHeight \in {0, 1}

Prepared == [kind : {"none", "known", "new", "transient", "permanent"}, block : Path \cup {Null}]

CatchUpRun ==
    [pc : {"idle", "read", "head", "seed", "run"}, next : Nat, goal : Heights,
     prep : [Heights -> Prepared], retried : BOOLEAN]

HandlerRun ==
    [pc : {"idle", "head", "check", "compare", "fork", "rollback", "recatch", "waitHead", "store",
           "persist", "stored", "drain", "waitDrain"},
     head : Path \cup {Null}, block : Path \cup {Null}, from : Nat, res : Results]

\* The node's chain is a path of bounded height.
NodeShape == tip \in Path /\ Height(tip) <= MaxHeight /\ reorgs \in Nat

\* A catch-up works on heights of the node's chain, and a block fetched for storing is a path.
CatchUpShape ==
    /\ cu \in CatchUpRun
    /\ cu.pc = "seed" => StartHeight > 0
    /\ \A h \in Heights : cu.prep[h].kind = "new" => cu.prep[h].block \in Path

\* The handler works on a block of the node, and rolls back to a height.
HandlerShape ==
    /\ live \in HandlerRun
    /\ live.pc # "idle" => live.head \in Path
    /\ live.pc = "persist" => live.block \in Path

\* The stored blocks are the recorded tip and all its ancestors.
IndexShape ==
    /\ DOMAIN sync = {"tip", "status", "errs", "cursor"}
    /\ sync.tip \in Path \cup {Null}
    /\ IF sync.tip = Null THEN blocks = {} ELSE blocks = Chain(sync.tip)

IInv == NodeShape /\ CatchUpShape /\ HandlerShape /\ IndexShape

LEMMA HeightsFacts ==
    /\ MaxHeight \in Nat
    /\ Heights \subseteq Nat /\ 0 \in Heights
    /\ \A h \in Nat : h <= MaxHeight => h \in Heights
    /\ \A h \in Heights : h <= MaxHeight
  BY CrawlerAssumption DEF Heights

LEMMA IdleFacts ==
    /\ IdleCu \in CatchUpRun /\ IdleCu.pc = "idle"
    /\ \A h \in Heights : IdleCu.prep[h].kind = "none"
    /\ IdleLive \in HandlerRun
    /\ IdleLive.pc = "idle"
  <1>1. NoPrep \in Prepared
    BY DEF NoPrep, Prepared
  <1>2. [h \in Heights |-> NoPrep] \in [Heights -> Prepared]
    BY <1>1
  <1>3. IdleCu \in CatchUpRun
    BY <1>2, HeightsFacts DEF IdleCu, CatchUpRun
  <1>4. IdleCu.pc = "idle"
    BY DEF IdleCu
  <1>5. \A h \in Heights : IdleCu.prep[h].kind = "none"
    BY DEF IdleCu, NoPrep
  <1>6. IdleLive \in HandlerRun
    BY DEF IdleLive, HandlerRun, Results
  <1>7. IdleLive.pc = "idle"
    BY DEF IdleLive
  <1> QED
    BY <1>3, <1>4, <1>5, <1>6, <1>7

\* The invariant at the start.
LEMMA InitIInv == Init => IInv
  <1> SUFFICES ASSUME Init PROVE IInv
    OBVIOUS
  <1>1. NodeShape
    <2>1. tip = <<0>> /\ <<0>> \in Seq(Nat) /\ Len(<<0>>) = 1 /\ <<0>> # << >>
      BY DEF Init
    <2> QED
      BY <2>1, HeightsFacts DEF Init, NodeShape, Path, Null, Height
  <1>2. CatchUpShape /\ HandlerShape
    BY IdleFacts DEF Init, CatchUpShape, HandlerShape
  <1>3. IndexShape
    BY DEF Init, IndexShape
  <1> QED
    BY <1>1, <1>2, <1>3 DEF IInv

\* The node's block at a height of its chain is a path.
LEMMA CanonicalFacts ==
    ASSUME NodeShape, NEW h \in Nat, h <= Height(tip)
    PROVE  Canonical(h) \in Path /\ Height(Canonical(h)) = h
  <1>1. h \in 0..Height(tip)
    BY PathFacts DEF NodeShape
  <1> QED
    BY <1>1, AncestorFacts DEF NodeShape, Canonical

\* Storing a block that is not stored yet.
LEMMA StoringKeepsIndex ==
    ASSUME IndexShape, NEW b \in Path, b \notin blocks, Storable(b),
           blocks' = blocks \cup {b},
           DOMAIN sync' = DOMAIN sync, sync'.tip = b
    PROVE  IndexShape'
  <1>1. b # Null
    BY DEF Path
  <1>2. Height(b) = 0 \/ Parent(b) \in blocks
    BY DEF Storable
  <1>3. \A c \in blocks : Height(c) # Height(b)
    BY DEF Storable, BlocksAt
  <1>4. blocks' = Chain(b)
    <2>1. CASE sync.tip = Null
      BY <1>2, <2>1, ChainStarts DEF IndexShape
    <2>2. CASE sync.tip # Null
      BY <1>2, <1>3, <2>2, ChainGrows DEF IndexShape
    <2> QED
      BY <2>1, <2>2
  <1> QED
    BY <1>1, <1>4 DEF IndexShape

\* A rollback.
LEMMA RollbackKeepsIndex ==
    ASSUME IndexShape, NEW from \in Nat, NEW status, RolledBack(from, status)
    PROVE  IndexShape'
  <1> DEFINE kept == {b \in blocks : Height(b) < from}
             top  == IF kept = {} THEN Null
                     ELSE CHOOSE b \in kept : \A c \in kept : Height(c) <= Height(b)
  <1>1. CASE kept = blocks
    BY <1>1 DEF RolledBack, IndexShape
  <1>2. CASE kept # blocks
    <2>1. blocks' = kept /\ DOMAIN sync' = DOMAIN sync /\ sync'.tip = top
      BY <1>2 DEF RolledBack, IndexShape
    <2>2. sync.tip \in Path /\ blocks = Chain(sync.tip)
      BY <1>2 DEF IndexShape
    <2>3. CASE kept = {}
      BY <2>1, <2>3 DEF IndexShape
    <2>4. CASE kept # {}
      <3>1. kept = {c \in Chain(sync.tip) : Height(c) < from}
        BY <2>2
      <3>2. top = CHOOSE b \in kept : \A c \in kept : Height(c) <= Height(b)
        BY <2>4
      <3>3. kept # Chain(sync.tip)
        BY <1>2, <2>2
      <3> HIDE DEF top, kept
      <3>4. /\ \E b \in kept : \A c \in kept : Height(c) <= Height(b)
            /\ \A b \in kept : (\A c \in kept : Height(c) <= Height(b)) =>
                  b \in Path /\ kept = Chain(b)
        BY <2>2, <2>4, <3>1, <3>3, ChainCut
      <3>5. top \in kept /\ \A c \in kept : Height(c) <= Height(top)
        BY <3>2, <3>4
      <3>6. top \in Path /\ kept = Chain(top)
        BY <3>4, <3>5
      <3>7. top # Null
        BY <3>6 DEF Path
      <3> QED
        BY <2>1, <3>6, <3>7 DEF IndexShape
    <2> QED
      BY <2>3, <2>4
  <1> QED
    BY <1>1, <1>2

-----------------------------------------------------------------------------
(* Steps that leave a part of the state alone. *)

LEMMA NodeFrame == NodeShape /\ UNCHANGED nodeVars => NodeShape'
  BY DEF NodeShape, nodeVars

LEMMA CatchUpFrame == CatchUpShape /\ UNCHANGED cu => CatchUpShape'
  BY DEF CatchUpShape

LEMMA HandlerFrame == HandlerShape /\ UNCHANGED live => HandlerShape'
  BY DEF HandlerShape

LEMMA IndexFrame ==
    IndexShape /\ blocks' = blocks /\ DOMAIN sync' = DOMAIN sync /\ sync'.tip = sync.tip => IndexShape'
  BY DEF IndexShape

\* Other fields of the SyncState row.
LEMMA SyncFrame ==
    ASSUME IndexShape, NEW x, blocks' = blocks,
           \/ sync' = sync
           \/ sync' = [sync EXCEPT !.status = x]
           \/ sync' = [sync EXCEPT !.cursor = x]
           \/ sync' = ErrorRecorded(sync, x)
    PROVE  IndexShape'
  <1>1. DOMAIN sync' = DOMAIN sync /\ sync'.tip = sync.tip
    BY DEF IndexShape, ErrorRecorded
  <1> QED
    BY <1>1, IndexFrame

\* A catch-up that is called, or that ends.
LEMMA CalledKeepsShape ==
    ASSUME CatchUpShape, CatchUpCalled
    PROVE  CatchUpShape'
  <1>1. CASE cu' = cu
    BY <1>1, CatchUpFrame
  <1>2. CASE cu' = [IdleCu EXCEPT !.pc = "read"]
    <2>1. cu' \in CatchUpRun /\ cu'.prep = IdleCu.prep /\ cu'.pc = "read"
      BY <1>2, IdleFacts DEF CatchUpRun
    <2> QED
      BY <2>1, IdleFacts DEF CatchUpShape
  <1> QED
    BY <1>1, <1>2 DEF CatchUpCalled

\* A height for which something else was fetched, or whose block was stored.
LEMMA PreparedKeepsShape ==
    ASSUME CatchUpShape, NEW h \in Heights, NEW p \in Prepared, p.kind = "new" => p.block \in Path,
           NEW next \in Nat, NEW retried \in BOOLEAN,
           cu' = [cu EXCEPT !.next = next, !.retried = retried, !.prep[h] = p]
    PROVE  CatchUpShape'
  <1>1. cu.prep \in [Heights -> Prepared]
    BY DEF CatchUpShape, CatchUpRun
  <1>2. /\ cu' \in CatchUpRun
        /\ cu'.pc = cu.pc
        /\ cu'.prep = [cu.prep EXCEPT ![h] = p]
    BY <1>1 DEF CatchUpShape, CatchUpRun
  <1>3. \A g \in Heights : cu'.prep[g] = IF g = h THEN p ELSE cu.prep[g]
    BY <1>1, <1>2
  <1> QED
    BY <1>2, <1>3 DEF CatchUpShape

LEMMA NoPrepFacts == NoPrep \in Prepared /\ NoPrep.kind = "none"
  BY DEF NoPrep, Prepared

LEMMA EndsKeepsShape ==
    ASSUME CatchUpShape, HandlerShape, NEW res \in Results, CatchUpEnds(res)
    PROVE  CatchUpShape' /\ HandlerShape'
  <1>1. CatchUpShape'
    BY IdleFacts DEF CatchUpShape, CatchUpEnds
  <1>2. CASE live' = live
    BY <1>1, <1>2, HandlerFrame
  <1>3. CASE live' = [live EXCEPT !.res = res]
    BY <1>1, <1>3 DEF HandlerShape, HandlerRun
  <1> QED
    BY <1>2, <1>3 DEF CatchUpEnds

-----------------------------------------------------------------------------
(* Every step keeps the invariant. *)

LEMMA CatchUpStep ==
    ASSUME IInv, StartsAtGenesis, CatchUp
    PROVE  IInv'
  <1> USE DEF IInv
  <1>1. CASE ReadStart
    <2>1. (IF sync.tip = Null THEN 0 ELSE Height(sync.tip) + 1) \in Nat
      BY PathFacts DEF IndexShape
    <2>2. CatchUpShape'
      BY <1>1, <2>1 DEF ReadStart, CatchUpShape, CatchUpRun
    <2> QED
      BY <1>1, <2>2, NodeFrame, HandlerFrame, IndexFrame DEF ReadStart, dbVars
  <1>2. CASE ReadFinalizedHead
    <2>1. Height(tip) \in Heights
      BY HeightsFacts, PathFacts DEF NodeShape
    <2>2. NodeShape'
      BY <1>2, NodeFrame DEF ReadFinalizedHead
    <2>3. CASE /\ StartHeight > 0
               /\ cu' = [cu EXCEPT !.pc = "seed", !.goal = Height(tip)]
               /\ UNCHANGED <<sync, live>>
      <3>1. CatchUpShape'
        BY <2>1, <2>3 DEF CatchUpShape, CatchUpRun
      <3> QED
        BY <1>2, <2>2, <2>3, <3>1, HandlerFrame, IndexFrame DEF ReadFinalizedHead
    <2>4. CASE CatchUpEnds("ok") /\ UNCHANGED sync
      BY <1>2, <2>2, <2>4, EndsKeepsShape, IndexFrame DEF ReadFinalizedHead, Results
    <2>5. CASE RunFrom(cu.next, Height(tip)) /\ sync' = [sync EXCEPT !.status = "syncing"]
      <3>1. CatchUpShape'
        BY <2>1, <2>5 DEF RunFrom, CatchUpShape, CatchUpRun
      <3>2. IndexShape'
        BY <1>2, <2>5, SyncFrame DEF ReadFinalizedHead
      <3> QED
        BY <2>2, <2>5, <3>1, <3>2, HandlerFrame DEF RunFrom
    <2> QED
      BY <1>2, <2>3, <2>4, <2>5 DEF ReadFinalizedHead
  <1>3. CASE SeedStartHeight
    <2>1. NodeShape'
      BY <1>3, NodeFrame DEF SeedStartHeight
    <2>2. CASE RunFrom(0, cu.goal) /\ UNCHANGED <<blocks, sync>>
      <3>1. CatchUpShape'
        BY <2>2 DEF RunFrom, CatchUpShape, CatchUpRun
      <3> QED
        BY <2>1, <2>2, <3>1, HandlerFrame, IndexFrame DEF RunFrom
    <2>3. CASE CatchUpEnds("ok") /\ UNCHANGED <<blocks, sync>>
      BY <2>1, <2>3, EndsKeepsShape, IndexFrame DEF Results
    <2>4. CASE /\ blocks = {} /\ StartHeight - 1 <= cu.goal /\ StartHeight - 1 <= Height(tip)
               /\ Stored(Canonical(StartHeight - 1))
               /\ IF StartHeight > cu.goal THEN CatchUpEnds("ok") ELSE RunFrom(StartHeight, cu.goal)
      <3>1. StartHeight = 1
        BY <1>3 DEF StartsAtGenesis, SeedStartHeight, CatchUpShape
      <3>2. CatchUpShape' /\ HandlerShape'
        <4>1. CASE CatchUpEnds("ok")
          BY <4>1, EndsKeepsShape DEF Results
        <4>2. CASE RunFrom(StartHeight, cu.goal)
          BY <4>2, CrawlerAssumption, HandlerFrame DEF RunFrom, CatchUpShape, CatchUpRun
        <4> QED
          BY <2>4, <4>1, <4>2
      <3>3. Canonical(0) \in Path /\ Height(Canonical(0)) = 0
        BY <2>4, <3>1, CanonicalFacts
      <3>4. Storable(Canonical(0)) /\ Canonical(0) \notin blocks
        BY <2>4, <3>3 DEF Storable, BlocksAt
      <3>5. blocks' = blocks \cup {Canonical(0)} /\ DOMAIN sync' = DOMAIN sync /\ sync'.tip = Canonical(0)
        BY <2>4, <3>1 DEF Stored, IndexedTo, IndexShape
      <3> QED
        BY <2>1, <3>2, <3>3, <3>4, <3>5, StoringKeepsIndex
    <2> QED
      BY <1>3, <2>2, <2>3, <2>4 DEF SeedStartHeight
  <1>4. CASE \E kind \in {"transient", "permanent"} : CatchUpFails(kind)
    <2>1. PICK kind \in {"transient", "permanent"} : CatchUpFails(kind)
      BY <1>4
    <2> QED
      BY <2>1, NodeFrame, EndsKeepsShape, IndexFrame DEF CatchUpFails, Results, dbVars
  <1>5. CASE \E h \in Heights : FetchBlock(h)
    <2>1. PICK h \in Heights : FetchBlock(h)
      BY <1>5
    <2>2. h \in Nat
      BY HeightsFacts
    <2>3. CatchUpShape'
      <3> DEFINE p == IF h > Height(tip) THEN [kind |-> "transient", block |-> Null]
                      ELSE IF Canonical(h) \in blocks THEN [kind |-> "known", block |-> Null]
                      ELSE IF h \in Bad THEN [kind |-> "permanent", block |-> Null]
                      ELSE [kind |-> "new", block |-> Canonical(h)]
      <3>1. Height(tip) \in Nat /\ (h <= Height(tip) => Canonical(h) \in Path)
        BY <2>2, CanonicalFacts, PathFacts DEF NodeShape
      <3>2. p \in Prepared /\ (p.kind = "new" => p.block \in Path)
        BY <2>2, <3>1 DEF Prepared
      <3>3. cu' = [cu EXCEPT !.prep[h] = p]
        BY <2>1 DEF FetchBlock
      <3> HIDE DEF p
      <3>4. cu' = [cu EXCEPT !.next = cu.next, !.retried = cu.retried, !.prep[h] = p]
        BY <3>3 DEF CatchUpShape, CatchUpRun
      <3>5. cu.next \in Nat /\ cu.retried \in BOOLEAN
        BY DEF CatchUpShape, CatchUpRun
      <3> QED
        BY <3>2, <3>4, <3>5, PreparedKeepsShape
    <2> QED
      BY <2>1, <2>3, NodeFrame, HandlerFrame, IndexFrame DEF FetchBlock, dbVars
  <1>6. CASE \E h \in Heights : \E kind \in Faults : FetchFails(h, kind)
    <2>1. PICK h \in Heights, kind \in Faults : FetchFails(h, kind)
      BY <1>6
    <2>2. CatchUpShape'
      BY <2>1, CrawlerAssumption DEF FetchFails, CatchUpShape, CatchUpRun, Prepared
    <2> QED
      BY <2>1, <2>2, NodeFrame, HandlerFrame, IndexFrame DEF FetchFails, dbVars
  <1>7. CASE PersistNext
    <2>1. cu.next \in Heights
      BY <1>7, HeightsFacts DEF PersistNext, CatchUpShape, CatchUpRun
    <2>2. CatchUpShape'
      <3>1. cu' = [cu EXCEPT !.next = cu.next + 1, !.retried = FALSE, !.prep[cu.next] = NoPrep]
        BY <1>7 DEF PersistNext
      <3>2. cu.next + 1 \in Nat
        BY DEF CatchUpShape, CatchUpRun
      <3> QED
        BY <2>1, <3>1, <3>2, NoPrepFacts, PreparedKeepsShape
    <2>3. IndexShape'
      <3>1. CASE blocks' = blocks /\ sync' \in ErrorsReset(sync)
        <4>1. DOMAIN sync' = DOMAIN sync /\ sync'.tip = sync.tip
          BY <3>1 DEF ErrorsReset, IndexShape
        <4> QED
          BY <3>1, <4>1, IndexFrame
      <3>2. CASE LET b == cu.prep[cu.next].block IN
                 /\ cu.prep[cu.next].kind = "new" /\ Storable(b) /\ b \notin blocks
                 /\ blocks' = blocks \cup {b}
                 /\ sync' \in ErrorsReset(IndexedTo(b))
        <4> DEFINE b == cu.prep[cu.next].block
        <4>1. b \in Path
          BY <2>1, <3>2 DEF CatchUpShape
        <4>2. DOMAIN sync' = DOMAIN sync /\ sync'.tip = b
          BY <3>2 DEF ErrorsReset, IndexedTo, IndexShape
        <4> QED
          BY <3>2, <4>1, <4>2, StoringKeepsIndex
      <3> QED
        BY <1>7, <3>1, <3>2 DEF PersistNext
    <2> QED
      BY <1>7, <2>2, <2>3, NodeFrame, HandlerFrame DEF PersistNext
  <1>8. CASE BatchFails
    <2>1. IndexShape'
      BY <1>8, SyncFrame DEF BatchFails
    <2>2. cu.next \in Heights
      BY <1>8, HeightsFacts DEF BatchFails, CatchUpShape, CatchUpRun
    <2>3. CASE CatchUpEnds("ok")
      BY <1>8, <2>1, <2>3, NodeFrame, EndsKeepsShape DEF BatchFails, Results
    <2>4. CASE cu' = [cu EXCEPT !.retried = TRUE, !.prep[cu.next] = NoPrep] /\ UNCHANGED live
      <3>1. CatchUpShape'
        BY <2>2, <2>4 DEF CatchUpShape, CatchUpRun, NoPrep, Prepared
      <3> QED
        BY <1>8, <2>1, <2>4, <3>1, NodeFrame, HandlerFrame DEF BatchFails
    <2> QED
      BY <1>8, <2>3, <2>4 DEF BatchFails
  <1>9. CASE CatchUpDone
    BY <1>9, NodeFrame, EndsKeepsShape, IndexFrame DEF CatchUpDone, Results, dbVars
  <1> QED
    BY <1>1, <1>2, <1>3, <1>4, <1>5, <1>6, <1>7, <1>8, <1>9 DEF CatchUp

LEMMA PipelineStep ==
    ASSUME IInv, Pipeline \/ RedriveTimer
    PROVE  IInv'
  <1> USE DEF IInv
  <1>1. CASE PipeCatchUp
    BY <1>1, NodeFrame, CalledKeepsShape, HandlerFrame, IndexFrame DEF PipeCatchUp, dbVars
  <1>2. CASE PipeResumes \/ SubscribeLive \/ (\E kind \in Faults : SubscribeFails(kind)) \/ PipeDone
             \/ RedriveTimer
    BY <1>2, NodeFrame, CatchUpFrame, HandlerFrame, IndexFrame
       DEF PipeResumes, SubscribeLive, SubscribeFails, PipeDone, RedriveTimer, dbVars
  <1>3. CASE MarkSynced
    BY <1>3, NodeFrame, CatchUpFrame, HandlerFrame, SyncFrame DEF MarkSynced
  <1>4. CASE PipeFails
    BY <1>4, NodeFrame, CatchUpFrame, HandlerFrame, SyncFrame DEF PipeFails
  <1> QED
    BY <1>1, <1>2, <1>3, <1>4 DEF Pipeline

LEMMA HandlerStep ==
    ASSUME IInv, Handler
    PROVE  IInv'
  <1> USE DEF IInv
  <1>1. CASE ReadHead
    <2>1. HandlerShape'
      BY <1>1 DEF ReadHead, HandlerShape, HandlerRun
    <2>2. CatchUpShape'
      BY <1>1, CatchUpFrame, CalledKeepsShape DEF ReadHead
    <2> QED
      BY <1>1, <2>1, <2>2, NodeFrame, IndexFrame DEF ReadHead, dbVars
  <1>2. CASE CheckForReorg
    <2>1. BlockAt(Height(live.head)) \in Path \cup {Null}
      <3>1. blocks \subseteq Path
        BY ChainFacts DEF IndexShape
      <3> QED
        BY <3>1 DEF BlockAt, BlocksAt
    <2>2. HandlerShape'
      BY <1>2, <2>1 DEF CheckForReorg, HandlerShape, HandlerRun
    <2> QED
      BY <1>2, <2>2, NodeFrame, CatchUpFrame, IndexFrame DEF CheckForReorg, dbVars
  <1>3. CASE CompareWithNode
    <2>1. Height(live.head) \in Nat
      BY <1>3, PathFacts DEF CompareWithNode, HandlerShape
    <2>2. HandlerShape'
      BY <1>3, <2>1 DEF CompareWithNode, HandlerShape, HandlerRun
    <2> QED
      BY <1>3, <2>2, NodeFrame, CatchUpFrame, IndexFrame DEF CompareWithNode, dbVars
  <1>4. CASE FindForkPoint
    <2>1. Height(live.head) \in Nat
      BY <1>4, PathFacts DEF FindForkPoint, HandlerShape
    <2>2. PICK k \in 0..(Height(live.head) - 1) :
             live' = [live EXCEPT !.pc = "rollback", !.from = IF k = 0 THEN 0 ELSE k + 1]
      BY <1>4 DEF FindForkPoint
    <2>3. live.head \in Path /\ (IF k = 0 THEN 0 ELSE k + 1) \in Nat
      BY <1>4, <2>1 DEF FindForkPoint, HandlerShape
    <2>4. HandlerShape'
      BY <2>2, <2>3 DEF HandlerShape, HandlerRun
    <2> QED
      BY <1>4, <2>4, NodeFrame, CatchUpFrame, IndexFrame DEF FindForkPoint, dbVars
  <1>5. CASE HandleReorg
    <2>1. HandlerShape' /\ live.from \in Nat
      BY <1>5 DEF HandleReorg, HandlerShape, HandlerRun
    <2>2. IndexShape'
      BY <1>5, <2>1, RollbackKeepsIndex DEF HandleReorg
    <2> QED
      BY <1>5, <2>1, <2>2, NodeFrame, CatchUpFrame DEF HandleReorg
  <1>6. CASE ReindexBranch
    <2>1. HandlerShape'
      BY <1>6 DEF ReindexBranch, HandlerShape, HandlerRun, Results
    <2> QED
      BY <1>6, <2>1, NodeFrame, CalledKeepsShape, IndexFrame DEF ReindexBranch, dbVars
  <1>7. CASE FetchHead
    <2>1. Height(live.head) \in Nat
      BY <1>7, PathFacts DEF FetchHead, HandlerShape
    <2>2. Canonical(Height(live.head)) \in Path
      BY <1>7, <2>1, CanonicalFacts DEF FetchHead
    <2>3. HandlerShape'
      BY <1>7, <2>2 DEF FetchHead, HandlerShape, HandlerRun
    <2> QED
      BY <1>7, <2>3, NodeFrame, CatchUpFrame, IndexFrame DEF FetchHead, dbVars
  <1>8. CASE PersistHead
    <2>1. HandlerShape' /\ live.block \in Path
      BY <1>8 DEF PersistHead, HandlerShape, HandlerRun
    <2>2. IndexShape'
      <3>1. CASE live.block \in blocks
        BY <1>8, <3>1, IndexFrame DEF PersistHead
      <3>2. CASE live.block \notin blocks
        <4>1. /\ Storable(live.block)
              /\ blocks' = blocks \cup {live.block}
              /\ DOMAIN sync' = DOMAIN sync /\ sync'.tip = live.block
          BY <1>8, <3>2 DEF PersistHead, Stored, IndexedTo, IndexShape
        <4> QED
          BY <2>1, <3>2, <4>1, StoringKeepsIndex
      <3> QED
        BY <3>1, <3>2
    <2> QED
      BY <1>8, <2>1, <2>2, NodeFrame, CatchUpFrame DEF PersistHead
  <1>9. CASE HeadStored
    <2>1. HandlerShape'
      BY <1>9 DEF HeadStored, HandlerShape, HandlerRun
    <2>2. DOMAIN sync' = DOMAIN sync /\ sync'.tip = sync.tip
      BY <1>9 DEF HeadStored, IndexShape
    <2> QED
      BY <1>9, <2>1, <2>2, NodeFrame, CatchUpFrame, IndexFrame DEF HeadStored
  <1>10. CASE \E kind \in {"transient", "permanent"} : HeadFails(kind)
    <2>1. PICK kind \in {"transient", "permanent"} : HeadFails(kind)
      BY <1>10
    <2>2. live.pc # "idle"
      BY <2>1 DEF HeadFails, HeadError
    <2>3. HandlerShape'
      BY <2>1, <2>2 DEF HeadFails, HandlerShape, HandlerRun, Results
    <2> QED
      BY <2>1, <2>3, NodeFrame, CatchUpFrame, SyncFrame DEF HeadFails
  <1>11. CASE HeadCaughtUp
    <2>1. HandlerShape'
      BY <1>11 DEF HeadCaughtUp, HandlerShape, HandlerRun, Results
    <2> QED
      BY <1>11, <2>1, NodeFrame, CatchUpFrame, IndexFrame DEF HeadCaughtUp, dbVars
  <1>12. CASE DrainHeads
    <2>1. CatchUpShape'
      BY <1>12, CatchUpFrame, CalledKeepsShape DEF DrainHeads
    <2>2. HandlerShape'
      BY <1>12, IdleFacts DEF DrainHeads, HandlerShape, HandlerRun
    <2> QED
      BY <1>12, <2>1, <2>2, NodeFrame, IndexFrame DEF DrainHeads, dbVars
  <1> QED
    BY <1>1, <1>2, <1>3, <1>4, <1>5, <1>6, <1>7, <1>8, <1>9, <1>10, <1>11, <1>12 DEF Handler

LEMMA PassStep ==
    ASSUME IInv, TrailingPass
    PROVE  IInv'
  <1> USE DEF IInv
  <1>1. CASE PassReads \/ PassSelects \/ PassDecodes
    BY <1>1, NodeFrame, CatchUpFrame, HandlerFrame, IndexFrame
       DEF PassReads, PassSelects, PassDecodes, dbVars, crawlerVars
  <1>2. CASE PassAdvances
    BY <1>2, NodeFrame, CatchUpFrame, HandlerFrame, SyncFrame DEF PassAdvances, crawlerVars
  <1> QED
    BY <1>1, <1>2 DEF TrailingPass

LEMMA FreshKeepsShape ==
    ASSUME FreshCrawler
    PROVE  CatchUpShape' /\ HandlerShape'
  BY IdleFacts DEF FreshCrawler, CatchUpShape, HandlerShape

LEMMA EnvironmentStep ==
    ASSUME IInv, Environment
    PROVE  IInv'
  <1> USE DEF IInv
  <1>0. Height(tip) \in Nat /\ Len(tip) = Height(tip) + 1 /\ tip \in Seq(Nat)
    BY PathFacts DEF NodeShape, Height, Path
  <1>1. CASE NewBlock
    <2>1. tip' = Append(tip, reorgs) /\ tip' \in Seq(Nat) /\ Len(tip') = Len(tip) + 1
      BY <1>0, <1>1 DEF NewBlock, NodeShape
    <2>2. tip' # << >>
      BY <1>0, <2>1, EmptySeq
    <2>3. NodeShape'
      BY <1>0, <1>1, <2>1, <2>2, HeightsFacts DEF NewBlock, NodeShape, Path, Null, Height
    <2> QED
      BY <1>1, <2>3, CatchUpFrame, HandlerFrame, IndexFrame DEF NewBlock, dbVars, crawlerVars
  <1>2. CASE \E h \in Heights, n \in 1..2 : NodeReorg(h, n)
    <2>1. PICK h \in Heights, n \in 1..2 : NodeReorg(h, n)
      BY <1>2
    <2>2. h \in 0..Height(tip) /\ h \in Nat
      BY <1>0, <2>1, HeightsFacts DEF NodeReorg
    <2>3. Ancestor(tip, h) \in Seq(Nat) /\ Len(Ancestor(tip, h)) = h + 1
      <3>1. Ancestor(tip, h) \in Path /\ Height(Ancestor(tip, h)) = h
        BY <2>2, AncestorFacts DEF NodeShape
      <3> QED
        BY <2>2, <3>1, PathFacts DEF Path, Height
    <2> DEFINE new == [i \in 1..n |-> reorgs + 1]
    <2>4. new \in Seq(Nat) /\ Len(new) = n
      BY DEF NodeShape
    <2>5. tip' = Ancestor(tip, h) \o new
      BY <2>1 DEF NodeReorg
    <2> HIDE DEF new
    <2>6. tip' \in Seq(Nat) /\ Len(tip') = h + 1 + n
      BY <2>3, <2>4, <2>5, ConcatProperties
    <2>7. tip' # << >>
      BY <2>2, <2>6, EmptySeq
    <2>8. NodeShape'
      BY <2>1, <2>2, <2>6, <2>7, HeightsFacts DEF NodeReorg, NodeShape, Path, Null, Height
    <2> QED
      BY <2>1, <2>8, CatchUpFrame, HandlerFrame, IndexFrame DEF NodeReorg, dbVars, crawlerVars
  <1>3. CASE \E b \in Announced : HeadArrives(b)
    <2>1. PICK b \in Announced : HeadArrives(b)
      BY <1>3
    <2>2. b \in Path
      BY <1>0, CanonicalFacts, HeightsFacts DEF Announced
    <2>3. CASE live' = [IdleLive EXCEPT !.pc = "head", !.head = b]
      <3>1. HandlerShape'
        BY <2>2, <2>3, IdleFacts DEF HandlerShape, HandlerRun
      <3> QED
        BY <2>1, <3>1, NodeFrame, CatchUpFrame, IndexFrame DEF HeadArrives, dbVars
    <2>4. CASE live' = live
      BY <2>1, <2>4, HandlerFrame, NodeFrame, CatchUpFrame, IndexFrame DEF HeadArrives, dbVars
    <2> QED
      BY <2>1, <2>3, <2>4 DEF HeadArrives
  <1>4. CASE ConnectionLost \/ Reconnected
    BY <1>4, NodeFrame, CatchUpFrame, HandlerFrame, IndexFrame
       DEF ConnectionLost, Reconnected, dbVars, crawlerVars
  <1>5. CASE Restart
    BY <1>5, NodeFrame, FreshKeepsShape, SyncFrame DEF Restart
  <1>6. CASE \E h \in Heights : ReindexFromHeight(h)
    <2>1. PICK h \in Heights : ReindexFromHeight(h)
      BY <1>6
    <2>2. IndexShape'
      BY <2>1, HeightsFacts, RollbackKeepsIndex DEF ReindexFromHeight
    <2> QED
      BY <2>1, <2>2, NodeFrame, FreshKeepsShape DEF ReindexFromHeight
  <1>7. CASE \E h \in Heights : RedecodeFromHeight(h)
    <2>1. PICK h \in Heights : RedecodeFromHeight(h)
      BY <1>7
    <2> QED
      BY <2>1, NodeFrame, CatchUpFrame, HandlerFrame, SyncFrame DEF RedecodeFromHeight, crawlerVars
  <1> QED
    BY <1>1, <1>2, <1>3, <1>4, <1>5, <1>6, <1>7 DEF Environment

\* The invariant is inductive.
LEMMA NextIInv == StartsAtGenesis /\ IInv /\ [Next]_vars => IInv'
  <1> SUFFICES ASSUME StartsAtGenesis, IInv, [Next]_vars PROVE IInv'
    OBVIOUS
  <1>1. CASE UNCHANGED vars
    BY <1>1, NodeFrame, CatchUpFrame, HandlerFrame, IndexFrame DEF IInv, vars, dbVars, crawlerVars
  <1>2. CASE Next
    BY <1>2, CatchUpStep, PipelineStep, HandlerStep, PassStep, EnvironmentStep DEF Next
  <1> QED
    BY <1>1, <1>2

LEMMA IInvImpliesIndexIsChain == StartsAtGenesis /\ IInv => IndexIsChain
  <1> SUFFICES ASSUME StartsAtGenesis, IInv PROVE IndexIsChain
    OBVIOUS
  <1>1. 0 \in {0, StartHeight - 1} \cap Nat
    OBVIOUS
  <1> QED
    BY <1>1 DEF IInv, IndexShape, IndexIsChain, Chain

-----------------------------------------------------------------------------
\* The stored blocks are one unbroken chain from genesis to the tip in SyncState, for chains of any
\* length and any number of forks, lost connections, restarts, failing calls and prefetched blocks
\* (persistFromNode, rollbackIndexedDataFromHeight). It asks that nothing is skipped at the start: with a
\* higher start height the head of genesis, which is stored without a parent check, can break it.
THEOREM IndexIsChainAlways ==
    ASSUME StartsAtGenesis
    PROVE  Spec => []IndexIsChain
  <1>1. IInv /\ [Next]_vars => IInv'
    BY NextIInv
  <1>2. IInv => IndexIsChain
    BY IInvImpliesIndexIsChain
  <1> QED
    BY <1>1, <1>2, InitIInv, PTL DEF Spec

-----------------------------------------------------------------------------
(* The crawler implements ChainIndex. Two kinds of steps touch the index,  *)
(* storing a block and rolling back; each is a step of the abstract index  *)
(* because, by the invariant above, the stored blocks are the tip and its  *)
(* ancestors. All other steps leave it alone.                              *)

\* A step of the abstract index, or none.
IndexStep == [Index!IndexNext]_(Index!indexVars)

\* What most steps do: other fields of the SyncState row.
IndexUntouched == blocks' = blocks /\ gen' = gen /\ sync'.tip = sync.tip

LEMMA UntouchedStep == IndexUntouched => IndexStep
  BY DEF IndexUntouched, IndexStep, Index!indexVars

\* Other fields of the row leave its tip alone.
LEMMA TipKept ==
    ASSUME IndexShape, NEW x,
           \/ sync' = sync
           \/ sync' = [sync EXCEPT !.status = x]
           \/ sync' = [sync EXCEPT !.cursor = x]
           \/ sync' = ErrorRecorded(sync, x)
    PROVE  sync'.tip = sync.tip
  BY DEF IndexShape, ErrorRecorded

\* A block that can be stored and is not stored yet is a child of the tip.
LEMMA StoringExtends ==
    ASSUME IndexShape, NEW b \in Path, b \notin blocks, Storable(b),
           blocks' = blocks \cup {b}, sync'.tip = b, gen' = gen
    PROVE  IndexStep
  <1>1. blocks = {} \/ Parent(b) = sync.tip
    <2>1. SUFFICES ASSUME blocks # {} PROVE Parent(b) = sync.tip
      OBVIOUS
    <2>2. sync.tip \in Path /\ blocks = Chain(sync.tip)
      BY <2>1 DEF IndexShape
    <2>3. \A c \in blocks : Height(c) # Height(b)
      BY DEF Storable, BlocksAt
    <2>4. Height(sync.tip) \in Nat /\ Height(b) \in Nat
      BY <2>2, PathFacts
    <2>5. Height(b) \notin 0..Height(sync.tip)
      BY <2>2, <2>3, ChainFacts
    <2>6. Height(b) # 0 /\ Parent(b) \in Chain(sync.tip)
      BY <2>2, <2>4, <2>5 DEF Storable
    <2>7. Height(Parent(b)) = Height(b) - 1
      BY <2>6, ParentFacts, AncestorFacts
    <2>8. Height(Parent(b)) \in 0..Height(sync.tip) /\ Parent(b) = Ancestor(sync.tip, Height(Parent(b)))
      BY <2>2, <2>6, ChainFacts
    <2>9. Height(Parent(b)) = Height(sync.tip)
      BY <2>4, <2>5, <2>7, <2>8
    <2> QED
      BY <2>2, <2>8, <2>9, PathFacts
  <1>2. Index!Extend
    BY <1>1 DEF Index!Extend
  <1> QED
    BY <1>2 DEF IndexStep, Index!IndexNext

\* A rollback removes the upper end.
LEMMA RollbackTruncates ==
    ASSUME IndexShape, NEW from \in Nat, NEW status, RolledBack(from, status)
    PROVE  IndexStep
  <1> DEFINE kept == {b \in blocks : Height(b) < from}
             top  == IF kept = {} THEN Null
                     ELSE CHOOSE b \in kept : \A c \in kept : Height(c) <= Height(b)
  <1>1. gen' = gen + 1
    BY DEF RolledBack
  <1>2. CASE kept = blocks
    <2>1. blocks' = blocks /\ sync'.tip = sync.tip
      BY <1>2 DEF RolledBack
    <2>2. CASE sync.tip = Null
      BY <1>1, <2>1, <2>2 DEF IndexShape, IndexStep, Index!IndexNext, Index!Truncate
    <2>3. CASE sync.tip # Null
      <3>1. sync.tip \in Path /\ blocks = Chain(sync.tip)
        BY <2>3 DEF IndexShape
      <3>2. sync.tip \in blocks /\ \A c \in blocks : Height(c) <= Height(sync.tip)
        BY <3>1, ChainFacts, PathFacts
      <3>3. blocks' = {b \in blocks : Height(b) <= Height(sync'.tip)}
        BY <2>1, <3>2
      <3> QED
        BY <1>1, <2>1, <3>2, <3>3 DEF IndexStep, Index!IndexNext, Index!Truncate
    <2> QED
      BY <2>2, <2>3
  <1>3. CASE kept # blocks
    <2>1. blocks' = kept /\ sync'.tip = top
      BY <1>3 DEF RolledBack, IndexShape
    <2>2. sync.tip \in Path /\ blocks = Chain(sync.tip)
      BY <1>3 DEF IndexShape
    <2>3. CASE kept = {}
      BY <1>1, <2>1, <2>3 DEF IndexStep, Index!IndexNext, Index!Truncate
    <2>4. CASE kept # {}
      <3>1. kept = {c \in Chain(sync.tip) : Height(c) < from}
        BY <2>2
      <3>2. top = CHOOSE b \in kept : \A c \in kept : Height(c) <= Height(b)
        BY <2>4
      <3>3. kept # Chain(sync.tip)
        BY <1>3, <2>2
      <3>4. kept \subseteq blocks /\ \A b \in blocks : Height(b) < from => b \in kept
        OBVIOUS
      <3>5. \A b \in kept : Height(b) < from /\ Height(b) \in Nat
        BY <2>2, <3>4, ChainFacts, PathFacts
      <3> HIDE DEF top, kept
      <3>6. /\ \E b \in kept : \A c \in kept : Height(c) <= Height(b)
            /\ \A b \in kept : (\A c \in kept : Height(c) <= Height(b)) =>
                  b \in Path /\ kept = Chain(b)
        BY <2>2, <2>4, <3>1, <3>3, ChainCut
      <3>7. top \in kept /\ \A c \in kept : Height(c) <= Height(top)
        BY <3>2, <3>6
      <3>8. \A b \in blocks : Height(b) <= Height(top) => b \in kept
        <4>1. \A b \in blocks : Height(b) \in Nat
          BY <2>2, ChainFacts, PathFacts
        <4> QED
          BY <3>4, <3>5, <3>7, <4>1
      <3>9. kept = {b \in blocks : Height(b) <= Height(top)}
        BY <3>4, <3>7, <3>8
      <3> QED
        BY <1>1, <2>1, <3>4, <3>7, <3>9 DEF IndexStep, Index!IndexNext, Index!Truncate
    <2> QED
      BY <2>3, <2>4
  <1> QED
    BY <1>2, <1>3

-----------------------------------------------------------------------------
(* Every step of the crawler is a step of the index. *)

LEMMA CatchUpIndexStep ==
    ASSUME IInv, StartsAtGenesis, CatchUp
    PROVE  IndexStep
  <1> USE DEF IInv
  <1>1. CASE ReadStart
    BY <1>1, UntouchedStep DEF ReadStart, dbVars, IndexUntouched
  <1>2. CASE ReadFinalizedHead
    <2>1. sync' = sync \/ sync' = [sync EXCEPT !.status = "syncing"]
      BY <1>2 DEF ReadFinalizedHead
    <2> QED
      BY <1>2, <2>1, TipKept, UntouchedStep DEF ReadFinalizedHead, IndexUntouched
  <1>3. CASE SeedStartHeight
    <2>1. CASE UNCHANGED <<blocks, sync>>
      BY <1>3, <2>1, UntouchedStep DEF SeedStartHeight, IndexUntouched
    <2>2. CASE /\ blocks = {} /\ StartHeight - 1 <= Height(tip)
               /\ Stored(Canonical(StartHeight - 1))
      <3>1. StartHeight = 1
        BY <1>3 DEF StartsAtGenesis, SeedStartHeight, CatchUpShape
      <3>2. Canonical(0) \in Path /\ Height(Canonical(0)) = 0
        BY <2>2, <3>1, CanonicalFacts
      <3>3. Storable(Canonical(0)) /\ Canonical(0) \notin blocks
        BY <2>2, <3>2 DEF Storable, BlocksAt
      <3>4. blocks' = blocks \cup {Canonical(0)} /\ sync'.tip = Canonical(0) /\ gen' = gen
        BY <1>3, <2>2, <3>1 DEF Stored, IndexedTo, IndexShape, SeedStartHeight
      <3> QED
        BY <3>2, <3>3, <3>4, StoringExtends
    <2> QED
      BY <1>3, <2>1, <2>2 DEF SeedStartHeight
  <1>4. CASE \/ \E kind \in {"transient", "permanent"} : CatchUpFails(kind)
             \/ \E h \in Heights : FetchBlock(h)
             \/ \E h \in Heights : \E kind \in Faults : FetchFails(h, kind)
             \/ CatchUpDone
    BY <1>4, UntouchedStep DEF CatchUpFails, FetchBlock, FetchFails, CatchUpDone, dbVars, IndexUntouched
  <1>5. CASE PersistNext
    <2>1. CASE blocks' = blocks /\ sync' \in ErrorsReset(sync)
      <3>1. sync'.tip = sync.tip
        BY <2>1 DEF ErrorsReset, IndexShape
      <3> QED
        BY <1>5, <2>1, <3>1, UntouchedStep DEF PersistNext, IndexUntouched
    <2>2. CASE LET b == cu.prep[cu.next].block IN
               /\ cu.prep[cu.next].kind = "new" /\ Storable(b) /\ b \notin blocks
               /\ blocks' = blocks \cup {b}
               /\ sync' \in ErrorsReset(IndexedTo(b))
      <3> DEFINE b == cu.prep[cu.next].block
      <3>1. cu.next \in Heights
        BY <1>5, HeightsFacts DEF PersistNext, CatchUpShape, CatchUpRun
      <3>2. b \in Path
        BY <2>2, <3>1 DEF CatchUpShape
      <3>3. sync'.tip = b
        BY <2>2 DEF ErrorsReset, IndexedTo, IndexShape
      <3>4. gen' = gen
        BY <1>5 DEF PersistNext
      <3> QED
        BY <2>2, <3>2, <3>3, <3>4, StoringExtends
    <2> QED
      BY <1>5, <2>1, <2>2 DEF PersistNext
  <1>6. CASE BatchFails
    BY <1>6, TipKept, UntouchedStep DEF BatchFails, IndexUntouched
  <1> QED
    BY <1>1, <1>2, <1>3, <1>4, <1>5, <1>6 DEF CatchUp

LEMMA PipelineIndexStep ==
    ASSUME IInv, Pipeline \/ RedriveTimer
    PROVE  IndexStep
  <1> USE DEF IInv
  <1>1. CASE PipeCatchUp \/ PipeResumes \/ SubscribeLive \/ (\E kind \in Faults : SubscribeFails(kind))
             \/ PipeDone \/ RedriveTimer
    BY <1>1, UntouchedStep DEF PipeCatchUp, PipeResumes, SubscribeLive, SubscribeFails, PipeDone,
                               RedriveTimer, dbVars, IndexUntouched
  <1>2. CASE MarkSynced
    BY <1>2, TipKept, UntouchedStep DEF MarkSynced, IndexUntouched
  <1>3. CASE PipeFails
    BY <1>3, TipKept, UntouchedStep DEF PipeFails, IndexUntouched
  <1> QED
    BY <1>1, <1>2, <1>3 DEF Pipeline

LEMMA HandlerIndexStep ==
    ASSUME IInv, Handler
    PROVE  IndexStep
  <1> USE DEF IInv
  <1>1. CASE ReadHead \/ CheckForReorg \/ CompareWithNode \/ FindForkPoint \/ ReindexBranch \/ FetchHead
             \/ HeadCaughtUp \/ DrainHeads
    BY <1>1, UntouchedStep DEF ReadHead, CheckForReorg, CompareWithNode, FindForkPoint, ReindexBranch,
                               FetchHead, HeadCaughtUp, DrainHeads, dbVars, IndexUntouched
  <1>2. CASE HandleReorg
    <2>1. live.from \in Nat
      BY <1>2 DEF HandleReorg, HandlerShape, HandlerRun
    <2> QED
      BY <1>2, <2>1, RollbackTruncates DEF HandleReorg
  <1>3. CASE PersistHead
    <2>1. live.block \in Path
      BY <1>3 DEF PersistHead, HandlerShape
    <2>2. CASE live.block \in blocks
      BY <1>3, <2>2, UntouchedStep DEF PersistHead, IndexUntouched
    <2>3. CASE live.block \notin blocks
      <3>1. /\ Storable(live.block) /\ gen' = gen
            /\ blocks' = blocks \cup {live.block} /\ sync'.tip = live.block
        BY <1>3, <2>3 DEF PersistHead, Stored, IndexedTo, IndexShape
      <3> QED
        BY <2>1, <2>3, <3>1, StoringExtends
    <2> QED
      BY <2>2, <2>3
  <1>4. CASE HeadStored
    <2>1. sync'.tip = sync.tip
      BY <1>4 DEF HeadStored, IndexShape
    <2> QED
      BY <1>4, <2>1, UntouchedStep DEF HeadStored, IndexUntouched
  <1>5. CASE \E kind \in {"transient", "permanent"} : HeadFails(kind)
    BY <1>5, TipKept, UntouchedStep DEF HeadFails, IndexUntouched
  <1> QED
    BY <1>1, <1>2, <1>3, <1>4, <1>5 DEF Handler

LEMMA PassIndexStep ==
    ASSUME IInv, TrailingPass
    PROVE  IndexStep
  <1> USE DEF IInv
  <1>1. CASE PassReads \/ PassSelects \/ PassDecodes
    BY <1>1, UntouchedStep DEF PassReads, PassSelects, PassDecodes, dbVars, IndexUntouched
  <1>2. CASE PassAdvances
    BY <1>2, TipKept, UntouchedStep DEF PassAdvances, IndexUntouched
  <1> QED
    BY <1>1, <1>2 DEF TrailingPass

LEMMA EnvironmentIndexStep ==
    ASSUME IInv, Environment
    PROVE  IndexStep
  <1> USE DEF IInv
  <1>1. CASE \/ NewBlock \/ (\E b \in Announced : HeadArrives(b)) \/ ConnectionLost \/ Reconnected
             \/ \E h \in Heights, n \in 1..2 : NodeReorg(h, n)
    BY <1>1, UntouchedStep DEF NewBlock, HeadArrives, ConnectionLost, Reconnected, NodeReorg, dbVars,
                               IndexUntouched
  <1>2. CASE Restart
    BY <1>2, TipKept, UntouchedStep DEF Restart, IndexUntouched
  <1>3. CASE \E h \in Heights : ReindexFromHeight(h)
    BY <1>3, HeightsFacts, RollbackTruncates DEF ReindexFromHeight
  <1>4. CASE \E h \in Heights : RedecodeFromHeight(h)
    BY <1>4, TipKept, UntouchedStep DEF RedecodeFromHeight, IndexUntouched
  <1> QED
    BY <1>1, <1>2, <1>3, <1>4 DEF Environment

LEMMA NextIndexStep == StartsAtGenesis /\ IInv /\ [Next]_vars => IndexStep
  <1> SUFFICES ASSUME StartsAtGenesis, IInv, [Next]_vars PROVE IndexStep
    OBVIOUS
  <1>1. CASE UNCHANGED vars
    BY <1>1, UntouchedStep DEF vars, dbVars, IndexUntouched
  <1>2. CASE Next
    BY <1>2, CatchUpIndexStep, PipelineIndexStep, HandlerIndexStep, PassIndexStep, EnvironmentIndexStep
       DEF Next
  <1> QED
    BY <1>1, <1>2

-----------------------------------------------------------------------------
\* The crawler implements the index it promises its readers, for chains of any length and any number of
\* forks, losses, restarts and prefetched blocks: a stored block is a child of the tip, and blocks go only
\* at the upper end and only with a new reorg generation (persistFromNode, rollbackIndexedDataFromHeight).
\* As for IndexIsChainAlways nothing is skipped at the start.
THEOREM CrawlerImplementsIndex ==
    ASSUME StartsAtGenesis
    PROVE  Spec => IndexPromise
  <1>1. Init => Index!IndexInit
    BY DEF Init, Index!IndexInit
  <1>2. IInv /\ [Next]_vars => IInv'
    BY NextIInv
  <1>3. IInv /\ [Next]_vars => [Index!IndexNext]_(Index!indexVars)
    BY NextIndexStep DEF IndexStep
  <1> QED
    BY <1>1, <1>2, <1>3, InitIInv, PTL DEF Spec, IndexPromise, Index!IndexSpec

-----------------------------------------------------------------------------
(* The trailing pass: the inductive invariant. *)

\* The cursor is behind the recorded tip; None is below every height.
CursorBehind == sync.cursor \in Int /\ sync.cursor >= None /\ sync.cursor <= IndexedHeight

\* A pass in flight since whose start nothing was rolled back.
PassIsCurrent == pass.pc # "idle" /\ gen = pass.gen

\* Its window is indexed, and the cursor was only lowered since (redecodeFromHeight).
WindowIsIndexed ==
    PassIsCurrent =>
        /\ pass.cursor \in Int /\ pass.cursor >= None /\ sync.cursor <= pass.cursor
        /\ pass.ceiling \in Nat /\ pass.ceiling <= IndexedHeight

\* While the cursor is where the pass found it, the pass has worked on, or has yet to work on, every
\* stored block of the window it selected.
SelectionCovers ==
    (PassIsCurrent /\ pass.pc \in {"decode", "advance"} /\ sync.cursor = pass.cursor) =>
        \A b \in blocks :
           (Height(b) \in 1..pass.ceiling /\ Height(b) >= PassFrom) => b \in decoded \cup pass.todo

PassShape ==
    /\ DOMAIN pass = {"pc", "cursor", "gen", "ceiling", "todo"}
    /\ gen \in Nat /\ pass.gen \in Nat /\ pass.gen <= gen
    /\ pass.pc \in {"select", "advance"} => pass.todo = {}

PInv == PassShape /\ CursorBehind /\ WindowIsIndexed /\ SelectionCovers /\ PassCoversIndex

LEMMA InitPInv == Init => PInv
  BY DEF Init, PInv, PassShape, CursorBehind, PassIsCurrent, WindowIsIndexed, SelectionCovers,
         PassCoversIndex, IdlePass, None, IndexedHeight

\* What the invariant speaks of: the index, what the pass has done, the generation and the cursor.
RowsKept ==
    /\ UNCHANGED <<blocks, decoded, gen>>
    /\ sync'.tip = sync.tip /\ sync'.cursor = sync.cursor

\* A step that leaves all that alone, and the pass too or drops it.
LEMMA PassFrame ==
    ASSUME PInv, RowsKept, pass' = pass \/ pass' = IdlePass
    PROVE  PInv'
  <1>1. CASE pass' = pass
    BY <1>1 DEF PInv, RowsKept, PassShape, CursorBehind, PassIsCurrent, WindowIsIndexed, SelectionCovers,
                PassCoversIndex, IndexedHeight, PassFrom
  <1>2. CASE pass' = IdlePass
    BY <1>2 DEF PInv, RowsKept, PassShape, CursorBehind, PassIsCurrent, WindowIsIndexed, SelectionCovers,
                PassCoversIndex, IndexedHeight, IdlePass
  <1> QED
    BY <1>1, <1>2

\* Other fields of the SyncState row.
LEMMA CursorKept ==
    ASSUME IndexShape, NEW x,
           \/ sync' = sync
           \/ sync' = [sync EXCEPT !.status = x]
           \/ sync' = ErrorRecorded(sync, x)
    PROVE  sync'.tip = sync.tip /\ sync'.cursor = sync.cursor
  BY DEF IndexShape, ErrorRecorded

\* A block that is stored lies above the recorded tip; only genesis, in an empty index, does not.
LEMMA StoredAbove ==
    ASSUME IndexShape, NEW b \in Path, b \notin blocks, Storable(b)
    PROVE  /\ Height(b) \in Nat /\ IndexedHeight \in Nat
           /\ IF blocks = {} THEN Height(b) = 0 /\ IndexedHeight = 0 ELSE Height(b) > IndexedHeight
  <1>1. Height(b) \in Nat
    BY PathFacts
  <1>2. CASE sync.tip = Null
    BY <1>1, <1>2 DEF IndexShape, Storable, IndexedHeight
  <1>3. CASE sync.tip # Null
    <2>1. sync.tip \in Path /\ blocks = Chain(sync.tip)
      BY <1>3 DEF IndexShape
    <2>2. Height(sync.tip) \in Nat /\ sync.tip \in blocks
      BY <2>1, PathFacts, ChainFacts
    <2>3. \A c \in blocks : Height(c) # Height(b)
      BY DEF Storable, BlocksAt
    <2>4. Height(b) \notin 0..Height(sync.tip)
      BY <2>1, <2>3, ChainFacts
    <2> QED
      BY <1>1, <1>3, <2>2, <2>4 DEF IndexedHeight
  <1> QED
    BY <1>2, <1>3

\* Storing a block: no window and no cursor reaches it.
LEMMA StoringKeepsPass ==
    ASSUME IndexShape, PInv, NEW b \in Path, b \notin blocks, Storable(b),
           blocks' = blocks \cup {b}, sync'.tip = b, sync'.cursor = sync.cursor,
           UNCHANGED <<decoded, gen, pass>>
    PROVE  PInv'
  <1>1. /\ Height(b) \in Nat /\ IndexedHeight \in Nat
        /\ Height(b) = 0 \/ Height(b) > IndexedHeight
        /\ Height(b) >= IndexedHeight
    BY StoredAbove
  <1>2. IndexedHeight' = Height(b)
    BY DEF IndexedHeight, Path
  <1>3. PassShape' /\ CursorBehind' /\ WindowIsIndexed'
    BY <1>1, <1>2 DEF PInv, PassShape, CursorBehind, WindowIsIndexed, PassIsCurrent
  <1>4. PassCoversIndex'
    BY <1>1 DEF PInv, PassCoversIndex, CursorBehind
  <1>5. SelectionCovers'
    BY <1>1 DEF PInv, SelectionCovers, WindowIsIndexed, PassIsCurrent, PassFrom
  <1> QED
    BY <1>3, <1>4, <1>5 DEF PInv

\* A rollback pulls the cursor back to the blocks that stay, and no pass in flight is current any more.
LEMMA RollbackKeepsPass ==
    ASSUME IndexShape, PInv, NEW from \in Nat, NEW status, RolledBack(from, status),
           NEW S, pass' = [pass EXCEPT !.todo = pass.todo \cap S] \/ pass' = IdlePass
    PROVE  PInv'
  <1> DEFINE kept == {b \in blocks : Height(b) < from}
             top  == IF kept = {} THEN Null
                     ELSE CHOOSE b \in kept : \A c \in kept : Height(c) <= Height(b)
             fork == IF top = Null THEN 0 ELSE Height(top)
  <1>1. gen' = gen + 1
    BY DEF RolledBack
  <1>2. PassShape' /\ ~PassIsCurrent'
    BY <1>1 DEF PInv, PassShape, PassIsCurrent, IdlePass
  <1>3. WindowIsIndexed' /\ SelectionCovers'
    BY <1>2 DEF WindowIsIndexed, SelectionCovers
  <1>4. CursorBehind' /\ PassCoversIndex'
    <2>1. CASE kept = blocks
      BY <2>1 DEF RolledBack, PInv, CursorBehind, PassCoversIndex, IndexedHeight
    <2>2. CASE kept # blocks
      <3>1. /\ blocks' = kept /\ decoded' = decoded \cap kept
            /\ sync'.tip = top
            /\ sync'.cursor = IF sync.cursor = None THEN None ELSE LeastOf(sync.cursor, fork)
        BY <2>2 DEF RolledBack, IndexShape
      <3>2. IndexShape'
        BY RollbackKeepsIndex
      <3>3. fork = IndexedHeight'
        BY <3>1 DEF IndexedHeight
      <3>4. IndexedHeight' \in Nat
        BY <3>2, PathFacts DEF IndexShape, IndexedHeight
      <3> HIDE DEF fork, top
      <3>5. /\ CursorBehind'
            /\ sync'.cursor <= sync.cursor /\ sync'.cursor \in Int /\ sync.cursor \in Int
        BY <3>1, <3>3, <3>4 DEF PInv, CursorBehind, LeastOf, None
      <3>6. \A b \in kept : b \in blocks
        OBVIOUS
      <3> HIDE DEF kept
      <3>7. PassCoversIndex'
        BY <3>1, <3>5, <3>6 DEF PInv, PassCoversIndex
      <3> QED
        BY <3>5, <3>7
    <2> QED
      BY <2>1, <2>2
  <1> QED
    BY <1>2, <1>3, <1>4 DEF PInv

-----------------------------------------------------------------------------
(* Selecting the oldest blocks of a window. *)

\* In a window of the index, as many blocks lie below a block as its height is above the window's start.
LEMMA BlocksBelow ==
    ASSUME NEW t \in Path, NEW lo \in Nat, NEW hi \in 0..Height(t),
           NEW range, range = {b \in Chain(t) : Height(b) \in lo..hi},
           NEW b \in range
    PROVE  Cardinality({c \in range : Height(c) < Height(b)}) = Height(b) - lo
  <1> DEFINE below == {c \in range : Height(c) < Height(b)}
             f == [h \in lo..(Height(b) - 1) |-> Ancestor(t, h)]
  <1>1. Height(t) \in Nat /\ Height(b) \in lo..hi
    BY PathFacts
  <1>2. \A h \in lo..(Height(b) - 1) : h \in 0..Height(t) /\ h \in lo..hi
    BY <1>1
  <1>3. \A h \in lo..(Height(b) - 1) : Ancestor(t, h) \in below /\ Height(Ancestor(t, h)) = h
    BY <1>1, <1>2, ChainFacts
  <1>4. \A c \in below : Height(c) \in lo..(Height(b) - 1) /\ c = Ancestor(t, Height(c))
    BY <1>1, ChainFacts
  <1> HIDE DEF below
  <1>5. f \in Bijection(lo..(Height(b) - 1), below)
    <2>1. f \in [lo..(Height(b) - 1) -> below]
      BY <1>3
    <2>2. \A g, h \in lo..(Height(b) - 1) : f[g] = f[h] => g = h
      BY <1>3
    <2>3. \A c \in below : \E h \in lo..(Height(b) - 1) : f[h] = c
      BY <1>4
    <2> HIDE DEF f
    <2> QED
      BY <2>1, <2>2, <2>3, Fun_IsBij
  <1>6. IsFiniteSet(lo..(Height(b) - 1)) /\ Cardinality(lo..(Height(b) - 1)) = Height(b) - lo
    <2>1. /\ lo \in Int /\ Height(b) - 1 \in Int /\ lo <= Height(b)
          /\ (Height(b) - 1) - lo + 1 = Height(b) - lo
          /\ lo > Height(b) - 1 => Height(b) - lo = 0
      BY <1>1
    <2> QED
      BY <2>1, FS_Interval
  <1>7. Cardinality(below) = Height(b) - lo
    BY <1>5, <1>6, FS_Bijection DEF ExistsBijection
  <1> QED
    BY <1>7 DEF below

\* What blocksInRange selects of the heights from lo to hi.
InRange(lo, hi) == {b \in blocks : Height(b) \in lo..hi}
OldestIn(range) == {b \in range : Cardinality({c \in range : Height(c) < Height(b)}) < PassBatch}
HighestOf(S) == CHOOSE h \in {Height(b) : b \in S} : \A b \in S : Height(b) <= h

\* The oldest blocks of a window are all its blocks up to the highest of them.
LEMMA OldestAreLowest ==
    ASSUME IndexShape, NEW lo \in Nat, NEW hi \in Nat, hi <= IndexedHeight, InRange(lo, hi) # {}
    PROVE  /\ HighestOf(OldestIn(InRange(lo, hi))) \in Nat
           /\ HighestOf(OldestIn(InRange(lo, hi))) <= hi
           /\ \A b \in InRange(lo, hi) :
                 Height(b) <= HighestOf(OldestIn(InRange(lo, hi))) => b \in OldestIn(InRange(lo, hi))
  <1> DEFINE t == sync.tip
             range == InRange(lo, hi)
             oldest == OldestIn(range)
             top == HighestOf(oldest)
             last == LeastOf(hi, lo + PassBatch - 1)
  <1>0. /\ range = {b \in blocks : Height(b) \in lo..hi} /\ range # {}
        /\ oldest = {b \in range : Cardinality({c \in range : Height(c) < Height(b)}) < PassBatch}
        /\ top = CHOOSE h \in {Height(b) : b \in oldest} : \A b \in oldest : Height(b) <= h
    BY DEF InRange, OldestIn, HighestOf
  <1>1. t \in Path /\ blocks = Chain(t) /\ hi \in 0..Height(t)
    <2>1. blocks # {}
      BY <1>0
    <2> QED
      BY <2>1, PathFacts DEF IndexShape, IndexedHeight
  <1>2. PassBatch \in Nat \ {0}
    BY CrawlerAssumption
  <1> HIDE DEF range, oldest, top
  <1>3. \A b \in range : Height(b) \in lo..hi /\ b \in Chain(t)
    BY <1>0, <1>1
  <1>4. last \in lo..hi /\ last <= lo + PassBatch - 1
    BY <1>0, <1>2, <1>3 DEF LeastOf
  <1>5. \A b \in range : b \in oldest <=> Height(b) <= last
    <2> TAKE b \in range
    <2>1. Cardinality({c \in range : Height(c) < Height(b)}) = Height(b) - lo
      BY <1>0, <1>1, BlocksBelow
    <2>2. b \in oldest <=> Height(b) - lo < PassBatch
      BY <1>0, <2>1
    <2> QED
      BY <1>2, <1>3, <2>2 DEF LeastOf
  <1>6. Ancestor(t, last) \in range /\ Height(Ancestor(t, last)) = last
    <2>1. last \in 0..Height(t)
      BY <1>1, <1>4, PathFacts
    <2> QED
      BY <1>0, <1>1, <1>4, <2>1, ChainFacts
  <1> HIDE DEF last
  <1>7. last \in {Height(b) : b \in oldest}
    BY <1>4, <1>5, <1>6
  <1>8. oldest \subseteq range
    BY <1>0
  <1>9. \A b \in oldest : Height(b) <= last
    BY <1>5, <1>8
  <1>10. top \in {Height(b) : b \in oldest} /\ \A b \in oldest : Height(b) <= top
    BY <1>0, <1>7, <1>9
  <1>11. top = last
    <2>1. top \in lo..hi /\ top <= last /\ last <= top
      BY <1>3, <1>7, <1>8, <1>9, <1>10
    <2>2. last \in Int
      BY <1>4
    <2>3. top \in Int
      BY <2>1
    <2>4. \A m, n \in Int : m <= n /\ n <= m => m = n
      OBVIOUS
    <2> QED
      BY <2>1, <2>2, <2>3, <2>4, Zenon
  <1>12. last \in Nat /\ last <= hi
    BY <1>4
  <1> QED
    BY <1>5, <1>11, <1>12 DEF range, oldest, top

-----------------------------------------------------------------------------
(* Every step keeps the invariant of the pass. *)

LEMMA CatchUpPassStep ==
    ASSUME IInv, PInv, StartsAtGenesis, CatchUp
    PROVE  PInv'
  <1> USE DEF IInv
  <1>1. CASE ReadStart
    BY <1>1, PassFrame DEF ReadStart, dbVars, RowsKept
  <1>2. CASE ReadFinalizedHead
    <2>1. sync' = sync \/ sync' = [sync EXCEPT !.status = "syncing"]
      BY <1>2 DEF ReadFinalizedHead
    <2> QED
      BY <1>2, <2>1, CursorKept, PassFrame DEF ReadFinalizedHead, RowsKept
  <1>3. CASE SeedStartHeight
    <2>1. CASE UNCHANGED <<blocks, sync>>
      BY <1>3, <2>1, PassFrame DEF SeedStartHeight, RowsKept
    <2>2. CASE /\ blocks = {} /\ StartHeight - 1 <= Height(tip)
               /\ Stored(Canonical(StartHeight - 1))
      <3>1. StartHeight = 1
        BY <1>3 DEF StartsAtGenesis, SeedStartHeight, CatchUpShape
      <3>2. Canonical(0) \in Path /\ Height(Canonical(0)) = 0
        BY <2>2, <3>1, CanonicalFacts
      <3>3. Storable(Canonical(0)) /\ Canonical(0) \notin blocks
        BY <2>2, <3>2 DEF Storable, BlocksAt
      <3>4. /\ blocks' = blocks \cup {Canonical(0)}
            /\ sync'.tip = Canonical(0) /\ sync'.cursor = sync.cursor
        BY <2>2, <3>1 DEF Stored, IndexedTo, IndexShape
      <3>5. UNCHANGED <<decoded, gen, pass>>
        BY <1>3 DEF SeedStartHeight
      <3> QED
        BY <3>2, <3>3, <3>4, <3>5, StoringKeepsPass
    <2> QED
      BY <1>3, <2>1, <2>2 DEF SeedStartHeight
  <1>4. CASE \/ \E kind \in {"transient", "permanent"} : CatchUpFails(kind)
             \/ \E h \in Heights : FetchBlock(h)
             \/ \E h \in Heights : \E kind \in Faults : FetchFails(h, kind)
             \/ CatchUpDone
    BY <1>4, PassFrame DEF CatchUpFails, FetchBlock, FetchFails, CatchUpDone, dbVars, RowsKept
  <1>5. CASE PersistNext
    <2>1. UNCHANGED <<decoded, gen, pass>>
      BY <1>5 DEF PersistNext
    <2>2. CASE blocks' = blocks /\ sync' \in ErrorsReset(sync)
      <3>1. sync'.tip = sync.tip /\ sync'.cursor = sync.cursor
        BY <2>2 DEF ErrorsReset, IndexShape
      <3> QED
        BY <2>1, <2>2, <3>1, PassFrame DEF RowsKept
    <2>3. CASE LET b == cu.prep[cu.next].block IN
               /\ cu.prep[cu.next].kind = "new" /\ Storable(b) /\ b \notin blocks
               /\ blocks' = blocks \cup {b}
               /\ sync' \in ErrorsReset(IndexedTo(b))
      <3> DEFINE b == cu.prep[cu.next].block
      <3>1. cu.next \in Heights
        BY <1>5, HeightsFacts DEF PersistNext, CatchUpShape, CatchUpRun
      <3>2. b \in Path
        BY <2>3, <3>1 DEF CatchUpShape
      <3>3. sync'.tip = b /\ sync'.cursor = sync.cursor
        BY <2>3 DEF ErrorsReset, IndexedTo, IndexShape
      <3> QED
        BY <2>1, <2>3, <3>2, <3>3, StoringKeepsPass
    <2> QED
      BY <1>5, <2>2, <2>3 DEF PersistNext
  <1>6. CASE BatchFails
    BY <1>6, CursorKept, PassFrame DEF BatchFails, RowsKept
  <1> QED
    BY <1>1, <1>2, <1>3, <1>4, <1>5, <1>6 DEF CatchUp

LEMMA PipelinePassStep ==
    ASSUME IInv, PInv, Pipeline \/ RedriveTimer
    PROVE  PInv'
  <1> USE DEF IInv
  <1>1. CASE PipeCatchUp \/ PipeResumes \/ SubscribeLive \/ (\E kind \in Faults : SubscribeFails(kind))
             \/ PipeDone \/ RedriveTimer
    BY <1>1, PassFrame DEF PipeCatchUp, PipeResumes, SubscribeLive, SubscribeFails, PipeDone,
                           RedriveTimer, dbVars, RowsKept
  <1>2. CASE MarkSynced
    BY <1>2, CursorKept, PassFrame DEF MarkSynced, RowsKept
  <1>3. CASE PipeFails
    BY <1>3, CursorKept, PassFrame DEF PipeFails, RowsKept
  <1> QED
    BY <1>1, <1>2, <1>3 DEF Pipeline

LEMMA HandlerPassStep ==
    ASSUME IInv, PInv, Handler
    PROVE  PInv'
  <1> USE DEF IInv
  <1>1. CASE ReadHead \/ CheckForReorg \/ CompareWithNode \/ FindForkPoint \/ ReindexBranch \/ FetchHead
             \/ HeadCaughtUp \/ DrainHeads
    BY <1>1, PassFrame DEF ReadHead, CheckForReorg, CompareWithNode, FindForkPoint, ReindexBranch,
                           FetchHead, HeadCaughtUp, DrainHeads, dbVars, RowsKept
  <1>2. CASE HandleReorg
    <2> DEFINE S == {b \in pass.todo : Height(b) < live.from}
    <2>1. live.from \in Nat
      BY <1>2 DEF HandleReorg, HandlerShape, HandlerRun
    <2>2. S = pass.todo \cap S
      OBVIOUS
    <2>3. pass' = [pass EXCEPT !.todo = S]
      BY <1>2 DEF HandleReorg
    <2> HIDE DEF S
    <2>4. pass' = [pass EXCEPT !.todo = pass.todo \cap S]
      BY <2>2, <2>3
    <2> QED
      BY <1>2, <2>1, <2>4, RollbackKeepsPass DEF HandleReorg
  <1>3. CASE PersistHead
    <2>1. live.block \in Path
      BY <1>3 DEF PersistHead, HandlerShape
    <2>2. CASE live.block \in blocks
      BY <1>3, <2>2, PassFrame DEF PersistHead, RowsKept
    <2>3. CASE live.block \notin blocks
      <3>1. /\ Storable(live.block) /\ UNCHANGED <<decoded, gen, pass>>
            /\ blocks' = blocks \cup {live.block}
            /\ sync'.tip = live.block /\ sync'.cursor = sync.cursor
        BY <1>3, <2>3 DEF PersistHead, Stored, IndexedTo, IndexShape
      <3> QED
        BY <2>1, <2>3, <3>1, StoringKeepsPass
    <2> QED
      BY <2>2, <2>3
  <1>4. CASE HeadStored
    <2>1. sync'.tip = sync.tip /\ sync'.cursor = sync.cursor
      BY <1>4 DEF HeadStored, IndexShape
    <2> QED
      BY <1>4, <2>1, PassFrame DEF HeadStored, RowsKept
  <1>5. CASE \E kind \in {"transient", "permanent"} : HeadFails(kind)
    BY <1>5, CursorKept, PassFrame DEF HeadFails, RowsKept
  <1> QED
    BY <1>1, <1>2, <1>3, <1>4, <1>5 DEF Handler

\* The steps of the pass itself.
LEMMA TrailingPassStep ==
    ASSUME IInv, PInv, TrailingPass
    PROVE  PInv'
  <1>0. IndexedHeight \in Nat
    BY PathFacts DEF IInv, IndexShape, IndexedHeight
  <1>1. CASE PassReads
    <2>1. RowsKept
      BY <1>1 DEF PassReads, dbVars, RowsKept
    <2>2. /\ pass'.pc = "select" /\ pass'.cursor = sync.cursor /\ pass'.gen = gen
          /\ pass'.ceiling = IndexedHeight /\ pass'.todo = {}
          /\ DOMAIN pass' = {"pc", "cursor", "gen", "ceiling", "todo"}
      BY <1>1 DEF PassReads, IdlePass
    <2> QED
      BY <1>0, <2>1, <2>2 DEF PInv, RowsKept, PassShape, CursorBehind, PassIsCurrent, WindowIsIndexed,
                              SelectionCovers, PassCoversIndex, IndexedHeight
  <1>2. CASE PassSelects
    <2> DEFINE range == {b \in blocks : Height(b) \in PassFrom..pass.ceiling}
               oldest == {b \in range : Cardinality({c \in range : Height(c) < Height(b)}) < PassBatch}
               top == CHOOSE h \in {Height(b) : b \in oldest} : \A b \in oldest : Height(b) <= h
               low == LeastOf(PassFrom + PassBatch - 1, pass.ceiling)
    <2>1. RowsKept /\ pass.pc = "select"
      BY <1>2 DEF PassSelects, dbVars, RowsKept
    <2>2. /\ range = {} => pass' = [pass EXCEPT !.pc = "advance", !.ceiling = low]
          /\ range # {} => pass' = [pass EXCEPT !.pc = "decode", !.todo = oldest, !.ceiling = top]
      BY <1>2 DEF PassSelects
    <2> HIDE DEF low, top
    <2>3. /\ pass'.cursor = pass.cursor /\ pass'.gen = pass.gen
          /\ IF range = {} THEN pass'.pc = "advance" /\ pass'.ceiling = low /\ pass'.todo = {}
             ELSE pass'.pc = "decode" /\ pass'.ceiling = top /\ pass'.todo = oldest
          /\ DOMAIN pass' = {"pc", "cursor", "gen", "ceiling", "todo"}
      BY <2>1, <2>2 DEF PInv, PassShape
    <2>4. PassShape' /\ CursorBehind' /\ PassCoversIndex'
      BY <2>1, <2>3 DEF PInv, PassShape, CursorBehind, PassCoversIndex, RowsKept, IndexedHeight
    <2>5. CASE ~PassIsCurrent'
      BY <2>4, <2>5 DEF PInv, WindowIsIndexed, SelectionCovers
    <2>6. CASE PassIsCurrent'
      <3>1. PassIsCurrent
        BY <2>1, <2>3, <2>6 DEF PassIsCurrent, RowsKept
      <3>2. /\ pass.cursor \in Int /\ pass.cursor >= None /\ sync.cursor <= pass.cursor
            /\ pass.ceiling \in Nat /\ pass.ceiling <= IndexedHeight
        BY <3>1 DEF PInv, WindowIsIndexed
      <3>3. PassFrom \in Nat /\ PassFrom' = PassFrom
        BY <2>3, <3>2 DEF PassFrom, None
      <3>4. PassBatch \in Nat \ {0}
        BY CrawlerAssumption
      <3>5. /\ pass'.ceiling \in Nat /\ pass'.ceiling <= pass.ceiling
            /\ \A b \in range : Height(b) <= pass'.ceiling => b \in pass'.todo
        <4>1. CASE range = {}
          BY <2>3, <3>2, <3>3, <3>4, <4>1 DEF low, LeastOf
        <4>2. CASE range # {}
          <5>1. IndexShape
            BY DEF IInv
          <5>2. /\ top \in Nat /\ top <= pass.ceiling
                /\ \A b \in range : Height(b) <= top => b \in oldest
            <6> HIDE DEF range, oldest
            <6>1. range = InRange(PassFrom, pass.ceiling) /\ oldest = OldestIn(range)
              BY DEF range, oldest, InRange, OldestIn
            <6>2. top = HighestOf(oldest)
              BY DEF top, HighestOf
            <6> QED
              BY <3>2, <3>3, <4>2, <5>1, <6>1, <6>2, OldestAreLowest
          <5> QED
            BY <2>3, <4>2, <5>2
        <4> QED
          BY <4>1, <4>2
      <3>6. IndexedHeight' = IndexedHeight
        BY <2>1 DEF RowsKept, IndexedHeight
      <3>7. WindowIsIndexed'
        BY <1>0, <2>1, <2>3, <3>2, <3>5, <3>6 DEF WindowIsIndexed, RowsKept
      <3>8. SelectionCovers'
        <4> SUFFICES ASSUME NEW b \in blocks', Height(b) \in 1..pass'.ceiling, Height(b) >= PassFrom'
                     PROVE  b \in pass'.todo
          BY DEF SelectionCovers
        <4>1. b \in blocks /\ Height(b) \in PassFrom..pass.ceiling /\ Height(b) <= pass'.ceiling
          BY <2>1, <3>2, <3>3, <3>5 DEF RowsKept
        <4> QED
          BY <3>5, <4>1
      <3> QED
        BY <2>4, <3>7, <3>8 DEF PInv
    <2> QED
      BY <2>5, <2>6
  <1>3. CASE PassDecodes
    <2>1. UNCHANGED <<blocks, sync, gen>> /\ pass.pc = "decode"
      BY <1>3 DEF PassDecodes
    <2>2. /\ DOMAIN pass' = DOMAIN pass
          /\ pass'.cursor = pass.cursor /\ pass'.gen = pass.gen /\ pass'.ceiling = pass.ceiling
          /\ pass'.pc \in {"decode", "advance"}
          /\ pass'.pc = "advance" => pass'.todo = {}
          /\ decoded \subseteq decoded'
          /\ decoded \cup pass.todo \subseteq decoded' \cup pass'.todo
      BY <1>3 DEF PassDecodes, PInv, PassShape
    <2>3. PassShape' /\ CursorBehind' /\ WindowIsIndexed' /\ PassCoversIndex'
      BY <2>1, <2>2 DEF PInv, PassShape, CursorBehind, WindowIsIndexed, PassIsCurrent, PassCoversIndex,
                        IndexedHeight
    <2>4. SelectionCovers'
      BY <2>1, <2>2 DEF PInv, SelectionCovers, PassIsCurrent, PassFrom
    <2> QED
      BY <2>3, <2>4 DEF PInv
  <1>4. CASE PassAdvances
    <2>1. pass' = IdlePass /\ UNCHANGED <<blocks, decoded, gen>> /\ pass.pc = "advance"
      BY <1>4 DEF PassAdvances
    <2>2. CASE sync' = sync
      BY <2>1, <2>2, PassFrame DEF RowsKept
    <2>3. CASE /\ gen = pass.gen /\ sync.cursor = pass.cursor
               /\ sync' = [sync EXCEPT !.cursor = pass.ceiling]
      <3>1. PassIsCurrent /\ pass.todo = {}
        BY <2>1, <2>3 DEF PInv, PassShape, PassIsCurrent
      <3>2. /\ pass.ceiling \in Nat /\ pass.ceiling <= IndexedHeight
            /\ pass.cursor \in Int /\ pass.cursor >= None
        BY <3>1 DEF PInv, WindowIsIndexed
      <3>3. sync'.tip = sync.tip /\ sync'.cursor = pass.ceiling
        BY <2>3 DEF IInv, IndexShape
      <3>4. PassCoversIndex'
        <4> SUFFICES ASSUME NEW b \in blocks, Height(b) \in 1..pass.ceiling
                     PROVE  b \in decoded
          BY <2>1, <3>3 DEF PassCoversIndex
        <4>1. CASE Height(b) >= PassFrom
          BY <2>1, <2>3, <3>1, <4>1 DEF PInv, SelectionCovers
        <4>2. CASE ~(Height(b) >= PassFrom)
          <5>1. Height(b) \in 1..sync.cursor
            BY <2>3, <3>2, <4>2 DEF PassFrom, None
          <5> QED
            BY <5>1 DEF PInv, PassCoversIndex
        <4> QED
          BY <4>1, <4>2
      <3>5. CursorBehind'
        BY <3>2, <3>3 DEF CursorBehind, None, IndexedHeight
      <3>6. PassShape' /\ WindowIsIndexed' /\ SelectionCovers'
        BY <2>1 DEF PInv, PassShape, WindowIsIndexed, SelectionCovers, PassIsCurrent, IdlePass
      <3> QED
        BY <3>4, <3>5, <3>6 DEF PInv
    <2> QED
      BY <1>4, <2>2, <2>3 DEF PassAdvances
  <1> QED
    BY <1>1, <1>2, <1>3, <1>4 DEF TrailingPass

LEMMA EnvironmentPassStep ==
    ASSUME IInv, PInv, Environment
    PROVE  PInv'
  <1> USE DEF IInv
  <1>1. CASE \/ NewBlock \/ (\E b \in Announced : HeadArrives(b)) \/ ConnectionLost \/ Reconnected
             \/ \E h \in Heights, n \in 1..2 : NodeReorg(h, n)
    BY <1>1, PassFrame DEF NewBlock, HeadArrives, ConnectionLost, Reconnected, NodeReorg, dbVars, RowsKept
  <1>2. CASE Restart
    <2>1. pass' = IdlePass /\ UNCHANGED <<blocks, decoded, gen>>
      BY <1>2 DEF Restart, FreshCrawler
    <2> QED
      BY <1>2, <2>1, CursorKept, PassFrame DEF Restart, RowsKept
  <1>3. CASE \E h \in Heights : ReindexFromHeight(h)
    BY <1>3, HeightsFacts, RollbackKeepsPass DEF ReindexFromHeight, FreshCrawler
  <1>4. CASE \E h \in Heights : RedecodeFromHeight(h)
    <2>1. PICK h \in Heights : RedecodeFromHeight(h)
      BY <1>4
    <2>2. /\ h \in Nat /\ sync.cursor >= h
          /\ UNCHANGED <<blocks, gen, pass>>
          /\ decoded' = {b \in decoded : Height(b) < h}
          /\ sync'.tip = sync.tip /\ sync'.cursor = h - 1
      BY <2>1, HeightsFacts DEF RedecodeFromHeight, IndexShape
    <2>3. PassShape'
      BY <2>2 DEF PInv, PassShape
    <2>4. CursorBehind' /\ PassCoversIndex'
      <3>1. IndexedHeight' = IndexedHeight /\ IndexedHeight \in Nat
        BY <2>2, PathFacts DEF IndexShape, IndexedHeight
      <3>2. CursorBehind'
        BY <2>2, <3>1 DEF PInv, CursorBehind, None
      <3>3. PassCoversIndex'
        BY <2>2 DEF PInv, CursorBehind, PassCoversIndex
      <3> QED
        BY <3>2, <3>3
    <2>5. WindowIsIndexed' /\ SelectionCovers'
      BY <2>2 DEF PInv, CursorBehind, WindowIsIndexed, SelectionCovers, PassIsCurrent, IndexedHeight
    <2> QED
      BY <2>3, <2>4, <2>5 DEF PInv
  <1> QED
    BY <1>1, <1>2, <1>3, <1>4 DEF Environment

LEMMA NextPInv == StartsAtGenesis /\ IInv /\ PInv /\ [Next]_vars => PInv'
  <1> SUFFICES ASSUME StartsAtGenesis, IInv, PInv, [Next]_vars PROVE PInv'
    OBVIOUS
  <1>1. CASE UNCHANGED vars
    BY <1>1, PassFrame DEF vars, dbVars, RowsKept
  <1>2. CASE Next
    BY <1>2, CatchUpPassStep, PipelinePassStep, HandlerPassStep, TrailingPassStep, EnvironmentPassStep
       DEF Next
  <1> QED
    BY <1>1, <1>2

\* The trailing pass has worked on every stored block above genesis up to its cursor, for chains of any
\* length, any batch size and any number of forks, restarts and calls of reindexFromHeight and
\* redecodeFromHeight that overlap a pass in flight (readPassWindow, advancePassCursor,
\* rollbackIndexedDataFromHeight). As for IndexIsChainAlways nothing is skipped at the start.
THEOREM PassCoversIndexAlways ==
    ASSUME StartsAtGenesis
    PROVE  Spec => []PassCoversIndex
  <1>1. IInv /\ PInv /\ [Next]_vars => IInv' /\ PInv'
    BY NextIInv, NextPInv
  <1>2. PInv => PassCoversIndex
    BY DEF PInv
  <1> QED
    BY <1>1, <1>2, InitIInv, InitPInv, PTL DEF Spec

-----------------------------------------------------------------------------
(* Halting: the inductive invariant on a chain that does not change. *)

\* The node never reports another chain, no call of it ends with a permanent error, and the block the
\* index starts from can be decoded.
FixedChain == MaxReorgs = 0 /\ "permanent" \notin Faults /\ StartHeight - 1 \notin Bad

\* The recorded tip is a block of the node.
TipOnChain ==
    /\ reorgs = 0
    /\ sync.tip # Null => Height(sync.tip) <= Height(tip) /\ sync.tip = Canonical(Height(sync.tip))

IndexedUpTo(h) == h < 0 \/ (sync.tip # Null /\ h <= Height(sync.tip))

\* What a catch-up fetched: a block of the node, a block that is stored, or one that is bad.
EntryOnChain(p, h) ==
    /\ p.kind = "new" => h <= Height(tip) /\ p.block = Canonical(h)
    /\ p.kind = "known" => IndexedUpTo(h)
    /\ p.kind = "permanent" => h \in Bad

PrepOnChain == \A h \in Heights : EntryOnChain(cu.prep[h], h)

\* A catch-up leaves no block out.
RunOnIndex == cu.pc \in {"head", "seed", "run"} => IndexedUpTo(cu.next - 1)

\* The handler never sees a fork, and nothing is missing below the head it stores.
HeadOnChain ==
    /\ live.pc # "idle" => Height(live.head) <= Height(tip) /\ live.head = Canonical(Height(live.head))
    /\ live.pc \notin {"fork", "rollback", "recatch"}
    /\ live.pc \in {"check", "compare", "store", "persist"} => IndexedUpTo(Height(live.head) - 1)
    /\ live.pc \in {"check", "compare", "store", "persist"} => sync.tip # Null
    /\ live.pc \in {"compare", "persist"} => live.block = Canonical(Height(live.head))
    /\ live.res # "permanent"

HInv == TipOnChain /\ PrepOnChain /\ RunOnIndex /\ HeadOnChain /\ HaltedMeansBadBlock

LEMMA InitHInv == Init => HInv
  BY IdleFacts DEF Init, HInv, TipOnChain, PrepOnChain, EntryOnChain, RunOnIndex, HeadOnChain, HaltedMeansBadBlock,
                   IdleCu, IdleLive, NoPrep

\* The index does not shrink and the node's chain only grows.
Grows ==
    /\ Height(tip) <= Height(tip)' /\ \A h \in 0..Height(tip) : Canonical(h)' = Canonical(h)
    /\ sync'.tip = sync.tip
       \/ (sync'.tip # Null /\ (sync.tip = Null \/ Height(sync.tip) <= Height(sync'.tip)))

LEMMA SameGrows ==
    ASSUME NodeShape, tip' = tip, sync'.tip = sync.tip
    PROVE  Grows
  BY PathFacts DEF Grows, NodeShape, Canonical

LEMMA GrowsKeepsIndexed ==
    ASSUME IndexShape, IndexShape', Grows, NEW h \in Int, IndexedUpTo(h)
    PROVE  IndexedUpTo(h)'
  <1>1. sync.tip # Null => Height(sync.tip) \in Nat
    BY PathFacts DEF IndexShape
  <1>2. sync'.tip # Null => Height(sync'.tip) \in Nat
    BY PathFacts DEF IndexShape
  <1> QED
    BY <1>1, <1>2 DEF Grows, IndexedUpTo

LEMMA EntryFrame ==
    ASSUME IInv, IInv', Grows, NEW h \in Heights, NEW p, EntryOnChain(p, h)
    PROVE  EntryOnChain(p, h)'
  <1>1. h \in Nat /\ Height(tip) \in Nat /\ Height(tip)' \in Nat
    BY HeightsFacts, PathFacts DEF IInv, NodeShape
  <1>2. IndexedUpTo(h) => IndexedUpTo(h)'
    BY <1>1, GrowsKeepsIndexed DEF IInv
  <1>3. h <= Height(tip) => h <= Height(tip)' /\ Canonical(h)' = Canonical(h)
    BY <1>1 DEF Grows
  <1> QED
    BY <1>2, <1>3 DEF EntryOnChain

LEMMA PrepFrame ==
    ASSUME IInv, IInv', PrepOnChain, Grows, cu'.prep = cu.prep
    PROVE  PrepOnChain'
  <1> SUFFICES ASSUME NEW h \in Heights PROVE EntryOnChain(cu.prep[h], h)'
    BY DEF PrepOnChain
  <1>1. PICK p : p = cu.prep[h]
    OBVIOUS
  <1>2. EntryOnChain(p, h)'
    BY <1>1, EntryFrame DEF PrepOnChain
  <1>3. cu'.prep[h] = p
    BY <1>1
  <1> QED
    BY <1>2, <1>3 DEF EntryOnChain

\* One height is fetched, or its block is stored.
LEMMA PrepUpdated ==
    ASSUME IInv, IInv', PrepOnChain, Grows, NEW h \in Heights, NEW p, EntryOnChain(p, h)',
           cu'.prep = [cu.prep EXCEPT ![h] = p]
    PROVE  PrepOnChain'
  <1> SUFFICES ASSUME NEW g \in Heights PROVE EntryOnChain(cu.prep[g], g)'
    BY DEF PrepOnChain
  <1>1. cu'.prep[g] = IF g = h THEN p ELSE cu.prep[g]
    BY DEF IInv, CatchUpShape, CatchUpRun
  <1>2. PICK q : q = cu.prep[g]
    OBVIOUS
  <1>3. EntryOnChain(q, g)'
    BY <1>2, EntryFrame DEF PrepOnChain
  <1> QED
    BY <1>1, <1>2, <1>3 DEF EntryOnChain

LEMMA RunFrame ==
    ASSUME IndexShape, IndexShape', CatchUpShape, RunOnIndex, Grows,
           cu'.next = cu.next, cu'.pc \in {"head", "seed", "run"} => cu.pc \in {"head", "seed", "run"}
    PROVE  RunOnIndex'
  <1>1. cu.next - 1 \in Int
    BY DEF CatchUpShape, CatchUpRun
  <1> QED
    BY <1>1, GrowsKeepsIndexed DEF RunOnIndex

\* No catch-up, or one that has read nothing yet.
LEMMA NoRun ==
    ASSUME \A h \in Heights : cu'.prep[h].kind = "none", cu'.pc \in {"idle", "read"}
    PROVE  PrepOnChain' /\ RunOnIndex'
  BY DEF PrepOnChain, EntryOnChain, RunOnIndex

LEMMA CalledRun ==
    ASSUME IInv, IInv', PrepOnChain, RunOnIndex, Grows, CatchUpCalled
    PROVE  PrepOnChain' /\ RunOnIndex'
  <1>1. CASE cu' = cu
    BY <1>1, PrepFrame, RunFrame DEF IInv
  <1>2. CASE cu' = [IdleCu EXCEPT !.pc = "read"]
    <2>1. cu'.pc = "read" /\ cu'.prep = IdleCu.prep
      BY <1>2, IdleFacts DEF CatchUpRun
    <2> QED
      BY <2>1, IdleFacts, NoRun
  <1> QED
    BY <1>1, <1>2 DEF CatchUpCalled

\* The handler moves on without a new head or block, and not to where it would need one.
LEMMA HeadFrame ==
    ASSUME IInv, IInv', HeadOnChain, Grows,
           live'.pc # "idle" => live.pc # "idle" /\ live'.head = live.head,
           \/ live'.pc = live.pc /\ live'.block = live.block
           \/ live'.pc \in {"idle", "waitHead", "stored", "drain", "waitDrain"},
           live'.res # "permanent"
    PROVE  HeadOnChain'
  <1>1. CASE live'.pc = "idle"
    BY <1>1 DEF HeadOnChain
  <1>2. CASE live'.pc # "idle"
    <2>1. /\ live'.head = live.head /\ live.head \in Path
          /\ Height(live.head) \in Nat /\ Height(tip) \in Nat /\ Height(tip)' \in Nat
          /\ Height(live.head) <= Height(tip) /\ live.head = Canonical(Height(live.head))
      BY <1>2, PathFacts DEF HeadOnChain, IInv, HandlerShape, NodeShape
    <2>2. /\ Height(live.head) <= Height(tip)'
          /\ Canonical(Height(live.head))' = Canonical(Height(live.head))
      BY <2>1 DEF Grows
    <2>3. live'.pc \in {"check", "compare", "store", "persist"} =>
             /\ live.pc = live'.pc /\ live'.block = live.block
             /\ IndexedUpTo(Height(live.head) - 1)' /\ sync'.tip # Null
      <3>1. PICK k \in Int : k = Height(live.head) - 1
        BY <2>1
      <3>2. IndexedUpTo(k) => IndexedUpTo(k)'
        BY GrowsKeepsIndexed DEF IInv
      <3>3. Height(live'.head) - 1 = k
        BY <2>1, <3>1
      <3> QED
        BY <1>2, <3>1, <3>2, <3>3 DEF HeadOnChain, Grows, IndexedUpTo
    <2> QED
      BY <1>2, <2>1, <2>2, <2>3 DEF HeadOnChain
  <1> QED
    BY <1>1, <1>2

\* A catch-up that ends without a permanent error.
LEMMA EndsKeepsHInv ==
    ASSUME IInv, IInv', HInv, Grows, NEW res \in {"ok", "transient"}, CatchUpEnds(res)
    PROVE  PrepOnChain' /\ RunOnIndex' /\ HeadOnChain'
  <1>1. cu'.pc = "idle" /\ \A h \in Heights : cu'.prep[h].kind = "none"
    BY IdleFacts DEF CatchUpEnds
  <1>2. PrepOnChain' /\ RunOnIndex'
    BY <1>1, NoRun
  <1>3. live' = live \/ live' = [live EXCEPT !.res = res]
    BY DEF CatchUpEnds
  <1>4. /\ live'.pc = live.pc /\ live'.head = live.head /\ live'.block = live.block
        /\ live'.res = live.res \/ live'.res = res
    BY <1>3 DEF IInv, HandlerShape, HandlerRun
  <1>5. live'.res # "permanent"
    BY <1>4 DEF HInv, HeadOnChain
  <1>6. HeadOnChain'
    BY <1>4, <1>5, HeadFrame DEF HInv
  <1> QED
    BY <1>2, <1>6

\* On a chain that does not change the index is a part of the node's chain.
LEMMA BlocksOnChain ==
    ASSUME IInv, TipOnChain, sync.tip # Null
    PROVE  /\ Height(sync.tip) \in Nat /\ Height(sync.tip) <= Height(tip)
           /\ \A b \in blocks : Height(b) \in 0..Height(sync.tip) /\ b = Canonical(Height(b))
           /\ \A h \in 0..Height(sync.tip) : Canonical(h) \in blocks
  <1> DEFINE t == sync.tip
  <1>1. /\ t \in Path /\ blocks = Chain(t) /\ tip \in Path
        /\ Height(t) <= Height(tip) /\ t = Ancestor(tip, Height(t))
    BY DEF IInv, IndexShape, NodeShape, TipOnChain, Canonical
  <1>2. Height(t) \in Nat /\ Height(t) \in 0..Height(tip)
    BY <1>1, PathFacts
  <1>3. \A h \in 0..Height(t) : Ancestor(t, h) = Canonical(h)
    <2> TAKE h \in 0..Height(t)
    <2>1. Ancestor(Ancestor(tip, Height(t)), h) = Ancestor(tip, h)
      BY <1>1, <1>2, AncestorOfAncestor
    <2> QED
      BY <1>1, <2>1 DEF Canonical
  <1> HIDE DEF t
  <1>4. /\ \A b \in blocks : Height(b) \in 0..Height(t) /\ b = Canonical(Height(b))
        /\ \A h \in 0..Height(t) : Canonical(h) \in blocks
    BY <1>1, <1>3, ChainFacts
  <1> QED
    BY <1>1, <1>2, <1>4 DEF t

\* The node's block above an index without gaps can be stored.
LEMMA CanonicalStorable ==
    ASSUME IInv, TipOnChain, NEW h \in Nat, h <= Height(tip), IndexedUpTo(h - 1)
    PROVE  /\ Storable(Canonical(h))
           /\ Canonical(h) \in blocks \/ sync.tip = Null \/ Height(sync.tip) < h
  <1>1. Canonical(h) \in Path /\ Height(Canonical(h)) = h
    BY CanonicalFacts DEF IInv
  <1>2. CASE sync.tip = Null
    BY <1>1, <1>2 DEF IndexedUpTo, Storable, BlocksAt, IInv, IndexShape
  <1>3. CASE sync.tip # Null
    <2>1. /\ Height(sync.tip) \in Nat /\ Height(sync.tip) <= Height(tip)
          /\ \A b \in blocks : Height(b) \in 0..Height(sync.tip) /\ b = Canonical(Height(b))
          /\ \A g \in 0..Height(sync.tip) : Canonical(g) \in blocks
      BY <1>3, BlocksOnChain
    <2>2. h = 0 \/ Parent(Canonical(h)) \in blocks
      <3> SUFFICES ASSUME h # 0 PROVE Parent(Canonical(h)) \in blocks
        OBVIOUS
      <3>1. Parent(Canonical(h)) = Ancestor(Canonical(h), h - 1)
        BY <1>1, ParentFacts
      <3>2. h \in 0..Height(tip) /\ h - 1 \in 0..h
        BY PathFacts DEF IInv, NodeShape
      <3>3. Ancestor(Canonical(h), h - 1) = Canonical(h - 1)
        BY <3>2, AncestorOfAncestor DEF IInv, NodeShape, Canonical
      <3>4. h - 1 \in 0..Height(sync.tip)
        BY <2>1, <3>2 DEF IndexedUpTo
      <3> QED
        BY <2>1, <3>1, <3>3, <3>4
    <2>3. Canonical(h) \in blocks \/ BlocksAt(h) = {}
      BY <2>1 DEF BlocksAt
    <2>4. Canonical(h) \in blocks \/ Height(sync.tip) < h
      BY <2>1
    <2> QED
      BY <1>1, <2>2, <2>3, <2>4 DEF Storable
  <1> QED
    BY <1>2, <1>3

\* A stored block of the node is not above the recorded tip.
LEMMA StoredIsIndexed ==
    ASSUME IInv, TipOnChain, NEW h \in Nat, h <= Height(tip), Canonical(h) \in blocks
    PROVE  IndexedUpTo(h)
  <1>1. Height(Canonical(h)) = h
    BY CanonicalFacts DEF IInv
  <1>2. sync.tip # Null
    BY DEF IInv, IndexShape
  <1>3. h \in 0..Height(sync.tip) /\ Height(sync.tip) \in Nat
    BY <1>1, <1>2, BlocksOnChain
  <1> QED
    BY <1>2, <1>3 DEF IndexedUpTo

\* Storing the node's block above an index without gaps.
LEMMA StoringKeepsChain ==
    ASSUME IInv, TipOnChain, NEW h \in Nat, h <= Height(tip), IndexedUpTo(h - 1),
           Canonical(h) \notin blocks, sync'.tip = Canonical(h), UNCHANGED nodeVars
    PROVE  TipOnChain' /\ Grows /\ IndexedUpTo(h)'
  <1>1. Canonical(h) \in Path /\ Height(Canonical(h)) = h /\ Canonical(h) # Null
    BY CanonicalFacts DEF IInv, Path
  <1>2. sync.tip = Null \/ (Height(sync.tip) < h /\ Height(sync.tip) \in Nat)
    BY CanonicalStorable, BlocksOnChain
  <1>3. tip' = tip /\ reorgs' = reorgs /\ Height(tip) \in Nat
    BY PathFacts DEF nodeVars, IInv, NodeShape
  <1>4. TipOnChain'
    BY <1>1, <1>3 DEF TipOnChain, Canonical
  <1>5. Grows
    BY <1>1, <1>2, <1>3 DEF Grows, Canonical
  <1>6. IndexedUpTo(h)'
    BY <1>1 DEF IndexedUpTo
  <1> QED
    BY <1>4, <1>5, <1>6

\* A step that leaves all that the invariant speaks of alone.
LEMMA HFrame ==
    ASSUME IInv, IInv', HInv, UNCHANGED <<nodeVars, cu, live, poison>>, sync'.tip = sync.tip
    PROVE  HInv'
  BY DEF HInv, nodeVars, TipOnChain, PrepOnChain, EntryOnChain, IndexedUpTo, RunOnIndex, HeadOnChain,
         HaltedMeansBadBlock, Canonical

LEMMA TipFrame ==
    ASSUME IInv, TipOnChain, UNCHANGED nodeVars, sync'.tip = sync.tip
    PROVE  TipOnChain' /\ Grows
  BY SameGrows DEF IInv, nodeVars, TipOnChain, Canonical

LEMMA PoisonFrame == HaltedMeansBadBlock /\ (poison' = poison \/ poison' = None) => HaltedMeansBadBlock'
  BY DEF HaltedMeansBadBlock

LEMMA HeadSame ==
    ASSUME IInv, IInv', HeadOnChain, Grows, live' = live
    PROVE  HeadOnChain'
  BY HeadFrame DEF HeadOnChain

-----------------------------------------------------------------------------
(* Every step keeps it. *)

LEMMA CatchUpChainStep ==
    ASSUME IInv, IInv', HInv, StartsAtGenesis, FixedChain, CatchUp
    PROVE  HInv'
  <1> USE DEF HInv
  <1>1. CASE ReadStart
    <2>1. /\ UNCHANGED <<nodeVars, live, poison>> /\ sync' = sync
          /\ cu'.next = IF sync.tip = Null THEN 0 ELSE Height(sync.tip) + 1
          /\ cu'.prep = cu.prep
      BY <1>1 DEF ReadStart, dbVars, IInv, CatchUpShape, CatchUpRun
    <2>2. TipOnChain' /\ Grows
      BY <2>1, TipFrame
    <2>3. RunOnIndex'
      <3>1. sync.tip # Null => Height(sync.tip) \in Nat
        BY PathFacts DEF IInv, IndexShape
      <3> QED
        BY <2>1, <3>1 DEF RunOnIndex, IndexedUpTo
    <2> QED
      BY <2>1, <2>2, <2>3, PrepFrame, HeadSame, PoisonFrame
  <1>2. CASE ReadFinalizedHead
    <2>1. UNCHANGED <<nodeVars, poison>> /\ cu.pc = "head"
      BY <1>2 DEF ReadFinalizedHead
    <2>2. sync'.tip = sync.tip
      BY <1>2 DEF ReadFinalizedHead, IInv, IndexShape
    <2>3. TipOnChain' /\ Grows
      BY <2>1, <2>2, TipFrame
    <2>4. CASE CatchUpEnds("ok")
      BY <2>1, <2>3, <2>4, EndsKeepsHInv, PoisonFrame
    <2>5. CASE /\ UNCHANGED live
               /\ \/ cu' = [cu EXCEPT !.pc = "seed", !.goal = Height(tip)]
                  \/ cu' = [cu EXCEPT !.pc = "run", !.next = cu.next, !.goal = Height(tip)]
      <3>1. cu'.next = cu.next /\ cu'.prep = cu.prep
        BY <2>5 DEF IInv, CatchUpShape, CatchUpRun
      <3>2. RunOnIndex'
        BY <2>1, <2>3, <3>1, RunFrame DEF IInv
      <3> QED
        BY <2>1, <2>3, <2>5, <3>1, <3>2, PrepFrame, HeadSame, PoisonFrame
    <2> QED
      BY <1>2, <2>4, <2>5 DEF ReadFinalizedHead, RunFrom
  <1>3. CASE SeedStartHeight
    <2>1. UNCHANGED <<nodeVars, poison>>
      BY <1>3 DEF SeedStartHeight
    <2>2. CASE RunFrom(0, cu.goal) /\ UNCHANGED <<blocks, sync>>
      <3>1. cu'.next = 0 /\ cu'.prep = cu.prep /\ live' = live
        BY <2>2 DEF RunFrom, IInv, CatchUpShape, CatchUpRun
      <3>2. TipOnChain' /\ Grows
        BY <2>1, <2>2, TipFrame
      <3>3. RunOnIndex'
        BY <3>1 DEF RunOnIndex, IndexedUpTo
      <3> QED
        BY <2>1, <3>1, <3>2, <3>3, PrepFrame, HeadSame, PoisonFrame
    <2>3. CASE CatchUpEnds("ok") /\ UNCHANGED <<blocks, sync>>
      BY <2>1, <2>3, TipFrame, EndsKeepsHInv, PoisonFrame
    <2>4. CASE /\ blocks = {} /\ StartHeight - 1 <= Height(tip)
               /\ Stored(Canonical(StartHeight - 1))
               /\ CatchUpEnds("ok") \/ RunFrom(StartHeight, cu.goal)
      <3>1. StartHeight = 1
        BY <1>3 DEF StartsAtGenesis, SeedStartHeight, IInv, CatchUpShape
      <3>2. Canonical(0) \notin blocks /\ sync'.tip = Canonical(0)
        BY <2>4, <3>1 DEF Stored, IndexedTo, IInv, IndexShape
      <3>3. IndexedUpTo(0 - 1) /\ 0 <= Height(tip)
        BY <2>4, <3>1 DEF IndexedUpTo
      <3>4. TipOnChain' /\ Grows /\ IndexedUpTo(0)'
        BY <2>1, <3>2, <3>3, StoringKeepsChain
      <3>5. CASE CatchUpEnds("ok")
        BY <2>1, <3>4, <3>5, EndsKeepsHInv, PoisonFrame
      <3>6. CASE RunFrom(StartHeight, cu.goal)
        <4>1. cu'.next = 1 /\ cu'.prep = cu.prep /\ live' = live
          BY <3>1, <3>6 DEF RunFrom, IInv, CatchUpShape, CatchUpRun
        <4>2. RunOnIndex'
          BY <3>4, <4>1 DEF RunOnIndex, IndexedUpTo
        <4> QED
          BY <2>1, <3>4, <4>1, <4>2, PrepFrame, HeadSame, PoisonFrame
      <3> QED
        BY <2>4, <3>5, <3>6
    <2> QED
      BY <1>3, <2>2, <2>3, <2>4 DEF SeedStartHeight
  <1>4. CASE \E kind \in {"transient", "permanent"} : CatchUpFails(kind)
    <2>1. PICK kind \in {"transient", "permanent"} : CatchUpFails(kind)
      BY <1>4
    <2>2. kind = "transient"
      BY <2>1 DEF CatchUpFails, FixedChain
    <2>3. UNCHANGED <<nodeVars, poison>> /\ sync' = sync /\ CatchUpEnds("transient")
      BY <2>1, <2>2 DEF CatchUpFails, dbVars
    <2> QED
      BY <2>3, TipFrame, EndsKeepsHInv, PoisonFrame
  <1>5. CASE \E h \in Heights : FetchBlock(h)
    <2>1. PICK h \in Heights : FetchBlock(h)
      BY <1>5
    <2> DEFINE p == IF h > Height(tip) THEN [kind |-> "transient", block |-> Null]
                    ELSE IF Canonical(h) \in blocks THEN [kind |-> "known", block |-> Null]
                    ELSE IF h \in Bad THEN [kind |-> "permanent", block |-> Null]
                    ELSE [kind |-> "new", block |-> Canonical(h)]
    <2>2. UNCHANGED <<nodeVars, poison, live>> /\ sync' = sync /\ cu' = [cu EXCEPT !.prep[h] = p]
      BY <2>1 DEF FetchBlock, dbVars
    <2>3. h \in Nat /\ Height(tip) \in Nat
      BY HeightsFacts, PathFacts DEF IInv, NodeShape
    <2>4. EntryOnChain(p, h)
      BY <2>3, StoredIsIndexed DEF EntryOnChain
    <2>5. TipOnChain' /\ Grows
      BY <2>2, TipFrame
    <2>6. PICK q : q = p
      OBVIOUS
    <2> HIDE DEF p
    <2>7. EntryOnChain(q, h)'
      BY <2>4, <2>5, <2>6, EntryFrame
    <2>8. cu'.prep = [cu.prep EXCEPT ![h] = q] /\ cu'.next = cu.next /\ cu'.pc = cu.pc
      BY <2>2, <2>6 DEF IInv, CatchUpShape, CatchUpRun
    <2>9. PrepOnChain'
      BY <2>5, <2>7, <2>8, PrepUpdated
    <2>10. RunOnIndex'
      BY <2>5, <2>8, RunFrame DEF IInv
    <2> QED
      BY <2>2, <2>5, <2>9, <2>10, HeadSame, PoisonFrame
  <1>6. CASE \E h \in Heights : \E kind \in Faults : FetchFails(h, kind)
    <2>1. PICK h \in Heights, kind \in Faults : FetchFails(h, kind)
      BY <1>6
    <2>2. kind = "transient"
      BY CrawlerAssumption DEF FixedChain
    <2>3. PICK q : q = [kind |-> "transient", block |-> Null]
      OBVIOUS
    <2>4. UNCHANGED <<nodeVars, poison, live>> /\ sync' = sync /\ cu' = [cu EXCEPT !.prep[h] = q]
      BY <2>1, <2>2, <2>3 DEF FetchFails, dbVars
    <2>5. TipOnChain' /\ Grows
      BY <2>4, TipFrame
    <2>6. EntryOnChain(q, h)'
      BY <2>3 DEF EntryOnChain
    <2>7. cu'.prep = [cu.prep EXCEPT ![h] = q] /\ cu'.next = cu.next /\ cu'.pc = cu.pc
      BY <2>4 DEF IInv, CatchUpShape, CatchUpRun
    <2>8. PrepOnChain'
      BY <2>5, <2>6, <2>7, PrepUpdated
    <2>9. RunOnIndex'
      BY <2>5, <2>7, RunFrame DEF IInv
    <2> QED
      BY <2>4, <2>5, <2>8, <2>9, HeadSame, PoisonFrame
  <1>7. CASE PersistNext
    <2>1. PICK h \in Heights : h = cu.next
      BY <1>7, HeightsFacts DEF PersistNext, IInv, CatchUpShape, CatchUpRun
    <2>2. /\ h \in Nat /\ IndexedUpTo(h - 1) /\ EntryOnChain(cu.prep[h], h)
          /\ UNCHANGED <<nodeVars, poison, live>>
      BY <1>7, <2>1, HeightsFacts DEF PersistNext, RunOnIndex, PrepOnChain
    <2>3. cu'.prep = [cu.prep EXCEPT ![h] = NoPrep] /\ cu'.next = h + 1
      BY <1>7, <2>1 DEF PersistNext, IInv, CatchUpShape, CatchUpRun
    <2>4. TipOnChain' /\ Grows /\ IndexedUpTo(h)'
      <3>1. CASE /\ cu.prep[h].kind = "known" \/ (cu.prep[h].kind = "new" /\ cu.prep[h].block \in blocks)
                 /\ sync' \in ErrorsReset(sync)
        <4>1. sync'.tip = sync.tip
          BY <3>1 DEF ErrorsReset, IInv, IndexShape
        <4>2. TipOnChain' /\ Grows
          BY <2>2, <4>1, TipFrame
        <4>3. IndexedUpTo(h)
          BY <2>2, <3>1, StoredIsIndexed DEF EntryOnChain
        <4> QED
          BY <2>2, <4>2, <4>3, GrowsKeepsIndexed DEF IInv
      <3>2. CASE /\ cu.prep[h].kind = "new" /\ cu.prep[h].block \notin blocks
                 /\ sync' \in ErrorsReset(IndexedTo(cu.prep[h].block))
        <4>1. sync'.tip = cu.prep[h].block
          BY <3>2 DEF ErrorsReset, IndexedTo, IInv, IndexShape
        <4>2. h <= Height(tip) /\ cu.prep[h].block = Canonical(h)
          BY <2>2, <3>2 DEF EntryOnChain
        <4> QED
          BY <2>2, <3>2, <4>1, <4>2, StoringKeepsChain
      <3> QED
        BY <1>7, <2>1, <3>1, <3>2 DEF PersistNext
    <2>5. PICK q : q = NoPrep
      OBVIOUS
    <2>6. EntryOnChain(q, h)'
      BY <2>5, NoPrepFacts DEF EntryOnChain
    <2>7. PrepOnChain'
      BY <2>3, <2>4, <2>5, <2>6, PrepUpdated
    <2>8. RunOnIndex'
      <3>1. cu'.next - 1 = h
        BY <2>2, <2>3
      <3> QED
        BY <2>4, <3>1 DEF RunOnIndex, IndexedUpTo
    <2> QED
      BY <2>2, <2>4, <2>7, <2>8, HeadSame, PoisonFrame
  <1>8. CASE BatchFails
    <2>1. PICK h \in Heights : h = cu.next
      BY <1>8, HeightsFacts DEF BatchFails, IInv, CatchUpShape, CatchUpRun
    <2>2. /\ h \in Nat /\ IndexedUpTo(h - 1) /\ EntryOnChain(cu.prep[h], h)
          /\ UNCHANGED nodeVars /\ cu.pc = "run"
      BY <1>8, <2>1, HeightsFacts DEF BatchFails, RunOnIndex, PrepOnChain
    <2>3. sync'.tip = sync.tip
      BY <1>8 DEF BatchFails, ErrorRecorded, IInv, IndexShape
    <2>4. TipOnChain' /\ Grows
      BY <2>2, <2>3, TipFrame
    <2>5. PrepError = "permanent" => h \in Bad
      <3>1. cu.prep[h].kind = "new" => Storable(cu.prep[h].block)
        BY <2>2, CanonicalStorable DEF EntryOnChain
      <3> QED
        BY <2>1, <2>2, <3>1 DEF PrepError, EntryOnChain
    <2>6. HaltedMeansBadBlock'
      BY <1>8, <2>1, <2>5 DEF BatchFails, HaltedMeansBadBlock
    <2>7. CASE CatchUpEnds("ok")
      BY <2>4, <2>6, <2>7, EndsKeepsHInv
    <2>8. CASE cu' = [cu EXCEPT !.retried = TRUE, !.prep[cu.next] = NoPrep] /\ UNCHANGED live
      <3>1. PICK q : q = NoPrep
        OBVIOUS
      <3>2. EntryOnChain(q, h)'
        BY <3>1, NoPrepFacts DEF EntryOnChain
      <3>3. cu'.prep = [cu.prep EXCEPT ![h] = q] /\ cu'.next = cu.next /\ cu'.pc = cu.pc
        BY <2>1, <2>8, <3>1 DEF IInv, CatchUpShape, CatchUpRun
      <3>4. PrepOnChain'
        BY <2>4, <3>2, <3>3, PrepUpdated
      <3>5. RunOnIndex'
        BY <2>4, <3>3, RunFrame DEF IInv
      <3> QED
        BY <2>4, <2>6, <2>8, <3>4, <3>5, HeadSame
    <2> QED
      BY <1>8, <2>7, <2>8 DEF BatchFails
  <1>9. CASE CatchUpDone
    <2>1. UNCHANGED <<nodeVars, poison>> /\ sync' = sync /\ CatchUpEnds("ok")
      BY <1>9 DEF CatchUpDone, dbVars
    <2> QED
      BY <2>1, TipFrame, EndsKeepsHInv, PoisonFrame
  <1> QED
    BY <1>1, <1>2, <1>3, <1>4, <1>5, <1>6, <1>7, <1>8, <1>9 DEF CatchUp

LEMMA PipelineChainStep ==
    ASSUME IInv, IInv', HInv, Pipeline \/ RedriveTimer
    PROVE  HInv'
  <1>1. CASE PipeCatchUp
    <2>1. UNCHANGED <<nodeVars, poison, live>> /\ sync' = sync /\ CatchUpCalled
      BY <1>1 DEF PipeCatchUp, dbVars
    <2>2. TipOnChain' /\ Grows
      BY <2>1, TipFrame DEF HInv
    <2> QED
      BY <2>1, <2>2, CalledRun, HeadSame, PoisonFrame DEF HInv
  <1>2. CASE PipeResumes \/ SubscribeLive \/ (\E kind \in Faults : SubscribeFails(kind)) \/ PipeDone
             \/ RedriveTimer
    BY <1>2, HFrame DEF PipeResumes, SubscribeLive, SubscribeFails, PipeDone, RedriveTimer, dbVars
  <1>3. CASE MarkSynced \/ PipeFails
    <2>1. sync'.tip = sync.tip
      BY <1>3 DEF MarkSynced, PipeFails, ErrorRecorded, IInv, IndexShape
    <2> QED
      BY <1>3, <2>1, HFrame DEF MarkSynced, PipeFails
  <1> QED
    BY <1>1, <1>2, <1>3 DEF Pipeline

LEMMA HandlerChainStep ==
    ASSUME IInv, IInv', HInv, FixedChain, Handler
    PROVE  HInv'
  <1> USE DEF HInv
  <1>1. CASE ReadHead
    <2>1. UNCHANGED <<nodeVars, poison>> /\ sync' = sync /\ live.pc = "head"
      BY <1>1 DEF ReadHead, dbVars
    <2>2. TipOnChain' /\ Grows
      BY <2>1, TipFrame
    <2>3. PrepOnChain' /\ RunOnIndex'
      BY <1>1, <2>2, CalledRun, PrepFrame, RunFrame DEF ReadHead, IInv
    <2>4. /\ live'.head = live.head /\ live'.block = live.block /\ live'.res = live.res
          /\ live'.pc \in {"drain", "waitHead", "check"}
          /\ live'.pc = "check" => sync.tip # Null /\ Height(live.head) <= IndexedHeight + 1
      <3>1. Height(live.head) \in Nat /\ IndexedHeight \in Nat
        BY <2>1, PathFacts DEF IInv, HandlerShape, IndexShape, IndexedHeight
      <3> QED
        BY <1>1, <3>1 DEF ReadHead, IInv, HandlerShape, HandlerRun
    <2>5. HeadOnChain'
      <3>1. CASE live'.pc # "check"
        BY <2>1, <2>2, <2>4, <3>1, HeadFrame DEF HeadOnChain
      <3>2. CASE live'.pc = "check"
        <4>1. Height(live.head) \in Nat /\ Height(sync.tip) \in Nat
          BY <2>1, <2>4, <3>2, PathFacts DEF IInv, HandlerShape, IndexShape
        <4>2. IndexedUpTo(Height(live.head) - 1)
          BY <2>4, <3>2, <4>1 DEF IndexedUpTo, IndexedHeight
        <4> QED
          BY <2>1, <2>4, <3>2, <4>2 DEF HeadOnChain, IndexedUpTo, nodeVars, Canonical
      <3> QED
        BY <3>1, <3>2
    <2> QED
      BY <2>1, <2>2, <2>3, <2>5, PoisonFrame
  <1>2. CASE CheckForReorg
    <2> DEFINE b == live.head
               h == Height(b)
    <2>1. UNCHANGED <<nodeVars, poison, cu>> /\ sync' = sync /\ live.pc = "check"
      BY <1>2 DEF CheckForReorg, dbVars
    <2>2. TipOnChain' /\ Grows
      BY <2>1, TipFrame
    <2>3. PrepOnChain' /\ RunOnIndex'
      BY <2>1, <2>2, PrepFrame, RunFrame DEF IInv
    <2>4. /\ b \in Path /\ h \in Nat /\ h <= Height(tip) /\ b = Canonical(h)
          /\ IndexedUpTo(h - 1) /\ sync.tip # Null /\ Height(tip) \in Nat /\ tip \in Path
      BY <2>1, PathFacts DEF IInv, HandlerShape, NodeShape, HeadOnChain
    <2> HIDE DEF h, b
    <2>5. /\ Height(sync.tip) \in Nat
          /\ \A c \in blocks : Height(c) \in 0..Height(sync.tip) /\ c = Canonical(Height(c))
          /\ \A g \in 0..Height(sync.tip) : Canonical(g) \in blocks
          /\ sync.tip = Canonical(Height(sync.tip))
      BY <2>4, BlocksOnChain DEF TipOnChain
    <2>6. IndexedHeight = Height(sync.tip) /\ h <= Height(sync.tip) + 1
      BY <2>4, <2>5 DEF IndexedUpTo, IndexedHeight
    <2>7. BlockAt(h) = Null \/ BlockAt(h) = b
      BY <2>4, <2>5 DEF BlockAt, BlocksAt
    <2>8. h # 0 => Parent(b) = Canonical(h - 1)
      <3> SUFFICES ASSUME h # 0 PROVE Parent(b) = Canonical(h - 1)
        OBVIOUS
      <3>1. Height(b) = h
        BY DEF h
      <3>2. Parent(b) = Ancestor(b, h - 1)
        BY <2>4, <3>1, ParentFacts
      <3>3. h \in 0..Height(tip) /\ h - 1 \in 0..h
        BY <2>4
      <3>4. Ancestor(Canonical(h), h - 1) = Canonical(h - 1)
        BY <2>4, <3>3, AncestorOfAncestor DEF Canonical
      <3> QED
        BY <2>4, <3>2, <3>4
    <2>9. (h # 0 /\ Parent(b) # sync.tip) => h <= Height(sync.tip) /\ BlockAt(h - 1) = Parent(b)
      <3> SUFFICES ASSUME h # 0, Parent(b) # sync.tip
                   PROVE  h <= Height(sync.tip) /\ BlockAt(h - 1) = Parent(b)
        OBVIOUS
      <3>1. h # Height(sync.tip) + 1
        BY <2>4, <2>5, <2>8
      <3>2. h <= Height(sync.tip) /\ h - 1 \in 0..Height(sync.tip) /\ h - 1 \in Nat /\ h - 1 <= Height(tip)
        BY <2>4, <2>5, <2>6, <3>1
      <3>3. Canonical(h - 1) \in blocks /\ Height(Canonical(h - 1)) = h - 1
        BY <2>5, <3>2, CanonicalFacts DEF IInv
      <3>4. \A c \in blocks : Height(c) = h - 1 => c = Canonical(h - 1)
        BY <2>5
      <3>5. BlockAt(h - 1) = Canonical(h - 1)
        BY <3>3, <3>4 DEF BlockAt, BlocksAt
      <3> QED
        BY <2>8, <3>2, <3>5
    <2>10. /\ live'.head = b /\ live'.res = live.res
           /\ live'.pc \in {"store", "compare"}
           /\ live'.pc = "compare" => live'.block = b
      <3>1. \/ live' = [live EXCEPT !.pc = "store"]
            \/ live' = [live EXCEPT !.pc = "compare", !.block = BlockAt(h)] /\ BlockAt(h) # Null
        <4>1. ~(h > IndexedHeight + 1)
          BY <2>4, <2>5, <2>6
        <4>2. (h # 0 /\ Parent(b) # sync.tip) => ~(h > IndexedHeight \/ BlockAt(h - 1) # Parent(b))
          BY <2>4, <2>5, <2>6, <2>9
        <4> QED
          BY <1>2, <2>4, <4>1, <4>2 DEF CheckForReorg, b, h
      <3> QED
        BY <2>7, <3>1 DEF b, IInv, HandlerShape, HandlerRun
    <2>11. HeadOnChain'
      BY <2>1, <2>4, <2>10 DEF HeadOnChain, b, h, IndexedUpTo, nodeVars, Canonical
    <2> QED
      BY <2>1, <2>2, <2>3, <2>11, PoisonFrame
  <1>3. CASE CompareWithNode
    <2>1. UNCHANGED <<nodeVars, poison, cu>> /\ sync' = sync /\ live.pc = "compare"
      BY <1>3 DEF CompareWithNode, dbVars
    <2>2. TipOnChain' /\ Grows
      BY <2>1, TipFrame
    <2>3. PrepOnChain' /\ RunOnIndex'
      BY <2>1, <2>2, PrepFrame, RunFrame DEF IInv
    <2>4. live' = [live EXCEPT !.pc = "store", !.block = Null]
      BY <1>3, <2>1 DEF CompareWithNode, HeadOnChain
    <2>5. live'.pc = "store" /\ live'.head = live.head /\ live'.res = live.res
      BY <2>4 DEF IInv, HandlerShape, HandlerRun
    <2>6. HeadOnChain'
      BY <2>1, <2>5 DEF HeadOnChain, IndexedUpTo, nodeVars, Canonical
    <2> QED
      BY <2>1, <2>2, <2>3, <2>6, PoisonFrame
  <1>4. CASE FindForkPoint \/ HandleReorg \/ ReindexBranch
    BY <1>4 DEF FindForkPoint, HandleReorg, ReindexBranch, HeadOnChain
  <1>5. CASE FetchHead
    <2>1. UNCHANGED <<nodeVars, poison, cu>> /\ sync' = sync /\ live.pc = "store"
      BY <1>5 DEF FetchHead, dbVars
    <2>2. TipOnChain' /\ Grows
      BY <2>1, TipFrame
    <2>3. PrepOnChain' /\ RunOnIndex'
      BY <2>1, <2>2, PrepFrame, RunFrame DEF IInv
    <2>4. /\ live'.head = live.head /\ live'.res = live.res
          /\ live'.pc \in {"stored", "persist"}
          /\ live'.pc = "persist" => live'.block = Canonical(Height(live.head))
      BY <1>5 DEF FetchHead, IInv, HandlerShape, HandlerRun
    <2>5. HeadOnChain'
      BY <2>1, <2>4 DEF HeadOnChain, IndexedUpTo, nodeVars, Canonical
    <2> QED
      BY <2>1, <2>2, <2>3, <2>5, PoisonFrame
  <1>6. CASE PersistHead
    <2>1. UNCHANGED <<nodeVars, poison, cu>> /\ live.pc = "persist"
      BY <1>6 DEF PersistHead
    <2>2. PICK h \in Nat : h = Height(live.head)
      BY <2>1, PathFacts DEF IInv, HandlerShape
    <2>3. h <= Height(tip) /\ live.block = Canonical(h) /\ IndexedUpTo(h - 1)
      BY <2>1, <2>2 DEF HeadOnChain
    <2>4. TipOnChain' /\ Grows
      <3>1. CASE live.block \in blocks
        BY <1>6, <2>1, <3>1, TipFrame DEF PersistHead
      <3>2. CASE live.block \notin blocks
        <4>1. sync'.tip = Canonical(h)
          BY <1>6, <2>3, <3>2 DEF PersistHead, Stored, IndexedTo, IInv, IndexShape
        <4> QED
          BY <2>1, <2>3, <3>2, <4>1, StoringKeepsChain
      <3> QED
        BY <3>1, <3>2
    <2>5. PrepOnChain' /\ RunOnIndex'
      BY <2>1, <2>4, PrepFrame, RunFrame DEF IInv
    <2>6. live'.pc = "stored" /\ live'.head = live.head /\ live'.res = live.res
      BY <1>6 DEF PersistHead, IInv, HandlerShape, HandlerRun
    <2>7. HeadOnChain'
      BY <2>1, <2>4, <2>6, HeadFrame DEF HeadOnChain
    <2> QED
      BY <2>1, <2>4, <2>5, <2>7, PoisonFrame
  <1>7. CASE HeadStored
    <2>1. UNCHANGED <<nodeVars, poison, cu>> /\ live.pc = "stored"
      BY <1>7 DEF HeadStored
    <2>2. sync'.tip = sync.tip
      BY <1>7 DEF HeadStored, IInv, IndexShape
    <2>3. TipOnChain' /\ Grows
      BY <2>1, <2>2, TipFrame
    <2>4. PrepOnChain' /\ RunOnIndex'
      BY <2>1, <2>3, PrepFrame, RunFrame DEF IInv
    <2>5. live'.pc = "drain" /\ live'.head = live.head /\ live'.res = live.res
      BY <1>7 DEF HeadStored, IInv, HandlerShape, HandlerRun
    <2>6. HeadOnChain'
      BY <2>1, <2>3, <2>5, HeadFrame DEF HeadOnChain
    <2> QED
      BY <2>1, <2>3, <2>4, <2>6, PoisonFrame
  <1>8. CASE \E kind \in {"transient", "permanent"} : HeadFails(kind)
    <2>1. PICK kind \in {"transient", "permanent"} : HeadFails(kind)
      BY <1>8
    <2>2. UNCHANGED <<nodeVars, cu>> /\ live.pc # "idle"
      BY <2>1 DEF HeadFails, HeadError
    <2>3. sync'.tip = sync.tip
      BY <2>1 DEF HeadFails, ErrorRecorded, IInv, IndexShape
    <2>4. TipOnChain' /\ Grows
      BY <2>2, <2>3, TipFrame
    <2>5. PrepOnChain' /\ RunOnIndex'
      BY <2>2, <2>4, PrepFrame, RunFrame DEF IInv
    <2>6. live'.pc = "drain" /\ live'.head = live.head /\ live'.res = "none"
      BY <2>1 DEF HeadFails, IInv, HandlerShape, HandlerRun
    <2>7. HeadOnChain'
      BY <2>2, <2>4, <2>6, HeadFrame
    <2>8. kind = "permanent" => Height(live.head) \in Bad
      <3>1. live.pc = "persist" => Storable(live.block)
        <4> SUFFICES ASSUME live.pc = "persist" PROVE Storable(live.block)
          OBVIOUS
        <4>1. PICK h \in Nat : h = Height(live.head)
          BY <2>2, PathFacts DEF IInv, HandlerShape
        <4> QED
          BY <4>1, CanonicalStorable DEF HeadOnChain
      <3> QED
        BY <2>1, <3>1 DEF HeadFails, HeadError, HeadOnChain, FixedChain
    <2>9. HaltedMeansBadBlock'
      BY <2>1, <2>8 DEF HeadFails, HaltedMeansBadBlock
    <2> QED
      BY <2>4, <2>5, <2>7, <2>9
  <1>9. CASE HeadCaughtUp
    <2>1. UNCHANGED <<nodeVars, poison, cu>> /\ sync' = sync /\ live.pc # "idle"
      BY <1>9 DEF HeadCaughtUp, dbVars
    <2>2. TipOnChain' /\ Grows
      BY <2>1, TipFrame
    <2>3. PrepOnChain' /\ RunOnIndex'
      BY <2>1, <2>2, PrepFrame, RunFrame DEF IInv
    <2>4. live'.pc \in {"idle", "drain"} /\ live'.head = live.head /\ live'.res = "none"
      BY <1>9 DEF HeadCaughtUp, IInv, HandlerShape, HandlerRun
    <2>5. HeadOnChain'
      BY <2>1, <2>2, <2>4, HeadFrame
    <2> QED
      BY <2>1, <2>2, <2>3, <2>5, PoisonFrame
  <1>10. CASE DrainHeads
    <2>1. UNCHANGED <<nodeVars, poison>> /\ sync' = sync /\ live.pc = "drain"
      BY <1>10 DEF DrainHeads, dbVars
    <2>2. TipOnChain' /\ Grows
      BY <2>1, TipFrame
    <2>3. PrepOnChain' /\ RunOnIndex'
      BY <1>10, <2>2, CalledRun, PrepFrame, RunFrame DEF DrainHeads, IInv
    <2>4. /\ live'.pc = "idle" \/ (live'.head = live.head /\ live'.pc \in {"drain", "waitDrain"})
          /\ live'.res \in {"none", live.res}
      BY <1>10 DEF DrainHeads, IdleLive, IInv, HandlerShape, HandlerRun
    <2>5. HeadOnChain'
      BY <2>1, <2>2, <2>4, HeadFrame DEF HeadOnChain
    <2> QED
      BY <2>1, <2>2, <2>3, <2>5, PoisonFrame
  <1> QED
    BY <1>1, <1>2, <1>3, <1>4, <1>5, <1>6, <1>7, <1>8, <1>9, <1>10 DEF Handler

LEMMA TrailingPassChainStep ==
    ASSUME IInv, IInv', HInv, TrailingPass
    PROVE  HInv'
  <1>1. sync'.tip = sync.tip
    BY DEF TrailingPass, PassReads, PassSelects, PassDecodes, PassAdvances, dbVars, IInv, IndexShape
  <1> QED
    BY <1>1, HFrame DEF TrailingPass, PassReads, PassSelects, PassDecodes, PassAdvances, crawlerVars

\* A new crawler object has nothing in flight.
LEMMA FreshHInv ==
    ASSUME FreshCrawler, TipOnChain'
    PROVE  HInv'
  <1>1. cu' = IdleCu /\ live' = IdleLive /\ poison' = None
    BY DEF FreshCrawler
  <1>2. PrepOnChain' /\ RunOnIndex'
    BY <1>1, IdleFacts, NoRun
  <1>3. HeadOnChain'
    BY <1>1 DEF HeadOnChain, IdleLive
  <1> QED
    BY <1>1, <1>2, <1>3 DEF HInv, HaltedMeansBadBlock

LEMMA EnvironmentChainStep ==
    ASSUME IInv, IInv', HInv, FixedChain, Environment
    PROVE  HInv'
  <1>1. CASE NewBlock
    <2>1. /\ tip' = Append(tip, reorgs) /\ reorgs = 0 /\ reorgs' = reorgs
          /\ UNCHANGED <<cu, live, poison>> /\ sync' = sync
      BY <1>1 DEF NewBlock, HInv, TipOnChain, dbVars, crawlerVars
    <2>2. /\ tip \in Seq(Nat) /\ tip' \in Seq(Nat) /\ Len(tip) \in Nat \ {0} /\ Len(tip') = Len(tip) + 1
          /\ \A i \in 1..Len(tip) : tip'[i] = tip[i]
          /\ tip \in Path /\ tip' \in Path
      BY <2>1, PathFacts DEF IInv, NodeShape, Path
    <2>3. Height(tip) \in Nat /\ Height(tip') = Height(tip) + 1 /\ Height(tip) + 1 = Len(tip)
      BY <2>2 DEF Height
    <2>4. \A h \in 0..Height(tip) : Ancestor(tip', h) = Ancestor(tip, h)
      <3> TAKE h \in 0..Height(tip)
      <3>1. h \in 0..Height(tip') /\ \A i \in 1..(h + 1) : i \in 1..Len(tip)
        BY <2>3
      <3> DEFINE a == Ancestor(tip, h)
                 c == Ancestor(tip', h)
      <3>2. a \in Path /\ Height(a) = h /\ \A i \in 1..(h + 1) : a[i] = tip[i]
        BY <2>2, AncestorFacts
      <3>3. c \in Path /\ Height(c) = h /\ \A i \in 1..(h + 1) : c[i] = tip'[i]
        BY <2>2, <3>1, AncestorFacts
      <3> HIDE DEF a, c
      <3>4. Len(a) = h + 1 /\ Len(c) = h + 1
        BY <3>2, <3>3, PathFacts DEF Height
      <3>5. \A i \in 1..(h + 1) : c[i] = a[i]
        BY <2>2, <3>1, <3>2, <3>3
      <3>6. c = a
        BY <3>2, <3>3, <3>4, <3>5, SeqEqual DEF Path
      <3> QED
        BY <3>6 DEF a, c
    <2>5. Grows
      BY <2>1, <2>3, <2>4 DEF Grows, Canonical
    <2>6. TipOnChain'
      <3>1. sync.tip # Null => Height(sync.tip) \in 0..Height(tip)
        BY <2>3, PathFacts DEF IInv, IndexShape, HInv, TipOnChain
      <3> QED
        BY <2>1, <2>3, <2>4, <3>1 DEF HInv, TipOnChain, Canonical
    <2> QED
      BY <2>1, <2>5, <2>6, PrepFrame, RunFrame, HeadSame, PoisonFrame DEF HInv, IInv
  <1>2. CASE \E b \in Announced : HeadArrives(b)
    <2>1. PICK b \in Announced : HeadArrives(b)
      BY <1>2
    <2>2. UNCHANGED <<nodeVars, poison, cu>> /\ sync' = sync
      BY <2>1 DEF HeadArrives, dbVars
    <2>3. TipOnChain' /\ Grows
      BY <2>2, TipFrame DEF HInv
    <2>4. PrepOnChain' /\ RunOnIndex'
      BY <2>2, <2>3, PrepFrame, RunFrame DEF HInv, IInv
    <2>5. Height(b) <= Height(tip) /\ b = Canonical(Height(b))
      <3>1. PICK h \in Heights : b = Canonical(h) /\ h \in {Height(tip), Height(tip) - 1}
        BY DEF Announced
      <3>2. h \in Nat /\ h <= Height(tip)
        BY <3>1, HeightsFacts, PathFacts DEF IInv, NodeShape
      <3> QED
        BY <3>1, <3>2, CanonicalFacts DEF IInv
    <2>6. CASE live' = live
      BY <2>2, <2>3, <2>4, <2>6, HeadSame, PoisonFrame DEF HInv
    <2>7. CASE live' = [IdleLive EXCEPT !.pc = "head", !.head = b]
      <3>1. live'.pc = "head" /\ live'.head = b /\ live'.res = "none"
        BY <2>7 DEF IdleLive
      <3>2. HeadOnChain'
        BY <2>2, <2>5, <3>1 DEF HeadOnChain, nodeVars, Canonical
      <3> QED
        BY <2>2, <2>3, <2>4, <3>2, PoisonFrame DEF HInv
    <2> QED
      BY <2>1, <2>6, <2>7 DEF HeadArrives
  <1>3. CASE \E h \in Heights, n \in 1..2 : NodeReorg(h, n)
    BY <1>3 DEF NodeReorg, FixedChain, HInv, TipOnChain
  <1>4. CASE ConnectionLost \/ Reconnected
    BY <1>4, HFrame DEF ConnectionLost, Reconnected, dbVars, crawlerVars
  <1>5. CASE Restart
    <2>1. UNCHANGED nodeVars /\ sync'.tip = sync.tip /\ FreshCrawler
      BY <1>5 DEF Restart, IInv, IndexShape
    <2> QED
      BY <2>1, TipFrame, FreshHInv DEF HInv
  <1>6. CASE \E h \in Heights : ReindexFromHeight(h)
    <2>1. PICK h \in Heights : ReindexFromHeight(h)
      BY <1>6
    <2>2. UNCHANGED nodeVars /\ FreshCrawler /\ blocks' \subseteq blocks
      BY <2>1 DEF ReindexFromHeight, RolledBack
    <2>3. sync'.tip # Null => sync'.tip \in blocks
      <3> SUFFICES ASSUME sync'.tip # Null PROVE sync'.tip \in blocks
        OBVIOUS
      <3>1. sync'.tip \in Path /\ blocks' = Chain(sync'.tip)
        BY DEF IInv, IndexShape, Chain
      <3> QED
        BY <2>2, <3>1, ChainFacts
    <2>4. sync'.tip # Null => Height(sync'.tip) <= Height(tip) /\ sync'.tip = Canonical(Height(sync'.tip))
      <3> SUFFICES ASSUME sync'.tip # Null
                   PROVE  Height(sync'.tip) <= Height(tip) /\ sync'.tip = Canonical(Height(sync'.tip))
        OBVIOUS
      <3>1. PICK b \in blocks : b = sync'.tip
        BY <2>3
      <3>2. sync.tip # Null
        BY DEF IInv, IndexShape
      <3>3. Height(b) \in 0..Height(sync.tip) /\ b = Canonical(Height(b)) /\ Height(sync.tip) <= Height(tip)
            /\ Height(sync.tip) \in Nat /\ Height(tip) \in Nat
        BY <3>2, BlocksOnChain, PathFacts DEF HInv, IInv, NodeShape
      <3> QED
        BY <3>1, <3>3
    <2>5. TipOnChain'
      BY <2>2, <2>4 DEF HInv, TipOnChain, nodeVars, Canonical
    <2> QED
      BY <2>2, <2>5, FreshHInv
  <1>7. CASE \E h \in Heights : RedecodeFromHeight(h)
    <2>1. sync'.tip = sync.tip
      BY <1>7 DEF RedecodeFromHeight, IInv, IndexShape
    <2> QED
      BY <1>7, <2>1, HFrame DEF RedecodeFromHeight, crawlerVars
  <1> QED
    BY <1>1, <1>2, <1>3, <1>4, <1>5, <1>6, <1>7 DEF Environment

LEMMA NextHInv == StartsAtGenesis /\ FixedChain /\ IInv /\ IInv' /\ HInv /\ [Next]_vars => HInv'
  <1> SUFFICES ASSUME StartsAtGenesis, FixedChain, IInv, IInv', HInv, [Next]_vars PROVE HInv'
    OBVIOUS
  <1>1. CASE UNCHANGED vars
    BY <1>1, HFrame DEF vars, nodeVars, dbVars, crawlerVars
  <1>2. CASE Next
    BY <1>2, CatchUpChainStep, PipelineChainStep, HandlerChainStep, TrailingPassChainStep,
       EnvironmentChainStep DEF Next
  <1> QED
    BY <1>1, <1>2

\* While the node's chain does not change, indexing halts only at a block that cannot be indexed: no race
\* of the catch-up with the head handler, no lost connection, restart or reindexFromHeight makes a block
\* that fits look as if its parent were missing (persistFromNode with requireParent, poisonBlock). With forks this
\* does not hold (run halt_at_fork).
THEOREM HaltedMeansBadBlockAlways ==
    ASSUME StartsAtGenesis, FixedChain
    PROVE  Spec => []HaltedMeansBadBlock
  <1>1. IInv /\ HInv /\ [Next]_vars => IInv' /\ HInv'
    BY NextIInv, NextHInv
  <1>2. HInv => HaltedMeansBadBlock
    BY DEF HInv
  <1> QED
    BY <1>1, <1>2, InitIInv, InitHInv, PTL DEF Spec
=============================================================================
