---------------------------- MODULE SponsorPolicy ----------------------------
(***************************************************************************)
(* What a sponsor pays for: the platform's policy, read from a file that   *)
(* operators edit while the server runs, narrowed by the caller's grant    *)
(* (submission/sponsor-policy.ts), and the check of a caller's transaction *)
(* against the result in the worker (midnight/worker/sponsor.ts).          *)
(*                                                                         *)
(* A list is a set. In a list of contracts or circuits the empty one means *)
(* "all", in a list of token types it means "none"; the operators keep     *)
(* that reading, because mixing the two up is what could go wrong. The     *)
(* rule "*" of a contract is the set of all circuits.                      *)
(***************************************************************************)
EXTENDS SponsorTx

CONSTANTS
    Contracts,   \* contract addresses
    Circuits,    \* circuit names
    Floors,      \* policies an operator writes into the file
    Grants,      \* policies of grants
    MaxWrites    \* bound: changes of the file

VARIABLES
    disk,   \* the file: version (its time and size), whether it is readable, its policy
    cache,  \* fileCache: the version looked at, its policy and the last good one ({}: none)
    force   \* the policy getGlobalSponsorPolicy last returned ({}: it refused)

policyVars == <<disk, cache, force>>

Flags == {"deploy", "swaps", "transfers", "unshielded"}

-----------------------------------------------------------------------------
(* The effective policy.                                                   *)

Refused == [ok |-> FALSE]

\* a rule makes its contract allowed, unless the list means "all"
readPolicyFile(raw) ==
    [raw EXCEPT !.contracts = IF @ = {} THEN {} ELSE @ \cup DOMAIN raw.rules]

\* Mutant: lists without a common entry are not refused, and their empty intersection then means "all".
NeverRefused(floor, grant) == FALSE

\* narrowing a list in which empty means "all"; NoOverlap is the error
NoOverlap(floor, grant) == floor # {} /\ grant # {} /\ floor \cap grant = {}

intersect(floor, grant) ==
    CASE grant = {} -> floor
      [] floor = {} -> grant
      [] OTHER      -> floor \cap grant

narrowCircuits(floor, grantList, contracts) ==
    LET flat == IF floor.circuits = {} THEN grantList ELSE grantList \cap floor.circuits
        narrowed == [a \in DOMAIN floor.rules |-> floor.rules[a] \cap grantList]
        usable == {a \in DOMAIN narrowed : narrowed[a] # {} /\ (contracts = {} \/ a \in contracts)}
        Narrowed(cs, ks, rs) == [ok |-> TRUE, contracts |-> cs, circuits |-> ks, rules |-> rs]
    IN  CASE grantList = {} -> Narrowed(contracts, floor.circuits, floor.rules)
          [] grantList # {} /\ flat # {} -> Narrowed(contracts, flat, narrowed)
          [] grantList # {} /\ flat = {} /\ usable # {} ->
                Narrowed(usable, grantList, [a \in usable |-> narrowed[a]])
          [] OTHER -> Refused

\* minted types of the whole platform join the list while they are shared
floorTokenTypes(floor, shared) ==
    floor.tokens \cup (IF floor.mints /\ floor.share THEN shared ELSE {})

\* an empty list of the grant keeps the platform's
narrowUnshieldedTypes(floor, grant) == IF grant = {} THEN floor ELSE grant \cap floor

effectiveSponsorPolicy(floor, grant, shared) ==
    LET narrowed == narrowCircuits(floor, grant.circuits, intersect(floor.contracts, grant.contracts))
        floorTokens == floorTokenTypes(floor, shared)
        listed == IF grant.tokens = {} THEN floorTokens ELSE grant.tokens \cap floorTokens
    IN  IF NoOverlap(floor.contracts, grant.contracts) \/ ~narrowed.ok
        THEN Refused
        ELSE [ok |-> TRUE,
              \* what the grant deployed or minted itself is added after narrowing
              contracts |-> IF narrowed.contracts = {} THEN {} ELSE narrowed.contracts \cup grant.deployed,
              circuits |-> narrowed.circuits,
              rules |-> narrowed.rules,
              own |-> grant.deployed,
              tokens |-> listed \cup (IF floor.mints THEN grant.minted ELSE {}),
              mints |-> floor.mints,
              flags |-> floor.flags \cap grant.flags,
              utokens |-> narrowUnshieldedTypes(floor.utokens, grant.utokens)]

\* why a grant cannot be written: it would allow nothing, or names a type the platform does not list
grantPolicyConflict(floor, grant, shared) ==
    \/ ~effectiveSponsorPolicy(floor, grant, shared).ok
    \/ ~(grant.utokens \subseteq floor.utokens)
    \/ ~(grant.tokens \subseteq floorTokenTypes(floor, shared))

-----------------------------------------------------------------------------
(* The policy file.                                                        *)

PolicyInit ==
    /\ \E p \in Floors, st \in {"good", "invalid", "missing"} : disk = [version |-> 0, state |-> st, policy |-> p]
    /\ cache = [version |-> -1, policy |-> {}, lastGood |-> {}]
    /\ force = {}

\* an operator replaces, breaks or removes the file; time or size change with it
WriteFile ==
    /\ disk.version < MaxWrites
    /\ \/ \E p \in Floors :
             disk' = [version |-> disk.version + 1, state |-> "good", policy |-> p]
       \/ \E st \in {"invalid", "missing"} :
             disk' = [disk EXCEPT !.version = @ + 1, !.state = st]
    /\ UNCHANGED <<cache, force>>

\* what fileCache becomes when a request asks for the policy
LoadFile ==
    CASE disk.state # "missing" /\ cache.version = disk.version -> cache
      [] disk.state = "missing" -> [version |-> -1, policy |-> {}, lastGood |-> cache.lastGood]
      [] disk.state = "invalid" /\ cache.version # disk.version ->
            [version |-> disk.version, policy |-> {}, lastGood |-> cache.lastGood]
      [] disk.state = "good" /\ cache.version # disk.version ->
            LET p == {readPolicyFile(disk.policy)}
            IN  [version |-> disk.version, policy |-> p, lastGood |-> p]

\* a request, a grant being written or the admin view; refused when no version was ever good
getGlobalSponsorPolicy ==
    /\ cache' = LoadFile
    /\ force' = IF cache'.policy # {} THEN cache'.policy ELSE cache'.lastGood
    /\ UNCHANGED disk

PolicyNext == WriteFile \/ getGlobalSponsorPolicy

PolicySpec == PolicyInit /\ [][PolicyNext]_policyVars

-----------------------------------------------------------------------------
(* Properties.                                                             *)

\* what the lists of one party say of a call, each read by itself
Says(p, c, k) ==
    /\ p.contracts = {} \/ c \in p.contracts
    /\ IF c \in DOMAIN p.rules THEN k \in p.rules[c] ELSE p.circuits = {} \/ k \in p.circuits

\* Whatever the two lists are, narrowing (effectiveSponsorPolicy) and the worker's check together
\* let exactly those calls through that the platform and the grant both allow, and every call of a
\* contract deployed under the grant; a refusal of the whole grant leaves out no other call.
PolicyIsIntersection ==
    \A floor \in force, g \in Grants, c \in Contracts, k \in Circuits :
        LET p == effectiveSponsorPolicy(floor, g, {})
            both == /\ Says(floor, c, k)
                    /\ g.contracts = {} \/ c \in g.contracts
                    /\ g.circuits = {} \/ k \in g.circuits
        IN  IF p.ok THEN callSponsorable(p, c, k) <=> both \/ c \in g.deployed
                    ELSE ~both

=============================================================================
