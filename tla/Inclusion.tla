----------------------------- MODULE Inclusion ------------------------------
(***************************************************************************)
(* The check of an inclusion package (sdk/src/inclusion.ts with            *)
(* inclusion-package.ts, identity.ts, deployments.ts and tree.ts; the      *)
(* command verify-inclusion and the inclusion page of the dashboard).      *)
(*                                                                         *)
(* An issuer attests a tree of leaves and then gives each customer a       *)
(* package. The customer checks it, perhaps much later, while attestations *)
(* and generations are added. A hash is its list of inputs, so two hashes  *)
(* are equal exactly when their inputs are (collision resistance). A file  *)
(* is a package of some attestation in which one field may be different.   *)
(***************************************************************************)
EXTENDS Naturals, Sequences, FiniteSets

CONSTANTS
  Depth,            \* the tree depth of each registry, a sequence
  Elsewhere,        \* the registries of another network than the configured one
  Asset, Customer,  \* the assets and the customer identifiers
  NoAddress,        \* an asset field that is no address
  Padding,          \* PADDING_LEAF_ID
  Change,           \* the fields that may be different in a file
  Window,           \* ATTESTATION_MAX_AGE_LEDGERS
  MaxLedger,        \* bound: ledgers
  MaxAttestations   \* bound: attestations of all registries

Registry == DOMAIN Depth

\* The network of a generation: TRUE for another one than the configured.
OnOther(r) == r \in Elsewhere

\* What may be different in a file: nothing, or one field of the package.
Changes == {"none", "format", "network", "registry", "asset", "snapshot", "context",
            "attestation", "index", "id", "balance", "siblings"}

ASSUME InclusionAssumption ==
  /\ Depth \in Seq(Nat \ {0}) /\ Depth # <<>>
  /\ Elsewhere \subseteq Registry /\ Change \subseteq Changes
  /\ Padding \notin Customer /\ NoAddress \notin Asset \cup Customer
  /\ {Window, MaxLedger, MaxAttestations} \subseteq Nat /\ MaxLedger # 0

VARIABLES
  ledger,    \* the latest ledger
  attested,  \* the attestations of each registry and asset
  recorded,  \* the registries in the deployments file of the verifier
  check      \* the check that runs

vars == <<ledger, attested, recorded, check>>

-----------------------------------------------------------------------------
(* hashes.ts and tree.ts *)

contextHash(a, s) == <<"context", a, s>>
deriveSalt(ctx, i) == <<"salt", ctx, i>>
balanceCommitment(b, salt) == <<"balance", b, salt>>
leafHash(id, commitment) == <<"leaf", id, commitment>>
nodeHash(l, r) == <<l, r>>

\* 2 ** depth: the leaves of a tree of this depth.
Capacity[d \in Nat] == IF d = 0 THEN 1 ELSE 2 * Capacity[d - 1]

Index(d) == 0..(Capacity[d] - 1)

\* The levels of a tree: level 0 holds the leaves, and the fold of treeRoot
\* pairs the nodes of one level into the next.
Levels(leaves, d) ==
  LET level[l \in 0..d] ==
        IF l = 0 THEN leaves
        ELSE [j \in Index(d - l) |-> nodeHash(level[l - 1][2 * j], level[l - 1][2 * j + 1])]
  IN level

treeRoot(leaves, d) == Levels(leaves, d)[d][0]

\* index >> l: the position of the node above the leaf i in the level l.
Position(i) ==
  LET at[l \in Nat] == IF l = 0 THEN i ELSE at[l - 1] \div 2 IN at

\* The low bit of the position says on which side the node is.
rootFromPath(leaf, index, siblings) ==
  LET up[l \in 0..Len(siblings)] ==
        IF l = 0 THEN leaf
        ELSE IF (Position(index)[l - 1] % 2) = 0 THEN nodeHash(up[l - 1], siblings[l])
        ELSE nodeHash(siblings[l], up[l - 1])
  IN up[Len(siblings)]

\* A path that rootFromPath accepts; it throws for every other one.
PathFits(p, d) == Len(p.siblings) = d /\ p.leafIndex \in Index(d)

-----------------------------------------------------------------------------
(* Attestations and the packages that are made from them *)

\* Who stands at each index: a customer at most once, padding elsewhere.
Layouts(d) ==
  {t \in [Index(d) -> Customer \cup {Padding}] :
     \A i, j \in Index(d) : t[i] = t[j] /\ t[i] # Padding => i = j}

BalanceOf(id) == IF id = Padding THEN 0 ELSE 1

Leaf(ctx, id, i) ==
  leafHash(id, balanceCommitment(BalanceOf(id), deriveSalt(ctx, i)))

\* Attestation: the tree stays with its issuer, the registry stores the root.
Attestation(a, s, t, d) ==
  LET ctx == contextHash(a, s)
      leaves == [i \in Index(d) |-> Leaf(ctx, t[i], i)]
  IN [snapshotLedger |-> s, contextHash |-> ctx, layout |-> t,
      finalRoot |-> treeRoot(leaves, d)]

\* The package of the leaf i of an attestation, as the generator writes it.
Package(r, a, k, i) ==
  LET d == Depth[r]
      att == attested[r][a][k]
      level == Levels([j \in Index(d) |-> Leaf(att.contextHash, att.layout[j], j)], d)
      salt == deriveSalt(att.contextHash, i)
      b == BalanceOf(att.layout[i])
  IN [format |-> "identity", network |-> OnOther(r), registry |-> r, asset |-> a,
      snapshotLedger |-> att.snapshotLedger, contextHash |-> att.contextHash,
      attestationId |-> k, leafIndex |-> i, id |-> att.layout[i],
      commitment |-> balanceCommitment(b, salt), balance |-> b, salt |-> salt,
      siblings |-> [l \in 1..d |->
         LET n == Position(i)[l - 1] IN
         level[l - 1][IF (n % 2) = 0 THEN n + 1 ELSE n - 1]]]

\* A registry is named together with its network.
Moved(p, r) == [p EXCEPT !.registry = r, !.network = OnOther(r)]

\* The file, with one field that is different or none.
Altered(p, c) ==
  CASE c = "none" -> {p}
    [] c = "format" -> {[p EXCEPT !.format = f] : f \in {"plain", "unknown"}}
    [] c = "network" -> {[p EXCEPT !.network = ~@]}
    [] c = "registry" -> {Moved(p, r) : r \in Registry}
    [] c = "asset" -> {[p EXCEPT !.asset = a] : a \in Asset \cup {NoAddress}}
    [] c = "snapshot" -> {[p EXCEPT !.snapshotLedger = s] : s \in 1..MaxLedger}
    [] c = "context" -> {[p EXCEPT !.contextHash = contextHash(a, s)] : a \in Asset, s \in 1..MaxLedger}
    [] c = "attestation" -> {[p EXCEPT !.attestationId = k] : k \in 0..(MaxAttestations + 1)}
    [] c = "index" -> {[p EXCEPT !.leafIndex = i] : i \in Index(Len(p.siblings) + 1)}
    [] c = "id" -> {[p EXCEPT !.id = id] : id \in Customer \cup {Padding}}
    [] c = "balance" -> {[p EXCEPT !.balance = 2],
                         [p EXCEPT !.balance = 2, !.commitment = balanceCommitment(2, p.salt)]}
    [] c = "siblings" -> {[p EXCEPT !.siblings = Tail(@)],
                          [p EXCEPT !.siblings = Append(@, @[1])],
                          [p EXCEPT !.siblings = [l \in DOMAIN @ |-> @[Len(@) + 1 - l]]]}

-----------------------------------------------------------------------------
(* verifyInclusion *)

\* The state of one check. change, known, again and lost only serve the
\* properties: the field that differs, the records of the file when it was read,
\* whether an earlier check included the package, and whether a call got no
\* answer.
NoCheck == [pc |-> "idle", pkg |-> <<>>, identity |-> Padding, file |-> "ok",
            change |-> "none", known |-> {}, again |-> FALSE, lost |-> FALSE, verdict |-> "none",
            lapsed |-> FALSE, confirmed |-> FALSE]

Init ==
  /\ ledger = 1
  /\ attested = [r \in Registry |-> [a \in Asset |-> <<>>]]
  /\ recorded = {1}
  /\ check = NoCheck

Close ==
  /\ ledger < MaxLedger
  /\ ledger' = ledger + 1
  /\ UNCHANGED <<attested, recorded, check>>

\* submit_attestation appends to the history of the asset; a record stays.
\* (the registries of the configured network)
Attest(r, a, t) ==
  /\ Cardinality({ran \in Registry \X Asset \X (1..MaxAttestations) :
                    ran[3] <= Len(attested[ran[1]][ran[2]])}) < MaxAttestations
  /\ attested' = [attested EXCEPT ![r][a] = Append(@, Attestation(a, ledger, t, Depth[r]))]
  /\ UNCHANGED <<ledger, recorded, check>>

\* The deployments file appends one record for each generation.
Record(r) ==
  /\ r \notin recorded
  /\ recorded' = recorded \cup {r}
  /\ UNCHANGED <<ledger, attested, check>>

\* Faulty variant: the commitment of the file is not compared.
parsePackageTrusting(p) ==
  IF p.format = "unknown" THEN "unsupported-format"
  ELSE IF p.id = Padding \/ p.attestationId = 0 THEN "malformed"
  ELSE "ok"

\* The format first, then the fields; the commitment must open.
parsePackage(p) ==
  IF p.format = "unknown" THEN "unsupported-format"
  ELSE IF \/ p.id = Padding \/ p.attestationId = 0
          \/ balanceCommitment(p.balance, p.salt) # p.commitment THEN "malformed"
  ELSE "ok"

\* An identity file: Padding for none, NoAddress for an invalid one, else the
\* identifier that its email and code derive.
checkOwnIdentifier(p, identity) ==
  IF identity = Padding THEN "ok"
  ELSE IF p.format # "identity" THEN "unsupported-identifier-rule"
  ELSE IF identity = NoAddress THEN "invalid-identity"
  ELSE IF p.id # identity THEN "foreign-identifier"
  ELSE "ok"

\* The pair of a network and a registry must be in the file of the verifier.
findGeneration(p, file) ==
  IF file = "contradictory" THEN "invalid-deployments"
  ELSE IF file = "unreadable" THEN "none"
  ELSE IF p.registry \notin recorded \/ p.network # OnOther(p.registry) THEN "untrusted-deployment"
  ELSE "ok"

checkDepth(p) == IF PathFits(p, Depth[p.registry]) THEN "ok" ELSE "malformed"

\* The checks before the first call, in the order that the specification fixes.
LocalVerdict(p, identity, file) ==
  LET steps == <<parsePackage(p), checkOwnIdentifier(p, identity),
                 findGeneration(p, file), checkDepth(p)>>
      stops == {n \in DOMAIN steps : steps[n] # "ok"}
  IN IF stops = {} THEN "ok" ELSE steps[CHOOSE n \in stops : \A m \in stops : n <= m]

\* The customer gives no identity file or the own one; a different identity or
\* file of deployments is the one thing that differs.
Identities(c, own) == IF c = "none" THEN Customer \cup {Padding, NoAddress} ELSE {Padding, own}
Files(c) == IF c = "none" THEN {"ok", "contradictory", "unreadable"} ELSE {"ok"}

Begin(p, c, identity, file) ==
  /\ check.pc = "idle"
  /\ LET v == LocalVerdict(p, identity, file) IN
     check' = [NoCheck EXCEPT !.pkg = p, !.change = c, !.identity = identity, !.file = file,
                              !.known = recorded,
                              !.pc = IF v = "ok" THEN "read" ELSE "done",
                              !.verdict = IF v = "ok" THEN "none" ELSE v]
  /\ UNCHANGED <<ledger, attested, recorded>>

\* Faulty variant: the newest attestation of the asset.
StoredNewest(p) == attested[p.registry][p.asset][Len(attested[p.registry][p.asset])]

\* readStoredAttestation: the record with the identifier of the package.
Stored(p) == attested[p.registry][p.asset][p.attestationId]

\* What the record and the walked path decide.
Compared(p, att) ==
  IF att.snapshotLedger # p.snapshotLedger \/ att.contextHash # p.contextHash
  THEN "no-matching-attestation"
  ELSE IF ~PathFits(p, Depth[p.registry]) THEN "none"
  ELSE IF rootFromPath(leafHash(p.id, p.commitment), p.leafIndex, p.siblings) # att.finalRoot
  THEN "root-mismatch"
  ELSE "ok"

\* The endpoint is that of the configured network, and the asset of the file
\* must be an address: otherwise the call fails (see Lost).
Read ==
  LET p == check.pkg IN
  /\ check.pc = "read"
  /\ p.registry \notin Elsewhere /\ p.asset # NoAddress
  /\ IF p.attestationId > Len(attested[p.registry][p.asset])
     THEN check' = [check EXCEPT !.pc = "done", !.verdict = "no-matching-attestation"]
     ELSE LET v == Compared(p, Stored(p)) IN
          check' = [check EXCEPT !.pc = IF v = "ok" THEN "ledger" ELSE "done",
                                 !.verdict = IF v = "ok" THEN "none" ELSE v]
  /\ UNCHANGED <<ledger, attested, recorded>>

\* Inclusion and the age of the solvency claim are two statements.
ReadLedger ==
  /\ check.pc = "ledger"
  /\ check' = [check EXCEPT !.pc = "done", !.verdict = "included",
                            !.lapsed = ledger > check.pkg.snapshotLedger + Window,
                            !.confirmed = check.identity # Padding]
  /\ UNCHANGED <<ledger, attested, recorded>>

\* A call without an answer gives no verdict.
Lost ==
  /\ check.pc \in {"read", "ledger"}
  /\ check' = [check EXCEPT !.pc = "done", !.verdict = "none", !.lost = TRUE]
  /\ UNCHANGED <<ledger, attested, recorded>>

End ==
  /\ check.pc = "done"
  /\ check' = NoCheck
  /\ UNCHANGED <<ledger, attested, recorded>>

\* The customer checks an included package another time.
CheckAgain ==
  /\ check.pc = "done" /\ check.verdict = "included"
  /\ LET v == LocalVerdict(check.pkg, check.identity, check.file) IN
     check' = [check EXCEPT !.again = TRUE, !.known = recorded,
                            !.pc = IF v = "ok" THEN "read" ELSE "done",
                            !.verdict = IF v = "ok" THEN "none" ELSE v]
  /\ UNCHANGED <<ledger, attested, recorded>>

Next ==
  \/ Close
  \/ \E r \in Registry \ Elsewhere, a \in Asset : \E t \in Layouts(Depth[r]) : Attest(r, a, t)
  \/ \E r \in Registry : Record(r)
  \/ \E r \in Registry, a \in Asset : \E k \in DOMAIN attested[r][a], i \in Index(Depth[r]), c \in Change :
       /\ attested[r][a][k].layout[i] # Padding
       /\ \E p \in Altered(Package(r, a, k, i), c) :
            \E identity \in Identities(c, attested[r][a][k].layout[i]), file \in Files(c) :
              Begin(p, c, identity, file)
  \/ Read \/ ReadLedger \/ Lost \/ End \/ CheckAgain

Spec == Init /\ [][Next]_vars

-----------------------------------------------------------------------------
(* Properties *)

\* The kinds of a verdict; "none" stands for exit code 8.
Verdicts == {"included", "unsupported-format", "malformed", "untrusted-deployment",
             "invalid-deployments", "no-matching-attestation", "root-mismatch",
             "foreign-identifier", "unsupported-identifier-rule", "invalid-identity", "none"}

\* Types of the check; a check that goes on to a call has a file that fits the
\* tree of its registry.
TypeOK ==
  /\ ledger \in 0..MaxLedger
  /\ recorded \subseteq Registry
  /\ check.pc \in {"idle", "read", "ledger", "done"}
  /\ check.verdict \in Verdicts
  /\ check.pc \in {"read", "ledger"} => PathFits(check.pkg, Depth[check.pkg.registry])

Included == check.pc = "done" /\ check.verdict = "included"

\* An included package states what an issuer committed to: the attestation
\* that it names holds a leaf of this identifier with this balance at exactly
\* this index, in a registry that the verifier has recorded, and a confirmed
\* identity is the customer at that leaf. So no second index, depth, asset,
\* generation or attestation passes for the one of the file.
IncludedMeansCommitted ==
  Included =>
    LET p == check.pkg IN
    /\ p.registry \in check.known \ Elsewhere
    /\ p.attestationId \in DOMAIN attested[p.registry][p.asset]
    /\ LET att == attested[p.registry][p.asset][p.attestationId] IN
       /\ att.snapshotLedger = p.snapshotLedger
       /\ p.leafIndex \in DOMAIN att.layout
       /\ att.layout[p.leafIndex] = p.id
       /\ p.id # Padding /\ p.balance = BalanceOf(p.id)
    /\ check.confirmed => check.identity = p.id

\* The package that the generator wrote is never refused by a verifier that
\* has recorded its registry, whatever was attested since, and with its own
\* identity file: the check includes it or gives no verdict.
GenuineIsIncluded ==
  (check.pc = "done" /\ check.change = "none" /\ check.file = "ok"
     /\ check.pkg.registry \in check.known
     /\ check.identity \in {Padding, check.pkg.id})
    => check.verdict \in {"included", "none"}

\* A package that was included once stays included: later attestations, new
\* generations and a lapsed solvency claim never turn it into a refusal.
InclusionIsPermanent ==
  check.pc = "done" /\ check.again => check.verdict \in {"included", "none"}

\* Exit code 8 is kept for a call without an answer (README of the SDK): a
\* file that the verifier can read always ends in a verdict about the package,
\* unless its asset is no address or its registry is on another network.
NoVerdictMeansNoAnswer ==
  (check.pc = "done" /\ check.verdict = "none")
    => check.lost \/ check.file = "unreadable"

\* The verifier answers a customer who holds a genuine package: it does not
\* refuse it, now or later, and it gives every readable file a verdict.
CustomersAreAnswered ==
  TypeOK /\ GenuineIsIncluded /\ InclusionIsPermanent /\ NoVerdictMeansNoAnswer
=============================================================================
