--------------------------- MODULE ContinuityProofs ---------------------------
(***************************************************************************)
(* The directory of the packages is a faithful and unbroken copy of the    *)
(* chain, and no run builds on an attestation that lost a customer, for    *)
(* any number of processes, customers and runs.                            *)
(*                                                                         *)
(* Neither property is inductive by itself. A manifest is written one step *)
(* after its packages, a transaction executes long after the comparison    *)
(* that allowed it, and a run proves what it read before. So the invariant *)
(* carries what each of the three knew from the comparison to the effect.  *)
(***************************************************************************)
EXTENDS Continuity, TLAPS

\* The manifests are there from the first attestation to the last that has
\* one, and every attestation among them keeps the customers of the former.
KeptIsUnbroken ==
  \A k \in DOMAIN kept : \A j \in 1..k :
    j \in DOMAIN kept /\ (j > 1 => Continues(j))

\* What check_prior has compared: the prior attestation has a manifest, and
\* the tree keeps its customers.
Keeps(prior, tree) ==
  prior > 0 => prior \in DOMAIN kept /\ chain[prior].file.ids \subseteq tree.ids

ProofsKeep ==
  \A p \in Process : run[p].pc \in {"proving", "proved", "submit"} =>
    Keeps(run[p].prior, run[p].proof)

FlightKeeps == \A tx \in flight : Keeps(tx.prior, tx.file)

ChainKeeps == \A k \in DOMAIN chain : Keeps(chain[k].prior, chain[k].file)

\* An attestation that may have packages: its prior one has a manifest.
Joins(id) == id = 1 \/ (id - 1 \in DOMAIN kept /\ Continues(id))

PackedJoins == \A w \in packed : Joins(w.id)

\* A run that writes packages names an accepted attestation; one that is about
\* to write the manifest has compared it.
WritersKnow ==
  \A p \in Process :
    /\ run[p].pc \in {"packages", "generation"} => run[p].id \in DOMAIN chain
    /\ run[p].pc = "generation" =>
         run[p].proof = chain[run[p].id].file /\ Joins(run[p].id)

Inv ==
  /\ TypeOK
  /\ PackagesMatchTheRoot
  /\ KeptIsUnbroken
  /\ ProofsKeep
  /\ FlightKeeps
  /\ ChainKeeps
  /\ PackedJoins
  /\ WritersKnow

-----------------------------------------------------------------------------
(* Types *)

\* The types hold at the start: nothing is attested, packed or in flight.
LEMMA InitTypeOK == Init => TypeOK
<1> SUFFICES ASSUME Init PROVE TypeOK
  OBVIOUS
<1>1. chain \in Seq(Attestation) /\ flight \subseteq Attestation
  BY DEF Init
<1>2. DOMAIN kept \subseteq DOMAIN chain /\ \A k \in DOMAIN kept : kept[k] \in File
  BY DEF Init
<1>3. packed \subseteq [id : DOMAIN chain, file : File]
  BY DEF Init
<1>4. file \in File /\ edits \in 0..MaxEdits /\ runs \in 0..MaxRuns
  BY ContinuityAssumption DEF Init
<1>5. lock \in Process \cup {None}
  BY DEF Init
<1>6. run \in [Process -> {Idle} \cup RunState \cup Ended]
  BY DEF Init
<1>7. \A p \in Process : Equipped(run[p])
  BY DEF Init, Equipped, Idle
<1>8. \A p \in Process : lock = p <=> run[p].pc \in {"witness", "proving"}
  BY ContinuityAssumption DEF Init, Idle
<1> QED
  BY <1>1, <1>2, <1>3, <1>4, <1>5, <1>6, <1>7, <1>8 DEF TypeOK

\* The run of a process gets a new state.
Moves(p, r) == run' = [run EXCEPT ![p] = r]

\* The types of the directory.
DirectoryTyped ==
  /\ DOMAIN kept \subseteq DOMAIN chain /\ \A k \in DOMAIN kept : kept[k] \in File
  /\ packed \subseteq [id : DOMAIN chain, file : File]

\* A step of one run on an unchanged chain keeps the types when what it changes
\* has its type and the lock agrees.
LEMMA RunStepTypeOK ==
  ASSUME TypeOK, NEW p \in Process,
         NEW r \in {Idle} \cup RunState \cup Ended,
         Moves(p, r), Equipped(r),
         UNCHANGED <<chain, file, edits>>,
         DirectoryTyped',
         flight' \subseteq Attestation,
         runs' \in 0..MaxRuns,
         lock' \in Process \cup {None},
         lock' = p <=> r.pc \in {"witness", "proving"},
         \A q \in Process \ {p} : lock' = q <=> lock = q
  PROVE  TypeOK'
<1>1. run' \in [Process -> {Idle} \cup RunState \cup Ended]'
  BY DEF TypeOK, RunState, Ended, Idle, Moves
<1>2. \A q \in Process : run'[q] = IF q = p THEN r ELSE run[q]
  BY DEF TypeOK, Moves
<1>3. (\A q \in Process : Equipped(run[q]))'
  BY <1>2 DEF TypeOK, Equipped
<1>4. (\A q \in Process : lock = q <=> run[q].pc \in {"witness", "proving"})'
  BY <1>2 DEF TypeOK
<1> QED
  BY <1>1, <1>3, <1>4 DEF TypeOK, DirectoryTyped

\* The directory keeps its types when neither it nor the chain changes.
LEMMA SameDirectory ==
  TypeOK /\ UNCHANGED <<chain, kept, packed>> => DirectoryTyped'
BY DEF TypeOK, DirectoryTyped

\* The state of a run between its first and its last step.
LEMMA RunningState ==
  ASSUME TypeOK, NEW p \in Process, run[p].pc \notin {"idle", "over"}
  PROVE  run[p] \in RunState /\ Equipped(run[p])
BY DEF TypeOK, Idle, Ended

\* A run that ends leaves a state of its type.
LEMMA EndTypeOK ==
  ASSUME TypeOK, NEW p \in Process, run[p].pc \notin {"idle", "over"},
         NEW stated \in BOOLEAN, End(p, stated),
         UNCHANGED <<chain, file, edits, runs>>,
         DirectoryTyped',
         flight' \subseteq Attestation,
         lock' = IF lock = p THEN None ELSE lock
  PROVE  TypeOK'
<1> DEFINE r == [pc |-> "over", front |-> run[p].front, tried |-> run[p].tried, stated |-> stated]
<1>1. r \in Ended
  BY RunningState DEF RunState, Ended
<1>2. lock' \in Process \cup {None} /\ lock' # p
  BY ContinuityAssumption DEF TypeOK
<1>3. \A q \in Process \ {p} : lock' = q <=> lock = q
  BY ContinuityAssumption DEF TypeOK
<1>4. Moves(p, r)
  BY DEF End, Moves
<1>5. r.pc = "over"
  OBVIOUS
<1> HIDE DEF r
<1>6. Equipped(r)
  BY <1>5 DEF Equipped
<1> QED
  BY <1>1, <1>2, <1>3, <1>4, <1>5, <1>6, RunStepTypeOK DEF TypeOK

\* A run that goes on, outside of the lock, keeps the types.
LEMMA GoOnTypeOK ==
  ASSUME TypeOK, NEW p \in Process, run[p].pc \notin {"idle", "over", "witness", "proving"},
         NEW r \in RunState, Moves(p, r), Equipped(r),
         r.pc \notin {"witness", "proving"},
         UNCHANGED <<chain, file, edits, lock, runs>>,
         DirectoryTyped',
         flight' \subseteq Attestation
  PROVE  TypeOK'
BY RunStepTypeOK DEF TypeOK

\* So does one that only moves to another location.
LEMMA GotoTypeOK ==
  ASSUME TypeOK, NEW p \in Process, run[p].pc \notin {"idle", "over", "witness", "proving"},
         NEW pc \in {"lock", "submit"}, Goto(p, pc),
         pc = "submit" => run[p].proof \in File,
         UNCHANGED <<chain, kept, packed, file, edits, lock, flight, runs>>
  PROVE  TypeOK'
<1> DEFINE r == [run[p] EXCEPT !.pc = pc]
<1>1. r \in RunState /\ r.pc = pc /\ r.proof = run[p].proof
  BY RunningState DEF RunState
<1>2. Moves(p, r)
  BY DEF Goto, Moves
<1> HIDE DEF r
<1>3. Equipped(r)
  BY <1>1 DEF Equipped
<1> QED
  BY <1>1, <1>2, <1>3, SameDirectory, GoOnTypeOK DEF TypeOK

\* The steps up to the lock.
LEMMA PriorTypeOK ==
  ASSUME TypeOK, NEW p \in Process,
         Begin(p) \/ Kill(p) \/ ReadCount(p) \/ ReadManifest(p)
  PROVE  TypeOK'
<1>0. Len(chain) \in Nat /\ DOMAIN chain = 1..Len(chain)
  BY DEF TypeOK
<1>1. CASE Begin(p)
  <2>1. PICK n \in 1..MaxRuns : runs' = n
    BY <1>1, ContinuityAssumption DEF Begin, TypeOK
  <2>2. lock' \in Process \cup {None} /\ lock' # p /\ \A q \in Process \ {p} : lock' = q <=> lock = q
    BY <1>1 DEF Begin, TypeOK
  <2>3. UNCHANGED <<chain, file, edits>> /\ DirectoryTyped' /\ flight' \subseteq Attestation
    BY <1>1, SameDirectory DEF Begin, TypeOK
  <2>4. ASSUME NEW front \in {"cli", "dashboard"}, NEW action \in {"prove", "attest"},
               run' = [run EXCEPT ![p] =
                   [pc |-> "count", front |-> front, action |-> action, number |-> runs',
                    prior |-> 0, proof |-> NoFile, id |-> 0, tried |-> FALSE]]
        PROVE  TypeOK'
    <3> DEFINE r == [pc |-> "count", front |-> front, action |-> action, number |-> n,
                     prior |-> 0, proof |-> NoFile, id |-> 0, tried |-> FALSE]
    <3>1. r \in RunState /\ r.pc = "count" /\ Equipped(r)
      BY <1>0, <2>1 DEF RunState, Equipped
    <3>2. Moves(p, r)
      BY <2>1, <2>4 DEF Moves
    <3> HIDE DEF r
    <3> QED
      BY <2>1, <2>2, <2>3, <3>1, <3>2, RunStepTypeOK
  <2>5. ASSUME NEW prior \in 0..Len(chain), NEW id \in 1..Len(chain),
               run' = [run EXCEPT ![p] =
                   [pc |-> "packages", front |-> "tool", action |-> "prove", number |-> runs',
                    prior |-> prior, proof |-> NoFile, id |-> id, tried |-> FALSE]]
        PROVE  TypeOK'
    <3> DEFINE r == [pc |-> "packages", front |-> "tool", action |-> "prove", number |-> n,
                     prior |-> prior, proof |-> NoFile, id |-> id, tried |-> FALSE]
    <3>1. r \in RunState /\ r.pc = "packages" /\ Equipped(r)
      BY <1>0, <2>1 DEF RunState, Equipped
    <3>2. Moves(p, r)
      BY <2>1, <2>5 DEF Moves
    <3> HIDE DEF r
    <3> QED
      BY <2>1, <2>2, <2>3, <3>1, <3>2, RunStepTypeOK
  <2> QED
    BY <1>1, <2>4, <2>5 DEF Begin
<1>2. CASE Kill(p)
  <2>1. Idle.pc = "idle" /\ Equipped(Idle)
    BY DEF Idle, Equipped
  <2>2. lock' \in Process \cup {None} /\ lock' # p
    BY <1>2, ContinuityAssumption DEF Kill, TypeOK
  <2>3. \A q \in Process \ {p} : lock' = q <=> lock = q
    BY <1>2, ContinuityAssumption DEF Kill, TypeOK
  <2> QED
    BY <1>2, <2>1, <2>2, <2>3, SameDirectory, RunStepTypeOK DEF Kill, Moves, TypeOK
<1>3. CASE ReadCount(p)
  <2>1. run[p] \in RunState /\ lock # p
    BY <1>3, RunningState DEF ReadCount, At, TypeOK
  <2>2. CASE Over(p)
    BY <1>3, <2>1, <2>2, SameDirectory, EndTypeOK DEF ReadCount, At, Over, TypeOK
  <2>3. CASE run' = [run EXCEPT ![p].prior = NewestId,
                                ![p].pc = IF chain = <<>> THEN "lock" ELSE "manifest"]
    <3> DEFINE c == IF chain = <<>> THEN "lock" ELSE "manifest"
               r == [run[p] EXCEPT !.prior = NewestId, !.pc = c]
    <3>1. c \in {"lock", "manifest"} /\ (c = "manifest" => NewestId > 0)
      BY <1>0 DEF NewestId, TypeOK
    <3>2. Moves(p, r)
      BY <2>3 DEF Moves
    <3> HIDE DEF c
    <3>3. [run[p] EXCEPT !.prior = NewestId] \in RunState
      BY <1>0, <2>1 DEF RunState, NewestId
    <3>4. r \in RunState /\ r.pc = c /\ r.prior = NewestId
      BY <2>1, <3>1, <3>3 DEF RunState
    <3> HIDE DEF r
    <3>5. Equipped(r)
      BY <3>1, <3>4 DEF Equipped
    <3> QED
      BY <1>3, <3>1, <3>2, <3>4, <3>5, SameDirectory, GoOnTypeOK DEF ReadCount, At, TypeOK
  <2> QED
    BY <1>3, <2>2, <2>3 DEF ReadCount
<1>4. CASE ReadManifest(p)
  <2>1. run[p] \in RunState /\ lock # p
    BY <1>4, RunningState DEF ReadManifest, At, TypeOK
  <2>2. CASE Over(p)
    BY <1>4, <2>1, <2>2, SameDirectory, EndTypeOK DEF ReadManifest, At, Over, TypeOK
  <2>3. CASE Goto(p, "lock")
    BY <1>4, <2>1, <2>3, GotoTypeOK DEF ReadManifest, At, TypeOK
  <2> QED
    BY <1>4, <2>2, <2>3 DEF ReadManifest
<1> QED
  BY <1>1, <1>2, <1>3, <1>4

\* The steps that hold the lock.
LEMMA ProvingTypeOK ==
  ASSUME TypeOK, NEW p \in Process, TakeLock(p) \/ Witness(p) \/ Proved(p)
  PROVE  TypeOK'
<1>1. CASE TakeLock(p)
  <2>1. run[p] \in RunState /\ lock # p
    BY <1>1, RunningState DEF TakeLock, At, TypeOK
  <2>2. CASE lock = None
    <3> DEFINE r == [run[p] EXCEPT !.pc = "witness"]
    <3>1. r \in RunState /\ r.pc = "witness"
      BY <2>1 DEF RunState
    <3>2. Moves(p, r)
      BY <1>1, <2>2 DEF TakeLock, Goto, Moves
    <3> HIDE DEF r
    <3>3. Equipped(r)
      BY <3>1 DEF Equipped
    <3>4. lock' = p /\ \A q \in Process \ {p} : lock' = q <=> lock = q
      BY <1>1, <2>2, ContinuityAssumption DEF TakeLock
    <3> QED
      BY <1>1, <3>1, <3>2, <3>3, <3>4, SameDirectory, RunStepTypeOK DEF TakeLock, TypeOK
  <2>3. CASE lock # None
    BY <1>1, <2>1, <2>3, SameDirectory, EndTypeOK DEF TakeLock, At, Over, TypeOK
  <2> QED
    BY <2>2, <2>3
<1>2. CASE Witness(p)
  <2>1. run[p] \in RunState /\ lock = p
    BY <1>2, RunningState DEF Witness, At, TypeOK
  <2>2. CASE run' = [run EXCEPT ![p].proof = file, ![p].pc = "proving"] /\ UNCHANGED lock
    <3> DEFINE r == [run[p] EXCEPT !.proof = file, !.pc = "proving"]
    <3>1. r \in RunState /\ r.pc = "proving" /\ r.proof = file
      BY <2>1 DEF RunState, TypeOK
    <3>2. Moves(p, r)
      BY <2>2 DEF Moves
    <3> HIDE DEF r
    <3>3. Equipped(r)
      BY <3>1 DEF Equipped, TypeOK
    <3> QED
      BY <1>2, <2>1, <2>2, <3>1, <3>2, <3>3, SameDirectory, RunStepTypeOK DEF Witness, TypeOK
  <2>3. CASE Over(p) /\ lock' = None
    BY <1>2, <2>1, <2>3, SameDirectory, EndTypeOK DEF Witness, At, Over, TypeOK
  <2> QED
    BY <1>2, <2>2, <2>3 DEF Witness
<1>3. CASE Proved(p)
  <2>1. run[p] \in RunState /\ Equipped(run[p]) /\ run[p].pc = "proving" /\ lock = p /\ lock' = None
    BY <1>3, RunningState DEF Proved, At, TypeOK
  <2>2. ASSUME NEW pc \in {"report", "proved"}, Goto(p, pc)
        PROVE  TypeOK'
    <3> DEFINE r == [run[p] EXCEPT !.pc = pc]
    <3>1. r \in RunState /\ r.pc = pc /\ r.proof = run[p].proof
      BY <2>1 DEF RunState
    <3>2. Moves(p, r)
      BY <2>2 DEF Goto, Moves
    <3> HIDE DEF r
    <3>3. Equipped(r)
      BY <2>1, <3>1 DEF Equipped
    <3>4. lock' # p /\ \A q \in Process \ {p} : lock' = q <=> lock = q
      BY <2>1, ContinuityAssumption
    <3> QED
      BY <1>3, <2>1, <3>1, <3>2, <3>3, <3>4, SameDirectory, RunStepTypeOK DEF Proved, TypeOK
  <2>3. CASE Over(p)
    BY <1>3, <2>1, <2>3, SameDirectory, EndTypeOK DEF Proved, Over, TypeOK
  <2>4. CASE Goto(p, IF run[p].front = "cli" /\ run[p].action = "prove" THEN "report" ELSE "proved")
    BY <2>2, <2>4
  <2> QED
    BY <1>3, <2>3, <2>4 DEF Proved
<1> QED
  BY <1>1, <1>2, <1>3

\* A failed submission keeps the types.
LEMMA FailTypeOK ==
  ASSUME TypeOK, NEW p \in Process, run[p].pc \in {"submit", "answer"}, Fail(p),
         UNCHANGED <<chain, kept, packed, file, edits, lock, flight, runs>>
  PROVE  TypeOK'
<1>1. run[p] \in RunState /\ lock # p
  BY RunningState DEF TypeOK
<1>2. CASE Over(p)
  BY <1>1, <1>2, SameDirectory, EndTypeOK DEF Over, TypeOK
<1>3. CASE run' = [run EXCEPT ![p].tried = TRUE, ![p].pc = "report"]
  <2> DEFINE r == [run[p] EXCEPT !.tried = TRUE, !.pc = "report"]
  <2>1. r \in RunState /\ r.pc = "report"
    BY <1>1 DEF RunState
  <2>2. Moves(p, r)
    BY <1>3 DEF Moves
  <2> HIDE DEF r
  <2>3. Equipped(r)
    BY <2>1 DEF Equipped
  <2> QED
    BY <2>1, <2>2, <2>3, SameDirectory, GoOnTypeOK DEF TypeOK
<1> QED
  BY <1>2, <1>3 DEF Fail

\* The submission and the report.
LEMMA SubmissionTypeOK ==
  ASSUME TypeOK, NEW p \in Process,
         Ready(p) \/ Submit(p) \/ Accepted(p) \/ NoAnswer(p) \/ Report(p)
  PROVE  TypeOK'
<1>0. Len(chain) \in Nat /\ DOMAIN chain = 1..Len(chain)
  BY DEF TypeOK
<1>1. CASE Ready(p)
  <2>1. run[p] \in RunState /\ run[p].proof \in File /\ lock # p
    BY <1>1, RunningState DEF Ready, At, TypeOK, Equipped
  <2>2. CASE Goto(p, "submit")
    BY <1>1, <2>1, <2>2, GotoTypeOK DEF Ready, At, TypeOK
  <2>3. CASE Over(p)
    BY <1>1, <2>1, <2>3, SameDirectory, EndTypeOK DEF Ready, At, Over, TypeOK
  <2> QED
    BY <1>1, <2>2, <2>3 DEF Ready
<1>2. CASE Submit(p)
  <2>1. run[p] \in RunState /\ run[p].proof \in File
    BY <1>2, RunningState DEF Submit, At, Equipped
  <2>2. CASE Fail(p) /\ UNCHANGED flight
    BY <1>2, <2>2, FailTypeOK DEF Submit, At
  <2>3. CASE /\ flight' = flight \cup
                 {[file |-> run[p].proof, prior |-> run[p].prior, by |-> run[p].number]}
             /\ run' = [run EXCEPT ![p].tried = TRUE, ![p].pc = "answer"]
    <3> DEFINE r == [run[p] EXCEPT !.tried = TRUE, !.pc = "answer"]
    <3>1. r \in RunState /\ r.pc = "answer"
      BY <2>1 DEF RunState
    <3>2. Moves(p, r)
      BY <2>3 DEF Moves
    <3> HIDE DEF r
    <3>3. Equipped(r)
      BY <3>1 DEF Equipped
    <3>4. [file |-> run[p].proof, prior |-> run[p].prior, by |-> run[p].number] \in Attestation
      BY <1>0, <2>1 DEF RunState, Attestation
    <3>5. flight' \subseteq Attestation
      BY <2>3, <3>4 DEF TypeOK
    <3> QED
      BY <1>2, <3>1, <3>2, <3>3, <3>5, SameDirectory, GoOnTypeOK DEF Submit, At, TypeOK
  <2> QED
    BY <1>2, <2>2, <2>3 DEF Submit
<1>3. CASE Accepted(p)
  <2>1. run[p] \in RunState
    BY <1>3, RunningState DEF Accepted, At
  <2>2. PICK k \in DOMAIN chain :
          run' = [run EXCEPT ![p].id = k,
                             ![p].pc = IF run[p].front = "cli" THEN "report" ELSE "packages"]
    BY <1>3 DEF Accepted
  <2> DEFINE c == IF run[p].front = "cli" THEN "report" ELSE "packages"
             r == [run[p] EXCEPT !.id = k, !.pc = c]
  <2>3. c \in {"report", "packages"}
    OBVIOUS
  <2>4. Moves(p, r)
    BY <2>2 DEF Moves
  <2> HIDE DEF c
  <2>5. [run[p] EXCEPT !.id = k] \in RunState
    BY <1>0, <2>1 DEF RunState
  <2>6. r \in RunState /\ r.pc = c /\ r.id = k
    BY <2>1, <2>3, <2>5 DEF RunState
  <2> HIDE DEF r
  <2>7. Equipped(r)
    BY <1>0, <2>3, <2>6 DEF Equipped
  <2> QED
    BY <1>3, <2>3, <2>4, <2>6, <2>7, SameDirectory, GoOnTypeOK DEF Accepted, At, TypeOK
<1>4. CASE NoAnswer(p)
  BY <1>4, FailTypeOK DEF NoAnswer, At
<1>5. CASE Report(p)
  <2>1. lock # p
    BY <1>5 DEF Report, At, TypeOK
  <2> QED
    BY <1>5, <2>1, SameDirectory, EndTypeOK DEF Report, At, Over, TypeOK
<1> QED
  BY <1>1, <1>2, <1>3, <1>4, <1>5

\* The package tool.
LEMMA PackingTypeOK ==
  ASSUME TypeOK, NEW p \in Process, WritePackages(p) \/ WriteManifest(p)
  PROVE  TypeOK'
<1>0. Len(chain) \in Nat /\ DOMAIN chain = 1..Len(chain)
  BY DEF TypeOK
<1>1. CASE WritePackages(p)
  <2>1. run[p] \in RunState /\ run[p].id \in DOMAIN chain /\ lock # p
    BY <1>0, <1>1, RunningState DEF WritePackages, At, Equipped, RunState, TypeOK
  <2>2. CASE Over(p) /\ UNCHANGED packed
    BY <1>1, <2>1, <2>2, SameDirectory, EndTypeOK DEF WritePackages, At, Over, TypeOK
  <2>3. CASE /\ packed' = packed \cup {[id |-> run[p].id, file |-> file]}
             /\ run' = [run EXCEPT ![p].proof = file, ![p].pc = "generation"]
    <3> DEFINE r == [run[p] EXCEPT !.proof = file, !.pc = "generation"]
    <3>1. r \in RunState /\ r.pc = "generation" /\ r.proof = file /\ r.id = run[p].id
      BY <2>1 DEF RunState, TypeOK
    <3>2. Moves(p, r)
      BY <2>3 DEF Moves
    <3> HIDE DEF r
    <3>3. Equipped(r)
      BY <1>0, <2>1, <3>1 DEF Equipped, TypeOK
    <3>4. DirectoryTyped'
      BY <1>1, <2>1, <2>3 DEF WritePackages, DirectoryTyped, TypeOK
    <3> QED
      BY <1>1, <3>1, <3>2, <3>3, <3>4, GoOnTypeOK DEF WritePackages, At, TypeOK
  <2> QED
    BY <1>1, <2>2, <2>3 DEF WritePackages
<1>2. CASE WriteManifest(p)
  <2>1. run[p].id \in DOMAIN chain /\ run[p].proof \in File /\ lock # p
    BY <1>0, <1>2, RunningState DEF WriteManifest, At, Equipped, RunState, TypeOK
  <2>2. DirectoryTyped'
    BY <1>2, <2>1 DEF WriteManifest, DirectoryTyped, TypeOK
  <2> QED
    BY <1>2, <2>1, <2>2, EndTypeOK DEF WriteManifest, At, Over, TypeOK
<1> QED
  BY <1>1, <1>2

\* The network and the operator.
LEMMA OutsideTypeOK ==
  ASSUME TypeOK, Edit \/ \E tx \in flight : Execute(tx) \/ Expire(tx)
  PROVE  TypeOK'
<1>1. CASE Edit
  BY <1>1, ContinuityAssumption DEF Edit, TypeOK, RunState
<1>2. ASSUME NEW tx \in flight, Expire(tx) PROVE TypeOK'
  BY <1>2 DEF Expire, TypeOK, RunState
<1>3. ASSUME NEW tx \in flight, Execute(tx) PROVE TypeOK'
  <2>1. Len(chain) \in Nat /\ tx \in Attestation
    BY DEF TypeOK
  <2>2. /\ chain' \in Seq(Attestation) /\ Len(chain') = Len(chain) + 1
        /\ DOMAIN chain \subseteq DOMAIN chain'
    BY <1>3, <2>1 DEF Execute, TypeOK
  <2>3. RunState \subseteq RunState'
    BY <2>1, <2>2 DEF RunState
  <2>4. run' \in [Process -> {Idle} \cup RunState \cup Ended]'
    BY <1>3, <2>3 DEF Execute, TypeOK, Idle, Ended
  <2>5. packed' \subseteq [id : DOMAIN chain', file : File]
    BY <1>3, <2>2 DEF Execute, TypeOK
  <2>6. flight' \subseteq Attestation
    BY <1>3 DEF Execute, TypeOK
  <2> QED
    BY <1>3, <2>2, <2>4, <2>5, <2>6 DEF Execute, TypeOK
<1> QED
  BY <1>1, <1>2, <1>3

\* Every step keeps the types.
LEMMA NextTypeOK == TypeOK /\ [Next]_vars => TypeOK'
<1> SUFFICES ASSUME TypeOK, [Next]_vars PROVE TypeOK'
  OBVIOUS
<1>1. CASE UNCHANGED vars
  BY <1>1 DEF vars, TypeOK, RunState
<1>2. ASSUME NEW p \in Process, Step(p) PROVE TypeOK'
  BY <1>2, PriorTypeOK, ProvingTypeOK, SubmissionTypeOK, PackingTypeOK DEF Step
<1> QED
  BY <1>1, <1>2, OutsideTypeOK DEF Next

\* The state of the processes, the chain and the directory has its types
\* (prior-generation.ts, proving.ts, report.ts and write_packages).
THEOREM ContinuityTypeCorrect == Spec => []TypeOK
BY InitTypeOK, NextTypeOK, PTL DEF Spec

-----------------------------------------------------------------------------
(* What a step changes *)

\* The chain and the directory only grow.
Grows ==
  /\ DOMAIN chain \subseteq DOMAIN chain'
  /\ \A k \in DOMAIN chain : chain'[k] = chain[k]
  /\ DOMAIN kept \subseteq DOMAIN kept'

\* Which step writes what.
Writers ==
  /\ chain' = chain \/ \E tx \in flight : Execute(tx)
  /\ kept' = kept \/ \E p \in Process : WriteManifest(p)
  /\ packed' = packed \/ \E p \in Process : WritePackages(p)
  /\ flight' \subseteq flight \/ \E p \in Process : Submit(p)
  /\ \A p \in Process : run'[p] = run[p] \/ Step(p)

\* Each variable has its writers, and a step of one process is no step of another.
LEMMA StepWriters == TypeOK /\ [Next]_vars => Writers
<1> SUFFICES ASSUME TypeOK, [Next]_vars PROVE Writers
  OBVIOUS
<1>1. CASE UNCHANGED vars
  BY <1>1 DEF vars, Writers
<1>2. CASE Edit
  BY <1>2 DEF Edit, Writers
<1>3. ASSUME NEW tx \in flight, Execute(tx) PROVE Writers
  BY <1>3 DEF Execute, Writers
<1>4. ASSUME NEW tx \in flight, Expire(tx) PROVE Writers
  BY <1>4 DEF Expire, Writers
<1>5. ASSUME NEW p \in Process, Step(p) PROVE Writers
  <2>1. \A q \in Process : q # p => run'[q] = run[q]
    BY <1>5 DEF Step, Begin, Kill, ReadCount, ReadManifest, TakeLock, Witness, Proved,
                Ready, Submit, Fail, Accepted, NoAnswer, Report, WritePackages,
                WriteManifest, Goto, Over, End, TypeOK
  <2>2. chain' = chain
    BY <1>5 DEF Step, Begin, Kill, ReadCount, ReadManifest, TakeLock, Witness, Proved,
                Ready, Submit, Accepted, NoAnswer, Report, WritePackages, WriteManifest
  <2>3. kept' = kept \/ WriteManifest(p)
    BY <1>5 DEF Step, Begin, Kill, ReadCount, ReadManifest, TakeLock, Witness, Proved,
                Ready, Submit, Accepted, NoAnswer, Report, WritePackages
  <2>4. packed' = packed \/ WritePackages(p)
    BY <1>5 DEF Step, Begin, Kill, ReadCount, ReadManifest, TakeLock, Witness, Proved,
                Ready, Submit, Accepted, NoAnswer, Report, WriteManifest
  <2>5. flight' = flight \/ Submit(p)
    BY <1>5 DEF Step, Begin, Kill, ReadCount, ReadManifest, TakeLock, Witness, Proved,
                Ready, Accepted, NoAnswer, Report, WritePackages, WriteManifest
  <2> QED
    BY <1>5, <2>1, <2>2, <2>3, <2>4, <2>5 DEF Writers
<1> QED
  BY <1>1, <1>2, <1>3, <1>4, <1>5 DEF Next

\* Which step leads to the locations where a run knows something.
LEMMA Arrivals ==
  ASSUME TypeOK, NEW p \in Process, Step(p)
  PROVE  /\ run'[p].pc = "proving" => Witness(p)
         /\ run'[p].pc = "proved" => Proved(p)
         /\ run'[p].pc = "submit" => Ready(p)
         /\ run'[p].pc = "packages" => Begin(p) \/ Accepted(p)
         /\ run'[p].pc = "generation" => WritePackages(p)
<1>1. Begin(p) => run'[p].pc \in {"count", "packages"}
  BY DEF Begin, TypeOK
<1>2. Kill(p) \/ Report(p) \/ WriteManifest(p) => run'[p].pc \in {"idle", "over"}
  BY DEF Kill, Report, WriteManifest, Over, End, Idle, TypeOK
<1>3. ReadCount(p) \/ ReadManifest(p) \/ TakeLock(p) =>
        run'[p].pc \in {"lock", "manifest", "witness", "over"}
  BY RunningState DEF ReadCount, ReadManifest, TakeLock, At, Goto, Over, End, TypeOK, RunState
<1>4. Witness(p) => run'[p].pc \in {"proving", "over"}
  BY RunningState DEF Witness, At, Over, End, TypeOK, RunState
<1>5. Proved(p) => run'[p].pc \in {"report", "proved", "over"}
  BY RunningState DEF Proved, At, Goto, Over, End, TypeOK, RunState
<1>6. Ready(p) => run'[p].pc \in {"submit", "over"}
  BY RunningState DEF Ready, At, Goto, Over, End, TypeOK, RunState
<1>7. Submit(p) \/ NoAnswer(p) => run'[p].pc \in {"answer", "report", "over"}
  BY RunningState DEF Submit, NoAnswer, Fail, At, Over, End, TypeOK, RunState
<1>8. Accepted(p) => run'[p].pc \in {"report", "packages"}
  BY RunningState DEF Accepted, At, TypeOK, RunState
<1>9. WritePackages(p) => run'[p].pc \in {"generation", "over"}
  BY RunningState DEF WritePackages, At, Over, End, TypeOK, RunState
<1> QED
  BY <1>1, <1>2, <1>3, <1>4, <1>5, <1>6, <1>7, <1>8, <1>9 DEF Step

\* An attestation and a manifest are never taken back.
LEMMA StepGrows == TypeOK /\ Writers => Grows
<1> SUFFICES ASSUME TypeOK, Writers PROVE Grows
  OBVIOUS
<1>1. DOMAIN chain \subseteq DOMAIN chain' /\ \A k \in DOMAIN chain : chain'[k] = chain[k]
  BY DEF Writers, Execute, TypeOK
<1>2. DOMAIN kept \subseteq DOMAIN kept'
  BY DEF Writers, WriteManifest
<1> QED
  BY <1>1, <1>2 DEF Grows

-----------------------------------------------------------------------------
(* The invariant *)

\* Packages and manifests are written for the tree that the chain holds.
LEMMA MatchStep ==
  ASSUME Inv, Writers, Grows
  PROVE  PackagesMatchTheRoot'
<1>0. TypeOK /\ PackagesMatchTheRoot /\ WritersKnow
  BY DEF Inv
<1>1. (\A w \in packed : w.file = chain[w.id].file)'
  <2> SUFFICES ASSUME NEW w \in packed' PROVE w.file = chain'[w.id].file
    OBVIOUS
  <2>1. CASE w \in packed
    BY <1>0, <2>1 DEF TypeOK, PackagesMatchTheRoot, Grows
  <2>2. CASE w \notin packed
    <3>1. PICK p \in Process : WritePackages(p)
      BY <2>2 DEF Writers
    <3>2. w = [id |-> run[p].id, file |-> file] /\ RootMatches(run[p].id, file)
      BY <2>2, <3>1 DEF WritePackages
    <3>3. run[p].id \in DOMAIN chain
      BY <1>0, <3>1 DEF WritersKnow, WritePackages, At
    <3> QED
      BY <3>2, <3>3 DEF RootMatches, Grows
  <2> QED
    BY <2>1, <2>2
<1>2. (\A k \in DOMAIN kept : kept[k] = chain[k].file)'
  <2>1. CASE kept' = kept
    BY <1>0, <2>1 DEF TypeOK, PackagesMatchTheRoot, Grows
  <2>2. ASSUME NEW p \in Process, WriteManifest(p)
        PROVE  \A k \in DOMAIN kept' : kept'[k] = chain'[k].file
    <3>1. run[p].id \in DOMAIN chain /\ run[p].proof = chain[run[p].id].file
      BY <1>0, <2>2 DEF WritersKnow, WriteManifest, At
    <3> QED
      BY <1>0, <2>2, <3>1 DEF WriteManifest, TypeOK, PackagesMatchTheRoot, Grows
  <2> QED
    BY <2>1, <2>2 DEF Writers
<1> QED
  BY <1>1, <1>2 DEF PackagesMatchTheRoot

\* The manifests stay without a gap.
LEMMA UnbrokenStep ==
  ASSUME Inv, Writers, Grows
  PROVE  KeptIsUnbroken'
<1>0. TypeOK /\ KeptIsUnbroken /\ WritersKnow
  BY DEF Inv
<1>1. Len(chain) \in Nat /\ DOMAIN chain = 1..Len(chain) /\ DOMAIN kept \subseteq 1..Len(chain)
  BY <1>0 DEF TypeOK
<1>2. \A j \in DOMAIN chain : j > 1 /\ Continues(j) => Continues(j)'
  BY <1>1 DEF Continues, Grows
<1>3. \A k \in DOMAIN kept : \A j \in 1..k : j \in DOMAIN kept' /\ (j > 1 => Continues(j)')
  BY <1>0, <1>1, <1>2 DEF KeptIsUnbroken, Grows
<1>4. CASE kept' = kept
  BY <1>3, <1>4 DEF KeptIsUnbroken
<1>5. ASSUME NEW p \in Process, WriteManifest(p) PROVE KeptIsUnbroken'
  <2>1. PICK n \in DOMAIN chain : Joins(n) /\ DOMAIN kept' = DOMAIN kept \cup {n}
    BY <1>0, <1>5 DEF WritersKnow, WriteManifest, At
  <2>2. n = 1 \/ (n > 1 /\ Continues(n)' /\ n - 1 \in DOMAIN kept)
    BY <1>1, <1>2, <2>1 DEF Joins
  <2>3. \A j \in 1..n : j \in DOMAIN kept' /\ (j > 1 => Continues(j)')
    <3> SUFFICES ASSUME NEW j \in 1..n PROVE j \in DOMAIN kept' /\ (j > 1 => Continues(j)')
      OBVIOUS
    <3>1. CASE j = n
      BY <2>1, <2>2, <3>1
    <3>2. CASE j # n
      <4>1. n - 1 \in DOMAIN kept /\ j \in 1..(n - 1)
        BY <1>1, <2>1, <2>2, <3>2
      <4> QED
        BY <1>3, <4>1
    <3> QED
      BY <3>1, <3>2
  <2> QED
    BY <1>3, <2>1, <2>3 DEF KeptIsUnbroken
<1> QED
  BY <1>4, <1>5 DEF Writers

\* What a run, a transaction or an attestation has compared stays true.
LEMMA KeepsStep ==
  ASSUME TypeOK, Grows, NEW prior, NEW tree, Keeps(prior, tree)
  PROVE  Keeps(prior, tree)'
BY DEF Keeps, Grows, TypeOK

\* A run proves a tree that keeps the customers of its prior attestation.
LEMMA ProofsStep ==
  ASSUME Inv, Writers, Grows
  PROVE  ProofsKeep'
<1>0. TypeOK /\ PackagesMatchTheRoot /\ ProofsKeep
  BY DEF Inv
<1> SUFFICES ASSUME NEW p \in Process, run'[p].pc \in {"proving", "proved", "submit"}
             PROVE  Keeps(run[p].prior, run[p].proof)'
  BY DEF ProofsKeep
<1>1. PICK prior, tree : prior = run'[p].prior /\ tree = run'[p].proof
  OBVIOUS
<1>2. Keeps(prior, tree)
  <2>1. CASE run'[p] = run[p]
    BY <1>0, <1>1, <2>1 DEF ProofsKeep
  <2>2. CASE Step(p)
    <3>1. \/ Witness(p) /\ run'[p].pc = "proving"
          \/ Proved(p) /\ run'[p].pc = "proved"
          \/ Ready(p) /\ run'[p].pc = "submit"
      BY <1>0, <2>2, Arrivals
    <3>2. CASE Witness(p) /\ run'[p].pc = "proving"
      <4>1. run[p] \in RunState
        BY <1>0, <3>2, RunningState DEF Witness, At
      <4>2. run' = [run EXCEPT ![p].proof = file, ![p].pc = "proving"]
        BY <1>0, <3>2 DEF Witness, Over, End, TypeOK
      <4>3. tree = file /\ prior = run[p].prior
        BY <1>0, <1>1, <4>1, <4>2 DEF TypeOK, RunState
      <4>4. prior = 0 \/ check_prior(prior, file)
        BY <1>0, <3>2, <4>3 DEF Witness, Over, End, TypeOK
      <4> QED
        BY <1>0, <4>1, <4>3, <4>4 DEF Keeps, check_prior, RunState
    <3>3. CASE Proved(p) /\ run'[p].pc = "proved"
      <4>1. run[p] \in RunState /\ run[p].pc = "proving"
        BY <1>0, <3>3, RunningState DEF Proved, At
      <4>2. run'[p] = [run[p] EXCEPT !.pc = "proved"]
        BY <1>0, <3>3 DEF Proved, Goto, Over, End, TypeOK
      <4>3. tree = run[p].proof /\ prior = run[p].prior
        BY <1>1, <4>1, <4>2 DEF RunState
      <4> QED
        BY <1>0, <4>1, <4>3 DEF ProofsKeep
    <3>4. CASE Ready(p) /\ run'[p].pc = "submit"
      <4>1. run[p] \in RunState /\ run[p].pc = "proved"
        BY <1>0, <3>4, RunningState DEF Ready, At
      <4>2. run'[p] = [run[p] EXCEPT !.pc = "submit"]
        BY <1>0, <3>4 DEF Ready, Goto, Over, End, TypeOK
      <4>3. tree = run[p].proof /\ prior = run[p].prior
        BY <1>1, <4>1, <4>2 DEF RunState
      <4> QED
        BY <1>0, <4>1, <4>3 DEF ProofsKeep
    <3> QED
      BY <3>1, <3>2, <3>3, <3>4
  <2> QED
    BY <2>1, <2>2 DEF Writers
<1>3. Keeps(prior, tree)'
  BY <1>0, <1>2, KeepsStep
<1> QED
  BY <1>1, <1>3 DEF Keeps

\* A transaction carries what its run has proved.
LEMMA FlightStep ==
  ASSUME Inv, Writers, Grows
  PROVE  FlightKeeps'
<1>0. TypeOK /\ ProofsKeep /\ FlightKeeps
  BY DEF Inv
<1> SUFFICES ASSUME NEW tx \in flight' PROVE Keeps(tx.prior, tx.file)'
  BY DEF FlightKeeps
<1>1. Keeps(tx.prior, tx.file)
  <2>1. CASE tx \in flight
    BY <1>0, <2>1 DEF FlightKeeps
  <2>2. CASE tx \notin flight
    <3>1. PICK p \in Process : Submit(p)
      BY <2>2 DEF Writers
    <3>2. tx = [file |-> run[p].proof, prior |-> run[p].prior, by |-> run[p].number]
      BY <2>2, <3>1 DEF Submit
    <3> QED
      BY <1>0, <3>1, <3>2 DEF ProofsKeep, Submit, At
  <2> QED
    BY <2>1, <2>2
<1> QED
  BY <1>0, <1>1, KeepsStep

\* An attestation is a transaction that was in flight.
LEMMA ChainStep ==
  ASSUME Inv, Writers, Grows
  PROVE  ChainKeeps'
<1>0. TypeOK /\ FlightKeeps /\ ChainKeeps
  BY DEF Inv
<1> SUFFICES ASSUME NEW k \in DOMAIN chain' PROVE Keeps(chain[k].prior, chain[k].file)'
  BY DEF ChainKeeps
<1>1. PICK tx : tx = chain'[k]
  OBVIOUS
<1>2. Keeps(tx.prior, tx.file)
  <2>1. CASE k \in DOMAIN chain
    BY <1>0, <1>1, <2>1 DEF ChainKeeps, Grows
  <2>2. CASE k \notin DOMAIN chain
    <3>1. PICK s \in flight : Execute(s)
      BY <2>2 DEF Writers
    <3>2. tx = s
      BY <1>0, <1>1, <2>2, <3>1 DEF Execute, TypeOK
    <3> QED
      BY <1>0, <3>2 DEF FlightKeeps
  <2> QED
    BY <2>1, <2>2
<1>3. Keeps(tx.prior, tx.file)'
  BY <1>0, <1>2, KeepsStep
<1> QED
  BY <1>1, <1>3 DEF Keeps

\* What joins two attestations stays.
LEMMA JoinsStep ==
  ASSUME TypeOK, Grows, NEW id \in DOMAIN chain, Joins(id)
  PROVE  Joins(id)'
<1>1. Len(chain) \in Nat /\ DOMAIN chain = 1..Len(chain) /\ DOMAIN kept \subseteq DOMAIN chain
  BY DEF TypeOK
<1>2. CASE id = 1
  BY <1>2 DEF Joins
<1>3. CASE id # 1
  BY <1>1, <1>3 DEF Joins, Continues, Grows
<1> QED
  BY <1>2, <1>3

\* The gate of write_packages: what passes it is the attested tree and joins
\* the attestation before it.
LEMMA Gate ==
  ASSUME Inv, NEW p \in Process, WritePackages(p), run'[p].pc = "generation" \/ packed' # packed
  PROVE  /\ run[p].id \in DOMAIN chain /\ chain[run[p].id].file = file /\ Joins(run[p].id)
         /\ run'[p] = [run[p] EXCEPT !.proof = file, !.pc = "generation"]
<1>1. TypeOK /\ WritersKnow /\ run[p].pc = "packages" /\ run[p] \in RunState
  BY RunningState DEF Inv, WritePackages, At
<1>2. /\ Follows(run[p].prior, run[p].id)
      /\ run[p].prior # 0 => check_prior(run[p].prior, file)
      /\ RootMatches(run[p].id, file)
      /\ run' = [run EXCEPT ![p].proof = file, ![p].pc = "generation"]
  <2>1. Over(p) => run'[p].pc = "over"
    BY <1>1 DEF Over, End, TypeOK
  <2>2. ~(Over(p) /\ UNCHANGED packed)
    BY <2>1
  <2> QED
    BY <2>2 DEF WritePackages
<1>3. run[p].id \in DOMAIN chain /\ chain[run[p].id].file = file
  BY <1>1, <1>2 DEF WritersKnow, RootMatches
<1>4. Joins(run[p].id)
  <2>1. CASE run[p].prior = 0
    BY <1>2, <2>1 DEF Follows, Joins
  <2>2. CASE run[p].prior # 0
    <3>1. run[p].prior + 1 = run[p].id /\ run[p].prior \in Nat
      BY <1>1, <1>2, <2>2 DEF Follows, RunState
    <3>2. check_prior(run[p].prior, file)
      BY <1>2, <2>2
    <3> QED
      BY <1>3, <3>1, <3>2 DEF check_prior, Joins, Continues
  <2> QED
    BY <2>1, <2>2
<1> QED
  BY <1>1, <1>2, <1>3, <1>4 DEF TypeOK

\* Packages are written behind the gate.
LEMMA PackedStep ==
  ASSUME Inv, Writers, Grows
  PROVE  PackedJoins'
<1>0. TypeOK /\ PackedJoins
  BY DEF Inv
<1> SUFFICES ASSUME NEW w \in packed' PROVE Joins(w.id)'
  BY DEF PackedJoins
<1>1. w.id \in DOMAIN chain /\ Joins(w.id)
  <2>1. CASE w \in packed
    BY <1>0, <2>1 DEF TypeOK, PackedJoins
  <2>2. CASE w \notin packed
    <3>1. PICK p \in Process : WritePackages(p)
      BY <2>2 DEF Writers
    <3>2. w.id = run[p].id
      BY <2>2, <3>1 DEF WritePackages
    <3> QED
      BY <2>2, <3>1, <3>2, Gate
  <2> QED
    BY <2>1, <2>2
<1> QED
  BY <1>0, <1>1, JoinsStep

\* A run that writes packages knows the attestation that they are for.
LEMMA WritersStep ==
  ASSUME Inv, Writers, Grows
  PROVE  WritersKnow'
<1>0. TypeOK /\ WritersKnow
  BY DEF Inv
<1> SUFFICES ASSUME NEW p \in Process
             PROVE  /\ run'[p].pc \in {"packages", "generation"} => run'[p].id \in DOMAIN chain'
                    /\ run'[p].pc = "generation" =>
                         run'[p].proof = chain'[run'[p].id].file /\ Joins(run[p].id)'
  BY DEF WritersKnow
<1>1. CASE run'[p].pc = "packages"
  <2>1. CASE run'[p] = run[p]
    BY <1>0, <1>1, <2>1 DEF WritersKnow, Grows
  <2>2. CASE Begin(p)
    BY <1>0, <1>1, <2>2 DEF Begin, TypeOK
  <2>3. CASE Accepted(p)
    <3>1. run[p] \in RunState
      BY <1>0, <2>3, RunningState DEF Accepted, At
    <3> QED
      BY <1>0, <2>3, <3>1 DEF Accepted, TypeOK, RunState
  <2> QED
    BY <1>0, <1>1, <2>1, <2>2, <2>3, Arrivals DEF Writers
<1>2. CASE run'[p].pc = "generation"
  <2>1. PICK id \in DOMAIN chain :
          id = run'[p].id /\ run'[p].proof = chain[id].file /\ Joins(id)
    <3>1. CASE run'[p] = run[p]
      BY <1>0, <1>2, <3>1 DEF WritersKnow
    <3>2. CASE WritePackages(p)
      <4>1. run[p] \in RunState
        BY <1>0, <3>2, RunningState DEF WritePackages, At
      <4>2. /\ run[p].id \in DOMAIN chain /\ chain[run[p].id].file = file /\ Joins(run[p].id)
            /\ run'[p] = [run[p] EXCEPT !.proof = file, !.pc = "generation"]
        BY <1>2, <3>2, Gate
      <4> QED
        BY <4>1, <4>2 DEF RunState
    <3> QED
      BY <1>0, <1>2, <3>1, <3>2, Arrivals DEF Writers
  <2>2. Joins(id)'
    BY <1>0, <2>1, JoinsStep
  <2> QED
    BY <1>2, <2>1, <2>2 DEF Joins, Continues, Grows
<1> QED
  BY <1>1, <1>2

-----------------------------------------------------------------------------
(* Theorems *)

\* The invariant holds before the first run.
LEMMA InitInv == Init => Inv
<1> SUFFICES ASSUME Init PROVE Inv
  OBVIOUS
<1>1. TypeOK
  BY InitTypeOK
<1>2. PackagesMatchTheRoot /\ KeptIsUnbroken /\ FlightKeeps /\ ChainKeeps /\ PackedJoins
  BY DEF Init, PackagesMatchTheRoot, KeptIsUnbroken, FlightKeeps, ChainKeeps, PackedJoins
<1>3. ProofsKeep /\ WritersKnow
  BY DEF Init, Idle, ProofsKeep, WritersKnow
<1> QED
  BY <1>1, <1>2, <1>3 DEF Inv

\* Every step keeps it.
LEMMA NextInv == Inv /\ [Next]_vars => Inv'
<1> SUFFICES ASSUME Inv, [Next]_vars PROVE Inv'
  OBVIOUS
<1>1. TypeOK' /\ Writers /\ Grows
  BY NextTypeOK, StepWriters, StepGrows DEF Inv
<1> QED
  BY <1>1, MatchStep, UnbrokenStep, ProofsStep, FlightStep, ChainStep, PackedStep, WritersStep
  DEF Inv

\* It implies both properties.
LEMMA InvImplies == Inv => PackagesAreSound /\ RunsRestOnUnbrokenHistory
<1> SUFFICES ASSUME Inv PROVE PackagesAreSound /\ RunsRestOnUnbrokenHistory
  OBVIOUS
<1>1. PackagesAreSound
  BY DEF Inv, PackedJoins, Joins, PackagesContinue, PackagesAreSound
<1>2. RunsRestOnUnbrokenHistory
  <2> SUFFICES ASSUME NEW k \in DOMAIN chain
               PROVE  /\ chain[k].prior > 0 => chain[chain[k].prior].file.ids \subseteq chain[k].file.ids
                      /\ \A j \in 2..chain[k].prior : Continues(j)
    BY DEF RunsRestOnUnbrokenHistory
  <2>1. chain[k].prior \in Nat /\ Keeps(chain[k].prior, chain[k].file)
    <3>1. chain[k] \in Attestation
      BY DEF Inv, TypeOK
    <3>2. chain[k].prior \in Nat
      BY <3>1 DEF Attestation
    <3> QED
      BY <3>2 DEF Inv, ChainKeeps
  <2> QED
    BY <2>1 DEF Inv, Keeps, KeptIsUnbroken
<1> QED
  BY <1>1, <1>2

\* write_packages: packages and manifests exist only for accepted trees, and
\* reach back to the first attestation without a lost customer.
THEOREM PackagesStaySound == Spec => []PackagesAreSound
BY InitInv, NextInv, InvImplies, PTL DEF Spec

\* check_prior and preparePriorGeneration: no run builds on an attestation that
\* lost a customer, whatever runs race, fail or are killed.
THEOREM HistoryStaysUnbroken == Spec => []RunsRestOnUnbrokenHistory
BY InitInv, NextInv, InvImplies, PTL DEF Spec
===============================================================================
