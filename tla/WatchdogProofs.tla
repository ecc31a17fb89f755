---------------------------- MODULE WatchdogProofs ----------------------------
(***************************************************************************)
(* What the watchdog guarantees for any number of runs, kills, targets and *)
(* ledgers. The types, the truth of the records and the lateness of every  *)
(* disputed package hold however many runs are active; the rest needs runs *)
(* that follow one another (Concurrent = 1), as the state directory does.  *)
(*                                                                         *)
(* WatchdogInv says what each run and each transaction knows of the chain, *)
(* and that the chain only grows. AloneInv says which records the one      *)
(* active run stands in front of, and that no deposit for its target can   *)
(* land while it may still open one.                                       *)
(***************************************************************************)
EXTENDS Watchdog, FiniteSetTheorems, TLAPS

\* A package of the target did not arrive in its grace, which is over.
LatePackage(t, g) ==
  /\ attested[t] # 0 /\ ledger >= attested[t] + g
  /\ arrived[t] # None => arrived[t] >= attested[t] + g

\* What a record claims of its target.
Claims(t, status) ==
  /\ status = "disputed" => t \in dispute
  /\ status = "expired" => attested[t] # 0 /\ ledger > attested[t] + MaxAge
  /\ status = "delivered" => arrived[t] # None

\* Attestations come in order, and none from the future.
ChainOK ==
  /\ \A t \in Target : attested[t] <= ledger
  /\ \A t, u \in Target : u < t /\ attested[t] # 0 => attested[u] # 0

\* What holds of every transaction: one that the next sequence number admits
\* meets no dispute of its target.
TxOK(r) ==
  tx[r] # NoTx =>
    /\ tx[r].seq <= seq
    /\ tx[r].status \in {"built", "sent"} /\ tx[r].seq = seq => tx[r].target \notin dispute
    /\ LatePackage(tx[r].target, tx[r].grace)

\* The executed transactions, one for each sequence number that was used.
Landed == {r \in Run : tx[r].status \in {"success", "failed"}}
SeqIsCounted == seq <= Cardinality(Landed)

FilesOK ==
  \A t \in Target :
    /\ Claims(t, file[t].status)
    /\ file[t].status = "pending" => file[t].hash \in Run

DirOK == \A t \in Target : file[t] # NoFile => attested[t] # 0

\* The locations inside the loop over the targets.
InLoop == {"journal", "journalTx", "package", "dispute", "build", "write", "fill",
           "send", "poll", "confirm"}

\* What a run knows: its place in the loop, its record and its transaction.
RunOK(r) ==
  /\ run[r].pc = "idle" => run[r] = Idle
  /\ run[r].pc \in Active => run[r].grace \in Graces
  /\ run[r].pc \in {"count", "ledger"} => run[r].at = 1
  /\ run[r].pc \in {"count", "ledger", "state"} => ~run[r].retry
  /\ run[r].pc \in Active \ {"count"} => \A t \in 1..run[r].total : attested[t] # 0
  /\ run[r].pc \in InLoop => run[r].at <= run[r].total
  /\ run[r].cur <= ledger
  /\ run[r].pc \in {"journal", "journalTx"} => run[r].rec \in Record /\ run[r].rec.hash \in Run
  /\ run[r].pc \in {"dispute", "build"} => LatePackage(run[r].at, run[r].grace)
  /\ run[r].pc \in {"write", "fill"} =>
       /\ run[r].rec \in Record /\ Claims(run[r].at, run[r].rec.status)
       /\ run[r].then # "idle"
       /\ run[r].rec.status = "pending" => run[r].rec.hash \in Run
       /\ run[r].then = "continue" => run[r].rec.status \in {"delivered", "expired"}
       /\ run[r].then \in {"existing", "opened"} => run[r].rec.status = "disputed"
       /\ run[r].then = "send" => run[r].rec.status = "pending" /\ run[r].rec.hash = r
  /\ run[r].pc = "send" \/ (run[r].pc \in {"write", "fill"} /\ run[r].then = "send") =>
       tx[r].status = "built" /\ tx[r].target = run[r].at
  /\ \/ run[r].pc \in {"idle", "count", "ledger", "state"}
     \/ run[r].pc \in {"journal", "journalTx", "package", "dispute", "build"}
     \/ run[r].pc \in {"write", "fill"} /\ run[r].then \in {"continue", "existing"}
     => tx[r] = NoTx
  /\ run[r].pc \in {"poll", "confirm"} =>
       tx[r].status \in {"sent", "success", "failed"} /\ tx[r].target = run[r].at

WatchdogInv ==
  /\ TypeOK /\ ChainOK /\ (\A r \in Run : TxOK(r)) /\ SeqIsCounted
  /\ FilesOK /\ DirOK /\ (\A r \in Run : RunOK(r))

\* No deposit for the target can land.
NoLive(t) == \A q \in Run : tx[q].status = "sent" /\ tx[q].target = t => ~Live(q)

Alone == \A q, r \in Run : run[q].pc \in Active /\ run[r].pc \in Active => q = r

\* Where the one active run stands among the records.
LoopOK(r) ==
  run[r].pc \in Active =>
    /\ \A u \in Target : u < run[r].at => file[u].status \in Final
    /\ run[r].pc # "count" => \A t \in Target : file[t] # NoFile => t <= run[r].total
    /\ run[r].pc \in {"journal", "journalTx"} =>
         file[run[r].at] = run[r].rec /\ run[r].rec.status = "pending"
    /\ run[r].pc \in {"package", "dispute", "build", "write"} =>
         IF run[r].retry THEN file[run[r].at].status = "pending" ELSE file[run[r].at] = NoFile
    /\ run[r].pc = "fill" => file[run[r].at] = Torn
    /\ run[r].pc \in {"send", "poll", "confirm"} =>
         file[run[r].at].status = "pending" /\ file[run[r].at].hash = r
    /\ run[r].pc \in {"package", "dispute", "build", "write", "fill", "send"} => NoLive(run[r].at)

AloneInv ==
  Alone /\ (\A r \in Run : LoopOK(r)) /\ EarlierTargetsAreSettled /\ LiveDepositIsJournaled

-----------------------------------------------------------------------------
(* Shared facts *)

LEMMA Numbers ==
  /\ LastTarget \in Nat \ {0} /\ MaxAge \in Nat \ {0} /\ Lifetime \in Nat \ {0}
  /\ MaxLedger \in Nat \ {0} /\ MaxKills \in Nat /\ None \notin Run
  /\ IsFiniteSet(Run) /\ Cardinality(Run) \in Nat
  /\ \A g \in Graces : g \in Nat
<1>1. IsFiniteSet(Run)
  BY WatchdogAssumption
<1>2. Cardinality(Run) \in Nat
  BY <1>1, FS_CardinalityType
<1>3. \A g \in Graces : g \in Nat
  BY WatchdogAssumption
<1> QED
  BY <1>1, <1>2, <1>3, WatchdogAssumption

\* The ledgers and the sequence numbers are numbers.
LEMMA ChainTypes ==
  ASSUME TypeOK
  PROVE  /\ ledger \in Nat /\ seq \in Nat
         /\ \A t \in Target : attested[t] \in Nat /\ (arrived[t] # None => arrived[t] \in Nat)
BY Numbers DEF TypeOK, Ledger

\* The steps that leave the network alone.
LEMMA LocalSteps ==
  ASSUME NEW r \in Run, Step(r) \/ Kill(r)
  PROVE  UNCHANGED network
<1>1. CASE Start(r) \/ ReadCount(r) \/ ReadLedger(r) \/ ReadState(r) \/ ReadPendingDispute(r)
           \/ ReadPendingTx(r) \/ ReadPackage(r) \/ ReadDispute(r)
  BY <1>1 DEF Start, ReadCount, ReadLedger, ReadState, ReadPendingDispute, ReadPendingTx,
     ReadPackage, ReadDispute
<1>2. CASE Build(r) \/ ReplaceState(r) \/ CreateState(r) \/ FillState(r) \/ Send(r) \/ Poll(r)
           \/ Confirm(r) \/ RpcFails(r) \/ Kill(r)
  BY <1>2 DEF Build, ReplaceState, CreateState, FillState, Send, Poll, Confirm, RpcFails, Kill
<1> QED
  BY <1>1, <1>2 DEF Step

\* The chain only grows.
Grows ==
  /\ ledger <= ledger' /\ seq <= seq'
  /\ \A t \in Target :
       /\ attested[t] # 0 => attested'[t] = attested[t]
       /\ arrived'[t] = arrived[t] \/ (arrived[t] = None /\ arrived'[t] = ledger)
  /\ dispute \subseteq dispute'
  /\ seq' = seq => dispute' = dispute

LEMMA NetworkGrows ==
  ASSUME TypeOK, [Next]_vars
  PROVE  Grows
<1> USE ChainTypes
<1>1. CASE UNCHANGED network
  BY <1>1 DEF network, Grows
<1>2. CASE Close
  BY <1>2 DEF Close, Grows
<1>3. CASE Attest
  BY <1>3 DEF Attest, Grows, TypeOK
<1>4. CASE Deliver
  BY <1>4 DEF Deliver, Grows, TypeOK
<1>5. ASSUME NEW r \in Run, Land(r) PROVE Grows
  BY <1>5 DEF Land, Grows
<1>6. UNCHANGED vars => UNCHANGED network
  BY DEF vars, network
<1> QED
  BY <1>1, <1>2, <1>3, <1>4, <1>5, <1>6, LocalSteps DEF Next

\* What was late stays late, and what a record claims stays true.
LEMMA LateStays ==
  ASSUME TypeOK, TypeOK', Grows, NEW t \in Target, NEW g \in Nat, LatePackage(t, g)
  PROVE  LatePackage(t, g)'
<1>1. /\ ledger \in Nat /\ ledger' \in Nat /\ attested[t] \in Nat /\ ledger <= ledger'
      /\ arrived[t] = None \/ arrived[t] \in Nat
  BY ChainTypes DEF Grows, TypeOK, Ledger
<1>2. /\ attested[t] # 0 /\ ledger >= attested[t] + g
      /\ arrived[t] # None => arrived[t] >= attested[t] + g
  BY DEF LatePackage
<1>3. attested'[t] = attested[t] /\ attested'[t] # 0
  BY <1>2 DEF Grows
<1>4. ledger' >= attested[t] + g
  BY <1>1, <1>2
<1>5. arrived'[t] # None => arrived'[t] >= attested[t] + g
  <2>1. CASE arrived'[t] = arrived[t]
    BY <1>2, <2>1
  <2>2. CASE arrived'[t] # arrived[t]
    <3>1. arrived'[t] = ledger
      BY <2>2 DEF Grows
    <3> QED
      BY <1>2, <3>1
  <2> QED
    BY <2>1, <2>2
<1> QED
  BY <1>3, <1>4, <1>5 DEF LatePackage

LEMMA ClaimsStay ==
  ASSUME TypeOK, TypeOK', Grows, NEW t \in Target, NEW status, Claims(t, status)
  PROVE  Claims(t, status)'
<1>1. \A u \in Target : attested[u] # 0 => attested'[u] = attested[u]
  BY DEF Grows
<1>2. ledger \in Nat /\ ledger' \in Nat /\ ledger <= ledger' /\ attested[t] \in Nat /\ MaxAge \in Nat
  BY Numbers DEF Grows, TypeOK, Ledger
<1>3. arrived[t] # None => arrived'[t] = arrived[t]
  BY DEF Grows
<1> QED
  BY <1>1, <1>2, <1>3 DEF Claims, Grows

\* A transaction and a run that a step does not move keep what holds of them.
LEMMA TxKept ==
  ASSUME TypeOK, TypeOK', Grows, NEW r \in Run, TxOK(r), tx'[r] = tx[r]
  PROVE  TxOK(r)'
<1> SUFFICES ASSUME tx[r] # NoTx PROVE TxOK(r)'
  BY DEF TxOK
<1>1. tx[r].target \in Target /\ tx[r].grace \in Nat /\ tx[r].seq \in Nat
  BY Numbers DEF TypeOK, Tx
<1>2. LatePackage(tx[r].target, tx[r].grace)'
  BY <1>1, LateStays DEF TxOK
<1>3. seq \in Nat /\ seq' \in Nat /\ seq <= seq' /\ tx[r].seq <= seq
  BY ChainTypes, Numbers DEF Grows, TypeOK, TxOK
<1>4. tx[r].seq <= seq' /\ (tx[r].seq = seq' => seq' = seq)
  BY <1>1, <1>3
<1>5. tx[r].status \in {"built", "sent"} /\ tx[r].seq = seq' => tx[r].target \notin dispute'
  BY <1>4 DEF Grows, TxOK
<1> QED
  BY <1>2, <1>4, <1>5 DEF TxOK

LEMMA RunKept ==
  ASSUME TypeOK, TypeOK', Grows, NEW r \in Run, RunOK(r), run'[r] = run[r], tx'[r] = tx[r]
  PROVE  RunOK(r)'
<1>1. run[r] \in Local
  BY DEF TypeOK
<1>2. run[r].cur <= ledger'
  BY <1>1, ChainTypes DEF RunOK, Grows, Local, Ledger, TypeOK
<1>3. run[r].pc \in Active \ {"count"} => \A t \in 1..run[r].total : attested'[t] # 0
  <2>1. 1..run[r].total \subseteq Target
    BY <1>1, Numbers DEF Local, Target
  <2> QED
    BY <2>1 DEF RunOK, Grows
<1>4. run[r].pc \in InLoop => run[r].at \in Target
  BY <1>1, Numbers DEF RunOK, Local, Target
<1>5. run[r].pc \in {"dispute", "build"} => LatePackage(run[r].at, run[r].grace)'
  <2> SUFFICES ASSUME run[r].pc \in {"dispute", "build"}
               PROVE  LatePackage(run[r].at, run[r].grace)'
    OBVIOUS
  <2>1. run[r].at \in Target /\ run[r].grace \in Nat /\ LatePackage(run[r].at, run[r].grace)
    BY <1>4, Numbers DEF RunOK, InLoop, Active, Rpc
  <2> HIDE DEF LatePackage
  <2> QED
    BY <2>1, LateStays
<1>6. run[r].pc \in {"write", "fill"} => Claims(run[r].at, run[r].rec.status)'
  <2> SUFFICES ASSUME run[r].pc \in {"write", "fill"}
               PROVE  Claims(run[r].at, run[r].rec.status)'
    OBVIOUS
  <2>1. run[r].at \in Target /\ Claims(run[r].at, run[r].rec.status)
    BY <1>4 DEF RunOK, InLoop
  <2> QED
    BY <2>1, ClaimsStay
<1> QED
  BY <1>2, <1>3, <1>5, <1>6 DEF RunOK

LEMMA FilesKept ==
  ASSUME TypeOK, TypeOK', Grows, FilesOK, DirOK, UNCHANGED file
  PROVE  FilesOK' /\ DirOK'
<1>1. \A t \in Target : Claims(t, file[t].status)'
  BY ClaimsStay DEF FilesOK
<1> QED
  BY <1>1 DEF FilesOK, DirOK, Grows

\* Steps of a run that move nothing else.
LEMMA LocalKeeps ==
  ASSUME WatchdogInv, Grows, NEW r \in Run, UNCHANGED <<network, tx, file>>,
         kills' \in 0..MaxKills, run' \in [Run -> Local],
         \A q \in Run \ {r} : run'[q] = run[q], RunOK(r)'
  PROVE  WatchdogInv'
<1>1. TypeOK /\ TypeOK'
  BY DEF WatchdogInv, TypeOK, network
<1>2. ChainOK' /\ SeqIsCounted'
  BY DEF WatchdogInv, ChainOK, SeqIsCounted, Landed, network
<1>3. ASSUME NEW q \in Run PROVE TxOK(q)' /\ RunOK(q)'
  <2>1. tx'[q] = tx[q] /\ TxOK(q) /\ RunOK(q)
    BY DEF WatchdogInv
  <2>2. TxOK(q)'
    BY <1>1, <2>1, TxKept
  <2>3. CASE q = r
    BY <2>2, <2>3
  <2>4. CASE q # r
    BY <1>1, <2>1, <2>2, <2>4, RunKept
  <2> QED
    BY <2>3, <2>4
<1>4. FilesOK' /\ DirOK'
  BY <1>1, FilesKept DEF WatchdogInv
<1> QED
  BY <1>1, <1>2, <1>3, <1>4 DEF WatchdogInv

-----------------------------------------------------------------------------
(* The steps of the network *)

\* The ledger closes, an attestation or a package arrives.
LEMMA ExternalKeeps ==
  ASSUME WatchdogInv, Grows, Close \/ Attest \/ Deliver
  PROVE  WatchdogInv'
<1>1. UNCHANGED <<dispute, seq, tx, file, run, kills>>
  BY DEF Close, Attest, Deliver
<1>2. TypeOK /\ TypeOK'
  BY ChainTypes, Numbers DEF WatchdogInv, TypeOK, Close, Attest, Deliver, Ledger
<1>3. ChainOK'
  <2>1. CASE Close \/ Deliver
    BY <2>1, <1>2, ChainTypes DEF Close, Deliver, WatchdogInv, ChainOK
  <2>2. CASE Attest
    <3>1. PICK t \in Target : /\ attested[t] = 0
                              /\ t > 1 => attested[t - 1] # 0
                              /\ attested' = [attested EXCEPT ![t] = ledger]
      BY <2>2 DEF Attest
    <3>2. ledger' = ledger /\ \A u \in Target : attested'[u] <= ledger'
      BY <1>2, <2>2, <3>1, ChainTypes DEF Attest, WatchdogInv, ChainOK, TypeOK
    <3>3. ASSUME NEW x \in Target, NEW u \in Target, u < x, attested'[x] # 0
          PROVE  attested'[u] # 0
      <4>1. attested[u] # 0
        <5>1. CASE x # t
          BY <1>2, <3>1, <3>3, <5>1 DEF WatchdogInv, ChainOK, TypeOK
        <5>2. CASE x = t
          <6>1. t - 1 \in Target /\ (u = t - 1 \/ u < t - 1) /\ attested[t - 1] # 0
            BY <3>1, <3>3, <5>2, Numbers DEF Target
          <6> QED
            BY <6>1 DEF WatchdogInv, ChainOK
        <5> QED
          BY <5>1, <5>2
      <4> QED
        BY <4>1 DEF Grows
    <3> QED
      BY <3>2, <3>3 DEF ChainOK
  <2> QED
    BY <2>1, <2>2
<1>4. SeqIsCounted'
  BY <1>1 DEF WatchdogInv, SeqIsCounted, Landed
<1>5. \A r \in Run : TxOK(r)' /\ RunOK(r)'
  BY <1>1, <1>2, TxKept, RunKept DEF WatchdogInv
<1>6. FilesOK' /\ DirOK'
  BY <1>1, <1>2, FilesKept DEF WatchdogInv
<1> QED
  BY <1>2, <1>3, <1>4, <1>5, <1>6 DEF WatchdogInv

\* The executed transactions are at most as many as the runs.
LEMMA LandedFinite ==
  /\ IsFiniteSet(Landed) /\ Cardinality(Landed) \in Nat
  /\ Cardinality(Landed) <= Cardinality(Run)
<1>1. Landed \subseteq Run
  BY DEF Landed
<1> QED
  BY <1>1, Numbers, FS_Subset, FS_CardinalityType

\* A transaction executes and uses a sequence number.
LEMMA LandKeeps ==
  ASSUME WatchdogInv, Grows, NEW r \in Run, Land(r)
  PROVE  WatchdogInv'
<1>1. PICK s \in {"success", "failed"} :
        /\ tx' = [tx EXCEPT ![r].status = s]
        /\ dispute' = IF s = "success" THEN dispute \cup {tx[r].target} ELSE dispute
  BY DEF Land
<1>2. /\ UNCHANGED <<ledger, attested, arrived, file, run, kills>>
      /\ tx[r].status = "sent" /\ seq' = seq + 1 /\ tx[r] \in Tx /\ seq \in Nat
      /\ Cardinality(Landed) \in Nat
  BY ChainTypes, LandedFinite DEF Land, Live, WatchdogInv, TypeOK, NoTx
<1>3. /\ \A q \in Run \ {r} : tx'[q] = tx[q]
      /\ tx'[r] \in Tx /\ tx'[r].status = s
      /\ tx'[r].seq = tx[r].seq /\ tx'[r].target = tx[r].target /\ tx'[r].grace = tx[r].grace
      /\ tx' \in [Run -> Tx \cup {NoTx}]
  BY <1>1, <1>2 DEF Tx, WatchdogInv, TypeOK
<1>4. SeqIsCounted'
  <2>1. Landed' = Landed \cup {r} /\ r \notin Landed
    BY <1>2, <1>3 DEF Landed
  <2>2. Cardinality(Landed') = Cardinality(Landed) + 1
    BY <2>1, LandedFinite, FS_AddElement
  <2> QED
    BY <1>2, <2>2 DEF WatchdogInv, SeqIsCounted
<1>5. seq' \in 0..Cardinality(Run)
  <2>1. Landed' \subseteq Run
    BY DEF Landed
  <2>2. Cardinality(Landed') <= Cardinality(Run) /\ Cardinality(Landed') \in Nat
    BY <2>1, Numbers, FS_Subset, FS_CardinalityType
  <2> QED
    BY <1>2, <1>4, <2>2, Numbers DEF SeqIsCounted
<1>6. TypeOK /\ TypeOK'
  <2>1. dispute' \subseteq Target
    BY <1>1, <1>2 DEF WatchdogInv, TypeOK, Tx
  <2> QED
    BY <1>2, <1>3, <1>5, <2>1 DEF WatchdogInv, TypeOK
<1>7. ChainOK'
  BY <1>2 DEF WatchdogInv, ChainOK
<1>8. ASSUME NEW q \in Run PROVE TxOK(q)'
  <2>1. CASE q # r
    BY <1>3, <1>6, <2>1, TxKept DEF WatchdogInv
  <2>2. CASE q = r
    <3>1. tx[r].seq <= seq' /\ TxOK(r) /\ tx[r] # NoTx
      <4>1. TxOK(r) /\ tx[r] # NoTx
        BY <1>2 DEF WatchdogInv, NoTx
      <4>2. tx[r].seq \in Nat /\ tx[r].seq <= seq
        BY <1>2, <4>1 DEF Tx, TxOK
      <4> QED
        BY <1>2, <4>1, <4>2
    <3>2. LatePackage(tx[r].target, tx[r].grace)'
      BY <1>2, <1>3, <3>1 DEF TxOK, LatePackage
    <3> QED
      BY <1>3, <2>2, <3>1, <3>2 DEF TxOK
  <2> QED
    BY <2>1, <2>2
<1>9. ASSUME NEW q \in Run PROVE RunOK(q)'
  <2>1. CASE q # r
    BY <1>2, <1>3, <1>6, <2>1, RunKept DEF WatchdogInv
  <2>2. CASE q = r
    <3>1. RunOK(r)
      BY DEF WatchdogInv
    <3>2. /\ run[r].pc \in {"write", "fill"} => Claims(run[r].at, run[r].rec.status)'
          /\ run[r].pc \in {"dispute", "build"} => LatePackage(run[r].at, run[r].grace)'
      BY <1>1, <1>2, <3>1 DEF RunOK, Claims, LatePackage
    <3>3. tx[r] # NoTx /\ tx'[r] # NoTx
      BY <1>2, <1>3 DEF Tx, NoTx
    <3> HIDE DEF Claims, LatePackage
    <3> QED
      BY <1>2, <1>3, <2>2, <3>1, <3>2, <3>3 DEF RunOK
  <2> QED
    BY <2>1, <2>2
<1>10. FilesOK' /\ DirOK'
  BY <1>2, <1>6, FilesKept DEF WatchdogInv
<1> QED
  BY <1>4, <1>6, <1>7, <1>8, <1>9, <1>10 DEF WatchdogInv

-----------------------------------------------------------------------------
(* The steps of a run that move nothing else *)

\* What a run that is in its loop stands in front of.
LEMMA LoopTypes ==
  ASSUME WatchdogInv, NEW r \in Run, run[r].pc \in InLoop
  PROVE  /\ run[r] \in Local /\ run[r].at \in Target /\ run[r].grace \in Graces
         /\ run[r].at <= run[r].total /\ run[r].at \in Nat /\ run[r].total \in Nat
         /\ attested[run[r].at] # 0 /\ run[r].cur <= ledger
<1>1. run[r] \in Local /\ RunOK(r)
  BY DEF WatchdogInv, TypeOK
<1>2. run[r].at \in Nat \ {0} /\ run[r].total \in 0..LastTarget /\ run[r].at <= run[r].total
  BY <1>1, Numbers DEF Local, RunOK
<1>3. run[r].at \in Target /\ run[r].at \in 1..run[r].total
  BY <1>2, Numbers DEF Target
<1>4. run[r].grace \in Graces /\ attested[run[r].at] # 0 /\ run[r].cur <= ledger
  BY <1>1, <1>3 DEF RunOK, InLoop, Active, Rpc
<1> QED
  BY <1>1, <1>2, <1>3, <1>4

\* A run that ends.
LEMMA EndKeeps ==
  ASSUME WatchdogInv, Grows, NEW r \in Run, NEW report \in {"dead"} \cup Outcome \cup Failure,
         End(r, report), UNCHANGED <<network, tx, file>>, kills' \in 0..MaxKills
  PROVE  WatchdogInv'
<1>1. /\ \A q \in Run \ {r} : run'[q] = run[q]
      /\ run'[r] = [Idle EXCEPT !.pc = report]
      /\ run' = [run EXCEPT ![r] = [Idle EXCEPT !.pc = report]]
  BY DEF End, WatchdogInv, TypeOK
<1>2. [Idle EXCEPT !.pc = report] \in Local
  <2>1. 0 \in 0..LastTarget /\ 1 \in 1..(LastTarget + 1) /\ 0 \in 0..MaxLedger
    BY Numbers
  <2> QED
    BY <2>1 DEF Idle, Local, Then, Ledger
<1>3. run' \in [Run -> Local]
  BY <1>1, <1>2 DEF WatchdogInv, TypeOK
<1>4. RunOK(r)'
  <2>1. run'[r].pc = report /\ run'[r].cur = 0
    BY <1>1 DEF Idle
  <2>2. ledger' \in Nat
    BY ChainTypes DEF network, WatchdogInv
  <2>3. /\ report \notin Active /\ report # "idle" /\ report \notin InLoop
        /\ report \notin {"count", "ledger", "state"}
    BY DEF Outcome, Failure, Active, Rpc, InLoop
  <2> QED
    BY <2>1, <2>2, <2>3 DEF RunOK, InLoop
<1> QED
  BY <1>1, <1>3, <1>4, LocalKeeps

\* The attestations that a run counts are the first ones.
LEMMA CountIsPrefix ==
  ASSUME WatchdogInv
  PROVE  LET total == Cardinality({t \in Target : attested[t] # 0})
         IN total \in 0..LastTarget /\ \A t \in 1..total : attested[t] # 0
<1> DEFINE S == {t \in Target : attested[t] # 0}
<1>1. IsFiniteSet(Target) /\ Cardinality(Target) = LastTarget
  BY Numbers, FS_Interval DEF Target
<1>2. IsFiniteSet(S) /\ Cardinality(S) \in Nat /\ Cardinality(S) <= LastTarget
  BY <1>1, FS_Subset, FS_CardinalityType
<1>3. ASSUME NEW t \in 1..Cardinality(S), attested[t] = 0 PROVE FALSE
  <2>1. t \in Target /\ t \in Nat /\ t >= 1 /\ t <= Cardinality(S)
    BY <1>2, Numbers DEF Target
  <2>2. S \subseteq 1..(t - 1)
    <3> SUFFICES ASSUME NEW u \in S, u \notin 1..(t - 1) PROVE FALSE
      OBVIOUS
    <3>1. u \in Target /\ attested[u] # 0
      OBVIOUS
    <3>2. u = t \/ t < u
      BY <2>1, <3>1, Numbers DEF Target
    <3> QED
      BY <1>3, <2>1, <3>1, <3>2 DEF WatchdogInv, ChainOK
  <2>3. IsFiniteSet(1..(t - 1)) /\ Cardinality(1..(t - 1)) = t - 1
    BY <2>1, FS_Interval
  <2>4. Cardinality(S) <= t - 1
    BY <2>2, <2>3, FS_Subset
  <2> QED
    BY <1>2, <2>1, <2>4
<1> HIDE DEF S
<1>4. Cardinality(S) \in 0..LastTarget
  BY <1>2, Numbers
<1>5. Cardinality(S) \in 0..LastTarget /\ \A t \in 1..Cardinality(S) : attested[t] # 0
  BY <1>3, <1>4
<1> QED
  BY <1>5 DEF S

LEMMA StartKeeps ==
  ASSUME WatchdogInv, Grows, NEW r \in Run, Start(r) \/ ReadCount(r) \/ ReadLedger(r)
  PROVE  WatchdogInv'
<1>1. UNCHANGED <<network, tx, file, kills>> /\ kills' \in 0..MaxKills
  BY DEF Start, ReadCount, ReadLedger, WatchdogInv, TypeOK
<1>2. RunOK(r) /\ run[r] \in Local /\ run \in [Run -> Local]
  BY DEF WatchdogInv, TypeOK
<1>3. CASE Start(r)
  <2>1. PICK g \in Graces : run' = [run EXCEPT ![r].pc = "count", ![r].grace = g]
    BY <1>3 DEF Start
  <2>2. run[r] = Idle /\ tx[r] = NoTx
    BY <1>2, <1>3 DEF Start, RunOK
  <2>3. /\ run'[r] = [Idle EXCEPT !.pc = "count", !.grace = g]
        /\ \A q \in Run \ {r} : run'[q] = run[q]
    BY <1>2, <2>1, <2>2
  <2>4. run' \in [Run -> Local]
    BY <1>2, <2>1 DEF Local, Active, Rpc
  <2>5. RunOK(r)'
    <3>1. /\ run'[r].pc = "count" /\ run'[r].grace = g /\ run'[r].at = 1 /\ ~run'[r].retry
          /\ run'[r].cur = 0
      BY <2>3 DEF Idle
    <3>2. ledger' \in Nat
      BY <1>1, ChainTypes DEF network, WatchdogInv
    <3> QED
      BY <1>1, <2>2, <3>1, <3>2 DEF RunOK, InLoop
  <2> QED
    BY <1>1, <2>3, <2>4, <2>5, LocalKeeps
<1>4. CASE ReadCount(r)
  <2> DEFINE total == Cardinality({t \in Target : attested[t] # 0})
  <2>1. total \in 0..LastTarget /\ \A t \in 1..total : attested[t] # 0
    BY CountIsPrefix
  <2>2. run[r].pc = "count" /\ (End(r, "none") \/ run' = [run EXCEPT ![r].pc = "ledger", ![r].total = total])
    BY <1>4 DEF ReadCount
  <2> HIDE DEF total
  <2>3. CASE run' = [run EXCEPT ![r].pc = "ledger", ![r].total = total]
    <3>1. /\ \A q \in Run \ {r} : run'[q] = run[q]
          /\ run'[r] = [run[r] EXCEPT !.pc = "ledger", !.total = total]
      BY <1>2, <2>3
    <3>2. run' \in [Run -> Local]
      BY <1>2, <2>1, <2>3 DEF Local, Active, Rpc
    <3>3. RunOK(r)'
      <4>1. /\ run'[r].pc = "ledger" /\ run'[r].total = total /\ run'[r].at = run[r].at
            /\ run'[r].retry = run[r].retry /\ run'[r].grace = run[r].grace
            /\ run'[r].cur = run[r].cur
        BY <1>2, <3>1 DEF Local
      <4> QED
        BY <1>1, <1>2, <2>1, <2>2, <4>1 DEF RunOK, InLoop, Active, Rpc, network
    <3> QED
      BY <1>1, <3>1, <3>2, <3>3, LocalKeeps
  <2> QED
    BY <1>1, <2>2, <2>3, EndKeeps DEF Outcome
<1>5. CASE ReadLedger(r)
  <2>1. run[r].pc = "ledger" /\ run' = [run EXCEPT ![r].pc = "state", ![r].cur = ledger]
    BY <1>5 DEF ReadLedger
  <2>2. /\ \A q \in Run \ {r} : run'[q] = run[q]
        /\ run'[r] = [run[r] EXCEPT !.pc = "state", !.cur = ledger]
    BY <1>2, <2>1
  <2>3. run' \in [Run -> Local]
    BY <1>2, <2>1 DEF Local, Active, WatchdogInv, TypeOK
  <2>4. RunOK(r)'
    <3>1. /\ run'[r].pc = "state" /\ run'[r].total = run[r].total /\ run'[r].at = run[r].at
          /\ run'[r].retry = run[r].retry /\ run'[r].grace = run[r].grace
          /\ run'[r].cur = ledger /\ ledger' = ledger /\ ledger \in Nat
      BY <1>1, <1>2, <2>2, ChainTypes DEF Local, network, WatchdogInv
    <3> QED
      BY <1>1, <1>2, <2>1, <3>1 DEF RunOK, InLoop, Active, Rpc, network
  <2> QED
    BY <1>1, <2>2, <2>3, <2>4, LocalKeeps
<1> QED
  BY <1>3, <1>4, <1>5

\* A run that goes to another location and changes nothing else.
LEMMA GotoMoves ==
  ASSUME WatchdogInv, NEW r \in Run, NEW pc \in Active, Goto(r, pc)
  PROVE  /\ run' \in [Run -> Local]
         /\ \A q \in Run \ {r} : run'[q] = run[q]
         /\ run'[r] = [run[r] EXCEPT !.pc = pc]
BY DEF Goto, WatchdogInv, TypeOK, Local

\* A run that goes on with what it knows, where the next location asks for no
\* more than lateness.
LEMMA GotoKeeps ==
  ASSUME WatchdogInv, Grows, NEW r \in Run, NEW pc \in Active, Goto(r, pc),
         UNCHANGED <<network, tx, file, kills>>,
         \/ run[r].pc = "state" /\ pc = "package" /\ run[r].at <= run[r].total
         \/ run[r].pc = "journal" /\ pc = "journalTx"
         \/ run[r].pc = "package" /\ pc = "dispute" /\ LatePackage(run[r].at, run[r].grace)
         \/ run[r].pc = "dispute" /\ pc = "build"
         \/ run[r].pc = "poll" /\ pc = "confirm"
  PROVE  WatchdogInv'
<1>1. RunOK(r) /\ run[r] \in Local
  BY DEF WatchdogInv, TypeOK
<1>2. /\ run'[r] = [run[r] EXCEPT !.pc = pc]
      /\ run' \in [Run -> Local] /\ \A q \in Run \ {r} : run'[q] = run[q]
  BY GotoMoves
<1>3. /\ run'[r].pc = pc /\ run'[r].at = run[r].at /\ run'[r].total = run[r].total
      /\ run'[r].grace = run[r].grace /\ run'[r].cur = run[r].cur /\ run'[r].rec = run[r].rec
      /\ run'[r].retry = run[r].retry /\ run'[r].then = run[r].then
  BY <1>1, <1>2 DEF Local
<1>4. LatePackage(run[r].at, run[r].grace)' <=> LatePackage(run'[r].at, run'[r].grace)
  BY DEF LatePackage, network
<1>5. pc \in {"dispute", "build"} => LatePackage(run[r].at, run[r].grace)'
  BY <1>1, <1>3, <1>4 DEF RunOK
<1>6. RunOK(r)'
  <2> HIDE DEF LatePackage
  <2> QED
    BY <1>1, <1>3, <1>5 DEF RunOK, InLoop, Active, Rpc, network
<1>7. kills' \in 0..MaxKills
  BY DEF WatchdogInv, TypeOK
<1> QED
  BY <1>2, <1>6, <1>7, LocalKeeps

\* A run that has a final record to write.
LEMMA FinalKeeps ==
  ASSUME WatchdogInv, Grows, NEW r \in Run, UNCHANGED <<network, tx, file, kills>>,
         NEW status \in {"delivered", "expired", "disputed"}, NEW then \in {"continue", "existing"},
         Write(r, status, None, then), run[r].pc \in {"package", "dispute"},
         Claims(run[r].at, status),
         IF then = "continue" THEN status \in {"delivered", "expired"} ELSE status = "disputed"
  PROVE  WatchdogInv'
<1> DEFINE rec == [status |-> status, grace |-> run[r].grace, hash |-> None]
<1>1. RunOK(r) /\ run[r] \in Local /\ run \in [Run -> Local] /\ run[r].grace \in Graces
      /\ tx[r] = NoTx /\ run[r].at <= run[r].total
  BY LoopTypes DEF WatchdogInv, TypeOK, RunOK, InLoop
<1>2. /\ rec \in Record /\ rec.status = status
  BY <1>1 DEF Record, Final
<1>3. run' = [run EXCEPT ![r].pc = "write", ![r].then = then, ![r].rec = rec]
  BY DEF Write
<1> HIDE DEF rec
<1>4. run'[r] = [run[r] EXCEPT !.pc = "write", !.then = then, !.rec = rec]
      /\ \A q \in Run \ {r} : run'[q] = run[q]
  BY <1>1, <1>3
<1>5. /\ run'[r].pc = "write" /\ run'[r].at = run[r].at /\ run'[r].total = run[r].total
      /\ run'[r].grace = run[r].grace /\ run'[r].cur = run[r].cur /\ run'[r].rec = rec
      /\ run'[r].then = then
  BY <1>1, <1>4 DEF Local
<1>6. run' \in [Run -> Local]
  BY <1>1, <1>2, <1>3 DEF Local, Then, Active
<1>7. Claims(run[r].at, status)'
  BY <1>5 DEF Claims, network
<1>8. Claims(run[r].at, run[r].rec.status)'
  BY <1>2, <1>5, <1>7 DEF Claims, network
<1>9. RunOK(r)'
  <2> HIDE DEF Claims
  <2> QED
    BY <1>1, <1>2, <1>5, <1>8 DEF RunOK, InLoop, Active, Rpc, network
<1>10. kills' \in 0..MaxKills
  BY DEF WatchdogInv, TypeOK
<1> QED
  BY <1>4, <1>6, <1>9, <1>10, LocalKeeps

\* What a run does with the record of its next target.
LEMMA StateCases ==
  ASSUME WatchdogInv, NEW r \in Run, ReadState(r)
  PROVE  LET f == file[run[r].at]
         IN \/ /\ run[r].at > run[r].total
               /\ \E report \in {"expired", "delivered", "none"} : End(r, report)
            \/ \E report \in {"unreadable", "otherCheck"} : End(r, report)
            \/ /\ run[r].at \in Target /\ run[r].at <= run[r].total
               /\ \/ f = NoFile /\ Goto(r, "package")
                  \/ /\ f \in Record /\ f.status = "pending"
                     /\ run' = [run EXCEPT ![r].pc = "journal", ![r].rec = f]
                  \/ /\ f.status \in Final
                     /\ run' = [run EXCEPT ![r].at = @ + 1,
                                  ![r].skipped = @ \/ f.status = "expired",
                                  ![r].passed = @ \/ f.status = "delivered"]
<1> DEFINE f == file[run[r].at]
<1>1. run[r] \in Local
  BY DEF WatchdogInv, TypeOK
<1>2. CASE At(r) > run[r].total
  <2>1. End(r, CASE run[r].skipped -> "expired"
                 [] ~run[r].skipped /\ run[r].passed -> "delivered"
                 [] OTHER -> "none")
    BY <1>2 DEF ReadState
  <2>2. \E report \in {"expired", "delivered", "none"} : End(r, report)
    BY <2>1
  <2> QED
    BY <1>2, <2>2 DEF At
<1>3. CASE ~(At(r) > run[r].total)
  <2>1. /\ run[r].at \in Target /\ run[r].at <= run[r].total
        /\ f \in Record \cup {Torn, NoFile}
    BY <1>1, <1>3, Numbers DEF At, Local, Target, WatchdogInv, TypeOK
  <2>2. \/ f = NoFile /\ f.status = "none"
        \/ f.status = "torn"
        \/ f \in Record /\ f.status = "pending"
        \/ f.status \in Final
    BY <2>1 DEF Record, Torn, NoFile
  <2>3. CASE f.status = "torn"
    <3>1. End(r, "unreadable")
      BY <1>3, <2>3 DEF ReadState, At, Final
    <3> QED
      BY <3>1
  <2>4. CASE f.status \in Final \cup {"pending"} /\ f.grace # run[r].grace
    <3>1. End(r, "otherCheck")
      BY <1>3, <2>4 DEF ReadState, At, Final
    <3> QED
      BY <3>1
  <2>5. CASE /\ f.status # "torn"
             /\ f.status \in Final \cup {"pending"} => f.grace = run[r].grace
    BY <1>3, <2>1, <2>2, <2>5 DEF ReadState, At, Final
  <2> QED
    BY <2>3, <2>4, <2>5
<1> QED
  BY <1>2, <1>3

\* The loop goes to the next target, to the package, to the journal or ends.
LEMMA ReadStateKeeps ==
  ASSUME WatchdogInv, Grows, NEW r \in Run, ReadState(r)
  PROVE  WatchdogInv'
<1> DEFINE f == file[run[r].at]
<1>1. run[r].pc = "state" /\ UNCHANGED <<network, tx, file, kills>> /\ kills' \in 0..MaxKills
  BY DEF ReadState, WatchdogInv, TypeOK
<1>2. RunOK(r) /\ run[r] \in Local /\ run \in [Run -> Local]
  BY DEF WatchdogInv, TypeOK
<1>3. CASE \E report \in Outcome \cup Failure : End(r, report)
  BY <1>1, <1>3, EndKeeps
<1>4. CASE ~\E report \in Outcome \cup Failure : End(r, report)
  <2>1. /\ run[r].at \in Target /\ run[r].at <= run[r].total
        /\ \/ Goto(r, "package")
           \/ /\ f \in Record /\ f.status = "pending"
              /\ run' = [run EXCEPT ![r].pc = "journal", ![r].rec = f]
           \/ run' = [run EXCEPT ![r].at = @ + 1, ![r].skipped = @ \/ f.status = "expired",
                        ![r].passed = @ \/ f.status = "delivered"]
    BY <1>4, StateCases DEF Outcome, Failure
  <2> HIDE DEF f
  <2>2. CASE Goto(r, "package")
    BY <1>1, <2>1, <2>2, GotoKeeps DEF Active, Rpc
  <2>3. CASE /\ f \in Record /\ f.status = "pending"
             /\ run' = [run EXCEPT ![r].pc = "journal", ![r].rec = f]
    <3>1. /\ run'[r] = [run[r] EXCEPT !.pc = "journal", !.rec = f]
          /\ \A q \in Run \ {r} : run'[q] = run[q]
      BY <1>2, <2>3
    <3>2. /\ run'[r].pc = "journal" /\ run'[r].at = run[r].at /\ run'[r].total = run[r].total
          /\ run'[r].grace = run[r].grace /\ run'[r].cur = run[r].cur /\ run'[r].rec = f
          /\ run'[r].then = run[r].then
      BY <1>2, <3>1 DEF Local
    <3>3. run' \in [Run -> Local]
      BY <1>2, <2>3 DEF Local, Active, Rpc
    <3>4. f.hash \in Run
      BY <2>1, <2>3 DEF f, WatchdogInv, FilesOK
    <3>5. RunOK(r)'
      BY <1>1, <1>2, <2>1, <2>3, <3>2, <3>4 DEF RunOK, InLoop, Active, Rpc, network
    <3> QED
      BY <1>1, <3>1, <3>3, <3>5, LocalKeeps
  <2>4. CASE run' = [run EXCEPT ![r].at = @ + 1, ![r].skipped = @ \/ f.status = "expired",
                       ![r].passed = @ \/ f.status = "delivered"]
    <3>1. /\ run'[r] = [run[r] EXCEPT !.at = @ + 1, !.skipped = @ \/ f.status = "expired",
                          !.passed = @ \/ f.status = "delivered"]
          /\ \A q \in Run \ {r} : run'[q] = run[q]
      BY <1>2, <2>4
    <3>2. /\ run'[r].pc = "state" /\ run'[r].total = run[r].total
          /\ run'[r].grace = run[r].grace /\ run'[r].cur = run[r].cur
          /\ run'[r].retry = run[r].retry
      BY <1>1, <1>2, <3>1 DEF Local
    <3>3. run' \in [Run -> Local]
      <4>1. run[r].at + 1 \in 1..(LastTarget + 1)
        BY <2>1, Numbers DEF Target
      <4>2. run'[r] \in Local
        BY <1>2, <3>1, <4>1 DEF Local
      <4> QED
        BY <1>2, <2>4, <3>1, <4>2
    <3>4. RunOK(r)'
      BY <1>1, <1>2, <3>2 DEF RunOK, InLoop, Active, Rpc, network
    <3> QED
      BY <1>1, <3>1, <3>3, <3>4, LocalKeeps
  <2> QED
    BY <2>1, <2>2, <2>3, <2>4
<1> QED
  BY <1>3, <1>4

\* The journal: a dispute on the chain, or what the transaction allows.
LEMMA ReadPendingKeeps ==
  ASSUME WatchdogInv, Grows, NEW r \in Run, ReadPendingDispute(r) \/ ReadPendingTx(r)
  PROVE  WatchdogInv'
<1>1. UNCHANGED <<network, tx, file, kills>> /\ kills' \in 0..MaxKills
  BY DEF ReadPendingDispute, ReadPendingTx, WatchdogInv, TypeOK
<1>2. RunOK(r) /\ run[r] \in Local /\ run \in [Run -> Local]
  BY DEF WatchdogInv, TypeOK
<1>3. CASE ReadPendingDispute(r)
  <2>1. run[r].pc = "journal" /\ run[r].rec \in Record /\ run[r].rec.hash \in Run
    BY <1>2, <1>3 DEF ReadPendingDispute, RunOK
  <2>2. CASE Goto(r, "journalTx")
    BY <1>1, <2>1, <2>2, GotoKeeps DEF Active, Rpc
  <2>3. CASE ~Goto(r, "journalTx")
    <3>1. /\ run[r].at \in dispute
          /\ run' = [run EXCEPT ![r].pc = "write", ![r].retry = TRUE, ![r].then = "existing",
                       ![r].rec.status = "disputed"]
      BY <1>3, <2>3 DEF ReadPendingDispute, At
    <3> DEFINE rec == [run[r].rec EXCEPT !.status = "disputed"]
    <3>2. rec \in Record /\ rec.status = "disputed"
      BY <2>1 DEF Record, Final
    <3>3. /\ run'[r] = [run[r] EXCEPT !.pc = "write", !.retry = TRUE, !.then = "existing", !.rec = rec]
          /\ \A q \in Run \ {r} : run'[q] = run[q]
      BY <1>2, <3>1 DEF Local
    <3> HIDE DEF rec
    <3>4. /\ run'[r].pc = "write" /\ run'[r].at = run[r].at /\ run'[r].total = run[r].total
          /\ run'[r].grace = run[r].grace /\ run'[r].cur = run[r].cur /\ run'[r].rec = rec
          /\ run'[r].then = "existing"
      BY <1>2, <3>3 DEF Local
    <3>5. run' \in [Run -> Local]
      <4>1. run'[r] \in Local
        BY <1>2, <3>2, <3>3 DEF Local, Then, Active
      <4> QED
        BY <1>2, <3>1, <3>3, <4>1
    <3>6. Claims(run[r].at, run[r].rec.status)'
      BY <3>1, <3>2, <3>4, <1>1 DEF Claims, network
    <3>7. RunOK(r)'
      <4> HIDE DEF Claims
      <4> QED
        BY <1>1, <1>2, <2>1, <3>2, <3>4, <3>6 DEF RunOK, InLoop, Active, Rpc, network
    <3> QED
      BY <1>1, <3>3, <3>5, <3>7, LocalKeeps
  <2> QED
    BY <2>2, <2>3
<1>4. CASE ReadPendingTx(r)
  <2>1. run[r].pc = "journalTx"
    BY <1>4 DEF ReadPendingTx
  <2>2. CASE \E report \in Outcome \cup Failure : End(r, report)
    BY <1>1, <2>2, EndKeeps
  <2>3. CASE ~\E report \in Outcome \cup Failure : End(r, report)
    <3>1. run' = [run EXCEPT ![r].pc = "package", ![r].retry = TRUE]
      BY <1>4, <2>3 DEF ReadPendingTx, Outcome, Failure
    <3>2. /\ run'[r] = [run[r] EXCEPT !.pc = "package", !.retry = TRUE]
          /\ \A q \in Run \ {r} : run'[q] = run[q]
      BY <1>2, <3>1
    <3>3. /\ run'[r].pc = "package" /\ run'[r].at = run[r].at /\ run'[r].total = run[r].total
          /\ run'[r].grace = run[r].grace /\ run'[r].cur = run[r].cur
      BY <1>2, <3>2 DEF Local
    <3>4. run' \in [Run -> Local]
      BY <1>2, <3>1 DEF Local, Active, Rpc
    <3>5. RunOK(r)'
      BY <1>1, <1>2, <2>1, <3>3 DEF RunOK, InLoop, Active, Rpc, network
    <3> QED
      BY <1>1, <3>2, <3>4, <3>5, LocalKeeps
  <2> QED
    BY <2>2, <2>3
<1> QED
  BY <1>3, <1>4

\* What a run does with the package of its target and both limits.
LEMMA PackageCases ==
  ASSUME WatchdogInv, NEW r \in Run, ReadPackage(r)
  PROVE  LET t == run[r].at
         IN \/ arrived[t] # None /\ Write(r, "delivered", None, "continue")
            \/ End(r, "waiting")
            \/ run[r].cur - attested[t] > MaxAge /\ Write(r, "expired", None, "continue")
            \/ /\ arrived[t] = None /\ run[r].cur >= attested[t] + run[r].grace
               /\ Goto(r, "dispute")
<1> DEFINE t == run[r].at
<1>1. run[r].cur \in Nat /\ attested[t] \in Nat /\ run[r].grace \in Nat
  BY LoopTypes, ChainTypes, Numbers DEF ReadPackage, InLoop, Local, Ledger, WatchdogInv
<1>2. CASE arrived[t] # None
  BY <1>2 DEF ReadPackage, At
<1>3. CASE arrived[t] = None /\ run[r].cur < attested[t] + run[r].grace
  BY <1>3 DEF ReadPackage, At
<1>4. CASE arrived[t] = None /\ ~(run[r].cur < attested[t] + run[r].grace)
  <2>1. run[r].cur >= attested[t] + run[r].grace
    BY <1>1, <1>4
  <2>2. CASE run[r].cur - attested[t] > MaxAge
    BY <1>4, <2>1, <2>2 DEF ReadPackage, At
  <2>3. CASE ~(run[r].cur - attested[t] > MaxAge)
    BY <1>4, <2>1, <2>3 DEF ReadPackage, At
  <2> QED
    BY <2>2, <2>3
<1> QED
  BY <1>2, <1>3, <1>4

\* The package and the limits. The ledger of the start is not later than the
\* package check, so a package that is missing now was late.
LEMMA ReadPackageKeeps ==
  ASSUME WatchdogInv, Grows, NEW r \in Run, ReadPackage(r)
  PROVE  WatchdogInv'
<1> DEFINE t == run[r].at
<1>1. /\ run[r].pc = "package" /\ UNCHANGED <<network, tx, file, kills>> /\ kills' \in 0..MaxKills
  BY DEF ReadPackage, WatchdogInv, TypeOK
<1>2. /\ t \in Target /\ run[r].grace \in Nat /\ attested[t] # 0 /\ run[r].cur <= ledger
      /\ run[r].cur \in Nat /\ ledger \in Nat /\ attested[t] \in Nat /\ MaxAge \in Nat
  BY <1>1, LoopTypes, ChainTypes, Numbers DEF InLoop, WatchdogInv, Local, Ledger
<1>3. \/ arrived[t] # None /\ Write(r, "delivered", None, "continue")
      \/ End(r, "waiting")
      \/ /\ run[r].cur - attested[t] > MaxAge
         /\ Write(r, "expired", None, "continue")
      \/ /\ arrived[t] = None /\ run[r].cur >= attested[t] + run[r].grace
         /\ Goto(r, "dispute")
  BY PackageCases
<1>4. CASE arrived[t] # None /\ Write(r, "delivered", None, "continue")
  <2>1. Claims(t, "delivered")
    BY <1>4 DEF Claims
  <2> QED
    BY <1>1, <1>4, <2>1, FinalKeeps
<1>5. CASE End(r, "waiting")
  BY <1>1, <1>5, EndKeeps DEF Outcome
<1>6. CASE run[r].cur - attested[t] > MaxAge /\ Write(r, "expired", None, "continue")
  <2>1. Claims(t, "expired")
    BY <1>2, <1>6 DEF Claims
  <2> QED
    BY <1>1, <1>6, <2>1, FinalKeeps
<1>7. CASE /\ arrived[t] = None /\ run[r].cur >= attested[t] + run[r].grace
           /\ Goto(r, "dispute")
  <2>1. LatePackage(t, run[r].grace)
    BY <1>2, <1>7 DEF LatePackage
  <2> QED
    BY <1>1, <1>7, <2>1, GotoKeeps DEF Active, Rpc
<1> QED
  BY <1>3, <1>4, <1>5, <1>6, <1>7

LEMMA ReadDisputeKeeps ==
  ASSUME WatchdogInv, Grows, NEW r \in Run, ReadDispute(r)
  PROVE  WatchdogInv'
<1>1. run[r].pc = "dispute" /\ UNCHANGED <<network, tx, file, kills>>
  BY DEF ReadDispute
<1>2. CASE Goto(r, "build")
  BY <1>1, <1>2, GotoKeeps DEF Active, Rpc
<1>3. CASE run[r].at \in dispute /\ Write(r, "disputed", None, "existing")
  <2>1. Claims(run[r].at, "disputed")
    BY <1>3 DEF Claims
  <2> QED
    BY <1>1, <1>3, <2>1, FinalKeeps
<1> QED
  BY <1>2, <1>3 DEF ReadDispute, At

\* The answer of the network, the dispute that it left, and the failures.
LEMMA AnswerKeeps ==
  ASSUME WatchdogInv, Grows, NEW r \in Run, Poll(r) \/ Confirm(r) \/ RpcFails(r) \/ Kill(r)
  PROVE  WatchdogInv'
<1>1. UNCHANGED <<network, tx, file>> /\ kills' \in 0..MaxKills
  <2>1. CASE Poll(r) \/ Confirm(r) \/ RpcFails(r)
    <3>1. UNCHANGED <<network, tx, file, kills>>
      BY <2>1 DEF Poll, Confirm, RpcFails
    <3> QED
      BY <3>1 DEF WatchdogInv, TypeOK
  <2>2. CASE Kill(r)
    BY <2>2, Numbers DEF Kill, WatchdogInv, TypeOK
  <2> QED
    BY <2>1, <2>2
<1>2. RunOK(r) /\ run[r] \in Local /\ run \in [Run -> Local]
  BY DEF WatchdogInv, TypeOK
<1>3. CASE \E report \in {"dead"} \cup Outcome \cup Failure : End(r, report)
  BY <1>1, <1>3, EndKeeps
<1>4. CASE Poll(r) /\ ~\E report \in {"dead"} \cup Outcome \cup Failure : End(r, report)
  <2>1. run[r].pc = "poll" /\ UNCHANGED kills
    BY <1>4 DEF Poll
  <2>2. tx[r].status \in {"sent", "success", "failed"}
    BY <1>2, <2>1 DEF RunOK
  <2>3. Goto(r, "confirm")
    BY <1>4, <2>2 DEF Poll, Failure
  <2> QED
    BY <1>1, <2>1, <2>3, GotoKeeps DEF Active, Rpc
<1>5. CASE Confirm(r) /\ ~\E report \in {"dead"} \cup Outcome \cup Failure : End(r, report)
  <2> DEFINE rec == [status |-> "disputed", grace |-> run[r].grace, hash |-> r]
  <2>1. /\ run[r].pc = "confirm" /\ run[r].at \in dispute
        /\ run' = [run EXCEPT ![r].pc = "write", ![r].retry = TRUE, ![r].then = "opened",
                     ![r].rec = rec]
    BY <1>5 DEF Confirm, Failure, At
  <2>2. rec \in Record /\ rec.status = "disputed"
    <3>1. run[r].grace \in Graces
      BY <2>1, LoopTypes DEF InLoop
    <3> QED
      BY <3>1 DEF Record, Final
  <2> HIDE DEF rec
  <2>3. /\ run'[r] = [run[r] EXCEPT !.pc = "write", !.retry = TRUE, !.then = "opened", !.rec = rec]
        /\ \A q \in Run \ {r} : run'[q] = run[q]
    BY <1>2, <2>1
  <2>4. /\ run'[r].pc = "write" /\ run'[r].at = run[r].at /\ run'[r].total = run[r].total
        /\ run'[r].grace = run[r].grace /\ run'[r].cur = run[r].cur /\ run'[r].rec = rec
        /\ run'[r].then = "opened"
    BY <1>2, <2>3 DEF Local
  <2>5. run' \in [Run -> Local]
    <3>1. run'[r] \in Local
      BY <1>2, <2>2, <2>3 DEF Local, Then, Active
    <3> QED
      BY <1>2, <2>1, <2>3, <3>1
  <2>6. Claims(run[r].at, run[r].rec.status)'
    BY <1>1, <2>1, <2>2, <2>4 DEF Claims, network
  <2>7. RunOK(r)'
    <3> HIDE DEF Claims
    <3> QED
      BY <1>1, <1>2, <2>1, <2>2, <2>4, <2>6 DEF RunOK, InLoop, Active, Rpc, network
  <2> QED
    BY <1>1, <2>3, <2>5, <2>7, LocalKeeps
<1>6. CASE RpcFails(r) \/ Kill(r)
  BY <1>3, <1>6 DEF RpcFails, Kill, Failure
<1> QED
  BY <1>3, <1>4, <1>5, <1>6

\* A deposit is signed for a target that is late and that has no dispute.
LEMMA BuildKeeps ==
  ASSUME WatchdogInv, Grows, NEW r \in Run, Build(r)
  PROVE  WatchdogInv'
<1> DEFINE t == run[r].at
           new == [status |-> "built", target |-> t, grace |-> run[r].grace,
                   seq |-> seq, maxTime |-> ledger + Lifetime]
           rec == [status |-> "pending", grace |-> run[r].grace, hash |-> r]
<1>1. run[r].pc = "build" /\ UNCHANGED <<network, file, kills>> /\ kills' \in 0..MaxKills
  BY DEF Build, WatchdogInv, TypeOK
<1>2. /\ RunOK(r) /\ run[r] \in Local /\ run \in [Run -> Local] /\ tx \in [Run -> Tx \cup {NoTx}]
      /\ t \in Target /\ run[r].grace \in Graces /\ t <= run[r].total /\ tx[r] = NoTx
      /\ LatePackage(t, run[r].grace) /\ seq \in Nat /\ ledger \in Nat
  BY <1>1, LoopTypes, ChainTypes DEF WatchdogInv, TypeOK, RunOK, InLoop
<1>3. CASE End(r, "refused") /\ UNCHANGED tx
  BY <1>1, <1>3, EndKeeps DEF Failure
<1>4. CASE Accepts(t) /\ tx' = [tx EXCEPT ![r] = new] /\ Write(r, "pending", r, "send")
  <2>1. /\ new \in Tx /\ new.status = "built" /\ new.target = t /\ new.grace = run[r].grace
        /\ new.seq = seq
    BY <1>2, Numbers DEF Tx
  <2>2. /\ rec \in Record /\ rec.status = "pending" /\ rec.hash = r
    BY <1>2 DEF Record
  <2>3. run' = [run EXCEPT ![r].pc = "write", ![r].then = "send", ![r].rec = rec]
    BY <1>4 DEF Write
  <2> HIDE DEF new, rec
  <2>4. tx'[r] = new /\ \A q \in Run \ {r} : tx'[q] = tx[q] /\ run'[q] = run[q]
    BY <1>2, <1>4, <2>3
  <2>5. run'[r] = [run[r] EXCEPT !.pc = "write", !.then = "send", !.rec = rec]
    BY <1>2, <2>3
  <2>6. /\ run'[r].pc = "write" /\ run'[r].at = run[r].at /\ run'[r].total = run[r].total
        /\ run'[r].grace = run[r].grace /\ run'[r].cur = run[r].cur /\ run'[r].rec = rec
        /\ run'[r].then = "send"
    BY <1>2, <2>5 DEF Local
  <2>7. TypeOK /\ TypeOK'
    <3>1. run'[r] \in Local
      BY <1>2, <2>2, <2>5 DEF Local, Then, Active
    <3>2. run' \in [Run -> Local]
      BY <1>2, <2>3, <2>5, <3>1
    <3>3. tx' \in [Run -> Tx \cup {NoTx}]
      BY <1>2, <1>4, <2>1
    <3> QED
      BY <1>1, <3>2, <3>3 DEF WatchdogInv, TypeOK, network
  <2>8. ChainOK' /\ SeqIsCounted'
    <3>1. \A q \in Run : tx'[q].status \in {"success", "failed"} <=> tx[q].status \in {"success", "failed"}
      BY <1>2, <2>1, <2>4 DEF NoTx
    <3>2. Landed' = Landed
      BY <3>1 DEF Landed
    <3> QED
      BY <1>1, <3>2 DEF WatchdogInv, ChainOK, SeqIsCounted, network
  <2>9. TxOK(r)'
    <3>1. LatePackage(t, run[r].grace)'
      BY <1>1, <1>2, <2>6 DEF LatePackage, network
    <3>2. LatePackage(tx[r].target, tx[r].grace)'
      BY <2>1, <2>4, <2>6, <3>1 DEF LatePackage
    <3>3. t \notin dispute' /\ seq' = seq
      BY <1>1, <1>4 DEF Accepts, network
    <3> QED
      BY <1>2, <2>1, <2>4, <3>2, <3>3 DEF TxOK
  <2>10. RunOK(r)'
    <3>1. Claims(run[r].at, run[r].rec.status)'
      BY <2>2, <2>6 DEF Claims
    <3>2. tx'[r].status = "built" /\ tx'[r].target = run'[r].at
      BY <2>1, <2>4, <2>6
    <3> HIDE DEF Claims
    <3> QED
      BY <1>1, <1>2, <2>2, <2>6, <3>1, <3>2 DEF RunOK, InLoop, Active, Rpc, network
  <2>11. \A q \in Run : TxOK(q)' /\ RunOK(q)'
    BY <2>4, <2>7, <2>9, <2>10, TxKept, RunKept DEF WatchdogInv
  <2>12. FilesOK' /\ DirOK'
    BY <1>1, <2>7, FilesKept DEF WatchdogInv
  <2> QED
    BY <2>7, <2>8, <2>11, <2>12 DEF WatchdogInv
<1> QED
  BY <1>3, <1>4 DEF Build, At

\* The deposit is sent, and the run waits for it or does not learn of it.
LEMMA SendKeeps ==
  ASSUME WatchdogInv, Grows, NEW r \in Run, Send(r)
  PROVE  WatchdogInv'
<1>1. run[r].pc = "send" /\ UNCHANGED <<network, file, kills>> /\ kills' \in 0..MaxKills
  BY DEF Send, WatchdogInv, TypeOK
<1>2. /\ RunOK(r) /\ run[r] \in Local /\ run \in [Run -> Local] /\ tx \in [Run -> Tx \cup {NoTx}]
      /\ tx[r].status = "built" /\ tx[r].target = run[r].at /\ tx[r] \in Tx /\ TxOK(r)
      /\ tx[r] # NoTx
  BY <1>1 DEF WatchdogInv, TypeOK, RunOK, NoTx
<1>3. CASE End(r, "infrastructure") /\ UNCHANGED tx
  BY <1>1, <1>3, EndKeeps DEF Failure
<1>4. CASE /\ tx' = [tx EXCEPT ![r].status = "sent"]
           /\ Goto(r, "poll") \/ End(r, "infrastructure")
  <2>1. /\ tx'[r] \in Tx /\ tx'[r].status = "sent" /\ tx'[r].target = tx[r].target
        /\ tx'[r].grace = tx[r].grace /\ tx'[r].seq = tx[r].seq
        /\ tx' \in [Run -> Tx \cup {NoTx}] /\ \A q \in Run \ {r} : tx'[q] = tx[q]
    BY <1>2, <1>4 DEF Tx
  <2>2. /\ run' \in [Run -> Local] /\ \A q \in Run \ {r} : run'[q] = run[q]
        /\ RunOK(r)'
    <3>1. CASE Goto(r, "poll")
      <4>1. /\ run'[r] = [run[r] EXCEPT !.pc = "poll"] /\ run' \in [Run -> Local]
            /\ \A q \in Run \ {r} : run'[q] = run[q]
        BY <3>1, GotoMoves DEF Active, Rpc
      <4>2. /\ run'[r].pc = "poll" /\ run'[r].at = run[r].at /\ run'[r].total = run[r].total
            /\ run'[r].grace = run[r].grace /\ run'[r].cur = run[r].cur
        BY <1>2, <4>1 DEF Local
      <4> QED
        BY <1>1, <1>2, <2>1, <4>1, <4>2 DEF RunOK, InLoop, Active, Rpc, network
    <3>2. CASE End(r, "infrastructure")
      <4>1. [Idle EXCEPT !.pc = "infrastructure"] \in Local
        <5>1. 0 \in 0..LastTarget /\ 1 \in 1..(LastTarget + 1) /\ 0 \in 0..MaxLedger
          BY Numbers
        <5> QED
          BY <5>1 DEF Idle, Local, Then, Ledger, Failure
      <4>2. /\ run'[r] = [Idle EXCEPT !.pc = "infrastructure"] /\ run' \in [Run -> Local]
            /\ \A q \in Run \ {r} : run'[q] = run[q]
        BY <1>2, <3>2, <4>1 DEF End
      <4>3. run'[r].pc = "infrastructure" /\ run'[r].cur = 0 /\ ledger' \in Nat
        BY <1>1, <4>2, ChainTypes DEF Idle, network, WatchdogInv
      <4> QED
        BY <4>2, <4>3 DEF RunOK, InLoop, Active, Rpc
    <3> QED
      BY <1>4, <3>1, <3>2
  <2>3. TypeOK /\ TypeOK'
    BY <1>1, <2>1, <2>2 DEF WatchdogInv, TypeOK, network
  <2>4. ChainOK' /\ SeqIsCounted'
    <3>1. \A q \in Run : tx'[q].status \in {"success", "failed"} <=> tx[q].status \in {"success", "failed"}
      BY <1>2, <2>1
    <3>2. Landed' = Landed
      BY <3>1 DEF Landed
    <3> QED
      BY <1>1, <3>2 DEF WatchdogInv, ChainOK, SeqIsCounted, network
  <2>5. TxOK(r)'
    <3>1. LatePackage(tx[r].target, tx[r].grace)'
      BY <1>1, <1>2, <2>1 DEF LatePackage, network, TxOK
    <3> QED
      BY <1>1, <1>2, <2>1, <3>1 DEF TxOK, network
  <2>6. \A q \in Run : TxOK(q)' /\ RunOK(q)'
    BY <2>1, <2>2, <2>3, <2>5, TxKept, RunKept DEF WatchdogInv
  <2>7. FilesOK' /\ DirOK'
    BY <1>1, <2>3, FilesKept DEF WatchdogInv
  <2> QED
    BY <2>3, <2>4, <2>6, <2>7 DEF WatchdogInv
<1> QED
  BY <1>3, <1>4 DEF Send

-----------------------------------------------------------------------------
(* The state file *)

\* Where a run is when its record is on disk.
LEMMA AfterMoves ==
  ASSUME WatchdogInv, NEW r \in Run, run[r].pc \in {"write", "fill"}, After(r)
  PROVE  /\ run' \in [Run -> Local] /\ \A q \in Run \ {r} : run'[q] = run[q]
         /\ \/ run[r].then = "send" /\ run'[r] = [run[r] EXCEPT !.pc = "send"]
            \/ /\ run[r].then = "continue"
               /\ run'[r] = [run[r] EXCEPT !.pc = "state", !.at = @ + 1, !.retry = FALSE,
                                !.skipped = @ \/ run[r].rec.status = "expired",
                                !.passed = @ \/ run[r].rec.status = "delivered"]
            \/ /\ run[r].then \in {"existing", "opened"}
               /\ run'[r] = [Idle EXCEPT !.pc = run[r].then]
<1>1. /\ run \in [Run -> Local] /\ run[r] \in Local
      /\ run[r].then \in {"send", "continue", "existing", "opened"} /\ run[r].at \in Target
  BY LoopTypes DEF WatchdogInv, TypeOK, RunOK, Local, Then, InLoop
<1>2. CASE run[r].then = "send"
  <2>1. Goto(r, "send")
    BY <1>2 DEF After
  <2> QED
    BY <1>2, <2>1, GotoMoves DEF Active, Rpc
<1>3. CASE run[r].then = "continue"
  <2> DEFINE new == [run[r] EXCEPT !.pc = "state", !.at = @ + 1, !.retry = FALSE,
                       !.skipped = @ \/ run[r].rec.status = "expired",
                       !.passed = @ \/ run[r].rec.status = "delivered"]
  <2>1. run' = [run EXCEPT ![r] = new]
    BY <1>1, <1>3 DEF After
  <2>2. run[r].at + 1 \in 1..(LastTarget + 1)
    BY <1>1, Numbers DEF Target
  <2>3. new \in Local
    BY <1>1, <2>2 DEF Local, Active
  <2> HIDE DEF new
  <2>4. run' \in [Run -> Local] /\ run'[r] = new /\ \A q \in Run \ {r} : run'[q] = run[q]
    BY <1>1, <2>1, <2>3
  <2> QED
    BY <1>3, <2>4 DEF new
<1>4. CASE run[r].then \in {"existing", "opened"}
  <2>1. run' = [run EXCEPT ![r] = [Idle EXCEPT !.pc = run[r].then]]
    BY <1>4 DEF After, End
  <2>2. [Idle EXCEPT !.pc = run[r].then] \in Local
    <3>1. 0 \in 0..LastTarget /\ 1 \in 1..(LastTarget + 1) /\ 0 \in 0..MaxLedger
      BY Numbers
    <3> QED
      BY <1>4, <3>1 DEF Idle, Local, Then, Ledger, Outcome
  <2> QED
    BY <1>1, <1>4, <2>1, <2>2
<1> QED
  BY <1>1, <1>2, <1>3, <1>4

\* A run writes the state file of its target.
LEMMA FileKeeps ==
  ASSUME WatchdogInv, Grows, NEW r \in Run, UNCHANGED <<network, tx, kills>>,
         NEW f \in Record \cup {Torn}, run[r].pc \in {"write", "fill"},
         Claims(run[r].at, f.status), f.status = "pending" => f.hash \in Run,
         file' = [file EXCEPT ![At(r)] = f],
         run' \in [Run -> Local], \A q \in Run \ {r} : run'[q] = run[q], RunOK(r)'
  PROVE  WatchdogInv'
<1>1. /\ run[r].at \in Target /\ attested[run[r].at] # 0
      /\ file \in [Target -> Record \cup {Torn, NoFile}]
  BY LoopTypes DEF InLoop, WatchdogInv, TypeOK
<1>2. /\ file' \in [Target -> Record \cup {Torn, NoFile}] /\ file'[run[r].at] = f
      /\ \A t \in Target \ {run[r].at} : file'[t] = file[t]
  BY <1>1 DEF At
<1>3. TypeOK /\ TypeOK'
  BY <1>2 DEF WatchdogInv, TypeOK, network
<1>4. ChainOK' /\ SeqIsCounted'
  BY DEF WatchdogInv, ChainOK, SeqIsCounted, Landed, network
<1>5. ASSUME NEW q \in Run PROVE TxOK(q)' /\ RunOK(q)'
  BY <1>3, TxKept, RunKept DEF WatchdogInv
<1>6. FilesOK' /\ DirOK'
  <2>1. ASSUME NEW t \in Target
        PROVE  /\ Claims(t, file[t].status)'
               /\ file'[t].status = "pending" => file'[t].hash \in Run
               /\ file'[t] # NoFile => attested'[t] # 0
    <3>1. UNCHANGED <<ledger, attested, arrived, dispute>>
      BY DEF network
    <3>2. CASE t = run[r].at
      BY <1>1, <1>2, <3>1, <3>2 DEF Claims
    <3>3. CASE t # run[r].at
      BY <1>2, <3>1, <3>3 DEF Claims, WatchdogInv, FilesOK, DirOK
    <3> QED
      BY <3>2, <3>3
  <2> QED
    BY <2>1 DEF FilesOK, DirOK
<1> QED
  BY <1>3, <1>4, <1>5, <1>6 DEF WatchdogInv

\* A whole record is on disk, and the run goes on, sends or ends.
LEMMA RecordKeeps ==
  ASSUME WatchdogInv, Grows, NEW r \in Run, ReplaceState(r) \/ FillState(r)
  PROVE  WatchdogInv'
<1>1. /\ run[r].pc \in {"write", "fill"} /\ After(r) /\ UNCHANGED <<network, tx, kills>>
      /\ file' = [file EXCEPT ![At(r)] = run[r].rec]
  BY DEF ReplaceState, FillState
<1>2. /\ run[r] \in Local /\ RunOK(r) /\ run[r].at \in Target /\ run[r].rec \in Record
      /\ Claims(run[r].at, run[r].rec.status)
      /\ run[r].rec.status = "pending" => run[r].rec.hash \in Run
      /\ run[r].at <= run[r].total /\ run[r].at \in Nat /\ run[r].total \in Nat
  BY <1>1, LoopTypes DEF WatchdogInv, TypeOK, RunOK, InLoop
<1>3. /\ run' \in [Run -> Local] /\ \A q \in Run \ {r} : run'[q] = run[q]
      /\ \/ run[r].then = "send" /\ run'[r] = [run[r] EXCEPT !.pc = "send"]
         \/ /\ run[r].then = "continue"
            /\ run'[r] = [run[r] EXCEPT !.pc = "state", !.at = @ + 1, !.retry = FALSE,
                             !.skipped = @ \/ run[r].rec.status = "expired",
                             !.passed = @ \/ run[r].rec.status = "delivered"]
         \/ /\ run[r].then \in {"existing", "opened"}
            /\ run'[r] = [Idle EXCEPT !.pc = run[r].then]
  BY <1>1, AfterMoves
<1>4. RunOK(r)'
  <2>1. CASE run[r].then = "send" /\ run'[r] = [run[r] EXCEPT !.pc = "send"]
    <3>1. /\ run'[r].pc = "send" /\ run'[r].at = run[r].at /\ run'[r].total = run[r].total
          /\ run'[r].grace = run[r].grace /\ run'[r].cur = run[r].cur
      BY <1>2, <2>1 DEF Local
    <3> QED
      BY <1>1, <1>2, <2>1, <3>1 DEF RunOK, InLoop, Active, Rpc, network
  <2>2. CASE /\ run[r].then = "continue"
             /\ run'[r] = [run[r] EXCEPT !.pc = "state", !.at = @ + 1, !.retry = FALSE,
                              !.skipped = @ \/ run[r].rec.status = "expired",
                              !.passed = @ \/ run[r].rec.status = "delivered"]
    <3>1. /\ run'[r].pc = "state" /\ run'[r].total = run[r].total /\ run'[r].retry = FALSE
          /\ run'[r].grace = run[r].grace /\ run'[r].cur = run[r].cur
      BY <1>2, <2>2 DEF Local
    <3> QED
      BY <1>1, <1>2, <2>2, <3>1 DEF RunOK, InLoop, Active, Rpc, network
  <2>3. CASE /\ run[r].then \in {"existing", "opened"}
             /\ run'[r] = [Idle EXCEPT !.pc = run[r].then]
    <3>1. run'[r].pc \in {"existing", "opened"} /\ run'[r].cur = 0 /\ ledger' \in Nat
      BY <1>1, <2>3, ChainTypes DEF Idle, network, WatchdogInv
    <3> QED
      BY <3>1 DEF RunOK, InLoop, Active, Rpc
  <2> QED
    BY <1>3, <2>1, <2>2, <2>3
<1> QED
  BY <1>1, <1>2, <1>3, <1>4, FileKeeps

\* A file that exists ends the run, a new one is empty at first.
LEMMA CreateKeeps ==
  ASSUME WatchdogInv, Grows, NEW r \in Run, CreateState(r)
  PROVE  WatchdogInv'
<1>1. /\ run[r].pc = "write" /\ UNCHANGED <<network, tx, kills>> /\ kills' \in 0..MaxKills
  BY DEF CreateState, WatchdogInv, TypeOK
<1>2. CASE End(r, "raced") /\ UNCHANGED file
  BY <1>1, <1>2, EndKeeps DEF Failure
<1>3. CASE file' = [file EXCEPT ![At(r)] = Torn] /\ Goto(r, "fill")
  <2>1. run[r] \in Local /\ RunOK(r) /\ run[r].at \in Target
    BY <1>1, LoopTypes DEF WatchdogInv, TypeOK, InLoop
  <2>2. /\ run'[r] = [run[r] EXCEPT !.pc = "fill"] /\ run' \in [Run -> Local]
        /\ \A q \in Run \ {r} : run'[q] = run[q]
    BY <1>3, GotoMoves DEF Active
  <2>3. /\ run'[r].pc = "fill" /\ run'[r].at = run[r].at /\ run'[r].total = run[r].total
        /\ run'[r].grace = run[r].grace /\ run'[r].cur = run[r].cur /\ run'[r].rec = run[r].rec
        /\ run'[r].retry = run[r].retry /\ run'[r].then = run[r].then
    BY <2>1, <2>2 DEF Local
  <2>4. Claims(run[r].at, run[r].rec.status)'
    BY <1>1, <2>1, <2>3 DEF RunOK, Claims, network
  <2>5. RunOK(r)'
    <3> HIDE DEF Claims
    <3> QED
      BY <1>1, <2>1, <2>3, <2>4 DEF RunOK, InLoop, Active, Rpc, network
  <2>6. Claims(run[r].at, Torn.status) /\ Torn.status # "pending"
    BY DEF Claims, Torn
  <2> QED
    BY <1>1, <1>3, <2>2, <2>5, <2>6, FileKeeps
<1> QED
  BY <1>2, <1>3 DEF CreateState

-----------------------------------------------------------------------------
(* What holds however many runs are active *)

LEMMA WatchdogInit ==
  ASSUME Init
  PROVE  WatchdogInv
<1>1. /\ ledger = 1 /\ seq = 0 /\ kills = 0 /\ dispute = {}
      /\ \A t \in Target : attested[t] = 0 /\ file[t] = NoFile
      /\ \A r \in Run : tx[r] = NoTx /\ run[r] = Idle
  BY DEF Init
<1>2. TypeOK
  <2>1. Idle \in Local
    <3>1. 0 \in 0..LastTarget /\ 1 \in 1..(LastTarget + 1) /\ 0 \in 0..MaxLedger
      BY Numbers
    <3> QED
      BY <3>1 DEF Idle, Local, Then, Ledger
  <2>2. 1 \in Ledger /\ 0 \in Ledger /\ 0 \in 0..Cardinality(Run) /\ 0 \in 0..MaxKills
    BY Numbers DEF Ledger
  <2> QED
    BY <2>1, <2>2 DEF Init, TypeOK
<1>3. ChainOK
  BY <1>1 DEF ChainOK
<1>4. SeqIsCounted
  BY <1>1, LandedFinite DEF SeqIsCounted
<1>5. FilesOK /\ DirOK
  BY <1>1 DEF FilesOK, DirOK, NoFile, Claims
<1>6. ASSUME NEW r \in Run PROVE TxOK(r) /\ RunOK(r)
  <2>1. tx[r] = NoTx /\ run[r] = Idle /\ ledger = 1
    BY <1>1
  <2>2. Idle.pc = "idle" /\ Idle.cur = 0
    BY DEF Idle
  <2>3. run[r].pc = "idle" /\ run[r].cur <= ledger
    BY <2>1, <2>2
  <2>4. TxOK(r)
    BY <2>1 DEF TxOK
  <2>5. RunOK(r)
    BY <2>1, <2>3 DEF RunOK, InLoop, Active, Rpc
  <2> QED
    BY <2>4, <2>5
<1> QED
  BY <1>2, <1>3, <1>4, <1>5, <1>6 DEF WatchdogInv

LEMMA WatchdogStep ==
  ASSUME WatchdogInv, [Next]_vars
  PROVE  WatchdogInv'
<1>1. TypeOK /\ Grows
  BY NetworkGrows DEF WatchdogInv
<1>2. CASE Close \/ Attest \/ Deliver
  BY <1>1, <1>2, ExternalKeeps
<1>3. ASSUME NEW r \in Run, Land(r) PROVE WatchdogInv'
  BY <1>1, <1>3, LandKeeps
<1>4. ASSUME NEW r \in Run, Step(r) PROVE WatchdogInv'
  <2>1. CASE Start(r) \/ ReadCount(r) \/ ReadLedger(r)
    BY <1>1, <2>1, StartKeeps
  <2>2. CASE ReadState(r)
    BY <1>1, <2>2, ReadStateKeeps
  <2>3. CASE ReadPendingDispute(r) \/ ReadPendingTx(r)
    BY <1>1, <2>3, ReadPendingKeeps
  <2>4. CASE ReadPackage(r)
    BY <1>1, <2>4, ReadPackageKeeps
  <2>5. CASE ReadDispute(r)
    BY <1>1, <2>5, ReadDisputeKeeps
  <2>6. CASE Build(r)
    BY <1>1, <2>6, BuildKeeps
  <2>7. CASE ReplaceState(r) \/ FillState(r)
    BY <1>1, <2>7, RecordKeeps
  <2>8. CASE CreateState(r)
    BY <1>1, <2>8, CreateKeeps
  <2>9. CASE Send(r)
    BY <1>1, <2>9, SendKeeps
  <2>10. CASE Poll(r) \/ Confirm(r) \/ RpcFails(r)
    BY <1>1, <2>10, AnswerKeeps
  <2> QED
    BY <1>4, <2>1, <2>2, <2>3, <2>4, <2>5, <2>6, <2>7, <2>8, <2>9, <2>10 DEF Step
<1>5. ASSUME NEW r \in Run, Kill(r) PROVE WatchdogInv'
  BY <1>1, <1>5, AnswerKeeps
<1>6. CASE UNCHANGED vars
  <2>1. /\ UNCHANGED <<ledger, attested, arrived, dispute, seq, tx, file, run, kills>>
    BY <1>6 DEF vars
  <2>2. TypeOK'
    BY <2>1 DEF WatchdogInv, TypeOK
  <2>3. ChainOK' /\ SeqIsCounted'
    BY <2>1 DEF WatchdogInv, ChainOK, SeqIsCounted, Landed
  <2>4. FilesOK' /\ DirOK'
    BY <1>1, <2>1, <2>2, FilesKept DEF WatchdogInv
  <2>5. \A r \in Run : TxOK(r)' /\ RunOK(r)'
    BY <1>1, <2>1, <2>2, TxKept, RunKept DEF WatchdogInv
  <2> QED
    BY <2>2, <2>3, <2>4, <2>5 DEF WatchdogInv
<1> QED
  BY <1>2, <1>3, <1>4, <1>5, <1>6 DEF Next

\* Every state has the inductive invariant: every run and every transaction
\* knows of the chain what the code has read.
THEOREM WatchdogInvariant == Spec => []WatchdogInv
<1> QED
  BY WatchdogInit, WatchdogStep, PTL DEF Spec

\* However many runs interleave, and however long each of them waits before it
\* signs, a deposit is sent only for a target whose package was late.
THEOREM OnlyLateStaysDisputed == Spec => []OnlyLatePackagesAreDisputed
<1>1. WatchdogInv => OnlyLatePackagesAreDisputed
  <2> SUFFICES ASSUME WatchdogInv, NEW r \in Run,
                      tx[r].status \in {"sent", "success", "failed"},
                      arrived[tx[r].target] # None
               PROVE  arrived[tx[r].target] >= attested[tx[r].target] + tx[r].grace
    BY DEF OnlyLatePackagesAreDisputed
  <2>1. TxOK(r) /\ tx[r] # NoTx
    BY DEF WatchdogInv, NoTx
  <2> QED
    BY <2>1 DEF TxOK, LatePackage
<1> QED
  BY <1>1, WatchdogInvariant, PTL

\* However many runs write the state directory, a final record is true.
THEOREM RecordsStayTrue == Spec => []RecordsAreTrue
<1>1. WatchdogInv => RecordsAreTrue
  BY DEF WatchdogInv, FilesOK, Claims, RecordsAreTrue
<1> QED
  BY <1>1, WatchdogInvariant, PTL

-----------------------------------------------------------------------------
(* Runs that follow one another *)

\* A deposit that can land could land before, unless it was just sent.
LEMMA LiveWasLive ==
  ASSUME WatchdogInv, TypeOK', Grows, NEW q \in Run, tx[q].status = "sent", tx'[q] = tx[q],
         Live(q)'
  PROVE  Live(q) /\ seq' = seq
<1>1. tx[q] \in Tx /\ TxOK(q) /\ tx[q] # NoTx
  BY DEF WatchdogInv, TypeOK, NoTx
<1>2. /\ tx[q].maxTime \in Nat /\ tx[q].seq \in Nat /\ ledger \in Nat /\ seq \in Nat
      /\ tx[q].seq <= seq
  BY <1>1, ChainTypes DEF Tx, TxOK, WatchdogInv
<1>3. tx[q].maxTime >= ledger' /\ tx[q].seq = seq' /\ ledger' \in Nat
  BY DEF Live, TypeOK, Ledger
<1>4. ledger <= ledger'
  BY DEF Grows
<1>5. seq <= seq'
  BY DEF Grows
<1>6. seq' = seq /\ tx[q].maxTime >= ledger
  BY <1>2, <1>3, <1>4, <1>5
<1> QED
  BY <1>3, <1>6 DEF Live

\* A target with no deposit that can land stays so while none is sent.
LEMMA NoLiveStays ==
  ASSUME WatchdogInv, TypeOK', Grows, NEW t, NoLive(t),
         \A q \in Run : tx'[q].status = "sent" /\ tx'[q].target = t => tx'[q] = tx[q]
  PROVE  NoLive(t)'
<1> SUFFICES ASSUME NEW q \in Run, tx'[q].status = "sent", tx'[q].target = t, Live(q)'
             PROVE  FALSE
  BY DEF NoLive
<1>1. tx'[q] = tx[q] /\ tx[q].status = "sent" /\ tx[q].target = t
  OBVIOUS
<1> QED
  BY <1>1, LiveWasLive DEF NoLive

\* A target with a dispute has no deposit that can land.
LEMMA DisputedHasNoLive ==
  ASSUME WatchdogInv, NEW t \in dispute
  PROVE  NoLive(t)
<1> SUFFICES ASSUME NEW q \in Run, tx[q].status = "sent", tx[q].target = t, Live(q)
             PROVE  FALSE
  BY DEF NoLive
<1>1. TxOK(q) /\ tx[q] # NoTx /\ tx[q].seq = seq
  BY DEF WatchdogInv, NoTx, Live
<1> QED
  BY <1>1 DEF TxOK

\* The file of a target that has a deposit which can land is pending.
LEMMA UnwrittenHasNoLive ==
  ASSUME AloneInv, NEW t, file[t].status # "pending"
  PROVE  NoLive(t)
BY DEF AloneInv, LiveDepositIsJournaled, NoLive

\* Every attested target is counted.
LEMMA CountIsWhole ==
  ASSUME WatchdogInv, NEW t \in Target, attested[t] # 0
  PROVE  t <= Cardinality({u \in Target : attested[u] # 0})
<1> DEFINE S == {u \in Target : attested[u] # 0}
<1>1. IsFiniteSet(Target)
  BY Numbers, FS_Interval DEF Target
<1>2. IsFiniteSet(S)
  BY <1>1, FS_Subset
<1>3. t \in Nat /\ t >= 1
  BY Numbers DEF Target
<1>4. 1..t \subseteq S
  <2> SUFFICES ASSUME NEW u \in 1..t PROVE u \in S
    OBVIOUS
  <2>1. u \in Target /\ (u = t \/ u < t)
    BY <1>3, Numbers DEF Target
  <2> QED
    BY <2>1 DEF WatchdogInv, ChainOK
<1>5. Cardinality(1..t) = t
  BY <1>3, FS_Interval
<1>6. Cardinality(1..t) <= Cardinality(S)
  BY <1>2, <1>4, FS_Subset
<1> QED
  BY <1>5, <1>6

\* While one run is active, only what it knows has to be shown again.
LEMMA AloneKeeps ==
  ASSUME AloneInv, NEW r \in Run, run[r].pc \in Active,
         \A q \in Run \ {r} : run'[q] = run[q],
         LoopOK(r)', EarlierTargetsAreSettled', LiveDepositIsJournaled'
  PROVE  AloneInv'
<1>1. \A q \in Run \ {r} : run'[q].pc \notin Active
  BY DEF AloneInv, Alone
<1>2. Alone'
  BY <1>1 DEF Alone
<1>3. \A q \in Run : LoopOK(q)'
  BY <1>1 DEF LoopOK
<1> QED
  BY <1>2, <1>3 DEF AloneInv

\* A step that writes no file and sends nothing.
LEMMA ReadKeepsAlone ==
  ASSUME WatchdogInv, AloneInv, Grows, NEW r \in Run, run[r].pc \in Active,
         UNCHANGED <<network, tx, file>>, \A q \in Run \ {r} : run'[q] = run[q], LoopOK(r)'
  PROVE  AloneInv'
<1>1. EarlierTargetsAreSettled'
  BY DEF AloneInv, EarlierTargetsAreSettled
<1>2. LiveDepositIsJournaled'
  BY DEF AloneInv, LiveDepositIsJournaled, Live, network
<1> QED
  BY <1>1, <1>2, AloneKeeps

\* A run that ends leaves the directory and the deposits as they are.
LEMMA EndKeepsAlone ==
  ASSUME WatchdogInv, AloneInv, Grows, NEW r \in Run, run[r].pc \in Active,
         NEW report \in {"dead"} \cup Outcome \cup Failure, End(r, report),
         UNCHANGED <<network, tx, file>>
  PROVE  AloneInv'
<1>1. run'[r].pc = report /\ \A q \in Run \ {r} : run'[q] = run[q]
  BY DEF End, Idle, WatchdogInv, TypeOK
<1>2. LoopOK(r)'
  BY <1>1 DEF LoopOK, Active, Rpc, Outcome, Failure
<1> QED
  BY <1>1, <1>2, ReadKeepsAlone

\* The network moves: what could not land still cannot.
LEMMA NetworkKeepsAlone ==
  ASSUME WatchdogInv, TypeOK', AloneInv, Grows, UNCHANGED <<file, run>>,
         \A q \in Run : tx'[q].status = "sent" => tx'[q] = tx[q]
  PROVE  AloneInv'
<1>1. \A t : NoLive(t) => NoLive(t)'
  BY NoLiveStays
<1>2. Alone' /\ EarlierTargetsAreSettled'
  BY DEF AloneInv, Alone, EarlierTargetsAreSettled
<1>3. ASSUME NEW r \in Run PROVE LoopOK(r)'
  <2>1. LoopOK(r) /\ (NoLive(run[r].at) => NoLive(run[r].at)')
    BY <1>1 DEF AloneInv, NoLive
  <2> HIDE DEF NoLive
  <2> QED
    BY <2>1 DEF LoopOK
<1>4. LiveDepositIsJournaled'
  <2> SUFFICES ASSUME NEW r \in Run, tx'[r].status = "sent", Live(r)'
               PROVE  /\ file'[tx'[r].target].status = "pending"
                      /\ file'[tx'[r].target].hash = r
    BY DEF LiveDepositIsJournaled
  <2>1. tx'[r] = tx[r] /\ Live(r)
    BY LiveWasLive
  <2> QED
    BY <2>1 DEF AloneInv, LiveDepositIsJournaled
<1> QED
  BY <1>2, <1>3, <1>4 DEF AloneInv

\* A run starts when no other one is active.
LEMMA StartKeepsAlone ==
  ASSUME Concurrent = 1, WatchdogInv, AloneInv, NEW r \in Run, Start(r)
  PROVE  AloneInv'
<1> DEFINE S == {q \in Run : run[q].pc \in Active}
<1>1. S = {}
  <2>1. IsFiniteSet(S)
    BY Numbers, FS_Subset
  <2>2. Cardinality(S) \in Nat /\ Cardinality(S) < 1
    BY <2>1, FS_CardinalityType DEF Start
  <2>3. Cardinality(S) = 0
    BY <2>2
  <2> QED
    BY <2>1, <2>3, FS_EmptySet
<1>2. PICK g \in Graces : run' = [run EXCEPT ![r].pc = "count", ![r].grace = g]
  BY DEF Start
<1>3. /\ run[r] = Idle /\ run \in [Run -> Local]
  BY DEF Start, WatchdogInv, RunOK, TypeOK
<1>4. /\ \A q \in Run \ {r} : run'[q].pc \notin Active
      /\ run'[r] = [Idle EXCEPT !.pc = "count", !.grace = g]
  BY <1>1, <1>2, <1>3
<1>5. run'[r].pc = "count" /\ run'[r].at = 1
  BY <1>4 DEF Idle
<1>6. Alone'
  BY <1>4 DEF Alone
<1>7. LoopOK(r)'
  <2>1. \A u \in Target : ~(u < 1)
    BY Numbers DEF Target
  <2> QED
    BY <1>5, <2>1 DEF LoopOK
<1>8. \A q \in Run : LoopOK(q)'
  BY <1>4, <1>7 DEF LoopOK
<1>9. EarlierTargetsAreSettled' /\ LiveDepositIsJournaled'
  BY DEF Start, network, AloneInv, EarlierTargetsAreSettled, LiveDepositIsJournaled, Live
<1> QED
  BY <1>6, <1>8, <1>9 DEF AloneInv

\* The targets and the ledger are read.
LEMMA CountKeepsAlone ==
  ASSUME WatchdogInv, AloneInv, Grows, NEW r \in Run, ReadCount(r) \/ ReadLedger(r)
  PROVE  AloneInv'
<1>1. /\ UNCHANGED <<network, tx, file>> /\ run[r].pc \in {"count", "ledger"}
      /\ run[r].pc \in Active
  BY DEF ReadCount, ReadLedger, Active, Rpc
<1>2. RunOK(r) /\ LoopOK(r) /\ run[r] \in Local /\ run \in [Run -> Local] /\ run[r].at = 1
      /\ \A u \in Target : ~(u < 1)
  BY <1>1, Numbers DEF WatchdogInv, AloneInv, TypeOK, RunOK, Target
<1>3. CASE ReadCount(r)
  <2> DEFINE total == Cardinality({t \in Target : attested[t] # 0})
  <2>1. End(r, "none") \/ run' = [run EXCEPT ![r].pc = "ledger", ![r].total = total]
    BY <1>3 DEF ReadCount
  <2>2. \A t \in Target : file[t] # NoFile => t <= total
    BY CountIsWhole DEF WatchdogInv, DirOK
  <2> HIDE DEF total
  <2>3. CASE run' = [run EXCEPT ![r].pc = "ledger", ![r].total = total]
    <3>1. /\ run'[r] = [run[r] EXCEPT !.pc = "ledger", !.total = total]
          /\ \A q \in Run \ {r} : run'[q] = run[q]
      BY <1>2, <2>3
    <3>2. run'[r].pc = "ledger" /\ run'[r].total = total /\ run'[r].at = 1
      BY <1>2, <3>1 DEF Local
    <3>3. LoopOK(r)'
      BY <1>1, <1>2, <2>2, <3>2 DEF LoopOK
    <3> QED
      BY <1>1, <3>1, <3>3, ReadKeepsAlone
  <2> QED
    BY <1>1, <2>1, <2>3, EndKeepsAlone DEF Outcome
<1>4. CASE ReadLedger(r)
  <2>1. run[r].pc = "ledger" /\ run' = [run EXCEPT ![r].pc = "state", ![r].cur = ledger]
    BY <1>4 DEF ReadLedger
  <2>2. /\ run'[r] = [run[r] EXCEPT !.pc = "state", !.cur = ledger]
        /\ \A q \in Run \ {r} : run'[q] = run[q]
    BY <1>2, <2>1
  <2>3. run'[r].pc = "state" /\ run'[r].total = run[r].total /\ run'[r].at = 1
    BY <1>2, <2>2 DEF Local
  <2>4. LoopOK(r)'
    BY <1>1, <1>2, <2>1, <2>3 DEF LoopOK
  <2> QED
    BY <1>1, <2>2, <2>4, ReadKeepsAlone
<1> QED
  BY <1>3, <1>4

\* The record of the next target decides: it is final, in doubt or missing.
LEMMA StateKeepsAlone ==
  ASSUME WatchdogInv, AloneInv, Grows, NEW r \in Run, ReadState(r)
  PROVE  AloneInv'
<1> DEFINE f == file[run[r].at]
<1>1. /\ UNCHANGED <<network, tx, file>> /\ run[r].pc = "state" /\ run[r].pc \in Active
  BY DEF ReadState, Active
<1>2. RunOK(r) /\ LoopOK(r) /\ run[r] \in Local /\ run \in [Run -> Local] /\ ~run[r].retry
  BY <1>1 DEF WatchdogInv, AloneInv, TypeOK, RunOK
<1>3. CASE \E report \in Outcome \cup Failure : End(r, report)
  BY <1>1, <1>3, EndKeepsAlone
<1>4. CASE ~\E report \in Outcome \cup Failure : End(r, report)
  <2>1. /\ run[r].at \in Target /\ run[r].at <= run[r].total
        /\ \/ f = NoFile /\ Goto(r, "package")
           \/ /\ f \in Record /\ f.status = "pending"
              /\ run' = [run EXCEPT ![r].pc = "journal", ![r].rec = f]
           \/ /\ f.status \in Final
              /\ run' = [run EXCEPT ![r].at = @ + 1, ![r].skipped = @ \/ f.status = "expired",
                           ![r].passed = @ \/ f.status = "delivered"]
    BY <1>4, StateCases DEF Outcome, Failure
  <2>2. f = file[run[r].at] /\ run[r].at \in Nat
    BY <2>1, Numbers DEF Target
  <2>3. CASE f = NoFile /\ Goto(r, "package")
    <3>1. /\ run'[r] = [run[r] EXCEPT !.pc = "package"] /\ \A q \in Run \ {r} : run'[q] = run[q]
      BY <2>3, GotoMoves DEF Active, Rpc
    <3>2. /\ run'[r].pc = "package" /\ run'[r].at = run[r].at /\ run'[r].retry = run[r].retry
          /\ run'[r].total = run[r].total
      BY <1>2, <3>1 DEF Local
    <3>3. NoLive(run[r].at)
      <4>1. file[run[r].at].status # "pending"
        BY <2>2, <2>3 DEF NoFile
      <4> QED
        BY <4>1, UnwrittenHasNoLive
    <3>4. NoLive(run[r].at)'
      BY <1>1, <3>2, <3>3 DEF NoLive, Live, network
    <3>5. LoopOK(r)'
      <4> HIDE DEF NoLive
      <4> QED
        BY <1>1, <1>2, <2>2, <2>3, <3>2, <3>4 DEF LoopOK
    <3> QED
      BY <1>1, <3>1, <3>5, ReadKeepsAlone
  <2>4. CASE /\ f \in Record /\ f.status = "pending"
             /\ run' = [run EXCEPT ![r].pc = "journal", ![r].rec = f]
    <3> HIDE DEF f
    <3>1. /\ run'[r] = [run[r] EXCEPT !.pc = "journal", !.rec = f]
          /\ \A q \in Run \ {r} : run'[q] = run[q]
      BY <1>2, <2>4
    <3>2. /\ run'[r].pc = "journal" /\ run'[r].at = run[r].at /\ run'[r].rec = f
          /\ run'[r].total = run[r].total
      BY <1>2, <3>1 DEF Local
    <3>3. LoopOK(r)'
      BY <1>1, <1>2, <2>2, <2>4, <3>2 DEF LoopOK
    <3> QED
      BY <1>1, <3>1, <3>3, ReadKeepsAlone
  <2>5. CASE /\ f.status \in Final
             /\ run' = [run EXCEPT ![r].at = @ + 1, ![r].skipped = @ \/ f.status = "expired",
                          ![r].passed = @ \/ f.status = "delivered"]
    <3> HIDE DEF f
    <3>1. /\ run'[r] = [run[r] EXCEPT !.at = @ + 1, !.skipped = @ \/ f.status = "expired",
                          !.passed = @ \/ f.status = "delivered"]
          /\ \A q \in Run \ {r} : run'[q] = run[q]
      BY <1>2, <2>5
    <3>2. /\ run'[r].pc = "state" /\ run'[r].at = run[r].at + 1
          /\ run'[r].total = run[r].total
      BY <1>1, <1>2, <3>1 DEF Local
    <3>3. ASSUME NEW u \in Target, u < run'[r].at PROVE file'[u].status \in Final
      <4>1. u < run[r].at \/ u = run[r].at
        BY <2>2, <3>2, <3>3, Numbers DEF Target
      <4> QED
        BY <1>1, <1>2, <2>2, <2>5, <4>1 DEF LoopOK
    <3>4. LoopOK(r)'
      BY <1>1, <1>2, <3>2, <3>3 DEF LoopOK
    <3> QED
      BY <1>1, <3>1, <3>4, ReadKeepsAlone
  <2> QED
    BY <2>1, <2>3, <2>4, <2>5
<1> QED
  BY <1>3, <1>4

\* A run that goes on in front of the same record.
LEMMA StayKeepsAlone ==
  ASSUME WatchdogInv, AloneInv, Grows, NEW r \in Run, UNCHANGED <<network, tx, file>>,
         run[r].pc \in Active, \A q \in Run \ {r} : run'[q] = run[q],
         run'[r].at = run[r].at, run'[r].total = run[r].total,
         \/ /\ run[r].pc \in {"journal", "journalTx"}
            /\ run'[r].pc = "journalTx" /\ run'[r].rec = run[r].rec
         \/ /\ run[r].pc \in {"package", "dispute", "build"}
            /\ run'[r].pc \in {"package", "dispute", "build", "write"}
            /\ run'[r].retry = run[r].retry
         \/ run[r].pc = "poll" /\ run'[r].pc = "confirm"
         \/ /\ run[r].pc \in {"journal", "journalTx", "confirm"} /\ NoLive(run[r].at)
            /\ run'[r].pc \in {"package", "write"} /\ run'[r].retry
  PROVE  AloneInv'
<1>1. LoopOK(r)
  BY DEF AloneInv
<1>2. NoLive(run[r].at) => NoLive(run[r].at)'
  BY DEF NoLive, Live, network
<1>3. LoopOK(r)'
  <2> HIDE DEF NoLive
  <2> QED
    BY <1>1, <1>2 DEF LoopOK, Active, Rpc
<1> QED
  BY <1>3, ReadKeepsAlone

\* A pending record is replaced only when its deposit can never land.
LEMMA PendingKeepsAlone ==
  ASSUME WatchdogInv, AloneInv, Grows, NEW r \in Run, ReadPendingDispute(r) \/ ReadPendingTx(r)
  PROVE  AloneInv'
<1>1. /\ UNCHANGED <<network, tx, file>> /\ run[r].pc \in {"journal", "journalTx"}
      /\ run[r].pc \in Active
  BY DEF ReadPendingDispute, ReadPendingTx, Active, Rpc
<1>2. /\ RunOK(r) /\ LoopOK(r) /\ run[r] \in Local /\ run \in [Run -> Local]
      /\ run[r].rec \in Record /\ run[r].at \in Target
  BY <1>1, LoopTypes DEF WatchdogInv, AloneInv, TypeOK, RunOK, InLoop
<1>3. CASE \E report \in Outcome \cup Failure : End(r, report)
  BY <1>1, <1>3, EndKeepsAlone
<1>4. CASE ReadPendingDispute(r)
  <2>1. CASE Goto(r, "journalTx")
    <3>1. /\ run'[r] = [run[r] EXCEPT !.pc = "journalTx"]
          /\ \A q \in Run \ {r} : run'[q] = run[q]
      BY <2>1, GotoMoves DEF Active, Rpc
    <3>2. /\ run'[r].pc = "journalTx" /\ run'[r].at = run[r].at /\ run'[r].total = run[r].total
          /\ run'[r].rec = run[r].rec
      BY <1>2, <3>1 DEF Local
    <3> QED
      BY <1>1, <3>1, <3>2, StayKeepsAlone
  <2>2. CASE ~Goto(r, "journalTx")
    <3>1. /\ run[r].at \in dispute
          /\ run' = [run EXCEPT ![r].pc = "write", ![r].retry = TRUE, ![r].then = "existing",
                       ![r].rec.status = "disputed"]
      BY <1>4, <2>2 DEF ReadPendingDispute, At
    <3>2. \A q \in Run \ {r} : run'[q] = run[q]
      BY <1>2, <3>1
    <3>3. /\ run'[r].pc = "write" /\ run'[r].retry /\ run'[r].at = run[r].at
          /\ run'[r].total = run[r].total
      BY <1>2, <3>1 DEF Local
    <3>4. NoLive(run[r].at)
      BY <3>1, DisputedHasNoLive
    <3> QED
      BY <1>1, <3>2, <3>3, <3>4, StayKeepsAlone
  <2> QED
    BY <2>1, <2>2
<1>5. CASE ReadPendingTx(r) /\ ~\E report \in Outcome \cup Failure : End(r, report)
  <2> DEFINE p == tx[run[r].rec.hash]
             dead == p.status = "failed" \/ (p.status \in {"built", "sent"} /\ ledger > p.maxTime)
  <2>1. run[r].pc = "journalTx"
    BY <1>5 DEF ReadPendingTx
  <2>2. dead /\ run' = [run EXCEPT ![r].pc = "package", ![r].retry = TRUE]
    <3>1. run[r].rec.hash \in Run
      BY <1>2, <2>1 DEF RunOK
    <3>2. p \in Tx \cup {NoTx}
      BY <3>1 DEF WatchdogInv, TypeOK
    <3> QED
      BY <1>5, <3>2 DEF ReadPendingTx, Outcome, Failure, Tx, NoTx
  <2>3. /\ run'[r].pc = "package" /\ run'[r].retry /\ run'[r].at = run[r].at
        /\ run'[r].total = run[r].total /\ \A q \in Run \ {r} : run'[q] = run[q]
    BY <1>2, <2>2 DEF Local
  <2>4. NoLive(run[r].at)
    <3> SUFFICES ASSUME NEW q \in Run, tx[q].status = "sent", tx[q].target = run[r].at, Live(q)
                 PROVE  FALSE
      BY DEF NoLive
    <3>1. file[run[r].at].hash = q /\ file[run[r].at] = run[r].rec
      BY <1>2, <2>1, <1>1 DEF AloneInv, LiveDepositIsJournaled, LoopOK
    <3>2. p = tx[q]
      BY <3>1
    <3>3. tx[q] \in Tx /\ ledger \in Nat /\ tx[q].maxTime \in Nat
      BY ChainTypes DEF WatchdogInv, TypeOK, Tx, NoTx
    <3>4. ledger > tx[q].maxTime
      BY <2>2, <3>2
    <3> QED
      BY <3>3, <3>4 DEF Live
  <2> QED
    BY <1>1, <2>3, <2>4, StayKeepsAlone
<1> QED
  BY <1>3, <1>4, <1>5

LEMMA WriteMoves ==
  ASSUME WatchdogInv, NEW r \in Run, NEW status, NEW hash, NEW then, Write(r, status, hash, then)
  PROVE  /\ run'[r].pc = "write" /\ run'[r].at = run[r].at /\ run'[r].total = run[r].total
         /\ run'[r].retry = run[r].retry
         /\ \A q \in Run \ {r} : run'[q] = run[q]
<1>1. run[r] \in Local /\ run \in [Run -> Local]
  BY DEF WatchdogInv, TypeOK
<1> QED
  BY <1>1 DEF Write, Local

\* Before the deposit: the package, the dispute and the signature.
LEMMA PackageKeepsAlone ==
  ASSUME WatchdogInv, AloneInv, Grows, NEW r \in Run, ReadPackage(r) \/ ReadDispute(r)
  PROVE  AloneInv'
<1>1. /\ UNCHANGED <<network, tx, file>> /\ run[r].pc \in {"package", "dispute"}
      /\ run[r].pc \in Active
  BY DEF ReadPackage, ReadDispute, Active, Rpc
<1>2. run[r] \in Local
  BY DEF WatchdogInv, TypeOK
<1>3. CASE End(r, "waiting")
  BY <1>1, <1>3, EndKeepsAlone DEF Outcome
<1>4. CASE \E status, then : Write(r, status, None, then)
  <2>1. /\ run'[r].pc = "write" /\ run'[r].at = run[r].at /\ run'[r].total = run[r].total
        /\ run'[r].retry = run[r].retry
        /\ \A q \in Run \ {r} : run'[q] = run[q]
    BY <1>4, WriteMoves
  <2> QED
    BY <1>1, <2>1, StayKeepsAlone
<1>5. CASE \E pc \in {"dispute", "build"} : Goto(r, pc)
  <2>1. PICK pc \in {"dispute", "build"} : Goto(r, pc)
    BY <1>5
  <2>2. pc \in Active
    BY DEF Active, Rpc
  <2>3. /\ run'[r] = [run[r] EXCEPT !.pc = pc] /\ \A q \in Run \ {r} : run'[q] = run[q]
    BY <2>1, <2>2, GotoMoves
  <2>4. /\ run'[r].pc = pc /\ run'[r].at = run[r].at /\ run'[r].total = run[r].total
        /\ run'[r].retry = run[r].retry
    BY <1>2, <2>3 DEF Local
  <2> QED
    BY <1>1, <2>3, <2>4, StayKeepsAlone
<1>6. CASE ReadPackage(r)
  BY <1>3, <1>4, <1>5, <1>6, PackageCases
<1>7. CASE ReadDispute(r)
  BY <1>4, <1>5, <1>7 DEF ReadDispute
<1> QED
  BY <1>6, <1>7

\* The answer is read; a dispute on the chain settles the pending record.
LEMMA AnswerKeepsAlone ==
  ASSUME WatchdogInv, AloneInv, Grows, NEW r \in Run, Poll(r) \/ Confirm(r) \/ RpcFails(r) \/ Kill(r)
  PROVE  AloneInv'
<1>1. UNCHANGED <<network, tx, file>>
  BY DEF Poll, Confirm, RpcFails, Kill
<1>2. run[r].pc \in Active /\ run[r] \in Local /\ run \in [Run -> Local] /\ RunOK(r)
  BY DEF Poll, Confirm, RpcFails, Kill, Active, Rpc, WatchdogInv, TypeOK
<1>3. CASE \E report \in {"dead"} \cup Outcome \cup Failure : End(r, report)
  BY <1>1, <1>2, <1>3, EndKeepsAlone
<1>4. CASE Poll(r) /\ ~\E report \in {"dead"} \cup Outcome \cup Failure : End(r, report)
  <2>1. run[r].pc = "poll"
    BY <1>4 DEF Poll
  <2>2. tx[r].status \in {"sent", "success", "failed"}
    BY <1>2, <2>1 DEF RunOK
  <2>3. Goto(r, "confirm")
    BY <1>4, <2>2 DEF Poll, Failure
  <2>4. /\ run'[r] = [run[r] EXCEPT !.pc = "confirm"]
        /\ \A q \in Run \ {r} : run'[q] = run[q]
    BY <2>3, GotoMoves DEF Active, Rpc
  <2>5. run'[r].pc = "confirm" /\ run'[r].at = run[r].at /\ run'[r].total = run[r].total
    BY <1>2, <2>4 DEF Local
  <2> QED
    BY <1>1, <1>2, <2>1, <2>4, <2>5, StayKeepsAlone
<1>5. CASE Confirm(r) /\ ~\E report \in {"dead"} \cup Outcome \cup Failure : End(r, report)
  <2>1. /\ run[r].pc = "confirm" /\ run[r].at \in dispute
        /\ run' = [run EXCEPT ![r].pc = "write", ![r].retry = TRUE, ![r].then = "opened",
                     ![r].rec = [status |-> "disputed", grace |-> run[r].grace, hash |-> r]]
    BY <1>5 DEF Confirm, Failure, At
  <2>2. /\ run'[r].pc = "write" /\ run'[r].retry /\ run'[r].at = run[r].at
        /\ run'[r].total = run[r].total /\ \A q \in Run \ {r} : run'[q] = run[q]
    BY <1>2, <2>1 DEF Local
  <2>3. NoLive(run[r].at)
    BY <2>1, DisputedHasNoLive
  <2> QED
    BY <1>1, <1>2, <2>1, <2>2, <2>3, StayKeepsAlone
<1>6. CASE RpcFails(r) \/ Kill(r)
  BY <1>3, <1>6 DEF RpcFails, Kill, Failure
<1> QED
  BY <1>3, <1>4, <1>5, <1>6

\* A deposit that is signed and not sent cannot land.
LEMMA BuildKeepsAlone ==
  ASSUME WatchdogInv, TypeOK', AloneInv, Grows, NEW r \in Run, Build(r)
  PROVE  AloneInv'
<1>1. /\ UNCHANGED <<network, file>> /\ run[r].pc = "build" /\ run[r].pc \in Active
  BY DEF Build, Active, Rpc
<1>2. CASE End(r, "refused") /\ UNCHANGED tx
  BY <1>1, <1>2, EndKeepsAlone DEF Failure
<1>3. CASE /\ tx' = [tx EXCEPT ![r] = [status |-> "built", target |-> At(r), grace |-> run[r].grace,
                                       seq |-> seq, maxTime |-> ledger + Lifetime]]
           /\ Write(r, "pending", r, "send")
  <2>1. tx'[r].status = "built" /\ \A q \in Run \ {r} : tx'[q] = tx[q]
    BY <1>3 DEF WatchdogInv, TypeOK
  <2>2. /\ run'[r].pc = "write" /\ run'[r].at = run[r].at /\ run'[r].total = run[r].total
        /\ run'[r].retry = run[r].retry
        /\ \A q \in Run \ {r} : run'[q] = run[q]
    BY <1>3, WriteMoves
  <2>3. LoopOK(r)'
    <3>1. LoopOK(r) /\ NoLive(run[r].at)
      BY <1>1 DEF AloneInv, LoopOK
    <3>2. NoLive(run[r].at)'
      BY <1>1, <2>1, <2>2, <3>1 DEF NoLive, Live, network
    <3> HIDE DEF NoLive
    <3> QED
      BY <1>1, <2>2, <3>1, <3>2 DEF LoopOK
  <2>4. EarlierTargetsAreSettled'
    BY <1>1 DEF AloneInv, EarlierTargetsAreSettled
  <2>5. LiveDepositIsJournaled'
    BY <1>1, <2>1 DEF AloneInv, LiveDepositIsJournaled, Live, network
  <2> QED
    BY <1>1, <2>2, <2>3, <2>4, <2>5, AloneKeeps
<1> QED
  BY <1>2, <1>3 DEF Build

\* The deposit that is sent is the one that the journal names.
LEMMA SendKeepsAlone ==
  ASSUME WatchdogInv, TypeOK', AloneInv, Grows, NEW r \in Run, Send(r)
  PROVE  AloneInv'
<1>1. /\ UNCHANGED <<network, file>> /\ run[r].pc = "send" /\ run[r].pc \in Active
  BY DEF Send, Active, Rpc
<1>2. /\ LoopOK(r) /\ tx[r].target = run[r].at /\ tx[r] \in Tx /\ run[r] \in Local
      /\ tx \in [Run -> Tx \cup {NoTx}]
  BY <1>1 DEF AloneInv, WatchdogInv, RunOK, TypeOK, NoTx
<1>3. CASE End(r, "infrastructure") /\ UNCHANGED tx
  BY <1>1, <1>3, EndKeepsAlone DEF Failure
<1>4. CASE /\ tx' = [tx EXCEPT ![r].status = "sent"]
           /\ Goto(r, "poll") \/ End(r, "infrastructure")
  <2>1. tx'[r].target = run[r].at /\ \A q \in Run \ {r} : tx'[q] = tx[q]
    BY <1>2, <1>4 DEF Tx
  <2>2. /\ \A q \in Run \ {r} : run'[q] = run[q]
        /\ LoopOK(r)'
    <3>1. CASE Goto(r, "poll")
      <4>1. /\ run'[r] = [run[r] EXCEPT !.pc = "poll"]
            /\ \A q \in Run \ {r} : run'[q] = run[q]
        BY <3>1, GotoMoves DEF Active, Rpc
      <4>2. run'[r].pc = "poll" /\ run'[r].at = run[r].at /\ run'[r].total = run[r].total
        BY <1>2, <4>1 DEF Local
      <4> QED
        BY <1>1, <1>2, <4>1, <4>2 DEF LoopOK
    <3>2. CASE End(r, "infrastructure")
      <4>1. /\ run'[r].pc = "infrastructure" /\ \A q \in Run \ {r} : run'[q] = run[q]
        BY <3>2 DEF End, Idle, WatchdogInv, TypeOK
      <4> QED
        BY <4>1 DEF LoopOK, Active, Rpc
    <3> QED
      BY <1>4, <3>1, <3>2
  <2>3. EarlierTargetsAreSettled'
    BY <1>1 DEF AloneInv, EarlierTargetsAreSettled
  <2>4. LiveDepositIsJournaled'
    <3> SUFFICES ASSUME NEW q \in Run, tx'[q].status = "sent", Live(q)'
                 PROVE  /\ file[tx'[q].target].status = "pending"
                        /\ file[tx'[q].target].hash = q
      BY <1>1 DEF LiveDepositIsJournaled
    <3>1. CASE q = r
      BY <1>1, <1>2, <2>1, <3>1 DEF LoopOK
    <3>2. CASE q # r
      <4>1. tx'[q] = tx[q] /\ Live(q)
        BY <1>1, <2>1, <3>2 DEF Live, network
      <4> QED
        BY <4>1 DEF AloneInv, LiveDepositIsJournaled
    <3> QED
      BY <3>1, <3>2
  <2> QED
    BY <1>1, <2>2, <2>3, <2>4, AloneKeeps
<1> QED
  BY <1>3, <1>4 DEF Send

\* Where a run stands that writes its record.
LEMMA WriterStands ==
  ASSUME WatchdogInv, AloneInv, NEW r \in Run, run[r].pc \in {"package", "write", "fill"}
  PROVE  /\ run[r].at \in Target /\ run[r].at <= run[r].total
         /\ file[run[r].at].status \notin Final /\ NoLive(run[r].at)
         /\ \A u \in Target : u < run[r].at => file[u].status \in Final
         /\ \A t \in Target : t > run[r].at => file[t] = NoFile
<1>1. /\ LoopOK(r) /\ run[r].pc \in Active /\ run[r].at \in Target /\ run[r].at <= run[r].total
  BY LoopTypes DEF AloneInv, Active, Rpc, InLoop
<1>2. file[run[r].at].status \notin Final
  <2>1. \/ file[run[r].at].status = "pending" \/ file[run[r].at] = NoFile
        \/ file[run[r].at] = Torn
    BY <1>1 DEF LoopOK
  <2> QED
    BY <2>1 DEF NoFile, Torn, Final
<1>3. ASSUME NEW t \in Target, t > run[r].at, file[t] # NoFile PROVE FALSE
  <2>1. run[r].at \in 1..(t - 1)
    BY <1>1, <1>3, Numbers DEF Target
  <2> QED
    BY <1>2, <1>3, <2>1 DEF AloneInv, EarlierTargetsAreSettled
<1> QED
  BY <1>1, <1>2, <1>3 DEF LoopOK

\* The file of its target is the last one that a run writes.
LEMMA FileKeepsAlone ==
  ASSUME WatchdogInv, AloneInv, NEW r \in Run, run[r].pc \in {"write", "fill"},
         UNCHANGED <<network, tx>>, NEW f, file' = [file EXCEPT ![At(r)] = f]
  PROVE  /\ EarlierTargetsAreSettled' /\ LiveDepositIsJournaled'
         /\ file'[run[r].at] = f /\ NoLive(run[r].at)
         /\ \A t \in Target \ {run[r].at} : file'[t] = file[t]
<1>1. /\ run[r].at \in Target /\ file[run[r].at].status \notin Final /\ NoLive(run[r].at)
      /\ \A u \in Target : u < run[r].at => file[u].status \in Final
      /\ \A t \in Target : t > run[r].at => file[t] = NoFile
  BY WriterStands
<1>2. file'[run[r].at] = f /\ \A t \in Target \ {run[r].at} : file'[t] = file[t]
  BY <1>1 DEF At, WatchdogInv, TypeOK
<1>3. EarlierTargetsAreSettled'
  <2> SUFFICES ASSUME NEW t \in Target, file'[t] # NoFile, NEW u \in 1..(t - 1)
               PROVE  file'[u].status \in Final
    BY DEF EarlierTargetsAreSettled
  <2>1. t \in Nat /\ u \in Target /\ u < t /\ run[r].at \in Nat
    BY <1>1, Numbers DEF Target
  <2>2. ~(t > run[r].at)
    BY <1>1, <1>2, <2>1
  <2>3. u < run[r].at /\ u # run[r].at
    BY <2>1, <2>2
  <2> QED
    BY <1>1, <1>2, <2>1, <2>3
<1>4. LiveDepositIsJournaled'
  <2> SUFFICES ASSUME NEW q \in Run, tx[q].status = "sent", Live(q)
               PROVE  /\ file'[tx[q].target].status = "pending"
                      /\ file'[tx[q].target].hash = q
    BY DEF LiveDepositIsJournaled, Live, network
  <2>1. tx[q].target \in Target
    BY DEF WatchdogInv, TypeOK, Tx, NoTx
  <2>2. tx[q].target # run[r].at
    BY <1>1 DEF NoLive
  <2>3. /\ file[tx[q].target].status = "pending" /\ file[tx[q].target].hash = q
    BY DEF AloneInv, LiveDepositIsJournaled
  <2> QED
    BY <1>2, <2>1, <2>2, <2>3
<1> QED
  BY <1>1, <1>2, <1>3, <1>4

\* The state file is opened, or its record is written.
LEMMA RecordKeepsAlone ==
  ASSUME WatchdogInv, TypeOK', AloneInv, Grows, NEW r \in Run,
         ReplaceState(r) \/ CreateState(r) \/ FillState(r)
  PROVE  AloneInv'
<1>1. /\ run[r].pc \in {"write", "fill"} /\ run[r].pc \in Active
      /\ UNCHANGED <<network, tx>>
  BY DEF ReplaceState, CreateState, FillState, Active
<1>2. /\ RunOK(r) /\ LoopOK(r) /\ run[r] \in Local /\ run[r].at \in Target
      /\ run[r].at <= run[r].total
  BY <1>1, WriterStands DEF WatchdogInv, AloneInv, TypeOK
<1>3. CASE End(r, "raced") /\ UNCHANGED file
  BY <1>1, <1>3, EndKeepsAlone DEF Failure
<1>4. CASE file' = [file EXCEPT ![At(r)] = Torn] /\ Goto(r, "fill")
  <2>1. /\ EarlierTargetsAreSettled' /\ LiveDepositIsJournaled'
        /\ file'[run[r].at] = Torn /\ NoLive(run[r].at)
        /\ \A t \in Target \ {run[r].at} : file'[t] = file[t]
    BY <1>1, <1>4, FileKeepsAlone
  <2>2. /\ run'[r] = [run[r] EXCEPT !.pc = "fill"] /\ \A q \in Run \ {r} : run'[q] = run[q]
    BY <1>4, GotoMoves DEF Active
  <2>3. run'[r].pc = "fill" /\ run'[r].at = run[r].at /\ run'[r].total = run[r].total
    BY <1>2, <2>2 DEF Local
  <2>4. NoLive(run[r].at)'
    BY <1>1, <2>1, <2>3 DEF NoLive, Live, network
  <2>5. \A u \in Target : u < run[r].at => u # run[r].at
    BY <1>2, Numbers DEF Target
  <2>6. LoopOK(r)'
    <3> HIDE DEF NoLive
    <3> QED
      BY <1>1, <1>2, <2>1, <2>3, <2>4, <2>5 DEF LoopOK
  <2> QED
    BY <1>1, <2>1, <2>2, <2>6, AloneKeeps
<1>5. CASE file' = [file EXCEPT ![At(r)] = run[r].rec] /\ After(r)
  <2>1. /\ EarlierTargetsAreSettled' /\ LiveDepositIsJournaled'
        /\ file'[run[r].at] = run[r].rec /\ NoLive(run[r].at)
        /\ \A t \in Target \ {run[r].at} : file'[t] = file[t]
    BY <1>1, <1>5, FileKeepsAlone
  <2>2. /\ \A q \in Run \ {r} : run'[q] = run[q]
        /\ \/ run[r].then = "send" /\ run'[r] = [run[r] EXCEPT !.pc = "send"]
           \/ /\ run[r].then = "continue"
              /\ run'[r] = [run[r] EXCEPT !.pc = "state", !.at = @ + 1, !.retry = FALSE,
                               !.skipped = @ \/ run[r].rec.status = "expired",
                               !.passed = @ \/ run[r].rec.status = "delivered"]
           \/ /\ run[r].then \in {"existing", "opened"}
              /\ run'[r] = [Idle EXCEPT !.pc = run[r].then]
    BY <1>1, <1>5, AfterMoves
  <2>3. \A u \in Target : u < run[r].at => u # run[r].at
    BY <1>2, Numbers DEF Target
  <2>4. CASE run[r].then = "send" /\ run'[r] = [run[r] EXCEPT !.pc = "send"]
    <3>1. run'[r].pc = "send" /\ run'[r].at = run[r].at /\ run'[r].total = run[r].total
      BY <1>2, <2>4 DEF Local
    <3>2. run[r].rec.status = "pending" /\ run[r].rec.hash = r
      BY <1>1, <1>2, <2>4 DEF RunOK
    <3>3. NoLive(run[r].at)'
      BY <1>1, <2>1, <3>1 DEF NoLive, Live, network
    <3>4. LoopOK(r)'
      <4> HIDE DEF NoLive
      <4> QED
        BY <1>1, <1>2, <2>1, <2>3, <3>1, <3>2, <3>3 DEF LoopOK
    <3> QED
      BY <1>1, <2>1, <2>2, <3>4, AloneKeeps
  <2>5. CASE /\ run[r].then = "continue"
             /\ run'[r] = [run[r] EXCEPT !.pc = "state", !.at = @ + 1, !.retry = FALSE,
                              !.skipped = @ \/ run[r].rec.status = "expired",
                              !.passed = @ \/ run[r].rec.status = "delivered"]
    <3>1. run'[r].pc = "state" /\ run'[r].at = run[r].at + 1 /\ run'[r].total = run[r].total
      BY <1>2, <2>5 DEF Local
    <3>2. run[r].rec.status \in Final
      BY <1>1, <1>2, <2>5 DEF RunOK, Final
    <3>3. ASSUME NEW u \in Target, u < run'[r].at PROVE file'[u].status \in Final
      <4>1. u < run[r].at \/ u = run[r].at
        BY <1>2, <3>1, <3>3, Numbers DEF Target
      <4> QED
        BY <1>1, <1>2, <2>1, <2>3, <3>2, <4>1 DEF LoopOK
    <3>4. LoopOK(r)'
      BY <1>1, <1>2, <2>1, <3>1, <3>3 DEF LoopOK
    <3> QED
      BY <1>1, <2>1, <2>2, <3>4, AloneKeeps
  <2>6. CASE /\ run[r].then \in {"existing", "opened"}
             /\ run'[r] = [Idle EXCEPT !.pc = run[r].then]
    <3>1. run'[r].pc \in {"existing", "opened"}
      BY <2>6 DEF Idle
    <3>2. LoopOK(r)'
      BY <3>1 DEF LoopOK, Active, Rpc
    <3> QED
      BY <1>1, <2>1, <2>2, <3>2, AloneKeeps
  <2> QED
    BY <2>2, <2>4, <2>5, <2>6
<1> QED
  BY <1>3, <1>4, <1>5 DEF ReplaceState, CreateState, FillState

LEMMA AloneInit ==
  ASSUME Init
  PROVE  AloneInv
<1>1. \A r \in Run : run[r].pc = "idle" /\ tx[r].status = "none"
  BY DEF Init, Idle, NoTx
<1>2. \A t \in Target : file[t] = NoFile
  BY DEF Init
<1> QED
  BY <1>1, <1>2 DEF AloneInv, Alone, LoopOK, EarlierTargetsAreSettled, LiveDepositIsJournaled,
     Active, Rpc

LEMMA AloneStep ==
  ASSUME Concurrent = 1, WatchdogInv, AloneInv, [Next]_vars
  PROVE  AloneInv'
<1>1. TypeOK' /\ Grows
  BY WatchdogStep, NetworkGrows DEF WatchdogInv
<1>2. CASE Close \/ Attest \/ Deliver
  <2>1. UNCHANGED <<tx, file, run>>
    BY <1>2 DEF Close, Attest, Deliver
  <2> QED
    BY <1>1, <2>1, NetworkKeepsAlone
<1>3. ASSUME NEW r \in Run, Land(r) PROVE AloneInv'
  <2>1. /\ UNCHANGED <<file, run>> /\ tx'[r].status \in {"success", "failed"}
        /\ \A q \in Run \ {r} : tx'[q] = tx[q]
    <3>1. tx[r] \in Tx /\ tx \in [Run -> Tx \cup {NoTx}]
      BY <1>3 DEF Land, WatchdogInv, TypeOK, NoTx
    <3> QED
      BY <1>3, <3>1 DEF Land, Tx
  <2> QED
    BY <1>1, <2>1, NetworkKeepsAlone
<1>4. ASSUME NEW r \in Run, Step(r) PROVE AloneInv'
  <2>1. CASE Start(r)
    BY <2>1, StartKeepsAlone
  <2>2. CASE ReadCount(r) \/ ReadLedger(r)
    BY <1>1, <2>2, CountKeepsAlone
  <2>3. CASE ReadState(r)
    BY <1>1, <2>3, StateKeepsAlone
  <2>4. CASE ReadPendingDispute(r) \/ ReadPendingTx(r)
    BY <1>1, <2>4, PendingKeepsAlone
  <2>5. CASE ReadPackage(r) \/ ReadDispute(r)
    BY <1>1, <2>5, PackageKeepsAlone
  <2>6. CASE Build(r)
    BY <1>1, <2>6, BuildKeepsAlone
  <2>7. CASE ReplaceState(r) \/ CreateState(r) \/ FillState(r)
    BY <1>1, <2>7, RecordKeepsAlone
  <2>8. CASE Send(r)
    BY <1>1, <2>8, SendKeepsAlone
  <2>9. CASE Poll(r) \/ Confirm(r) \/ RpcFails(r)
    BY <1>1, <2>9, AnswerKeepsAlone
  <2> QED
    BY <1>4, <2>1, <2>2, <2>3, <2>4, <2>5, <2>6, <2>7, <2>8, <2>9 DEF Step
<1>5. ASSUME NEW r \in Run, Kill(r) PROVE AloneInv'
  BY <1>1, <1>5, AnswerKeepsAlone
<1>6. CASE UNCHANGED vars
  <2>1. UNCHANGED <<tx, file, run>>
    BY <1>6 DEF vars
  <2> QED
    BY <1>1, <2>1, NetworkKeepsAlone
<1> QED
  BY <1>2, <1>3, <1>4, <1>5, <1>6 DEF Next

THEOREM AloneInvariant == Concurrent = 1 => (Spec => []AloneInv)
<1> SUFFICES ASSUME Concurrent = 1 PROVE Spec => []AloneInv
  OBVIOUS
<1>1. WatchdogInv /\ AloneInv /\ [Next]_vars => AloneInv'
  BY AloneStep
<1> QED
  BY <1>1, AloneInit, WatchdogInvariant, PTL DEF Spec

\* A deposit that the network can still take is found by the next run: its state
\* file is pending and names it.
THEOREM LiveDepositsStayJournaled == Concurrent = 1 => (Spec => []LiveDepositIsJournaled)
<1> SUFFICES ASSUME Concurrent = 1 PROVE Spec => []LiveDepositIsJournaled
  OBVIOUS
<1>1. AloneInv => LiveDepositIsJournaled
  BY DEF AloneInv
<1> QED
  BY <1>1, AloneInvariant, PTL

\* The records of the state directory are true, and settle the targets in order.
THEOREM JournalStaysSound == Concurrent = 1 => (Spec => []JournalIsSound)
<1> SUFFICES ASSUME Concurrent = 1 PROVE Spec => []JournalIsSound
  OBVIOUS
<1>1. AloneInv /\ WatchdogInv /\ RecordsAreTrue => JournalIsSound
  BY DEF AloneInv, WatchdogInv, JournalIsSound
<1> QED
  BY <1>1, AloneInvariant, WatchdogInvariant, RecordsStayTrue, PTL

\* Only its own run sends a deposit.
LEMMA OnlyRunSends ==
  ASSUME WatchdogInv, Next, NEW r \in Run, tx[r].status = "built", tx'[r].status = "sent"
  PROVE  Send(r)
<1>1. tx # tx' /\ tx \in [Run -> Tx \cup {NoTx}]
  BY DEF WatchdogInv, TypeOK
<1>2. ASSUME NEW q \in Run, Land(q) PROVE FALSE
  <2>1. tx[q].status = "sent" /\ q # r
    BY <1>2 DEF Land
  <2> QED
    BY <1>1, <1>2, <2>1 DEF Land
<1>3. ASSUME NEW q \in Run, Build(q) PROVE FALSE
  <2>1. tx' = [tx EXCEPT ![q] = [status |-> "built", target |-> At(q), grace |-> run[q].grace,
                                 seq |-> seq, maxTime |-> ledger + Lifetime]]
    BY <1>1, <1>3 DEF Build
  <2> QED
    BY <1>1, <2>1
<1>4. ASSUME NEW q \in Run, Send(q) PROVE Send(r)
  <2>1. tx' = [tx EXCEPT ![q].status = "sent"]
    BY <1>1, <1>4 DEF Send
  <2>2. q = r
    BY <1>1, <2>1
  <2> QED
    BY <1>4, <2>2
<1>5. Close \/ Attest \/ Deliver => FALSE
  BY <1>1 DEF Close, Attest, Deliver
<1>6. ASSUME NEW q \in Run,
             Start(q) \/ ReadCount(q) \/ ReadLedger(q) \/ ReadState(q) \/ ReadPendingDispute(q)
             \/ ReadPendingTx(q) \/ ReadPackage(q) \/ ReadDispute(q)
      PROVE  FALSE
  BY <1>1, <1>6 DEF Start, ReadCount, ReadLedger, ReadState, ReadPendingDispute, ReadPendingTx,
     ReadPackage, ReadDispute
<1>7. ASSUME NEW q \in Run,
             ReplaceState(q) \/ CreateState(q) \/ FillState(q) \/ Poll(q) \/ Confirm(q)
             \/ RpcFails(q) \/ Kill(q)
      PROVE  FALSE
  BY <1>1, <1>7 DEF ReplaceState, CreateState, FillState, Poll, Confirm, RpcFails, Kill
<1> QED
  BY <1>2, <1>3, <1>4, <1>5, <1>6, <1>7 DEF Next, Step

\* A second deposit for a target is sent only when every earlier one is dead:
\* the run that sends it has read the dispute, the transaction and its bounds.
THEOREM RetriesStaySafe == Concurrent = 1 => (Spec => RetryOnlyAfterDeadDeposit)
<1> SUFFICES ASSUME Concurrent = 1 PROVE Spec => RetryOnlyAfterDeadDeposit
  OBVIOUS
<1> DEFINE Safe == \A q, r \in Run :
                     /\ tx[r].status = "built" /\ tx'[r].status = "sent"
                     /\ tx[q].status = "sent" /\ tx[q].target = tx[r].target
                     => ~Live(q)
<1>1. ASSUME WatchdogInv, AloneInv, Next PROVE Safe
  <2> SUFFICES ASSUME NEW q \in Run, NEW r \in Run,
                      tx[r].status = "built", tx'[r].status = "sent",
                      tx[q].status = "sent", tx[q].target = tx[r].target
               PROVE  ~Live(q)
    OBVIOUS
  <2>1. run[r].pc = "send"
    BY <1>1, OnlyRunSends DEF Send
  <2>2. tx[r].target = run[r].at
    BY <1>1, <2>1 DEF WatchdogInv, RunOK
  <2>3. NoLive(run[r].at)
    BY <1>1, <2>1 DEF AloneInv, LoopOK, Active, Rpc
  <2> QED
    BY <2>2, <2>3 DEF NoLive
<1>2. WatchdogInv /\ AloneInv /\ [Next]_vars => [Safe]_vars
  BY <1>1
<1> QED
  BY <1>2, WatchdogInvariant, AloneInvariant, PTL DEF Spec, RetryOnlyAfterDeadDeposit

\* No deposit is in doubt where a run stands in front of its record.
LEMMA WriterLeavesNoDoubt ==
  ASSUME WatchdogInv, AloneInv, NEW r \in Run, run[r].pc \in {"package", "write", "fill"},
         NEW q \in Run, tx[q].status = "sent"
  PROVE  ~Live(q)
<1> SUFFICES ASSUME Live(q) PROVE FALSE
  OBVIOUS
<1>1. tx[q].target \in Target
  BY DEF WatchdogInv, TypeOK, Tx, NoTx
<1>2. file[tx[q].target].status = "pending"
  BY DEF AloneInv, LiveDepositIsJournaled
<1>3. ~(tx[q].target < run[r].at) /\ ~(tx[q].target > run[r].at)
  BY <1>1, <1>2, WriterStands DEF Final, NoFile
<1>4. tx[q].target = run[r].at
  BY <1>1, <1>3, WriterStands, Numbers DEF Target
<1> QED
  BY <1>4, WriterStands DEF NoLive

\* A step of a run leaves the other runs alone.
LEMMA OthersStay ==
  ASSUME WatchdogInv, NEW q \in Run, Step(q) \/ Kill(q), NEW r \in Run \ {q}
  PROVE  run'[r] = run[r]
<1> USE DEF Goto, End, Write, WatchdogInv, TypeOK
<1>1. CASE Start(q)
  BY <1>1 DEF Start
<1>2. CASE ReadCount(q)
  BY <1>2 DEF ReadCount
<1>3. CASE ReadLedger(q)
  BY <1>3 DEF ReadLedger
<1>4. CASE ReadState(q)
  <2>1. CASE \E report : End(q, report)
    BY <2>1
  <2>2. CASE ~\E report : End(q, report)
    <3>1. \/ Goto(q, "package")
          \/ run' = [run EXCEPT ![q].pc = "journal", ![q].rec = file[run[q].at]]
          \/ run' = [run EXCEPT ![q].at = @ + 1,
                       ![q].skipped = @ \/ file[run[q].at].status = "expired",
                       ![q].passed = @ \/ file[run[q].at].status = "delivered"]
      <4> HIDE DEF Goto, End
      <4> QED
        BY <1>4, <2>2, StateCases
    <3> QED
      BY <3>1
  <2> QED
    BY <2>1, <2>2
<1>5. CASE ReadPackage(q)
  BY <1>5, PackageCases
<1>6. CASE ReadPendingDispute(q)
  BY <1>6 DEF ReadPendingDispute
<1>7. CASE ReadPendingTx(q)
  BY <1>7 DEF ReadPendingTx
<1>8. CASE ReadDispute(q) \/ Build(q)
  BY <1>8 DEF ReadDispute, Build
<1>9. CASE ReplaceState(q) \/ FillState(q)
  <2>1. run[q].pc \in {"write", "fill"} /\ After(q)
    BY <1>9 DEF ReplaceState, FillState
  <2> QED
    BY <2>1, AfterMoves
<1>10. CASE CreateState(q) \/ Send(q)
  BY <1>10 DEF CreateState, Send
<1>11. CASE Poll(q)
  <2>1. tx[q].status \in {"sent", "success", "failed"}
    BY <1>11 DEF Poll, RunOK
  <2> QED
    BY <1>11, <2>1 DEF Poll
<1>12. CASE Confirm(q) \/ RpcFails(q) \/ Kill(q)
  BY <1>12 DEF Confirm, RpcFails, Kill
<1> QED
  BY <1>1, <1>2, <1>3, <1>4, <1>5, <1>6, <1>7, <1>8, <1>9, <1>10, <1>11, <1>12 DEF Step

\* The steps in which a run can end with success.
LEMMA QuietEnds ==
  ASSUME WatchdogInv, Next, NEW r \in Run, run[r].pc \in Active, Quiet(run'[r].pc)
  PROVE  \/ ReadCount(r) /\ run'[r].pc = "none"
         \/ ReadState(r) /\ run'[r].pc \in {"delivered", "none"}
         \/ run[r].pc \in {"package", "write", "fill"}
<1>1. /\ run \in [Run -> Local] /\ run[r] \in Local /\ run'[r] # run[r]
      /\ run'[r].pc \notin Active /\ run'[r].pc \notin Failure
      /\ run'[r].pc \notin {"dead", "pending", "expired"}
  BY DEF WatchdogInv, TypeOK, Quiet, Active, Rpc, Failure
<1>2. PICK q \in Run : Step(q) \/ Kill(q)
  <2>1. run' # run
    BY <1>1
  <2> QED
    BY <2>1 DEF Next, Close, Attest, Deliver, Land
<1>3. q = r
  BY <1>1, <1>2, OthersStay
<1>4. ASSUME NEW report, End(r, report) PROVE run'[r].pc = report
  BY <1>1, <1>4 DEF End, Idle
<1>5. ASSUME NEW pc, Goto(r, pc) PROVE run'[r].pc = pc
  BY <1>1, <1>5 DEF Goto, Local
<1>6. ~Start(r)
  BY DEF Start, Active, Rpc
<1>7. CASE ReadCount(r)
  <2>1. CASE End(r, "none")
    BY <1>4, <1>7, <2>1
  <2>2. CASE ~End(r, "none")
    BY <1>1, <1>7, <2>2 DEF ReadCount, Active, Rpc, Local
  <2> QED
    BY <2>1, <2>2
<1>8. ~ReadLedger(r)
  BY <1>1 DEF ReadLedger, Active, Local
<1>9. CASE ReadState(r)
  <2>1. CASE \E report \in {"expired", "delivered", "none", "unreadable", "otherCheck"} : End(r, report)
    BY <1>1, <1>4, <1>9, <2>1 DEF Failure
  <2>2. CASE ~\E report \in {"expired", "delivered", "none", "unreadable", "otherCheck"} : End(r, report)
    <3> DEFINE f == file[run[r].at]
    <3>1. \/ Goto(r, "package")
          \/ run' = [run EXCEPT ![r].pc = "journal", ![r].rec = f]
          \/ run' = [run EXCEPT ![r].at = @ + 1, ![r].skipped = @ \/ f.status = "expired",
                       ![r].passed = @ \/ f.status = "delivered"]
      <4>1. /\ ~\E report \in {"expired", "delivered", "none"} : End(r, report)
            /\ ~\E report \in {"unreadable", "otherCheck"} : End(r, report)
        BY <2>2
      <4> QED
        BY <1>9, <4>1, StateCases
    <3>2. run[r].pc = "state"
      BY <1>9 DEF ReadState
    <3> HIDE DEF f
    <3>3. run'[r].pc \in {"package", "journal", "state"}
      <4>1. CASE Goto(r, "package")
        BY <1>5, <4>1
      <4>2. CASE run' = [run EXCEPT ![r].pc = "journal", ![r].rec = f]
        BY <1>1, <4>2 DEF Local
      <4>3. CASE run' = [run EXCEPT ![r].at = @ + 1, ![r].skipped = @ \/ f.status = "expired",
                           ![r].passed = @ \/ f.status = "delivered"]
        BY <1>1, <3>2, <4>3 DEF Local
      <4> QED
        BY <3>1, <4>1, <4>2, <4>3
    <3> QED
      BY <1>1, <3>3 DEF Active, Rpc
  <2> QED
    BY <2>1, <2>2
<1>10. ~ReadPendingDispute(r)
  <2>1. run' = [run EXCEPT ![r].pc = "write", ![r].retry = TRUE, ![r].then = "existing",
                  ![r].rec.status = "disputed"] => run'[r].pc \in Active
    BY <1>1 DEF Local, Active
  <2> QED
    BY <1>1, <1>5, <2>1 DEF ReadPendingDispute, Active, Rpc
<1>11. ~ReadPendingTx(r)
  <2> SUFFICES ASSUME ReadPendingTx(r) PROVE FALSE
    OBVIOUS
  <2>1. tx[run[r].rec.hash] \in Tx \cup {NoTx} \/ \E report \in {"noRecord", "pending"} : End(r, report)
    BY DEF ReadPendingTx, WatchdogInv, TypeOK, RunOK
  <2>2. run' = [run EXCEPT ![r].pc = "package", ![r].retry = TRUE] => run'[r].pc \in Active
    BY <1>1 DEF Local, Active, Rpc
  <2> QED
    BY <1>1, <1>4, <2>1, <2>2 DEF ReadPendingTx, Tx, NoTx, Failure
<1>12. ~ReadDispute(r)
  <2>1. Write(r, "disputed", None, "existing") => run'[r].pc = "write"
    BY WriteMoves
  <2> QED
    BY <1>1, <1>5, <2>1 DEF ReadDispute, Active, Rpc
<1>13. ~Build(r)
  <2>1. Write(r, "pending", r, "send") => run'[r].pc = "write"
    BY WriteMoves
  <2> QED
    BY <1>1, <1>4, <2>1 DEF Build, Active, Failure
<1>14. ~Send(r)
  BY <1>1, <1>4, <1>5 DEF Send, Active, Rpc, Failure
<1>15. ~Poll(r)
  <2>1. run[r].pc = "poll" => tx[r].status \in {"sent", "success", "failed"}
    BY DEF WatchdogInv, RunOK
  <2> QED
    BY <1>1, <1>4, <1>5, <2>1 DEF Poll, Active, Rpc, Failure
<1>16. ~Confirm(r)
  <2>1. run' = [run EXCEPT ![r].pc = "write", ![r].retry = TRUE, ![r].then = "opened",
                  ![r].rec = [status |-> "disputed", grace |-> run[r].grace, hash |-> r]]
        => run'[r].pc \in Active
    BY <1>1 DEF Local, Active
  <2> QED
    BY <1>1, <1>4, <2>1 DEF Confirm, Failure
<1>17. ~RpcFails(r) /\ ~Kill(r)
  BY <1>1, <1>4 DEF RpcFails, Kill, Failure
<1>18. CASE ReadPackage(r) \/ ReplaceState(r) \/ CreateState(r) \/ FillState(r)
  BY <1>18 DEF ReadPackage, ReplaceState, CreateState, FillState
<1> QED
  BY <1>2, <1>3, <1>6, <1>7, <1>8, <1>9, <1>10, <1>11, <1>12, <1>13, <1>14, <1>15, <1>16, <1>17,
     <1>18 DEF Step

\* A run that exits with success has read that every earlier target is settled,
\* and that no deposit for its own can land; no later target has a deposit.
THEOREM QuietExitsStaySafe == Concurrent = 1 => (Spec => QuietExitLeavesNothingInDoubt)
<1> SUFFICES ASSUME Concurrent = 1 PROVE Spec => QuietExitLeavesNothingInDoubt
  OBVIOUS
<1> DEFINE Safe == \A r \in Run : run[r].pc \in Active /\ Quiet(run'[r].pc)
                                 => \A q \in Run : tx[q].status = "sent" => ~Live(q)
<1>1. ASSUME WatchdogInv, AloneInv, Next PROVE Safe
  <2> SUFFICES ASSUME NEW r \in Run, run[r].pc \in Active, Quiet(run'[r].pc),
                      NEW q \in Run, tx[q].status = "sent", Live(q)
               PROVE  FALSE
    OBVIOUS
  <2>1. /\ tx[q] # NoTx /\ tx[q].target \in Target /\ attested[tx[q].target] # 0
        /\ file[tx[q].target].status = "pending" /\ file[tx[q].target] # NoFile
    BY <1>1 DEF WatchdogInv, TypeOK, Tx, NoTx, TxOK, LatePackage, AloneInv,
       LiveDepositIsJournaled, NoFile
  <2>2. ASSUME ReadCount(r), run'[r].pc = "none" PROVE FALSE
    <3> DEFINE total == Cardinality({t \in Target : attested[t] # 0})
    <3>1. tx[q].target <= total /\ total \in Nat /\ tx[q].target \in Nat \ {0}
      BY <1>1, <2>1, CountIsWhole, CountIsPrefix, Numbers DEF Target
    <3>2. total # 0
      BY <3>1
    <3>3. run' = [run EXCEPT ![r].pc = "ledger", ![r].total = total]
      BY <2>2, <3>2 DEF ReadCount
    <3> HIDE DEF total
    <3> QED
      BY <1>1, <2>2, <3>3 DEF WatchdogInv, TypeOK, Local
  <2>3. ASSUME ReadState(r), run'[r].pc \in {"delivered", "none"} PROVE FALSE
    <3>1. LoopOK(r) /\ run[r].pc = "state" /\ run[r] \in Local /\ run \in [Run -> Local]
      BY <1>1, <2>3 DEF AloneInv, ReadState, WatchdogInv, TypeOK
    <3>2. run[r].at > run[r].total
      <4>1. \A report : End(r, report) => run'[r].pc = report
        BY <3>1 DEF End, Idle
      <4>2. \A pc : Goto(r, pc) => run'[r].pc = pc
        BY <3>1 DEF Goto, Local
      <4>3. ASSUME NEW f, run' = [run EXCEPT ![r].pc = "journal", ![r].rec = f] PROVE FALSE
        BY <2>3, <3>1, <4>3 DEF Local
      <4>4. ASSUME NEW f, run' = [run EXCEPT ![r].at = @ + 1, ![r].skipped = @ \/ f.status = "expired",
                                    ![r].passed = @ \/ f.status = "delivered"]
            PROVE  FALSE
        BY <2>3, <3>1, <4>4 DEF Local
      <4> QED
        BY <1>1, <2>3, <4>1, <4>2, <4>3, <4>4, StateCases
    <3>3. tx[q].target <= run[r].total
      BY <2>1, <3>1 DEF LoopOK
    <3>4. tx[q].target < run[r].at
      BY <2>1, <3>1, <3>2, <3>3, Numbers DEF Local, Target
    <3> QED
      BY <2>1, <3>1, <3>4 DEF LoopOK, Final
  <2>4. ASSUME run[r].pc \in {"package", "write", "fill"} PROVE FALSE
    BY <1>1, <2>4, WriterLeavesNoDoubt
  <2> QED
    BY <1>1, <2>2, <2>3, <2>4, QuietEnds
<1>2. WatchdogInv /\ AloneInv /\ [Next]_vars => [Safe]_vars
  BY <1>1
<1> QED
  BY <1>2, WatchdogInvariant, AloneInvariant, PTL DEF Spec, QuietExitLeavesNothingInDoubt
===============================================================================
