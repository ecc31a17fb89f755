-------------------------- MODULE DashboardProofs ---------------------------
(***************************************************************************)
(* What the store of the dashboard guarantees for any number of requests   *)
(* and answers, any limit of remembered runs, any window and any number of *)
(* restarts: the store follows the one run that works, a page claims only  *)
(* what is so on the chain, and a result stays while the run is held.      *)
(*                                                                         *)
(* The strengthening is local to a run. It relates the progress of its     *)
(* request, its transaction, its record and the step of its work, and says *)
(* nothing of another run, so a step that leaves these alone keeps it.     *)
(***************************************************************************)
EXTENDS Dashboard, SequenceTheorems, TLAPS

\* The steps before a transaction of the run exists.
EarlyStep == {"prior", "prove", "ledger", "submit"}

\* The steps that follow a proof of a run that attests.
ProvedStep == {"submit", "send", "poll", "packages"}

\* The steps that follow the signature of a transaction.
SignedStep == {"send", "poll", "packages"}

\* A request q that did not start a run has sent nothing, and its run is not in
\* the store.
FreshOK(q, t, held) == q.pc # "started" => t = NoTx /\ ~held

\* The registry numbers its attestations from 1.
LandedOK(t) == t.status = "success" => t.id # 0

\* A run that works at step w is held, and its record d and its transaction t
\* are as far as the step.
WorkOK(t, held, d, w) ==
  w # "none" =>
    /\ held /\ d.stage = "running"
    /\ w \in EarlyStep => t = NoTx
    /\ w \in SignedStep => t # NoTx
    /\ w # "packages" => d.submission = 0
    /\ w \in ProvedStep => d.proof /\ d.action = "attest"
    /\ w = "packages" => d.submission # 0

\* The record d of a run that the store holds.
RecordOK(t, d, w) ==
  /\ d \in RunRecord
  /\ d.stage = "running" => w # "none"
  /\ d.submission # 0 => d.proof /\ t.status = "success" /\ t.id = d.submission
  /\ d.action = "prove" => t = NoTx
  /\ d.stage = "finished" => d.proof /\ (d.action = "attest" => d.submission # 0 /\ d.packages)

RunOK(q, t, held, d, w) ==
  /\ FreshOK(q, t, held) /\ LandedOK(t) /\ WorkOK(t, held, d, w)
  /\ held => RecordOK(t, d, w)

RunsOK == \A r \in Request : RunOK(req[r], tx[r], r \in Remembered, rec[r], work[r])

\* The step of a run and the open run change together.
OpenIsWorking == \A r \in Request : work[r] # "none" <=> open = r

DashboardInv == TypeOK /\ OpenIsWorking /\ RunsOK

\* An answer that is about to be sent was signed.
AnswersAreSigned == \A a \in Answer : ans[a] = "send" => tx[a] # NoTx

\* What a step keeps of the record of a run, from d to e.
Kept(d, e) ==
  /\ d.proof => e.proof
  /\ d.submission # 0 => e.submission = d.submission
  /\ d.stage # "running" => e = d

\* The step of ResultsAreKept.
KeepsResults ==
  \A r \in Remembered : r \notin Remembered' \/ Kept(rec[r], rec'[r])

-----------------------------------------------------------------------------
(* Shared facts *)

LEMMA Limits ==
  /\ MaxRemembered \in Nat /\ MaxRemembered > 0
  /\ MaxAge \in Nat /\ Margin \in Nat /\ MaxLedger \in Nat /\ MaxLedger > 0
  /\ MaxRestarts \in Nat /\ None \notin Request /\ Request \cap Answer = {}
BY DashboardAssumption

LEMMA Held ==
  ASSUME TypeOK
  PROVE  Remembered \subseteq Request
BY DEF TypeOK, Remembered

\* The store makes room for one more run, and names no run that it did not hold.
LEMMA ForgetMakesRoom ==
  ASSUME NEW runs \in Seq(Request), Len(runs) <= MaxRemembered
  PROVE  /\ Forget(runs) \in Seq(Request)
         /\ Len(Forget(runs)) + 1 <= MaxRemembered
         /\ \A i \in 1 .. Len(Forget(runs)) : \E j \in 1 .. Len(runs) : Forget(runs)[i] = runs[j]
<1> DEFINE first == 2 + Len(runs) - MaxRemembered
<1>1. Len(runs) \in Nat
  BY LenProperties
<1>2. CASE Len(runs) >= MaxRemembered
  <2>1. Forget(runs) = SubSeq(runs, first, Len(runs))
    BY <1>2 DEF Forget
  <2>2. Len(runs) = MaxRemembered /\ first = 2
    BY <1>1, <1>2, Limits
  <2>3. SubSeq(runs, 2, Len(runs)) \in Seq(Request)
    BY <1>1, <2>2, Limits
  <2>4. Len(SubSeq(runs, 2, Len(runs))) = Len(runs) - 1
    BY <1>1, <2>2, Limits
  <2>5. \A i \in 1 .. Len(runs) - 1 : SubSeq(runs, 2, Len(runs))[i] = runs[i + 1]
    BY <1>1, <2>2, Limits
  <2>6. \A i \in 1 .. Len(runs) - 1 : i + 1 \in 1 .. Len(runs)
    BY <1>1
  <2> QED
    BY <1>1, <2>1, <2>2, <2>3, <2>4, <2>5, <2>6, Limits
<1>3. CASE ~(Len(runs) >= MaxRemembered)
  BY <1>1, <1>3, Limits DEF Forget
<1> QED
  BY <1>2, <1>3

\* A step that leaves the runs alone: the sequence number, the ledger, the
\* answers and the tools are no part of the strengthening.
LEMMA RunsAlone ==
  ASSUME DashboardInv, UNCHANGED <<req, order, rec, open, work>>, TypeOK',
         \A r \in Request : tx'[r] = tx[r]
  PROVE  DashboardInv' /\ KeepsResults
<1>1. Remembered' = Remembered
  BY DEF Remembered
<1>2. OpenIsWorking'
  BY DEF DashboardInv, OpenIsWorking
<1>3. RunsOK'
  BY <1>1 DEF DashboardInv, RunsOK
<1>4. KeepsResults
  BY DEF KeepsResults, Kept
<1> QED
  BY <1>2, <1>3, <1>4 DEF DashboardInv

\* A step of one run that keeps the set of the runs held.
LEMMA OneRun ==
  ASSUME DashboardInv, NEW r \in Request, UNCHANGED order, TypeOK', OpenIsWorking',
         \A x \in Request \ {r} :
            req'[x] = req[x] /\ tx'[x] = tx[x] /\ rec'[x] = rec[x] /\ work'[x] = work[x],
         RunOK(req'[r], tx'[r], r \in Remembered, rec'[r], work'[r]),
         r \in Remembered => Kept(rec[r], rec'[r])
  PROVE  DashboardInv' /\ KeepsResults
<1>1. Remembered' = Remembered
  BY DEF Remembered
<1>2. ASSUME NEW x \in Request
      PROVE  RunOK(req'[x], tx'[x], x \in Remembered, rec'[x], work'[x])
  <2>1. CASE x = r
    BY <2>1
  <2>2. CASE x # r
    <3>1. RunOK(req[x], tx[x], x \in Remembered, rec[x], work[x])
      BY DEF DashboardInv, RunsOK
    <3> QED
      BY <2>2, <3>1
  <2> QED
    BY <2>1, <2>2
<1>3. RunsOK'
  BY <1>1, <1>2 DEF RunsOK
<1>4. KeepsResults
  <2> SUFFICES ASSUME NEW x \in Remembered
               PROVE  Kept(rec[x], rec'[x])
    BY DEF KeepsResults
  <2>1. x \in Request
    BY Held DEF DashboardInv
  <2> QED
    BY <2>1 DEF Kept
<1> QED
  BY <1>3, <1>4 DEF DashboardInv

\* The end of a run closes it, and no other run was open.
LEMMA RunEnds ==
  ASSUME DashboardInv, NEW r \in Request, work[r] # "none", NEW d \in RunRecord, End(r, d)
  PROVE  /\ OpenIsWorking'
         /\ open' = None
         /\ rec' \in [Request -> RunRecord \cup {NoRecord}]
         /\ work' \in [Request -> WorkStep \cup {"none"}]
         /\ rec'[r] = d /\ work'[r] = "none"
         /\ \A x \in Request \ {r} : rec'[x] = rec[x] /\ work'[x] = work[x]
<1>1. /\ rec' = [rec EXCEPT ![r] = d]
      /\ work' = [work EXCEPT ![r] = "none"]
      /\ open' = None
  BY DEF End
<1>2. rec \in [Request -> RunRecord \cup {NoRecord}] /\ work \in [Request -> WorkStep \cup {"none"}]
  BY DEF DashboardInv, TypeOK
<1>3. \A x \in Request \ {r} : rec'[x] = rec[x] /\ work'[x] = work[x]
  BY <1>1, <1>2
<1>4. rec'[r] = d /\ work'[r] = "none"
  BY <1>1, <1>2
<1>5. \A x \in Request \ {r} : work[x] = "none"
  BY DEF DashboardInv, OpenIsWorking
<1>6. OpenIsWorking'
  BY <1>1, <1>3, <1>4, <1>5, Limits DEF OpenIsWorking
<1> QED
  BY <1>1, <1>2, <1>3, <1>4, <1>6

\* A run that goes on to its next step stays the open one.
LEMMA RunGoesOn ==
  ASSUME DashboardInv, NEW r \in Request, work[r] # "none", NEW step \in WorkStep,
         work' = [work EXCEPT ![r] = step], UNCHANGED open
  PROVE  /\ OpenIsWorking'
         /\ work' \in [Request -> WorkStep \cup {"none"}]
         /\ work'[r] = step
         /\ \A x \in Request \ {r} : work'[x] = work[x]
<1>1. work \in [Request -> WorkStep \cup {"none"}]
  BY DEF DashboardInv, TypeOK
<1>2. work'[r] = step /\ \A x \in Request \ {r} : work'[x] = work[x]
  BY <1>1
<1>3. step # "none"
  BY DEF WorkStep
<1>4. OpenIsWorking'
  BY <1>2, <1>3 DEF DashboardInv, OpenIsWorking
<1> QED
  BY <1>1, <1>2, <1>4

\* What the invariant says of a run that works.
LEMMA Working ==
  ASSUME DashboardInv, NEW r \in Request, work[r] # "none"
  PROVE  /\ req[r].pc = "started" /\ r \in Remembered
         /\ rec[r] \in RunRecord /\ rec[r].stage = "running"
         /\ rec[r].submission # 0 =>
              rec[r].proof /\ tx[r].status = "success" /\ tx[r].id = rec[r].submission
         /\ rec[r].action = "prove" => tx[r] = NoTx
         /\ LandedOK(tx[r]) /\ WorkOK(tx[r], TRUE, rec[r], work[r])
<1>1. RunOK(req[r], tx[r], r \in Remembered, rec[r], work[r])
  BY DEF DashboardInv, RunsOK
<1>2. r \in Remembered /\ rec[r].stage = "running"
  BY <1>1 DEF RunOK, WorkOK
<1>3. RecordOK(tx[r], rec[r], work[r])
  BY <1>1, <1>2 DEF RunOK
<1>4. req[r].pc = "started"
  BY <1>1, <1>2 DEF RunOK, FreshOK
<1>5. LandedOK(tx[r]) /\ WorkOK(tx[r], TRUE, rec[r], work[r])
  BY <1>1, <1>2 DEF RunOK, WorkOK
<1> QED
  BY <1>2, <1>3, <1>4, <1>5 DEF RecordOK

\* The same, put together again after a step of the run.
LEMMA Combined ==
  ASSUME NEW q, q.pc = "started", NEW t, NEW d \in RunRecord, NEW w,
         LandedOK(t), WorkOK(t, TRUE, d, w), RecordOK(t, d, w)
  PROVE  RunOK(q, t, TRUE, d, w)
BY DEF RunOK, FreshOK

LEMMA InitIsSound ==
  ASSUME Init
  PROVE  DashboardInv
<1>1. TypeOK
  BY Limits DEF Init, TypeOK, Actor, Silent
<1>2. OpenIsWorking
  BY Limits DEF Init, OpenIsWorking
<1>3. Remembered = {}
  BY DEF Init, Remembered
<1>4. RunsOK
  <2> SUFFICES ASSUME NEW r \in Request
               PROVE  RunOK(req[r], tx[r], r \in Remembered, rec[r], work[r])
    BY DEF RunsOK
  <2>1. tx[r] = NoTx /\ work[r] = "none" /\ r \notin Remembered
    BY <1>3 DEF Init, Actor
  <2> QED
    BY <2>1 DEF RunOK, FreshOK, LandedOK, WorkOK, NoTx
<1> QED
  BY <1>1, <1>2, <1>4 DEF DashboardInv

-----------------------------------------------------------------------------
(* The network *)

LEMMA CloseKeeps ==
  ASSUME DashboardInv, Close
  PROVE  DashboardInv' /\ KeepsResults
<1>1. TypeOK'
  BY Limits DEF DashboardInv, TypeOK, Close
<1> QED
  BY <1>1, RunsAlone DEF Close

\* An attestation lands under the next identifier: its transaction was sent, so
\* its run has no submission yet, and it is no run that only proves.
LEMMA LandKeeps ==
  ASSUME DashboardInv, NEW x \in Actor, Land(x)
  PROVE  DashboardInv' /\ KeepsResults
<1>1. seq' \in Nat /\ count' \in Nat
  BY DEF DashboardInv, TypeOK, Land
<1>2. tx[x].status = "sent" /\ tx[x] \in Tx /\ tx[x] # NoTx
  BY DEF Land, DashboardInv, TypeOK, NoTx
<1>3. /\ tx' = [tx EXCEPT ![x] = tx'[x]]
      /\ tx'[x] \in Tx /\ tx'[x] # NoTx
      /\ x \in Request => LandedOK(tx'[x])
  <2>1. tx \in [Actor -> Tx \cup {NoTx}] /\ count \in Nat
    BY DEF DashboardInv, TypeOK
  <2>2. \/ tx' = [tx EXCEPT ![x] = [tx[x] EXCEPT !.status = "success"]] /\ x \in Answer
        \/ tx' = [tx EXCEPT ![x] = [tx[x] EXCEPT !.status = "success", !.id = count + 1]]
        \/ tx' = [tx EXCEPT ![x] = [tx[x] EXCEPT !.status = "failed"]]
    BY <2>1 DEF Land
  <2>3. CASE tx' = [tx EXCEPT ![x] = [tx[x] EXCEPT !.status = "success"]] /\ x \in Answer
    <3>1. tx'[x] = [tx[x] EXCEPT !.status = "success"]
      BY <2>1, <2>3
    <3>2. tx'[x] \in Tx /\ tx'[x].status = "success"
      BY <1>2, <3>1 DEF Tx
    <3>3. tx'[x] # NoTx /\ x \notin Request
      BY <2>3, <3>2, Limits DEF NoTx
    <3> QED
      BY <2>1, <2>3, <3>1, <3>2, <3>3
  <2>4. CASE tx' = [tx EXCEPT ![x] = [tx[x] EXCEPT !.status = "success", !.id = count + 1]]
    <3>1. tx'[x] = [tx[x] EXCEPT !.status = "success", !.id = count + 1]
      BY <2>1, <2>4
    <3>2. tx'[x] = [status |-> "success", seq |-> tx[x].seq, id |-> count + 1]
      BY <1>2, <3>1 DEF Tx
    <3>3. tx[x].seq \in Nat /\ count + 1 \in Nat /\ count + 1 # 0
      BY <1>2, <2>1 DEF Tx
    <3>4. tx'[x] \in Tx
      BY <3>2, <3>3 DEF Tx
    <3>5. tx'[x] # NoTx /\ LandedOK(tx'[x])
      BY <3>2, <3>3 DEF NoTx, LandedOK
    <3> QED
      BY <2>1, <2>4, <3>1, <3>4, <3>5
  <2>5. CASE tx' = [tx EXCEPT ![x] = [tx[x] EXCEPT !.status = "failed"]]
    <3>1. tx'[x] = [tx[x] EXCEPT !.status = "failed"]
      BY <2>1, <2>5
    <3>2. tx'[x] \in Tx /\ tx'[x].status = "failed"
      BY <1>2, <3>1 DEF Tx
    <3>3. tx'[x] # NoTx /\ LandedOK(tx'[x])
      BY <3>2 DEF NoTx, LandedOK
    <3> QED
      BY <2>1, <2>5, <3>1, <3>2, <3>3
  <2> QED
    BY <2>2, <2>3, <2>4, <2>5
<1>4. UNCHANGED <<ledger, req, order, rec, open, work, ans, tools, restarts>>
  BY DEF Land
<1>5. TypeOK'
  BY <1>1, <1>3, <1>4 DEF DashboardInv, TypeOK
<1>6. \A r \in Request \ {x} : tx'[r] = tx[r]
  BY <1>3, <1>4 DEF DashboardInv, TypeOK, Actor
<1>7. CASE x \in Request
  <2>1. RunOK(req[x], tx[x], x \in Remembered, rec[x], work[x])
    BY <1>7 DEF DashboardInv, RunsOK
  <2>2. req[x].pc = "started"
    BY <1>2, <2>1 DEF RunOK, FreshOK
  <2>3. WorkOK(tx'[x], x \in Remembered, rec[x], work[x])
    BY <1>2, <1>3, <2>1 DEF RunOK, WorkOK
  <2>4. x \in Remembered => RecordOK(tx'[x], rec[x], work[x])
    BY <1>2, <2>1 DEF RunOK, RecordOK
  <2>5. RunOK(req'[x], tx'[x], x \in Remembered, rec'[x], work'[x])
    BY <1>3, <1>4, <1>7, <2>2, <2>3, <2>4 DEF RunOK, FreshOK
  <2>6. OpenIsWorking'
    BY <1>4 DEF DashboardInv, OpenIsWorking
  <2> QED
    BY <1>4, <1>5, <1>6, <1>7, <2>5, <2>6, OneRun DEF Kept
<1>8. CASE x \notin Request
  BY <1>4, <1>5, <1>6, <1>8, RunsAlone
<1> QED
  BY <1>7, <1>8

-----------------------------------------------------------------------------
(* The requests *)

\* A request that starts nothing: its run was not held and sent nothing.
LEMMA RequestKeeps ==
  ASSUME DashboardInv, NEW r \in Request, NEW q \in Asked \cup Silent,
         req[r].pc # "started", q.pc # "started",
         req' = [req EXCEPT ![r] = q],
         UNCHANGED <<chain, tx, order, rec, open, work, ans, tools, restarts>>
  PROVE  DashboardInv' /\ KeepsResults
<1>1. req'[r] = q /\ \A x \in Request \ {r} : req'[x] = req[x]
  BY DEF DashboardInv, TypeOK
<1>2. TypeOK'
  BY DEF DashboardInv, TypeOK, chain
<1>3. RunOK(req[r], tx[r], r \in Remembered, rec[r], work[r])
  BY DEF DashboardInv, RunsOK
<1>4. RunOK(q, tx[r], r \in Remembered, rec[r], work[r])
  BY <1>3 DEF RunOK, FreshOK
<1>5. OpenIsWorking'
  BY DEF DashboardInv, OpenIsWorking
<1> QED
  BY <1>1, <1>2, <1>4, <1>5, OneRun DEF Kept

LEMMA RefusedOrJoined ==
  /\ [pc |-> "refused"] \in Asked \cup Silent /\ [pc |-> "refused"].pc # "started"
  /\ [pc |-> "joined"] \in Asked \cup Silent /\ [pc |-> "joined"].pc # "started"
BY DEF Silent

LEMMA TurnAwayKeeps ==
  ASSUME DashboardInv, NEW r \in Request, TurnAway(r)
  PROVE  DashboardInv' /\ KeepsResults
BY RequestKeeps, RefusedOrJoined DEF TurnAway

LEMMA PostKeeps ==
  ASSUME DashboardInv, NEW r \in Request, Post(r)
  PROVE  DashboardInv' /\ KeepsResults
<1>1. req[r].pc # "started" /\ UNCHANGED <<chain, tx, order, rec, open, work, ans, tools, restarts>>
  BY DEF Post
<1>2. CASE req' = [req EXCEPT ![r] = [pc |-> "joined"]]
  BY <1>1, <1>2, RequestKeeps, RefusedOrJoined
<1>3. ASSUME NEW action \in {"prove", "attest"}, NEW s \in 1..ledger,
             req' = [req EXCEPT ![r] = [pc |-> "reads", action |-> action, snapshot |-> s]]
      PROVE  DashboardInv' /\ KeepsResults
  <2>1. s \in 1..MaxLedger
    BY Limits DEF DashboardInv, TypeOK
  <2>2. [pc |-> "reads", action |-> action, snapshot |-> s] \in Asked
    BY <2>1 DEF Asked
  <2> QED
    BY <1>1, <1>3, <2>2, RequestKeeps
<1> QED
  BY <1>2, <1>3 DEF Post

LEMMA CheckKeeps ==
  ASSUME DashboardInv, NEW r \in Request, Check(r)
  PROVE  DashboardInv' /\ KeepsResults
<1>1. /\ req[r].pc = "reads"
      /\ UNCHANGED <<chain, tx, order, rec, open, work, ans, tools, restarts>>
  BY DEF Check
<1>2. CASE req' = [req EXCEPT ![r] = [pc |-> "refused"]]
  BY <1>1, <1>2, RequestKeeps, RefusedOrJoined
<1>3. CASE req' = [req EXCEPT ![r].pc = "checked"]
  <2>1. req[r] \in Asked
    BY <1>1 DEF DashboardInv, TypeOK, Silent
  <2>2. [req[r] EXCEPT !.pc = "checked"] \in Asked
    BY <2>1 DEF Asked
  <2>3. [req[r] EXCEPT !.pc = "checked"].pc = "checked"
    BY <2>1 DEF Asked
  <2>4. req' = [req EXCEPT ![r] = [req[r] EXCEPT !.pc = "checked"]]
    BY <1>3
  <2> QED
    BY <1>1, <2>2, <2>3, <2>4, RequestKeeps
<1> QED
  BY <1>2, <1>3 DEF Check

\* A run starts only when none is open. The store forgets its oldest runs, and
\* what it still holds stays as it was.
LEMMA StartKeeps ==
  ASSUME DashboardInv, NEW r \in Request, StartOrJoin(r)
  PROVE  DashboardInv' /\ KeepsResults
<1>1. req[r].pc = "checked" /\ UNCHANGED <<chain, tx, ans, tools, restarts>>
  BY DEF StartOrJoin
<1>2. CASE open # None
  BY <1>1, <1>2, RequestKeeps, RefusedOrJoined DEF StartOrJoin
<1>3. CASE open = None
  <2>1. /\ order' = Append(Forget(order), r)
        /\ rec' = [x \in Request |-> IF x = r THEN NewRecord(r)
                                     ELSE IF x \in Remembered' THEN rec[x] ELSE NoRecord]
        /\ open' = r
        /\ work' = [work EXCEPT ![r] = "prior"]
        /\ req' = [req EXCEPT ![r].pc = "started"]
    BY <1>3 DEF StartOrJoin
  <2>2. order \in Seq(Request) /\ Len(order) <= MaxRemembered
    BY DEF DashboardInv, TypeOK
  <2>3. /\ Forget(order) \in Seq(Request)
        /\ Len(Forget(order)) + 1 <= MaxRemembered
        /\ \A i \in 1 .. Len(Forget(order)) : \E j \in 1 .. Len(order) : Forget(order)[i] = order[j]
    BY <2>2, ForgetMakesRoom
  <2>4. /\ order' \in Seq(Request) /\ Len(order') = Len(Forget(order)) + 1
        /\ \A i \in 1 .. Len(Forget(order)) : order'[i] = Forget(order)[i]
        /\ order'[Len(Forget(order)) + 1] = r
    BY <2>1, <2>3, AppendProperties
  <2>5. r \in Remembered' /\ Remembered' \subseteq Remembered \cup {r}
    <3>1. DOMAIN order = 1 .. Len(order) /\ DOMAIN order' = 1 .. Len(order')
      BY <2>2, <2>4, LenProperties
    <3>2. Len(Forget(order)) \in Nat
      BY <2>3, LenProperties
    <3>3. Len(Forget(order)) + 1 \in DOMAIN order'
      BY <2>4, <3>1, <3>2
    <3>4. ASSUME NEW i \in DOMAIN order' PROVE order'[i] \in Remembered \cup {r}
      <4>1. CASE i = Len(Forget(order)) + 1
        BY <2>4, <4>1
      <4>2. CASE i # Len(Forget(order)) + 1
        <5>1. i \in 1 .. Len(Forget(order))
          BY <2>4, <3>1, <3>2, <3>4, <4>2
        <5>2. PICK j \in 1 .. Len(order) : order'[i] = order[j]
          BY <2>3, <2>4, <5>1
        <5> QED
          BY <3>1, <5>2 DEF Remembered
      <4> QED
        BY <4>1, <4>2
    <3> QED
      BY <2>4, <3>3, <3>4 DEF Remembered
  <2>6. req[r] \in Asked
    BY <1>1 DEF DashboardInv, TypeOK, Silent
  <2>7. /\ req'[r] = [req[r] EXCEPT !.pc = "started"]
        /\ \A x \in Request \ {r} : req'[x] = req[x]
    BY <2>1 DEF DashboardInv, TypeOK
  <2>8. req'[r] \in Asked /\ req'[r].pc = "started"
    BY <2>6, <2>7 DEF Asked
  <2>9. /\ NewRecord(r) \in RunRecord
        /\ NewRecord(r).stage = "running" /\ NewRecord(r).submission = 0
    <3>1. req[r].action \in {"prove", "attest"} /\ req[r].snapshot \in Nat
      BY <2>6 DEF Asked
    <3> QED
      BY <3>1 DEF NewRecord, RunRecord
  <2>10. /\ rec'[r] = NewRecord(r) /\ work'[r] = "prior"
         /\ \A x \in Request \ {r} : work'[x] = work[x]
         /\ \A x \in Request \ {r} : rec'[x] = IF x \in Remembered' THEN rec[x] ELSE NoRecord
    BY <2>1 DEF DashboardInv, TypeOK
  <2>11. rec' \in [Request -> RunRecord \cup {NoRecord}]
    BY <2>1, <2>9 DEF DashboardInv, TypeOK
  <2>12. TypeOK'
    <3>1. req' \in [Request -> Asked \cup Silent]
      BY <2>1, <2>7, <2>8 DEF DashboardInv, TypeOK
    <3>2. work' \in [Request -> WorkStep \cup {"none"}]
      BY <2>1 DEF DashboardInv, TypeOK, WorkStep
    <3> QED
      BY <1>1, <2>1, <2>3, <2>4, <2>11, <3>1, <3>2 DEF DashboardInv, TypeOK, chain
  <2>13. \A x \in Request : work[x] = "none"
    BY <1>3, Limits DEF DashboardInv, OpenIsWorking
  <2>14. OpenIsWorking'
    BY <2>1, <2>10, <2>13 DEF OpenIsWorking
  <2>15. ASSUME NEW x \in Request
         PROVE  RunOK(req'[x], tx'[x], x \in Remembered', rec'[x], work'[x])
    <3>1. RunOK(req[x], tx[x], x \in Remembered, rec[x], work[x])
      BY DEF DashboardInv, RunsOK
    <3>2. CASE x = r
      <4>1. tx'[x] = NoTx
        BY <1>1, <3>1, <3>2 DEF RunOK, FreshOK
      <4>2. WorkOK(tx'[x], TRUE, rec'[x], work'[x])
        BY <2>9, <2>10, <3>2, <4>1 DEF WorkOK, EarlyStep, ProvedStep, SignedStep
      <4>3. RecordOK(tx'[x], rec'[x], work'[x])
        BY <2>9, <2>10, <3>2, <4>1 DEF RecordOK
      <4>4. LandedOK(tx'[x])
        BY <4>1 DEF LandedOK, NoTx
      <4>5. rec'[x] \in RunRecord /\ req'[x].pc = "started"
        BY <2>8, <2>9, <2>10, <3>2
      <4>6. RunOK(req'[x], tx'[x], TRUE, rec'[x], work'[x])
        BY <4>2, <4>3, <4>4, <4>5, Combined
      <4> QED
        BY <2>5, <3>2, <4>6 DEF RunOK, FreshOK, WorkOK
    <3>3. CASE x # r
      <4>1. req'[x] = req[x] /\ tx'[x] = tx[x] /\ work'[x] = "none" /\ work[x] = "none"
        BY <1>1, <2>7, <2>10, <2>13, <3>3
      <4>2. x \in Remembered' => x \in Remembered /\ rec'[x] = rec[x]
        BY <2>5, <2>10, <3>3
      <4> QED
        BY <3>1, <4>1, <4>2 DEF RunOK, FreshOK, WorkOK
    <3> QED
      BY <3>2, <3>3
  <2>16. RunsOK'
    BY <2>15 DEF RunsOK
  <2>17. KeepsResults
    <3> SUFFICES ASSUME NEW x \in Remembered, x \in Remembered'
                 PROVE  Kept(rec[x], rec'[x])
      BY DEF KeepsResults
    <3>1. x \in Request
      BY Held DEF DashboardInv
    <3>2. x # r
      BY <1>1 DEF DashboardInv, RunsOK, RunOK, FreshOK
    <3> QED
      BY <2>10, <3>1, <3>2 DEF Kept
  <2> QED
    BY <2>12, <2>14, <2>16, <2>17 DEF DashboardInv
<1> QED
  BY <1>2, <1>3

-----------------------------------------------------------------------------
(* The work of a run *)

\* A step of the work of run r, from its facts after the step.
LEMMA WorkKeeps ==
  ASSUME DashboardInv, NEW r \in Request, work[r] # "none",
         UNCHANGED <<req, order>>, TypeOK', OpenIsWorking',
         \A x \in Request \ {r} : tx'[x] = tx[x] /\ rec'[x] = rec[x] /\ work'[x] = work[x],
         LandedOK(tx'[r]), WorkOK(tx'[r], TRUE, rec'[r], work'[r]),
         RecordOK(tx'[r], rec'[r], work'[r]), Kept(rec[r], rec'[r])
  PROVE  DashboardInv' /\ KeepsResults
<1>1. req'[r].pc = "started" /\ r \in Remembered
  BY Working
<1>2. rec'[r] \in RunRecord
  BY DEF RecordOK
<1>3. RunOK(req'[r], tx'[r], TRUE, rec'[r], work'[r])
  BY <1>1, <1>2, Combined
<1>4. RunOK(req'[r], tx'[r], r \in Remembered, rec'[r], work'[r])
  BY <1>1, <1>3 DEF RunOK, FreshOK, WorkOK
<1> QED
  BY <1>4, OneRun

\* A step of the work that changes its position only.
LEMMA MovesOn ==
  ASSUME DashboardInv, NEW r \in Request, work[r] # "none", NEW step \in WorkStep,
         work' = [work EXCEPT ![r] = step],
         UNCHANGED <<chain, tx, req, order, rec, open, restarts>>,
         ans' \in [Answer -> {"idle", "refused", "killed", "answered"} \cup AnswerStep],
         tools' \subseteq Actor,
         WorkOK(tx[r], TRUE, rec[r], step)
  PROVE  DashboardInv' /\ KeepsResults
<1>1. /\ OpenIsWorking' /\ work' \in [Request -> WorkStep \cup {"none"}]
      /\ work'[r] = step /\ \A x \in Request \ {r} : work'[x] = work[x]
  BY RunGoesOn
<1>2. TypeOK'
  BY <1>1 DEF DashboardInv, TypeOK, chain
<1>3. LandedOK(tx[r]) /\ rec[r] \in RunRecord /\ rec[r].stage = "running"
  BY Working
<1>4. step # "none"
  BY DEF WorkStep
<1>5. RecordOK(tx[r], rec[r], step)
  BY <1>3, <1>4, Working DEF RecordOK
<1>6. Kept(rec[r], rec[r])
  BY DEF Kept
<1> QED
  BY <1>1, <1>2, <1>3, <1>5, <1>6, WorkKeeps

LEMMA PreparePriorKeeps ==
  ASSUME DashboardInv, NEW r \in Request, PreparePrior(r)
  PROVE  DashboardInv' /\ KeepsResults
<1>1. work[r] = "prior"
  BY DEF PreparePrior, At
<1>2. WorkOK(tx[r], TRUE, rec[r], "prove")
  BY <1>1, Working DEF WorkOK, EarlyStep, ProvedStep, SignedStep
<1>3. tools' \subseteq Actor /\ UNCHANGED <<chain, tx, req, order, rec, open, ans, restarts>>
  BY DEF PreparePrior, DashboardInv, TypeOK, Actor
<1>4. work' = [work EXCEPT ![r] = "prove"] /\ "prove" \in WorkStep
  BY DEF PreparePrior, WorkStep
<1>5. ans' \in [Answer -> {"idle", "refused", "killed", "answered"} \cup AnswerStep]
  BY <1>3 DEF DashboardInv, TypeOK
<1> QED
  BY <1>1, <1>2, <1>3, <1>4, <1>5, MovesOn

LEMMA ProveEndsKeeps ==
  ASSUME DashboardInv, NEW r \in Request, ProveEnds(r)
  PROVE  DashboardInv' /\ KeepsResults
<1>1. work[r] = "prove"
  BY DEF ProveEnds, At
<1>2. WorkOK(tx[r], TRUE, rec[r], "ledger")
  BY <1>1, Working DEF WorkOK, EarlyStep, ProvedStep, SignedStep
<1>3. tools' \subseteq Actor /\ UNCHANGED <<chain, tx, req, order, rec, open, restarts>>
  BY DEF ProveEnds
<1>4. work' = [work EXCEPT ![r] = "ledger"] /\ "ledger" \in WorkStep
  BY DEF ProveEnds, WorkStep
<1>5. ans' \in [Answer -> {"idle", "refused", "killed", "answered"} \cup AnswerStep]
  BY DEF ProveEnds, DashboardInv, TypeOK
<1> QED
  BY <1>1, <1>2, <1>3, <1>4, <1>5, MovesOn

\* A step that ends the run with record d.
LEMMA EndKeeps ==
  ASSUME DashboardInv, NEW r \in Request, work[r] # "none", NEW d, End(r, d),
         UNCHANGED <<req, order>>, UNCHANGED <<chain, restarts>>,
         ans' \in [Answer -> {"idle", "refused", "killed", "answered"} \cup AnswerStep],
         tools' \subseteq Actor,
         tx' \in [Actor -> Tx \cup {NoTx}], \A x \in Request \ {r} : tx'[x] = tx[x],
         LandedOK(tx'[r]), RecordOK(tx'[r], d, "none"), Kept(rec[r], d)
  PROVE  DashboardInv' /\ KeepsResults
<1>1. d \in RunRecord
  BY DEF RecordOK
<1>2. /\ OpenIsWorking' /\ open' = None
      /\ rec' \in [Request -> RunRecord \cup {NoRecord}]
      /\ work' \in [Request -> WorkStep \cup {"none"}]
      /\ rec'[r] = d /\ work'[r] = "none"
      /\ \A x \in Request \ {r} : rec'[x] = rec[x] /\ work'[x] = work[x]
  BY <1>1, RunEnds
<1>3. TypeOK'
  BY <1>2 DEF DashboardInv, TypeOK, chain
<1>4. WorkOK(tx'[r], TRUE, d, "none")
  BY DEF WorkOK
<1> QED
  BY <1>2, <1>3, <1>4, WorkKeeps

\* A run that fails keeps all of its record but the stage.
LEMMA FailedKeeps ==
  ASSUME NEW d \in RunRecord, d.stage = "running", NEW t,
         d.submission # 0 => d.proof /\ t.status = "success" /\ t.id = d.submission,
         d.action = "prove" => t = NoTx
  PROVE  RecordOK(t, Failed(d), "none") /\ Kept(d, Failed(d))
<1>1. Failed(d) \in RunRecord /\ Failed(d).stage = "failed"
  BY DEF Failed, RunRecord
<1>2. /\ Failed(d).submission = d.submission /\ Failed(d).action = d.action
      /\ Failed(d).proof = d.proof
  BY DEF Failed, RunRecord
<1> QED
  BY <1>1, <1>2 DEF RecordOK, Kept

\* The record after the proof, before its stage changes.
LEMMA ProvedRecord ==
  ASSUME NEW d \in RunRecord, NEW w \in {"open", "closed"}
  PROVE  LET e == [d EXCEPT !.proof = TRUE, !.window = w]
         IN  /\ e \in RunRecord /\ e.proof /\ e.action = d.action
             /\ e.stage = d.stage /\ e.submission = d.submission
<1> DEFINE e == [d EXCEPT !.proof = TRUE, !.window = w]
<1>1. e \in RunRecord
  BY DEF RunRecord
<1>2. e.action = d.action /\ e.stage = d.stage /\ e.submission = d.submission
  BY DEF RunRecord
<1>3. e.proof
  BY DEF RunRecord
<1> QED
  BY <1>1, <1>2, <1>3

\* The proof is recorded and nothing was sent: a run that only proves finishes,
\* a run whose window has closed fails, another one goes on to submit.
LEMMA AfterProofKeeps ==
  ASSUME DashboardInv, NEW r \in Request, AfterProof(r)
  PROVE  DashboardInv' /\ KeepsResults
<1> DEFINE window == IF InsideWindow(rec[r].snapshot, ledger) THEN "open" ELSE "closed"
           proved == [rec[r] EXCEPT !.proof = TRUE, !.window = window]
<1>1. work[r] = "ledger" /\ UNCHANGED <<chain, tx, req, order, ans, tools, restarts>>
  BY DEF AfterProof, At
<1>2. tx[r] = NoTx /\ rec[r].submission = 0 /\ rec[r] \in RunRecord /\ rec[r].stage = "running"
  BY <1>1, Working DEF WorkOK, EarlyStep
<1>3. /\ proved \in RunRecord /\ proved.proof /\ proved.action = rec[r].action
      /\ proved.stage = "running" /\ proved.submission = 0
  BY <1>2, ProvedRecord
<1>4. LandedOK(tx'[r]) /\ tx'[r] = NoTx
  BY <1>1, <1>2 DEF LandedOK, NoTx
<1>5. Kept(rec[r], proved)
  BY <1>2, <1>3 DEF Kept
<1>6. /\ ans' \in [Answer -> {"idle", "refused", "killed", "answered"} \cup AnswerStep]
      /\ tools' \subseteq Actor
      /\ tx' \in [Actor -> Tx \cup {NoTx}] /\ \A x \in Request \ {r} : tx'[x] = tx[x]
  BY <1>1 DEF DashboardInv, TypeOK
<1>7. CASE proved.action = "prove" /\ End(r, [proved EXCEPT !.stage = "finished"])
  <2> DEFINE done == [proved EXCEPT !.stage = "finished"]
  <2> HIDE DEF proved
  <2>1. done \in RunRecord /\ done.stage = "finished"
    BY <1>3 DEF RunRecord
  <2>2. done.action = "prove" /\ done.submission = 0
    BY <1>3, <1>7 DEF RunRecord
  <2>3. done.proof
    BY <1>3 DEF RunRecord
  <2>4. RecordOK(tx'[r], done, "none") /\ Kept(rec[r], done)
    BY <1>2, <1>4, <2>1, <2>2, <2>3 DEF RecordOK, Kept
  <2> QED
    BY <1>1, <1>4, <1>6, <1>7, <2>4, EndKeeps
<1>8. CASE proved.action = "attest" /\ End(r, Failed(proved))
  <2> HIDE DEF proved
  <2>1. RecordOK(tx'[r], Failed(proved), "none") /\ Kept(proved, Failed(proved))
    BY <1>3, <1>4, <1>8, FailedKeeps
  <2>2. Kept(rec[r], Failed(proved))
    BY <1>2, <1>3, <1>5, <2>1 DEF Kept
  <2> QED
    BY <1>1, <1>4, <1>6, <1>8, <2>1, <2>2, EndKeeps
<1>9. CASE /\ proved.action # "prove"
           /\ rec' = [rec EXCEPT ![r] = proved]
           /\ work' = [work EXCEPT ![r] = "submit"]
           /\ UNCHANGED open
  <2> HIDE DEF proved
  <2>1. proved.action = "attest"
    BY <1>3, <1>9 DEF RunRecord
  <2>2. "submit" \in WorkStep
    BY DEF WorkStep
  <2>3. /\ OpenIsWorking' /\ work' \in [Request -> WorkStep \cup {"none"}]
        /\ work'[r] = "submit" /\ \A x \in Request \ {r} : work'[x] = work[x]
    BY <1>1, <1>9, <2>2, RunGoesOn
  <2>4. /\ rec' \in [Request -> RunRecord \cup {NoRecord}]
        /\ rec'[r] = proved /\ \A x \in Request \ {r} : rec'[x] = rec[x]
    BY <1>3, <1>9 DEF DashboardInv, TypeOK
  <2>5. TypeOK'
    BY <1>1, <1>9, <2>3, <2>4 DEF DashboardInv, TypeOK, chain
  <2>6. WorkOK(tx'[r], TRUE, proved, "submit") /\ RecordOK(tx'[r], proved, "submit")
    BY <1>3, <1>4, <2>1 DEF WorkOK, RecordOK, EarlyStep, ProvedStep, SignedStep
  <2> QED
    BY <1>1, <1>4, <1>5, <1>6, <2>3, <2>4, <2>5, <2>6, WorkKeeps
<1> QED
  <2>1. proved.window \in {"open", "closed"}
    BY <1>2 DEF RunRecord
  <2>2. \/ proved.action = "prove" /\ End(r, [proved EXCEPT !.stage = "finished"])
        \/ proved.action = "attest" /\ End(r, Failed(proved))
        \/ /\ proved.action # "prove"
           /\ rec' = [rec EXCEPT ![r] = proved]
           /\ work' = [work EXCEPT ![r] = "submit"]
           /\ UNCHANGED open
    BY DEF AfterProof
  <2> QED
    BY <1>7, <1>8, <1>9, <2>2

LEMMA SubmitAttestationKeeps ==
  ASSUME DashboardInv, NEW r \in Request, SubmitAttestation(r)
  PROVE  DashboardInv' /\ KeepsResults
<1>1. /\ work[r] = "submit" /\ work' = [work EXCEPT ![r] = "send"]
      /\ UNCHANGED <<chain, req, order, rec, open, ans, tools, restarts>>
  BY DEF SubmitAttestation, At
<1>2. /\ rec[r].submission = 0 /\ rec[r].proof /\ rec[r].action = "attest"
      /\ rec[r] \in RunRecord /\ rec[r].stage = "running"
  BY <1>1, Working DEF WorkOK, ProvedStep
<1>3. /\ tx' \in [Actor -> Tx \cup {NoTx}]
      /\ tx'[r] = [status |-> "built", seq |-> seq, id |-> 0] /\ tx'[r] # NoTx
      /\ \A x \in Request \ {r} : tx'[x] = tx[x]
  BY DEF SubmitAttestation, BuildTx, DashboardInv, TypeOK, Actor, Tx, NoTx
<1>4. "send" \in WorkStep
  BY DEF WorkStep
<1>5. /\ OpenIsWorking' /\ work' \in [Request -> WorkStep \cup {"none"}]
      /\ work'[r] = "send" /\ \A x \in Request \ {r} : work'[x] = work[x]
  BY <1>1, <1>4, RunGoesOn
<1>6. TypeOK'
  BY <1>1, <1>3, <1>5 DEF DashboardInv, TypeOK, chain
<1>7. LandedOK(tx'[r])
  BY <1>3 DEF LandedOK
<1>8. WorkOK(tx'[r], TRUE, rec'[r], work'[r])
  BY <1>1, <1>2, <1>3, <1>5 DEF WorkOK, EarlyStep, ProvedStep, SignedStep
<1>9. RecordOK(tx'[r], rec'[r], work'[r]) /\ Kept(rec[r], rec'[r])
  BY <1>1, <1>2, <1>5 DEF RecordOK, Kept
<1> QED
  BY <1>1, <1>3, <1>5, <1>6, <1>7, <1>8, <1>9, WorkKeeps

\* What a transaction looks like once the network took it.
LEMMA TakenTx ==
  ASSUME DashboardInv, NEW x \in Actor, Taken(x), tx[x] # NoTx
  PROVE  /\ tx' \in [Actor -> Tx \cup {NoTx}]
         /\ tx'[x].status = "sent" /\ LandedOK(tx'[x]) /\ tx'[x] # NoTx
         /\ \A y \in Actor \ {x} : tx'[y] = tx[y]
<1>1. tx[x] \in Tx
  BY DEF DashboardInv, TypeOK
<1>2. tx'[x] = [tx[x] EXCEPT !.status = "sent"] /\ tx' = [tx EXCEPT ![x] = tx'[x]]
  BY DEF Taken, DashboardInv, TypeOK
<1>3. tx'[x] \in Tx /\ tx'[x].status = "sent"
  BY <1>1, <1>2 DEF Tx
<1> QED
  BY <1>2, <1>3 DEF DashboardInv, TypeOK, LandedOK, NoTx

LEMMA SendKeeps ==
  ASSUME DashboardInv, NEW r \in Request, Send(r)
  PROVE  DashboardInv' /\ KeepsResults
<1>1. work[r] = "send" /\ Taken(r) /\ UNCHANGED <<chain, req, order, ans, tools, restarts>>
  BY DEF Send, At
<1>2. /\ rec[r].submission = 0 /\ rec[r].proof /\ rec[r].action = "attest"
      /\ rec[r] \in RunRecord /\ rec[r].stage = "running" /\ tx[r] # NoTx
  BY <1>1, Working DEF WorkOK, ProvedStep, SignedStep
<1>3. r \in Actor /\ Request \subseteq Actor
  BY DEF Actor
<1>4. /\ tx' \in [Actor -> Tx \cup {NoTx}]
      /\ tx'[r] # NoTx /\ LandedOK(tx'[r])
      /\ \A x \in Request \ {r} : tx'[x] = tx[x]
  BY <1>1, <1>2, <1>3, TakenTx
<1>5. CASE work' = [work EXCEPT ![r] = "poll"] /\ UNCHANGED <<rec, open>>
  <2>1. "poll" \in WorkStep
    BY DEF WorkStep
  <2>2. /\ OpenIsWorking' /\ work' \in [Request -> WorkStep \cup {"none"}]
        /\ work'[r] = "poll" /\ \A x \in Request \ {r} : work'[x] = work[x]
    BY <1>1, <1>5, <2>1, RunGoesOn
  <2>3. TypeOK'
    BY <1>1, <1>4, <1>5, <2>2 DEF DashboardInv, TypeOK, chain
  <2>4. WorkOK(tx'[r], TRUE, rec'[r], work'[r])
    BY <1>2, <1>4, <1>5, <2>2 DEF WorkOK, EarlyStep, ProvedStep, SignedStep
  <2>5. RecordOK(tx'[r], rec'[r], work'[r]) /\ Kept(rec[r], rec'[r])
    BY <1>2, <1>5, <2>2 DEF RecordOK, Kept
  <2> QED
    BY <1>1, <1>4, <1>5, <2>2, <2>3, <2>4, <2>5, WorkKeeps
<1>6. CASE End(r, Failed(rec[r]))
  <2>1. RecordOK(tx'[r], Failed(rec[r]), "none") /\ Kept(rec[r], Failed(rec[r]))
    BY <1>2, FailedKeeps
  <2>2. /\ ans' \in [Answer -> {"idle", "refused", "killed", "answered"} \cup AnswerStep]
        /\ tools' \subseteq Actor
    BY <1>1 DEF DashboardInv, TypeOK
  <2> QED
    BY <1>1, <1>4, <1>6, <2>1, <2>2, EndKeeps
<1> QED
  BY <1>5, <1>6 DEF Send

\* The submission is recorded under the identifier that the registry gave.
LEMMA PollKeeps ==
  ASSUME DashboardInv, NEW r \in Request, Poll(r)
  PROVE  DashboardInv' /\ KeepsResults
<1>1. /\ work[r] = "poll" /\ tx[r].status = "success"
      /\ rec' = [rec EXCEPT ![r].submission = tx[r].id]
      /\ work' = [work EXCEPT ![r] = "packages"]
      /\ UNCHANGED <<chain, tx, req, order, open, ans, tools, restarts>>
  BY DEF Poll, At
<1>2. /\ rec[r].submission = 0 /\ rec[r].proof /\ rec[r].action = "attest"
      /\ rec[r] \in RunRecord /\ rec[r].stage = "running" /\ tx[r] # NoTx
  BY <1>1, Working DEF WorkOK, ProvedStep, SignedStep
<1>3. tx[r].id \in Nat /\ tx[r].id # 0 /\ LandedOK(tx[r])
  <2>1. tx[r] \in Tx
    BY <1>2 DEF DashboardInv, TypeOK, Actor
  <2>2. LandedOK(tx[r])
    BY <1>1, Working
  <2> QED
    BY <1>1, <2>1, <2>2 DEF Tx, LandedOK
<1>4. /\ rec'[r] = [rec[r] EXCEPT !.submission = tx[r].id]
      /\ \A x \in Request \ {r} : rec'[x] = rec[x]
  BY <1>1 DEF DashboardInv, TypeOK
<1>5. rec'[r] \in RunRecord /\ rec'[r].submission = tx[r].id
  BY <1>2, <1>3, <1>4 DEF RunRecord
<1>6. rec'[r].action = "attest" /\ rec'[r].stage = "running"
  BY <1>2, <1>4 DEF RunRecord
<1>7. rec'[r].proof
  BY <1>2, <1>4 DEF RunRecord
<1>8. "packages" \in WorkStep
  BY DEF WorkStep
<1>9. /\ OpenIsWorking' /\ work' \in [Request -> WorkStep \cup {"none"}]
      /\ work'[r] = "packages" /\ \A x \in Request \ {r} : work'[x] = work[x]
  BY <1>1, <1>8, RunGoesOn
<1>10. rec' \in [Request -> RunRecord \cup {NoRecord}]
  BY <1>1, <1>4, <1>5 DEF DashboardInv, TypeOK
<1>11. TypeOK'
  BY <1>1, <1>9, <1>10 DEF DashboardInv, TypeOK, chain
<1>12. WorkOK(tx'[r], TRUE, rec'[r], work'[r])
  BY <1>1, <1>2, <1>3, <1>5, <1>6, <1>7, <1>9 DEF WorkOK, EarlyStep, ProvedStep, SignedStep
<1>13. RecordOK(tx'[r], rec'[r], work'[r])
  BY <1>1, <1>5, <1>6, <1>7, <1>9 DEF RecordOK
<1>14. Kept(rec[r], rec'[r])
  BY <1>2, <1>7 DEF Kept
<1>15. LandedOK(tx'[r]) /\ \A x \in Request \ {r} : tx'[x] = tx[x]
  BY <1>1, <1>3
<1> QED
  BY <1>1, <1>4, <1>9, <1>11, <1>12, <1>13, <1>14, <1>15, WorkKeeps

LEMMA WritePackagesKeeps ==
  ASSUME DashboardInv, NEW r \in Request, WritePackages(r)
  PROVE  DashboardInv' /\ KeepsResults
<1> DEFINE done == [rec[r] EXCEPT !.stage = "finished", !.packages = TRUE]
<1>1. /\ work[r] = "packages" /\ End(r, done)
      /\ UNCHANGED <<chain, tx, req, order, ans, tools, restarts>>
  BY DEF WritePackages, At
<1>2. /\ rec[r].submission # 0 /\ rec[r].proof /\ rec[r].action = "attest"
      /\ rec[r] \in RunRecord /\ rec[r].stage = "running"
      /\ tx[r].status = "success" /\ tx[r].id = rec[r].submission
      /\ LandedOK(tx[r])
  BY <1>1, Working DEF WorkOK, ProvedStep
<1>3. done \in RunRecord
  BY <1>2 DEF RunRecord
<1>4. done.submission = rec[r].submission /\ done.action = "attest" /\ done.stage = "finished"
  BY <1>2 DEF RunRecord
<1>5. done.proof
  BY <1>2 DEF RunRecord
<1>6. done.packages
  BY <1>2 DEF RunRecord
<1> HIDE DEF done
<1>7. RecordOK(tx'[r], done, "none") /\ Kept(rec[r], done)
  BY <1>1, <1>2, <1>3, <1>4, <1>5, <1>6 DEF RecordOK, Kept
<1>8. /\ ans' \in [Answer -> {"idle", "refused", "killed", "answered"} \cup AnswerStep]
      /\ tools' \subseteq Actor /\ LandedOK(tx'[r])
      /\ tx' \in [Actor -> Tx \cup {NoTx}] /\ \A x \in Request \ {r} : tx'[x] = tx[x]
  BY <1>1, <1>2 DEF DashboardInv, TypeOK
<1> QED
  BY <1>1, <1>7, <1>8, EndKeeps

LEMMA WorkFailsKeeps ==
  ASSUME DashboardInv, NEW r \in Request, WorkFails(r)
  PROVE  DashboardInv' /\ KeepsResults
<1>1. work[r] # "none" /\ End(r, Failed(rec[r])) /\ UNCHANGED <<chain, tx, req, order, restarts>>
  BY DEF WorkFails, WorkStep
<1>2. /\ rec[r] \in RunRecord /\ rec[r].stage = "running" /\ LandedOK(tx[r])
      /\ rec[r].submission # 0 =>
            rec[r].proof /\ tx[r].status = "success" /\ tx[r].id = rec[r].submission
      /\ rec[r].action = "prove" => tx[r] = NoTx
  BY <1>1, Working
<1>3. RecordOK(tx[r], Failed(rec[r]), "none") /\ Kept(rec[r], Failed(rec[r]))
  BY <1>2, FailedKeeps
<1>4. /\ ans' \in [Answer -> {"idle", "refused", "killed", "answered"} \cup AnswerStep]
      /\ tools' \subseteq Actor
  BY DEF WorkFails, DashboardInv, TypeOK
<1>5. /\ tx' \in [Actor -> Tx \cup {NoTx}]
      /\ tx'[r] = tx[r] /\ \A x \in Request \ {r} : tx'[x] = tx[x]
  BY <1>1 DEF DashboardInv, TypeOK
<1> QED
  BY <1>1, <1>2, <1>3, <1>4, <1>5, EndKeeps

-----------------------------------------------------------------------------
(* The answers and the restart *)

\* A step of an answer leaves the runs alone, whatever it does to its own
\* transaction, and signs before it sends.
LEMMA ReplyKeeps ==
  ASSUME DashboardInv, AnswersAreSigned, NEW a \in Answer, Reply(a)
  PROVE  DashboardInv' /\ KeepsResults /\ AnswersAreSigned'
<1> DEFINE Steps == {"idle", "refused", "killed", "answered"} \cup AnswerStep
<1>1. /\ a \in Actor /\ a \notin Request
      /\ ans \in [Answer -> Steps] /\ tools \subseteq Actor
      /\ tx \in [Actor -> Tx \cup {NoTx}] /\ seq \in Nat
  BY Limits DEF Actor, DashboardInv, TypeOK
<1>2. UNCHANGED <<chain, req, order, rec, open, work, restarts>>
  BY DEF Reply, PostAnswer, ReadForAnswer, AnswerToolEnds, SubmitAnswer, SendAnswer,
         AnswerSettles, AnswerFails
<1>3. ans' \in [Answer -> Steps] /\ \A b \in Answer \ {a} : ans'[b] = ans[b]
  BY <1>1 DEF Reply, PostAnswer, ReadForAnswer, AnswerToolEnds, SubmitAnswer, SendAnswer,
              AnswerSettles, AnswerFails, AnswerStep
<1>4. tools' \subseteq Actor
  BY <1>1 DEF Reply, PostAnswer, ReadForAnswer, AnswerToolEnds, SubmitAnswer, SendAnswer,
              AnswerSettles, AnswerFails
<1>5. /\ tx' \in [Actor -> Tx \cup {NoTx}]
      /\ ans'[a] = "send" => tx'[a] # NoTx
      /\ \A y \in Actor \ {a} : tx'[y] = tx[y]
  <2>1. CASE SubmitAnswer(a)
    <3>1. tx' = [tx EXCEPT ![a] = [status |-> "built", seq |-> seq, id |-> 0]]
      BY <2>1 DEF SubmitAnswer, BuildTx
    <3>2. [status |-> "built", seq |-> seq, id |-> 0] \in Tx
      BY <1>1 DEF Tx
    <3>3. [status |-> "built", seq |-> seq, id |-> 0] # NoTx
      BY DEF NoTx
    <3> QED
      BY <1>1, <3>1, <3>2, <3>3
  <2>2. CASE SendAnswer(a)
    BY <1>1, <2>2, TakenTx DEF SendAnswer, AnswersAreSigned
  <2>3. CASE PostAnswer(a) \/ ReadForAnswer(a) \/ AnswerToolEnds(a) \/ AnswerSettles(a) \/ AnswerFails(a)
    <3>1. UNCHANGED tx /\ ans'[a] # "send"
      BY <1>1, <2>3 DEF PostAnswer, ReadForAnswer, AnswerToolEnds, AnswerSettles, AnswerFails
    <3> QED
      BY <1>1, <3>1
  <2> QED
    BY <2>1, <2>2, <2>3 DEF Reply
<1>6. TypeOK'
  BY <1>2, <1>3, <1>4, <1>5 DEF DashboardInv, TypeOK, chain
<1>7. \A r \in Request : tx'[r] = tx[r]
  BY <1>1, <1>5 DEF Actor
<1>8. AnswersAreSigned'
  BY <1>3, <1>5 DEF AnswersAreSigned, Actor
<1> QED
  BY <1>2, <1>6, <1>7, <1>8, RunsAlone

\* The other steps sign nothing away: a transaction never goes back to none.
LEMMA OthersKeepSignatures ==
  ASSUME DashboardInv, AnswersAreSigned, [Next]_vars, \A a \in Answer : ~Reply(a)
  PROVE  AnswersAreSigned'
<1> SUFFICES ASSUME NEW a \in Answer, ans'[a] = "send"
             PROVE  tx'[a] # NoTx
  BY DEF AnswersAreSigned
<1>1. a \in Actor /\ a \notin Request /\ tx \in [Actor -> Tx \cup {NoTx}]
  BY Limits DEF Actor, DashboardInv, TypeOK
<1>2. ans[a] = "send" => tx[a] # NoTx
  BY DEF AnswersAreSigned
<1>3. CASE UNCHANGED vars \/ Close
  BY <1>2, <1>3 DEF vars, Close
<1>4. CASE Restart
  BY <1>2, <1>4 DEF Restart, AnswerStep
<1>5. ASSUME NEW x \in Actor, Land(x) PROVE tx'[a] # NoTx
  <2>1. tx[a] # NoTx /\ ans[a] = "send"
    BY <1>2, <1>5 DEF Land
  <2>2. CASE x = a
    <3>1. tx'[a] = [tx[a] EXCEPT !.status = "success"] /\ tx[a] \in Tx
      BY <1>1, <1>5, <2>1, <2>2 DEF Land
    <3>2. tx'[a] \in Tx /\ tx'[a].status = "success"
      BY <3>1 DEF Tx
    <3> QED
      BY <3>2 DEF NoTx
  <2>3. CASE x # a
    BY <1>1, <1>5, <2>1, <2>3 DEF Land
  <2> QED
    BY <2>2, <2>3
<1>6. ASSUME NEW r \in Request, Handle(r) \/ Perform(r) PROVE tx'[a] # NoTx
  <2>1. ans'[a] = ans[a] \/ ans'[a] = "killed"
    BY <1>6 DEF Handle, Post, TurnAway, Check, StartOrJoin, Perform, PreparePrior, ProveEnds,
                AfterProof, SubmitAttestation, Send, Poll, WritePackages, WorkFails
  <2>2. \/ UNCHANGED tx
        \/ BuildTx(r) \/ Taken(r)
    BY <1>6 DEF Handle, Post, TurnAway, Check, StartOrJoin, Perform, PreparePrior, ProveEnds,
                AfterProof, SubmitAttestation, Send, Poll, WritePackages, WorkFails
  <2>3. tx'[a] = tx[a]
    BY <1>1, <2>2 DEF BuildTx, Taken
  <2> QED
    BY <1>2, <2>1, <2>3
<1> QED
  BY <1>3, <1>4, <1>5, <1>6 DEF Next

\* Nothing of the store survives a restart, so nothing of it is wrong.
LEMMA RestartKeeps ==
  ASSUME DashboardInv, Restart
  PROVE  DashboardInv' /\ KeepsResults
<1>1. /\ order' = <<>> /\ open' = None /\ tools' = {} /\ restarts' = restarts + 1
      /\ restarts < MaxRestarts /\ UNCHANGED <<chain, tx>>
      /\ rec' = [r \in Request |-> NoRecord] /\ work' = [r \in Request |-> "none"]
  BY DEF Restart
<1>2. Remembered' = {}
  BY <1>1 DEF Remembered
<1>3. /\ req' \in [Request -> Asked \cup Silent]
      /\ \A r \in Request : req'[r].pc = "started" <=> req[r].pc = "started"
  <2>1. req' = [r \in Request |-> IF req[r].pc \in {"reads", "checked"} THEN [pc |-> "refused"] ELSE req[r]]
    BY DEF Restart
  <2>2. req \in [Request -> Asked \cup Silent]
    BY DEF DashboardInv, TypeOK
  <2> QED
    BY <2>1, <2>2, RefusedOrJoined
<1>4. ans' \in [Answer -> {"idle", "refused", "killed", "answered"} \cup AnswerStep]
  BY DEF Restart, DashboardInv, TypeOK
<1>5. <<>> \in Seq(Request) /\ Len(<<>>) <= MaxRemembered
  BY EmptySeq, Limits
<1>6. TypeOK'
  <2>1. work' \in [Request -> WorkStep \cup {"none"}]
    BY <1>1
  <2>2. rec' \in [Request -> RunRecord \cup {NoRecord}]
    BY <1>1
  <2>3. restarts' \in 0..MaxRestarts
    BY <1>1, Limits DEF DashboardInv, TypeOK
  <2> QED
    BY <1>1, <1>3, <1>4, <1>5, <2>1, <2>2, <2>3 DEF DashboardInv, TypeOK, chain
<1>7. OpenIsWorking'
  BY <1>1, Limits DEF OpenIsWorking
<1>8. RunsOK'
  <2> SUFFICES ASSUME NEW r \in Request
               PROVE  RunOK(req'[r], tx'[r], r \in Remembered', rec'[r], work'[r])
    BY DEF RunsOK
  <2>1. RunOK(req[r], tx[r], r \in Remembered, rec[r], work[r])
    BY DEF DashboardInv, RunsOK
  <2> QED
    BY <1>1, <1>2, <1>3, <2>1 DEF RunOK, FreshOK, WorkOK
<1>9. KeepsResults
  BY <1>2 DEF KeepsResults
<1> QED
  BY <1>6, <1>7, <1>8, <1>9 DEF DashboardInv

-----------------------------------------------------------------------------
(* The theorems *)

LEMMA StoreStep ==
  ASSUME DashboardInv, AnswersAreSigned, [Next]_vars
  PROVE  DashboardInv' /\ AnswersAreSigned' /\ KeepsResults
<1>1. CASE \E a \in Answer : Reply(a)
  BY <1>1, ReplyKeeps
<1>2. CASE \A a \in Answer : ~Reply(a)
  <2>1. AnswersAreSigned'
    BY <1>2, OthersKeepSignatures
  <2>2. DashboardInv' /\ KeepsResults
    <3>1. CASE UNCHANGED vars
      <4>1. TypeOK'
        BY <3>1 DEF vars, DashboardInv, TypeOK
      <4> QED
        BY <3>1, <4>1, RunsAlone DEF vars
    <3>2. CASE Close \/ Restart \/ \E x \in Actor : Land(x)
      BY <3>2, CloseKeeps, RestartKeeps, LandKeeps
    <3>3. ASSUME NEW r \in Request, Handle(r)
          PROVE  DashboardInv' /\ KeepsResults
      BY <3>3, PostKeeps, TurnAwayKeeps, CheckKeeps, StartKeeps DEF Handle
    <3>4. ASSUME NEW r \in Request, Perform(r)
          PROVE  DashboardInv' /\ KeepsResults
      BY <3>4, PreparePriorKeeps, ProveEndsKeeps, AfterProofKeeps, SubmitAttestationKeeps,
         SendKeeps, PollKeeps, WritePackagesKeeps, WorkFailsKeeps DEF Perform
    <3> QED
      BY <1>2, <3>1, <3>2, <3>3, <3>4 DEF Next
  <2> QED
    BY <2>1, <2>2
<1> QED
  BY <1>1, <1>2

\* The strengthening holds in every state: the store, the work, the requests
\* and the transactions of the runs agree (runs.ts, attestation.ts).
THEOREM DashboardInvariant == Spec => [](DashboardInv /\ AnswersAreSigned)
<1>1. Init => DashboardInv /\ AnswersAreSigned
  <2>1. Init => AnswersAreSigned
    BY DEF Init, AnswersAreSigned
  <2> QED
    BY <2>1, InitIsSound
<1> QED
  BY <1>1, StoreStep, PTL DEF Spec

\* For any number of posts and any limit of the store: the one run that works is
\* the open one and the only one whose page says so (runs.ts:188-219, 291-295).
THEOREM StoreStaysSound == Spec => []StoreIsSound
<1>1. ASSUME DashboardInv PROVE StoreIsSound
  <2>1. ASSUME NEW r \in Request
        PROVE  work[r] # "none" <=> "running" \in Page(r)
    <3>1. RunOK(req[r], tx[r], r \in Remembered, rec[r], work[r])
      BY <1>1 DEF DashboardInv, RunsOK
    <3>2. "running" \notin Produced(r)
      BY DEF Produced
    <3>3. "running" \in Page(r) <=> r \in Remembered /\ rec[r].stage = "running"
      BY <3>2 DEF Page
    <3> QED
      BY <3>1, <3>3 DEF RunOK, WorkOK, RecordOK
  <2> QED
    BY <1>1, <2>1 DEF DashboardInv, OpenIsWorking, StoreIsSound, StoreFollowsWork
<1> QED
  BY <1>1, DashboardInvariant, PTL

\* Whatever happens to the ledger, the answers and the process, a page that
\* says accepted, finished or packages is right (attestation.ts:89-127).
THEOREM PagesStayTrue == Spec => []PagesAreTrue
<1>1. ASSUME DashboardInv PROVE PagesAreTrue
  <2>1. ASSUME NEW r \in Request
        PROVE  /\ "accepted" \in Page(r) =>
                    tx[r].status = "success" /\ tx[r].id = rec[r].submission
               /\ "finished" \in Page(r) =>
                    /\ rec[r].proof
                    /\ IF rec[r].action = "attest"
                       THEN {"accepted", "packages"} \subseteq Page(r) ELSE tx[r] = NoTx
    <3>1. CASE r \notin Remembered
      BY <3>1 DEF Page
    <3>2. CASE r \in Remembered
      <4>1. RecordOK(tx[r], rec[r], work[r])
        BY <1>1, <3>2 DEF DashboardInv, RunsOK, RunOK
      <4>2. rec[r].stage \in {"running", "finished", "failed"} /\ rec[r].action \in {"prove", "attest"}
        BY <4>1 DEF RecordOK, RunRecord
      <4>3. "accepted" \in Page(r) <=> rec[r].proof /\ rec[r].submission # 0
        BY <3>2, <4>2 DEF Page, Produced
      <4>4. "finished" \in Page(r) <=> rec[r].stage = "finished"
        BY <3>2, <4>2 DEF Page, Produced
      <4>5. "packages" \in Page(r) <=> rec[r].proof /\ rec[r].packages
        BY <3>2, <4>2 DEF Page, Produced
      <4>6. "accepted" \in Page(r) => tx[r].status = "success" /\ tx[r].id = rec[r].submission
        BY <4>1, <4>3 DEF RecordOK
      <4>7. ASSUME "finished" \in Page(r)
            PROVE  /\ rec[r].proof
                   /\ IF rec[r].action = "attest"
                      THEN {"accepted", "packages"} \subseteq Page(r) ELSE tx[r] = NoTx
        BY <4>1, <4>2, <4>3, <4>4, <4>5, <4>7 DEF RecordOK
      <4> QED
        BY <4>6, <4>7
    <3> QED
      BY <3>1, <3>2
  <2> QED
    BY <2>1 DEF PagesAreTrue, AcceptedMeansRecorded, FinishedMeansDone
<1> QED
  BY <1>1, DashboardInvariant, PTL

\* No step takes a proof, a submission or an end away from a run that the store
\* still holds (runs.ts:284-289).
THEOREM ResultsStay == Spec => ResultsAreKept
<1>1. DashboardInv /\ AnswersAreSigned /\ [Next]_vars =>
        [\A r \in Remembered :
           \/ r \notin Remembered'
           \/ /\ rec[r].proof => rec'[r].proof
              /\ rec[r].submission # 0 => rec'[r].submission = rec[r].submission
              /\ rec[r].stage # "running" => rec'[r] = rec[r]]_vars
  BY StoreStep DEF KeepsResults, Kept
<1> QED
  BY <1>1, DashboardInvariant, PTL DEF Spec, ResultsAreKept
=============================================================================
