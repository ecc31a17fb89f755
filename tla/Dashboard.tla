----------------------------- MODULE Dashboard ------------------------------
(***************************************************************************)
(* The dashboard process: the store of its runs (dashboard/src/runs.ts),   *)
(* the submission and the work of a run (attestation.ts), the issuer's     *)
(* answer to a dispute (answer.ts, routes.tsx), the client calls that send *)
(* their transactions (sdk/src/attest.ts, disputes.ts, registration.ts)    *)
(* and what the page of a run says (views/run.tsx).                        *)
(*                                                                         *)
(* The process is single threaded: an action is what happens between two   *)
(* awaits. A run has the name of the request that started it. The tools of *)
(* the process are children of RunLifecycle; here a tool is only present   *)
(* or not, in the one set that the process keeps.                          *)
(***************************************************************************)
EXTENDS Naturals, Sequences, FiniteSets

CONSTANTS
  Request,        \* posts of the attestation form, and the runs they start
  Answer,         \* posts of the answer form
  MaxRemembered,  \* MAX_REMEMBERED_RUNS
  MaxAge,         \* ATTESTATION_MAX_AGE_LEDGERS
  Margin,         \* PROVING_MARGIN_LEDGERS
  MaxLedger,      \* bound: ledgers
  MaxRestarts,    \* bound: restarts of the process
  None

ASSUME DashboardAssumption ==
  /\ {MaxRemembered, MaxAge, Margin, MaxLedger} \subseteq Nat \ {0}
  /\ MaxRestarts \in Nat
  /\ Request \cap Answer = {}
  /\ None \notin Request

Actor == Request \cup Answer

VARIABLES
  ledger,   \* the latest ledger of the network
  seq,      \* sequence number of the authority account
  count,    \* attestations that the registry holds
  tx,       \* the transaction of each actor
  req,      \* the progress of each request
  order,    \* the runs that the store remembers, oldest first
  rec,      \* the record of each run
  open,     \* openRunId
  work,     \* the step that the work of a run awaits
  ans,      \* the step that an answer awaits
  tools,    \* actors whose tool is in the set of running children
  restarts

chain == <<ledger, seq, count>>
vars == <<ledger, seq, count, tx, req, order, rec, open, work, ans, tools, restarts>>

\* The fields of a run that a page can show. The submission is the identifier
\* of the accepted attestation, 0 when there is none.
RunRecord ==
  [action : {"prove", "attest"}, snapshot : Nat, stage : {"running", "finished", "failed"},
   proof : BOOLEAN, window : {"unread", "open", "closed"}, submission : Nat, packages : BOOLEAN]
NoRecord == [stage |-> "none"]

Tx == [status : {"built", "sent", "success", "failed"}, seq : Nat, id : Nat]
NoTx == [status |-> "none"]

WorkStep == {"prior", "prove", "ledger", "submit", "send", "poll", "packages"}
AnswerStep == {"reads", "tool", "submit", "send", "poll"}

\* A request that has read its form and one that has not, or no longer.
Asked == [pc : {"reads", "checked", "started"}, action : {"prove", "attest"}, snapshot : 1..MaxLedger]
Silent == [pc : {"idle", "joined", "refused"}]

Init ==
  /\ ledger = 1 /\ seq = 0 /\ count = 0 /\ restarts = 0
  /\ tx = [x \in Actor |-> NoTx]
  /\ req = [r \in Request |-> [pc |-> "idle"]]
  /\ order = <<>>
  /\ rec = [r \in Request |-> NoRecord]
  /\ open = None
  /\ work = [r \in Request |-> "none"]
  /\ ans = [a \in Answer |-> "idle"]
  /\ tools = {}

Remembered == {order[i] : i \in DOMAIN order}

-----------------------------------------------------------------------------
(* The network *)

\* (external)
Close ==
  /\ ledger < MaxLedger
  /\ ledger' = ledger + 1
  /\ UNCHANGED <<seq, count, tx, req, order, rec, open, work, ans, tools, restarts>>

\* snapshotInsideWindow
InsideWindow(snapshot, at) == snapshot <= at /\ at <= snapshot + MaxAge

\* A sent transaction executes. The registry checks the window again. (external)
Land(x) ==
  /\ tx[x].status = "sent" /\ tx[x].seq = seq
  /\ seq' = seq + 1
  /\ IF x \in Answer
     THEN tx' = [tx EXCEPT ![x].status = "success"] /\ UNCHANGED count
     ELSE IF InsideWindow(req[x].snapshot, ledger)
     THEN tx' = [tx EXCEPT ![x].status = "success", ![x].id = count + 1] /\ count' = count + 1
     ELSE tx' = [tx EXCEPT ![x].status = "failed"] /\ UNCHANGED count
  /\ UNCHANGED <<ledger, req, order, rec, open, work, ans, tools, restarts>>

\* getAccount, simulation and signature: the sequence number is read here.
BuildTx(x) == tx' = [tx EXCEPT ![x] = [status |-> "built", seq |-> seq, id |-> 0]]

\* sendTransaction: a used sequence number is refused. The answer can be lost
\* after the network took the transaction.
Taken(x) == tx[x].seq = seq /\ tx' = [tx EXCEPT ![x].status = "sent"]

-----------------------------------------------------------------------------
(* A request for a run: startRun and submitRun *)

\* The listener and the router turn a request away: its body, its host, its
\* origin, its fields.
TurnAway(r) ==
  /\ req[r].pc = "idle"
  /\ req' = [req EXCEPT ![r] = [pc |-> "refused"]]
  /\ UNCHANGED <<chain, tx, order, rec, open, work, ans, tools, restarts>>

\* submitRun joins an open run before it reads anything.
Post(r) ==
  /\ req[r].pc = "idle"
  /\ IF open # None
     THEN req' = [req EXCEPT ![r] = [pc |-> "joined"]]
     ELSE \E action \in {"prove", "attest"}, s \in 1..ledger :
            req' = [req EXCEPT ![r] = [pc |-> "reads", action |-> action, snapshot |-> s]]
  /\ UNCHANGED <<chain, tx, order, rec, open, work, ans, tools, restarts>>

\* windowAllowsProving
AllowsProving(snapshot, at) == snapshot <= at /\ snapshot + MaxAge >= at + Margin

\* readContext, the keys, latestLedger and locateAsset, or a refusal by one.
Check(r) ==
  /\ req[r].pc = "reads"
  /\ \/ /\ AllowsProving(req[r].snapshot, ledger)
        /\ req' = [req EXCEPT ![r].pc = "checked"]
     \/ req' = [req EXCEPT ![r] = [pc |-> "refused"]]
  /\ UNCHANGED <<chain, tx, order, rec, open, work, ans, tools, restarts>>

\* forget: no run is open when it is called.
Forget(runs) ==
  IF Len(runs) >= MaxRemembered THEN SubSeq(runs, 2 + Len(runs) - MaxRemembered, Len(runs)) ELSE runs

NewRecord(r) ==
  [action |-> req[r].action, snapshot |-> req[r].snapshot, stage |-> "running",
   proof |-> FALSE, window |-> "unread", submission |-> 0, packages |-> FALSE]

\* Faulty variant: the open run of the first check is taken as still current.
StartUnchecked(r) ==
  /\ req[r].pc = "checked"
  /\ order' = Append(Forget(order), r)
  /\ rec' = [rec EXCEPT ![r] = NewRecord(r)]
  /\ open' = r
  /\ work' = [work EXCEPT ![r] = "prior"]
  /\ req' = [req EXCEPT ![r].pc = "started"]
  /\ UNCHANGED <<chain, tx, ans, tools, restarts>>

\* startOrJoin: the check and the record happen before any await.
StartOrJoin(r) ==
  /\ req[r].pc = "checked"
  /\ IF open # None
     THEN /\ req' = [req EXCEPT ![r] = [pc |-> "joined"]]
          /\ UNCHANGED <<order, rec, open, work>>
     ELSE /\ order' = Append(Forget(order), r)
          /\ rec' = [x \in Request |-> IF x = r THEN NewRecord(r)
                                       ELSE IF x \in Remembered' THEN rec[x]
                                       ELSE NoRecord]
          /\ open' = r
          /\ work' = [work EXCEPT ![r] = "prior"]
          /\ req' = [req EXCEPT ![r].pc = "started"]
  /\ UNCHANGED <<chain, tx, ans, tools, restarts>>

-----------------------------------------------------------------------------
(* The work of a run: perform, the work function and afterTheProof *)

At(r, step) == work[r] = step

\* Faulty variant: the failure replaces the record of the run.
EndForgetful(r, fields) ==
  /\ rec' = [rec EXCEPT ![r] = IF fields.stage = "failed"
                               THEN [NewRecord(r) EXCEPT !.stage = "failed"] ELSE fields]
  /\ work' = [work EXCEPT ![r] = "none"]
  /\ open' = None

\* Faulty variant: a failed run does not clear the identity of the open run.
EndOnlyOnSuccess(r, fields) ==
  /\ rec' = [rec EXCEPT ![r] = fields]
  /\ work' = [work EXCEPT ![r] = "none"]
  /\ open' = IF fields.stage = "failed" THEN open ELSE None

\* The end of perform: the last change of the record, then the finally block.
End(r, fields) ==
  /\ rec' = [rec EXCEPT ![r] = fields]
  /\ work' = [work EXCEPT ![r] = "none"]
  /\ open' = None

Failed(fields) == [fields EXCEPT !.stage = "failed"]

\* preparePriorGeneration, then the master secret; the prover starts.
PreparePrior(r) ==
  /\ At(r, "prior")
  /\ work' = [work EXCEPT ![r] = "prove"]
  /\ tools' = tools \cup {r}
  /\ UNCHANGED <<chain, tx, req, order, rec, open, ans, restarts>>

\* prove returns. Its lifecycle stops every child in the set of the process.
\* A tool that was stopped makes its own caller fail.
ProveEnds(r) ==
  /\ At(r, "prove")
  /\ work' = [work EXCEPT ![r] = "ledger"]
  /\ tools' = {}
  /\ ans' = [a \in Answer |-> IF a \in tools THEN "killed" ELSE ans[a]]
  /\ UNCHANGED <<chain, tx, req, order, rec, open, restarts>>

\* latestLedger, then afterTheProof up to the submission.
AfterProof(r) ==
  /\ At(r, "ledger")
  /\ LET proved == [rec[r] EXCEPT !.proof = TRUE,
                      !.window = IF InsideWindow(rec[r].snapshot, ledger) THEN "open" ELSE "closed"]
     IN CASE proved.action = "prove" -> End(r, [proved EXCEPT !.stage = "finished"])
          [] proved.action = "attest" /\ proved.window = "closed" -> End(r, Failed(proved))
          [] OTHER -> /\ rec' = [rec EXCEPT ![r] = proved]
                      /\ work' = [work EXCEPT ![r] = "submit"]
                      /\ UNCHANGED open
  /\ UNCHANGED <<chain, tx, req, order, ans, tools, restarts>>

\* attestWithAuthority and submitAttestation up to the signature.
SubmitAttestation(r) ==
  /\ At(r, "submit")
  /\ InsideWindow(rec[r].snapshot, ledger)
  /\ BuildTx(r)
  /\ work' = [work EXCEPT ![r] = "send"]
  /\ UNCHANGED <<chain, req, order, rec, open, ans, tools, restarts>>

Send(r) ==
  /\ At(r, "send")
  /\ Taken(r)
  /\ \/ work' = [work EXCEPT ![r] = "poll"] /\ UNCHANGED <<rec, open>>
     \/ End(r, Failed(rec[r]))
  /\ UNCHANGED <<chain, req, order, ans, tools, restarts>>

\* Faulty variant: the submission is recorded when the network took the
\* transaction, before it settled.
PollEarly(r) ==
  /\ At(r, "poll")
  /\ rec' = [rec EXCEPT ![r].submission = count + 1]
  /\ work' = [work EXCEPT ![r] = "packages"]
  /\ UNCHANGED <<chain, tx, req, order, open, ans, tools, restarts>>

\* pollTransaction, then recordSubmission; the packages are next.
Poll(r) ==
  /\ At(r, "poll")
  /\ tx[r].status = "success"
  /\ rec' = [rec EXCEPT ![r].submission = tx[r].id]
  /\ work' = [work EXCEPT ![r] = "packages"]
  /\ UNCHANGED <<chain, tx, req, order, open, ans, tools, restarts>>

\* readStoredAttestation and writeCustomerPackages, then the end of the run.
WritePackages(r) ==
  /\ At(r, "packages")
  /\ End(r, [rec[r] EXCEPT !.stage = "finished", !.packages = TRUE])
  /\ UNCHANGED <<chain, tx, req, order, ans, tools, restarts>>

\* Any await of the work fails: a tool, a read, a refusal, an answer that does
\* not come. A prover that fails stops the children too.
WorkFails(r) ==
  /\ work[r] \in WorkStep
  /\ End(r, Failed(rec[r]))
  /\ tools' = IF At(r, "prove") THEN {} ELSE tools
  /\ ans' = [a \in Answer |-> IF At(r, "prove") /\ a \in tools THEN "killed" ELSE ans[a]]
  /\ UNCHANGED <<chain, tx, req, order, restarts>>

-----------------------------------------------------------------------------
(* The answer to a dispute: answerDisputeForm and answerFromRetainedTree *)

\* The open run is checked here, and not again.
PostAnswer(a) ==
  /\ ans[a] = "idle"
  /\ ans' = [ans EXCEPT ![a] = IF open # None THEN "refused" ELSE "reads"]
  /\ UNCHANGED <<chain, tx, req, order, rec, open, work, tools, restarts>>

\* The dispute, the target and the authority are read; the tool starts.
ReadForAnswer(a) ==
  /\ ans[a] = "reads"
  /\ ans' = [ans EXCEPT ![a] = "tool"]
  /\ tools' = tools \cup {a}
  /\ UNCHANGED <<chain, tx, req, order, rec, open, work, restarts>>

AnswerToolEnds(a) ==
  /\ ans[a] = "tool"
  /\ ans' = [ans EXCEPT ![a] = "submit"]
  /\ tools' = tools \ {a}
  /\ UNCHANGED <<chain, tx, req, order, rec, open, work, restarts>>

\* answerDispute
SubmitAnswer(a) ==
  /\ ans[a] = "submit"
  /\ BuildTx(a)
  /\ ans' = [ans EXCEPT ![a] = "send"]
  /\ UNCHANGED <<chain, req, order, rec, open, work, tools, restarts>>

SendAnswer(a) ==
  /\ ans[a] = "send"
  /\ Taken(a)
  /\ ans' = [ans EXCEPT ![a] = "poll"]
  /\ UNCHANGED <<chain, req, order, rec, open, work, tools, restarts>>

AnswerSettles(a) ==
  /\ ans[a] = "poll"
  /\ tx[a].status = "success"
  /\ ans' = [ans EXCEPT ![a] = "answered"]
  /\ UNCHANGED <<chain, tx, req, order, rec, open, work, tools, restarts>>

AnswerFails(a) ==
  /\ ans[a] \in AnswerStep
  /\ ans' = [ans EXCEPT ![a] = "refused"]
  /\ tools' = tools \ {a}
  /\ UNCHANGED <<chain, tx, req, order, rec, open, work, restarts>>

-----------------------------------------------------------------------------

\* The process ends and starts again: nothing of the store survives.
Restart ==
  /\ restarts < MaxRestarts
  /\ restarts' = restarts + 1
  /\ order' = <<>> /\ open' = None /\ tools' = {}
  /\ rec' = [r \in Request |-> NoRecord]
  /\ work' = [r \in Request |-> "none"]
  /\ req' = [r \in Request |-> IF req[r].pc \in {"reads", "checked"} THEN [pc |-> "refused"] ELSE req[r]]
  /\ ans' = [a \in Answer |-> IF ans[a] \in AnswerStep THEN "refused" ELSE ans[a]]
  /\ UNCHANGED <<chain, tx>>

Handle(r) == Post(r) \/ TurnAway(r) \/ Check(r) \/ StartOrJoin(r)
Perform(r) ==
  \/ PreparePrior(r) \/ ProveEnds(r) \/ AfterProof(r) \/ SubmitAttestation(r)
  \/ Send(r) \/ Poll(r) \/ WritePackages(r) \/ WorkFails(r)
Reply(a) ==
  \/ PostAnswer(a) \/ ReadForAnswer(a) \/ AnswerToolEnds(a) \/ SubmitAnswer(a)
  \/ SendAnswer(a) \/ AnswerSettles(a) \/ AnswerFails(a)

Next ==
  \/ Close \/ Restart
  \/ \E x \in Actor : Land(x)
  \/ \E r \in Request : Handle(r) \/ Perform(r)
  \/ \E a \in Answer : Reply(a)

Spec == Init /\ [][Next]_vars

\* The event loop serves every request, and every tool and call of the work
\* ends: a tool exits or fails, a call returns or throws.
Fairness ==
  \A r \in Request : WF_vars(Check(r)) /\ WF_vars(StartOrJoin(r)) /\ WF_vars(Perform(r))

FairSpec == Spec /\ Fairness

-----------------------------------------------------------------------------
(* What a page says *)

\* Produced: what the page says of a run whose proof is recorded.
Produced(r) ==
  IF ~rec[r].proof
  THEN {}
  ELSE {IF rec[r].submission = 0 THEN "proved and submitted nothing" ELSE "accepted"}
       \cup (IF rec[r].packages THEN {"packages"} ELSE {})

\* RunPage, or the page of a run that the store no longer holds.
Page(r) == IF r \in Remembered THEN {rec[r].stage} \cup Produced(r) ELSE {"holds no such run"}

-----------------------------------------------------------------------------
(* Properties *)

\* The state has its types, and the store holds no more runs than its limit.
TypeOK ==
  /\ ledger \in 1..MaxLedger
  /\ seq \in Nat /\ count \in Nat
  /\ tx \in [Actor -> Tx \cup {NoTx}]
  /\ req \in [Request -> Asked \cup Silent]
  /\ order \in Seq(Request) /\ Len(order) <= MaxRemembered
  /\ rec \in [Request -> RunRecord \cup {NoRecord}]
  /\ open \in Request \cup {None}
  /\ work \in [Request -> WorkStep \cup {"none"}]
  /\ ans \in [Answer -> {"idle", "refused", "killed", "answered"} \cup AnswerStep]
  /\ tools \subseteq Actor
  /\ restarts \in 0..MaxRestarts

\* One run works at a time, it is the one that the store calls open, and its
\* page is the only one that says it is open (runs.ts:188-219, 291-295): no
\* interleaving of two posts, no failure and no restart separates the three.
StoreFollowsWork ==
  \A r \in Request :
    /\ work[r] # "none" <=> open = r
    /\ work[r] # "none" <=> "running" \in Page(r)

\* A page says that the registry accepted an attestation only when the registry
\* holds it, under the identifier that the page shows (attestation.ts:110).
AcceptedMeansRecorded ==
  \A r \in Request :
    "accepted" \in Page(r) => tx[r].status = "success" /\ tx[r].id = rec[r].submission

\* A run that finished did what its action says: an attestation is accepted and
\* its packages are written, a proof sent nothing (attestation.ts:89-127).
FinishedMeansDone ==
  \A r \in Request : "finished" \in Page(r) =>
    /\ rec[r].proof
    /\ IF rec[r].action = "attest" THEN {"accepted", "packages"} \subseteq Page(r) ELSE tx[r] = NoTx

\* The store in its types and within its limit, in step with the work.
StoreIsSound == TypeOK /\ StoreFollowsWork

\* Whatever a page claims of a run is so on the chain.
PagesAreTrue == AcceptedMeansRecorded /\ FinishedMeansDone

\* While the store remembers a run, no later step takes away its proof or its
\* submission, and a run that ended stays as it ended (runs.ts:284-289).
ResultsAreKept ==
  [][\A r \in Remembered :
       \/ r \notin Remembered'
       \/ /\ rec[r].proof => rec'[r].proof
          /\ rec[r].submission # 0 => rec'[r].submission = rec[r].submission
          /\ rec[r].stage # "running" => rec'[r] = rec[r]]_vars

\* Every run that starts ends and lets the next one in (runs.ts:291-295).
EveryRunEnds == \A r \in Request : (open = r) ~> (open # r)

\* The page of a failed run that says that it submitted nothing is right: the
\* attestation of the run is not on the registry (views/run.tsx:155). This does
\* not hold.
NothingMeansNothing ==
  \A r \in Request :
    {"failed", "proved and submitted nothing"} \subseteq Page(r) => tx[r].status # "success"

\* A run whose proof exists shows it even when a later step fails
\* (attestation.ts:75-78). This does not hold.
ProofOutlivesFailure ==
  [][\A r \in Request : At(r, "ledger") /\ At(r, "none")' /\ r \in Remembered' => rec'[r].proof]_vars

\* No answer is sent while a run is open (routes.tsx:365-367). This does not hold.
AnswersWaitForRuns ==
  \A a \in Answer : ans[a] \in {"send", "poll"} => open = None

\* The stop at the end of a run reaches the tools of that run only
\* (children.ts:185). This does not hold.
RunsStopOwnTools == \A a \in Answer : ans[a] # "killed"
=============================================================================
