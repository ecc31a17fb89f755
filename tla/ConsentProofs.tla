---------------------------- MODULE ConsentProofs ----------------------------
(***************************************************************************)
(* What the collection of consents guarantees for any number of prepared   *)
(* calls and addresses, any validity and any other use of the source       *)
(* account: an incomplete collection never leaves the client, and an       *)
(* accepted call executed with consents to that very call.                 *)
(*                                                                         *)
(* The strengthening follows the entries from the signature to the network:*)
(* an entry that is signed stays signed, a submission between its checks   *)
(* and its answer holds a complete pick, and a success holds the pick of   *)
(* its own call.                                                           *)
(***************************************************************************)
EXTENDS Consent, FiniteSetTheorems, TLAPS

\* A prepared call names an expiration that the signatures can use.
CallsExpire ==
  \A c \in Call :
    /\ call[c].expiration <= MaxLedger + Validity
    /\ IsPrepared(c) => call[c].expiration # 0

\* A pick with a signed entry of every address.
Complete(pick) == \A a \in Address : pick[a] \in Call /\ entry[pick[a]][a] # 0

\* A submission that is on its way holds a complete pick.
PicksAreComplete ==
  \A c \in Call : sub[c].pc \in {"send", "poll"} => sub[c].pick \in Pick /\ Complete(sub[c].pick)

\* A submission waits for an answer only about a transaction that exists.
PollsAreSent == \A c \in Call : sub[c].pc = "poll" => tx[c] # NoTx

SentPicksAreComplete == \A c \in Call : tx[c] # NoTx => Complete(tx[c].pick)

\* What executed with success carried the entries of its own call.
SuccessIsOwn == \A c \in Call : tx[c].status = "success" => tx[c].pick = Own(c)

AcceptedSucceeded == \A c \in Call : sub[c].report = "accepted" => tx[c].status = "success"

\* Each executed call used one sequence number, the other transactions of the
\* account the rest.
Landed == {c \in Call : tx[c].status \in {"success", "failed"}}
SeqIsCounted == seq <= MaxOther + Cardinality(Landed)

ConsentInv ==
  /\ TypeOK /\ CallsExpire /\ PicksAreComplete /\ PollsAreSent /\ SentPicksAreComplete
  /\ SuccessIsOwn /\ AcceptedSucceeded /\ SeqIsCounted

-----------------------------------------------------------------------------
(* Shared facts *)

LEMMA Numbers ==
  /\ Lifetime \in Nat /\ Validity \in Nat /\ MaxLedger \in Nat /\ MaxOther \in Nat
  /\ Validity > 0 /\ MaxLedger >= 1 /\ None \notin Call
BY ConsentAssumption

\* The calls are finitely many, and so are the executed ones.
LEMMA LandedFinite ==
  /\ IsFiniteSet(Landed) /\ Cardinality(Landed) \in Nat /\ Cardinality(Call) \in Nat
  /\ Cardinality(Landed) <= Cardinality(Call)
<1>1. Landed \subseteq Call /\ IsFiniteSet(Call)
  BY ConsentAssumption DEF Landed
<1> QED
  BY <1>1, FS_Subset, FS_CardinalityType

\* Entries are never unsigned, so a complete pick stays complete.
LEMMA CompleteStays ==
  ASSUME TypeOK, NEW pick, Complete(pick),
         \A c \in Call, a \in Address : entry[c][a] # 0 => entry'[c][a] # 0
  PROVE  Complete(pick)'
BY DEF Complete

\* A step that changes no entry, no call and no transaction, and leaves every
\* submission as it is or sound as it goes on, keeps the invariant.
LEMMA ClientQuiet ==
  ASSUME ConsentInv, UNCHANGED <<seq, call, entry, tx>>, ledger' \in 1 .. MaxLedger,
         sub' \in [Call -> Sub],
         \A c \in Call :
           \/ sub'[c] = sub[c]
           \/ /\ sub'[c].pc \in {"send", "poll"} =>
                   sub'[c].pick \in Pick /\ Complete(sub'[c].pick)
              /\ sub'[c].pc = "poll" => tx[c] # NoTx
              /\ sub'[c].report = "accepted" => tx[c].status = "success"
  PROVE  ConsentInv'
<1>1. TypeOK'
  BY DEF ConsentInv, TypeOK
<1>2. CallsExpire'
  BY DEF ConsentInv, CallsExpire, IsPrepared
<1>3. \A pick : Complete(pick)' <=> Complete(pick)
  BY DEF Complete
<1>4. PicksAreComplete' /\ PollsAreSent' /\ SentPicksAreComplete' /\ SuccessIsOwn'
      /\ AcceptedSucceeded'
  BY <1>3 DEF ConsentInv, PicksAreComplete, PollsAreSent, SentPicksAreComplete,
     SuccessIsOwn, AcceptedSucceeded
<1>5. SeqIsCounted'
  BY DEF ConsentInv, SeqIsCounted, Landed
<1> QED
  BY <1>1, <1>2, <1>4, <1>5 DEF ConsentInv

\* A step of one transaction. It executes, which uses a number, or it is sent.
LEMMA NetworkMoves ==
  ASSUME ConsentInv, NEW c \in Call, NEW t \in Tx,
         UNCHANGED <<ledger, call, entry, sub>>, tx' = [tx EXCEPT ![c] = t],
         Complete(t.pick), t.status = "success" => t.pick = Own(c),
         tx[c].status \notin {"success", "failed"}, t.status \in {"success", "failed"},
         seq' = seq + 1
  PROVE  ConsentInv'
<1>1. tx'[c] = t /\ \A d \in Call \ {c} : tx'[d] = tx[d]
  BY DEF ConsentInv, TypeOK
<1>2. SeqIsCounted'
  <2>1. Landed' = Landed \cup {c} /\ c \notin Landed
    BY <1>1 DEF Landed
  <2>2. Cardinality(Landed') = Cardinality(Landed) + 1
    BY <2>1, LandedFinite, FS_AddElement
  <2> QED
    BY <2>2, LandedFinite, Numbers DEF ConsentInv, TypeOK, SeqIsCounted
<1>3. seq' \in 0 .. (MaxOther + Cardinality(Call))
  <2>1. Cardinality(Landed') <= Cardinality(Call) /\ Cardinality(Landed') \in Nat
    <3>1. Landed' \subseteq Call /\ IsFiniteSet(Call)
      BY ConsentAssumption DEF Landed
    <3> QED
      BY <3>1, FS_Subset, FS_CardinalityType
  <2>2. seq \in Nat /\ Cardinality(Call) \in Nat
    BY LandedFinite, Numbers DEF ConsentInv, TypeOK
  <2>3. seq + 1 <= MaxOther + Cardinality(Landed')
    BY <1>2 DEF SeqIsCounted
  <2> QED
    BY <2>1, <2>2, <2>3, Numbers
<1>4. TypeOK'
  BY <1>3 DEF ConsentInv, TypeOK
<1>5. CallsExpire'
  BY DEF ConsentInv, CallsExpire, IsPrepared
<1>6. \A pick : Complete(pick)' <=> Complete(pick)
  BY DEF Complete
<1>7. PicksAreComplete' /\ PollsAreSent' /\ SentPicksAreComplete'
  BY <1>1, <1>6 DEF ConsentInv, PicksAreComplete, PollsAreSent, SentPicksAreComplete, Tx, NoTx
<1>8. SuccessIsOwn' /\ AcceptedSucceeded'
  BY <1>1 DEF ConsentInv, SuccessIsOwn, AcceptedSucceeded, Own
<1> QED
  BY <1>2, <1>4, <1>5, <1>7, <1>8 DEF ConsentInv

\* A signature: no entry is ever unsigned.
LEMMA EntrySigned ==
  ASSUME ConsentInv, NEW c \in Call, NEW a \in Address, NEW e \in 1 .. (MaxLedger + Validity),
         entry' = [entry EXCEPT ![c][a] = e], UNCHANGED <<ledger, seq, call, sub, tx>>
  PROVE  ConsentInv'
<1>1. entry' \in [Call -> [Address -> 0..(MaxLedger + Validity)]]
  BY Numbers DEF ConsentInv, TypeOK
<1>2. \A d \in Call, b \in Address : entry[d][b] # 0 => entry'[d][b] # 0
  BY DEF ConsentInv, TypeOK
<1>3. \A pick : Complete(pick) => Complete(pick)'
  BY <1>2 DEF Complete
<1>4. TypeOK'
  BY <1>1 DEF ConsentInv, TypeOK
<1>5. CallsExpire' /\ SeqIsCounted'
  BY DEF ConsentInv, CallsExpire, IsPrepared, SeqIsCounted, Landed
<1>6. PicksAreComplete' /\ PollsAreSent' /\ SentPicksAreComplete'
  BY <1>3 DEF ConsentInv, PicksAreComplete, PollsAreSent, SentPicksAreComplete
<1>7. SuccessIsOwn' /\ AcceptedSucceeded'
  BY DEF ConsentInv, SuccessIsOwn, AcceptedSucceeded
<1> QED
  BY <1>4, <1>5, <1>6, <1>7 DEF ConsentInv

\* What Says leaves behind.
LEMMA SaysIdle ==
  ASSUME TypeOK, NEW c \in Call, NEW report \in Report, Says(c, report)
  PROVE  /\ \A d \in Call \ {c} : sub'[d] = sub[d]
         /\ sub'[c] \in Sub /\ sub'[c].pc = "idle" /\ sub'[c].report = report
         /\ sub' \in [Call -> Sub]
BY DEF TypeOK, Says, Idle, Sub

-----------------------------------------------------------------------------
(* The steps *)

LEMMA StepPrepare ==
  ASSUME ConsentInv, NEW c \in Call, Prepare(c)
  PROVE  ConsentInv'
<1>1. /\ UNCHANGED <<ledger, seq, entry, sub, tx>>
      /\ \A d \in Call \ {c} : call'[d] = call[d]
      /\ call'[c] = [seq |-> seq, maxTime |-> ledger + Lifetime, expiration |-> ledger + Validity]
      /\ call' \in [Call -> Prepared]
  BY Numbers, LandedFinite DEF ConsentInv, TypeOK, Prepare, Prepared
<1>2. TypeOK'
  BY <1>1 DEF ConsentInv, TypeOK
<1>3. CallsExpire'
  BY <1>1, Numbers DEF ConsentInv, TypeOK, CallsExpire, IsPrepared
<1>4. \A pick : Complete(pick)' <=> Complete(pick)
  BY <1>1 DEF Complete
<1>5. PicksAreComplete' /\ PollsAreSent' /\ SentPicksAreComplete' /\ SuccessIsOwn'
      /\ AcceptedSucceeded'
  BY <1>1, <1>4 DEF ConsentInv, PicksAreComplete, PollsAreSent, SentPicksAreComplete,
     SuccessIsOwn, AcceptedSucceeded
<1>6. SeqIsCounted'
  BY <1>1 DEF ConsentInv, SeqIsCounted, Landed
<1> QED
  BY <1>2, <1>3, <1>5, <1>6 DEF ConsentInv

LEMMA StepOther ==
  ASSUME ConsentInv, OtherTransaction
  PROVE  ConsentInv'
<1>1. /\ UNCHANGED <<ledger, call, entry, sub, tx>>
      /\ seq' = seq + 1 /\ seq' <= MaxOther /\ seq \in Nat
  BY Numbers, LandedFinite DEF ConsentInv, TypeOK, OtherTransaction
<1>2. TypeOK' /\ SeqIsCounted'
  <2>1. Landed' = Landed
    BY <1>1 DEF Landed
  <2>2. seq' \in 0 .. (MaxOther + Cardinality(Call)) /\ seq' <= MaxOther + Cardinality(Landed)
    BY <1>1, Numbers, LandedFinite
  <2> QED
    BY <1>1, <2>1, <2>2 DEF ConsentInv, TypeOK, SeqIsCounted
<1>3. CallsExpire'
  BY <1>1 DEF ConsentInv, CallsExpire, IsPrepared
<1>4. \A pick : Complete(pick)' <=> Complete(pick)
  BY <1>1 DEF Complete
<1>5. PicksAreComplete' /\ PollsAreSent' /\ SentPicksAreComplete' /\ SuccessIsOwn'
      /\ AcceptedSucceeded'
  BY <1>1, <1>4 DEF ConsentInv, PicksAreComplete, PollsAreSent, SentPicksAreComplete,
     SuccessIsOwn, AcceptedSucceeded
<1> QED
  BY <1>2, <1>3, <1>5 DEF ConsentInv

\* Both ways to sign.
LEMMA StepSign ==
  ASSUME ConsentInv, NEW c \in Call, NEW a \in Address, SignEntry(c, a) \/ SignInEnvelope(c, a)
  PROVE  ConsentInv'
<1>1. CASE SignEntry(c, a)
  <2>1. ledger + Validity \in 1 .. (MaxLedger + Validity)
    BY Numbers DEF ConsentInv, TypeOK
  <2> QED
    BY <1>1, <2>1, EntrySigned DEF SignEntry
<1>2. CASE SignInEnvelope(c, a)
  <2>1. call[c].expiration \in 1 .. (MaxLedger + Validity)
    BY <1>2, Numbers DEF ConsentInv, TypeOK, CallsExpire, Prepared, SignInEnvelope
  <2> QED
    BY <1>2, <2>1, EntrySigned DEF SignInEnvelope
<1> QED
  BY <1>1, <1>2

\* The command: what it does not refuse is complete.
LEMMA StepSubmit ==
  ASSUME ConsentInv, NEW c \in Call, Submit(c)
  PROVE  ConsentInv'
<1>1. PICK pick \in Pick :
        IF \A a \in Given(pick) : SignedEntry(pick, a) /\ ~Expired(pick, a)
        THEN SubmitPreparedCall(c, pick) ELSE Says(c, "failed")
  BY DEF Submit
<1>2. UNCHANGED <<ledger, seq, call, entry, tx>>
  BY DEF Submit
<1>3. CASE Says(c, "failed")
  BY <1>2, <1>3, SaysIdle, ClientQuiet DEF ConsentInv, TypeOK, Report
<1>4. CASE ~Says(c, "failed")
  <2>1. /\ Given(pick) = Address /\ \A a \in Given(pick) : SignedEntry(pick, a)
        /\ sub' = [sub EXCEPT ![c] = [pc |-> "send", pick |-> pick, report |-> "none"]]
    BY <1>1, <1>4 DEF SubmitPreparedCall, Assemble
  <2>2. Complete(pick)
    BY <2>1 DEF Complete, Given, SignedEntry, Pick
  <2>3. /\ \A d \in Call \ {c} : sub'[d] = sub[d]
        /\ sub'[c] = [pc |-> "send", pick |-> pick, report |-> "none"]
    BY <2>1 DEF ConsentInv, TypeOK
  <2>4. sub'[c] \in Sub /\ sub' \in [Call -> Sub]
    BY <2>1, <2>3 DEF Sub, Report, ConsentInv, TypeOK
  <2> QED
    BY <1>2, <2>2, <2>3, <2>4, ClientQuiet DEF ConsentInv, TypeOK
<1> QED
  BY <1>3, <1>4

\* The answer of the network says success only after one.
LEMMA StepPoll ==
  ASSUME ConsentInv, NEW c \in Call, Poll(c)
  PROVE  ConsentInv'
<1>1. UNCHANGED <<ledger, seq, call, entry, tx>>
  BY DEF Poll
<1>2. PICK report \in Report : Says(c, report) /\ (report = "accepted" => tx[c].status = "success")
  <2>1. sub[c].pc = "poll"
    BY DEF Poll
  <2>2. tx[c].status \in {"sent", "success", "failed"}
    BY <2>1 DEF ConsentInv, TypeOK, PollsAreSent, Tx
  <2> QED
    BY <2>2 DEF Poll, Report
<1> QED
  BY <1>1, <1>2, SaysIdle, ClientQuiet DEF ConsentInv, TypeOK

\* The network takes what the submission holds, and nothing else changes.
LEMMA StepSend ==
  ASSUME ConsentInv, NEW c \in Call, Send(c)
  PROVE  ConsentInv'
<1>1. UNCHANGED <<ledger, seq, call, entry>> /\ sub[c].pc = "send"
  BY DEF Send
<1>2. CASE Says(c, "failed") /\ UNCHANGED tx
  BY <1>1, <1>2, SaysIdle, ClientQuiet DEF ConsentInv, TypeOK, Report
<1>3. CASE ~(Says(c, "failed") /\ UNCHANGED tx)
  <2> DEFINE t == [status |-> "sent", pick |-> sub[c].pick]
  <2>1. /\ tx' = [tx EXCEPT ![c] = t]
        /\ sub' = [sub EXCEPT ![c].pc = "poll"] \/ Says(c, "failed")
        /\ tx[c] = NoTx \/ tx[c].status = "sent"
    BY <1>3 DEF Send
  <2>2. sub[c].pick \in Pick /\ Complete(sub[c].pick)
    BY <1>1 DEF ConsentInv, PicksAreComplete
  <2>3. t \in Tx /\ t.status = "sent" /\ t.pick = sub[c].pick
    BY <2>2 DEF Tx
  <2> HIDE DEF t
  <2>4. tx'[c] = t /\ \A d \in Call \ {c} : tx'[d] = tx[d]
    BY <2>1 DEF ConsentInv, TypeOK
  <2>5. /\ \A d \in Call \ {c} : sub'[d] = sub[d]
        /\ sub'[c] \in Sub /\ sub'[c].pc \in {"idle", "poll"} /\ sub'[c].report # "accepted"
        /\ sub'[c].pc = "poll" => sub'[c].pick = sub[c].pick
        /\ sub' \in [Call -> Sub]
    <3>1. CASE Says(c, "failed")
      <4>1. \A d \in Call \ {c} : sub'[d] = sub[d]
        BY <3>1, SaysIdle DEF ConsentInv, Report
      <4>2. sub'[c] \in Sub /\ sub'[c].pc = "idle" /\ sub'[c].report = "failed"
        BY <3>1, SaysIdle DEF ConsentInv, Report
      <4>3. sub' \in [Call -> Sub]
        BY <3>1, SaysIdle DEF ConsentInv, Report
      <4> QED
        BY <4>1, <4>2, <4>3
    <3>2. CASE sub' = [sub EXCEPT ![c].pc = "poll"]
      <4>1. sub[c].report # "accepted"
        <5>1. sub[c].report = "accepted" => tx[c].status = "success"
          BY DEF ConsentInv, AcceptedSucceeded
        <5> QED
          BY <2>1, <5>1 DEF NoTx
      <4> QED
        BY <3>2, <4>1 DEF ConsentInv, TypeOK, Sub
    <3> QED
      BY <2>1, <3>1, <3>2
  <2>6. TypeOK'
    BY <1>1, <2>1, <2>3, <2>5 DEF ConsentInv, TypeOK
  <2>7. CallsExpire'
    BY <1>1 DEF ConsentInv, CallsExpire, IsPrepared
  <2>8. \A pick : Complete(pick)' <=> Complete(pick)
    BY <1>1 DEF Complete
  <2>9. PicksAreComplete' /\ SentPicksAreComplete'
    BY <2>2, <2>3, <2>4, <2>5, <2>8 DEF ConsentInv, PicksAreComplete, SentPicksAreComplete
  <2>10. PollsAreSent' /\ SuccessIsOwn' /\ AcceptedSucceeded'
    BY <2>3, <2>4, <2>5 DEF ConsentInv, PollsAreSent, SuccessIsOwn, AcceptedSucceeded, NoTx
  <2>11. SeqIsCounted'
    <3>1. Landed' = Landed
      BY <2>1, <2>3, <2>4 DEF Landed, NoTx
    <3> QED
      BY <1>1, <3>1 DEF ConsentInv, SeqIsCounted
  <2> QED
    BY <2>6, <2>7, <2>9, <2>10, <2>11 DEF ConsentInv
<1> QED
  BY <1>2, <1>3

\* A transaction executes with success only as the pick of its own call.
LEMMA StepLand ==
  ASSUME ConsentInv, NEW c \in Call, Land(c)
  PROVE  ConsentInv'
<1> DEFINE t == [tx[c] EXCEPT !.status =
                   IF tx[c].pick = Own(c) /\ Consented(c) THEN "success" ELSE "failed"]
<1>1. /\ tx[c].status = "sent" /\ tx[c] \in Tx /\ tx[c] # NoTx
      /\ UNCHANGED <<ledger, call, entry, sub>> /\ seq' = seq + 1
      /\ tx' = [tx EXCEPT ![c] = t]
  BY DEF Land, ConsentInv, TypeOK, NoTx
<1>2. /\ t \in Tx /\ t.pick = tx[c].pick /\ t.status \in {"success", "failed"}
      /\ t.status = "success" => t.pick = Own(c)
  BY <1>1 DEF Tx
<1>3. Complete(t.pick)
  BY <1>1, <1>2 DEF ConsentInv, SentPicksAreComplete
<1> HIDE DEF t
<1> QED
  BY <1>1, <1>2, <1>3, NetworkMoves

LEMMA StepLandEnvelope ==
  ASSUME ConsentInv, NEW c \in Call, LandEnvelope(c)
  PROVE  ConsentInv'
<1> DEFINE t == [status |-> "success", pick |-> Own(c)]
<1>1. /\ tx[c] = NoTx /\ Consented(c)
      /\ UNCHANGED <<ledger, call, entry, sub>> /\ seq' = seq + 1
      /\ tx' = [tx EXCEPT ![c] = t]
  BY DEF LandEnvelope
<1>2. Own(c) \in Pick
  BY DEF Own, Pick
<1>3. t \in Tx /\ t.pick = Own(c) /\ t.status = "success"
  BY <1>2 DEF Tx
<1>4. Complete(Own(c))
  <2>1. \A a \in Address : entry[c][a] > ledger
    BY <1>1 DEF Consented
  <2>2. ledger \in Nat /\ ledger > 0 /\ \A a \in Address : entry[c][a] \in Nat
    BY Numbers DEF ConsentInv, TypeOK
  <2>3. \A a \in Address : entry[c][a] # 0
    BY <2>1, <2>2
  <2> QED
    BY <2>3 DEF Complete, Own
<1>5. tx[c].status \notin {"success", "failed"}
  BY <1>1 DEF NoTx
<1> HIDE DEF t
<1> QED
  BY <1>1, <1>3, <1>4, <1>5, NetworkMoves

LEMMA ConsentStep ==
  ASSUME ConsentInv, [Next]_vars
  PROVE  ConsentInv'
<1>1. CASE UNCHANGED vars
  BY <1>1, ClientQuiet DEF vars, ConsentInv, TypeOK
<1>2. CASE Close
  <2>1. ledger' \in 1 .. MaxLedger
    BY <1>2, Numbers DEF Close, ConsentInv, TypeOK
  <2> QED
    BY <1>2, <2>1, ClientQuiet DEF Close, ConsentInv, TypeOK
<1>3. CASE OtherTransaction
  BY <1>3, StepOther
<1>4. ASSUME NEW c \in Call,
             \/ Prepare(c) \/ Submit(c) \/ Send(c) \/ Poll(c) \/ Land(c) \/ LandEnvelope(c)
             \/ \E a \in Address : SignEntry(c, a) \/ SignInEnvelope(c, a)
      PROVE  ConsentInv'
  BY <1>4, StepPrepare, StepSubmit, StepSend, StepPoll, StepLand, StepLandEnvelope, StepSign
<1> QED
  BY <1>1, <1>2, <1>3, <1>4 DEF Next

LEMMA ConsentInit ==
  ASSUME Init
  PROVE  ConsentInv
<1>1. TypeOK
  <2>1. seq \in 0 .. (MaxOther + Cardinality(Call)) /\ ledger \in 1 .. MaxLedger
    BY Numbers, LandedFinite DEF Init
  <2>2. call \in [Call -> Prepared] /\ entry \in [Call -> [Address -> 0..(MaxLedger + Validity)]]
    BY Numbers DEF Init, Unprepared, Prepared, Unsigned
  <2>3. Idle \in Sub
    BY DEF Idle, Sub, Report
  <2> QED
    BY <2>1, <2>2, <2>3 DEF Init, TypeOK
<1>2. CallsExpire
  BY Numbers DEF Init, CallsExpire, IsPrepared, Unprepared
<1>3. PicksAreComplete /\ PollsAreSent /\ SentPicksAreComplete /\ SuccessIsOwn /\ AcceptedSucceeded
  BY DEF Init, PicksAreComplete, PollsAreSent, SentPicksAreComplete, SuccessIsOwn,
     AcceptedSucceeded, Idle, NoTx
<1>4. SeqIsCounted
  BY Numbers, LandedFinite DEF Init, SeqIsCounted
<1> QED
  BY <1>1, <1>2, <1>3, <1>4 DEF ConsentInv

LEMMA ConsentInvariant == Spec => []ConsentInv
  BY ConsentInit, ConsentStep, PTL DEF Spec

-----------------------------------------------------------------------------
(* The theorems *)

\* No transaction of the command lacks the signed entry of an address,
\* whichever files the operator hands in and whenever they were signed.
THEOREM SubmissionsStaySound == Spec => []SubmissionsAreSound
<1>1. ConsentInv => SubmissionsAreSound
  BY ConsentAssumption DEF ConsentInv, SubmissionsAreSound, SentPicksAreComplete, SentIsComplete,
     Complete, SignedEntry
<1> QED
  BY <1>1, ConsentInvariant, PTL

\* The command reports success only for a call that executed with entries that
\* were all exported from it and signed.
THEOREM AcceptedStaysExecuted == Spec => []AcceptedIsExecuted
<1>1. ConsentInv => AcceptedIsExecuted
  <2> SUFFICES ASSUME ConsentInv, NEW c \in Call, sub[c].report = "accepted"
               PROVE  /\ tx[c].status = "success" /\ tx[c].pick = Own(c)
                      /\ \A a \in Address : entry[c][a] # 0
    BY DEF AcceptedIsExecuted
  <2>1. tx[c].status = "success" /\ tx[c].pick = Own(c)
    BY DEF ConsentInv, AcceptedSucceeded, SuccessIsOwn
  <2>2. Complete(Own(c))
    BY <2>1 DEF ConsentInv, SentPicksAreComplete, NoTx
  <2> QED
    BY <2>1, <2>2 DEF Complete, Own
<1> QED
  BY <1>1, ConsentInvariant, PTL
===============================================================================
