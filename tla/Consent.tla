------------------------------ MODULE Consent -------------------------------
(***************************************************************************)
(* The collection of consents for a registration or a change of reserves:  *)
(* prepare, the signatures of the reserve holders on other machines, the   *)
(* reassembly and the submission (sdk/src/registration.ts, consent.ts and  *)
(* the commands of cli.ts that drive them).                                *)
(*                                                                         *)
(* A call is one prepared transaction: its sequence number, time bounds,   *)
(* nonces and footprint are fixed when it is prepared. An entry names the  *)
(* call it was exported from; a signature is its expiration ledger, and 0  *)
(* is an unsigned entry. A submission picks one file for each address.     *)
(***************************************************************************)
EXTENDS Naturals, FiniteSets

CONSTANTS
  Call,       \* prepared calls
  Address,    \* addresses other than the source whose consent a call needs
  Lifetime,   \* SUBMISSION_TIMEOUT_SECONDS, in ledgers
  Validity,   \* CONSENT_VALIDITY_LEDGERS
  MaxLedger,  \* bound: ledgers
  MaxOther,   \* bound: other transactions of the source account
  None

ASSUME ConsentAssumption ==
  /\ {Lifetime, Validity, MaxLedger} \subseteq Nat \ {0}
  /\ Lifetime < Validity
  /\ MaxOther \in Nat
  /\ IsFiniteSet(Call)
  /\ None \notin Call

VARIABLES
  ledger,
  seq,      \* sequence number of the source account
  call,     \* the prepared calls
  entry,    \* the entry of each call and address, in its file or in the envelope
  sub,      \* the submission of each call
  tx        \* the transaction of each call

vars == <<ledger, seq, call, entry, sub, tx>>

Prepared == [seq : Nat, maxTime : Nat, expiration : Nat]
Unprepared == [seq |-> 0, maxTime |-> 0, expiration |-> 0]
Pick == [Address -> Call \cup {None}]
\* "failed" stands for every error that names no outcome on the network.
Report == {"none", "failed", "unsettled", "accepted"}
\* The transaction of a call holds the entries that its submission picked.
Sub == [pc : {"idle", "send", "poll"}, pick : Pick \cup {None}, report : Report]
Tx == [status : {"sent", "success", "failed"}, pick : Pick]
NoTx == [status |-> "none", pick |-> None]
Idle == [pc |-> "idle", pick |-> None, report |-> "none"]

Unsigned == [a \in Address |-> 0]

Init ==
  /\ ledger = 1 /\ seq = 0
  /\ call = [c \in Call |-> Unprepared]
  /\ entry = [c \in Call |-> Unsigned]
  /\ sub = [c \in Call |-> Idle]
  /\ tx = [c \in Call |-> NoTx]

IsPrepared(c) == call[c] # Unprepared

-----------------------------------------------------------------------------
(* The network and other uses of the source account *)

\* (external)
Close ==
  /\ ledger < MaxLedger
  /\ ledger' = ledger + 1
  /\ UNCHANGED <<seq, call, entry, sub, tx>>

\* The source account sends another transaction meanwhile. (external)
OtherTransaction ==
  /\ seq < MaxOther
  /\ seq' = seq + 1
  /\ UNCHANGED <<ledger, call, entry, sub, tx>>

\* What the network takes: the sequence number and the time bounds.
InTime(c) == call[c].seq = seq /\ ledger <= call[c].maxTime

\* The host accepts only the entries of this call, because the footprint holds
\* their nonces, and only before they expire.
Consented(c) == \A a \in Address : entry[c][a] > ledger
Own(c) == [a \in Address |-> c]

\* A sent transaction executes. (external)
Land(c) ==
  /\ tx[c].status = "sent" /\ InTime(c)
  /\ seq' = seq + 1
  /\ tx' = [tx EXCEPT ![c].status = IF tx[c].pick = Own(c) /\ Consented(c) THEN "success" ELSE "failed"]
  /\ UNCHANGED <<ledger, call, entry, sub>>

\* Another tool sends the envelope that went from holder to holder. (external)
LandEnvelope(c) ==
  /\ IsPrepared(c) /\ tx[c] = NoTx /\ InTime(c) /\ Consented(c)
  /\ seq' = seq + 1
  /\ tx' = [tx EXCEPT ![c] = [status |-> "success", pick |-> Own(c)]]
  /\ UNCHANGED <<ledger, call, entry, sub>>

-----------------------------------------------------------------------------
(* prepare, and the signatures *)

\* prepareRegistration and prepareReserveChange. A refused simulation leaves
\* nothing behind.
Prepare(c) ==
  /\ ~IsPrepared(c)
  /\ call' = [call EXCEPT ![c] = [seq |-> seq, maxTime |-> ledger + Lifetime,
                                  expiration |-> ledger + Validity]]
  /\ UNCHANGED <<ledger, seq, entry, sub, tx>>

\* The command of a holder: the exported entry carries no expiration of its
\* own, so the signature counts from the ledger of the signature.
SignEntry(c, a) ==
  /\ IsPrepared(c) /\ entry[c][a] = 0
  /\ entry' = [entry EXCEPT ![c][a] = ledger + Validity]
  /\ UNCHANGED <<ledger, seq, call, sub, tx>>

\* signEntryInEnvelope: one address signs until the ledger that the operator
\* names, the other entries stay.
SignInEnvelope(c, a) ==
  /\ IsPrepared(c)
  /\ entry' = [entry EXCEPT ![c][a] = call[c].expiration]
  /\ UNCHANGED <<ledger, seq, call, sub, tx>>

-----------------------------------------------------------------------------
(* The submission *)

Given(pick) == {a \in Address : pick[a] # None}

\* consentState
SignedEntry(pick, a) == entry[pick[a]][a] # 0
Expired(pick, a) == SignedEntry(pick, a) /\ ledger >= entry[pick[a]][a]

\* Faulty variant: an address without an entry keeps the entry of the
\* simulation.
AssembleAny(pick) == TRUE

\* assembleConsent: an entry for each address, signed or not.
Assemble(pick) == Given(pick) = Address

\* A submission that says something, and waits for the next one.
Says(c, report) == sub' = [sub EXCEPT ![c] = [Idle EXCEPT !.report = report]]

\* submitPreparedCall, up to the signature of the envelope.
SubmitPreparedCall(c, pick) ==
  IF Assemble(pick)
  THEN sub' = [sub EXCEPT ![c] = [pc |-> "send", pick |-> pick, report |-> "none"]]
  ELSE Says(c, "failed")

\* The command reads the files and the ledger; what it refuses is not sent.
Submit(c) ==
  /\ IsPrepared(c)
  /\ sub[c].pc = "idle"
  /\ \E pick \in Pick :
       /\ \A a \in Given(pick) : IsPrepared(pick[a])
       /\ IF \A a \in Given(pick) : SignedEntry(pick, a) /\ ~Expired(pick, a)
          THEN SubmitPreparedCall(c, pick)
          ELSE Says(c, "failed")
  /\ UNCHANGED <<ledger, seq, call, entry, tx>>

\* sendAndSettle: the network takes the transaction, knows it already, or
\* refuses it; or the call fails and nothing is known.
Send(c) ==
  /\ sub[c].pc = "send"
  /\ IF /\ InTime(c)
        /\ tx[c] = NoTx \/ (tx[c].status = "sent" /\ tx[c].pick = sub[c].pick)
     THEN /\ tx' = [tx EXCEPT ![c] = [status |-> "sent", pick |-> sub[c].pick]]
          /\ sub' = [sub EXCEPT ![c].pc = "poll"] \/ Says(c, "failed")
     ELSE Says(c, "failed") /\ UNCHANGED tx
  /\ UNCHANGED <<ledger, seq, call, entry>>

\* Faulty variant: a transaction that the network has not executed yet counts
\* as accepted.
PollTaken(c) ==
  /\ sub[c].pc = "poll"
  /\ Says(c, IF tx[c].status = "failed" THEN "failed" ELSE "accepted")
  /\ UNCHANGED <<ledger, seq, call, entry, tx>>

\* sendAndSettle: the poll ends with the status that the network has then, or
\* with no answer. A transaction that is not executed yet is one that did not
\* succeed.
Poll(c) ==
  /\ sub[c].pc = "poll"
  /\ \/ Says(c, CASE tx[c].status = "success" -> "accepted"
                  [] tx[c].status = "failed" -> "failed"
                  [] tx[c].status = "sent" -> "unsettled")
     \/ Says(c, "failed")
  /\ UNCHANGED <<ledger, seq, call, entry, tx>>

Next ==
  \/ Close \/ OtherTransaction
  \/ \E c \in Call :
       \/ Prepare(c) \/ Submit(c) \/ Send(c) \/ Poll(c)
       \/ Land(c) \/ LandEnvelope(c)
       \/ \E a \in Address : SignEntry(c, a) \/ SignInEnvelope(c, a)

Spec == Init /\ [][Next]_vars

-----------------------------------------------------------------------------
(* Properties *)

\* The state has its types.
TypeOK ==
  /\ ledger \in 1..MaxLedger
  /\ seq \in 0..(MaxOther + Cardinality(Call))
  /\ call \in [Call -> Prepared]
  /\ entry \in [Call -> [Address -> 0..(MaxLedger + Validity)]]
  /\ sub \in [Call -> Sub]
  /\ tx \in [Call -> Tx \cup {NoTx}]

\* What the command sends carries a signed entry of every address: an incomplete
\* collection fails before the network sees it (registration.ts:251,
\* consent.ts:244).
SentIsComplete ==
  \A c \in Call : tx[c] # NoTx =>
    \A a \in Address : tx[c].pick[a] # None /\ SignedEntry(tx[c].pick, a)

\* What leaves the client is well formed and complete.
SubmissionsAreSound == TypeOK /\ SentIsComplete

\* The command says that the network accepted a call only when it executed with
\* the consent of every address to this very call (registration.ts:307-321).
AcceptedIsExecuted ==
  \A c \in Call : sub[c].report = "accepted" =>
    tx[c].status = "success" /\ tx[c].pick = Own(c) /\ \A a \in Address : entry[c][a] # 0

\* A complete collection whose signatures are valid can be submitted: the
\* entries stay valid while the holders sign (registration.ts:168-171). This
\* does not hold.
CollectionStaysUsable ==
  \A c \in Call :
    /\ IsPrepared(c) /\ tx[c] = NoTx /\ call[c].seq = seq
    /\ Consented(c)
    => InTime(c)

\* Every signature of a call expires at the ledger that the prepared call names
\* (registration.ts:47). This does not hold.
SignaturesExpireTogether ==
  \A c \in Call, a \in Address : entry[c][a] # 0 => entry[c][a] = call[c].expiration

\* A transaction that is reported as one that did not succeed does not succeed
\* later (registration.ts:313). This does not hold.
UnsuccessfulStaysUnsuccessful ==
  \A c \in Call : sub[c].report = "unsettled" => tx[c].status # "success"
=============================================================================
