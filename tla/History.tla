------------------------------ MODULE History -------------------------------
(***************************************************************************)
(* The attestation history of one asset (sdk/src/registry.ts, the command  *)
(* history of cli.ts and the history of the asset page in dashboard/src).  *)
(*                                                                         *)
(* An endpoint serves the events of a moving window of ledgers in pages;   *)
(* each recorded generation is asked on its own. The events of a           *)
(* generation are the sequence of the ledgers that hold them, and an event *)
(* is named by its position. The registry keeps one fixed record for each  *)
(* event, which the persistent history reads by identifier.                *)
(***************************************************************************)
EXTENDS Naturals, Sequences, FiniteSets

\* Every constant is a natural number; only From and MaxEvents can be 0.
CONSTANTS
  Generations,   \* number of recorded generations; the greatest is the newest
  Limit,         \* HISTORY_PAGE_LIMIT
  Scan,          \* ledgers that the endpoint reads for one request
  Retention,     \* ledgers that the endpoint keeps
  From,          \* the ledger that the command names, or 0
  RangeCount,    \* records of one range of the persistent history
  MaxLedger,     \* bound: ledgers
  MaxEvents,     \* bound: attestations of one generation
  PerLedger      \* bound: attestations of one generation in one ledger

VARIABLES
  events,   \* the ledgers of the attestations of each generation
  latest,   \* the latest ledger of the endpoint
  mode,     \* what is asked for: the command, the asset page or the records
  read,     \* the query of each generation
  answer,   \* what the reader is given
  walk      \* a caller that reads the records of the newest generation in ranges

vars == <<events, latest, mode, read, answer, walk>>

Generation == 1..Generations
oldest == IF latest > Retention THEN latest - Retention + 1 ELSE 1

\* A cursor: the ledger where the read stopped, the events up to it, and
\* whether it is the end of its ledger.
Cursor == [ledger : Nat, at : Nat, end : BOOLEAN]
NoCursor == [ledger |-> 0, at |-> 0, end |-> FALSE]

\* AttestationHistory, while it is read
Unread == [pc |-> "idle", start |-> 0, cursor |-> NoCursor, entries |-> <<>>,
           oldest |-> 0, latest |-> 0, reaches |-> FALSE, covers |-> FALSE]
NoWalk == [pc |-> "idle", next |-> 1, end |-> 0, total |-> 0, got |-> <<>>]

Copies(n, x) == [i \in 1..n |-> x]
Least(a, b) == IF a < b THEN a ELSE b

Init ==
  /\ events \in [Generation -> {Copies(n, 1) : n \in 0..Least(PerLedger, MaxEvents)}]
  /\ latest = 1
  /\ mode \in {"command", "page", "records"}
  /\ read = [g \in Generation |-> Unread]
  /\ answer = "none"
  /\ walk = NoWalk

-----------------------------------------------------------------------------
(* The network *)

\* A ledger closes with the attestations that it holds. (external)
Close ==
  /\ latest < MaxLedger
  /\ latest' = latest + 1
  /\ \E new \in [Generation -> 0..PerLedger] :
       /\ \A g \in Generation : Len(events[g]) + new[g] <= MaxEvents
       /\ events' = [g \in Generation |-> events[g] \o Copies(new[g], latest + 1)]
  /\ UNCHANGED <<mode, read, answer, walk>>

UpTo(g, l) == Cardinality({i \in DOMAIN events[g] : events[g][i] <= l})

-----------------------------------------------------------------------------
(* readAttestationHistory *)

\* The command asks one generation after the other, newest first; the page
\* asks all of them at the same time.
MayStart(g) ==
  /\ mode # "records"
  /\ answer = "none"
  /\ read[g].pc = "idle"
  /\ mode = "command" => \A h \in Generation : h > g => read[h].pc = "done"

Start(g) ==
  /\ MayStart(g)
  /\ read' = [read EXCEPT ![g].pc = "page", ![g].start = IF From > oldest THEN From ELSE oldest]
  /\ UNCHANGED <<events, latest, mode, answer, walk>>

\* The position from which the next request reads.
Position(r, g) ==
  IF r.cursor = NoCursor THEN [ledger |-> r.start, at |-> UpTo(g, r.start - 1)]
  ELSE [ledger |-> r.cursor.ledger, at |-> r.cursor.at]

\* The cursor of a page that reads up to a ledger: at the last event when the
\* page is full, else at the end of the ledger. An endpoint reads forward from
\* the position it is asked for, so it may answer the same cursor again but no
\* earlier one; the loop would follow an earlier one. (external)
PageCursor(g, at, e) ==
  IF UpTo(g, e) - at >= Limit
  THEN [ledger |-> events[g][at + Limit], at |-> at + Limit, end |-> FALSE]
  ELSE [ledger |-> e, at |-> UpTo(g, e), end |-> TRUE]

\* Faulty variant: a page without a single event ends the query as covered.
CoveredOrShort(r, cursor) == cursor.ledger >= latest \/ cursor.at = r.cursor.at

\* Whether the read reached the end of the range.
Covered(r, cursor) == cursor.ledger >= latest

ReachesTheLimit(r) == r.start <= oldest

\* Faulty variant: the next request starts again at the last ledger.
AppendedAgain(r, pos, cursor, g) ==
  r.entries \o [i \in 1..(cursor.at - UpTo(g, pos.ledger - 1)) |-> UpTo(g, pos.ledger - 1) + i]

\* The events of a page, after those of the pages before.
Appended(r, pos, cursor, g) ==
  r.entries \o [i \in 1..(cursor.at - pos.at) |-> pos.at + i]

\* Faulty variant: a cursor that does not advance is asked again.
StaysAdvancing(r, cursor) == FALSE

\* The cursor does not advance, so another request repeats this one.
Stays(r, cursor) == cursor = r.cursor

\* The next request is sent.
Ask(g) ==
  /\ read[g].pc = "page"
  /\ read' = [read EXCEPT ![g].pc = "wait"]
  /\ UNCHANGED <<events, latest, mode, answer, walk>>

\* Its answer: the endpoint reads some of the ledgers from the position.
Page(g) ==
  LET r == read[g]
      pos == Position(r, g)
  IN /\ r.pc = "wait"
     /\ pos.ledger \in oldest..latest
     /\ \E e \in pos.ledger..latest, readable \in BOOLEAN :   \* ledgerOfEventCursor
          LET cursor == PageCursor(g, pos.at, e)
              next == [r EXCEPT !.cursor = cursor, !.entries = Appended(r, pos, cursor, g),
                                !.oldest = oldest, !.latest = latest, !.reaches = ReachesTheLimit(r)]
          IN /\ e < pos.ledger + Scan
             /\ read' = [read EXCEPT ![g] =
                  IF readable /\ Covered(r, cursor) THEN [next EXCEPT !.pc = "done", !.covers = TRUE]
                  ELSE IF ~readable \/ Stays(r, cursor) THEN [next EXCEPT !.pc = "done"]
                  ELSE [next EXCEPT !.pc = "page"]]
     /\ UNCHANGED <<events, latest, mode, answer, walk>>

\* The request fails, or the window moved past its position; the whole answer
\* fails with it.
Fail(g) ==
  /\ read[g].pc = "wait" \/ MayStart(g)
  /\ answer = "none"
  /\ read' = [read EXCEPT ![g].pc = "failed"]
  /\ answer' = "failed"
  /\ UNCHANGED <<events, latest, mode, walk>>

\* Every generation answered.
Answer ==
  /\ answer = "none"
  /\ \A g \in Generation : read[g].pc = "done"
  /\ answer' = "shown"
  /\ UNCHANGED <<events, latest, mode, read, walk>>

\* What the answer says of an empty generation: it held nothing in the range.
Silent == {g \in Generation : read[g].entries = <<>> /\ read[g].covers}

\* What the block of a generation says: that an earlier attestation can exist,
\* and how many the range holds or that this is unknown.
Says(g) ==
  (IF read[g].reaches THEN {"limit"} ELSE {}) \cup (IF read[g].covers THEN {"count"} ELSE {"unknown"})

\* The boundary that the first line of the command names.
StatedOldest == read[1].oldest

-----------------------------------------------------------------------------
(* The persistent history of the newest generation, range after range *)

Stored == Len(events[Generations])
RangeEnd(start, total) == Least(start + RangeCount - 1, total)

\* The count is fixed before the first record of the range is read.
ReadTotal ==
  /\ mode = "records"
  /\ walk.pc = "idle"
  /\ walk' = [walk EXCEPT !.pc = "record", !.total = Stored, !.end = RangeEnd(walk.next, Stored)]
  /\ UNCHANGED <<events, latest, mode, read, answer>>

\* readStoredAttestation, and the end of the range: the caller goes on with the
\* next identifier, if there is one.
ReadRecord ==
  /\ walk.pc = "record"
  /\ walk' = IF walk.next <= walk.end
             THEN IF walk.next \in 1..Stored
                  THEN [walk EXCEPT !.got = Append(@, walk.next), !.next = @ + 1]
                  ELSE [walk EXCEPT !.pc = "missing"]
             ELSE [walk EXCEPT !.pc = IF walk.end < walk.total THEN "idle" ELSE "done"]
  /\ UNCHANGED <<events, latest, mode, read, answer>>

Next ==
  \/ Close \/ Answer \/ ReadTotal \/ ReadRecord
  \/ \E g \in Generation : Start(g) \/ Ask(g) \/ Page(g) \/ Fail(g)

Spec == Init /\ [][Next]_vars

-----------------------------------------------------------------------------
(* Properties *)

\* The state has its types.
TypeOK ==
  /\ latest \in 1..MaxLedger
  /\ mode \in {"command", "page", "records"}
  /\ answer \in {"none", "failed", "shown"}
  /\ \A g \in Generation :
       /\ events[g] \in Seq(1..MaxLedger) /\ Len(events[g]) <= MaxEvents
       /\ read[g].pc \in {"idle", "page", "wait", "done", "failed"}
       /\ read[g].cursor \in Cursor
       /\ Len(read[g].entries) <= MaxEvents
  /\ walk.pc \in {"idle", "record", "done", "missing"}

\* A query holds the events from its first ledger to its cursor, each once and
\* in their order, although ledgers close between its pages
\* (readAttestationHistory, registry.ts:775-829).
PagesAreSeamless ==
  \A g \in Generation : read[g].cursor # NoCursor =>
    read[g].entries = [i \in 1..(read[g].cursor.at - UpTo(g, read[g].start - 1)) |->
                         UpTo(g, read[g].start - 1) + i]

\* A registry that is named as one without an attestation has none in the
\* ledgers that its query states (cli.ts:463-467, views/asset.tsx:186).
SilenceIsAbsence ==
  answer = "shown" =>
    \A g \in Silent : \A i \in DOMAIN events[g] :
      events[g][i] \notin read[g].start..read[g].latest

\* A query of the whole window never looks like the complete record when the
\* asset has an attestation before it, also when the window moves during the
\* query (registry.ts:837, reachesTheRetentionLimit).
WindowIsStated ==
  From = 0 =>
    \A g \in Generation : read[g].pc = "done" /\ UpTo(g, read[g].start - 1) > 0 => "limit" \in Says(g)

\* No ledger holds two attestations of the asset in this registry.
OnePerLedger(g) == \A i, j \in DOMAIN events[g] : events[g][i] = events[g][j] => i = j

\* "True when the query read every ledger from the start of the range to the
\* latest ledger" (registry.ts:716-717): such a query names every attestation of
\* the range, while a ledger has at most one.
CoversMeansComplete ==
  \A g \in Generation : "count" \in Says(g) /\ OnePerLedger(g) =>
    Len(read[g].entries) = UpTo(g, read[g].latest) - UpTo(g, read[g].start - 1)

\* The command says that its answer starts at a ledger and shows every
\* attestation that the endpoint can still serve (cli.ts:499-501): it does when
\* the command names no ledger and a ledger has at most one.
AnswerShowsTheWindow ==
  answer = "shown" /\ mode = "command" /\ From = 0 =>
    \A g \in Generation : read[g].covers /\ OnePerLedger(g) =>
      \A i \in DOMAIN events[g] :
        events[g][i] \in StatedOldest..read[g].latest => \E k \in DOMAIN read[g].entries : read[g].entries[k] = i

\* A range that was read to its end is complete, whatever a ledger holds. This
\* does not hold: a full page that ends in the latest ledger ends the query.
CoversIsComplete ==
  \A g \in Generation : "count" \in Says(g) =>
    Len(read[g].entries) = UpTo(g, read[g].latest) - UpTo(g, read[g].start - 1)

\* The ranges of the persistent history join to the record from the first
\* identifier to the last count, and a counted record is never missing, while
\* attestations land between the reads (registry.ts:489-521).
RangesAreSeamless ==
  /\ walk.pc # "missing"
  /\ walk.got = [i \in 1..(walk.next - 1) |-> i]
  /\ walk.pc = "done" => Len(walk.got) = walk.total

\* What the reads have collected has no gap and no double.
CollectedIsSeamless == TypeOK /\ PagesAreSeamless /\ RangesAreSeamless

\* What the answer claims about the ledgers that it covers is so: silence,
\* completeness, and the limit of the window.
ClaimsAreTrue == SilenceIsAbsence /\ WindowIsStated /\ CoversMeansComplete /\ AnswerShowsTheWindow

\* A query that goes on asks from further than before, and from a place inside
\* the window: each request leaves fewer positions to ask from, so over an
\* endpoint that reads forward a query of a window that stands still ends, also
\* when the endpoint answers the same cursor again (registry.ts:820-829).
RequestsAdvance ==
  [][\A g \in Generation :
       read[g].pc = "wait" /\ read'[g].pc = "page" =>
         LET old == read[g].cursor
             new == read'[g].cursor
         IN /\ \/ new.ledger > old.ledger
               \/ new.ledger = old.ledger /\ (new.at > old.at \/ (new.end /\ ~old.end))
            /\ new.ledger < latest /\ new.at <= Len(events[g])]_vars
=============================================================================
