------------------------------ MODULE MCReaders ------------------------------
(***************************************************************************)
(* The two readers of one asset side by side, as a page of the dashboard   *)
(* asks them one after the other: the view of AssetPage and the queries of *)
(* History. They share no state, so one behaviour moves one of the two.    *)
(***************************************************************************)
EXTENDS AssetPage

CONSTANTS
  r1, r2,
  HistoryGenerations, HistoryMaxLedger,
  Limit, Scan, Retention, From, RangeCount, MaxEvents, PerLedger

ASSUME HistoryAssumption ==
  /\ {HistoryGenerations, HistoryMaxLedger, Limit, Scan, Retention, RangeCount, PerLedger}
       \subseteq Nat \ {0}
  /\ {From, MaxEvents} \subseteq Nat

\* The old registry holds one address, the new one may hold a second.
MCReserveSets == <<{{r1}}, {{r1}, {r1, r2}}>>

VARIABLES
  asked,   \* which of the two moves
  events, latest, mode, read, answer, walk

H == INSTANCE History WITH
  Generations <- HistoryGenerations, MaxLedger <- HistoryMaxLedger

historyVars == <<events, latest, mode, read, answer, walk>>

ReadersInit ==
  /\ asked \in {"view", "history"}
  /\ Init
  /\ H!Init
  /\ asked = "view" =>   \* one state of the reader that stands still
       mode = "page" /\ \A g \in 1..HistoryGenerations : events[g] = <<>>

ReadersNext ==
  /\ UNCHANGED asked
  /\ \/ asked = "view" /\ Next /\ UNCHANGED historyVars
     \/ asked = "history" /\ H!Next /\ UNCHANGED vars

ReadersSpec == ReadersInit /\ [][ReadersNext]_<<asked, vars, historyVars>>

\* The collected parts of a history (readAttestationHistory and
\* readStoredAttestationHistory).
CollectedIsSeamless == H!CollectedIsSeamless

\* The claims of the command history and of the history of the page.
ClaimsAreTrue == H!ClaimsAreTrue

\* A query that goes on asks from further than before, inside the window.
RequestsAdvance == H!RequestsAdvance
==============================================================================
