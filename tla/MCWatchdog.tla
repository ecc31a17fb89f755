----------------------------- MODULE MCWatchdog -----------------------------
EXTENDS Watchdog, TLC

\* Runs differ only in their names.
RunSymmetry == Permutations(Run)
=============================================================================
