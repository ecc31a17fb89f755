---------------------------- MODULE MCInclusion -----------------------------
\* A small instance of Inclusion: trees of two and of four leaves, and a third
\* registry on another network.
EXTENDS Inclusion

ThreeDepths == <<1, 2, 1>>
=============================================================================
