---------------------------- MODULE MCDashboard -----------------------------
EXTENDS Dashboard, TLC
=============================================================================
