------------------------------- MODULE MCGoWorkers -------------------------------
EXTENDS GoWorkers
=============================================================================
