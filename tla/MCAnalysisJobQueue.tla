-------------------------- MODULE MCAnalysisJobQueue --------------------------
EXTENDS AnalysisJobQueue, TLC

Interchangeable == Permutations(Workers)
=============================================================================
