-------------------------- MODULE MCAnalysisThreads ---------------------------
EXTENDS AnalysisThreads, TLC

Interchangeable == Permutations(Analyses \ Manual) \cup Permutations(Manual)
=============================================================================
