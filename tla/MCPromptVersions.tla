-------------------------- MODULE MCPromptVersions --------------------------
EXTENDS PromptVersions, TLC
=============================================================================
