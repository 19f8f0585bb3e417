--------------------------- MODULE MCGitHubCalls ---------------------------
EXTENDS GitHubCalls, TLC

\* Requests, and caches that the client reviewed, are interchangeable.
CallsSymmetry == Permutations(Slot) \cup Permutations(Reviewed)
=============================================================================
