---- MODULE MCPullRequest ----
EXTENDS PullRequest, TLC

MCConflicting == {{2, 3}}
Symmetry == Permutations(Workers)
====
