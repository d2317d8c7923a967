SPECIFICATION Spec
CONSTANTS
  PullRequests = {p1}
  Workers = {w1}
  Conflicting = {{2, 4}, {3, 5}}
  MaxCommits = 5
INVARIANT SquashIsMergeResult
