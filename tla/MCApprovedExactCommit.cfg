SPECIFICATION PRSpec
CONSTANTS
  PullRequests = {p1}
  Workers = {w1}
  Reviewers = {r1}
  Conflicting <- MCConflicting
  MaxCommits = 3
  MaxPending = 1
  MaxLanded = 1
INVARIANT ApprovedExactCommit
