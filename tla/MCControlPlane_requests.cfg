SPECIFICATION FairSpec
CONSTANTS
  s1 = s1
  s2 = s2
  s3 = s3
  task1 = task1
  Session = {s1, s2, s3}
  Name = {n1}
  Task = {task1}
  Limit = {1, 2}
  Root = Root
  Null = Null
  Empty = Empty
  Scopes <- MCScopes
  Posts <- MCPosts
  MaxLost = 1
CHECK_DEADLOCK FALSE
INVARIANT TypeOK
INVARIANT AgentsWhole
INVARIANT RowsAsPosted
PROPERTY EditEnforced
PROPERTY Served
