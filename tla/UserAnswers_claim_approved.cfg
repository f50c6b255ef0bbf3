SPECIFICATION Spec
CONSTANTS
  Tasks = {t1}
  LoopsPerTask = 1
  MaxAsks = 2
  MaxPosts = 2
  Fields = {f, g}
  Nothing = Nothing
INVARIANT ChangeWasApproved
