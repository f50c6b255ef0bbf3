SPECIFICATION UserSpec
SYMMETRY AnswersSymmetry
CONSTANTS
  Tasks = {t1}
  LoopsPerTask = 2
  MaxAsks = 2
  MaxPosts = 2
  Fields = {f, g}
  Nothing = Nothing
  Started = {f, g}
  MaxRetry = 2
  MaxQueue = 2
  navigate = navigate
  click = click
  Navigations = {navigate}
  Acts = {click}
  left = left
  right = right
  Tabs = {left, right}
  Domains = {"docs", "shop"}
  Default = {"docs"}
INVARIANTS NoGhostProposal ApprovalSpentOnce EveryChangeWasLetThrough BarShowsCurrentTask ActsWhereAllowed TrustLasts
