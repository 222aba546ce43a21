CONSTANTS
  Levels = {"a", "b", "+", "#", "$s", "$share", "a+"}
  Reserved = {"$s", "$share"}
  Mixed = {"a+"}
  MaxLevels = 3
SPECIFICATION Spec
INVARIANTS OverlapIsExact WinnerIsNarrower RankingIsAnOrder InstancesKeepApart
