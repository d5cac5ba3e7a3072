SPECIFICATION Spec
CONSTANTS
  Tools = {"format", "lint", "declare", "types", "whole", "unused", "spell", "off", "foreign"}
  ToolOf <- SmallTools
  Types = {"npm"}
  Marker <- Npm
  Endings <- EndingsOf
  SuffixOf <- Suffix
  GuardNames = {"lock"}
  Untracked = {"lock"}
  ConfigRules <- BuiltIn
  FirstTree <- SmallTree
  Volatile <- SmallVolatile
  RuleFiles <- SmallRules
  Dirs <- AllDirs
  Widens = {"target", "unit", "repo"}
  Requests <- SmallRequests
  Limits = {6}
  BaseLength = 2
  MaxPlans = 2
  MaxEdits = 2
INVARIANT EachFileOnce
INVARIANT CoverageHonest
INVARIANT StaysOnTarget
INVARIANT DisjointInPlace
PROPERTY NothingStale
CHECK_DEADLOCK FALSE
