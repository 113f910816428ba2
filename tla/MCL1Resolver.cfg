SPECIFICATION Spec
CONSTANTS
  Labels = {"a", "b", "c"}
  Names <- Family
  Written <- OneName
  Accounts = {"alice", "wrapper"}
  NameWrapper = "wrapper"
  FirstOwner = "alice"
  Targets = {"t1", "t2"}
  NoTarget = "none"
  Queries <- MCQueries
  Values <- MCValues
  WordSize = 3
  AddressSize = 2
  MaxWrites = 2
  MaxChanges = 2
INVARIANT
  TypeOK
PROPERTY
  AnswersRecord
  OnlyAbove
CHECK_DEADLOCK FALSE
