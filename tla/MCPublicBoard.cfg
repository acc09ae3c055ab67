CONSTANTS
  FirstBoard <- FewIssues
  DesktopStatus = {"backlog"}
  FormStatus = {"backlog"}
  OtherKeys <- Chatting
  MaxRequests = 4
  MaxChanges = 1
SPECIFICATION BoardSpec
INVARIANTS BusyNamesFlow QuietBoardIsCurrent ColumnsPartition
CHECK_DEADLOCK FALSE
