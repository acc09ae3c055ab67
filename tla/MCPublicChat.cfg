CONSTANTS
  DesktopLists <- OnDesktop
  PlatformLists <- OnPlatform
  ChatLists <- ChatAnswers
  Details <- ChatDetails
  Events <- FewEvents
  Answers <- TextOrNone
  PushedChats = {5}
  MaxCalls = 2
  MaxEvents = 2
SPECIFICATION ChatSpec
INVARIANTS PendingIsWorking HistoryAgreesWithLive ListsAreMerged
PROPERTY SettledStays
VIEW ChatView
