SPECIFICATION FairSpec
CONSTANTS
  s1 = s1
  w1 = w1
  w2 = w2
  r1 = r1
  Symbols <- MCSymbols
  Watches <- MCWatches
  Requests <- MCRequests
  SymbolOf <- MCSymbolOf
  Nothing = Nothing
  MaxTime = 3
  MaxSlots = 1
  MaxCrashes = 1
INVARIANTS
  TypeOK
  EndingInTime
  JobFollowsTrigger
  TriggerHasEvidence
  AnswersAgree
  SignalAnnounced
  RunAtMostOnce
  NoOrphanJob
  NoticeTruthful
  CreationNeverRefused
PROPERTIES
  ImplementsPromise
  JobsAnswered
  WatchesEnd
