SPECIFICATION FairSpec
CHECK_DEADLOCK FALSE
CONSTANTS
  m1 = m1
  m2 = m2
  m3 = m3
  c1 = c1
  c2 = c2
  Messages <- MCMessages
  Conversations <- MCConversations
  ConversationOf <- MCConversationOf
  KindOf <- MCKindOf
  None = None
  MaxConcurrency = 2
  MaxThreads = 4
  Known = 1
INVARIANTS IndInv
PROPERTIES SettledStays Answered
