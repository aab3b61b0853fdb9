CONSTANTS
  MaxRequests = 5
  Uploads = {3, 4}
  Downloads = {3}
SPECIFICATION FairSpec
INVARIANTS
  TypeOK
  RelayedInOrder
  LossHasCause
  SpoiledHasCause
  AnswersMatch
PROPERTY RequestsSettle
CHECK_DEADLOCK FALSE
