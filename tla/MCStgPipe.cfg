CONSTANTS
  Client = {c1, c2}
  ThreadId <- OwnOrReused
  Thread = {t1, t2}
  Sender = {s1}
  Sends <- FirstSendsLong
  OpCount = 1
  NULL = NULL
SPECIFICATION FairSpec
INVARIANT TypeOK
PROPERTIES
  KeepsClient
  OwnResponse
  RequestAnswered
  ShutdownCompletes
  ListensAgain
