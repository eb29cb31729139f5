\* A tick is 10 s: writeTimeout and a ping are one, listenerBlockedTimeout three.
SPECIFICATION FairSpec
CONSTANTS
  loop = loop
  handler = handler
  page = page
  Clients = {page}
  Notifiers = 2
  Periodic = {1}
  Answered = {1}
  mainLoop = loop
  Callers = {loop, handler}
  BufferSize = 1
  WriteTimeout = 1
  Patience = 3
  MaxVersion <- OneStatusTwoLoads
INVARIANTS LatestIsComing
PROPERTIES BackstopIsForSlowPages PagesCatchUp
