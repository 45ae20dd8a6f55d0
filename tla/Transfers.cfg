SPECIFICATION FairSpec
CONSTANTS
  ra = ra
  rb = rb
  rc = rc
  rd = rd
  re = re
  rf = rf
  Reqs = {ra, rb, rc, rd, re, rf}
  NoReq = NoReq
  DescsOf <- DescsInstance
  Loads <- LoadsInstance
  DescMax = 4
  MaxResets = 1
  CountRange = 16
  WildCounts = {0, 5}
CHECK_DEADLOCK FALSE
INVARIANTS
  TypeOK
  SuccessIsReal
  QueueLive
  DescriptorsIntact
  NoFalseFailure
  DeviceInBuffer
  CompletionsLive
PROPERTIES
  Promise
  CallReturns
  AioNotified
