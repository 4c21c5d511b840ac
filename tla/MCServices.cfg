SPECIFICATION ServicesSpec
CONSTANTS
  once = once
  method = method
  sync = sync
  serial = serial
  p1 = p1
  p2 = p2
  Scenarios <- MCScenarios
  Handlers = {once, method, sync, serial}
  Publishers = {p1, p2}
  Once = {once}
  Async = {once, method, serial}
  Transactional = {serial}
  MaxPublish = 2
CONSTRAINT Topics
INVARIANTS
  OnlyStraysAreFatal
  FlagsHonoured
  EveryHandlerCalled
PROPERTIES
  CallsReturn
  PublishReturns
CHECK_DEADLOCK FALSE
