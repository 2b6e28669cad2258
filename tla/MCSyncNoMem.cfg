SPECIFICATION Spec
CONSTANTS
  p1 = p1
  c1 = c1
  Fibers = {p1, c1}
  Producers = {p1}
  Consumers = {c1}
  Queues = {"mutex", "cond", "sem"}
  NULL = NULL
  Builds <- NoMemBuilds
  MaxItems = 1
  Value = 0
  MaxValue = 1
INVARIANT CountedIsWoken
