CONSTANTS
  NoHeader = NoHeader
  NoBody = NoBody
  Producers = {p1, p2}
  Consumers = {c1, c2}
  Messages = {m1}
  SlotCount = 2
  MaximumPosition = 3
  ProducerAttempts = 2
  ConsumerAttempts = 1
  MaxPolls = 1
SPECIFICATION Spec
SYMMETRY Interchangeable
INVARIANTS RingInv ExclusiveOwnership WholeMessage
PROPERTY ImplementsChannel
