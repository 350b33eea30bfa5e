\* Four calls, a configured zero (one permit after the clamp) and two places in
\* the queue: one runs, two wait, one is turned away.
CONSTANTS
  Calls = {c1, c2, c3, c4}
  MaxConcurrent = 0
  MaxQueued = 2
SPECIFICATION PolledSpec
INVARIANT TypeOK
INVARIANT CounterExact
INVARIANT PermitsConserved
INVARIANT QueueBounded
INVARIANT NoIdlePermit
PROPERTY CancelWins
PROPERTY ImplementsSlots
PROPERTY CancelFreesSlot
PROPERTY ParkedIsServed
