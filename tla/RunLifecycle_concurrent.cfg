\* Two executions of the claim at the same time, one fault anywhere, a Platform
\* that may answer replays and late events in any of the documented ways.
CONSTANTS
  e1 = e1  e2 = e2  e3 = e3  b1 = b1  b2 = b2
  Exec = {e1, e2}
  Body = {b1, b2}
  NoContent = NoContent
  NoOutbox = NoOutbox
  Replays = {"original", "current"}
  AfterTerminal = {"accept", "reject"}
  MaxActive = 2
  MaxFaults = 1
SPECIFICATION Spec
SYMMETRY Symmetric
INVARIANTS ExposedIsDurable OneSealedResult
PROPERTIES NoFailureAfterSeal ImplementsPromise
