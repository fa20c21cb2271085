\* Redispatch one after the other after up to one fault.
CONSTANTS
  e1 = e1  e2 = e2  e3 = e3  b1 = b1  b2 = b2
  Exec = {e1, e2, e3}
  Body = {b1}
  NoContent = NoContent
  NoOutbox = NoOutbox
  Replays = {"current"}
  AfterTerminal = {"accept"}
  MaxActive = 1
  MaxFaults = 1
SPECIFICATION FairSpec
PROPERTY EventuallySettled
