\* One thread, for what must happen in the end.
CONSTANTS
  Clients = {a}
  Positions = {p}
SPECIFICATION FairSpec
PROPERTIES CallsReturn CommitLands
