SPECIFICATION LockSpec
CONSTANTS
  FirstOwner = x
  Taker = r
  Late = p
  SecondOwner = s
  Claimant = q
  Rival = t
  Processes = {x, r, p, s, q, t}
  Mortal = {x, s}
  NoProcess = NoProcess
CONSTRAINT Roles
INVARIANTS HoldersOwnTheLock
CHECK_DEADLOCK FALSE
