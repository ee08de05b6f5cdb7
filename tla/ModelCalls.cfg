SPECIFICATION Spec
CONSTANTS
  r1 = r1  r2 = r2  x1 = x1  bash = bash  remote = remote
  Runs = {r1, r2}
  Auxiliaries = {x1}
  Keys = {1, 2, 3}
  Priority <- FirstTwo
  Resolving = {1, 2, 3}
  Core = {bash}
  Served = {remote}
  MaxRetries = 1
  Cooldown = 2
  Suppression = 2
  Errors <- SomeErrors
  MaxTime = 3
  Amounts <- FewRequestsOrUses
INVARIANTS RepeatsAsTabled OfferedUnlessFailing
PROPERTIES KeyChosen
CHECK_DEADLOCK FALSE
SYMMETRY Alike
