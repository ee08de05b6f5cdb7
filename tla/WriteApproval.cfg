\* Two API processes on one database file.
CONSTANTS
  Instances = {i1, i2}
  Requests = {r1, r2}
  Requesters = {alice}
  MaxRecords = 3
SPECIFICATION StoreSpec
INVARIANTS OneShot ExactRequest
PROPERTIES DecisionsAreFinal ImplementsPermits
