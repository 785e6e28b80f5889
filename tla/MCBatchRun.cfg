CONSTANTS
  p1 = p1
  p2 = p2
  flat = flat
  cfg = cfg
  Photo = {p1, flat}
  Config = {cfg}
  TheConfig = cfg
  Refused <- MCRefused
  Witness <- MCWitness
  Name = {1, 2, 3}
  ImageName = {1, 2}
  Batch = {"b1", "b2"}
  Requests <- MCRequests
  MaxEdits = 1
SPECIFICATION Spec
INVARIANTS ManifestIsComplete LoadedManifestIsWhole
\* The batches end.
CHECK_DEADLOCK FALSE
