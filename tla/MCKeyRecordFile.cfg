CONSTANTS
  e1 = e1  e2 = e2  v1 = v1
  beach = beach  forest = forest  flat = flat
  default = default  custom = custom
  Exporter = {e1, e2}
  Verifier = {v1}
  Photo = {beach, forest, flat}
  Refused <- MCRefused
  Witness <- MCWitness
  Config = {default, custom}
  MaxEdits = 1
SPECIFICATION Spec
INVARIANTS SecretsStayPrivate LoadedRecordWasExported VerdictIsExact
           ConcurrentExportsConverge
\* Every process runs one command and ends.
CHECK_DEADLOCK FALSE
