CONSTANTS
  s1 = s1  s2 = s2  r1 = r1
  beach = beach  forest = forest  flat = flat
  default = default  custom = custom  alice = alice  eve = eve  Rot = Rot  Nobody = Nobody
  Sender = {s1, s2}
  Receiver = {r1}
  Photo = {beach, forest, flat}
  Config = {default, custom}
  Refused <- MCRefused
  Witness <- MCWitness
  KeyPair = {alice, eve}
  Scenario <- MCScenario
SPECIFICATION Spec
INVARIANTS OpensExactlyWhenEntitled MacSpeaksFirst
PROPERTIES ImplementsExchange
\* Every process runs one command and ends.
CHECK_DEADLOCK FALSE
