SPECIFICATION FairSpec
CONSTANTS
  Dataowners = {d1, d2, d3}
  Revealer = d1
  TableSize = 3
  Modulus = 7
  Noise = {0, 3}
INVARIANTS LooksUpTheRow ShareNeverTakenAsOpened
PROPERTY Termination
