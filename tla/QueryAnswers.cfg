\* Two points, which may be of one gpu and of one time; a clock of two ticks, so
\* that the default range leaves out a point.
CONSTANTS
  GPUs = {g1, g2}
  Hosts = {h1, h2}
  NoGPU = NoGPU
  NoHost = NoHost
  MaxTime = 2
  Hour = 1
  MaxPoints = 2
  Clients = {1}
SPECIFICATION Spec
INVARIANTS
  TypeOK
  MapsAgree
PROPERTIES
  ListedIsAnswered
  RepeatShowsAll
SYMMETRY GPUHostSymmetry
