SPECIFICATION FairSpec
CONSTANTS
  ecb = ecb
  sarb = sarb
  run = run
  call = call
  host = host
  Slots = {1, 2, 3}
  Name <- TwiceNamed
  Published = {0, 1}
  Callers = {run, call}
  Runners = {run}
  Hosts = {host}
  HostSnaps <- EmptyOrNot
  Setups <- MCSetups
INVARIANTS TypeOK AloneEngineHolds StatusMatchesGraph OkMeansReady
PROPERTIES AloneNeverLosesASource RunConverges RunStops
