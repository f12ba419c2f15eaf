CONSTANTS
  Actors = {a1, a2}
  Submitters = {s1, s2}
  Workers = {w1, w2}
  MaxTasks = 4
  Nobody = Nobody
SPECIFICATION FairSpec
INVARIANTS PoolInv OneAtATime NoTaskForgotten
PROPERTIES ImplementsFairActorQueues
