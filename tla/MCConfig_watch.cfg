CONSTANTS
  c1 = c1
  s1 = s1
  s2 = s2
  Callers = {c1}
  Subscribers = {s1, s2}
  Watcher = Watcher
  Nobody = Nobody
  Capacity = 1
  MaxVersion = 3
  MaxTime = 3
SPECIFICATION Spec
INVARIANTS TypeOK KeepsUp
PROPERTIES NeverBackwards CatchesUp
