SPECIFICATION Spec
CONSTANTS
  Controls = {c1, c2, c3}
  Datas = {d1, d2}
  Null = Null
INVARIANTS SignalsFollow SessionIsLive
PROPERTIES EndsWithControl WindowFollows
CHECK_DEADLOCK FALSE
