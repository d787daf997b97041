SPECIFICATION Spec
CONSTANTS
  first = first
  second = second
  worker = worker
  other = other
  Units = {1, 2}
  Jobs = {first, second}
  Workers = {worker, other}
  Tabs = {t1}
  NoOne = NoOne
  Adapters = {TRUE}
  Storing = {TRUE, FALSE}
  MaxTrouble = 3
INVARIANT CompletedHoldsEveryBody
SYMMETRY Alike
CHECK_DEADLOCK FALSE
