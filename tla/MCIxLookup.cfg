CONSTANTS
  Order = 3
  Keys = {1, 2, 3, 4, 5}
  Appended = {3, 4}
  Vals = {10}
  MaxPage = 10
SPECIFICATION Spec
INVARIANT EveryKeyFound
