CONSTANTS
  Order = 3
  Keys = {1, 2, 3, 4}
  Appended = {3, 4}
  Vals = {10, 20}
  MaxPage = 9
SPECIFICATION Spec
INVARIANTS TreeLinked NodesFilled LeavesListed PinsReleased ScanVisitsAll RangesReadable
PROPERTIES ImplementsBag CallsKeepToTheirKey
