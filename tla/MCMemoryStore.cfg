SPECIFICATION StoreSpec
SYMMETRY Symmetry
CONSTANTS
  Actor = {loop, timer}
  Fact = {f1, f2}
  MaxFacts = 1
  MaxVersion = 2
INVARIANTS StoreInv BasedOnFile
