SPECIFICATION Spec
CONSTANTS
  Seeds <- SomeSeeds
  Texts <- SomeTexts
  MaxCounter = 40
INVARIANTS Restored ClearOnlyAtMidnight
