SPECIFICATION DialogueSpec
CONSTANTS
  Items <- MCItems
  Spoken <- MCSpoken
  Categories <- MCCategories
  DishesOf <- MCDishesOf
  Recommended <- MCRecommended
  Fragment <- MCFragment
  campus = campus
  office = office
  Addresses <- MCAddresses
  MaxUnasked = 1
  MaxQuantity = 2
  MaxLines = 2
  MaxTurns = 5
SYMMETRY AddressSymmetry
INVARIANT DialogueInvariant
PROPERTIES UndoIsExact YesAnswersTheQuestion YesClearsWhatWasAsked
CHECK_DEADLOCK FALSE
