CONSTANTS
  Clients = {t, u}
  Texts <- MCTexts
  Chars <- MCChars
  KeyOf <- MCKeyOf
  Shifted <- MCShifted
  Breaks <- MCBreaks
  Units <- MCUnits
  Modifiers <- MCModifiers
  Shift = "LSHIFT"
  NoKey = "no key"
  NoUnit = "no unit"
  NoClient = none
SPECIFICATION Spec
INVARIANTS
  TypeOK
  TypedAsAsked
PROPERTIES
  LeavesNothingDown
