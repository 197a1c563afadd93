SPECIFICATION SectionsSpec
CONSTANTS
  p1 = p1
  p2 = p2
  p3 = p3
  Section = {"Panels", "DUs", "RUs", "UEs", "Scenario"}
  Id = {1, 2, 3}
  Place = {p1, p2, p3}
  Flat <- MCFlat
  Origin = p1
  NoPlace = NoPlace
  Power = {10, 43}
  MaxSteps = 2
INVARIANTS
  SavedIsShown
  ClientReadsSaved
  ImportKeepsMeaning
  FieldsAreNotShadowed
