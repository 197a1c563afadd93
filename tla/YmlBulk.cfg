SPECIFICATION Spec
CONSTANTS
  units = units
  zone = zone
  campus = campus
  load1 = load1
  load2 = load2
  Kind = {units, zone}
  Zone = zone
  Tables <- MCTables
  Doc = {campus}
  Has <- MCHas
  Rows = Rows
  Nothing = Nothing
  NoFile = NoFile
  Job = {load1, load2}
  MaxApplies = 2
  MaxEdits = 1
SYMMETRY TwoLoads
INVARIANT BulkIsSuppressed
