SPECIFICATION Spec
CONSTANTS
  MaxInt64 = 100
  CyclesPer <- UnitCycles
  Sources <- ProgramNumbers
  DefinitionsOf <- ProgramDefinitions
  ArgumentsOf <- EntryArgumentSets
  Environments <- SlotEnvironments
  Firsts = {1}
  Bases = {1}
  Seconds = {9}
  Returns = {1}
INVARIANT
  SelectedArmOnly
