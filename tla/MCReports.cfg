CONSTANTS
  Analyses = {a1, a2, a3}
  Paths = {p1, p2}
  Results <- MCResults
  Keys <- MCKeys
  Parameter <- MCParameter
  Floor <- MCFloor
  Multipliers = {1, 2}
  Unassessable = Unassessable
  Infinite = Infinite
  NaN = NaN
  Adaptive = Adaptive
  Missing = Missing
  Nobody = Nobody
  Phantom = Phantom
  NoResult = NoResult
SYMMETRY Alike
SPECIFICATION Spec
INVARIANTS TypeOK LoadedWasSaved SaveReplaces GateHolds NoiseIsMeasured SilentMeansComparable
CHECK_DEADLOCK FALSE
