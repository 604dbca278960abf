SPECIFICATION Spec
CONSTANTS
  Timer = {t1, t2, t3, t4, t5}
  MaxDownloads = 2
SYMMETRY HandleSymmetry
INVARIANTS
  AlwaysDue
  FastLaneIsFast
