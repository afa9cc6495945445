CONSTANTS
  Apps = {a1, a2}
  Crts = {ucrt, msvcrt}
  NoMsize = {msvcrt}
  Blocks = {b1, b2}
  Sizes = {2, 9}
  Counts = {5}
  Word = 32
  PageBytes = 1
  EnvThreshold = 1
  HelperSizes = {2, 9}
  BuildSizes = {2, 9}
  MaxOps = 2
  MayUnload = TRUE
  None = None
SPECIFICATION Spec
INVARIANT ContentsKept
INVARIANT FreedWhereIssued
SYMMETRY Alike

CHECK_DEADLOCK FALSE
