SPECIFICATION Spec
CONSTANTS
  Height = 3
  Slots = {2, 3, 6}
  MaxValue = 2
  MaxBlock = 3
  MaxGen = 1
INVARIANTS StoresAgree RootRecomputed ProofsSound WalkNamesHoles
