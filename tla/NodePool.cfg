CONSTANTS
  BlockCount = 2
  Thread = {t1, t2}
  NoThread = none
  MaxImport = 2
  InitTags = {0, 2}
  MaxNodes = 4
  MaxTags = 3
SPECIFICATION Spec
CONSTRAINT Bounded
SYMMETRY ThreadSymmetry
INVARIANTS TypeOK RolesSound GhostViewsAgree TagsSound
PROPERTY TagsNeverReused
