CONSTANTS
  prime1 = prime1
  prime2 = prime2
  view = view
  noclip = noclip
  Games = {prime1, prime2}
  INVALID_GAME = INVALID_GAME
  Mods = {view, noclip}
  AlwaysOn = {view}
  Controlled = {noclip}
  Words = {1, 2}
  Layout <- ModTables
  Savers = {host}
  Junk <- OneChange
  NoState = NoState
SPECIFICATION Spec
CONSTRAINT Undisturbed
INVARIANTS TypeOK SavedUnlessDisturbed
PROPERTIES EnabledIsActive DisabledIsOriginal
