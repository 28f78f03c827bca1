CONSTANTS
  Procs = {a, b, c}
  General = General
  NoAP = NoAP
  Controls <- SomeControls
  MaxKeys = 2
SPECIFICATION Spec
SYMMETRY Symmetry
CONSTRAINT FewKeys
INVARIANTS TypeOK HolderIsPartner TwoParties OffersMeet PermissionLasts
PROPERTIES EventsAreKept
