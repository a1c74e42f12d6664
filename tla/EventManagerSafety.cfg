SPECIFICATION Safe
CONSTANTS
  b1 = b1
  b2 = b2
  uid1 = uid1
  Subscribers <- TwoSubscribers
  Nobody = Nobody
  Names <- TwoNames
  Masks <- SomeMasks
  Exclusives <- Literals
  Parents <- OneParent
  MaxCreated = 3
  MaxDepth = 2
CHECK_DEADLOCK FALSE
INVARIANTS
  ExclusiveIsAlone
  OneMaskEach
PROPERTY
  NobodyIsSkipped
