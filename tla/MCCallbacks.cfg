SPECIFICATION Spec
CONSTANTS
  Objects = {o1, o2}
  Listeners = {f1, f2}
  MaxHeld = 3
  MaxRegistered = 2
  Null = Null
INVARIANTS
  TypeOK
  OnlyInstanceLives
  RefCountExact
  InstanceIsHeld
PROPERTIES
  KeepsPromise
