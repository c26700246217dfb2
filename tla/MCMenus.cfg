\* All menus, passwords of two digits out of two.
SPECIFICATION Spec
CONSTANTS
  Length = 2
  Digits = {"1", "2"}
  DefaultPassword <- MCDefault
  UserPassword <- MCUser
  SecretPassword <- MCSecret
INVARIANTS TypeOK OpsNeedPassword ClearNeedsPassword NoTrap
PROPERTIES PasswordTypedTwice
