\* A password is changed and the power fails.
SPECIFICATION Spec
CONSTANTS
  Length = 2
  Digits = {"1", "2"}
  DefaultPassword <- MCDefault
  UserPassword <- MCUser
  SecretPassword <- MCSecret
PROPERTIES PasswordIsKept
