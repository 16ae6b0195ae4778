SPECIFICATION Spec
CONSTANTS
  None = None
  Blank = Blank
  Usernames = {"admin", "other"}
  Admin = "admin"
  UserForms <- MCUserForms
  GroupForms <- MCGroupForms
  ClassForms = {"other"}
  Default <- MCDefault
  Requests = {r1}
  MaxUsers = 1
  MaxGroups = 1
  MaxClasses = 1
  MaxCrashes = 1
INVARIANTS
  TypeOK
  PasswordsReadable
  LoginWorks
  ServesComplete
PROPERTIES
  ServesUnlessTorn
