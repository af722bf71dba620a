CONSTANTS
  client = client
  r1 = r1 r2 = r2 r3 = r3 r4 = r4
  Client = {client}
  N = 4
  ClientOf <- MCClientOf
  Signup = {r1, r2, r3, r4}
  Spelling <- MCSpelling
  NameOf <- MCNameOf
  MailOf <- MCMailOf
  Lower <- MCLower
SPECIFICATION AccountsSpec
INVARIANTS
  TypeOK
  RevokedIffReplaced
  SuccessorsOverlap
  HeldUsable
  RegTypeOK
  UsersDistinct
  LoserHasWinner
PROPERTIES
  Ends
\* Every request ends.
CHECK_DEADLOCK FALSE
