SPECIFICATION VpasFairSpec
CONSTANTS
  alice = alice
  bob = bob
  atOne = atOne
  atTwo = atTwo
  atThree = atThree
  r1 = r1
  r2 = r2
  r3 = r3
  none = none
  Users = {alice, bob}
  Accounts = {1, 2}
  Owner <- Owners
  Addresses = {atOne, atTwo, atThree}
  Requests = {r1, r2, r3}
  Calls <- MCCalls
  NoAccount = none
  NoAddress = none
  NoRequest = none
INVARIANTS VpasTypeOK OnePrimary
PROPERTIES AddressKeepsAccount VpaRequestsEnd
