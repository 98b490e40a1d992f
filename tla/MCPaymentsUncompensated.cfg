SPECIFICATION PaymentsFairSpec
CONSTANTS
  p1 = p1
  p2 = p2
  p3 = p3
  k1 = k1
  k2 = k2
  alice = alice
  bob = bob
  atAlice = atAlice
  atBob = atBob
  atNobody = atNobody
  Users = {alice, bob}
  Accounts = {1, 2}
  Owner <- Owners
  Amounts = {1, 2}
  Procs = {p1, p2}
  Seeders = {}
  Opening <- Openings
  Freezable = {1, 2}
  Payers = {p1, p2}
  Keys = {k1, k2}
  Vpas = {atAlice, atBob}
  VpaAccount <- VpaAccounts
  Calls <- MCCalls
PROPERTY DebitCompensated
