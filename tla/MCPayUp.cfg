SPECIFICATION PayUpSpec
CONSTANTS
  p1 = p1
  t1 = t1
  t2 = t2
  k1 = k1
  alice = alice
  bob = bob
  atAlice = atAlice
  atBob = atBob
  Users = {alice, bob}
  Accounts = {1, 2}
  AccountIds = {1, 2}
  Owner <- Owners
  Amounts = {1}
  Procs = {p1, t1, t2}
  Seeders = {}
  Opening <- Openings
  Freezable = {2}
  Payers = {p1}
  Transferers = {t1, t2}
  Keys = {k1}
  Vpas = {atAlice, atBob}
  VpaAccount <- VpaAccounts
  Calls <- MCCalls
  PoolSize = 2
INVARIANTS NoOverdraft RunningBalance BalancesExplained
PROPERTIES EveryRequestEnds DebitSettles
