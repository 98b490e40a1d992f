SPECIFICATION BalancesSpec
CONSTANTS
  t1 = t1
  t2 = t2
  s1 = s1
  r1 = r1
  alice = alice
  bob = bob
  Accounts = {1, 2}
  AccountIds = {1, 2, 3}
  Procs = {t1, t2, s1}
  Transferers = {t1, t2}
  Seeders = {s1}
  Readers = {r1}
  Users = {alice, bob}
  Owner <- TwoOwners
  Opening <- TwoOpening
  Freezable = {1}
  Amounts = {1, 2}
SYMMETRY Transferring
INVARIANT TypeOK
PROPERTIES ImplementsBank NeverOverstated
