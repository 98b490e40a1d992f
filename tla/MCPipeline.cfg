SPECIFICATION PipelineSpec
CONSTANTS
  p1 = p1
  k1 = k1
  alice = alice
  bob = bob
  atAlice = atAlice
  atBob = atBob
  relay = relay
  worker1 = worker1
  worker2 = worker2
  nobody = nobody
  Users = {alice, bob}
  Accounts = {1, 2}
  Owner <- Owners
  Amounts = {1, 2}
  Procs = {p1}
  Seeders = {}
  Opening <- Openings
  Freezable = {2}
  Payers = {p1}
  Keys = {k1}
  Vpas = {atAlice, atBob}
  VpaAccount <- VpaAccounts
  Calls <- MCCalls
  Relays = {relay}
  Workers = {worker1, worker2}
  NoWorker = nobody
  BatchSize = 2
  MaxFaults = 1
INVARIANT WhatIsToldIsSo
