SPECIFICATION RegistrationsFairSpec
CONSTANTS
  r1 = r1
  r2 = r2
  script = script
  again = again
  alice = alice
  bob = bob
  none = none
  Requests = {r1, r2}
  Scripts = {script, again}
  Calls <- MCCalls
  Entries <- MCEntries
  Numbers = {1, 2}
  Existing <- MCExisting
  NoNumber = none
INVARIANTS RegistrationsTypeOK UniqueColumns AnswersTell AuditTellsAccess SeededWhole
PROPERTIES RegistrationsEnd
