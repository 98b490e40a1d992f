SPECIFICATION SendMoneySpec
CONSTANTS
  f1 = f1
  r1 = r1
  r2 = r2
  r3 = r3
  nobody = nobody
  Forms = {f1}
  Requests = {r1, r2, r3}
  Keys = {1, 2, 3, 4, 5, 6}
  Contents = {1, 2}
  NoBody = 0
  Nobody = nobody
  Errors = {"refused"}
SYMMETRY Alike
INVARIANTS SendMoneyTypeOK DraftPaidOnce SuccessIsOwn NeverInConflict
CHECK_DEADLOCK FALSE
