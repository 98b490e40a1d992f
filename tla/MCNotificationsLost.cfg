SPECIFICATION NotificationsSpec
CONSTANTS
  x = x
  y = y
  relay = relay
  standalone = standalone
  worker1 = worker1
  worker2 = worker2
  nobody = nobody
  PaymentIds = {x, y}
  Relays = {relay}
  Workers = {worker1}
  NoWorker = nobody
  Courses <- ShortCourses
  BatchSize = 2
  MaxFaults = 1
INVARIANT NoNotificationLost
