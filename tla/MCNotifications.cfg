SPECIFICATION NotificationsFairSpec
CONSTANTS
  x = x
  y = y
  relay = relay
  standalone = standalone
  worker1 = worker1
  worker2 = worker2
  nobody = nobody
  PaymentIds = {x}
  Relays = {relay, standalone}
  Workers = {worker1, worker2}
  NoWorker = nobody
  Courses <- ShortCourses
  BatchSize = 2
  MaxFaults = 1
INVARIANTS NotificationsTypeOK OnlyFailuresArePassedOver PublishedIsInTopic FirstDeliveriesInOrder
PROPERTY EveryEventArrives
