SPECIFICATION LiveServer
CONSTANTS
  Scenes = {"dispatcher", "save", "storage", "scripts"}
  Producers <- OtherThreads
  FrontProducers = {"io_service"}
  Tasks = {t1, t2, t3}
  Jobs <- JobNames
  Folk = {"ann"}
  Nobles = {"god"}
  States = {"normal", "maintain", "closed", "closing", "shutdown"}
  MaxOrders = 2
  Hours = {7, 8}
  Minutes = {0}
  Owners = {o1, o2}
  NoOwner = NoOwner
  Wares = {w1, w2}
  Gold = {w2}
  Binary = FALSE
  MaxDoings = 2
  MaxMishaps = 1
  MadeItems = {x1, x2}
  Envs = 3
  MaxTimers = 2
  MaxSteps = 6
INVARIANTS TypeOK NoLostWakeup ListIsExact OneTaskAtATime ShutdownIsNotLost WorldIsClosed RowsAreTrue ScriptsSound
PROPERTIES ServesTaskQueue StopLeadsToShutdown WorldReopens
\* The process ends (Exit), or hangs in flush(): see Dispatcher_shutdown.cfg.
CHECK_DEADLOCK FALSE
