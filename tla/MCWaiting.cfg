SPECIFICATION WaitingSpec
CONSTANTS
  Tasks = {t1, t2, t3} Idle = Idle NULL = NULL Interruptible = TRUE
  Readers = {r1} Writers = {w1, w2} Bytes = {x, y} NONE = NONE
  PAGE_SIZE = 3 MaxCount = 3 Faults = FALSE
INVARIANTS QueueIntact NoLostWakeup SleepersHaveReason
PROPERTIES ImplementsWaitSpec ImplementsFifo CallsReturnAfterClose
