SPECIFICATION MCSpec
CONSTANTS
  Threads = {h1, h2, h3, h4}
  Values = {v1, v2, v3}
  Clients = {c1, c2}
  Tasks = {t1, t2}
  Fails = {t2}
  WorkerCount = 2
  WorkerMaxTaskCount = 0
  EnableMax = TRUE
  Word = 8
  Users = {u1, u2}
  Timers = {timer1, timer2}
  Once = {timer1}
  Runs = {r1, r2}
  Durations = {1}
  Afters = {0, 1}
  MaxTime = 2
  None = None
  Nil = Nil
INVARIANT NoneStranded
INVARIANT Fifo
INVARIANT CounterExact
INVARIANT StopSilences
INVARIANT OnSchedule
INVARIANT OnGrid
PROPERTY WaitSound
PROPERTY WaitReturns
PROPERTY DueFires
