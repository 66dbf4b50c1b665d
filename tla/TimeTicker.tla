----------------------------- MODULE TimeTicker -----------------------------
(***************************************************************************)
(* TimeTicker and Timer of libpublic.  Users add timers, start and stop;   *)
(* each start creates a detached thread in run, which scans m_mapTimer     *)
(* with m_mutex held and runs the callbacks of the timers that are due.    *)
(* A thread that slept through a stop and a start goes on, so that several *)
(* may run.                                                                *)
(*                                                                         *)
(* Time is the number of ticks of the system clock, which only advances.   *)
(* How long a thread sleeps is left open, and m_nTimerCnt, which nothing   *)
(* reads, is left out.  A callback does not call the ticker: it runs with  *)
(* m_mutex held and would block for ever.                                  *)
(***************************************************************************)
EXTENDS Integers, SequencesExt

CONSTANTS
  Users, Timers,
  Once,        \* the timers of the type eTimerTypeOnce
  Runs,        \* bound: threads that start can create
  Durations,   \* values of nDuration
  Afters,      \* values of nAfterTime; 0 stands for setTimer
  MaxTime,     \* bound on the clock
  Nil

\* The members of Timer that run reads.
TimerRecord == [m_nNextTime : Nat, m_nDuration : Nat, m_nSortTime : Nat]

ASSUME TickerAssumption ==
  /\ Durations \subseteq Nat \ {0}
  /\ Afters \subseteq Nat
  /\ MaxTime \in Nat
  /\ Nil \notin Users \cup Runs /\ Nil \notin TimerRecord

VARIABLES
  now,         \* Timer::getMillisecond()
  m_isEnable,
  tickerMutex, \* m_mutex: the run thread that holds it, or Nil; users hold
               \* it within a step only
  m_mapTimer,  \* m_nSortTime -> list of timers; its domain changes
  timer,       \* the Timer objects, or Nil before they are made
  upc, adding, \* per user: where it is, the timer it is adding
  rpc,         \* per run thread: where it is
  at, pos,     \* per run thread: mapIt and listIt
  nCurTime,    \* per run thread
  base, fired  \* history, per timer: its first m_nNextTime, and how many
               \* times its callback was started

userVars == <<upc, adding>>
timerVars == <<timer, base, fired>>
scanVars == <<at, pos, nCurTime>>
tickerVars == <<now, m_isEnable, tickerMutex, m_mapTimer, userVars,
                timerVars, rpc, scanVars>>

TickerInit ==
  /\ now = 0
  /\ m_isEnable = FALSE
  /\ tickerMutex = Nil
  /\ m_mapTimer = <<>>
  /\ timer = [t \in Timers |-> Nil]
  /\ base = [t \in Timers |-> 0]
  /\ fired = [t \in Timers |-> 0]
  /\ upc = [c \in Users |-> "idle"]
  /\ adding = [c \in Users |-> Nil]
  /\ rpc = [r \in Runs |-> "unborn"]
  /\ at = [r \in Runs |-> -1]
  /\ pos = [r \in Runs |-> 0]
  /\ nCurTime = [r \in Runs |-> 0]

Tick ==
  /\ now < MaxTime
  /\ now' = now + 1
  /\ UNCHANGED <<m_isEnable, tickerMutex, m_mapTimer, userVars,
                 timerVars, rpc, scanVars>>

-----------------------------------------------------------------------------
(* The users.                                                              *)

\* Mutant: the first time is one duration away.
FirstTimeLater(after, d) == now + after + d

\* m_nNextTime as setTimer (after = 0) and setTimerAfter compute it.
FirstTime(after, d) == now + after

\* setTimer or setTimerAfter, before the lock of addTimer or addTimerAfter.
MakeTimer(c, t) ==
  /\ upc[c] = "idle"
  /\ timer[t] = Nil
  /\ \E d \in Durations, after \in Afters :
       /\ timer' = [timer EXCEPT ![t] =
            [m_nNextTime |-> FirstTime(after, d), m_nDuration |-> d,
             m_nSortTime |-> now + after + d]]
       /\ base' = [base EXCEPT ![t] = now + after]
  /\ upc' = [upc EXCEPT ![c] = "add"]
  /\ adding' = [adding EXCEPT ![c] = t]
  /\ UNCHANGED <<now, m_isEnable, tickerMutex, m_mapTimer, fired, rpc,
                 scanVars>>

ListAt(k) == IF k \in DOMAIN m_mapTimer THEN m_mapTimer[k] ELSE <<>>

\* The locked part of addTimer and addTimerAfter.
addTimer(c) ==
  LET k == timer[adding[c]].m_nSortTime IN
  /\ upc[c] = "add"
  /\ tickerMutex = Nil
  /\ m_mapTimer' = [j \in DOMAIN m_mapTimer \cup {k} |->
                      IF j = k THEN Append(ListAt(k), adding[c]) ELSE m_mapTimer[j]]
  /\ upc' = [upc EXCEPT ![c] = "idle"]
  /\ adding' = [adding EXCEPT ![c] = Nil]
  /\ UNCHANGED <<now, m_isEnable, tickerMutex, timerVars, rpc, scanVars>>

start(c) ==
  /\ upc[c] = "idle"
  /\ m_isEnable' = TRUE
  /\ \E r \in Runs : rpc[r] = "unborn" /\ rpc' = [rpc EXCEPT ![r] = "test"]
  /\ UNCHANGED <<now, tickerMutex, m_mapTimer, userVars, timerVars,
                 scanVars>>

\* stop, up to its lock.
stop(c) ==
  /\ upc[c] = "idle"
  /\ m_isEnable' = FALSE
  /\ upc' = [upc EXCEPT ![c] = "stop"]
  /\ UNCHANGED <<now, tickerMutex, m_mapTimer, adding, timerVars, rpc,
                 scanVars>>

\* Mutant: stop does not lock m_mutex.
MayClearAnyTime == TRUE

\* The lock of stop.
MayClear == tickerMutex = Nil

\* The locked part of stop.
clear(c) ==
  /\ upc[c] = "stop"
  /\ MayClear
  /\ m_mapTimer' = <<>>
  /\ upc' = [upc EXCEPT ![c] = "idle"]
  /\ UNCHANGED <<now, m_isEnable, tickerMutex, adding, timerVars, rpc, scanVars>>

-----------------------------------------------------------------------------
(* The thread r in run.                                                    *)

Test(r) ==
  /\ rpc[r] = "test"
  /\ rpc' = [rpc EXCEPT ![r] = IF m_isEnable THEN "lock" ELSE "ended"]
  /\ UNCHANGED <<now, m_isEnable, tickerMutex, m_mapTimer, userVars,
                 timerVars, scanVars>>

\* Mutant: run does not lock m_mutex.
MayScanAnyTime == TRUE

\* The lock of run.
MayScan == tickerMutex = Nil

Lock(r) ==
  /\ rpc[r] = "lock"
  /\ MayScan
  /\ tickerMutex' = r
  /\ rpc' = [rpc EXCEPT ![r] = "entry"]
  /\ UNCHANGED <<now, m_isEnable, m_mapTimer, userVars, timerVars,
                 scanVars>>

KeysAfter(r) == {k \in DOMAIN m_mapTimer : k > at[r]}

\* The next entry of m_mapTimer.
NextEntry(r) ==
  /\ rpc[r] = "entry"
  /\ KeysAfter(r) # {}
  /\ at' = [at EXCEPT ![r] = Min(KeysAfter(r))]
  /\ pos' = [pos EXCEPT ![r] = 1]
  /\ nCurTime' = [nCurTime EXCEPT ![r] = now]
  /\ rpc' = [rpc EXCEPT ![r] = "list"]
  /\ UNCHANGED <<now, m_isEnable, tickerMutex, m_mapTimer, userVars,
                 timerVars>>

\* No entry is left: unlock and sleep.
EndScan(r) ==
  /\ rpc[r] = "entry"
  /\ KeysAfter(r) = {}
  /\ tickerMutex' = Nil
  /\ at' = [at EXCEPT ![r] = -1]
  /\ pos' = [pos EXCEPT ![r] = 0]
  /\ nCurTime' = [nCurTime EXCEPT ![r] = 0]
  /\ rpc' = [rpc EXCEPT ![r] = "test"]
  /\ UNCHANGED <<now, m_isEnable, m_mapTimer, userVars, timerVars>>

\* Positions, from listIt on, of the timers of the entry that are due.
Due(r) ==
  LET list == ListAt(at[r]) IN
  {i \in pos[r] .. Len(list) : nCurTime[r] >= timer[list[i]].m_nNextTime}

EndList(r) ==
  /\ rpc[r] = "list"
  /\ Due(r) = {}
  /\ rpc' = [rpc EXCEPT ![r] = "entry"]
  /\ UNCHANGED <<now, m_isEnable, tickerMutex, m_mapTimer, userVars,
                 timerVars, scanVars>>

\* Execute is called for the next timer that is due.
StartCallback(r) ==
  /\ rpc[r] = "list"
  /\ Due(r) # {}
  /\ pos' = [pos EXCEPT ![r] = Min(Due(r))]
  /\ fired' = [fired EXCEPT ![ListAt(at[r])[Min(Due(r))]] = @ + 1]
  /\ rpc' = [rpc EXCEPT ![r] = "exec"]
  /\ UNCHANGED <<now, m_isEnable, tickerMutex, m_mapTimer, userVars,
                 timer, base, at, nCurTime>>

\* Mutant: reset counts from the current time.
ResetFromNow(p, time) == [p EXCEPT !.m_nNextTime = time + p.m_nDuration]

\* Timer::reset.
ResetTimer(p, time) == [p EXCEPT !.m_nNextTime = @ + p.m_nDuration]

\* Execute returns: erase a timer of the type Once, reset another.
EndCallback(r) ==
  LET t == m_mapTimer[at[r]][pos[r]] IN
  /\ rpc[r] = "exec"
  /\ \/ /\ t \in Once
        /\ m_mapTimer' = [m_mapTimer EXCEPT ![at[r]] = RemoveAt(@, pos[r])]
        /\ UNCHANGED <<timer, pos>>
     \/ /\ t \notin Once
        /\ timer' = [timer EXCEPT ![t] = ResetTimer(@, nCurTime[r])]
        /\ pos' = [pos EXCEPT ![r] = @ + 1]
        /\ UNCHANGED m_mapTimer
  /\ rpc' = [rpc EXCEPT ![r] = "list"]
  /\ UNCHANGED <<now, m_isEnable, tickerMutex, userVars, base, fired, at,
                 nCurTime>>

-----------------------------------------------------------------------------
User(c) ==
  \/ \E t \in Timers : MakeTimer(c, t)
  \/ addTimer(c) \/ start(c) \/ stop(c) \/ clear(c)

run(r) ==
  \/ Test(r) \/ Lock(r) \/ NextEntry(r) \/ EndScan(r)
  \/ EndList(r) \/ StartCallback(r) \/ EndCallback(r)

TickerNext == Tick \/ (\E c \in Users : User(c)) \/ (\E r \in Runs : run(r))

TickerSpec == TickerInit /\ [][TickerNext]_tickerVars

(* Threads that can run do run, and callbacks return.  A thread that waits *)
(* for m_mutex need not get it while others use it.                        *)
TickerFairness == \A r \in Runs : WF_tickerVars(run(r))

-----------------------------------------------------------------------------
(* A callback runs only while its timer is in m_mapTimer.  So when stop has*)
(* returned, none of the timers that were there is running or runs again,  *)
(* whatever threads of earlier starts are still about.                     *)
StopSilences ==
  \A r \in Runs :
    rpc[r] = "exec" => at[r] \in DOMAIN m_mapTimer
                       /\ pos[r] \in DOMAIN m_mapTimer[at[r]]

(* The k-th callback of a timer is not started before base + (k - 1) times *)
(* its duration, and a timer of the type Once has one callback, although   *)
(* several threads may scan the timers after a stop and a start.           *)
OnSchedule ==
  \A t \in Timers :
    fired[t] > 0 =>
      /\ now >= base[t] + (fired[t] - 1) * timer[t].m_nDuration
      /\ t \in Once => fired[t] = 1

(* No time is lost: late callbacks do not shift the later ones, for the    *)
(* next time of a timer stays on the grid its first time began.            *)
OnGrid ==
  \A t \in Timers :
    (timer[t] # Nil /\ t \notin Once /\ \A r \in Runs : rpc[r] # "exec") =>
      timer[t].m_nNextTime = base[t] + fired[t] * timer[t].m_nDuration

Listed == UNION {Range(m_mapTimer[k]) : k \in DOMAIN m_mapTimer}

\* The callback number k + 1 of timer t is due.
Awaited(t, k) ==
  /\ t \in Listed
  /\ fired[t] = k
  /\ base[t] + k * timer[t].m_nDuration <= now

(* A callback that is due is started, unless the ticker is stopped first   *)
(* or a stop that overlaps with a start removes the timer.                 *)
DueFires ==
  \A t \in Timers : \A k \in IF t \in Once THEN {0} ELSE 0 .. MaxTime :
    Awaited(t, k) /\ m_isEnable
      ~> (fired[t] > k \/ ~m_isEnable \/ t \notin Listed)

-----------------------------------------------------------------------------
(* The inductive invariant behind StopSilences, OnSchedule and OnGrid; the *)
(* theorems are in TimeTickerProofs.                                       *)

TickerTypeOK ==
  /\ now \in Nat
  /\ m_isEnable \in BOOLEAN
  /\ tickerMutex \in Runs \cup {Nil}
  /\ m_mapTimer \in [DOMAIN m_mapTimer -> Seq(Timers)]
  /\ DOMAIN m_mapTimer \subseteq Nat
  /\ timer \in [Timers -> TimerRecord \cup {Nil}]
  /\ base \in [Timers -> Nat]
  /\ fired \in [Timers -> Nat]
  /\ upc \in [Users -> {"idle", "add", "stop"}]
  /\ adding \in [Users -> Timers \cup {Nil}]
  /\ rpc \in [Runs -> {"unborn", "test", "lock", "entry", "list", "exec", "ended"}]
  /\ at \in [Runs -> Int]
  /\ pos \in [Runs -> Nat]
  /\ nCurTime \in [Runs -> Nat]

\* One thread scans at a time, and it holds m_mutex.
ScanMutexInv ==
  \A r \in Runs : rpc[r] \in {"entry", "list", "exec"} <=> tickerMutex = r

\* What is in m_mapTimer are made timers, each in one place.
PlaceInv ==
  \A k \in DOMAIN m_mapTimer : \A i \in 1 .. Len(m_mapTimer[k]) :
    /\ timer[m_mapTimer[k][i]] # Nil
    /\ \A l \in DOMAIN m_mapTimer : \A j \in 1 .. Len(m_mapTimer[l]) :
         m_mapTimer[k][i] = m_mapTimer[l][j] => k = l /\ i = j

\* A timer that a user is adding was made by it, is not in m_mapTimer yet
\* and has not run.
AddInv ==
  \A c \in Users : upc[c] = "add" =>
    /\ adding[c] \in Timers /\ timer[adding[c]] # Nil /\ fired[adding[c]] = 0
    /\ \A k \in DOMAIN m_mapTimer : \A i \in 1 .. Len(m_mapTimer[k]) :
         m_mapTimer[k][i] # adding[c]
    /\ \A d \in Users : d # c /\ upc[d] = "add" => adding[d] # adding[c]

\* mapIt and listIt of a scan.
ScanInv ==
  \A r \in Runs :
    /\ rpc[r] \in {"list", "exec"} =>
         at[r] \in DOMAIN m_mapTimer /\ pos[r] > 0 /\ nCurTime[r] <= now
    /\ rpc[r] = "exec" => pos[r] <= Len(m_mapTimer[at[r]])

\* The callback of t is running.
Running(t) ==
  \E r \in Runs : rpc[r] = "exec" /\ m_mapTimer[at[r]][pos[r]] = t

\* m_nNextTime and the callbacks so far: reset follows the callback.
GridInv ==
  \A t \in Timers :
    /\ timer[t] = Nil => fired[t] = 0
    /\ Running(t) => fired[t] > 0
    /\ timer[t] # Nil /\ t \notin Once =>
         timer[t].m_nNextTime =
           base[t] + (IF Running(t) THEN fired[t] - 1 ELSE fired[t])
                       * timer[t].m_nDuration
    /\ timer[t] # Nil /\ t \in Once => timer[t].m_nNextTime = base[t]

\* A timer of the type Once is erased after its callback.
OnceInv ==
  \A t \in Once \cap Timers :
    /\ fired[t] <= 1
    /\ \A k \in DOMAIN m_mapTimer : \A i \in 1 .. Len(m_mapTimer[k]) :
         m_mapTimer[k][i] = t /\ ~Running(t) => fired[t] = 0

TickerInv ==
  /\ TickerTypeOK /\ ScanMutexInv /\ PlaceInv /\ AddInv /\ ScanInv /\ GridInv
  /\ OnceInv /\ OnSchedule
=============================================================================
