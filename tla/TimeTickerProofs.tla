-------------------------- MODULE TimeTickerProofs --------------------------
(***************************************************************************)
(* Theorems about TimeTicker, for any number of users, timers and run      *)
(* threads, any durations and any clock.                                   *)
(***************************************************************************)
EXTENDS TimeTicker, TLAPS, SequenceTheorems, WellFoundedInduction

USE TickerAssumption
USE DEF userVars, timerVars, scanVars

-----------------------------------------------------------------------------
(* The operators the model is built from.                                  *)

\* A set of numbers that is not empty has a smallest member.
LEMMA MinIsMember ==
  ASSUME NEW S, S \subseteq Nat, S # {}
  PROVE  Min(S) \in S
<1>1. PICK x \in S : \A y \in S : ~(<<y, x>> \in OpToRel(<, Nat))
  BY NatLessThanWellFounded, WFMin, Zenon
<1>2. ASSUME NEW y \in S PROVE x <= y
  <2>1. ~(y < x)
    BY <1>1 DEF OpToRel
  <2> QED BY <2>1
<1>3. \E z \in S : \A y \in S : z <= y
  BY <1>2
<1> QED BY <1>3 DEF Min

\* The places of a list from which the timer at i was erased.
LEMMA RemovePlaces ==
  ASSUME NEW s \in Seq(Timers), NEW i \in 1 .. Len(s)
  PROVE  /\ RemoveAt(s, i) \in Seq(Timers)
         /\ Len(RemoveAt(s, i)) = Len(s) - 1
         /\ \A j \in 1 .. Len(s) - 1 :
              RemoveAt(s, i)[j] = IF j < i THEN s[j] ELSE s[j + 1]
<1>1. PICK n \in Nat : n = Len(s)
  OBVIOUS
<1>2. PICK p : p = SubSeq(s, 1, i - 1)
  OBVIOUS
<1>3. PICK q : q = SubSeq(s, i + 1, n)
  OBVIOUS
<1>4. /\ p \in Seq(Timers) /\ Len(p) = i - 1
      /\ \A j \in 1 .. i - 1 : p[j] = s[j]
  BY <1>1, <1>2
<1>5. /\ q \in Seq(Timers) /\ Len(q) = n - i
      /\ \A j \in 1 .. n - i : q[j] = s[j + i]
  <2>1. \A j \in i + 1 .. n : s[j] \in Timers
    BY <1>1
  <2>2. i + 1 \in Int /\ n \in Int
    OBVIOUS
  <2>3. /\ q \in Seq(Timers) /\ Len(q) = IF i + 1 <= n THEN n - (i + 1) + 1 ELSE 0
        /\ \A j \in 1 .. n - (i + 1) + 1 : q[j] = s[(i + 1) + j - 1]
    BY <1>3, <2>1, <2>2, SubSeqProperties
  <2>4. n - (i + 1) + 1 = n - i /\ \A j \in Int : (i + 1) + j - 1 = j + i
    BY <1>1
  <2>5. Len(q) = n - i
    BY <1>1, <2>3, <2>4
  <2>6. ASSUME NEW j \in 1 .. n - i PROVE q[j] = s[j + i]
    BY <2>3, <2>4
  <2> QED BY <2>3, <2>5, <2>6
<1>6. RemoveAt(s, i) = p \o q
  BY <1>1, <1>2, <1>3 DEF RemoveAt
<1>7. /\ p \o q \in Seq(Timers) /\ Len(p \o q) = n - 1
      /\ \A j \in 1 .. n - 1 :
           (p \o q)[j] = IF j <= i - 1 THEN p[j] ELSE q[j - (i - 1)]
  <2>1. /\ p \o q \in Seq(Timers) /\ Len(p \o q) = Len(p) + Len(q)
        /\ \A j \in 1 .. Len(p) + Len(q) :
             (p \o q)[j] = IF j <= Len(p) THEN p[j] ELSE q[j - Len(p)]
    BY <1>4, <1>5, ConcatProperties, ZenonT(30)
  <2>2. Len(p) + Len(q) = n - 1
    BY <1>1, <1>4, <1>5
  <2> QED BY <1>4, <2>1, <2>2
<1>8. ASSUME NEW j \in 1 .. n - 1
      PROVE (p \o q)[j] = IF j < i THEN s[j] ELSE s[j + 1]
  <2>1. CASE j < i
    BY <1>1, <1>4, <1>7, <2>1
  <2>2. CASE j >= i
    <3>1. PICK m \in 1 .. n - i : m = j - (i - 1)
      BY <1>1, <2>2
    <3>2. (p \o q)[j] = q[m]
      BY <1>1, <1>7, <2>2, <3>1
    <3>3. q[m] = s[m + i]
      BY <1>5
    <3>4. m + i = j + 1 /\ ~(j < i)
      BY <1>1, <2>2, <3>1
    <3> QED BY <3>2, <3>3, <3>4
  <2>3. j < i \/ j >= i
    BY <1>1
  <2> QED BY <2>1, <2>2, <2>3
<1> QED BY <1>1, <1>6, <1>7, <1>8

-----------------------------------------------------------------------------
(* What the steps do to m_mapTimer.                                        *)

\* The map seen place by place.
LEMMA MapType ==
  ASSUME TickerTypeOK, NEW k \in DOMAIN m_mapTimer
  PROVE  /\ k \in Nat /\ m_mapTimer[k] \in Seq(Timers) /\ Len(m_mapTimer[k]) \in Nat
         /\ \A i \in 1 .. Len(m_mapTimer[k]) : m_mapTimer[k][i] \in Timers
<1>1. k \in Nat /\ m_mapTimer[k] \in Seq(Timers)
  BY DEF TickerTypeOK
<1> QED BY <1>1

\* addTimer leaves every timer in its place and adds one place.
LEMMA AddFact ==
  ASSUME TickerInv, NEW c \in Users, addTimer(c)
  PROVE  /\ upc[c] = "add" /\ tickerMutex = Nil
         /\ adding[c] \in Timers /\ timer[adding[c]] # Nil /\ fired[adding[c]] = 0
         /\ m_mapTimer' \in [DOMAIN m_mapTimer' -> Seq(Timers)]
         /\ DOMAIN m_mapTimer' \subseteq Nat
         /\ \E k \in Nat, n \in Nat :
              \A l \in DOMAIN m_mapTimer' : \A i \in 1 .. Len(m_mapTimer'[l]) :
                \/ /\ l \in DOMAIN m_mapTimer /\ i \in 1 .. Len(m_mapTimer[l])
                   /\ m_mapTimer'[l][i] = m_mapTimer[l][i]
                \/ l = k /\ i = n /\ m_mapTimer'[l][i] = adding[c]
<1>a. TickerTypeOK
  BY DEF TickerInv
<1>1. upc[c] = "add" /\ tickerMutex = Nil
  BY DEF addTimer
<1>2. adding[c] \in Timers /\ timer[adding[c]] # Nil /\ fired[adding[c]] = 0
  BY <1>1 DEF TickerInv, AddInv
<1>3. PICK k \in Nat : k = timer[adding[c]].m_nSortTime
  BY <1>a, <1>2 DEF TickerTypeOK, TimerRecord
<1>4. PICK s \in Seq(Timers) : s = ListAt(k)
  <2>1. <<>> \in Seq(Timers)
    OBVIOUS
  <2>2. k \in DOMAIN m_mapTimer => m_mapTimer[k] \in Seq(Timers)
    BY <1>a, MapType
  <2>3. ListAt(k) \in Seq(Timers)
    BY <2>1, <2>2 DEF ListAt
  <2> QED BY <2>3
<1>5. PICK e \in Seq(Timers) :
        /\ e = Append(s, adding[c]) /\ Len(e) = Len(s) + 1 /\ e[Len(s) + 1] = adding[c]
        /\ \A i \in 1 .. Len(s) : e[i] = s[i]
  <2>1. /\ Append(s, adding[c]) \in Seq(Timers) /\ Len(Append(s, adding[c])) = Len(s) + 1
        /\ Append(s, adding[c])[Len(s) + 1] = adding[c]
        /\ \A i \in 1 .. Len(s) : Append(s, adding[c])[i] = s[i]
    BY <1>2, AppendProperties
  <2> QED BY <2>1, Zenon
<1>6. m_mapTimer' = [j \in DOMAIN m_mapTimer \cup {k} |->
                       IF j = k THEN e ELSE m_mapTimer[j]]
  BY <1>3, <1>4, <1>5 DEF addTimer
<1>7. /\ DOMAIN m_mapTimer' = DOMAIN m_mapTimer \cup {k}
      /\ m_mapTimer'[k] = e
      /\ \A j \in DOMAIN m_mapTimer : j # k => m_mapTimer'[j] = m_mapTimer[j]
  BY <1>6
<1>8. /\ m_mapTimer' \in [DOMAIN m_mapTimer' -> Seq(Timers)]
      /\ DOMAIN m_mapTimer' \subseteq Nat
  BY <1>a, <1>6, MapType
<1>9. PICK n \in Nat : n = Len(s) + 1
  OBVIOUS
<1>10. ASSUME NEW l \in DOMAIN m_mapTimer', NEW i \in 1 .. Len(m_mapTimer'[l])
       PROVE \/ /\ l \in DOMAIN m_mapTimer /\ i \in 1 .. Len(m_mapTimer[l])
                /\ m_mapTimer'[l][i] = m_mapTimer[l][i]
             \/ l = k /\ i = n /\ m_mapTimer'[l][i] = adding[c]
  <2>1. CASE l # k
    BY <1>7, <2>1
  <2>2. CASE l = k
    <3>1. i \in 1 .. Len(s) + 1 /\ m_mapTimer'[l][i] = e[i]
      BY <1>5, <1>7, <2>2
    <3>2. CASE i = Len(s) + 1
      BY <1>5, <1>9, <2>2, <3>1, <3>2
    <3>3. CASE i \in 1 .. Len(s)
      <4>1. k \in DOMAIN m_mapTimer /\ s = m_mapTimer[k]
        BY <1>4, <3>3 DEF ListAt
      <4> QED BY <1>5, <2>2, <3>1, <3>3, <4>1
    <3>4. i = Len(s) + 1 \/ i \in 1 .. Len(s)
      BY <3>1
    <3> QED BY <3>2, <3>3, <3>4
  <2> QED BY <2>1, <2>2
<1>11. \E j \in Nat, m \in Nat :
         \A l \in DOMAIN m_mapTimer' : \A i \in 1 .. Len(m_mapTimer'[l]) :
           \/ /\ l \in DOMAIN m_mapTimer /\ i \in 1 .. Len(m_mapTimer[l])
              /\ m_mapTimer'[l][i] = m_mapTimer[l][i]
           \/ l = j /\ i = m /\ m_mapTimer'[l][i] = adding[c]
  <2> WITNESS k \in Nat, n \in Nat
  <2> QED BY <1>10
<1> QED BY <1>1, <1>2, <1>8, <1>11

\* The timer whose callback is to be started.
LEMMA StartFact ==
  ASSUME TickerInv, NEW r \in Runs, StartCallback(r)
  PROVE  \E a \in DOMAIN m_mapTimer : \E n \in 1 .. Len(m_mapTimer[a]) :
           \E t \in Timers :
             /\ a = at[r] /\ t = m_mapTimer[a][n] /\ timer[t] \in TimerRecord
             /\ timer[t].m_nNextTime <= now
             /\ pos' = [pos EXCEPT ![r] = n] /\ pos'[r] = n
             /\ fired' = [fired EXCEPT ![t] = fired[t] + 1]
<1>a. TickerTypeOK /\ ScanInv /\ PlaceInv /\ rpc[r] = "list" /\ Due(r) # {}
  BY DEF TickerInv, StartCallback
<1>1. PICK a \in DOMAIN m_mapTimer : a = at[r]
  BY <1>a DEF ScanInv
<1>2. pos[r] \in Nat /\ pos[r] > 0 /\ nCurTime[r] <= now /\ nCurTime[r] \in Nat /\ now \in Nat
  BY <1>a DEF ScanInv, TickerTypeOK
<1>3. ListAt(at[r]) = m_mapTimer[a]
  BY <1>1 DEF ListAt
<1>4. Due(r) = {i \in pos[r] .. Len(m_mapTimer[a]) :
                  nCurTime[r] >= timer[m_mapTimer[a][i]].m_nNextTime}
  BY <1>3 DEF Due
<1>5. Due(r) \subseteq Nat
  BY <1>2, <1>4
<1>6. Min(Due(r)) \in Due(r)
  BY <1>a, <1>5, MinIsMember
<1>7. PICK n \in 1 .. Len(m_mapTimer[a]) :
        n = Min(Due(r)) /\ nCurTime[r] >= timer[m_mapTimer[a][n]].m_nNextTime
  <2>1. PICK i \in Due(r) : i = Min(Due(r))
    BY <1>6
  <2>2. /\ i \in pos[r] .. Len(m_mapTimer[a])
        /\ nCurTime[r] >= timer[m_mapTimer[a][i]].m_nNextTime
    BY <1>4, <2>1
  <2>3. i \in 1 .. Len(m_mapTimer[a])
    <3>1. Len(m_mapTimer[a]) \in Nat
      BY <1>a, MapType
    <3> QED BY <1>2, <2>2, <3>1
  <2> QED BY <2>1, <2>2, <2>3
<1>8. PICK t \in Timers : t = m_mapTimer[a][n]
  BY <1>a, MapType
<1>9. timer[t] \in TimerRecord
  BY <1>a, <1>1, <1>7, <1>8 DEF PlaceInv, TickerTypeOK
<1>10. timer[t].m_nNextTime <= now
  <2>1. timer[t].m_nNextTime \in Nat
    BY <1>9 DEF TimerRecord
  <2> QED BY <1>2, <1>7, <1>8, <2>1
<1>11. pos' = [pos EXCEPT ![r] = n] /\ fired' = [fired EXCEPT ![t] = fired[t] + 1]
  BY <1>3, <1>7, <1>8 DEF StartCallback
<1>12. pos'[r] = n
  BY <1>a, <1>11 DEF TickerTypeOK
<1> QED BY <1>1, <1>7, <1>8, <1>9, <1>10, <1>11, <1>12

\* The timer whose callback returns: erased if it is of the type Once, with
\* the others where they were, or one place before; reset otherwise.
LEMMA EndFact ==
  ASSUME TickerInv, NEW r \in Runs, EndCallback(r)
  PROVE  \E a \in DOMAIN m_mapTimer : \E n \in 1 .. Len(m_mapTimer[a]) :
           \E t \in Timers :
             /\ a = at[r] /\ n = pos[r] /\ t = m_mapTimer[a][n]
             /\ timer[t] \in TimerRecord
             /\ \/ /\ t \in Once /\ UNCHANGED <<timer, pos>>
                   /\ m_mapTimer' \in [DOMAIN m_mapTimer -> Seq(Timers)]
                   /\ \A l \in DOMAIN m_mapTimer : \A i \in 1 .. Len(m_mapTimer'[l]) :
                        \E j \in 1 .. Len(m_mapTimer[l]) :
                          /\ m_mapTimer'[l][i] = m_mapTimer[l][j]
                          /\ j = IF l = a /\ i >= n THEN i + 1 ELSE i
                \/ /\ t \notin Once /\ UNCHANGED m_mapTimer
                   /\ timer' = [timer EXCEPT ![t] = ResetTimer(timer[t], nCurTime[r])]
                   /\ pos' = [pos EXCEPT ![r] = pos[r] + 1]
<1>a. TickerTypeOK /\ ScanInv /\ PlaceInv /\ rpc[r] = "exec"
  BY DEF TickerInv, EndCallback
<1>1. PICK a \in DOMAIN m_mapTimer : a = at[r]
  BY <1>a DEF ScanInv
<1>2. PICK n \in 1 .. Len(m_mapTimer[a]) : n = pos[r]
  BY <1>a, <1>1 DEF ScanInv, TickerTypeOK
<1>3. PICK t \in Timers : t = m_mapTimer[a][n]
  BY <1>a, MapType
<1>4. timer[t] \in TimerRecord
  BY <1>a, <1>1, <1>2, <1>3 DEF PlaceInv, TickerTypeOK
<1>5. CASE t \notin Once
  BY <1>1, <1>2, <1>3, <1>4, <1>5 DEF EndCallback
<1>6. CASE t \in Once
  <2>1. /\ UNCHANGED <<timer, pos>>
        /\ m_mapTimer' = [m_mapTimer EXCEPT ![a] = RemoveAt(m_mapTimer[a], n)]
    BY <1>1, <1>2, <1>3, <1>6 DEF EndCallback
  <2>2. PICK s \in Seq(Timers) : s = m_mapTimer[a]
    BY <1>a, MapType
  <2>3. PICK e \in Seq(Timers) :
          /\ e = RemoveAt(s, n) /\ Len(e) = Len(s) - 1
          /\ \A j \in 1 .. Len(s) - 1 : e[j] = IF j < n THEN s[j] ELSE s[j + 1]
    BY <1>2, <2>2, RemovePlaces
  <2>4. /\ m_mapTimer' \in [DOMAIN m_mapTimer -> Seq(Timers)] /\ m_mapTimer'[a] = e
        /\ \A l \in DOMAIN m_mapTimer : l # a => m_mapTimer'[l] = m_mapTimer[l]
    BY <1>a, <2>1, <2>2, <2>3 DEF TickerTypeOK
  <2>5. ASSUME NEW l \in DOMAIN m_mapTimer, NEW i \in 1 .. Len(m_mapTimer'[l])
        PROVE \E j \in 1 .. Len(m_mapTimer[l]) :
                /\ m_mapTimer'[l][i] = m_mapTimer[l][j]
                /\ j = IF l = a /\ i >= n THEN i + 1 ELSE i
    <3>1. CASE l # a
      BY <2>4, <3>1
    <3>2. CASE l = a
      <4>1. i \in 1 .. Len(s) - 1 /\ m_mapTimer'[l][i] = e[i]
        BY <2>3, <2>4, <3>2
      <4>2. CASE i < n
        <5>1. e[i] = s[i] /\ i \in 1 .. Len(s) /\ ~(i >= n)
          BY <2>3, <4>1, <4>2
        <5> QED BY <2>2, <3>2, <4>1, <5>1
      <4>3. CASE i >= n
        <5>1. e[i] = s[i + 1] /\ i + 1 \in 1 .. Len(s)
          BY <2>3, <4>1, <4>3
        <5> QED BY <2>2, <3>2, <4>1, <4>3, <5>1
      <4>4. i < n \/ i >= n
        BY <4>1
      <4> QED BY <4>2, <4>3, <4>4
    <3> QED BY <3>1, <3>2
  <2> QED BY <1>1, <1>2, <1>3, <1>4, <1>6, <2>1, <2>4, <2>5, SMTT(30)
<1> QED BY <1>5, <1>6

-----------------------------------------------------------------------------
(* Types, the mutex and the scan.                                          *)

LEMMA TypeStep == TickerInv /\ [TickerNext]_tickerVars => TickerTypeOK'
<1> SUFFICES ASSUME TickerInv, [TickerNext]_tickerVars PROVE TickerTypeOK'
  OBVIOUS
<1>a. TickerTypeOK
  BY DEF TickerInv
<1>1. CASE Tick
  BY <1>a, <1>1 DEF TickerTypeOK, Tick
<1>2. ASSUME NEW c \in Users, NEW t \in Timers, MakeTimer(c, t) PROVE TickerTypeOK'
  <2>1. PICK d \in Durations, after \in Afters :
          /\ timer' = [timer EXCEPT ![t] =
               [m_nNextTime |-> FirstTime(after, d), m_nDuration |-> d,
                m_nSortTime |-> now + after + d]]
          /\ base' = [base EXCEPT ![t] = now + after]
    BY <1>2 DEF MakeTimer
  <2>2. d \in Nat /\ after \in Nat /\ now \in Nat
    BY <1>a DEF TickerTypeOK
  <2>3. now + after \in Nat /\ now + after + d \in Nat
    BY <2>2
  <2>4. [m_nNextTime |-> FirstTime(after, d), m_nDuration |-> d,
         m_nSortTime |-> now + after + d] \in TimerRecord
    BY <2>2, <2>3 DEF TimerRecord, FirstTime
  <2>5. timer' \in [Timers -> TimerRecord \cup {Nil}] /\ base' \in [Timers -> Nat]
    BY <1>a, <2>1, <2>3, <2>4 DEF TickerTypeOK
  <2> QED BY <1>a, <1>2, <2>5 DEF TickerTypeOK, MakeTimer
<1>3. ASSUME NEW c \in Users, addTimer(c) PROVE TickerTypeOK'
  <2>1. /\ m_mapTimer' \in [DOMAIN m_mapTimer' -> Seq(Timers)]
        /\ DOMAIN m_mapTimer' \subseteq Nat
    BY <1>3, AddFact
  <2> QED BY <1>a, <1>3, <2>1 DEF TickerTypeOK, addTimer
<1>4. ASSUME NEW c \in Users, start(c) PROVE TickerTypeOK'
  BY <1>a, <1>4 DEF TickerTypeOK, start
<1>5. ASSUME NEW c \in Users, stop(c) PROVE TickerTypeOK'
  BY <1>a, <1>5 DEF TickerTypeOK, stop
<1>6. ASSUME NEW c \in Users, clear(c) PROVE TickerTypeOK'
  <2>1. m_mapTimer' = <<>> /\ DOMAIN m_mapTimer' = {}
    BY <1>6 DEF clear
  <2>2. m_mapTimer' \in [DOMAIN m_mapTimer' -> Seq(Timers)]
    BY <2>1
  <2> QED BY <1>a, <1>6, <2>1, <2>2 DEF TickerTypeOK, clear
<1>7. ASSUME NEW r \in Runs, Test(r) \/ Lock(r) \/ EndList(r) PROVE TickerTypeOK'
  BY <1>a, <1>7 DEF TickerTypeOK, Test, Lock, EndList
<1>8. ASSUME NEW r \in Runs, NextEntry(r) PROVE TickerTypeOK'
  <2>1. KeysAfter(r) \subseteq Nat /\ KeysAfter(r) # {}
    BY <1>a, <1>8 DEF TickerTypeOK, NextEntry, KeysAfter
  <2>2. Min(KeysAfter(r)) \in Int
    BY <2>1, MinIsMember
  <2> QED BY <1>a, <1>8, <2>2 DEF TickerTypeOK, NextEntry
<1>9. ASSUME NEW r \in Runs, EndScan(r) PROVE TickerTypeOK'
  BY <1>a, <1>9 DEF TickerTypeOK, EndScan
<1>10. ASSUME NEW r \in Runs, StartCallback(r) PROVE TickerTypeOK'
  <2>1. \E n \in Nat : pos' = [pos EXCEPT ![r] = n]
    <3>1. PICK a \in DOMAIN m_mapTimer :
            \E n \in 1 .. Len(m_mapTimer[a]) : pos' = [pos EXCEPT ![r] = n]
      BY <1>10, StartFact
    <3>2. Len(m_mapTimer[a]) \in Nat
      BY <1>a, MapType
    <3>3. PICK n \in 1 .. Len(m_mapTimer[a]) : pos' = [pos EXCEPT ![r] = n]
      BY <3>1
    <3>4. n \in Nat
      BY <3>2
    <3> QED BY <3>3, <3>4
  <2>2. \E t \in Timers : fired' = [fired EXCEPT ![t] = fired[t] + 1]
    BY <1>10, StartFact
  <2>3. pos' \in [Runs -> Nat] /\ fired' \in [Timers -> Nat]
    BY <1>a, <2>1, <2>2 DEF TickerTypeOK
  <2> QED BY <1>a, <1>10, <2>3 DEF TickerTypeOK, StartCallback
<1>11. ASSUME NEW r \in Runs, EndCallback(r) PROVE TickerTypeOK'
  <2>1. PICK t \in Timers :
          /\ timer[t] \in TimerRecord
          /\ \/ /\ t \in Once /\ UNCHANGED <<timer, pos>>
                /\ m_mapTimer' \in [DOMAIN m_mapTimer -> Seq(Timers)]
             \/ /\ t \notin Once /\ UNCHANGED m_mapTimer
                /\ timer' = [timer EXCEPT ![t] = ResetTimer(timer[t], nCurTime[r])]
                /\ pos' = [pos EXCEPT ![r] = pos[r] + 1]
    BY <1>11, EndFact
  <2>2. CASE t \in Once
    <3>1. /\ m_mapTimer' \in [DOMAIN m_mapTimer' -> Seq(Timers)]
          /\ DOMAIN m_mapTimer' \subseteq Nat
      BY <1>a, <2>1, <2>2 DEF TickerTypeOK
    <3> QED BY <1>a, <1>11, <2>1, <2>2, <3>1 DEF TickerTypeOK, EndCallback
  <2>3. CASE t \notin Once
    <3>1. ResetTimer(timer[t], nCurTime[r]) \in TimerRecord
      BY <2>1 DEF ResetTimer, TimerRecord
    <3>2. PICK p \in TimerRecord : p = ResetTimer(timer[t], nCurTime[r])
      BY <3>1
    <3>3. timer' = [timer EXCEPT ![t] = p] /\ pos' = [pos EXCEPT ![r] = pos[r] + 1]
      BY <2>1, <2>3, <3>2
    <3>4. timer' \in [Timers -> TimerRecord \cup {Nil}] /\ pos' \in [Runs -> Nat]
      BY <1>a, <3>3 DEF TickerTypeOK
    <3> QED BY <1>a, <1>11, <2>1, <2>3, <3>4 DEF TickerTypeOK, EndCallback
  <2> QED BY <2>2, <2>3
<1>12. CASE UNCHANGED tickerVars
  BY <1>a, <1>12 DEF TickerTypeOK, tickerVars
<1> QED
  BY <1>1, <1>2, <1>3, <1>4, <1>5, <1>6, <1>7, <1>8, <1>9, <1>10, <1>11, <1>12
  DEF TickerNext, User, run

LEMMA MutexStep == TickerInv /\ [TickerNext]_tickerVars => ScanMutexInv'
<1> SUFFICES ASSUME TickerInv, [TickerNext]_tickerVars PROVE ScanMutexInv'
  OBVIOUS
<1>a. ScanMutexInv /\ rpc \in [Runs -> {"unborn", "test", "lock", "entry", "list", "exec", "ended"}]
  BY DEF TickerInv, TickerTypeOK
<1>1. ASSUME NEW c \in Users, start(c) PROVE ScanMutexInv'
  BY <1>a, <1>1 DEF start, ScanMutexInv
<1>2. ASSUME NEW r \in Runs, Test(r) PROVE ScanMutexInv'
  BY <1>a, <1>2 DEF Test, ScanMutexInv
<1>3. ASSUME NEW r \in Runs, Lock(r) PROVE ScanMutexInv'
  BY <1>a, <1>3 DEF Lock, MayScan, ScanMutexInv
<1>4. ASSUME NEW r \in Runs,
             NextEntry(r) \/ EndList(r) \/ StartCallback(r) \/ EndCallback(r)
      PROVE ScanMutexInv'
  <2>1. /\ rpc[r] \in {"entry", "list", "exec"} /\ tickerMutex' = tickerMutex
        /\ \E l \in {"entry", "list", "exec"} : rpc' = [rpc EXCEPT ![r] = l]
    BY <1>4 DEF NextEntry, EndList, StartCallback, EndCallback
  <2> QED BY <1>a, <2>1 DEF ScanMutexInv
<1>5. ASSUME NEW r \in Runs, EndScan(r) PROVE ScanMutexInv'
  <2>1. rpc[r] = "entry" /\ tickerMutex' = Nil /\ rpc' = [rpc EXCEPT ![r] = "test"]
    BY <1>5 DEF EndScan
  <2> QED BY <1>a, <2>1 DEF ScanMutexInv
<1>6. CASE UNCHANGED <<tickerMutex, rpc>>
  BY <1>a, <1>6 DEF ScanMutexInv
<1> QED
  BY <1>1, <1>2, <1>3, <1>4, <1>5, <1>6
  DEF TickerNext, User, run, Tick, MakeTimer, addTimer, stop, clear, tickerVars

LEMMA ScanStep == TickerInv /\ [TickerNext]_tickerVars => ScanInv'
<1> SUFFICES ASSUME TickerInv, [TickerNext]_tickerVars PROVE ScanInv'
  OBVIOUS
<1>a. /\ TickerTypeOK /\ ScanMutexInv /\ ScanInv /\ now \in Nat
      /\ rpc \in [Runs -> {"unborn", "test", "lock", "entry", "list", "exec", "ended"}]
      /\ at \in [Runs -> Int] /\ pos \in [Runs -> Nat] /\ nCurTime \in [Runs -> Nat]
  BY DEF TickerInv, TickerTypeOK
<1> DEFINE S(q) ==
      /\ rpc[q] \in {"list", "exec"} =>
           at[q] \in DOMAIN m_mapTimer /\ pos[q] > 0 /\ nCurTime[q] <= now
      /\ rpc[q] = "exec" => pos[q] <= Len(m_mapTimer[at[q]])
<1>b. \A q \in Runs : S(q)
  BY <1>a DEF ScanInv
<1>c. ASSUME \A q \in Runs : S(q)' PROVE ScanInv'
  BY <1>c DEF ScanInv
<1>d. ASSUME NEW q \in Runs, rpc'[q] \notin {"list", "exec"} PROVE S(q)'
  BY <1>d
<1>e. ASSUME NEW q \in Runs, rpc'[q] = rpc[q], at'[q] = at[q], pos'[q] = pos[q],
             nCurTime'[q] = nCurTime[q], m_mapTimer' = m_mapTimer, now' = now
      PROVE S(q)'
  BY <1>b, <1>e
<1> HIDE DEF S
<1>1. CASE Tick
  <2>1. /\ UNCHANGED <<rpc, at, pos, nCurTime, m_mapTimer>> /\ now' = now + 1
    BY <1>1 DEF Tick
  <2>2. ASSUME NEW q \in Runs PROVE S(q)'
    BY <1>a, <1>b, <2>1 DEF S
  <2> QED BY <1>c, <2>2
<1>2. ASSUME tickerMutex = Nil, UNCHANGED rpc PROVE ScanInv'
  <2>1. \A q \in Runs : rpc'[q] \notin {"list", "exec"}
    BY <1>a, <1>2 DEF ScanMutexInv
  <2> QED BY <1>c, <1>d, <2>1
<1>3. ASSUME NEW c \in Users, start(c) PROVE ScanInv'
  <2>1. PICK r \in Runs : rpc' = [rpc EXCEPT ![r] = "test"]
    BY <1>3 DEF start
  <2>2. UNCHANGED <<now, m_mapTimer, at, pos, nCurTime>>
    BY <1>3 DEF start
  <2>3. ASSUME NEW q \in Runs PROVE S(q)'
    BY <1>a, <1>d, <1>e, <2>1, <2>2
  <2> QED BY <1>c, <2>3
<1>4. ASSUME NEW r \in Runs, tickerMutex = r \/ rpc'[r] \notin {"list", "exec"},
             S(r)', \A q \in Runs : q # r => rpc'[q] = rpc[q],
             UNCHANGED m_mapTimer \/ tickerMutex = r,
             \A q \in Runs : q # r =>
               at'[q] = at[q] /\ pos'[q] = pos[q] /\ nCurTime'[q] = nCurTime[q],
             now' = now
      PROVE ScanInv'
  <2>1. ASSUME NEW q \in Runs, q # r PROVE S(q)'
    <3>1. CASE tickerMutex = r
      <4>1. rpc'[q] \notin {"list", "exec"}
        BY <1>a, <1>4, <2>1, <3>1 DEF ScanMutexInv
      <4> QED BY <1>d, <4>1
    <3>2. CASE tickerMutex # r
      BY <1>e, <1>4, <2>1, <3>2
    <3> QED BY <3>1, <3>2
  <2> QED BY <1>c, <1>4, <2>1
<1>5. ASSUME NEW r \in Runs, Test(r) \/ Lock(r) \/ EndList(r) PROVE ScanInv'
  <2>1. /\ UNCHANGED <<now, m_mapTimer, at, pos, nCurTime>>
        /\ \E l \in {"lock", "ended", "entry"} : rpc' = [rpc EXCEPT ![r] = l]
    BY <1>5 DEF Test, Lock, EndList
  <2>2. /\ rpc'[r] \notin {"list", "exec"}
        /\ \A q \in Runs : q # r => rpc'[q] = rpc[q]
    BY <1>a, <2>1
  <2> QED BY <1>d, <1>4, <2>1, <2>2
<1>6. ASSUME NEW r \in Runs, NextEntry(r) PROVE ScanInv'
  <2>1. /\ rpc[r] = "entry" /\ UNCHANGED <<now, m_mapTimer>>
        /\ at' = [at EXCEPT ![r] = Min(KeysAfter(r))]
        /\ pos' = [pos EXCEPT ![r] = 1] /\ nCurTime' = [nCurTime EXCEPT ![r] = now]
        /\ rpc' = [rpc EXCEPT ![r] = "list"]
    BY <1>6 DEF NextEntry
  <2>2. KeysAfter(r) \subseteq Nat /\ KeysAfter(r) # {}
    BY <1>a, <1>6 DEF TickerTypeOK, NextEntry, KeysAfter
  <2>3. Min(KeysAfter(r)) \in DOMAIN m_mapTimer
    BY <2>2, MinIsMember DEF KeysAfter
  <2>4. S(r)'
    BY <1>a, <2>1, <2>3 DEF S
  <2>5. tickerMutex = r
    BY <1>a, <2>1 DEF ScanMutexInv
  <2> QED BY <1>a, <1>4, <2>1, <2>4, <2>5
<1>7. ASSUME NEW r \in Runs, EndScan(r) PROVE ScanInv'
  <2>1. /\ UNCHANGED <<now, m_mapTimer>> /\ rpc[r] = "entry"
        /\ at' = [at EXCEPT ![r] = -1] /\ pos' = [pos EXCEPT ![r] = 0]
        /\ nCurTime' = [nCurTime EXCEPT ![r] = 0]
        /\ rpc' = [rpc EXCEPT ![r] = "test"]
    BY <1>7 DEF EndScan
  <2>2. tickerMutex = r /\ rpc'[r] \notin {"list", "exec"}
    BY <1>a, <2>1 DEF ScanMutexInv
  <2> QED BY <1>a, <1>d, <1>4, <2>1, <2>2
<1>8. ASSUME NEW r \in Runs, StartCallback(r) PROVE ScanInv'
  <2>1. /\ rpc[r] = "list" /\ UNCHANGED <<now, m_mapTimer, at, nCurTime>>
        /\ rpc' = [rpc EXCEPT ![r] = "exec"]
    BY <1>8 DEF StartCallback
  <2>2. PICK a \in DOMAIN m_mapTimer : a = at[r] /\ \E n \in 1 .. Len(m_mapTimer[a]) :
          pos' = [pos EXCEPT ![r] = n]
    BY <1>8, StartFact
  <2>3. PICK n \in 1 .. Len(m_mapTimer[a]) : pos' = [pos EXCEPT ![r] = n]
    BY <2>2
  <2>4. Len(m_mapTimer[a]) \in Nat
    BY <1>a, MapType
  <2>5. S(r)'
    BY <1>a, <1>b, <2>1, <2>2, <2>3, <2>4 DEF S
  <2>6. tickerMutex = r
    BY <1>a, <2>1 DEF ScanMutexInv
  <2> QED BY <1>a, <1>4, <2>1, <2>3, <2>5, <2>6
<1>9. ASSUME NEW r \in Runs, EndCallback(r) PROVE ScanInv'
  <2>1. /\ rpc[r] = "exec" /\ UNCHANGED <<now, at, nCurTime>>
        /\ rpc' = [rpc EXCEPT ![r] = "list"]
    BY <1>9 DEF EndCallback
  <2>2. DOMAIN m_mapTimer' = DOMAIN m_mapTimer
    BY <1>9, EndFact
  <2>3. pos' = pos \/ pos' = [pos EXCEPT ![r] = pos[r] + 1]
    BY <1>9, EndFact
  <2>4. S(r)'
    BY <1>a, <1>b, <2>1, <2>2, <2>3 DEF S
  <2>5. tickerMutex = r
    BY <1>a, <2>1 DEF ScanMutexInv
  <2> QED BY <1>a, <1>4, <2>1, <2>3, <2>4, <2>5
<1>10. CASE UNCHANGED <<now, m_mapTimer, rpc, at, pos, nCurTime>>
  BY <1>c, <1>e, <1>10
<1> QED
  BY <1>1, <1>2, <1>3, <1>5, <1>6, <1>7, <1>8, <1>9, <1>10
  DEF TickerNext, User, run, MakeTimer, addTimer, stop, clear, MayClear, tickerVars

-----------------------------------------------------------------------------
(* Each timer is in one place.                                             *)

\* While nobody holds m_mutex, or its owner is not in a callback, no callback
\* is running.
LEMMA NoneRunning ==
  ASSUME ScanMutexInv, tickerMutex = Nil \/ \E r \in Runs : tickerMutex = r /\ rpc[r] # "exec"
  PROVE  \A r \in Runs : rpc[r] # "exec"
BY DEF ScanMutexInv

LEMMA PlaceStep == TickerInv /\ [TickerNext]_tickerVars => PlaceInv'
<1> SUFFICES ASSUME TickerInv, [TickerNext]_tickerVars PROVE PlaceInv'
  OBVIOUS
<1>a. TickerTypeOK /\ PlaceInv /\ AddInv /\ timer \in [Timers -> TimerRecord \cup {Nil}]
  BY DEF TickerInv, TickerTypeOK
<1>b. \A k \in DOMAIN m_mapTimer : \A i \in 1 .. Len(m_mapTimer[k]) :
        m_mapTimer[k][i] \in Timers
  BY <1>a, MapType
<1>1. ASSUME UNCHANGED m_mapTimer,
             \A t \in Timers : timer[t] # Nil => timer'[t] # Nil
      PROVE PlaceInv'
  BY <1>a, <1>b, <1>1 DEF PlaceInv
<1>2. ASSUME NEW c \in Users, NEW t \in Timers, MakeTimer(c, t) PROVE PlaceInv'
  <2>1. timer[t] = Nil /\ m_mapTimer' = m_mapTimer
    BY <1>2 DEF MakeTimer
  <2>2. \A x \in Timers : x # t => timer'[x] = timer[x]
    BY <1>a, <1>2 DEF MakeTimer
  <2> QED BY <1>1, <2>1, <2>2
<1>3. ASSUME NEW c \in Users, addTimer(c) PROVE PlaceInv'
  <2>1. PICK k \in Nat, n \in Nat :
          \A l \in DOMAIN m_mapTimer' : \A i \in 1 .. Len(m_mapTimer'[l]) :
            \/ /\ l \in DOMAIN m_mapTimer /\ i \in 1 .. Len(m_mapTimer[l])
               /\ m_mapTimer'[l][i] = m_mapTimer[l][i]
            \/ l = k /\ i = n /\ m_mapTimer'[l][i] = adding[c]
    BY <1>3, AddFact
  <2>2. upc[c] = "add" /\ timer' = timer /\ timer[adding[c]] # Nil
    BY <1>3, AddFact DEF addTimer
  <2>3. \A l \in DOMAIN m_mapTimer : \A i \in 1 .. Len(m_mapTimer[l]) :
          m_mapTimer[l][i] # adding[c]
    BY <1>a, <2>2 DEF AddInv
  <2> SUFFICES ASSUME NEW l \in DOMAIN m_mapTimer', NEW i \in 1 .. Len(m_mapTimer'[l])
               PROVE  /\ timer'[m_mapTimer'[l][i]] # Nil
                      /\ \A u \in DOMAIN m_mapTimer' : \A j \in 1 .. Len(m_mapTimer'[u]) :
                           m_mapTimer'[l][i] = m_mapTimer'[u][j] => l = u /\ i = j
    BY DEF PlaceInv
  <2>4. timer'[m_mapTimer'[l][i]] # Nil
    BY <1>a, <2>1, <2>2 DEF PlaceInv
  <2>5. ASSUME NEW u \in DOMAIN m_mapTimer', NEW j \in 1 .. Len(m_mapTimer'[u]),
               m_mapTimer'[l][i] = m_mapTimer'[u][j]
        PROVE l = u /\ i = j
    <3>1. CASE m_mapTimer'[l][i] = adding[c]
      <4>1. l = k /\ i = n
        BY <2>1, <2>3, <3>1
      <4>2. u = k /\ j = n
        BY <2>1, <2>3, <2>5, <3>1
      <4> QED BY <4>1, <4>2
    <3>2. CASE m_mapTimer'[l][i] # adding[c]
      <4>1. /\ l \in DOMAIN m_mapTimer /\ i \in 1 .. Len(m_mapTimer[l])
            /\ m_mapTimer'[l][i] = m_mapTimer[l][i]
        BY <2>1, <3>2
      <4>2. /\ u \in DOMAIN m_mapTimer /\ j \in 1 .. Len(m_mapTimer[u])
            /\ m_mapTimer'[u][j] = m_mapTimer[u][j]
        BY <2>1, <2>5, <3>2
      <4>3. m_mapTimer[l][i] = m_mapTimer[u][j]
        BY <2>5, <4>1, <4>2
      <4>4. PlaceInv
        BY <1>a
      <4> QED BY <4>1, <4>2, <4>3, <4>4, Zenon DEF PlaceInv
    <3> QED BY <3>1, <3>2
  <2> QED BY <2>4, <2>5
<1>4. ASSUME NEW c \in Users, clear(c) PROVE PlaceInv'
  <2>1. m_mapTimer' = <<>> /\ DOMAIN m_mapTimer' = {}
    BY <1>4 DEF clear
  <2> QED BY <2>1 DEF PlaceInv
<1>5. ASSUME NEW r \in Runs, EndCallback(r) PROVE PlaceInv'
  <2>1. PICK a \in DOMAIN m_mapTimer, t \in Timers :
          \E n \in 1 .. Len(m_mapTimer[a]) :
             /\ timer[t] \in TimerRecord
             /\ \/ /\ t \in Once /\ UNCHANGED timer
                   /\ m_mapTimer' \in [DOMAIN m_mapTimer -> Seq(Timers)]
                   /\ \A l \in DOMAIN m_mapTimer : \A i \in 1 .. Len(m_mapTimer'[l]) :
                        \E j \in 1 .. Len(m_mapTimer[l]) :
                          /\ m_mapTimer'[l][i] = m_mapTimer[l][j]
                          /\ j = IF l = a /\ i >= n THEN i + 1 ELSE i
                \/ /\ t \notin Once /\ UNCHANGED m_mapTimer
                   /\ timer' = [timer EXCEPT ![t] = ResetTimer(timer[t], nCurTime[r])]
    BY <1>5, EndFact
  <2>2. CASE t \notin Once
    <3>1. /\ UNCHANGED m_mapTimer /\ timer[t] \in TimerRecord
          /\ timer' = [timer EXCEPT ![t] = ResetTimer(timer[t], nCurTime[r])]
      BY <2>1, <2>2
    <3>2. ResetTimer(timer[t], nCurTime[r]) \in TimerRecord
      BY <3>1 DEF ResetTimer, TimerRecord
    <3>3. \A x \in Timers : timer[x] # Nil => timer'[x] # Nil
      BY <1>a, <3>1, <3>2
    <3> QED BY <1>1, <3>1, <3>3
  <2>3. CASE t \in Once
    <3>1. /\ UNCHANGED timer /\ DOMAIN m_mapTimer' = DOMAIN m_mapTimer
      BY <2>1, <2>3
    <3>2. PICK n \in 1 .. Len(m_mapTimer[a]) :
            \A l \in DOMAIN m_mapTimer : \A i \in 1 .. Len(m_mapTimer'[l]) :
              \E j \in 1 .. Len(m_mapTimer[l]) :
                /\ m_mapTimer'[l][i] = m_mapTimer[l][j]
                /\ j = IF l = a /\ i >= n THEN i + 1 ELSE i
      BY <2>1, <2>3
    <3> SUFFICES ASSUME NEW l \in DOMAIN m_mapTimer, NEW i \in 1 .. Len(m_mapTimer'[l])
                 PROVE  /\ timer'[m_mapTimer'[l][i]] # Nil
                        /\ \A u \in DOMAIN m_mapTimer :
                             \A j \in 1 .. Len(m_mapTimer'[u]) :
                               m_mapTimer'[l][i] = m_mapTimer'[u][j] => l = u /\ i = j
      BY <3>1 DEF PlaceInv
    <3>3. PICK p \in 1 .. Len(m_mapTimer[l]) :
            /\ m_mapTimer'[l][i] = m_mapTimer[l][p]
            /\ p = IF l = a /\ i >= n THEN i + 1 ELSE i
      BY <3>2
    <3>4. timer'[m_mapTimer'[l][i]] # Nil
      BY <1>a, <3>1, <3>3 DEF PlaceInv
    <3>5. ASSUME NEW u \in DOMAIN m_mapTimer, NEW j \in 1 .. Len(m_mapTimer'[u]),
                 m_mapTimer'[l][i] = m_mapTimer'[u][j]
          PROVE l = u /\ i = j
      <4>1. PICK q \in 1 .. Len(m_mapTimer[u]) :
              /\ m_mapTimer'[u][j] = m_mapTimer[u][q]
              /\ q = IF u = a /\ j >= n THEN j + 1 ELSE j
        BY <3>2
      <4>2. l = u /\ p = q
        BY <1>a, <3>3, <3>5, <4>1 DEF PlaceInv
      <4>3. i \in Int /\ j \in Int /\ n \in Int
        OBVIOUS
      <4> QED BY <3>3, <4>1, <4>2, <4>3
    <3> QED BY <3>4, <3>5
  <2> QED BY <2>2, <2>3
<1>6. CASE UNCHANGED <<m_mapTimer, timer>>
  BY <1>1, <1>6
<1> QED
  BY <1>2, <1>3, <1>4, <1>5, <1>6
  DEF TickerNext, User, run, Tick, start, stop, Test, Lock, NextEntry, EndScan,
      EndList, StartCallback, tickerVars

LEMMA AddStep == TickerInv /\ [TickerNext]_tickerVars => AddInv'
<1> SUFFICES ASSUME TickerInv, [TickerNext]_tickerVars PROVE AddInv'
  OBVIOUS
<1>a. /\ TickerTypeOK /\ AddInv /\ PlaceInv /\ ScanInv /\ GridInv
      /\ timer \in [Timers -> TimerRecord \cup {Nil}] /\ fired \in [Timers -> Nat]
      /\ upc \in [Users -> {"idle", "add", "stop"}]
      /\ adding \in [Users -> Timers \cup {Nil}]
  BY DEF TickerInv, TickerTypeOK
<1>1. ASSUME \A c \in Users : upc'[c] = "add" => upc[c] = "add" /\ adding'[c] = adding[c],
             \A t \in Timers : timer[t] # Nil => timer'[t] # Nil,
             \A c \in Users : upc'[c] = "add" => fired'[adding[c]] = fired[adding[c]],
             \A l \in DOMAIN m_mapTimer' : \A i \in 1 .. Len(m_mapTimer'[l]) :
               \/ /\ l \in DOMAIN m_mapTimer
                  /\ \E j \in 1 .. Len(m_mapTimer[l]) :
                       m_mapTimer'[l][i] = m_mapTimer[l][j]
               \/ \A c \in Users : upc'[c] = "add" => m_mapTimer'[l][i] # adding[c]
      PROVE AddInv'
  <2> SUFFICES ASSUME NEW c \in Users, upc'[c] = "add"
               PROVE  /\ adding'[c] \in Timers /\ timer'[adding'[c]] # Nil
                      /\ fired'[adding'[c]] = 0
                      /\ \A k \in DOMAIN m_mapTimer' :
                           \A i \in 1 .. Len(m_mapTimer'[k]) :
                             m_mapTimer'[k][i] # adding'[c]
                      /\ \A d \in Users : d # c /\ upc'[d] = "add" => adding'[d] # adding'[c]
    BY DEF AddInv
  <2>1. upc[c] = "add" /\ adding'[c] = adding[c]
    BY <1>1
  <2>2. adding[c] \in Timers /\ timer[adding[c]] # Nil /\ fired[adding[c]] = 0
    BY <1>a, <2>1 DEF AddInv
  <2>3. \A k \in DOMAIN m_mapTimer : \A i \in 1 .. Len(m_mapTimer[k]) :
          m_mapTimer[k][i] # adding[c]
    BY <1>a, <2>1 DEF AddInv
  <2>4. \A k \in DOMAIN m_mapTimer' : \A i \in 1 .. Len(m_mapTimer'[k]) :
          m_mapTimer'[k][i] # adding[c]
    BY <1>1, <2>3
  <2>5. \A d \in Users : d # c /\ upc'[d] = "add" => adding'[d] # adding'[c]
    BY <1>a, <1>1, <2>1 DEF AddInv
  <2> QED BY <1>1, <2>1, <2>2, <2>4, <2>5
<1>2. ASSUME NEW c \in Users, NEW t \in Timers, MakeTimer(c, t) PROVE AddInv'
  <2>1. /\ timer[t] = Nil /\ m_mapTimer' = m_mapTimer /\ fired' = fired
        /\ upc' = [upc EXCEPT ![c] = "add"] /\ adding' = [adding EXCEPT ![c] = t]
    BY <1>2 DEF MakeTimer
  <2>2. timer'[t] # Nil /\ \A x \in Timers : x # t => timer'[x] = timer[x]
    <3>1. TickerTypeOK'
      BY TypeStep
    <3>2. PICK d \in Durations, after \in Afters :
            timer' = [timer EXCEPT ![t] =
              [m_nNextTime |-> FirstTime(after, d), m_nDuration |-> d,
               m_nSortTime |-> now + after + d]]
      BY <1>2 DEF MakeTimer
    <3>3. [m_nNextTime |-> FirstTime(after, d), m_nDuration |-> d,
           m_nSortTime |-> now + after + d] \in TimerRecord
      BY <1>a DEF TickerTypeOK, FirstTime, TimerRecord
    <3> QED BY <1>a, <3>2, <3>3
  <2>3. fired[t] = 0
    BY <1>a, <2>1 DEF GridInv
  <2>4. \A k \in DOMAIN m_mapTimer : \A i \in 1 .. Len(m_mapTimer[k]) :
          m_mapTimer[k][i] # t
    BY <1>a, <2>1 DEF PlaceInv
  <2>5. \A d \in Users : d # c /\ upc[d] = "add" => adding[d] # t
    BY <1>a, <2>1 DEF AddInv
  <2>6. /\ adding'[c] = t
        /\ \A d \in Users : d # c => upc'[d] = upc[d] /\ adding'[d] = adding[d]
    BY <1>a, <2>1
  <2> SUFFICES ASSUME NEW d \in Users, upc'[d] = "add"
               PROVE  /\ adding'[d] \in Timers /\ timer'[adding'[d]] # Nil
                      /\ fired'[adding'[d]] = 0
                      /\ \A k \in DOMAIN m_mapTimer' :
                           \A i \in 1 .. Len(m_mapTimer'[k]) :
                             m_mapTimer'[k][i] # adding'[d]
                      /\ \A e \in Users : e # d /\ upc'[e] = "add" => adding'[e] # adding'[d]
    BY DEF AddInv
  <2>7. CASE d = c
    BY <2>1, <2>2, <2>3, <2>4, <2>5, <2>6, <2>7
  <2>8. CASE d # c
    <3>1. /\ upc[d] = "add" /\ adding'[d] = adding[d] /\ adding[d] # t
      BY <2>5, <2>6, <2>8
    <3>2. /\ adding[d] \in Timers /\ timer[adding[d]] # Nil /\ fired[adding[d]] = 0
          /\ \A k \in DOMAIN m_mapTimer : \A i \in 1 .. Len(m_mapTimer[k]) :
               m_mapTimer[k][i] # adding[d]
          /\ \A e \in Users : e # d /\ upc[e] = "add" => adding[e] # adding[d]
      BY <1>a, <3>1 DEF AddInv
    <3>3. \A e \in Users : e # d /\ upc'[e] = "add" => adding'[e] # adding'[d]
      BY <2>6, <3>1, <3>2
    <3> QED BY <2>1, <2>2, <3>1, <3>2, <3>3
  <2> QED BY <2>7, <2>8
<1>3. ASSUME NEW c \in Users, addTimer(c) PROVE AddInv'
  <2>1. PICK k \in Nat, n \in Nat :
          \A l \in DOMAIN m_mapTimer' : \A i \in 1 .. Len(m_mapTimer'[l]) :
            \/ /\ l \in DOMAIN m_mapTimer /\ i \in 1 .. Len(m_mapTimer[l])
               /\ m_mapTimer'[l][i] = m_mapTimer[l][i]
            \/ l = k /\ i = n /\ m_mapTimer'[l][i] = adding[c]
    BY <1>3, AddFact
  <2>2. /\ upc[c] = "add" /\ UNCHANGED <<timer, fired>>
        /\ upc' = [upc EXCEPT ![c] = "idle"] /\ adding' = [adding EXCEPT ![c] = Nil]
    BY <1>3 DEF addTimer
  <2>3. \A d \in Users : upc'[d] = "add" => d # c /\ upc[d] = "add" /\ adding'[d] = adding[d]
    BY <1>a, <2>2
  <2>4. \A d \in Users : upc'[d] = "add" => adding[d] # adding[c]
    BY <1>a, <2>2, <2>3 DEF AddInv
  <2>5. \A l \in DOMAIN m_mapTimer' : \A i \in 1 .. Len(m_mapTimer'[l]) :
          \/ /\ l \in DOMAIN m_mapTimer
             /\ \E j \in 1 .. Len(m_mapTimer[l]) : m_mapTimer'[l][i] = m_mapTimer[l][j]
          \/ \A d \in Users : upc'[d] = "add" => m_mapTimer'[l][i] # adding[d]
    BY <2>1, <2>4
  <2> QED BY <1>1, <2>2, <2>3, <2>5
<1>4. ASSUME NEW c \in Users, clear(c) PROVE AddInv'
  <2>1. DOMAIN m_mapTimer' = {} /\ UNCHANGED <<timer, fired, adding>>
    BY <1>4 DEF clear
  <2>2. \A d \in Users : upc'[d] = "add" => upc[d] = "add"
    BY <1>a, <1>4 DEF clear
  <2> QED BY <1>1, <2>1, <2>2
<1>5. ASSUME NEW c \in Users, stop(c) PROVE AddInv'
  <2>1. UNCHANGED <<m_mapTimer, timer, fired, adding>>
    BY <1>5 DEF stop
  <2>2. \A d \in Users : upc'[d] = "add" => upc[d] = "add"
    BY <1>a, <1>5 DEF stop
  <2> QED BY <1>1, <2>1, <2>2
<1>6. ASSUME NEW r \in Runs, StartCallback(r) PROVE AddInv'
  <2>1. UNCHANGED <<m_mapTimer, timer, upc, adding>>
    BY <1>6 DEF StartCallback
  <2>2. PICK a \in DOMAIN m_mapTimer :
          \E n \in 1 .. Len(m_mapTimer[a]) : \E t \in Timers :
            t = m_mapTimer[a][n] /\ fired' = [fired EXCEPT ![t] = fired[t] + 1]
    BY <1>6, StartFact
  <2>3. \A c \in Users : upc'[c] = "add" => fired'[adding[c]] = fired[adding[c]]
    BY <1>a, <2>1, <2>2 DEF AddInv
  <2> QED BY <1>1, <2>1, <2>3
<1>7. ASSUME NEW r \in Runs, EndCallback(r) PROVE AddInv'
  <2>1. UNCHANGED <<fired, upc, adding>>
    BY <1>7 DEF EndCallback
  <2>2. \A x \in Timers : timer[x] # Nil => timer'[x] # Nil
    <3>1. PICK t \in Timers :
            /\ timer[t] \in TimerRecord
            /\ timer' = timer
                 \/ timer' = [timer EXCEPT ![t] = ResetTimer(timer[t], nCurTime[r])]
      BY <1>7, EndFact
    <3>2. ResetTimer(timer[t], nCurTime[r]) \in TimerRecord
      BY <3>1 DEF ResetTimer, TimerRecord
    <3> QED BY <1>a, <3>1, <3>2
  <2>3. \A l \in DOMAIN m_mapTimer' : \A i \in 1 .. Len(m_mapTimer'[l]) :
          /\ l \in DOMAIN m_mapTimer
          /\ \E j \in 1 .. Len(m_mapTimer[l]) : m_mapTimer'[l][i] = m_mapTimer[l][j]
    <3>1. CASE m_mapTimer' = m_mapTimer
      BY <3>1
    <3>2. CASE m_mapTimer' # m_mapTimer
      <4>1. /\ DOMAIN m_mapTimer' = DOMAIN m_mapTimer
            /\ \A l \in DOMAIN m_mapTimer : \A i \in 1 .. Len(m_mapTimer'[l]) :
                 \E j \in 1 .. Len(m_mapTimer[l]) : m_mapTimer'[l][i] = m_mapTimer[l][j]
        BY <1>7, <3>2, EndFact
      <4> QED BY <4>1
    <3> QED BY <3>1, <3>2
  <2> QED BY <1>1, <2>1, <2>2, <2>3
<1>8. CASE UNCHANGED <<m_mapTimer, timer, fired, upc, adding>>
  BY <1>1, <1>8
<1> QED
  BY <1>2, <1>3, <1>4, <1>5, <1>6, <1>7, <1>8
  DEF TickerNext, User, run, Tick, start, Test, Lock, NextEntry, EndScan, EndList, tickerVars

-----------------------------------------------------------------------------
(* The schedule.                                                           *)

\* A step that leaves the running callbacks and the lists alone leaves the
\* same timers running.
LEMMA RunningSame ==
  ASSUME UNCHANGED m_mapTimer,
         \A r \in Runs : rpc'[r] = "exec" <=> rpc[r] = "exec",
         \A r \in Runs : rpc[r] = "exec" => at'[r] = at[r] /\ pos'[r] = pos[r]
  PROVE  \A t \in Timers : Running(t)' <=> Running(t)
<1> SUFFICES ASSUME NEW t \in Timers PROVE Running(t)' <=> Running(t)
  OBVIOUS
<1>1. ASSUME NEW r \in Runs
      PROVE (rpc'[r] = "exec" /\ m_mapTimer'[at'[r]][pos'[r]] = t)
              <=> (rpc[r] = "exec" /\ m_mapTimer[at[r]][pos[r]] = t)
  OBVIOUS
<1> QED BY <1>1 DEF Running

\* The only callback that runs is that of the owner of m_mutex.
LEMMA OwnerRuns ==
  ASSUME ScanMutexInv, NEW r \in Runs, rpc[r] = "exec", NEW t \in Timers
  PROVE  Running(t) <=> t = m_mapTimer[at[r]][pos[r]]
<1>1. \A q \in Runs : rpc[q] = "exec" => q = r
  BY DEF ScanMutexInv
<1> QED BY <1>1 DEF Running

\* Adding a duration is the next point of the grid.
LEMMA NextPoint ==
  ASSUME NEW b \in Nat, NEW f \in Nat, NEW d \in Nat
  PROVE  /\ b + (f - 1) * d + d = b + f * d
         /\ b + 0 * d = b
         /\ b + (1 - 1) * d = b
         /\ (f + 1) - 1 = f
OBVIOUS

LEMMA ScheduleStep == TickerInv /\ [TickerNext]_tickerVars => GridInv' /\ OnceInv' /\ OnSchedule'
<1> SUFFICES ASSUME TickerInv, [TickerNext]_tickerVars PROVE GridInv' /\ OnceInv' /\ OnSchedule'
  OBVIOUS
<1>a. /\ TickerTypeOK /\ ScanMutexInv /\ PlaceInv /\ AddInv /\ GridInv /\ OnceInv /\ OnSchedule
      /\ now \in Nat /\ timer \in [Timers -> TimerRecord \cup {Nil}]
      /\ base \in [Timers -> Nat] /\ fired \in [Timers -> Nat]
      /\ rpc \in [Runs -> {"unborn", "test", "lock", "entry", "list", "exec", "ended"}]
      /\ at \in [Runs -> Int] /\ pos \in [Runs -> Nat]
  BY DEF TickerInv, TickerTypeOK
<1>m. ScanMutexInv'
  BY MutexStep
<1> DEFINE G(t) ==
      /\ timer[t] = Nil => fired[t] = 0
      /\ Running(t) => fired[t] > 0
      /\ timer[t] # Nil /\ t \notin Once =>
           timer[t].m_nNextTime =
             base[t] + (IF Running(t) THEN fired[t] - 1 ELSE fired[t])
                         * timer[t].m_nDuration
      /\ timer[t] # Nil /\ t \in Once => timer[t].m_nNextTime = base[t]
    D(t) ==
      fired[t] > 0 =>
        /\ now >= base[t] + (fired[t] - 1) * timer[t].m_nDuration
        /\ t \in Once => fired[t] = 1
    O(t) ==
      /\ fired[t] <= 1
      /\ \A k \in DOMAIN m_mapTimer : \A i \in 1 .. Len(m_mapTimer[k]) :
           m_mapTimer[k][i] = t /\ ~Running(t) => fired[t] = 0
<1>b. \A t \in Timers : G(t) /\ D(t) /\ (t \in Once => O(t))
  <2>1. \A t \in Timers : G(t)
    BY <1>a DEF GridInv
  <2>2. \A t \in Timers : D(t)
    BY <1>a DEF OnSchedule
  <2>3. \A t \in Timers : t \in Once => O(t)
    BY <1>a DEF OnceInv
  <2> QED BY <2>1, <2>2, <2>3
<1>c. ASSUME \A t \in Timers : G(t)' /\ D(t)' /\ (t \in Once => O(t)')
      PROVE GridInv' /\ OnceInv' /\ OnSchedule'
  <2>1. GridInv'
    BY <1>c DEF GridInv
  <2>2. OnSchedule'
    BY <1>c DEF OnSchedule
  <2>3. OnceInv'
    BY <1>c DEF OnceInv
  <2> QED BY <2>1, <2>2, <2>3
\* A timer that the step leaves alone.
<1>d. ASSUME NEW t \in Timers, timer'[t] = timer[t], base'[t] = base[t],
             fired'[t] = fired[t], Running(t)' <=> Running(t), now' >= now, now' \in Nat
      PROVE G(t)' /\ D(t)'
  <2>1. G(t)'
    BY <1>b, <1>d
  <2>2. D(t)'
    <3>1. ASSUME fired'[t] > 0 PROVE now' >= base'[t] + (fired'[t] - 1) * timer'[t].m_nDuration
      <4>1. timer[t] # Nil
        BY <1>b, <1>d, <3>1
      <4>2. timer[t].m_nDuration \in Nat /\ base[t] \in Nat /\ fired[t] \in Nat
        BY <1>a, <4>1 DEF TimerRecord
      <4>3. PICK e \in Int : e = base[t] + (fired[t] - 1) * timer[t].m_nDuration
        BY <4>2
      <4>4. now >= e
        BY <1>b, <1>d, <3>1, <4>3
      <4> QED BY <1>a, <1>d, <4>3, <4>4
    <3> QED BY <1>b, <1>d, <3>1
  <2> QED BY <2>1, <2>2
<1>e. ASSUME NEW t \in Once, t \in Timers, fired'[t] = fired[t],
             \A k \in DOMAIN m_mapTimer' : \A i \in 1 .. Len(m_mapTimer'[k]) :
               m_mapTimer'[k][i] = t /\ ~Running(t)' =>
                 \/ fired[t] = 0
                 \/ /\ ~Running(t) /\ k \in DOMAIN m_mapTimer
                    /\ \E j \in 1 .. Len(m_mapTimer[k]) : m_mapTimer[k][j] = t
      PROVE O(t)'
  BY <1>b, <1>e
<1> HIDE DEF G, D, O
\* Nothing about the timers changes.
<1>1. ASSUME UNCHANGED <<m_mapTimer, timer, base, fired>>, now' >= now, now' \in Nat,
             \A t \in Timers : Running(t)' <=> Running(t)
      PROVE GridInv' /\ OnceInv' /\ OnSchedule'
  <2>1. \A t \in Timers : G(t)' /\ D(t)'
    BY <1>d, <1>1
  <2>2. \A t \in Timers : t \in Once => O(t)'
    BY <1>e, <1>1
  <2> QED BY <1>c, <2>1, <2>2
<1>2. CASE Tick
  <2>1. UNCHANGED <<m_mapTimer, timer, base, fired, rpc, at, pos>> /\ now' = now + 1
    BY <1>2 DEF Tick
  <2>2. now' >= now /\ now' \in Nat
    BY <1>a, <2>1
  <2> QED BY <1>1, <2>1, <2>2, RunningSame
<1>3. ASSUME NEW c \in Users, start(c) PROVE GridInv' /\ OnceInv' /\ OnSchedule'
  <2>1. UNCHANGED <<now, m_mapTimer, timer, base, fired, at, pos>>
    BY <1>3 DEF start
  <2>2. \A r \in Runs : rpc'[r] = "exec" <=> rpc[r] = "exec"
    BY <1>a, <1>3 DEF start
  <2>3. now' >= now /\ now' \in Nat
    BY <1>a, <2>1
  <2> QED BY <1>1, <2>1, <2>2, <2>3, RunningSame
<1>4. ASSUME NEW r \in Runs,
             Test(r) \/ Lock(r) \/ NextEntry(r) \/ EndScan(r) \/ EndList(r)
      PROVE GridInv' /\ OnceInv' /\ OnSchedule'
  <2>1. UNCHANGED <<now, m_mapTimer, timer, base, fired>>
    BY <1>4 DEF Test, Lock, NextEntry, EndScan, EndList
  <2>2. \A q \in Runs : rpc'[q] = "exec" <=> rpc[q] = "exec"
    BY <1>a, <1>4 DEF Test, Lock, NextEntry, EndScan, EndList
  <2>3. rpc[r] # "exec"
    BY <1>4 DEF Test, Lock, NextEntry, EndScan, EndList
  <2>4. \A q \in Runs : q # r => at'[q] = at[q] /\ pos'[q] = pos[q]
    BY <1>a, <1>4 DEF Test, Lock, NextEntry, EndScan, EndList
  <2>5. \A q \in Runs : rpc[q] = "exec" => at'[q] = at[q] /\ pos'[q] = pos[q]
    BY <2>3, <2>4
  <2>6. now' >= now /\ now' \in Nat
    BY <1>a, <2>1
  <2> QED BY <1>1, <2>1, <2>2, <2>5, <2>6, RunningSame
<1>5. ASSUME NEW c \in Users, NEW t \in Timers, MakeTimer(c, t)
      PROVE GridInv' /\ OnceInv' /\ OnSchedule'
  <2>1. /\ timer[t] = Nil
        /\ UNCHANGED <<now, m_mapTimer, fired, rpc, at, pos>>
    BY <1>5 DEF MakeTimer
  <2>2. PICK d \in Durations, after \in Afters :
          /\ timer' = [timer EXCEPT ![t] =
               [m_nNextTime |-> FirstTime(after, d), m_nDuration |-> d,
                m_nSortTime |-> now + after + d]]
          /\ base' = [base EXCEPT ![t] = now + after]
    BY <1>5 DEF MakeTimer
  <2>3. \A x \in Timers : Running(x)' <=> Running(x)
    BY <2>1, RunningSame
  <2>4. now' >= now /\ now' \in Nat
    BY <1>a, <2>1
  <2>5. ASSUME NEW x \in Timers, x # t PROVE G(x)' /\ D(x)'
    <3>1. timer'[x] = timer[x] /\ base'[x] = base[x] /\ fired'[x] = fired[x]
      BY <1>a, <2>1, <2>2, <2>5
    <3> QED BY <1>d, <2>3, <2>4, <3>1
  <2>6. fired[t] = 0 /\ ~Running(t)
    <3>1. fired[t] = 0
      BY <1>b, <2>1 DEF G
    <3>2. Running(t) => fired[t] > 0
      BY <1>b DEF G
    <3> QED BY <3>1, <3>2
  <2>7. /\ timer'[t].m_nNextTime = base'[t] /\ timer'[t].m_nDuration \in Nat
        /\ base'[t] \in Nat
    <3>1. d \in Nat /\ after \in Nat
      OBVIOUS
    <3> QED BY <1>a, <2>2, <3>1 DEF FirstTime
  <2>8. G(t)' /\ D(t)'
    <3>1. fired'[t] = 0 /\ ~Running(t)'
      BY <2>1, <2>3, <2>6
    <3>2. base'[t] + 0 * timer'[t].m_nDuration = base'[t]
      BY <2>7, NextPoint
    <3>3. G(t)'
      BY <2>7, <3>1, <3>2 DEF G
    <3>4. D(t)'
      BY <3>1 DEF D
    <3> QED BY <3>3, <3>4
  <2>9. \A x \in Timers : x \in Once => O(x)'
    BY <1>e, <2>1, <2>3
  <2> QED BY <1>c, <2>5, <2>8, <2>9
<1>6. ASSUME tickerMutex = Nil, UNCHANGED <<now, timer, base, fired, rpc>>,
             \A k \in DOMAIN m_mapTimer' : \A i \in 1 .. Len(m_mapTimer'[k]) :
               \/ fired[m_mapTimer'[k][i]] = 0
               \/ /\ k \in DOMAIN m_mapTimer
                  /\ \E j \in 1 .. Len(m_mapTimer[k]) : m_mapTimer[k][j] = m_mapTimer'[k][i]
      PROVE GridInv' /\ OnceInv' /\ OnSchedule'
  <2>1. \A r \in Runs : rpc[r] # "exec"
    BY <1>a, <1>6, NoneRunning
  <2>2. \A t \in Timers : ~Running(t)
    BY <2>1 DEF Running
  <2>3. \A t \in Timers : ~Running(t)'
    BY <1>6, <2>1 DEF Running
  <2>4. now' >= now /\ now' \in Nat
    BY <1>a, <1>6
  <2>5. \A t \in Timers : G(t)' /\ D(t)'
    BY <1>d, <1>6, <2>2, <2>3, <2>4
  <2>6. \A t \in Timers : t \in Once => O(t)'
    BY <1>e, <1>6, <2>2
  <2> QED BY <1>c, <2>5, <2>6
<1>7. ASSUME NEW c \in Users, addTimer(c) PROVE GridInv' /\ OnceInv' /\ OnSchedule'
  <2>1. PICK k \in Nat, n \in Nat :
          \A l \in DOMAIN m_mapTimer' : \A i \in 1 .. Len(m_mapTimer'[l]) :
            \/ /\ l \in DOMAIN m_mapTimer /\ i \in 1 .. Len(m_mapTimer[l])
               /\ m_mapTimer'[l][i] = m_mapTimer[l][i]
            \/ l = k /\ i = n /\ m_mapTimer'[l][i] = adding[c]
    BY <1>7, AddFact
  <2>2. tickerMutex = Nil /\ fired[adding[c]] = 0
    BY <1>7, AddFact
  <2>3. UNCHANGED <<now, timer, base, fired, rpc>>
    BY <1>7 DEF addTimer
  <2>4. \A l \in DOMAIN m_mapTimer' : \A i \in 1 .. Len(m_mapTimer'[l]) :
          \/ fired[m_mapTimer'[l][i]] = 0
          \/ /\ l \in DOMAIN m_mapTimer
             /\ \E j \in 1 .. Len(m_mapTimer[l]) : m_mapTimer[l][j] = m_mapTimer'[l][i]
    BY <2>1, <2>2
  <2> QED BY <1>6, <2>2, <2>3, <2>4
<1>8. ASSUME NEW c \in Users, clear(c) PROVE GridInv' /\ OnceInv' /\ OnSchedule'
  <2>1. /\ tickerMutex = Nil /\ UNCHANGED <<now, timer, base, fired, rpc>>
        /\ DOMAIN m_mapTimer' = {}
    BY <1>8 DEF clear, MayClear
  <2> QED BY <1>6, <2>1
<1>9. ASSUME NEW r \in Runs, StartCallback(r)
      PROVE GridInv' /\ OnceInv' /\ OnSchedule'
  <2>1. /\ rpc[r] = "list" /\ UNCHANGED <<now, m_mapTimer, timer, base, at>>
        /\ rpc' = [rpc EXCEPT ![r] = "exec"] /\ rpc'[r] = "exec"
    BY <1>a, <1>9 DEF StartCallback
  <2>2. PICK a \in DOMAIN m_mapTimer : \E n \in 1 .. Len(m_mapTimer[a]) : \E t \in Timers :
          /\ a = at[r] /\ t = m_mapTimer[a][n] /\ timer[t] \in TimerRecord
          /\ timer[t].m_nNextTime <= now /\ pos'[r] = n
          /\ fired' = [fired EXCEPT ![t] = fired[t] + 1]
    BY <1>9, StartFact
  <2>3. PICK n \in 1 .. Len(m_mapTimer[a]), t \in Timers :
          /\ a = at[r] /\ t = m_mapTimer[a][n] /\ timer[t] \in TimerRecord
          /\ timer[t].m_nNextTime <= now /\ pos'[r] = n
          /\ fired' = [fired EXCEPT ![t] = fired[t] + 1]
    BY <2>2
  <2>4. \A x \in Timers : ~Running(x)
    <3>1. tickerMutex = r
      BY <1>a, <2>1 DEF ScanMutexInv
    <3>2. \A q \in Runs : rpc[q] # "exec"
      BY <1>a, <2>1, <3>1, NoneRunning
    <3> QED BY <3>2 DEF Running
  <2>5. \A x \in Timers : Running(x)' <=> x = t
    <3>1. \A x \in Timers : Running(x)' <=> x = m_mapTimer'[at'[r]][pos'[r]]
      <4>1. \A q \in Runs : rpc'[q] = "exec" => q = r
        BY <1>m, <2>1 DEF ScanMutexInv
      <4> QED BY <2>1, <4>1 DEF Running
    <3> QED BY <2>1, <2>3, <3>1
  <2>6. now' >= now /\ now' \in Nat
    BY <1>a, <2>1
  <2>7. fired'[t] = fired[t] + 1 /\ \A x \in Timers : x # t => fired'[x] = fired[x]
    BY <1>a, <2>3
  <2>8. ASSUME NEW x \in Timers, x # t PROVE G(x)' /\ D(x)'
    BY <1>d, <2>1, <2>4, <2>5, <2>6, <2>7, <2>8
  <2>9. /\ base[t] \in Nat /\ fired[t] \in Nat /\ timer[t].m_nDuration \in Nat
        /\ timer[t].m_nNextTime \in Nat /\ timer[t] # Nil
    BY <1>a, <2>3 DEF TimerRecord
  <2>10. t \in Once => fired[t] = 0
    BY <1>b, <2>3, <2>4 DEF O
  <2>11. fired'[t] - 1 = fired[t] /\ fired'[t] > 0
    BY <2>7, <2>9
  <2>12. timer[t].m_nNextTime = base[t] + fired[t] * timer[t].m_nDuration
    <3>1. CASE t \notin Once
      BY <1>b, <2>4, <2>9, <3>1 DEF G
    <3>2. CASE t \in Once
      BY <1>b, <2>9, <2>10, <3>2, NextPoint DEF G
    <3> QED BY <3>1, <3>2
  <2>13. G(t)'
    <3>1. t \in Once => timer[t].m_nNextTime = base[t]
      BY <1>b, <2>9 DEF G
    <3> QED BY <2>1, <2>5, <2>9, <2>11, <2>12, <3>1 DEF G
  <2>14. D(t)'
    <3>1. t \in Once => fired'[t] = 1
      BY <2>7, <2>10
    <3>2. now' >= base'[t] + (fired'[t] - 1) * timer'[t].m_nDuration
      BY <2>1, <2>3, <2>11, <2>12
    <3> QED BY <3>1, <3>2 DEF D
  <2>15. ASSUME NEW x \in Timers, x \in Once PROVE O(x)'
    <3>1. CASE x = t
      <4>1. fired'[x] <= 1 /\ Running(x)'
        BY <2>5, <2>7, <2>10, <2>15, <3>1
      <4> QED BY <4>1 DEF O
    <3>2. CASE x # t
      BY <1>e, <2>1, <2>4, <2>7, <2>15, <3>2
    <3> QED BY <3>1, <3>2
  <2> QED BY <1>c, <2>8, <2>13, <2>14, <2>15
<1>10. ASSUME NEW r \in Runs, EndCallback(r)
       PROVE GridInv' /\ OnceInv' /\ OnSchedule'
  <2>1. /\ rpc[r] = "exec" /\ UNCHANGED <<now, base, fired, at>> /\ tickerMutex' = tickerMutex
        /\ rpc' = [rpc EXCEPT ![r] = "list"] /\ rpc'[r] = "list"
    BY <1>a, <1>10 DEF EndCallback
  <2>2. PICK a \in DOMAIN m_mapTimer : \E n \in 1 .. Len(m_mapTimer[a]) : \E t \in Timers :
          /\ a = at[r] /\ n = pos[r] /\ t = m_mapTimer[a][n]
          /\ timer[t] \in TimerRecord
          /\ \/ /\ t \in Once /\ UNCHANGED timer
                /\ m_mapTimer' \in [DOMAIN m_mapTimer -> Seq(Timers)]
                /\ \A l \in DOMAIN m_mapTimer : \A i \in 1 .. Len(m_mapTimer'[l]) :
                     \E j \in 1 .. Len(m_mapTimer[l]) :
                       /\ m_mapTimer'[l][i] = m_mapTimer[l][j]
                       /\ j = IF l = a /\ i >= n THEN i + 1 ELSE i
             \/ /\ t \notin Once /\ UNCHANGED m_mapTimer
                /\ timer' = [timer EXCEPT ![t] = ResetTimer(timer[t], nCurTime[r])]
    BY <1>10, EndFact
  <2>3. PICK n \in 1 .. Len(m_mapTimer[a]), t \in Timers :
          /\ a = at[r] /\ n = pos[r] /\ t = m_mapTimer[a][n]
          /\ timer[t] \in TimerRecord
          /\ \/ /\ t \in Once /\ UNCHANGED timer
                /\ m_mapTimer' \in [DOMAIN m_mapTimer -> Seq(Timers)]
                /\ \A l \in DOMAIN m_mapTimer : \A i \in 1 .. Len(m_mapTimer'[l]) :
                     \E j \in 1 .. Len(m_mapTimer[l]) :
                       /\ m_mapTimer'[l][i] = m_mapTimer[l][j]
                       /\ j = IF l = a /\ i >= n THEN i + 1 ELSE i
             \/ /\ t \notin Once /\ UNCHANGED m_mapTimer
                /\ timer' = [timer EXCEPT ![t] = ResetTimer(timer[t], nCurTime[r])]
    BY <2>2
  <2>4. \A x \in Timers : Running(x) <=> x = t
    BY <1>a, <2>1, <2>3, OwnerRuns
  <2>5. \A x \in Timers : ~Running(x)'
    <3>1. tickerMutex' = r
      BY <1>m, <2>1 DEF ScanMutexInv
    <3>2. \A q \in Runs : rpc'[q] # "exec"
      BY <1>m, <2>1, <3>1 DEF ScanMutexInv
    <3> QED BY <3>2 DEF Running
  <2>6. now' >= now /\ now' \in Nat
    BY <1>a, <2>1
  <2>7. /\ base[t] \in Nat /\ fired[t] \in Nat /\ fired[t] > 0
        /\ timer[t].m_nDuration \in Nat /\ timer[t].m_nNextTime \in Nat /\ timer[t] # Nil
    <3>1. fired[t] > 0
      BY <1>b, <2>4 DEF G
    <3> QED BY <1>a, <2>3, <3>1 DEF TimerRecord
  <2>8. CASE t \in Once
    <3>1. /\ UNCHANGED timer /\ DOMAIN m_mapTimer' = DOMAIN m_mapTimer
          /\ \A l \in DOMAIN m_mapTimer : \A i \in 1 .. Len(m_mapTimer'[l]) :
               \E j \in 1 .. Len(m_mapTimer[l]) :
                 /\ m_mapTimer'[l][i] = m_mapTimer[l][j]
                 /\ j = IF l = a /\ i >= n THEN i + 1 ELSE i
      BY <2>3, <2>8
    <3>2. ASSUME NEW x \in Timers, x # t PROVE G(x)' /\ D(x)'
      BY <1>d, <2>1, <2>4, <2>5, <2>6, <3>1, <3>2
    <3>3. G(t)'
      <4>1. timer[t].m_nNextTime = base[t]
        BY <1>b, <2>7, <2>8 DEF G
      <4> QED BY <2>1, <2>5, <2>7, <2>8, <3>1, <4>1 DEF G
    <3>4. D(t)'
      BY <1>b, <2>1, <3>1 DEF D
    <3>5. ASSUME NEW l \in DOMAIN m_mapTimer', NEW i \in 1 .. Len(m_mapTimer'[l])
          PROVE m_mapTimer'[l][i] # t /\ \E j \in 1 .. Len(m_mapTimer[l]) :
                                           m_mapTimer'[l][i] = m_mapTimer[l][j]
      <4>1. PICK j \in 1 .. Len(m_mapTimer[l]) :
              /\ m_mapTimer'[l][i] = m_mapTimer[l][j]
              /\ j = IF l = a /\ i >= n THEN i + 1 ELSE i
        BY <3>1
      <4>2. l # a \/ j # n
        <5>1. i \in Int /\ n \in Int
          OBVIOUS
        <5> QED BY <4>1, <5>1
      <4>3. PlaceInv /\ l \in DOMAIN m_mapTimer
        BY <1>a, <3>1
      <4>4. m_mapTimer[l][j] # m_mapTimer[a][n]
        BY <4>2, <4>3, Zenon DEF PlaceInv
      <4> QED BY <2>3, <4>1, <4>4
    <3>6. ASSUME NEW x \in Timers, x \in Once PROVE O(x)'
      <4>1. ASSUME NEW k \in DOMAIN m_mapTimer', NEW i \in 1 .. Len(m_mapTimer'[k]),
                   m_mapTimer'[k][i] = x
            PROVE /\ ~Running(x) /\ k \in DOMAIN m_mapTimer
                  /\ \E j \in 1 .. Len(m_mapTimer[k]) : m_mapTimer[k][j] = x
        BY <2>4, <3>1, <3>5, <4>1
      <4> QED BY <1>e, <2>1, <3>6, <4>1
    <3> QED BY <1>c, <3>2, <3>3, <3>4, <3>6
  <2>9. CASE t \notin Once
    <3>1. /\ UNCHANGED m_mapTimer
          /\ timer' = [timer EXCEPT ![t] = ResetTimer(timer[t], nCurTime[r])]
      BY <2>3, <2>9
    <3>2. /\ timer'[t] = ResetTimer(timer[t], nCurTime[r])
          /\ \A x \in Timers : x # t => timer'[x] = timer[x]
      BY <1>a, <3>1
    <3>3. /\ timer'[t].m_nNextTime = timer[t].m_nNextTime + timer[t].m_nDuration
          /\ timer'[t].m_nDuration = timer[t].m_nDuration
          /\ timer'[t] \in TimerRecord
      BY <2>3, <3>2, SMTT(30) DEF ResetTimer, TimerRecord
    <3>4. ASSUME NEW x \in Timers, x # t PROVE G(x)' /\ D(x)'
      BY <1>d, <2>1, <2>4, <2>5, <2>6, <3>2, <3>4
    <3>5. timer[t].m_nNextTime = base[t] + (fired[t] - 1) * timer[t].m_nDuration
      BY <1>b, <2>4, <2>7, <2>9 DEF G
    <3>6. timer'[t].m_nNextTime = base[t] + fired[t] * timer[t].m_nDuration
      BY <2>7, <3>3, <3>5, NextPoint
    <3>7. G(t)'
      <4>1. timer'[t] # Nil
        BY <3>3
      <4> QED BY <2>1, <2>5, <2>7, <2>9, <3>3, <3>6, <4>1 DEF G
    <3>8. D(t)'
      BY <1>b, <2>1, <3>3 DEF D
    <3>9. ASSUME NEW x \in Timers, x \in Once PROVE O(x)'
      BY <1>e, <2>1, <2>4, <2>9, <3>1, <3>9
    <3> QED BY <1>c, <3>4, <3>7, <3>8, <3>9
  <2> QED BY <2>8, <2>9
<1>11. CASE UNCHANGED <<now, m_mapTimer, timer, base, fired, rpc, at, pos>>
  <2>1. now' >= now /\ now' \in Nat
    BY <1>a, <1>11
  <2> QED BY <1>1, <1>11, <2>1, RunningSame
<1> QED
  BY <1>2, <1>3, <1>4, <1>5, <1>7, <1>8, <1>9, <1>10, <1>11
  DEF TickerNext, User, run, stop, tickerVars

-----------------------------------------------------------------------------
(* The theorems.                                                           *)

LEMMA InitInv == TickerInit => TickerInv
<1> SUFFICES ASSUME TickerInit PROVE TickerInv
  OBVIOUS
<1>1. /\ DOMAIN m_mapTimer = {} /\ \A r \in Runs : rpc[r] = "unborn"
      /\ \A c \in Users : upc[c] = "idle"
      /\ \A t \in Timers : timer[t] = Nil /\ fired[t] = 0
  BY DEF TickerInit
<1>2. TickerTypeOK
  <2>1. m_mapTimer \in [DOMAIN m_mapTimer -> Seq(Timers)]
    BY DEF TickerInit
  <2>2. /\ now \in Nat /\ m_isEnable \in BOOLEAN /\ tickerMutex \in Runs \cup {Nil}
        /\ timer \in [Timers -> TimerRecord \cup {Nil}]
        /\ base \in [Timers -> Nat] /\ fired \in [Timers -> Nat]
    BY DEF TickerInit
  <2>3. /\ upc \in [Users -> {"idle", "add", "stop"}]
        /\ adding \in [Users -> Timers \cup {Nil}]
    BY DEF TickerInit
  <2>4. /\ rpc \in [Runs -> {"unborn", "test", "lock", "entry", "list", "exec", "ended"}]
        /\ at \in [Runs -> Int] /\ pos \in [Runs -> Nat] /\ nCurTime \in [Runs -> Nat]
    BY DEF TickerInit
  <2> QED BY <1>1, <2>1, <2>2, <2>3, <2>4 DEF TickerTypeOK
<1>3. ScanMutexInv
  BY <1>1 DEF TickerInit, ScanMutexInv
<1>4. PlaceInv /\ AddInv /\ ScanInv
  BY <1>1 DEF PlaceInv, AddInv, ScanInv
<1>5. \A t \in Timers : ~Running(t)
  BY <1>1 DEF Running
<1>6. GridInv /\ OnceInv /\ OnSchedule
  BY <1>1, <1>5 DEF GridInv, OnceInv, OnSchedule
<1> QED BY <1>2, <1>3, <1>4, <1>6 DEF TickerInv

(* The inductive invariant holds in every state of the ticker, for any     *)
(* number of users, timers and threads that start left behind.             *)
THEOREM Invariance == TickerSpec => []TickerInv
<1>1. TickerInv /\ [TickerNext]_tickerVars => TickerInv'
  BY TypeStep, MutexStep, PlaceStep, AddStep, ScanStep, ScheduleStep DEF TickerInv
<1> QED BY <1>1, InitInv, PTL DEF TickerSpec

(* stop clears m_mapTimer only when no callback is running: a callback     *)
(* runs only while its timer is listed.                                    *)
THEOREM StopIsSilent == TickerSpec => []StopSilences
<1>1. TickerInv => StopSilences
  <2> SUFFICES ASSUME TickerInv, NEW r \in Runs, rpc[r] = "exec"
               PROVE  /\ at[r] \in DOMAIN m_mapTimer
                      /\ pos[r] \in DOMAIN m_mapTimer[at[r]]
    BY DEF StopSilences
  <2>1. TickerTypeOK /\ ScanInv
    BY DEF TickerInv
  <2>2. PICK a \in DOMAIN m_mapTimer : a = at[r]
    BY <2>1 DEF ScanInv
  <2>3. /\ m_mapTimer[a] \in Seq(Timers) /\ Len(m_mapTimer[a]) \in Nat
    BY <2>1, MapType
  <2>4. pos[r] \in Nat /\ pos[r] > 0 /\ pos[r] <= Len(m_mapTimer[a])
    BY <2>1, <2>2 DEF ScanInv, TickerTypeOK
  <2>5. DOMAIN m_mapTimer[a] = 1 .. Len(m_mapTimer[a])
    BY <2>3
  <2> QED BY <2>2, <2>3, <2>4, <2>5
<1> QED BY <1>1, Invariance, PTL

(* No callback is early, and a timer of the type Once has one callback,    *)
(* whatever threads of earlier starts scan m_mapTimer besides.             *)
THEOREM CallbacksOnSchedule == TickerSpec => []OnSchedule
<1>1. TickerInv => OnSchedule
  BY DEF TickerInv
<1> QED BY <1>1, Invariance, PTL

(* reset keeps m_nNextTime on the grid of the first time and the duration, *)
(* however late the callbacks were.                                        *)
THEOREM NextTimeOnGrid == TickerSpec => []OnGrid
<1>1. TickerInv => OnGrid
  <2> SUFFICES ASSUME TickerInv, NEW t \in Timers, timer[t] # Nil, t \notin Once,
                      \A r \in Runs : rpc[r] # "exec"
               PROVE  timer[t].m_nNextTime = base[t] + fired[t] * timer[t].m_nDuration
    BY DEF OnGrid
  <2>1. ~Running(t)
    BY DEF Running
  <2> QED BY <2>1 DEF TickerInv, GridInv
<1> QED BY <1>1, Invariance, PTL
=============================================================================
