------------------------- MODULE Automation_proofs -------------------------
(* Theorems about the schedules of CronSchedule and about Automation, for   *)
(* every calendar, zone and rule and every set of scheduler processes.      *)
EXTENDS Automation, FiniteSetTheorems, WellFoundedInduction, TLAPS

-----------------------------------------------------------------------------
(* The search for the next occurrence.                                       *)

LEMMA NatWellFounded ==
    \E R : IsWellFoundedOn(R, Nat) /\ \A m, n \in Nat : m < n => <<m, n>> \in R
<1>1. \A m, n \in Nat : m < n => <<m, n>> \in OpToRel(<, Nat)
  BY DEF OpToRel
<1> QED
  BY <1>1, NatLessThanWellFounded, Zenon

LEMMA LeastNatural ==
    ASSUME NEW T \in SUBSET Nat, T # {}
    PROVE  \E m \in T : \A n \in T : m <= n
<1>1. PICK R : IsWellFoundedOn(R, Nat) /\ \A m, n \in Nat : m < n => <<m, n>> \in R
  BY NatWellFounded, Zenon
<1>2. PICK m \in T : \A n \in T : ~(<<n, m>> \in R)
  <2>1. IsWellFoundedOn(R, Nat) /\ T \subseteq Nat
    BY <1>1
  <2> HIDE <1>1
  <2> QED
    BY <2>1, WFMin
<1>3. \A n \in T : ~(n < m)
  BY <1>1, <1>2, Zenon
<1> QED
  BY <1>2, <1>3

LEMMA MinIsLeast ==
    ASSUME NEW S \in SUBSET Int, S # {}, NEW a \in Int, \A x \in S : a <= x
    PROVE  Min(S) \in S /\ \A x \in S : Min(S) <= x
<1> DEFINE T == {x - a : x \in S}
<1>1. T \in SUBSET Nat /\ T # {}
  <2>1. \A x \in S : x - a \in Nat
    OBVIOUS
  <2> QED
    BY <2>1, Zenon
<1>2. PICK m \in T : \A n \in T : m <= n
  BY <1>1, LeastNatural, Zenon
<1>3. PICK s \in S : m = s - a
  BY <1>2
<1>4. \A x \in S : s <= x
  <2>1. \A x \in S : m <= x - a
    BY <1>2, Zenon
  <2> QED
    BY <1>3, <2>1
<1> QED
  BY <1>3, <1>4 DEF Min

LEMMA NextOccurrenceFound ==
    ASSUME NEW cron, NEW zone \in Zone, NEW t \in Int, NEW n,
           n = NextOccurrence(cron, zone, t), n # NoTime
    PROVE  /\ n \in Int /\ n > t
           /\ Matches(cron, Wall(zone, n))
           /\ \A u \in Int : Wall(zone, t) <= Wall(zone, u) /\ Wall(zone, u) < Wall(zone, n) /\ u > t
                  => ~Matches(cron, Wall(zone, u))
           /\ \A u \in Int : Wall(zone, u) = Wall(zone, n) /\ u > t => n <= u
           /\ Wall(zone, n) < Wall(zone, t) + SearchLimit
<1> DEFINE start == Wall(zone, t)
           hits == {l \in start .. (start + SearchLimit - 1) :
                       Matches(cron, l) /\ Candidates(zone, l, t) # {}}
           m == Min(hits)
<1>1. start \in Int /\ SearchLimit \in Nat
  BY CronAssumption DEF Wall, Zone
<1>2. hits # {} /\ n = Min(Candidates(zone, m, t))
  BY DEF NextOccurrence
<1>3. m \in hits /\ \A l \in hits : m <= l
  <2>1. hits \in SUBSET Int /\ \A l \in hits : start <= l
    BY <1>1
  <2> QED
    BY <1>1, <1>2, <2>1, MinIsLeast, Zenon
<1>4. m \in Int /\ m < start + SearchLimit /\ Matches(cron, m) /\ Candidates(zone, m, t) # {}
  BY <1>1, <1>3
<1>5. n \in Candidates(zone, m, t) /\ \A u \in Candidates(zone, m, t) : n <= u
  <2>1. Candidates(zone, m, t) \in SUBSET Int /\ \A u \in Candidates(zone, m, t) : t <= u
    BY <1>4 DEF Candidates, Folds, Zone
  <2> QED
    BY <1>2, <1>4, <2>1, MinIsLeast, Zenon
<1> HIDE DEF m
<1>6. n \in Int /\ n > t /\ Wall(zone, n) = m
  BY <1>4, <1>5 DEF Candidates, Folds, Zone
<1>7. \A u \in Int : u > t => u \in Candidates(zone, Wall(zone, u), t)
  BY DEF Candidates, Folds, Wall, Zone
<1>8. ASSUME NEW u \in Int, start <= Wall(zone, u), Wall(zone, u) < m, u > t,
             Matches(cron, Wall(zone, u))
      PROVE  FALSE
  <2>1. Wall(zone, u) \in Int
    BY DEF Wall, Zone
  <2>2. Wall(zone, u) \in hits
    BY <1>1, <1>4, <1>7, <1>8, <2>1
  <2> QED
    BY <1>3, <1>4, <1>8, <2>1, <2>2
<1>9. \A u \in Int : Wall(zone, u) = m /\ u > t => n <= u
  BY <1>5, <1>7
<1> QED
  BY <1>4, <1>6, <1>8, <1>9

\* Between a time and the next occurrence nothing matches, except in an hour that
\* the zone repeats.
LEMMA NothingSkipped ==
    ASSUME NEW cron, NEW zone \in Zone, NEW t \in Int, NEW n,
           n = NextOccurrence(cron, zone, t), n # NoTime,
           NEW u \in Int, t < u, u < n, Matches(cron, Wall(zone, u))
    PROVE  \E v \in Folds(zone, Wall(zone, u)) : v # u /\ Wall(zone, v) = Wall(zone, u)
<1>1. /\ n \in Int /\ n > t
      /\ \A w \in Int : Wall(zone, t) <= Wall(zone, w) /\ Wall(zone, w) < Wall(zone, n) /\ w > t
             => ~Matches(cron, Wall(zone, w))
      /\ \A w \in Int : Wall(zone, w) = Wall(zone, n) /\ w > t => n <= w
  BY NextOccurrenceFound
<1>2. Wall(zone, u) < Wall(zone, t) \/ Wall(zone, u) > Wall(zone, n)
  <2>1. Wall(zone, u) \in Int /\ Wall(zone, t) \in Int /\ Wall(zone, n) \in Int
    BY <1>1 DEF Wall, Zone
  <2>2. ~(Wall(zone, t) <= Wall(zone, u) /\ Wall(zone, u) < Wall(zone, n))
    BY <1>1
  <2>3. Wall(zone, u) # Wall(zone, n)
    BY <1>1
  <2> QED
    BY <2>1, <2>2, <2>3
<1>3. CASE Wall(zone, u) < Wall(zone, t)
  <2> DEFINE v == Wall(zone, u) - zone.before
  <2>1. v \in Folds(zone, Wall(zone, u)) /\ v # u /\ Wall(zone, v) = Wall(zone, u)
    BY <1>3 DEF Folds, Wall, Zone
  <2> QED
    BY <2>1
<1>4. CASE Wall(zone, u) > Wall(zone, n)
  <2> DEFINE v == Wall(zone, u) - zone.after
  <2>1. v \in Folds(zone, Wall(zone, u)) /\ v # u /\ Wall(zone, v) = Wall(zone, u)
    BY <1>1, <1>4 DEF Folds, Wall, Zone
  <2> QED
    BY <2>1
<1> QED
  BY <1>2, <1>3, <1>4

-----------------------------------------------------------------------------
(* Types.                                                                    *)

RunRow == [status : RunStatus, approval : {"none", "pending", "approved", "denied"},
           expires : Nat \cup {NoTime}, attempt : BOOLEAN, token : BOOLEAN]
Change == [key : Keys, old : Row, new : Row]

LEMMA NoTimeIsNoNumber == NoTime \notin Int
BY CronAssumption

LEMMA KeysSplit == Times \subseteq Keys /\ Manual \in Keys /\ Manual \notin Times /\ Times \subseteq Nat
BY AutomationAssumption DEF Keys, Times

LEMMA FreshRows ==
    /\ Absent \in Row /\ Queued \in Row /\ NoRun \in RunRow /\ NewRun \in RunRow
    /\ Absent.status = "none" /\ Queued.status = "queued"
    /\ Idle \in Pass
<1>1. Idle \in Pass
  <2>1. 0 \in 0 .. Horizon
    BY AutomationAssumption
  <2> QED
    BY <2>1 DEF Idle, Pass
<1> QED
  BY <1>1 DEF Absent, Queued, NoRun, NewRun, Row, RunRow, RunStatus, Terminal

LEMMA SyncedType ==
    ASSUME TypeOK, NEW k \in Keys
    PROVE  Synced(k) \in Row /\ Synced(k).status = run[k].status
BY DEF TypeOK, Synced, Row, RunStatus

LEMMA StoreType ==
    ASSUME NEW r \in Row, NEW c \in Change
    PROVE  Store(r, c) \in Row /\ Store(r, c).status \in {r.status, c.new.status}
BY DEF Store, Row, Change

LEMMA FollowingType ==
    ASSUME TypeOK, next # NoTime, NEW s \in Schedulers
    PROVE  Following(s) \in Nat \cup {NoTime}
<1>1. plan.zone \in Zone /\ next \in Nat
  BY AutomationAssumption DEF TypeOK
<1>2. ASSUME plan.type # "once", Following(s) # NoTime
      PROVE  Following(s) \in Nat
  <2>1. Following(s) = NextOccurrence(plan.cron, plan.zone, next)
    BY <1>2 DEF Following
  <2>2. Following(s) \in Int /\ Following(s) > next
    BY <1>1, <1>2, <2>1, NextOccurrenceFound
  <2> QED
    BY <1>1, <2>2
<1> QED
  BY <1>2 DEF Following

LEMMA FirstType ==
    ASSUME NEW p \in Plans, First(p) # NoTime
    PROVE  First(p) \in Nat \ {0}
<1>1. p.zone \in Zone /\ p.at \in Nat \ {0}
  BY AutomationAssumption
<1>2. CASE p.type = "once"
  BY <1>1, <1>2 DEF First
<1>3. CASE p.type # "once"
  <2>1. First(p) = NextOccurrence(p.cron, p.zone, 0)
    BY <1>3 DEF First
  <2>2. First(p) \in Int /\ First(p) > 0
    BY <1>1, <2>1, NextOccurrenceFound
  <2> QED
    BY <2>2
<1> QED
  BY <1>2, <1>3

LEMMA TypeInit == Init => TypeOK
BY FreshRows, FirstType, AutomationAssumption
   DEF Init, TypeOK, RunRow, Requests

\* What the steps of notification make of the pass
Moved(s, place, todo, done, held) ==
    LET p == pass'[s]
    IN  /\ p \in Pass /\ p.pc = place /\ p.now = pass[s].now /\ p.changes = pass[s].changes
        /\ p.todo = todo /\ p.done = done /\ p.held = held
        /\ pass' = [pass EXCEPT ![s] = p]

LEMMA PassMoves ==
    ASSUME TypeOK, NEW s \in Schedulers
    PROVE  /\ NotifyRead(s) => \E place \in {"expire", "sending"} :
                 /\ ToNotify(s) = {} <=> place = "expire"
                 /\ Moved(s, place, ToNotify(s), pass[s].done, ToNotify(s))
           /\ \A k \in Keys :
                 /\ Push(s, k) => Moved(s, "sending", pass[s].todo \ {k}, pass[s].done \cup {k}, pass[s].held)
                 /\ PushCleaning(s, k) => Moved(s, "sending", pass[s].todo \ {k}, {k}, {})
           /\ NotifyCommit(s) => Moved(s, "expire", pass[s].todo, {}, {})
<1>1. pass \in [Schedulers -> Pass] /\ pass[s] \in Pass
  BY DEF TypeOK
<1>2. ASSUME NEW r \in Pass, pass' = [pass EXCEPT ![s] = r]
      PROVE  pass'[s] = r /\ pass'[s] \in Pass /\ pass' = [pass EXCEPT ![s] = pass'[s]]
  BY <1>1, <1>2, Zenon
<1>3. ASSUME NotifyRead(s) PROVE \E place \in {"expire", "sending"} :
                 /\ ToNotify(s) = {} <=> place = "expire"
                 /\ Moved(s, place, ToNotify(s), pass[s].done, ToNotify(s))
  <2>1. PICK place \in {"expire", "sending"} :
            /\ ToNotify(s) = {} <=> place = "expire"
            /\ pass' = [pass EXCEPT ![s] = [pass[s] EXCEPT !.pc = place, !.todo = ToNotify(s), !.held = ToNotify(s)]]
    BY <1>1, <1>3 DEF NotifyRead
  <2>2. ToNotify(s) \in SUBSET Keys
    BY DEF ToNotify
  <2> DEFINE r == [pass[s] EXCEPT !.pc = place, !.todo = ToNotify(s), !.held = ToNotify(s)]
  <2>3. /\ r \in Pass /\ r.pc = place /\ r.now = pass[s].now /\ r.changes = pass[s].changes
        /\ r.todo = ToNotify(s) /\ r.done = pass[s].done /\ r.held = ToNotify(s)
    BY <1>1, <2>2 DEF Pass
  <2> HIDE DEF r
  <2>4. pass'[s] = r /\ pass' = [pass EXCEPT ![s] = pass'[s]]
    BY <1>2, <2>1, <2>3 DEF r
  <2> QED
    BY <2>1, <2>3, <2>4 DEF Moved
<1>4. ASSUME NEW k \in Keys, Push(s, k)
      PROVE  Moved(s, "sending", pass[s].todo \ {k}, pass[s].done \cup {k}, pass[s].held)
  <2> DEFINE r == [pass[s] EXCEPT !.todo = pass[s].todo \ {k}, !.done = pass[s].done \cup {k}]
  <2>1. pass' = [pass EXCEPT ![s] = r] /\ pass[s].pc = "sending"
    BY <1>1, <1>4 DEF Push
  <2>2. /\ r \in Pass /\ r.pc = "sending" /\ r.now = pass[s].now /\ r.changes = pass[s].changes
        /\ r.todo = pass[s].todo \ {k} /\ r.done = pass[s].done \cup {k} /\ r.held = pass[s].held
    BY <1>1, <2>1 DEF Pass
  <2> HIDE DEF r
  <2>3. pass'[s] = r /\ pass' = [pass EXCEPT ![s] = pass'[s]]
    BY <1>2, <2>1, <2>2
  <2> QED
    BY <2>2, <2>3 DEF Moved
<1>5. ASSUME NEW k \in Keys, PushCleaning(s, k) PROVE Moved(s, "sending", pass[s].todo \ {k}, {k}, {})
  <2> DEFINE r == [pass[s] EXCEPT !.todo = pass[s].todo \ {k}, !.done = {k}, !.held = {}]
  <2>1. pass' = [pass EXCEPT ![s] = r] /\ pass[s].pc = "sending"
    BY <1>1, <1>5 DEF PushCleaning
  <2>2. /\ r \in Pass /\ r.pc = "sending" /\ r.now = pass[s].now /\ r.changes = pass[s].changes
        /\ r.todo = pass[s].todo \ {k} /\ r.done = {k} /\ r.held = {}
    BY <1>1, <2>1 DEF Pass
  <2> HIDE DEF r
  <2>3. pass'[s] = r /\ pass' = [pass EXCEPT ![s] = pass'[s]]
    BY <1>2, <2>1, <2>2
  <2> QED
    BY <2>2, <2>3 DEF Moved
<1>6. ASSUME NotifyCommit(s) PROVE Moved(s, "expire", pass[s].todo, {}, {})
  <2> DEFINE r == [pass[s] EXCEPT !.pc = "expire", !.done = {}, !.held = {}]
  <2>1. pass' = [pass EXCEPT ![s] = r]
    BY <1>1, <1>6 DEF NotifyCommit
  <2>2. /\ r \in Pass /\ r.pc = "expire" /\ r.now = pass[s].now /\ r.changes = pass[s].changes
        /\ r.todo = pass[s].todo /\ r.done = {} /\ r.held = {}
    BY <1>1 DEF Pass
  <2> HIDE DEF r
  <2>3. pass'[s] = r /\ pass' = [pass EXCEPT ![s] = pass'[s]]
    BY <1>2, <2>1, <2>2
  <2> QED
    BY <2>2, <2>3 DEF Moved
<1> QED
  BY <1>3, <1>4, <1>5, <1>6

\* A session that has locked the trigger has one that is due.
ClaimIsDue ==
    \A s \in Schedulers :
        pass[s].pc = "claiming" => status = "active" /\ next # NoTime /\ next <= pass[s].now

LEMMA TypeStep == TypeOK /\ ClaimIsDue /\ [Next]_vars => TypeOK'
<1> SUFFICES ASSUME TypeOK, ClaimIsDue, [Next]_vars PROVE TypeOK'
  OBVIOUS
<1> USE FreshRows
<1>1. CASE Tick
  <2>1. now' \in 0 .. Horizon
    BY <1>1, AutomationAssumption DEF TypeOK, Tick
  <2> QED
    BY <1>1, <2>1 DEF TypeOK, Tick, userVars, historyVars
<1>2. ASSUME NEW s \in Schedulers, BeginPass(s) PROVE TypeOK'
  <2> DEFINE changes == {[key |-> k, old |-> item[k], new |-> Synced(k)] :
                            k \in {j \in Keys : Open(j) /\ Synced(j) # item[j]}}
  <2>1. changes \in SUBSET Change
    BY SyncedType DEF Change, TypeOK
  <2> HIDE DEF changes
  <2>2. pass' \in [Schedulers -> Pass]
    BY <1>2, <2>1 DEF BeginPass, TypeOK, Pass, Idle, changes, Change
  <2> QED
    BY <1>2, <2>2 DEF BeginPass, TypeOK, userVars, historyVars
<1>3. ASSUME NEW s \in Schedulers, SyncCommit(s) PROVE TypeOK'
  <2>1. item' \in [Keys -> Row]
    <3>1. ASSUME NEW k \in Keys, k \in {c.key : c \in pass[s].changes}
          PROVE  (CHOOSE c \in pass[s].changes : c.key = k) \in Change
      BY <3>1 DEF TypeOK, Pass, Change
    <3> QED
      BY <1>3, <3>1, StoreType DEF SyncCommit, TypeOK
  <2> QED
    BY <1>3, <2>1 DEF SyncCommit, TypeOK, Pass, userVars, historyVars
<1>4. ASSUME NEW s \in Schedulers, Claim(s) PROVE TypeOK'
  BY <1>4 DEF Claim, Goto, TypeOK, Pass, userVars, historyVars
<1>5. ASSUME NEW s \in Schedulers, ClaimCommit(s) PROVE TypeOK'
  <2>1. next # NoTime
    BY <1>5 DEF ClaimCommit, ClaimIsDue
  <2> QED
    BY <1>5, <2>1, FollowingType
    DEF ClaimCommit, Goto, TypeOK, Pass, RunRow, historyVars
<1>6. ASSUME NEW s \in Schedulers, ClaimRaises(s) \/ StaleData(s) \/ PassFails(s) PROVE TypeOK'
  BY <1>6 DEF ClaimRaises, StaleData, PassFails, Abort, EndPass, TypeOK, userVars, historyVars
<1>7. ASSUME NEW s \in Schedulers, NotifyRead(s) PROVE TypeOK'
  <2>1. pass' \in [Schedulers -> Pass]
    BY <1>7, PassMoves DEF Moved, TypeOK
  <2> QED
    BY <1>7, <2>1 DEF NotifyRead, TypeOK, userVars, historyVars
<1>8. ASSUME NEW s \in Schedulers, NEW k \in Keys, Push(s, k) PROVE TypeOK'
  <2>1. pass' \in [Schedulers -> Pass]
    BY <1>8, PassMoves DEF Moved, TypeOK
  <2> QED
    BY <1>8, <2>1 DEF Push, TypeOK, userVars
<1>9. ASSUME NEW s \in Schedulers, NEW k \in Keys, PushCleaning(s, k) PROVE TypeOK'
  <2>1. pass' \in [Schedulers -> Pass]
    BY <1>9, PassMoves DEF Moved, TypeOK
  <2>2. item' \in [Keys -> Row]
    BY <1>9 DEF PushCleaning, Notified, TypeOK, Row
  <2>3. pushes' \in [Keys -> Nat] /\ faults' \in Nat
    BY <1>9 DEF PushCleaning, TypeOK
  <2> QED
    BY <1>9, <2>1, <2>2, <2>3 DEF PushCleaning, TypeOK, userVars
<1>10. ASSUME NEW s \in Schedulers, NotifyCommit(s) PROVE TypeOK'
  <2>1. pass' \in [Schedulers -> Pass]
    BY <1>10, PassMoves DEF Moved, TypeOK
  <2> QED
    BY <1>10, <2>1 DEF NotifyCommit, Notified, TypeOK, Row, userVars, historyVars
<1>11. ASSUME NEW s \in Schedulers, ExpireRead(s) PROVE TypeOK'
  <2>1. pass' \in [Schedulers -> Pass]
    BY <1>11 DEF ExpireRead, TypeOK, Pass
  <2> QED
    BY <1>11, <2>1 DEF ExpireRead, TypeOK, userVars, historyVars
<1>12. ASSUME NEW s \in Schedulers, ExpireCommit(s) PROVE TypeOK'
  BY <1>12 DEF ExpireCommit, NoteRewritten, EndPass, TypeOK, Row, RunStatus, Terminal, userVars
<1>13. ASSUME NEW t \in {"active", "paused"}, SetStatus(t) PROVE TypeOK'
  BY <1>13 DEF SetStatus, Request, TypeOK, historyVars
<1>14. CASE RunNow
  BY <1>14, KeysSplit DEF RunNow, Request, TypeOK, RunRow, historyVars
<1>15. CASE Delete
  BY <1>15 DEF Delete, Request, TypeOK, historyVars
<1>16. ASSUME NEW k \in Keys, CancelRun(k) PROVE TypeOK'
  BY <1>16 DEF CancelRun, Request, TypeOK, RunStatus, Terminal, historyVars
<1>17. ASSUME NEW k \in Keys, NEW d \in {"approved", "denied"}, DecideRead(k, d) PROVE TypeOK'
  BY <1>17 DEF DecideRead, TypeOK, historyVars
<1>18. ASSUME NEW k \in Keys, DecideCommit(k) PROVE TypeOK'
  <2>1. PICK end \in {"queued", "cancelled"} :
            run' = [run EXCEPT ![k] = [run[k] EXCEPT !.approval = deciding[k], !.status = end]]
    BY <1>18 DEF DecideCommit, TypeOK
  <2>2. [run[k] EXCEPT !.approval = deciding[k], !.status = end] \in RunRow
    <3>1. deciding[k] \in {"approved", "denied"} /\ end \in RunStatus
      BY <1>18 DEF DecideCommit, TypeOK, RunStatus, Terminal
    <3> QED
      BY <3>1 DEF TypeOK, RunRow
  <2>3. run' \in [Keys -> RunRow]
    BY <2>1, <2>2 DEF TypeOK, RunRow
  <2> QED
    BY <1>18, <2>3 DEF DecideCommit, NoteRewritten, TypeOK, RunRow
<1>19. ASSUME NEW k \in Keys, StartAttempt(k) PROVE TypeOK'
  BY <1>19 DEF StartAttempt, RunFrame, TypeOK, userVars
<1>20. ASSUME NEW k \in Keys, EndAttempt(k) PROVE TypeOK'
  <2>1. PICK outcome \in {"succeeded", "cancelled"} :
            run' = [run EXCEPT ![k] = [run[k] EXCEPT !.attempt = FALSE, !.status = outcome]]
    BY <1>20 DEF EndAttempt, TypeOK
  <2>2. [run[k] EXCEPT !.attempt = FALSE, !.status = outcome] \in RunRow
    BY DEF TypeOK, RunRow, RunStatus, Terminal
  <2>3. run' \in [Keys -> RunRow]
    BY <2>1, <2>2 DEF TypeOK, RunRow
  <2> QED
    BY <1>20, <2>3 DEF EndAttempt, NoteRewritten, RunFrame, TypeOK, RunRow, userVars
<1>21. ASSUME NEW k \in Keys, AskApproval(k) PROVE TypeOK'
  BY <1>21, AutomationAssumption
     DEF AskApproval, NoteRewritten, RunFrame, TypeOK, RunStatus, Terminal, userVars
<1>22. CASE UNCHANGED vars
  BY <1>22 DEF vars, TypeOK, userVars, historyVars
<1> QED
  BY <1>1, <1>2, <1>3, <1>4, <1>5, <1>6, <1>7, <1>8, <1>9, <1>10, <1>11, <1>12, <1>13, <1>14, <1>15,
     <1>16, <1>17, <1>18, <1>19, <1>20, <1>21, <1>22 DEF Next, Step

-----------------------------------------------------------------------------
(* The lock of the trigger, and the rows.                                    *)

OneClaims ==
    \A s, t \in Schedulers : pass[s].pc = "claiming" /\ pass[t].pc = "claiming" => s = t

\* Steps of a pass other than those of the claim
PassStep(s) ==
    \/ BeginPass(s) \/ SyncCommit(s) \/ ClaimRaises(s)
    \/ NotifyRead(s) \/ (\E k \in Keys : Push(s, k) \/ PushCleaning(s, k)) \/ NotifyCommit(s)
    \/ ExpireRead(s) \/ ExpireCommit(s) \/ StaleData(s) \/ PassFails(s)

\* Steps of handlers and workers that leave the automation alone
RunStep ==
    \E k \in Keys :
        \/ CancelRun(k) \/ DecideCommit(k)
        \/ \E d \in {"approved", "denied"} : DecideRead(k, d)
        \/ StartAttempt(k) \/ EndAttempt(k) \/ AskApproval(k)

LEMMA StepKinds ==
    [Next]_vars =>
        \/ \E s \in Schedulers : PassStep(s) \/ Claim(s) \/ ClaimCommit(s)
        \/ \E t \in {"active", "paused"} : SetStatus(t)
        \/ RunNow \/ Delete \/ RunStep \/ Tick \/ UNCHANGED vars
BY DEF Next, Step, PassStep, RunStep

LEMMA PassStepFrame ==
    ASSUME TypeOK, NEW s \in Schedulers, PassStep(s)
    PROVE  /\ UNCHANGED <<plan, status, next>>
           /\ pass'[s].pc # "claiming"
           /\ \A t \in Schedulers \ {s} : pass'[t] = pass[t]
<1> pass \in [Schedulers -> Pass]
  BY DEF TypeOK
<1>1. CASE BeginPass(s) \/ SyncCommit(s)
  BY <1>1 DEF BeginPass, SyncCommit, Idle, Pass, userVars
<1>2. CASE NotifyRead(s) \/ NotifyCommit(s) \/ \E k \in Keys : Push(s, k) \/ PushCleaning(s, k)
  BY <1>2, PassMoves DEF Moved, NotifyRead, NotifyCommit, Push, PushCleaning, userVars
<1>3. CASE ExpireRead(s)
  BY <1>3 DEF ExpireRead, Idle, Pass, userVars
<1>4. CASE ExpireCommit(s)
  BY <1>4 DEF ExpireCommit, EndPass, Idle, userVars
<1>5. CASE ClaimRaises(s) \/ StaleData(s) \/ PassFails(s)
  BY <1>5 DEF ClaimRaises, StaleData, PassFails, Abort, EndPass, Idle, userVars
<1> QED
  BY <1>1, <1>2, <1>3, <1>4, <1>5 DEF PassStep

LEMMA RunStepFrame == RunStep \/ Tick => UNCHANGED <<plan, status, next, item, pass>>
BY DEF RunStep, Tick, CancelRun, Request, DecideRead, DecideCommit, StartAttempt, EndAttempt,
       AskApproval, RunFrame, userVars, historyVars

LEMMA LockStep ==
    TypeOK /\ ClaimIsDue /\ OneClaims /\ [Next]_vars => ClaimIsDue' /\ OneClaims'
<1> SUFFICES ASSUME TypeOK, ClaimIsDue, OneClaims, [Next]_vars PROVE ClaimIsDue' /\ OneClaims'
  OBVIOUS
<1>1. ASSUME NEW s \in Schedulers, PassStep(s) PROVE ClaimIsDue' /\ OneClaims'
  BY <1>1, PassStepFrame DEF ClaimIsDue, OneClaims
<1>2. ASSUME NEW s \in Schedulers, Claim(s) PROVE ClaimIsDue' /\ OneClaims'
  BY <1>2 DEF Claim, Goto, Due, Claiming, ClaimIsDue, OneClaims, TypeOK, Pass, userVars
<1>3. ASSUME NEW s \in Schedulers, ClaimCommit(s) PROVE ClaimIsDue' /\ OneClaims'
  <2>1. \A t \in Schedulers : pass'[t].pc # "claiming"
    BY <1>3 DEF ClaimCommit, Goto, OneClaims, TypeOK, Pass
  <2> QED
    BY <2>1 DEF ClaimIsDue, OneClaims
<1>4. CASE (\E t \in {"active", "paused"} : SetStatus(t)) \/ Delete
  <2>1. UNCHANGED pass /\ \A s \in Schedulers : pass[s].pc # "claiming"
    BY <1>4 DEF SetStatus, Delete, Request, Claiming
  <2> QED
    BY <2>1 DEF ClaimIsDue, OneClaims
<1>5. CASE RunNow \/ RunStep \/ Tick \/ UNCHANGED vars
  <2>1. UNCHANGED <<status, next, pass>>
    BY <1>5, RunStepFrame DEF RunNow, Request, vars, userVars
  <2> QED
    BY <2>1 DEF ClaimIsDue, OneClaims
<1> QED
  BY <1>1, <1>2, <1>3, <1>4, <1>5, StepKinds

\* A row of the history has its run, also in a session that has read it.
RowsHaveRuns ==
    /\ \A k \in Keys : item[k].status # "none" => run[k].status # "none"
    /\ \A s \in Schedulers : \A c \in pass[s].changes : c.new.status # "none"

\* The same rows exist before and after a step.
RowsStay == \A k \in Keys : item'[k].status = "none" <=> item[k].status = "none"

LEMMA RunsStay ==
    TypeOK /\ [Next]_vars =>
        \A k \in Keys : run[k].status # "none" => run'[k].status # "none"
<1> SUFFICES ASSUME TypeOK, [Next]_vars, NEW k \in Keys, run[k].status # "none"
             PROVE  run'[k].status # "none"
  OBVIOUS
<1> run \in [Keys -> RunRow]
  BY DEF TypeOK, RunRow
<1>1. ASSUME NEW s \in Schedulers, PassStep(s) PROVE run'[k].status # "none"
  <2>1. CASE ExpireRead(s) \/ ExpireCommit(s)
    BY <2>1 DEF ExpireRead, ExpireCommit, RunRow
  <2>2. CASE ~(ExpireRead(s) \/ ExpireCommit(s))
    BY <1>1, <2>2 DEF PassStep, BeginPass, SyncCommit, ClaimRaises, NotifyRead, Push, PushCleaning,
       NotifyCommit, StaleData, PassFails, Abort
  <2> QED
    BY <2>1, <2>2
<1>2. ASSUME NEW s \in Schedulers, Claim(s) \/ ClaimCommit(s) PROVE run'[k].status # "none"
  <2>1. NewRun.status # "none"
    BY DEF NewRun, NoRun
  <2> QED
    BY <1>2, <2>1 DEF Claim, ClaimCommit
<1>3. CASE RunStep
  BY <1>3 DEF RunStep, CancelRun, DecideRead, DecideCommit, StartAttempt, EndAttempt, AskApproval,
       RunFrame, TypeOK
<1>4. CASE (\E t \in {"active", "paused"} : SetStatus(t)) \/ RunNow \/ Delete \/ Tick \/ UNCHANGED vars
  BY <1>4 DEF SetStatus, RunNow, Delete, Tick, NewRun, vars, TypeOK
<1> QED
  BY <1>1, <1>2, <1>3, <1>4, StepKinds

LEMMA RowsOfPass ==
    ASSUME TypeOK, RowsHaveRuns, NEW s \in Schedulers, PassStep(s)
    PROVE  RowsStay /\ \A c \in pass'[s].changes : c.new.status # "none"
<1>1. CASE BeginPass(s)
  <2>1. ASSUME NEW k \in Keys, Open(k) PROVE Synced(k).status # "none"
    BY <2>1, SyncedType DEF Open, RowsHaveRuns
  <2> QED
    BY <1>1, <2>1 DEF BeginPass, RowsStay, Idle, TypeOK
<1>2. CASE SyncCommit(s)
  <2>1. ASSUME NEW k \in Keys, k \in {c.key : c \in pass[s].changes}
        PROVE  item[k].status # "none" /\ item'[k].status # "none"
    <3> DEFINE c == CHOOSE c \in pass[s].changes : c.key = k
    <3>1. c \in pass[s].changes
      BY <2>1
    <3> HIDE DEF c
    <3>2. c \in Change /\ item[k] \in Row /\ c.new.status # "none"
      BY <3>1 DEF TypeOK, Pass, Change, RowsHaveRuns
    <3>3. item[k].status # "none"
      BY <1>2, <2>1 DEF SyncCommit, Gone
    <3>4. item'[k] = Store(item[k], c)
      BY <1>2, <2>1 DEF SyncCommit, c
    <3>5. Store(item[k], c).status \in {item[k].status, c.new.status}
      BY <3>2, StoreType
    <3> QED
      BY <3>2, <3>3, <3>4, <3>5
  <2>2. ASSUME NEW k \in Keys, k \notin {c.key : c \in pass[s].changes} PROVE item'[k] = item[k]
    BY <1>2, <2>2 DEF SyncCommit
  <2>3. pass'[s].changes = {}
    BY <1>2 DEF SyncCommit, TypeOK, Pass
  <2> QED
    BY <2>1, <2>2, <2>3 DEF RowsStay
<1>3. CASE (\E k \in Keys : PushCleaning(s, k)) \/ NotifyCommit(s)
  <2>1. \A k \in Keys : item'[k].status = item[k].status
    <3>1. item' = Notified(pass[s].done)
      BY <1>3 DEF PushCleaning, NotifyCommit
    <3> QED
      BY <3>1 DEF Notified, TypeOK, Row
  <2>2. pass'[s].changes = pass[s].changes
    BY <1>3, PassMoves DEF Moved
  <2> QED
    BY <2>1, <2>2 DEF RowsStay, RowsHaveRuns
<1>4. CASE ExpireCommit(s)
  BY <1>4 DEF ExpireCommit, Gone, EndPass, Idle, RowsStay, TypeOK, Row
<1>5. CASE ClaimRaises(s) \/ StaleData(s) \/ PassFails(s)
  BY <1>5 DEF ClaimRaises, StaleData, PassFails, Abort, EndPass, Idle, RowsStay, TypeOK
<1>6. CASE NotifyRead(s) \/ (\E k \in Keys : Push(s, k)) \/ ExpireRead(s)
  <2>1. pass \in [Schedulers -> Pass]
    BY DEF TypeOK
  <2>2. UNCHANGED item /\ pass'[s].changes \subseteq pass[s].changes
    <3>1. CASE NotifyRead(s) \/ \E k \in Keys : Push(s, k)
      BY <3>1, PassMoves DEF Moved, NotifyRead, Push
    <3>2. CASE ExpireRead(s)
      BY <2>1, <3>2 DEF ExpireRead, Idle, Pass
    <3> QED
      BY <1>6, <3>1, <3>2
  <2> QED
    BY <2>2 DEF RowsStay, RowsHaveRuns
<1> QED
  BY <1>1, <1>2, <1>3, <1>4, <1>5, <1>6 DEF PassStep

LEMMA RowsStep == TypeOK /\ RowsHaveRuns /\ [Next]_vars => RowsHaveRuns'
<1> SUFFICES ASSUME TypeOK, RowsHaveRuns, [Next]_vars PROVE RowsHaveRuns'
  OBVIOUS
<1>1. \A k \in Keys : run[k].status # "none" => run'[k].status # "none"
  BY RunsStay
<1>2. CASE RowsStay /\ \A s \in Schedulers : \A c \in pass'[s].changes : c.new.status # "none"
  BY <1>1, <1>2 DEF RowsStay, RowsHaveRuns
<1>3. ASSUME NEW s \in Schedulers, PassStep(s) PROVE RowsHaveRuns'
  BY <1>2, <1>3, RowsOfPass, PassStepFrame DEF RowsHaveRuns
<1>4. ASSUME NEW s \in Schedulers, Claim(s) PROVE RowsHaveRuns'
  <2>1. UNCHANGED item /\ \A t \in Schedulers : pass'[t].changes = pass[t].changes
    BY <1>4 DEF Claim, Goto, TypeOK, Pass
  <2> QED
    BY <1>2, <2>1 DEF RowsStay, RowsHaveRuns
<1>5. ASSUME NEW s \in Schedulers, ClaimCommit(s) PROVE RowsHaveRuns'
  <2>1. \A t \in Schedulers : pass'[t].changes = pass[t].changes
    BY <1>5 DEF ClaimCommit, Goto, TypeOK, Pass
  <2>2. \A k \in Keys : item'[k].status # "none" => run'[k].status # "none"
    BY <1>1, <1>5, FreshRows DEF ClaimCommit, RowsHaveRuns, NewRun, NoRun, TypeOK
  <2> QED
    BY <2>1, <2>2 DEF RowsHaveRuns
<1>6. CASE RunNow
  BY <1>1, <1>6 DEF RunNow, Request, RowsHaveRuns, NewRun, NoRun, TypeOK
<1>7. CASE Delete
  BY <1>7, FreshRows DEF Delete, Request, RowsHaveRuns
<1>8. CASE (\E t \in {"active", "paused"} : SetStatus(t)) \/ RunStep \/ Tick \/ UNCHANGED vars
  <2>1. UNCHANGED <<item, pass>>
    BY <1>8, RunStepFrame DEF SetStatus, Request, vars
  <2> QED
    BY <1>2, <2>1 DEF RowsStay, RowsHaveRuns
<1> QED
  BY <1>3, <1>4, <1>5, <1>6, <1>7, <1>8, StepKinds

-----------------------------------------------------------------------------
(* The schedule.                                                             *)

\* next_run_at is a time of the rule.
RuleHolds ==
    status # "deleted" =>
        IF plan.type = "once" THEN next \in {plan.at, NoTime}
        ELSE next # NoTime /\ next > 0 /\ Matches(plan.cron, Wall(plan.zone, next))

\* ScheduleCovered, for one time
Covered(t) ==
    plan.type = "once" \/ ~Repeated(t) =>
        (t \in Planned <=> t \in Elapsed)

LEMMA CoveredEach ==
    TypeOK /\ RuleHolds =>
        (ScheduleCovered <=> (status # "deleted" => \A t \in Nat \ {0} : Covered(t)))
<1> SUFFICES ASSUME TypeOK, RuleHolds
             PROVE  ScheduleCovered <=> (status # "deleted" => \A t \in Nat \ {0} : Covered(t))
  OBVIOUS
<1>1. Planned \subseteq Nat \ {0}
  BY AutomationAssumption DEF Planned, Times
<1>2. status # "deleted" => Elapsed \subseteq Nat \ {0}
  <2>1. plan.at \in Nat \ {0}
    BY AutomationAssumption DEF TypeOK
  <2>2. next \in Int \/ next = NoTime
    BY DEF TypeOK
  <2> QED
    BY <2>1, <2>2 DEF Elapsed, RuleHolds
<1> QED
  BY <1>1, <1>2 DEF ScheduleCovered, Covered

\* A step that keeps rows and trigger keeps the schedule.
LEMMA ScheduleKept ==
    ASSUME RuleHolds, ScheduleCovered, UNCHANGED <<plan, next>>,
           status' # "deleted" => status # "deleted",
           \A t \in Times : item'[t].status = "none" <=> item[t].status = "none"
    PROVE  RuleHolds' /\ ScheduleCovered'
<1>1. Planned' = Planned
  BY DEF Planned
<1>2. UNCHANGED Elapsed /\ \A t : Repeated(t)' <=> Repeated(t)
  BY DEF Elapsed, Repeated
<1>3. RuleHolds'
  BY DEF RuleHolds
<1> QED
  BY <1>1, <1>2, <1>3 DEF ScheduleCovered

\* The commit of a claim: the occurrence gets its row, and none lies between it and
\* the next.
LEMMA ScheduleClaimed ==
    ASSUME TypeOK, ClaimIsDue, RuleHolds, ScheduleCovered, NEW s \in Schedulers, ClaimCommit(s), TypeOK'
    PROVE  RuleHolds' /\ ScheduleCovered'
<1>1. /\ status = "active" /\ next # NoTime /\ next \in Nat /\ next \in Times
      /\ UNCHANGED plan /\ plan.zone \in Zone /\ next' = Following(s)
  BY AutomationAssumption, NoTimeIsNoNumber DEF ClaimCommit, ClaimIsDue, RuleHolds, TypeOK, Pass, Times
<1>2. \A t \in Times : item'[t].status # "none" <=> t = next \/ item[t].status # "none"
  BY <1>1, KeysSplit, FreshRows DEF ClaimCommit, TypeOK
<1>3. \A t \in Nat \ {0} : Covered(t)
  BY <1>1, CoveredEach
<1> DEFINE AllCovered == status # "deleted" => \A t \in Nat \ {0} : Covered(t)
<1>4. (TypeOK /\ RuleHolds => (ScheduleCovered <=> AllCovered))'
  BY CoveredEach, PTL
<1>5. CASE plan.type = "once"
  <2>1. next' = NoTime
    BY <1>1, <1>5 DEF Following
  <2>2. RuleHolds'
    BY <1>1, <1>5, <2>1 DEF RuleHolds
  <2>3. ASSUME NEW t \in Nat \ {0} PROVE Covered(t)'
    BY <1>1, <1>2, <1>3, <1>5, <2>1 DEF Covered, Planned, Elapsed, RuleHolds
  <2> QED
    BY <1>4, <2>2, <2>3
<1>6. CASE plan.type # "once"
  <2>1. /\ next' = NextOccurrence(plan.cron, plan.zone, next) /\ next' # NoTime
    BY <1>1, <1>6, AutomationAssumption DEF Following, ClaimCommit, TypeOK
  <2>2. /\ next' \in Int /\ next' > next
        /\ Matches(plan.cron, Wall(plan.zone, next'))
    BY <1>1, <2>1, NextOccurrenceFound
  <2>3. RuleHolds'
    BY <1>1, <1>6, <2>1, <2>2 DEF RuleHolds
  <2>4. ASSUME NEW t \in Nat \ {0} PROVE Covered(t)'
    <3>1. Repeated(t)' <=> Repeated(t)
      BY <1>1 DEF Repeated
    <3>2. CASE Repeated(t)
      BY <1>1, <1>6, <3>1, <3>2 DEF Covered
    <3>3. CASE ~Repeated(t)
      <4>1. t \in Planned <=> t < next /\ Matches(plan.cron, Wall(plan.zone, t))
        BY <1>1, <1>3, <1>6, <3>3 DEF Covered, Elapsed
      <4>2. t \in Planned' <=> t = next \/ t \in Planned
        BY <1>1, <1>2 DEF Planned
      <4>3. t \in Elapsed' <=> t < next' /\ Matches(plan.cron, Wall(plan.zone, t))
        BY <1>1, <1>6, <2>2 DEF Elapsed
      <4>4. ~(next < t /\ t < next' /\ Matches(plan.cron, Wall(plan.zone, t)))
        BY <1>1, <2>1, <3>3, NothingSkipped DEF Repeated
      <4>5. Matches(plan.cron, Wall(plan.zone, next))
        BY <1>1, <1>6 DEF RuleHolds
      <4> QED
        BY <1>1, <2>2, <4>1, <4>2, <4>3, <4>4, <4>5 DEF Covered
    <3> QED
      BY <3>2, <3>3
  <2> QED
    BY <1>4, <2>3, <2>4
<1> QED
  BY <1>5, <1>6

LEMMA ScheduleInit == Init => ClaimIsDue /\ OneClaims /\ RowsHaveRuns /\ RuleHolds /\ ScheduleCovered
<1> SUFFICES ASSUME Init PROVE ClaimIsDue /\ OneClaims /\ RowsHaveRuns /\ RuleHolds /\ ScheduleCovered
  OBVIOUS
<1>1. ClaimIsDue /\ OneClaims /\ RowsHaveRuns
  BY FreshRows DEF Init, Idle, ClaimIsDue, OneClaims, RowsHaveRuns
<1>2. TypeOK /\ plan \in Plans /\ plan.zone \in Zone /\ next = First(plan) /\ next # NoTime /\ next \in Nat \ {0}
  BY TypeInit, FirstType, AutomationAssumption DEF Init
<1>3. {t \in Planned : plan.type = "once" \/ ~Repeated(t)} = {}
  <2>1. Planned = {}
    BY FreshRows, KeysSplit DEF Init, Planned
  <2> QED
    BY <2>1
<1>4. CASE plan.type = "once"
  <2>1. next = plan.at /\ Elapsed = {}
    BY <1>2, <1>4 DEF First, Elapsed
  <2>2. {t \in Elapsed : plan.type = "once" \/ ~Repeated(t)} = {}
    BY <2>1
  <2>3. RuleHolds
    BY <1>4, <2>1 DEF RuleHolds
  <2>4. ScheduleCovered
    BY <1>3, <2>2, Zenon DEF ScheduleCovered
  <2> QED
    BY <1>1, <2>3, <2>4
<1>5. CASE plan.type # "once"
  <2>1. next = NextOccurrence(plan.cron, plan.zone, 0)
    BY <1>2, <1>5 DEF First
  <2>2. Matches(plan.cron, Wall(plan.zone, next))
    <3>1. 0 \in Int
      OBVIOUS
    <3> QED
      BY <1>2, <2>1, <3>1, NextOccurrenceFound, Zenon
  <2>3. ASSUME NEW t \in Elapsed PROVE Repeated(t)
    <3>1. t \in Int /\ 0 < t /\ t < next /\ Matches(plan.cron, Wall(plan.zone, t))
      BY <1>2, <1>5, <2>3 DEF Elapsed
    <3> QED
      BY <1>2, <2>1, <3>1, NothingSkipped DEF Repeated
  <2> QED
    <3>1. RuleHolds
      BY <1>2, <1>5, <2>2 DEF RuleHolds
    <3>2. {t \in Elapsed : plan.type = "once" \/ ~Repeated(t)} = {}
      BY <1>5, <2>3
    <3> QED
      BY <1>1, <1>3, <3>1, <3>2, Zenon DEF ScheduleCovered
<1> QED
  BY <1>1, <1>4, <1>5

IInv == TypeOK /\ ClaimIsDue /\ OneClaims /\ RowsHaveRuns /\ RuleHolds /\ ScheduleCovered

LEMMA ScheduleStep == IInv /\ TypeOK' /\ [Next]_vars => RuleHolds' /\ ScheduleCovered'
<1> SUFFICES ASSUME IInv, TypeOK', [Next]_vars PROVE RuleHolds' /\ ScheduleCovered'
  OBVIOUS
<1>1. ASSUME UNCHANGED <<plan, next>>, status' # "deleted" => status # "deleted",
             \A t \in Times : item'[t].status = "none" <=> item[t].status = "none"
      PROVE  RuleHolds' /\ ScheduleCovered'
  BY <1>1, ScheduleKept DEF IInv
<1>2. ASSUME NEW s \in Schedulers, PassStep(s) PROVE RuleHolds' /\ ScheduleCovered'
  <2>1. RowsStay /\ UNCHANGED <<plan, status, next>>
    BY <1>2, RowsOfPass, PassStepFrame DEF IInv
  <2> QED
    BY <1>1, <2>1, KeysSplit DEF RowsStay
<1>3. ASSUME NEW s \in Schedulers, Claim(s) PROVE RuleHolds' /\ ScheduleCovered'
  BY <1>1, <1>3 DEF Claim, userVars
<1>4. ASSUME NEW s \in Schedulers, ClaimCommit(s) PROVE RuleHolds' /\ ScheduleCovered'
  BY <1>4, ScheduleClaimed DEF IInv
<1>5. CASE \E t \in {"active", "paused"} : SetStatus(t)
  BY <1>1, <1>5 DEF SetStatus, Request
<1>6. CASE RunNow
  BY <1>1, <1>6, KeysSplit DEF RunNow, Request, IInv, TypeOK
<1>7. CASE Delete
  BY <1>7 DEF Delete, Request, RuleHolds, ScheduleCovered
<1>8. CASE RunStep \/ Tick \/ UNCHANGED vars
  BY <1>1, <1>8, RunStepFrame DEF vars, userVars
<1> QED
  BY <1>2, <1>3, <1>4, <1>5, <1>6, <1>7, <1>8, StepKinds

LEMMA Inductive == IInv /\ [Next]_vars => IInv'
<1> SUFFICES ASSUME IInv, [Next]_vars PROVE IInv'
  OBVIOUS
<1>1. TypeOK'
  BY TypeStep DEF IInv
<1>2. ClaimIsDue' /\ OneClaims' /\ RowsHaveRuns'
  BY LockStep, RowsStep DEF IInv
<1>3. RuleHolds' /\ ScheduleCovered'
  BY <1>1, ScheduleStep
<1> QED
  BY <1>1, <1>2, <1>3 DEF IInv

LEMMA AlwaysIInv == Spec => []IInv
<1>1. Init => IInv
  BY TypeInit, ScheduleInit DEF IInv
<1> QED
  BY <1>1, Inductive, PTL DEF Spec

-----------------------------------------------------------------------------
(* Announcements.  Every row has one push to come until it is notified, and  *)
(* so has each session that goes on sending without its locks; what a fault  *)
(* adds to the first it may add to each row.                                 *)

\* A run that waits has a pending approval with a time.
WaitsAsk ==
    \A k \in Keys :
        /\ run[k].status = "waiting" => run[k].approval = "pending"
        /\ run[k].approval = "pending" => run[k].expires # NoTime

\* A row that waits, or was notified, has its deadline, so that it is notified once.
DeadlineKnown(k) ==
    /\ item[k].status = "none" => ~item[k].notified
    /\ item[k].status = "waiting" \/ item[k].notified => item[k].deadline # NoTime

\* What a session is about to write does not take them back.
ChangeSound(c) ==
    /\ c.new.notified = c.old.notified
    /\ c.new.deadline = NoTime => c.old.deadline = NoTime /\ c.new.status # "waiting"
    /\ item[c.key].status # "none" /\ c.old.deadline # NoTime => item[c.key].deadline # NoTime
    /\ status # "deleted" => item[c.key].status # "none"

Sends(s) == pass[s].pc = "sending"

\* Rows are locked while they are sent, and are not notified before.
SendSound(s) ==
    /\ ~Sends(s) => pass[s].done = {} /\ pass[s].held = {}
    /\ pass[s].held \subseteq pass[s].todo \cup pass[s].done
    /\ pass[s].todo \cap pass[s].done = {}
    /\ Sends(s) => \A k \in pass[s].todo \cup pass[s].done :
          /\ item[k].status # "none" => item[k].deadline # NoTime
          /\ status # "deleted" => item[k].status # "none"
    /\ \A k \in pass[s].held \cap pass[s].todo : ~item[k].notified /\ status # "deleted"

RowsSound ==
    /\ status = "deleted" => \A k \in Keys : item[k].status = "none"
    /\ \A k \in Keys : DeadlineKnown(k)
    /\ \A s \in Schedulers : \A c \in pass[s].changes : ChangeSound(c)
    /\ \A s \in Schedulers : SendSound(s)
    /\ \A s, t \in Schedulers : s # t => pass[s].held \cap pass[t].held = {}

\* The sessions that will announce k though they have lost its lock, and whether a
\* session will that has the lock, or will read the row.
Late(k) == {s \in Schedulers : Sends(s) /\ k \in pass[s].todo \ pass[s].held}
ToAnnounce(k) ==
    /\ status # "deleted" /\ ~item[k].notified
    /\ \A s \in Schedulers : k \notin pass[s].held \cap pass[s].done

Owed(k) == IF ToAnnounce(k) THEN 1 ELSE 0
Budget(k) == pushes[k] + Cardinality(Late(k)) + Owed(k) <= 1 + (plan.faults - faults)

BudgetSound == \A k \in Keys : Budget(k)

AnnounceInv == WaitsAsk /\ RowsSound /\ BudgetSound

LEMMA PlanFaults == TypeOK => plan.faults \in Nat /\ faults \in Nat
  BY AutomationAssumption DEF TypeOK

\* A finite set with one element more or less.
LEMMA CountChange ==
    ASSUME NEW S, IsFiniteSet(S), NEW T, NEW s
    PROVE  /\ Cardinality(S) \in Nat
           /\ T \subseteq S => Cardinality(T) \in Nat /\ Cardinality(T) <= Cardinality(S)
           /\ T \subseteq S \cup {s} => Cardinality(T) \in Nat /\ Cardinality(T) <= Cardinality(S) + 1
           /\ s \in S /\ T \subseteq S \ {s} => Cardinality(T) \in Nat /\ Cardinality(T) <= Cardinality(S) - 1
<1>1. Cardinality(S) \in Nat
  BY FS_CardinalityType
<1>2. ASSUME T \subseteq S PROVE Cardinality(T) \in Nat /\ Cardinality(T) <= Cardinality(S)
  BY <1>2, FS_Subset, FS_CardinalityType
<1>3. ASSUME T \subseteq S \cup {s} PROVE Cardinality(T) \in Nat /\ Cardinality(T) <= Cardinality(S) + 1
  <2>1. IsFiniteSet(S \cup {s}) /\ Cardinality(S \cup {s}) <= Cardinality(S) + 1
    BY <1>1, FS_AddElement
  <2>2. /\ Cardinality(T) \in Nat /\ Cardinality(S \cup {s}) \in Nat
        /\ Cardinality(T) <= Cardinality(S \cup {s})
    BY <1>3, <2>1, FS_Subset, FS_CardinalityType
  <2> QED
    BY <1>1, <2>1, <2>2
<1>4. ASSUME s \in S, T \subseteq S \ {s} PROVE Cardinality(T) \in Nat /\ Cardinality(T) <= Cardinality(S) - 1
  <2>1. IsFiniteSet(S \ {s}) /\ Cardinality(S \ {s}) = Cardinality(S) - 1
    BY <1>4, FS_RemoveElement
  <2>2. Cardinality(T) \in Nat /\ Cardinality(T) <= Cardinality(S \ {s})
    BY <1>4, <2>1, FS_Subset, FS_CardinalityType
  <2> QED
    BY <2>1, <2>2
<1> QED
  BY <1>1, <1>2, <1>3, <1>4

LEMMA LateCount == \A k : IsFiniteSet(Late(k)) /\ Cardinality(Late(k)) \in Nat
<1> TAKE k
<1>1. IsFiniteSet(Schedulers) /\ Late(k) \in SUBSET Schedulers
  BY AutomationAssumption DEF Late
<1> QED
  BY <1>1, FS_Subset, FS_CardinalityType

-----------------------------------------------------------------------------
LEMMA WaitsStep == TypeOK /\ WaitsAsk /\ [Next]_vars => WaitsAsk'
<1> SUFFICES ASSUME TypeOK, WaitsAsk, [Next]_vars, NEW k \in Keys
             PROVE  /\ run'[k].status = "waiting" => run'[k].approval = "pending"
                    /\ run'[k].approval = "pending" => run'[k].expires # NoTime
  BY DEF WaitsAsk
<1> run \in [Keys -> RunRow] /\ deciding \in [Keys -> {"no", "approved", "denied"}]
  BY DEF TypeOK, RunRow
<1>0. NewRun \in RunRow /\ NewRun.status = "queued" /\ NewRun.approval = "none"
  BY FreshRows DEF NewRun, NoRun
<1> DEFINE Asks(r) == /\ r.status = "waiting" => r.approval = "pending"
                      /\ r.approval = "pending" => r.expires # NoTime
<1>1. Asks(run[k])
  BY DEF WaitsAsk
<1>2. CASE run'[k] = run[k] \/ run'[k] = NewRun
  BY <1>0, <1>1, <1>2
<1>3. CASE \E s \in Schedulers : ExpireRead(s) \/ ExpireCommit(s)
  <2>1. \/ run'[k] = run[k] \/ run'[k] = [run[k] EXCEPT !.token = TRUE]
        \/ run'[k] = [run[k] EXCEPT !.status = "cancelled"]
    BY <1>3 DEF ExpireRead, ExpireCommit
  <2> QED
    BY <1>1, <2>1 DEF RunRow
<1>4. CASE RunStep
  <2>1. \/ run'[k] = run[k]
        \/ run'[k] = [run[k] EXCEPT !.status = "cancelled", !.token = TRUE]
        \/ \E a \in {"approved", "denied"}, e \in {"queued", "cancelled"} :
              run'[k] = [run[k] EXCEPT !.approval = a, !.status = e]
        \/ run'[k] = [run[k] EXCEPT !.attempt = TRUE]
        \/ \E e \in {"succeeded", "cancelled"} : run'[k] = [run[k] EXCEPT !.attempt = FALSE, !.status = e]
        \/ run'[k] = [run[k] EXCEPT !.attempt = FALSE, !.status = "waiting", !.approval = "pending",
                                    !.expires = now + Patience]
    <3> PICK i \in Keys : \/ CancelRun(i) \/ DecideCommit(i)
                          \/ \E d \in {"approved", "denied"} : DecideRead(i, d)
                          \/ StartAttempt(i) \/ EndAttempt(i) \/ AskApproval(i)
      BY <1>4 DEF RunStep
    <3>1. CASE i # k
      <4>1. run'[k] = run[k]
        BY <3>1 DEF CancelRun, DecideCommit, DecideRead, StartAttempt, EndAttempt, AskApproval, RunFrame
      <4> QED
        BY <4>1
    <3>2. CASE i = k /\ (CancelRun(i) \/ StartAttempt(i) \/ \E d \in {"approved", "denied"} : DecideRead(i, d))
      BY <3>2 DEF CancelRun, DecideRead, StartAttempt
    <3>3. CASE i = k /\ DecideCommit(i)
      BY <3>3 DEF DecideCommit
    <3>4. CASE i = k /\ EndAttempt(i)
      BY <3>4 DEF EndAttempt
    <3>5. CASE i = k /\ AskApproval(i)
      BY <3>5 DEF AskApproval
    <3> QED
      BY <3>1, <3>2, <3>3, <3>4, <3>5
  <2>2. now + Patience # NoTime
    BY NoTimeIsNoNumber, AutomationAssumption DEF TypeOK
  <2> QED
    BY <1>1, <2>1, <2>2 DEF RunRow
<1>5. CASE RunNow \/ \E s \in Schedulers : ClaimCommit(s)
  BY <1>2, <1>5 DEF RunNow, ClaimCommit
<1>6. CASE ~RunStep /\ ~RunNow /\ ~\E s \in Schedulers : ClaimCommit(s) \/ ExpireRead(s) \/ ExpireCommit(s)
  <2>1. UNCHANGED run
    BY <1>6 DEF Next, Step, RunStep, Tick, BeginPass, SyncCommit, Claim, ClaimRaises, NotifyRead, Push,
       PushCleaning, NotifyCommit, StaleData, PassFails, Abort, SetStatus, Delete, vars
  <2> QED
    BY <1>2, <2>1
<1> QED
  BY <1>3, <1>4, <1>5, <1>6

\* What a session reads is sound.
LEMMA SyncedSound ==
    ASSUME TypeOK, WaitsAsk, RowsSound, RowsHaveRuns, NEW k \in Keys, Open(k)
    PROVE  ChangeSound([key |-> k, old |-> item[k], new |-> Synced(k)])
<1>1. DeadlineKnown(k) /\ item[k] \in Row /\ item[k].status # "none"
  BY DEF RowsSound, TypeOK, Open
<1>2. run[k].status = "waiting" => run[k].approval = "pending" /\ run[k].expires # NoTime
  BY DEF WaitsAsk
<1>3. CASE run[k].status = "waiting"
  <2>1. Synced(k) = [status |-> "waiting", deadline |-> run[k].expires,
                     notified |-> item[k].notified /\ item[k].deadline # NoTime]
    BY <1>2, <1>3 DEF Synced
  <2>2. Synced(k).notified = item[k].notified
    BY <1>1, <2>1 DEF DeadlineKnown, Row
  <2> QED
    BY <1>1, <1>2, <1>3, <2>1, <2>2 DEF ChangeSound
<1>4. CASE run[k].status # "waiting"
  <2>1. Synced(k) = [item[k] EXCEPT !.status = run[k].status]
    BY <1>4 DEF Synced
  <2>2. Synced(k).notified = item[k].notified /\ Synced(k).deadline = item[k].deadline
        /\ Synced(k).status = run[k].status
    BY <1>1, <2>1 DEF Row
  <2> QED
    BY <1>1, <1>4, <2>2 DEF ChangeSound
<1> QED
  BY <1>3, <1>4

-----------------------------------------------------------------------------
(* Rows: what a step that does not announce makes of them.                   *)

KeptRow(k) ==
    /\ item'[k].status = "none" <=> item[k].status = "none"
    /\ item'[k].notified = item[k].notified
    /\ item[k].deadline # NoTime => item'[k].deadline # NoTime
    /\ item'[k].status = "waiting" => item'[k].deadline # NoTime

NewRow(k) ==
    /\ status # "deleted" /\ item[k].status = "none"
    /\ item'[k].status \notin {"none", "waiting"} /\ ~item'[k].notified

LEMMA SameRow ==
    ASSUME RowsSound, NEW k \in Keys, item'[k] = item[k]
    PROVE  KeptRow(k)
  BY DEF RowsSound, DeadlineKnown, KeptRow

LEMMA SyncedRows ==
    ASSUME TypeOK, RowsSound, RowsHaveRuns, NEW s \in Schedulers, SyncCommit(s), NEW k \in Keys
    PROVE  KeptRow(k)
<1>1. CASE k \in {c.key : c \in pass[s].changes}
  <2> DEFINE d == CHOOSE c \in pass[s].changes : c.key = k
  <2>1. d \in pass[s].changes /\ d.key = k
    BY <1>1
  <2>2. item'[k] = Store(item[k], d)
    BY <1>1 DEF SyncCommit
  <2> HIDE DEF d
  <2>3. ChangeSound(d) /\ d \in Change /\ d.new.status # "none" /\ item[k] \in Row /\ DeadlineKnown(k)
    BY <2>1 DEF RowsSound, TypeOK, Pass, Change, RowsHaveRuns
  <2>4. item[k].status # "none"
    BY <1>1 DEF SyncCommit, Gone
  <2>5. /\ item'[k].status = IF d.new.status # d.old.status THEN d.new.status ELSE item[k].status
        /\ item'[k].deadline = IF d.new.deadline # d.old.deadline THEN d.new.deadline ELSE item[k].deadline
        /\ item'[k].notified = IF d.new.notified # d.old.notified THEN d.new.notified ELSE item[k].notified
    BY <2>2, <2>3 DEF Store, Row
  <2> QED
    BY <2>1, <2>3, <2>4, <2>5 DEF ChangeSound, DeadlineKnown, KeptRow
<1>2. CASE k \notin {c.key : c \in pass[s].changes}
  <2>1. item'[k] = item[k]
    BY <1>2 DEF SyncCommit
  <2> QED
    BY <2>1, SameRow
<1> QED
  BY <1>1, <1>2

LEMMA ExpiredRows ==
    ASSUME TypeOK, RowsSound, NEW s \in Schedulers, ExpireCommit(s), NEW k \in Keys
    PROVE  KeptRow(k)
<1>1. item[k] \in Row
  BY DEF TypeOK
<1>2. CASE k \in pass[s].todo
  <2>1. item'[k] = [item[k] EXCEPT !.status = "cancelled"] /\ item[k].status # "none"
    BY <1>2 DEF ExpireCommit, Gone
  <2> QED
    BY <1>1, <2>1 DEF KeptRow, Row
<1>3. CASE k \notin pass[s].todo
  <2>1. item'[k] = item[k]
    BY <1>3 DEF ExpireCommit
  <2> QED
    BY <2>1, SameRow
<1> QED
  BY <1>2, <1>3

-----------------------------------------------------------------------------
(* Steps that announce nothing.                                              *)

\* Another row of the history changes nothing for a session.
LEMMA ChangeKept ==
    ASSUME NEW c \in Change, ChangeSound(c), KeptRow(c.key) \/ NewRow(c.key),
           status' = "deleted" <=> status = "deleted"
    PROVE  ChangeSound(c)'
<1>1. CASE KeptRow(c.key)
  BY <1>1 DEF ChangeSound, KeptRow
<1>2. CASE NewRow(c.key)
  BY <1>2 DEF ChangeSound, NewRow
<1> QED
  BY <1>1, <1>2

LEMMA SendKept ==
    ASSUME TypeOK, NEW s \in Schedulers, SendSound(s), pass'[s] = pass[s],
           \A k \in Keys : KeptRow(k) \/ NewRow(k),
           status' = "deleted" <=> status = "deleted"
    PROVE  SendSound(s)'
<1>1. pass[s].todo \subseteq Keys /\ pass[s].done \subseteq Keys
  BY DEF TypeOK, Pass
<1>2. Sends(s)' <=> Sends(s)
  BY DEF Sends
<1>3. ASSUME NEW k \in pass[s].todo \cup pass[s].done, Sends(s)
      PROVE  /\ item'[k].status # "none" => item'[k].deadline # NoTime
             /\ status' # "deleted" => item'[k].status # "none"
  <2>1. k \in Keys /\ (item[k].status # "none" => item[k].deadline # NoTime)
        /\ (status # "deleted" => item[k].status # "none")
    BY <1>1, <1>3 DEF SendSound
  <2>2. CASE KeptRow(k)
    BY <2>1, <2>2 DEF KeptRow
  <2>3. CASE NewRow(k)
    BY <2>1, <2>3 DEF NewRow
  <2> QED
    BY <2>1, <2>2, <2>3
<1>4. ASSUME NEW k \in pass[s].held \cap pass[s].todo PROVE ~item'[k].notified /\ status' # "deleted"
  <2>1. k \in Keys /\ ~item[k].notified /\ status # "deleted"
    BY <1>1, <1>4 DEF SendSound
  <2> QED
    BY <2>1 DEF KeptRow, NewRow
<1> QED
  BY <1>2, <1>3, <1>4 DEF SendSound

\* A session that does not send, or the same session.
Silent(s) ==
    \/ pass'[s] = pass[s]
    \/ /\ ~Sends(s) /\ ~Sends(s)'
       /\ pass'[s].done = {} /\ pass'[s].held = {}
       /\ \A c \in pass'[s].changes : c \in Change /\ (c \in pass[s].changes \/ ChangeSound(c))

LEMMA QuietStep ==
    ASSUME TypeOK, RowsSound, BudgetSound,
           \A k \in Keys : KeptRow(k) \/ NewRow(k),
           \A s \in Schedulers : Silent(s),
           status' = "deleted" <=> status = "deleted",
           UNCHANGED <<plan, pushes>>, faults' \in Nat, faults' <= faults
    PROVE  RowsSound' /\ BudgetSound'
<1>0. pass \in [Schedulers -> Pass] /\ \A s \in Schedulers : pass[s].changes \subseteq Change
  BY DEF TypeOK, Pass, Change
<1>1. ASSUME status' = "deleted", NEW k \in Keys PROVE item'[k].status = "none"
  BY <1>1 DEF RowsSound, KeptRow, NewRow
<1>2. ASSUME NEW k \in Keys PROVE DeadlineKnown(k)'
  BY DEF RowsSound, DeadlineKnown, KeptRow, NewRow
<1>3. ASSUME NEW s \in Schedulers, NEW c \in pass'[s].changes PROVE ChangeSound(c)'
  <2>1. c \in Change /\ ChangeSound(c)
    BY <1>0 DEF Silent, RowsSound
  <2>2. c.key \in Keys
    BY <2>1 DEF Change
  <2> QED
    BY <2>1, <2>2, ChangeKept
<1>4. ASSUME NEW s \in Schedulers PROVE SendSound(s)'
  <2>1. SendSound(s)
    BY DEF RowsSound
  <2>2. CASE pass'[s] = pass[s]
    BY <2>1, <2>2, SendKept
  <2>3. CASE ~Sends(s)' /\ pass'[s].done = {} /\ pass'[s].held = {}
    BY <2>3 DEF SendSound
  <2> QED
    BY <2>2, <2>3 DEF Silent
<1>5. \A s \in Schedulers : pass'[s].held = pass[s].held \/ pass'[s].held = {}
  BY DEF Silent
<1>6. ASSUME NEW s \in Schedulers, NEW t \in Schedulers, s # t
      PROVE  pass'[s].held \cap pass'[t].held = {}
  BY <1>5, <1>6 DEF RowsSound
<1>7. ASSUME NEW k \in Keys PROVE Budget(k)'
  <2>1. \A s \in Schedulers : Sends(s)' <=> Sends(s)
    BY DEF Silent, Sends
  <2>2. Late(k)' = Late(k)
    <3>1. \A s \in Schedulers : Sends(s) => pass'[s] = pass[s]
      BY DEF Silent
    <3> QED
      BY <2>1, <3>1 DEF Late
  <2>3. ToAnnounce(k)' => ToAnnounce(k)
    <3> SUFFICES ASSUME ToAnnounce(k)' PROVE ToAnnounce(k)
      OBVIOUS
    <3>1. status # "deleted" /\ ~item[k].notified
      BY DEF ToAnnounce, KeptRow, NewRow, RowsSound, DeadlineKnown
    <3>2. ASSUME NEW s \in Schedulers PROVE k \notin pass[s].held \cap pass[s].done
      <4>1. CASE pass'[s] = pass[s]
        BY <4>1 DEF ToAnnounce
      <4>2. CASE ~Sends(s)
        BY <4>2 DEF RowsSound, SendSound
      <4> QED
        BY <4>1, <4>2 DEF Silent
    <3> QED
      BY <3>1, <3>2 DEF ToAnnounce
  <2>4. Cardinality(Late(k)) \in Nat
    BY LateCount
  <2> QED
    BY <2>2, <2>3, <2>4, PlanFaults DEF Budget, BudgetSound, Owed, TypeOK
<1> QED
  BY <1>1, <1>2, <1>3, <1>4, <1>6, <1>7 DEF RowsSound, BudgetSound

-----------------------------------------------------------------------------
(* Steps of a session that announces.                                        *)

\* Rows that are the same, but for those of a set that are notified.
Announced(keys) ==
    \A k \in Keys :
        /\ item'[k].status = item[k].status /\ item'[k].deadline = item[k].deadline
        /\ item'[k].notified = (item[k].notified \/ k \in keys)

LEMMA NotifiedRows ==
    ASSUME TypeOK, NEW keys \in SUBSET Keys, item' = Notified(keys)
    PROVE  Announced(keys)
  BY DEF Notified, Announced, TypeOK, Row

LEMMA NoneNotified ==
    ASSUME TypeOK, UNCHANGED item
    PROVE  Announced({})
<1>1. \A k \in Keys : item[k].notified \in BOOLEAN
  BY DEF TypeOK, Row
<1> QED
  BY <1>1 DEF Announced

\* What holds after such a step, of rows and sessions, whatever it counts.
LEMMA AnnouncedRows ==
    ASSUME TypeOK, RowsSound, NEW s \in Schedulers, NEW keys \in SUBSET Keys, Announced(keys),
           \A k \in keys : item[k].status # "none" /\ item[k].deadline # NoTime,
           \A t \in Schedulers \ {s} : keys \cap pass[t].held = {},
           \A t \in Schedulers \ {s} : pass'[t] = pass[t],
           \A t \in Schedulers \ {s} : pass'[s].held \cap pass[t].held = {},
           \A c \in pass'[s].changes : c \in pass[s].changes,
           UNCHANGED status, SendSound(s)'
    PROVE  RowsSound'
<1>0. \A t \in Schedulers : /\ pass[t].changes \subseteq Change
                            /\ pass[t].todo \subseteq Keys /\ pass[t].done \subseteq Keys
  BY DEF TypeOK, Pass, Change
<1>1. status' = "deleted" => \A k \in Keys : item'[k].status = "none"
  BY DEF RowsSound, Announced
<1>2. ASSUME NEW k \in Keys PROVE DeadlineKnown(k)'
  BY DEF RowsSound, DeadlineKnown, Announced
<1>3. ASSUME NEW t \in Schedulers, NEW c \in pass'[t].changes PROVE ChangeSound(c)'
  <2>1. c \in pass[t].changes /\ c.key \in Keys
    BY <1>0 DEF Change
  <2> QED
    BY <2>1 DEF RowsSound, ChangeSound, Announced
<1>4. ASSUME NEW t \in Schedulers PROVE SendSound(t)'
  <2>1. CASE t # s
    <3>1. SendSound(t) /\ pass'[t] = pass[t]
      BY <2>1 DEF RowsSound
    <3>2. ASSUME NEW k \in pass[t].todo \cup pass[t].done, Sends(t)
          PROVE  /\ item'[k].status # "none" => item'[k].deadline # NoTime
                 /\ status' # "deleted" => item'[k].status # "none"
      BY <1>0, <3>1, <3>2 DEF SendSound, Announced
    <3>3. ASSUME NEW k \in pass[t].held \cap pass[t].todo PROVE ~item'[k].notified /\ status' # "deleted"
      <4>1. k \in Keys /\ k \notin keys
        BY <1>0, <2>1, <3>3
      <4> QED
        BY <3>1, <4>1 DEF SendSound, Announced
    <3>4. Sends(t)' <=> Sends(t)
      BY <3>1 DEF Sends
    <3> QED
      BY <3>1, <3>2, <3>3, <3>4 DEF SendSound
  <2> QED
    BY <2>1
<1>5. ASSUME NEW t \in Schedulers, NEW u \in Schedulers, t # u
      PROVE  pass'[t].held \cap pass'[u].held = {}
  BY <1>5 DEF RowsSound
<1> QED
  BY <1>1, <1>2, <1>3, <1>4, <1>5 DEF RowsSound

\* The rows and the other sessions of the steps of session s.
LEMMA NotifyReadSound ==
    ASSUME TypeOK, RowsSound, NEW s \in Schedulers, NotifyRead(s)
    PROVE  RowsSound'
<1> DEFINE rows == ToNotify(s)
<1>1. PICK place \in {"expire", "sending"} :
          /\ rows = {} <=> place = "expire"
          /\ Moved(s, place, rows, pass[s].done, rows)
  BY PassMoves
<1>2. /\ pass'[s].pc = place /\ pass'[s].changes = pass[s].changes
      /\ pass'[s].todo = rows /\ pass'[s].done = {} /\ pass'[s].held = rows
      /\ \A t \in Schedulers \ {s} : pass'[t] = pass[t]
  BY <1>1 DEF Moved, NotifyRead, RowsSound, SendSound, Sends, TypeOK
<1>3. UNCHANGED <<item, status>> /\ Announced({})
  BY NoneNotified DEF NotifyRead, userVars
<1>4. \A k \in rows : /\ k \in Keys /\ item[k].status = "waiting" /\ ~item[k].notified
                      /\ item[k].deadline # NoTime /\ status # "deleted"
                      /\ \A t \in Schedulers \ {s} : k \notin pass[t].held
  BY DEF ToNotify, Blocked, RowsSound, DeadlineKnown
<1> HIDE DEF rows
<1>5. SendSound(s)'
  BY <1>1, <1>2, <1>3, <1>4 DEF SendSound, Sends
<1> QED
  BY <1>2, <1>3, <1>4, <1>5, AnnouncedRows

LEMMA PushSound ==
    ASSUME TypeOK, RowsSound, NEW s \in Schedulers, NEW k \in Keys, Push(s, k)
    PROVE  RowsSound'
<1>1. /\ pass'[s].pc = "sending" /\ pass'[s].changes = pass[s].changes
      /\ pass'[s].todo = pass[s].todo \ {k} /\ pass'[s].done = pass[s].done \cup {k}
      /\ pass'[s].held = pass[s].held
      /\ \A t \in Schedulers \ {s} : pass'[t] = pass[t]
  BY PassMoves DEF Moved, TypeOK
<1>2. UNCHANGED <<item, status>> /\ Announced({}) /\ Sends(s) /\ k \in pass[s].todo
  BY NoneNotified DEF Push, userVars, Sends
<1>3. SendSound(s)'
  BY <1>1, <1>2 DEF RowsSound, SendSound, Sends
<1>4. \A t \in Schedulers \ {s} : pass'[s].held \cap pass[t].held = {}
  BY <1>1 DEF RowsSound
<1> QED
  BY <1>1, <1>2, <1>3, <1>4, AnnouncedRows

LEMMA CommitSound ==
    ASSUME TypeOK, RowsSound, NEW s \in Schedulers,
           NotifyCommit(s) \/ \E k \in Keys : PushCleaning(s, k)
    PROVE  RowsSound' /\ Announced(pass[s].done)
<1>1. /\ item' = Notified(pass[s].done) /\ UNCHANGED status /\ Sends(s)
      /\ ~Gone(pass[s].done) /\ ~Blocked(s, pass[s].done)
      /\ pass'[s].changes = pass[s].changes /\ pass'[s].held = {}
      /\ \A t \in Schedulers \ {s} : pass'[t] = pass[t]
      /\ \/ ~Sends(s)' /\ pass'[s].done = {}
         \/ Sends(s)' /\ \E k \in pass[s].todo : pass'[s].todo = pass[s].todo \ {k} /\ pass'[s].done = {k}
  BY PassMoves DEF NotifyCommit, PushCleaning, Moved, Sends, userVars, TypeOK
<1>2. pass[s].done \in SUBSET Keys /\ pass[s].todo \subseteq Keys
  BY DEF TypeOK, Pass
<1>3. Announced(pass[s].done)
  BY <1>1, <1>2, NotifiedRows
<1>4. \A k \in pass[s].done : item[k].status # "none" /\ item[k].deadline # NoTime
  BY <1>1 DEF Gone, RowsSound, SendSound
<1>5. SendSound(s)'
  <2>1. CASE ~Sends(s)' /\ pass'[s].done = {}
    BY <1>1, <2>1 DEF SendSound
  <2>2. CASE Sends(s)' /\ \E k \in pass[s].todo : pass'[s].todo = pass[s].todo \ {k} /\ pass'[s].done = {k}
    <3>1. /\ pass'[s].todo \cap pass'[s].done = {}
          /\ pass'[s].todo \cup pass'[s].done \subseteq pass[s].todo
      BY <2>2
    <3>2. \A k \in pass[s].todo : /\ item[k].status # "none" => item[k].deadline # NoTime
                                  /\ status # "deleted" => item[k].status # "none"
      BY <1>1 DEF RowsSound, SendSound
    <3>3. \A k \in pass[s].todo : /\ item'[k].status # "none" => item'[k].deadline # NoTime
                                  /\ status' # "deleted" => item'[k].status # "none"
      BY <1>1, <1>2, <1>3, <3>2 DEF Announced
    <3>4. Sends(s)' /\ pass'[s].held = {}
      BY <1>1, <2>2
    <3>5. \A k \in pass'[s].todo \cup pass'[s].done :
              /\ item'[k].status # "none" => item'[k].deadline # NoTime
              /\ status' # "deleted" => item'[k].status # "none"
      <4> SUFFICES ASSUME NEW k \in pass'[s].todo \cup pass'[s].done
                   PROVE  /\ item'[k].status # "none" => item'[k].deadline # NoTime
                          /\ status' # "deleted" => item'[k].status # "none"
        OBVIOUS
      <4>1. k \in pass[s].todo
        BY <3>1
      <4> QED
        BY <3>3, <4>1
    <3> QED
      BY <3>1, <3>4, <3>5 DEF SendSound
  <2> QED
    BY <1>1, <2>1, <2>2
<1> QED
  BY <1>1, <1>2, <1>3, <1>4, <1>5, AnnouncedRows DEF Blocked

LEMMA AbortSound ==
    ASSUME TypeOK, RowsSound, NEW s \in Schedulers, Abort(s)
    PROVE  RowsSound'
<1>1. /\ pass'[s] = Idle /\ \A t \in Schedulers \ {s} : pass'[t] = pass[t]
      /\ UNCHANGED <<item, status>> /\ Announced({})
  BY NoneNotified DEF Abort, EndPass, userVars, TypeOK
<1>2. SendSound(s)'
  BY <1>1 DEF SendSound, Sends, Idle
<1> QED
  BY <1>1, <1>2, AnnouncedRows DEF Idle

-----------------------------------------------------------------------------
(* What is counted.                                                          *)

LEMMA NotifyReadBudget ==
    ASSUME TypeOK, RowsSound, NEW s \in Schedulers, NotifyRead(s), NEW k \in Keys, Budget(k)
    PROVE  Budget(k)'
<1>1. /\ pass'[s].todo = pass'[s].held
      /\ \A t \in Schedulers \ {s} : pass'[t] = pass[t]
  BY PassMoves DEF Moved, TypeOK
<1>2. UNCHANGED <<item, status, plan, faults, pushes>> /\ pass[s].held = {}
  BY DEF NotifyRead, userVars, historyVars, RowsSound, SendSound, Sends
<1>3. Late(k)' \subseteq Late(k)
  BY <1>1 DEF Late, Sends
<1>4. ToAnnounce(k)' => ToAnnounce(k)
  BY <1>1, <1>2 DEF ToAnnounce
<1>5. Cardinality(Late(k)') \in Nat /\ Cardinality(Late(k)') <= Cardinality(Late(k)) /\ Cardinality(Late(k)) \in Nat
  BY <1>3, LateCount, CountChange
<1> QED
  BY <1>2, <1>4, <1>5, PlanFaults DEF Budget, Owed, TypeOK

\* A row that a session holds and has to send is announced by it alone.
LEMMA HeldOwed ==
    ASSUME RowsSound, NEW s \in Schedulers, NEW k \in pass[s].held \cap pass[s].todo
    PROVE  Owed(k) = 1
<1>1. ~item[k].notified /\ status # "deleted" /\ k \notin pass[s].done
  BY DEF RowsSound, SendSound
<1>2. \A t \in Schedulers \ {s} : k \notin pass[t].held
  BY DEF RowsSound
<1> QED
  BY <1>1, <1>2 DEF Owed, ToAnnounce

LEMMA PushBudget ==
    ASSUME TypeOK, RowsSound, NEW s \in Schedulers, NEW i \in Keys, Push(s, i),
           NEW k \in Keys, Budget(k)
    PROVE  Budget(k)'
<1>1. /\ pass'[s].todo = pass[s].todo \ {i} /\ pass'[s].done = pass[s].done \cup {i}
      /\ pass'[s].held = pass[s].held /\ pass'[s].pc = "sending"
      /\ \A t \in Schedulers \ {s} : pass'[t] = pass[t]
  BY PassMoves DEF Moved, TypeOK
<1>2. /\ UNCHANGED <<item, status, plan, faults>> /\ i \in pass[s].todo /\ Sends(s)
      /\ pushes'[k] = IF k = i THEN pushes[k] + 1 ELSE pushes[k]
  BY DEF Push, userVars, Sends, TypeOK
<1>3. Late(k)' \subseteq Late(k)
  BY <1>1, <1>2 DEF Late, Sends
<1>4. Cardinality(Late(k)') \in Nat /\ Cardinality(Late(k)') <= Cardinality(Late(k)) /\ Cardinality(Late(k)) \in Nat
  BY <1>3, LateCount, CountChange
<1>5. pushes[k] \in Nat
  BY DEF TypeOK
<1>6. CASE k = i /\ k \in pass[s].held
  <2>1. Owed(k) = 1
    BY <1>2, <1>6, HeldOwed
  <2>2. Owed(k)' = 0
    BY <1>1, <1>6 DEF Owed, ToAnnounce
  <2> QED
    BY <1>2, <1>4, <1>5, <1>6, <2>1, <2>2, PlanFaults DEF Budget
<1>7. CASE k # i \/ k \notin pass[s].held
  <2>1. ToAnnounce(k)' => ToAnnounce(k)
    BY <1>1, <1>2, <1>7 DEF ToAnnounce
  <2>2. CASE k # i
    BY <1>2, <1>4, <1>5, <2>1, <2>2, PlanFaults DEF Budget, Owed
  <2>3. CASE k = i
    <3>1. s \in Late(k) /\ Late(k)' \subseteq Late(k) \ {s}
      BY <1>1, <1>2, <1>3, <1>7, <2>3 DEF Late
    <3>2. Cardinality(Late(k)') <= Cardinality(Late(k)) - 1
      BY <3>1, LateCount, CountChange
    <3> QED
      BY <1>2, <1>4, <1>5, <2>1, <2>3, <3>2, PlanFaults DEF Budget, Owed
  <2> QED
    BY <2>2, <2>3
<1> QED
  BY <1>6, <1>7

\* A dead subscription takes the locks of the session and one fault.
LEMMA CleaningBudget ==
    ASSUME TypeOK, RowsSound, NEW s \in Schedulers, NEW i \in Keys, PushCleaning(s, i),
           NEW k \in Keys, Budget(k)
    PROVE  Budget(k)'
<1>1. /\ pass'[s].todo = pass[s].todo \ {i} /\ pass'[s].done = {i}
      /\ pass'[s].held = {} /\ pass'[s].pc = "sending"
      /\ \A t \in Schedulers \ {s} : pass'[t] = pass[t]
  BY PassMoves DEF Moved, TypeOK
<1>2. /\ UNCHANGED plan /\ i \in pass[s].todo /\ Sends(s)
      /\ faults' = faults - 1
      /\ pushes'[k] = IF k = i THEN pushes[k] + 1 ELSE pushes[k]
  BY DEF PushCleaning, Sends, TypeOK
<1>3. Late(k)' \subseteq Late(k) \cup {s}
  BY <1>1 DEF Late, Sends
<1>4. /\ Cardinality(Late(k)') \in Nat /\ Cardinality(Late(k)') <= Cardinality(Late(k)) + 1
      /\ Cardinality(Late(k)) \in Nat
  BY <1>3, LateCount, CountChange
<1>5. pushes[k] \in Nat /\ Owed(k) \in {0, 1} /\ Owed(k)' \in {0, 1}
  BY DEF TypeOK, Owed
<1>6. CASE k # i /\ k \in pass[s].held \cap pass[s].todo
  <2>1. Owed(k) = 1
    BY <1>6, HeldOwed
  <2> QED
    BY <1>2, <1>4, <1>5, <1>6, <2>1, PlanFaults DEF Budget
<1>7. CASE k # i /\ k \notin pass[s].held \cap pass[s].todo
  <2>1. Late(k)' \subseteq Late(k)
    BY <1>1, <1>2, <1>7 DEF Late, Sends
  <2>2. Cardinality(Late(k)') <= Cardinality(Late(k))
    BY <2>1, LateCount, CountChange
  <2> QED
    BY <1>2, <1>4, <1>5, <1>7, <2>2, PlanFaults DEF Budget
<1>8. CASE k = i /\ k \in pass[s].held
  <2>1. Owed(k) = 1
    BY <1>2, <1>8, HeldOwed
  <2>2. Late(k)' \subseteq Late(k)
    BY <1>1, <1>8 DEF Late, Sends
  <2>3. Cardinality(Late(k)') <= Cardinality(Late(k))
    BY <2>2, LateCount, CountChange
  <2> QED
    BY <1>2, <1>4, <1>5, <1>8, <2>1, <2>3, PlanFaults DEF Budget
<1>9. CASE k = i /\ k \notin pass[s].held
  <2>1. s \in Late(k) /\ Late(k)' \subseteq Late(k) \ {s}
    BY <1>1, <1>2, <1>9 DEF Late, Sends
  <2>2. Cardinality(Late(k)') <= Cardinality(Late(k)) - 1
    BY <2>1, LateCount, CountChange
  <2> QED
    BY <1>2, <1>4, <1>5, <1>9, <2>2, PlanFaults DEF Budget
<1> QED
  BY <1>6, <1>7, <1>8, <1>9

LEMMA CommitBudget ==
    ASSUME TypeOK, RowsSound, NEW s \in Schedulers, NotifyCommit(s), NEW k \in Keys, Budget(k)
    PROVE  Budget(k)'
<1>1. /\ pass'[s].pc = "expire" /\ pass'[s].held = {}
      /\ \A t \in Schedulers \ {s} : pass'[t] = pass[t]
  BY PassMoves DEF Moved, TypeOK
<1>2. UNCHANGED <<status, plan, faults, pushes>> /\ pass[s].todo = {}
  BY DEF NotifyCommit, userVars, historyVars
<1>3. Announced(pass[s].done)
  BY CommitSound
<1>4. Late(k)' \subseteq Late(k)
  BY <1>1 DEF Late, Sends
<1>5. Cardinality(Late(k)') \in Nat /\ Cardinality(Late(k)') <= Cardinality(Late(k)) /\ Cardinality(Late(k)) \in Nat
  BY <1>4, LateCount, CountChange
<1>6. ToAnnounce(k)' => ToAnnounce(k)
  <2> SUFFICES ASSUME ToAnnounce(k)' PROVE ToAnnounce(k)
    OBVIOUS
  <2>1. status # "deleted" /\ ~item[k].notified /\ k \notin pass[s].done
    BY <1>2, <1>3 DEF ToAnnounce, Announced
  <2>2. \A t \in Schedulers : k \notin pass[t].held \cap pass[t].done
    BY <1>1, <2>1 DEF ToAnnounce
  <2> QED
    BY <2>1, <2>2 DEF ToAnnounce
<1> QED
  BY <1>2, <1>5, <1>6, PlanFaults DEF Budget, Owed, TypeOK

\* A session that fails gives up its locks and takes one fault; one whose rows are
\* gone has nothing to announce any more.
LEMMA AbortBudget ==
    ASSUME TypeOK, RowsSound, NEW s \in Schedulers, Abort(s), NEW k \in Keys, Budget(k),
           \/ faults > 0 /\ faults' = faults - 1
           \/ faults' = faults /\ (status = "deleted" \/ ~Sends(s))
    PROVE  Budget(k)'
<1>1. /\ pass'[s] = Idle /\ \A t \in Schedulers \ {s} : pass'[t] = pass[t]
      /\ UNCHANGED <<item, status, plan, pushes>>
  BY DEF Abort, EndPass, userVars, historyVars, TypeOK
<1>2. Late(k)' \subseteq Late(k)
  BY <1>1 DEF Late, Sends, Idle
<1>3. Cardinality(Late(k)') \in Nat /\ Cardinality(Late(k)') <= Cardinality(Late(k)) /\ Cardinality(Late(k)) \in Nat
  BY <1>2, LateCount, CountChange
<1>4. pushes[k] \in Nat /\ Owed(k) \in {0, 1} /\ Owed(k)' \in {0, 1}
  BY DEF TypeOK, Owed
<1>5. CASE faults' = faults - 1
  BY <1>1, <1>3, <1>4, <1>5, PlanFaults DEF Budget
<1>6. CASE faults' = faults /\ (status = "deleted" \/ ~Sends(s))
  <2>1. ToAnnounce(k)' => ToAnnounce(k)
    BY <1>1, <1>6 DEF ToAnnounce, RowsSound, SendSound
  <2> QED
    BY <1>1, <1>3, <1>4, <1>6, <2>1, PlanFaults DEF Budget, Owed
<1> QED
  BY <1>5, <1>6

-----------------------------------------------------------------------------
LEMMA DeleteSound ==
    ASSUME TypeOK, RowsSound, BudgetSound, Delete
    PROVE  RowsSound' /\ BudgetSound'
<1>1. /\ UNCHANGED <<pass, plan, faults, pushes>> /\ status' = "deleted"
      /\ \A k \in Keys : item'[k] = Absent
      /\ \A s \in Schedulers : pass[s].held = {}
  BY DEF Delete, Request, historyVars
<1>2. Absent.status = "none" /\ ~Absent.notified
  BY DEF Absent
<1>3. \A k \in Keys : DeadlineKnown(k)'
  BY <1>1, <1>2 DEF DeadlineKnown
<1>4. ASSUME NEW s \in Schedulers, NEW c \in pass'[s].changes PROVE ChangeSound(c)'
  <2>1. ChangeSound(c) /\ c.key \in Keys
    BY <1>1 DEF RowsSound, TypeOK, Pass
  <2> QED
    BY <1>1, <1>2, <2>1 DEF ChangeSound
<1>5. ASSUME NEW s \in Schedulers PROVE SendSound(s)'
  <2>1. SendSound(s) /\ pass[s].todo \subseteq Keys /\ pass[s].done \subseteq Keys
    BY DEF RowsSound, TypeOK, Pass
  <2>2. Sends(s)' <=> Sends(s)
    BY <1>1 DEF Sends
  <2> QED
    BY <1>1, <1>2, <2>1, <2>2 DEF SendSound
<1>6. ASSUME NEW k \in Keys PROVE Budget(k)'
  <2>1. Late(k)' = Late(k) /\ Owed(k)' = 0 /\ Owed(k) \in {0, 1}
    BY <1>1 DEF Late, Sends, Owed, ToAnnounce
  <2> QED
    BY <1>1, <2>1, LateCount, PlanFaults DEF Budget, BudgetSound, TypeOK
<1> QED
  BY <1>1, <1>2, <1>3, <1>4, <1>5, <1>6 DEF RowsSound, BudgetSound

LEMMA AnnounceInit == Init => AnnounceInv
<1> SUFFICES ASSUME Init PROVE AnnounceInv
  OBVIOUS
<1>1. WaitsAsk
  BY DEF Init, WaitsAsk, NoRun
<1>2. RowsSound
  BY DEF Init, RowsSound, DeadlineKnown, Absent, SendSound, Sends, Idle
<1>3. ASSUME NEW k \in Keys PROVE Budget(k)
  <2>1. Late(k) = {}
    BY DEF Init, Late, Sends, Idle
  <2>2. Cardinality(Late(k)) = 0
    BY <2>1, FS_EmptySet
  <2>3. Owed(k) \in {0, 1} /\ pushes[k] = 0 /\ faults = plan.faults /\ plan.faults \in Nat
    BY AutomationAssumption DEF Owed, Init
  <2> QED
    BY <2>2, <2>3 DEF Budget
<1> QED
  BY <1>1, <1>2, <1>3 DEF AnnounceInv, BudgetSound

LEMMA AnnounceStep == IInv /\ AnnounceInv /\ [Next]_vars => AnnounceInv'
<1> SUFFICES ASSUME IInv, AnnounceInv, [Next]_vars PROVE AnnounceInv'
  OBVIOUS
<1>0. /\ TypeOK /\ RowsHaveRuns /\ WaitsAsk /\ RowsSound /\ BudgetSound
      /\ pass \in [Schedulers -> Pass]
      /\ faults \in Nat
  BY DEF IInv, AnnounceInv, TypeOK
<1>1. WaitsAsk'
  BY <1>0, WaitsStep
<1> DEFINE Good == RowsSound' /\ BudgetSound'
<1>2. ASSUME \A k \in Keys : KeptRow(k) \/ NewRow(k), \A s \in Schedulers : Silent(s),
             status' = "deleted" <=> status = "deleted", UNCHANGED <<plan, pushes, faults>>
      PROVE  Good
  BY <1>0, <1>2, QuietStep
<1> HIDE DEF Good
<1>3. UNCHANGED item => \A k \in Keys : KeptRow(k)
  BY <1>0, SameRow
<1>4. ASSUME NEW s \in Schedulers, BeginPass(s) PROVE Good
  <2>1. \A t \in Schedulers \ {s} : pass'[t] = pass[t]
    BY <1>0, <1>4 DEF BeginPass
  <2>2. /\ pass'[s].pc \in {"sync", "claim"} /\ pass[s].pc = "idle"
        /\ pass'[s].done = {} /\ pass'[s].held = {}
        /\ pass'[s].changes = {[key |-> k, old |-> item[k], new |-> Synced(k)] :
                                  k \in {j \in Keys : Open(j) /\ Synced(j) # item[j]}}
    BY <1>0, <1>4 DEF BeginPass, Idle
  <2>3. \A c \in pass'[s].changes : c \in Change /\ ChangeSound(c)
    <3> SUFFICES ASSUME NEW k \in Keys, Open(k)
                 PROVE  LET c == [key |-> k, old |-> item[k], new |-> Synced(k)]
                        IN  c \in Change /\ ChangeSound(c)
      BY <2>2
    <3>1. item[k] \in Row /\ Synced(k) \in Row
      BY <1>0, SyncedType DEF TypeOK
    <3> QED
      BY <1>0, <3>1, SyncedSound DEF Change
  <2>4. \A t \in Schedulers : Silent(t)
    BY <2>1, <2>2, <2>3 DEF Silent, Sends
  <2> QED
    BY <1>2, <1>3, <1>4, <2>4 DEF BeginPass, userVars, historyVars
<1>5. ASSUME NEW s \in Schedulers, SyncCommit(s) PROVE Good
  <2>1. \A t \in Schedulers : Silent(t)
    BY <1>0, <1>5 DEF SyncCommit, Silent, Sends, RowsSound, SendSound, Pass
  <2>2. \A k \in Keys : KeptRow(k)
    BY <1>0, <1>5, SyncedRows
  <2> QED
    BY <1>2, <1>5, <2>1, <2>2 DEF SyncCommit, userVars, historyVars
<1>6. ASSUME NEW s \in Schedulers, Claim(s) \/ ClaimCommit(s) PROVE Good
  <2>1. \A t \in Schedulers : Silent(t)
    <3>1. \A t \in Schedulers \ {s} : pass'[t] = pass[t]
      BY <1>0, <1>6 DEF Claim, ClaimCommit, Goto
    <3>2. /\ pass[s].pc \in {"claim", "claiming"} /\ pass'[s].pc \in {"claiming", "notify"}
          /\ pass'[s].done = pass[s].done /\ pass'[s].held = pass[s].held
          /\ pass'[s].changes = pass[s].changes /\ pass[s].changes \subseteq Change
      BY <1>0, <1>6 DEF Claim, ClaimCommit, Goto, Pass, Change
    <3>3. SendSound(s)
      BY <1>0 DEF RowsSound
    <3> QED
      BY <3>1, <3>2, <3>3 DEF Silent, Sends, SendSound
  <2>2. CASE Claim(s)
    BY <1>2, <1>3, <2>1, <2>2 DEF Claim, userVars, historyVars
  <2>3. CASE ClaimCommit(s)
    <3>1. status = "active" /\ status' # "deleted"
      BY <2>3 DEF ClaimCommit, IInv, ClaimIsDue
    <3>2. ASSUME NEW k \in Keys PROVE KeptRow(k) \/ NewRow(k)
      <4>1. \/ item'[k] = item[k]
            \/ item[k].status = "none" /\ item'[k] = Queued
        BY <1>0, <2>3 DEF ClaimCommit, TypeOK
      <4>2. Queued.status = "queued" /\ ~Queued.notified
        BY DEF Queued, Absent
      <4> QED
        BY <1>0, <3>1, <4>1, <4>2, SameRow DEF NewRow
    <3> QED
      BY <1>2, <2>1, <2>3, <3>1, <3>2 DEF ClaimCommit, historyVars
  <2> QED
    BY <1>6, <2>2, <2>3
<1>7. ASSUME NEW s \in Schedulers, NotifyRead(s) PROVE Good
  BY <1>0, <1>7, NotifyReadSound, NotifyReadBudget DEF Good, BudgetSound
<1>8. ASSUME NEW s \in Schedulers, NEW i \in Keys, Push(s, i) PROVE Good
  BY <1>0, <1>8, PushSound, PushBudget DEF Good, BudgetSound
<1>9. ASSUME NEW s \in Schedulers, NEW i \in Keys, PushCleaning(s, i) PROVE Good
  BY <1>0, <1>9, CommitSound, CleaningBudget DEF Good, BudgetSound
<1>10. ASSUME NEW s \in Schedulers, NotifyCommit(s) PROVE Good
  BY <1>0, <1>10, CommitSound, CommitBudget DEF Good, BudgetSound
<1>11. ASSUME NEW s \in Schedulers, ExpireRead(s) \/ ExpireCommit(s) PROVE Good
  <2>1. /\ pass[s].pc \in {"expire", "expiring"} /\ pass'[s].pc \in {"expiring", "idle"}
        /\ pass'[s].done \in {pass[s].done, {}} /\ pass'[s].held \in {pass[s].held, {}}
        /\ pass'[s].changes \in {pass[s].changes, {}} /\ pass[s].changes \subseteq Change
        /\ \A t \in Schedulers \ {s} : pass'[t] = pass[t]
    <3>1. CASE ExpireRead(s)
      BY <1>0, <3>1 DEF ExpireRead, Idle, Pass, Change
    <3>2. CASE ExpireCommit(s)
      BY <1>0, <3>2 DEF ExpireCommit, EndPass, Idle, Pass, Change
    <3> QED
      BY <1>11, <3>1, <3>2
  <2>2. SendSound(s)
    BY <1>0 DEF RowsSound
  <2>3. \A t \in Schedulers : Silent(t)
    BY <2>1, <2>2 DEF Silent, Sends, SendSound
  <2>4. \A k \in Keys : KeptRow(k)
    BY <1>0, <1>3, <1>11, ExpiredRows DEF ExpireRead
  <2> QED
    BY <1>2, <1>11, <2>3, <2>4 DEF ExpireRead, ExpireCommit, userVars, historyVars
<1>12. ASSUME NEW s \in Schedulers, ClaimRaises(s) \/ StaleData(s) \/ PassFails(s) PROVE Good
  <2>1. Abort(s)
    BY <1>12 DEF ClaimRaises, StaleData, PassFails
  <2>2. \/ faults > 0 /\ faults' = faults - 1
        \/ faults' = faults /\ (status = "deleted" \/ ~Sends(s))
    <3>1. CASE PassFails(s)
      BY <3>1 DEF PassFails
    <3>2. CASE ClaimRaises(s)
      BY <3>2 DEF ClaimRaises, Sends
    <3>3. CASE StaleData(s)
      <4>1. Sends(s) => Gone(pass[s].done)
        BY <3>3 DEF StaleData, Sends
      <4>2. Sends(s) /\ Gone(pass[s].done) => status = "deleted"
        BY <1>0 DEF RowsSound, SendSound, Gone
      <4> QED
        BY <3>3, <4>1, <4>2 DEF StaleData
    <3> QED
      BY <1>12, <3>1, <3>2, <3>3
  <2> QED
    BY <1>0, <2>1, <2>2, AbortSound, AbortBudget DEF Good, BudgetSound
<1>13. ASSUME Delete PROVE Good
  BY <1>0, <1>13, DeleteSound DEF Good
<1>14. ASSUME UNCHANGED <<pass, item>>, status' = "deleted" <=> status = "deleted",
              UNCHANGED <<plan, pushes, faults>>
       PROVE  Good
  <2>1. \A t \in Schedulers : Silent(t)
    BY <1>14 DEF Silent
  <2> QED
    BY <1>2, <1>3, <1>14, <2>1
<1>15. ASSUME RunNow PROVE Good
  <2>1. ASSUME NEW k \in Keys PROVE KeptRow(k) \/ NewRow(k)
    <3>1. \/ item'[k] = item[k]
          \/ k = Manual /\ item'[k] = Queued
      BY <1>0, <1>15 DEF RunNow, TypeOK
    <3>2. k = Manual => item[k].status = "none" /\ status # "deleted"
      BY <1>0, <1>15 DEF RunNow, RowsHaveRuns
    <3>3. Queued.status = "queued" /\ ~Queued.notified
      BY DEF Queued, Absent
    <3> QED
      BY <1>0, <3>1, <3>2, <3>3, SameRow DEF NewRow
  <2>2. UNCHANGED <<pass, plan, pushes, faults, status>>
    BY <1>15 DEF RunNow, Request, historyVars
  <2>3. \A t \in Schedulers : Silent(t)
    BY <2>2 DEF Silent
  <2> QED
    BY <1>2, <2>1, <2>2, <2>3
<1>16. ASSUME (\E t \in {"active", "paused"} : SetStatus(t)) \/ RunStep \/ Tick \/ UNCHANGED vars
       PROVE  Good
  <2>1. UNCHANGED <<pass, item, plan, pushes, faults>>
    BY <1>16, RunStepFrame DEF SetStatus, Request, RunStep, Tick, CancelRun, DecideRead, DecideCommit,
       StartAttempt, EndAttempt, AskApproval, RunFrame, vars, historyVars
  <2>2. status' = "deleted" <=> status = "deleted"
    BY <1>16, RunStepFrame DEF SetStatus, vars, userVars
  <2> QED
    BY <1>14, <2>1, <2>2
<1>17. Good
  <2>1. ASSUME NEW s \in Schedulers, PassStep(s) PROVE Good
    BY <2>1, <1>4, <1>5, <1>7, <1>8, <1>9, <1>10, <1>11, <1>12 DEF PassStep
  <2> QED
    BY <1>6, <1>13, <1>15, <1>16, <2>1, StepKinds
<1> QED
  BY <1>1, <1>17 DEF Good, AnnounceInv

-----------------------------------------------------------------------------
\* Every variable of the automation, its history and its schedulers keeps its
\* type, whatever fails and whatever the user asks for.
THEOREM TypeSafety == Spec => []TypeOK
BY AlwaysIInv, PTL DEF IInv

\* claim_due_automations and next_cron_occurrence lose no occurrence of the rule
\* and run none twice, for every rule, zone, calendar, number of schedulers and
\* length of an outage, outside an hour the zone repeats.
THEOREM ScheduleSafety == Spec => []ScheduleCovered
BY AlwaysIInv, PTL DEF IInv

\* No occurrence gets its run after a pause was answered: the claim holds the
\* lock of the automation until it commits.
THEOREM PauseSafety == Spec => PauseHolds
<1>1. ASSUME IInv, [Next]_vars, NEW t \in Times, item[t].status = "none", item'[t].status # "none"
      PROVE  status = "active"
  <2>1. ASSUME RowsStay PROVE FALSE
    BY <1>1, <2>1, KeysSplit DEF RowsStay
  <2>2. ASSUME NEW s \in Schedulers, PassStep(s) PROVE FALSE
    BY <1>1, <2>1, <2>2, RowsOfPass DEF IInv
  <2>3. ASSUME NEW s \in Schedulers, ClaimCommit(s) PROVE status = "active"
    BY <1>1, <2>3 DEF ClaimCommit, IInv, ClaimIsDue
  <2>4. CASE RunNow
    BY <1>1, <2>4, KeysSplit DEF RunNow, IInv, TypeOK
  <2>5. CASE Delete
    BY <1>1, <2>5, KeysSplit, FreshRows DEF Delete
  <2>6. CASE UNCHANGED item
    BY <2>1, <2>6 DEF RowsStay
  <2> QED
    BY <1>1, <2>2, <2>3, <2>4, <2>5, <2>6, StepKinds, RunStepFrame DEF Claim, SetStatus, vars
<1>2. IInv /\ [Next]_vars =>
        [\A t \in Times : item[t].status = "none" /\ item'[t].status # "none" => status = "active"]_vars
  BY <1>1
<1> QED
  BY <1>2, AlwaysIInv, PTL DEF Spec, PauseHolds

\* notify_waiting_automation_runs announces a wait once, and once more at most for each
\* pass that failed and each dead subscription: for any number of schedulers, rows,
\* sessions that have read old rows, deletions and failures.
THEOREM AnnounceSafety == Spec => []AnnouncedOnce
<1>1. TypeOK /\ AnnounceInv => AnnouncedOnce
  <2> SUFFICES ASSUME TypeOK, AnnounceInv, NEW k \in Keys
               PROVE  pushes[k] <= 1 + (plan.faults - faults)
    BY DEF AnnouncedOnce
  <2>1. Budget(k) /\ Owed(k) \in {0, 1} /\ pushes[k] \in Nat
    BY DEF AnnounceInv, BudgetSound, Owed, TypeOK
  <2> QED
    BY <2>1, LateCount, PlanFaults DEF Budget
<1>2. Init => AnnounceInv /\ IInv
  BY AnnounceInit, TypeInit, ScheduleInit DEF IInv
<1>3. IInv => TypeOK
  BY DEF IInv
<1> QED
  BY <1>1, <1>2, <1>3, Inductive, AnnounceStep, PTL DEF Spec
=============================================================================
