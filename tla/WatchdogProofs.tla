---------------------------- MODULE WatchdogProofs ----------------------------
(***************************************************************************)
(* What the two watchdogs of the cron jobs keep.                           *)
(*                                                                         *)
(* SuccessWatch, for any jobs, stores, thresholds and faults, and for runs *)
(* of any length: a job is charged with its own silence, the operator's    *)
(* last word agrees with the state file, and a silence is paged once.      *)
(*                                                                         *)
(* BrainWatchdog, for every fleet, every debounce and every weather: its   *)
(* types whatever is killed; in runs that are not killed, that a recorded  *)
(* outage was paged or belongs to an open episode and that a pause was     *)
(* earned by as many bad probes as the debounce asks for; and, if no call  *)
(* that resumes a job fails either, that a healthy verdict leaves no job   *)
(* paused.                                                                 *)
(***************************************************************************)
EXTENDS SuccessWatch, BrainWatchdogHistory, TLAPS

Words == Pages \cup {"recovered"}
Records == [lastOk : Int, alerted : BOOLEAN, alertedAtOk : Int, paused : Int, cadence : Nat,
            waiting : BOOLEAN, flaps : SUBSET Int, lastOverdue : Int, muted : BOOLEAN]
CronRecords == [enabled : BOOLEAN, ran : Int, ok : BOOLEAN, next : Nat]

\* What the type invariant leaves open: what the records hold.
ShapesHold ==
    /\ cron \in [CronJobs -> CronRecords]
    /\ \A j \in DOMAIN file.jobs : file.jobs[j] \in Records
    /\ \A s \in DOMAIN file.stores : file.stores[s] \in [since : 0 .. now, alerted : BOOLEAN]
    /\ heard \in [CronJobs -> Words]
    /\ charged \in [CronJobs -> Int]

\* Stops are banked one after the other: what is banked of them fits into the time before
\* the stop that is under way.
PausesFit ==
    \A j \in DOMAIN file.jobs :
        file.jobs[j].paused <= IF StoreOf[j] \in DOMAIN file.stores THEN file.stores[StoreOf[j]].since ELSE now

\* A run of a job that ends before the timer fires is later than all that is on record.
RecordIsOlder == ~ticked => \A j \in DOMAIN file.jobs : file.jobs[j].lastOk < now

\* A job without a clock is not yet on the record that counts, and is not latched.
NoClockNoCount ==
    \A j \in CronJobs : Known(j).lastOk = Never => j \in odd /\ ~Known(j).alerted

\* A success that no run has seen yet is what the present silence is counted from.
SuccessIsCounted ==
    \A j \in CronJobs :
        NewSuccess(j, Known(j)) /\ Known(j).lastOk # Never /\ StoreOf[j] \notin DOMAIN file.stores
            => charged[j] = now - cron[j].ran

\* A paged job is latched at its last success, and none has come since.
PagedIsLatched ==
    \A j \in paged : /\ Known(j).alerted /\ Known(j).alertedAtOk = Known(j).lastOk
                     /\ ~NewSuccess(j, Known(j))

\* The last word on a job agrees with its latch, also on a job that is not on record, and
\* a mute begins with its own word and lasts as long as no other is said.
LastWords(j) ==
    LET unsent == {k \in Words : <<k, j>> \in outbox}
    IN  IF unsent = {} THEN {heard[j]} ELSE unsent
WordHolds ==
    \A j \in CronJobs \ loose : \A word \in LastWords(j) :
        /\ word = "stale" => Known(j).alerted
        /\ word = "recovered" => ~Known(j).alerted
        /\ Known(j).muted => word = "flapping"

WatchInv ==
    /\ WatchTypeOK /\ ShapesHold /\ PausesFit /\ RecordIsOlder /\ NoClockNoCount
    /\ SuccessIsCounted /\ SilenceIsCharged /\ PagedIsLatched /\ WordHolds

-----------------------------------------------------------------------------
(* What a run makes of a job *)

LEMMA MaxOfTwo == \A a, b \in Int : /\ Max({a, b}) \in {a, b}
                                    /\ Max({a, b}) >= a /\ Max({a, b}) >= b
<1> SUFFICES ASSUME NEW a \in Int, NEW b \in Int
             PROVE  Max({a, b}) \in {a, b} /\ Max({a, b}) >= a /\ Max({a, b}) >= b
  OBVIOUS
<1>1. \E x \in {a, b} : \A y \in {a, b} : x >= y
  <2>1. CASE a >= b
    BY <2>1
  <2>2. CASE ~(a >= b)
    BY <2>2
  <2>3. QED
    BY <2>1, <2>2
<1>2. QED
  BY <1>1 DEF Max

LEMMA MinOfTwo == \A a, b \in Int : Min({a, b}) \in {a, b}
<1> SUFFICES ASSUME NEW a \in Int, NEW b \in Int PROVE Min({a, b}) \in {a, b}
  OBVIOUS
<1>1. \E x \in {a, b} : \A y \in {a, b} : x =< y
  <2>1. CASE a =< b
    BY <2>1
  <2>2. CASE ~(a =< b)
    BY <2>2
  <2>3. QED
    BY <2>1, <2>2
<1>2. QED
  BY <1>1 DEF Min

\* No threshold is below zero, whatever the cadence.
LEMMA ThresholdIsNat == \A c \in Nat : Threshold(c) \in Nat
<1> SUFFICES ASSUME NEW c \in Nat PROVE Threshold(c) \in Nat
  OBVIOUS
<1>1. MissedCycles \in Nat /\ Floor \in Nat /\ Ceiling \in Nat
  BY WatchAssumption DEF WatchAssumption
<1> DEFINE cycles == c * MissedCycles
           late == c + Floor
<1>2. cycles \in Int /\ late \in Int /\ Floor \in Int /\ Ceiling \in Int
  BY <1>1
<1> HIDE DEF cycles, late
<1>3. Max({cycles, Floor}) \in Int /\ Max({cycles, Floor}) >= Floor
  BY <1>2, MaxOfTwo, Zenon
<1>4. Max({Ceiling, late}) \in Int /\ Max({Ceiling, late}) >= Ceiling
  BY <1>2, MaxOfTwo, Zenon
<1>5. Threshold(c) \in {Max({cycles, Floor}), Max({Ceiling, late})}
  BY <1>3, <1>4, MinOfTwo DEF Threshold, cycles, late
<1>6. QED
  BY <1>1, <1>3, <1>4, <1>5

LEMMA NewRecordIs == NewRecord \in Records /\ NewRecord.lastOk = Never /\ ~NewRecord.alerted
  BY DEF NewRecord, Records, Never

LEMMA KnownIsRecord ==
    ASSUME WatchInv, NEW j \in CronJobs
    PROVE  /\ Known(j) \in Records /\ Known(j).lastOk \in Never .. now /\ Known(j).paused \in 0 .. now
           /\ j \notin DOMAIN file.jobs => Known(j) = NewRecord
  BY DEF WatchInv, WatchTypeOK, ShapesHold, Known, NewRecord, Records, Never

\* What a new success does to a record.
Succeeded(b, t, c) == [b EXCEPT !.lastOk = t, !.paused = 0, !.cadence = c]
LEMMA SuccessOnRecord ==
    ASSUME NEW b \in Records, NEW t \in Int, NEW c \in Nat
    PROVE  /\ Succeeded(b, t, c) \in Records
           /\ Succeeded(b, t, c).lastOk = t
           /\ Succeeded(b, t, c).paused = 0
           /\ Succeeded(b, t, c).alerted = b.alerted
           /\ Succeeded(b, t, c).alertedAtOk = b.alertedAtOk
           /\ Succeeded(b, t, c).muted = b.muted
<1> DEFINE r1 == [b EXCEPT !.lastOk = t]
           r2 == [r1 EXCEPT !.paused = 0]
           r3 == [r2 EXCEPT !.cadence = c]
<1>1. /\ r1 \in Records /\ r1.lastOk = t
      /\ r1.alerted = b.alerted /\ r1.alertedAtOk = b.alertedAtOk /\ r1.muted = b.muted
  BY DEF Records
<1> HIDE DEF r1
<1>2. /\ r2 \in Records /\ r2.lastOk = t /\ r2.paused = 0
      /\ r2.alerted = b.alerted /\ r2.alertedAtOk = b.alertedAtOk /\ r2.muted = b.muted
  BY <1>1 DEF Records
<1> HIDE DEF r2
<1>3. /\ r3 \in Records /\ r3.lastOk = t /\ r3.paused = 0
      /\ r3.alerted = b.alerted /\ r3.alertedAtOk = b.alertedAtOk /\ r3.muted = b.muted
  BY <1>2 DEF Records
<1>4. QED
  BY <1>3 DEF r1, r2, Succeeded

\* The time stopped that a run adds to what is banked.
Stop(j) == IF StoreOf[j] \in DOMAIN file.stores THEN now - file.stores[StoreOf[j]].since ELSE 0

LEMMA CadenceIsNat == ASSUME WatchInv, NEW j \in CronJobs PROVE CadenceOf(j) \in Nat
<1>1. Minutes[j] \in Nat /\ cron[j].ran \in Int /\ cron[j].next \in Nat
  BY WatchAssumption DEF WatchAssumption, WatchInv, ShapesHold, CronRecords
<1>2. QED
  BY <1>1 DEF CadenceOf

\* A run that is not stopped reads a new success or adds the stop to what is banked; the
\* latch and the mute stay as they were.
LEMMA ClockedIs ==
    ASSUME WatchInv, NEW j \in CronJobs
    PROVE  /\ Clocked(j) \in Records /\ Stop(j) \in Int
           /\ Clocked(j).alerted = Known(j).alerted
           /\ Clocked(j).alertedAtOk = Known(j).alertedAtOk
           /\ Clocked(j).muted = Known(j).muted
           /\ NewSuccess(j, Known(j)) => Clocked(j).lastOk = cron[j].ran /\ Clocked(j).paused = 0
           /\ ~NewSuccess(j, Known(j)) => /\ Clocked(j).lastOk = Known(j).lastOk
                                          /\ Clocked(j).paused = Known(j).paused + Stop(j)
<1>1. Stop(j) \in Int
  BY DEF WatchInv, WatchTypeOK, ShapesHold, Stop
<1>2. CadenceOf(j) \in Nat
  BY CadenceIsNat
<1>3. Known(j) \in Records
  BY KnownIsRecord
<1> DEFINE b == Banked(j, Known(j))
<1>4. b = [Known(j) EXCEPT !.paused = @ + Stop(j)]
  BY <1>3, KnownIsRecord DEF Banked, Stop, Records
<1>5. b \in Records /\ b.lastOk = Known(j).lastOk /\ b.paused = Known(j).paused + Stop(j)
      /\ b.alerted = Known(j).alerted /\ b.alertedAtOk = Known(j).alertedAtOk /\ b.muted = Known(j).muted
  BY <1>1, <1>3, <1>4 DEF Records
<1>6. NewSuccess(j, b) <=> NewSuccess(j, Known(j))
  BY <1>5 DEF NewSuccess
<1>7. cron[j].ran \in Int
  BY DEF WatchInv, ShapesHold, CronRecords
<1> HIDE DEF b
<1>8. CASE NewSuccess(j, b)
  <2> DEFINE c == IF CadenceOf(j) > 0 THEN CadenceOf(j) ELSE b.cadence
  <2>1. c \in Nat
    BY <1>2, <1>5 DEF Records
  <2>2. Observed(j, b) = Succeeded(b, cron[j].ran, c)
    BY <1>8 DEF Observed, Succeeded
  <2> HIDE DEF c
  <2>3. QED
    BY <1>1, <1>5, <1>6, <1>7, <1>8, <2>1, <2>2, SuccessOnRecord DEF Clocked, b
<1>9. CASE ~NewSuccess(j, b)
  <2>1. Observed(j, b) = b
    BY <1>9 DEF Observed
  <2>2. QED
    BY <1>1, <1>5, <1>6, <1>9, <2>1 DEF Clocked, b
<1>10. QED
  BY <1>8, <1>9

\* A judgement leaves the clock alone, and sets latch and mute by what has turned.
LEMMA JudgedIs ==
    ASSUME WatchInv, NEW j \in CronJobs, NEW r \in Records
    PROVE  /\ Judged(j, r) \in Records
           /\ Judged(j, r).lastOk = r.lastOk /\ Judged(j, r).paused = r.paused
           /\ Judged(j, r).alerted <=> (r.alerted \/ TurnsStale(j, r)) /\ ~Recovers(j, r)
           /\ TurnsStale(j, r) => Judged(j, r).alertedAtOk = r.lastOk
           /\ ~TurnsStale(j, r) /\ ~Recovers(j, r) => Judged(j, r).alertedAtOk = r.alertedAtOk
           /\ Judged(j, r).muted <=> Muted(j, r) \/ TurnsFlapping(j, r)
<1> DEFINE recent == IF TurnsStale(j, r) THEN Flaps(j, r) \cup {now} ELSE Flaps(j, r)
           overdue == IF Overdue(j, r) THEN now ELSE r.lastOverdue
           latch == (r.alerted \/ TurnsStale(j, r)) /\ ~Recovers(j, r)
           at == IF TurnsStale(j, r) THEN r.lastOk ELSE IF Recovers(j, r) THEN Never ELSE r.alertedAtOk
           r1 == [r EXCEPT !.waiting = Waits(j, r)]
           r2 == [r1 EXCEPT !.flaps = recent]
           r3 == [r2 EXCEPT !.lastOverdue = overdue]
           r4 == [r3 EXCEPT !.muted = Muted(j, r) \/ TurnsFlapping(j, r)]
           r5 == [r4 EXCEPT !.alerted = latch]
           r6 == [r5 EXCEPT !.alertedAtOk = at]
<1>1. now \in Int
  BY DEF WatchInv, WatchTypeOK
<1>2. recent \in SUBSET Int /\ overdue \in Int /\ at \in Int
  BY <1>1 DEF Flaps, Records, Never
<1>3. Judged(j, r) = r6
  BY DEF Judged, Records
<1>4. r1 \in Records /\ r1.lastOk = r.lastOk /\ r1.paused = r.paused
  BY DEF Records, Waits
<1> HIDE DEF r1
<1>5. r2 \in Records /\ r2.lastOk = r.lastOk /\ r2.paused = r.paused
  BY <1>2, <1>4 DEF Records
<1> HIDE DEF r2
<1>6. r3 \in Records /\ r3.lastOk = r.lastOk /\ r3.paused = r.paused
  BY <1>2, <1>5 DEF Records
<1> HIDE DEF r3
<1>7. r4 \in Records /\ r4.lastOk = r.lastOk /\ r4.paused = r.paused
      /\ r4.muted = (Muted(j, r) \/ TurnsFlapping(j, r))
  BY <1>6 DEF Records
<1> HIDE DEF r4
<1>8. r5 \in Records /\ r5.lastOk = r.lastOk /\ r5.paused = r.paused
      /\ r5.muted = r4.muted /\ r5.alerted = latch
  BY <1>7 DEF Records
<1> HIDE DEF r5
<1>9. r6 \in Records /\ r6.lastOk = r.lastOk /\ r6.paused = r.paused
      /\ r6.muted = r4.muted /\ r6.alerted = latch /\ r6.alertedAtOk = at
  BY <1>2, <1>8 DEF Records
<1> HIDE DEF r6
<1>10. QED
  BY <1>3, <1>7, <1>9

\* The one word about a job says what has turned, and a muted job gets none.
LEMMA AlertsAre ==
    ASSUME NEW j, NEW r
    PROVE  /\ "stale" \in Alerts(j, r) <=>
                 TurnsStale(j, r) /\ ~TurnsFlapping(j, r) /\ ~Muted(j, r)
           /\ "flapping" \in Alerts(j, r) <=> TurnsFlapping(j, r)
           /\ "recovered" \in Alerts(j, r) <=> Recovers(j, r) /\ ~Muted(j, r)
           /\ Alerts(j, r) \subseteq Kinds
<1>1. TurnsFlapping(j, r) => TurnsStale(j, r)
  BY DEF TurnsFlapping
<1>2. Recovers(j, r) => ~TurnsStale(j, r)
  BY DEF Recovers
<1>3. CASE TurnsFlapping(j, r)
  BY <1>1, <1>2, <1>3 DEF Alerts, Word, Kinds, Pages
<1>4. CASE ~TurnsFlapping(j, r) /\ TurnsStale(j, r) /\ ~Muted(j, r)
  BY <1>2, <1>4 DEF Alerts, Word, Kinds, Pages
<1>5. CASE ~TurnsFlapping(j, r) /\ Recovers(j, r) /\ ~Muted(j, r)
  BY <1>2, <1>5 DEF Alerts, Word, Kinds, Pages
<1>6. CASE /\ ~TurnsFlapping(j, r) /\ ~(TurnsStale(j, r) /\ ~Muted(j, r))
           /\ ~(Recovers(j, r) /\ ~Muted(j, r))
  BY <1>6 DEF Alerts, Word, Kinds, Pages
<1>7. QED
  BY <1>3, <1>4, <1>5, <1>6

Rec(j) == Judgement(j).rec
Say(j) == Judgement(j).say

\* A job is on, in a store that works, has a clock and a cadence.
Judges(j) ==
    /\ ~Off(j) /\ StoreOf[j] \notin stopped
    /\ Clocked(j).lastOk # Never /\ CadenceUsed(j, Clocked(j)) # 0

LEMMA JudgementCases ==
    ASSUME NEW j
    PROVE  /\ Off(j) => Rec(j) = [Known(j) EXCEPT !.lastOk = Never, !.alerted = FALSE]
           /\ ~Off(j) /\ StoreOf[j] \in stopped => Rec(j) = Known(j)
           /\ ~Off(j) /\ StoreOf[j] \notin stopped /\ Clocked(j).lastOk = Never =>
                 Rec(j) = [Clocked(j) EXCEPT !.lastOk = now, !.alerted = FALSE]
           /\ ~Off(j) /\ StoreOf[j] \notin stopped /\ Clocked(j).lastOk # Never /\ ~Judges(j) =>
                 Rec(j) = Clocked(j)
           /\ Judges(j) => Rec(j) = Judged(j, Clocked(j)) /\ Say(j) = Alerts(j, Clocked(j))
           /\ ~Judges(j) => Say(j) = {}
<1>1. CASE Off(j)
  BY <1>1 DEF Judgement, Rec, Say, Judges
<1>2. CASE ~Off(j) /\ StoreOf[j] \in stopped
  BY <1>2 DEF Judgement, Rec, Say, Judges
<1>3. CASE ~Off(j) /\ StoreOf[j] \notin stopped
  BY <1>3 DEF Judgement, Rec, Say, Judges
<1>4. QED
  BY <1>1, <1>2, <1>3

\* What resets the clock of a record.
ClockSet(r, t) == [r EXCEPT !.lastOk = t, !.alerted = FALSE]
LEMMA ClockSetIs ==
    ASSUME NEW r \in Records, NEW t \in Int
    PROVE  /\ ClockSet(r, t) \in Records
           /\ ClockSet(r, t).lastOk = t /\ ~ClockSet(r, t).alerted
           /\ ClockSet(r, t).paused = r.paused /\ ClockSet(r, t).muted = r.muted
<1> DEFINE r1 == [r EXCEPT !.lastOk = t]
           r2 == [r1 EXCEPT !.alerted = FALSE]
<1>1. r1 \in Records /\ r1.lastOk = t /\ r1.paused = r.paused /\ r1.muted = r.muted
  BY DEF Records
<1> HIDE DEF r1
<1>2. /\ r2 \in Records /\ r2.lastOk = t /\ r2.paused = r.paused /\ r2.muted = r.muted
      /\ ~r2.alerted
  BY <1>1 DEF Records
<1>3. QED
  BY <1>2 DEF r1, ClockSet

\* The record and the words a run makes of a job, by what the job is.
Watched(j) == ~Off(j) /\ StoreOf[j] \notin stopped
LEMMA JudgementIs ==
    ASSUME WatchInv, NEW j \in CronJobs
    PROVE  /\ Rec(j) \in Records
           /\ Say(j) \subseteq Kinds
           /\ Off(j) => /\ Rec(j).lastOk = Never /\ ~Rec(j).alerted
                        /\ Rec(j).paused = Known(j).paused
           /\ Watched(j) => /\ Rec(j).paused = Clocked(j).paused
                            /\ Rec(j).lastOk = IF Clocked(j).lastOk = Never THEN now ELSE Clocked(j).lastOk
           /\ Watched(j) /\ Clocked(j).lastOk = Never => ~Rec(j).alerted /\ Rec(j).muted = Known(j).muted
<1>1. Known(j) \in Records /\ Clocked(j) \in Records /\ Clocked(j).muted = Known(j).muted
  BY KnownIsRecord, ClockedIs
<1>2. now \in Int /\ Never \in Int
  BY DEF WatchInv, WatchTypeOK, Never
<1>3. CASE Off(j)
  <2>1. Rec(j) = ClockSet(Known(j), Never) /\ Say(j) = {}
    BY <1>3, JudgementCases DEF ClockSet, Judges
  <2>2. QED
    BY <1>1, <1>2, <1>3, <2>1, ClockSetIs DEF Watched
<1>4. CASE ~Off(j) /\ StoreOf[j] \in stopped
  BY <1>1, <1>4, JudgementCases DEF Watched, Judges
<1>5. CASE Watched(j) /\ Clocked(j).lastOk = Never
  <2>1. Rec(j) = ClockSet(Clocked(j), now) /\ Say(j) = {}
    BY <1>5, JudgementCases DEF ClockSet, Watched, Judges
  <2>2. QED
    BY <1>1, <1>2, <1>5, <2>1, ClockSetIs DEF Watched
<1>6. CASE Watched(j) /\ Clocked(j).lastOk # Never /\ ~Judges(j)
  BY <1>1, <1>6, JudgementCases DEF Watched
<1>7. CASE Judges(j)
  <2>1. Rec(j) = Judged(j, Clocked(j)) /\ Say(j) = Alerts(j, Clocked(j))
    BY <1>7, JudgementCases
  <2>2. QED
    BY <1>1, <1>7, <2>1, JudgedIs, AlertsAre DEF Judges, Watched
<1>8. QED
  BY <1>3, <1>4, <1>5, <1>6, <1>7 DEF Watched, Judges

-----------------------------------------------------------------------------
(* What a run of the timer changes *)

Seen(unread) == {j \in CronJobs : StoreOf[j] \notin unread}
Tells(j) == Say(j) \cap Words # {}
Unseen(j) == NewSuccess(j, Known(j))
StopKnown(j) == StoreOf[j] \in stopped \cup DOMAIN file.stores
LEMMA EvaluateIs ==
    ASSUME NEW unread, NEW saved \in BOOLEAN, Evaluate(unread, saved)
    PROVE  /\ outbox = {} /\ ~ticked /\ ticked' = TRUE
           /\ UNCHANGED <<now, cron, stopped, heard, charged>>
           /\ \A j \in CronJobs, k \in Kinds :
                 <<k, j>> \in outbox' <=> j \in Seen(unread) /\ k \in Say(j)
           /\ saved => /\ DOMAIN file'.jobs = Seen(unread)
                       /\ \A j \in Seen(unread) : file'.jobs[j] = Rec(j)
                       /\ DOMAIN file'.stores = stopped
                       /\ \A s \in stopped : file'.stores[s] = StoreRecord(s)
                       /\ loose' = (loose \ {j \in Seen(unread) : Tells(j)})
                                       \cup {j \in CronJobs : j \notin Seen(unread) \/ Off(j)}
                       /\ paged' = {j \in paged : j \in Seen(unread) /\ ~Off(j)}
                                       \cup {j \in Seen(unread) : Say(j) \cap Pages # {}}
           /\ ~saved => /\ file' = file /\ paged' = paged
                        /\ loose' = loose \cup {j \in Seen(unread) : Tells(j)}
           /\ odd' = (odd \ {j \in CronJobs : Unseen(j) /\ ~StopKnown(j) /\ Known(j).lastOk # Never})
                      \cup {j \in CronJobs : Off(j) \/ j \notin Seen(unread) \/ ~saved}
                      \cup {j \in CronJobs : Unseen(j) /\ StopKnown(j)}
<1> DEFINE seen == {j \in CronJobs : StoreOf[j] \notin unread}
           judged == [j \in seen |-> Judgement(j)]
<1>1. \A j \in seen : judged[j].say = Say(j) /\ judged[j].rec = Rec(j)
  BY DEF Say, Rec
<1>2. seen = Seen(unread)
  BY DEF Seen
<1>3. /\ outbox = {} /\ ~ticked /\ ticked' = TRUE
      /\ UNCHANGED <<now, cron, stopped, heard, charged>>
  BY DEF Evaluate
<1>4. outbox' = {a \in Kinds \X seen : a[1] \in judged[a[2]].say}
                  \cup {<<"stopped", s>> : s \in {x \in stopped : PausedLong(x)}}
  BY DEF Evaluate
<1>5. file' = IF saved THEN [jobs |-> [j \in seen |-> judged[j].rec],
                             stores |-> [s \in stopped |-> StoreRecord(s)]]
              ELSE file
  BY DEF Evaluate
<1>6. LET news == {j \in seen : judged[j].say \cap (Pages \cup {"recovered"}) # {}}
      IN  loose' = IF saved THEN (loose \ news) \cup {j \in CronJobs : j \notin seen \/ Off(j)}
                   ELSE loose \cup news
  BY DEF Evaluate
<1>7. paged' = IF saved THEN {j \in paged : j \in seen /\ ~Off(j)}
                                \cup {j \in seen : judged[j].say \cap Pages # {}}
               ELSE paged
  BY DEF Evaluate
<1>8. LET pending == {j \in CronJobs : NewSuccess(j, Known(j))}
          stops == stopped \cup DOMAIN file.stores
          clear == {j \in pending : StoreOf[j] \notin stops /\ Known(j).lastOk # Never}
          other == {j \in CronJobs : Off(j) \/ j \notin seen \/ ~saved} \cup {j \in pending : StoreOf[j] \in stops}
      IN  odd' = (odd \ clear) \cup other
  BY DEF Evaluate
<1> HIDE DEF seen, judged
<1>9. ASSUME NEW j \in CronJobs, NEW k \in Kinds
      PROVE  <<k, j>> \in outbox' <=> j \in Seen(unread) /\ k \in Say(j)
  <2>1. k # "stopped"
    BY <1>9 DEF Kinds, Pages
  <2>2. <<k, j>> \in outbox' <=> j \in seen /\ k \in judged[j].say
    BY <1>4, <2>1
  <2>3. QED
    BY <1>1, <1>2, <2>2
<1>10. saved => /\ DOMAIN file'.jobs = Seen(unread)
                /\ \A j \in Seen(unread) : file'.jobs[j] = Rec(j)
                /\ DOMAIN file'.stores = stopped
                /\ \A s \in stopped : file'.stores[s] = StoreRecord(s)
  BY <1>1, <1>2, <1>5
<1>11. {j \in seen : judged[j].say \cap (Pages \cup {"recovered"}) # {}} = {j \in Seen(unread) : Tells(j)}
  BY <1>1, <1>2 DEF Tells, Words
<1>12. {j \in seen : judged[j].say \cap Pages # {}} = {j \in Seen(unread) : Say(j) \cap Pages # {}}
  BY <1>1, <1>2
<1>13. /\ {j \in CronJobs : NewSuccess(j, Known(j))} = {j \in CronJobs : Unseen(j)}
       /\ \A j \in CronJobs : StoreOf[j] \in stopped \cup DOMAIN file.stores <=> StopKnown(j)
  BY DEF Unseen, StopKnown
<1>14. odd' = (odd \ {j \in CronJobs : Unseen(j) /\ ~StopKnown(j) /\ Known(j).lastOk # Never})
              \cup {j \in CronJobs : Off(j) \/ j \notin Seen(unread) \/ ~saved}
              \cup {j \in CronJobs : Unseen(j) /\ StopKnown(j)}
  BY <1>2, <1>8 DEF Unseen, StopKnown
<1>15. saved => /\ loose' = (loose \ {j \in Seen(unread) : Tells(j)})
                            \cup {j \in CronJobs : j \notin Seen(unread) \/ Off(j)}
                /\ paged' = {j \in paged : j \in Seen(unread) /\ ~Off(j)}
                            \cup {j \in Seen(unread) : Say(j) \cap Pages # {}}
  BY <1>2, <1>6, <1>7, <1>11, <1>12
<1>16. ~saved => /\ file' = file /\ paged' = paged
                 /\ loose' = loose \cup {j \in Seen(unread) : Tells(j)}
  BY <1>5, <1>6, <1>7, <1>11
<1>17. QED
  BY <1>3, <1>9, <1>10, <1>14, <1>15, <1>16

\* What is on record after a run: of a job that was seen what the run made of it, of one
\* that was not seen nothing, and all as before when the state was not saved.
LEMMA AfterEvaluate ==
    ASSUME NEW unread, NEW saved \in BOOLEAN, Evaluate(unread, saved), NEW j \in CronJobs
    PROVE  /\ saved /\ j \in Seen(unread) => Known(j)' = Rec(j)
           /\ saved /\ j \notin Seen(unread) => Known(j)' = NewRecord
           /\ ~saved => Known(j)' = Known(j)
           /\ Unseen(j)' <=> cron[j].ok /\ cron[j].ran > Known(j)'.lastOk
<1>1. cron' = cron
  BY EvaluateIs
<1>2. Unseen(j)' <=> cron[j].ok /\ cron[j].ran > Known(j)'.lastOk
  BY <1>1 DEF Unseen, NewSuccess
<1>3. QED
  BY <1>2, EvaluateIs DEF Known

LEMMA StoreRecordIs ==
    ASSUME WatchInv, NEW s
    PROVE  /\ StoreRecord(s) \in [since : 0 .. now, alerted : BOOLEAN]
           /\ StoreRecord(s).since = IF s \in DOMAIN file.stores THEN file.stores[s].since ELSE now
<1> DEFINE r == IF s \in DOMAIN file.stores THEN file.stores[s] ELSE [since |-> now, alerted |-> FALSE]
<1>1. r \in [since : 0 .. now, alerted : BOOLEAN]
  BY DEF WatchInv, WatchTypeOK, ShapesHold
<1>2. StoreRecord(s) = [r EXCEPT !.alerted = @ \/ now - r.since > PauseAlert]
  BY DEF StoreRecord
<1>3. r.since = IF s \in DOMAIN file.stores THEN file.stores[s].since ELSE now
  OBVIOUS
<1> HIDE DEF r
<1>4. QED
  BY <1>1, <1>2, <1>3

\* The clock of a job stays within the time that has passed.
LEMMA ClockFits ==
    ASSUME WatchInv, NEW j \in CronJobs
    PROVE  /\ Clocked(j).lastOk \in Never .. now /\ Clocked(j).paused \in 0 .. now
           /\ Rec(j).lastOk \in Never .. now /\ Rec(j).paused \in 0 .. now
           /\ Known(j).paused =< IF StoreOf[j] \in DOMAIN file.stores
                                 THEN file.stores[StoreOf[j]].since ELSE now
           /\ Unseen(j) => Clocked(j).lastOk # Never
<1>1. /\ now \in Nat /\ cron[j].ran \in Never .. now
      /\ StoreOf[j] \in DOMAIN file.stores => file.stores[StoreOf[j]].since \in 0 .. now
  BY DEF WatchInv, WatchTypeOK, ShapesHold
<1>2. Known(j).paused =< IF StoreOf[j] \in DOMAIN file.stores THEN file.stores[StoreOf[j]].since ELSE now
  <2>1. CASE j \in DOMAIN file.jobs
    BY <2>1 DEF WatchInv, PausesFit, Known
  <2>2. CASE j \notin DOMAIN file.jobs
    BY <1>1, <2>2 DEF Known, NewRecord
  <2>3. QED
    BY <2>1, <2>2
<1>3. Known(j).lastOk \in Never .. now /\ Known(j).paused \in 0 .. now
  BY KnownIsRecord
<1>4. Clocked(j).lastOk \in Never .. now /\ Clocked(j).paused \in 0 .. now
  <2>1. CASE Unseen(j)
    BY <1>1, <2>1, ClockedIs DEF Unseen
  <2>2. CASE ~Unseen(j)
    <3>1. Known(j).paused + Stop(j) \in 0 .. now
      BY <1>1, <1>2, <1>3 DEF Stop
    <3>2. QED
      BY <1>3, <2>2, <3>1, ClockedIs DEF Unseen
  <2>3. QED
    BY <2>1, <2>2
<1>5. Unseen(j) => Clocked(j).lastOk # Never
  BY <1>1, <1>3, ClockedIs DEF Unseen, NewSuccess, Never
<1>6. Rec(j).lastOk \in Never .. now /\ Rec(j).paused \in 0 .. now
  <2>1. CASE Off(j)
    BY <1>1, <1>3, <2>1, JudgementIs DEF Never
  <2>2. CASE ~Off(j) /\ StoreOf[j] \in stopped
    BY <1>3, <2>2, JudgementCases
  <2>3. CASE Watched(j)
    BY <1>1, <1>4, <2>3, JudgementIs DEF Never
  <2>4. QED
    BY <2>1, <2>2, <2>3 DEF Watched
<1>7. QED
  BY <1>2, <1>4, <1>5, <1>6

\* A run that sees a job has seen its successes.
LEMMA WatchedIsSeen ==
    ASSUME WatchInv, NEW unread, Evaluate(unread, TRUE), NEW j \in Seen(unread), Watched(j)
    PROVE  ~Unseen(j)' /\ Known(j)'.lastOk # Never
<1>1. j \in CronJobs
  BY DEF Seen
<1>2. now \in Nat /\ cron[j].ran \in Never .. now /\ Known(j).lastOk \in Never .. now
  BY <1>1, KnownIsRecord DEF WatchInv, WatchTypeOK
<1>3. Rec(j).lastOk = IF Clocked(j).lastOk = Never THEN now ELSE Clocked(j).lastOk
  BY <1>1, JudgementIs
<1>4. cron[j].ok /\ cron[j].ran > Known(j).lastOk => Clocked(j).lastOk = cron[j].ran
  BY <1>1, ClockedIs DEF NewSuccess
<1>5. ~(cron[j].ok /\ cron[j].ran > Known(j).lastOk) => Clocked(j).lastOk = Known(j).lastOk
  BY <1>1, ClockedIs DEF NewSuccess
<1>6. ~(cron[j].ok /\ cron[j].ran > Rec(j).lastOk) /\ Rec(j).lastOk # Never
  BY <1>2, <1>3, <1>4, <1>5 DEF Never
<1>7. Known(j)' = Rec(j) /\ (Unseen(j)' <=> cron[j].ok /\ cron[j].ran > Known(j)'.lastOk)
  BY <1>1, AfterEvaluate
<1>8. QED
  BY <1>6, <1>7

LEMMA EvaluateKeepsTypes ==
    ASSUME WatchInv, NEW unread, NEW saved \in BOOLEAN, Evaluate(unread, saved)
    PROVE  WatchTypeOK' /\ ShapesHold'
<1>1. now' = now /\ cron' = cron /\ stopped' = stopped /\ heard' = heard /\ charged' = charged
      /\ ticked' = TRUE
  BY EvaluateIs
<1>2. moves' \in 0 .. MaxMoves
  <2>1. moves \in 0 .. MaxMoves /\ MaxMoves \in Nat
    BY WatchAssumption DEF WatchAssumption, WatchInv, WatchTypeOK
  <2>2. /\ Happens("unreadable", unread # {}) /\ Happens("save", ~saved)
        /\ Moved(unread # {} \/ ~saved)
    BY DEF Evaluate
  <2>3. QED
    BY <2>1, <2>2 DEF Happens, Moved
<1>3. outbox' \subseteq (Kinds \X CronJobs) \cup ({"stopped"} \X Stores)
  <2> DEFINE seen == {j \in CronJobs : StoreOf[j] \notin unread}
             judged == [j \in seen |-> Judgement(j)]
  <2>1. outbox' = {a \in Kinds \X seen : a[1] \in judged[a[2]].say}
                     \cup {<<"stopped", s>> : s \in {x \in stopped : PausedLong(x)}}
    BY DEF Evaluate
  <2>2. stopped \subseteq Stores
    BY DEF WatchInv, WatchTypeOK
  <2>3. Kinds \X seen \subseteq Kinds \X CronJobs
    OBVIOUS
  <2> HIDE DEF seen, judged
  <2>4. QED
    BY <2>1, <2>2, <2>3
<1>4. /\ DOMAIN file'.jobs \subseteq CronJobs /\ DOMAIN file'.stores \subseteq Stores
      /\ \A j \in DOMAIN file'.jobs : /\ file'.jobs[j] \in Records
                                      /\ file'.jobs[j].lastOk \in Never .. now
                                      /\ file'.jobs[j].paused \in 0 .. now
      /\ \A s \in DOMAIN file'.stores : file'.stores[s] \in [since : 0 .. now, alerted : BOOLEAN]
  <2>1. CASE saved
    <3>1. DOMAIN file'.jobs = Seen(unread) /\ \A j \in Seen(unread) : file'.jobs[j] = Rec(j)
      BY <2>1, EvaluateIs
    <3>2. DOMAIN file'.stores = stopped /\ \A s \in stopped : file'.stores[s] = StoreRecord(s)
      BY <2>1, EvaluateIs
    <3>3. Seen(unread) \subseteq CronJobs
      BY DEF Seen
    <3>4. \A j \in CronJobs : Rec(j) \in Records /\ Rec(j).lastOk \in Never .. now
                              /\ Rec(j).paused \in 0 .. now
      BY JudgementIs, ClockFits
    <3>5. \A s : StoreRecord(s) \in [since : 0 .. now, alerted : BOOLEAN]
      BY StoreRecordIs
    <3>6. stopped \subseteq Stores
      BY DEF WatchInv, WatchTypeOK
    <3>7. QED
      BY <3>1, <3>2, <3>3, <3>4, <3>5, <3>6
  <2>2. CASE ~saved
    <3>1. file' = file
      BY <2>2, EvaluateIs
    <3>2. QED
      BY <3>1 DEF WatchInv, WatchTypeOK, ShapesHold
  <2>3. QED
    BY <2>1, <2>2
<1>5. loose' \subseteq CronJobs /\ paged' \subseteq CronJobs /\ odd' \subseteq CronJobs
  <2>1. loose \subseteq CronJobs /\ paged \subseteq CronJobs /\ odd \subseteq CronJobs
    BY DEF WatchInv, WatchTypeOK
  <2>2. Seen(unread) \subseteq CronJobs
    BY DEF Seen
  <2>3. odd' \subseteq CronJobs
    BY <2>1, EvaluateIs
  <2>4. loose' \subseteq CronJobs /\ paged' \subseteq CronJobs
    <3>1. CASE saved
      BY <2>1, <2>2, <3>1, EvaluateIs
    <3>2. CASE ~saved
      BY <2>1, <2>2, <3>2, EvaluateIs
    <3>3. QED
      BY <3>1, <3>2
  <2>5. QED
    BY <2>3, <2>4
<1>6. WatchTypeOK'
  BY <1>1, <1>2, <1>3, <1>4, <1>5 DEF WatchInv, WatchTypeOK
<1>7. ShapesHold'
  BY <1>1, <1>4 DEF WatchInv, ShapesHold
<1>8. QED
  BY <1>6, <1>7

LEMMA EvaluateKeepsClocks ==
    ASSUME WatchInv, NEW unread, NEW saved \in BOOLEAN, Evaluate(unread, saved)
    PROVE  PausesFit' /\ RecordIsOlder' /\ NoClockNoCount' /\ SuccessIsCounted'
<1>1. now' = now /\ cron' = cron /\ charged' = charged /\ ticked' = TRUE /\ stopped' = stopped
  BY EvaluateIs
<1>2. CASE ~saved
  <2>1. file' = file /\ \A j \in CronJobs : j \in odd' /\ Known(j)' = Known(j)
    BY <1>2, EvaluateIs, AfterEvaluate
  <2>2. PausesFit' /\ RecordIsOlder'
    BY <1>1, <2>1 DEF WatchInv, PausesFit, RecordIsOlder
  <2>3. NoClockNoCount'
    BY <2>1 DEF WatchInv, NoClockNoCount
  <2>4. SuccessIsCounted'
    BY <1>1, <2>1 DEF WatchInv, SuccessIsCounted, NewSuccess
  <2>5. QED
    BY <2>2, <2>3, <2>4
<1>3. CASE saved
  <2>1. /\ DOMAIN file'.jobs = Seen(unread) /\ \A j \in Seen(unread) : file'.jobs[j] = Rec(j)
        /\ DOMAIN file'.stores = stopped /\ \A s \in stopped : file'.stores[s] = StoreRecord(s)
    BY <1>3, EvaluateIs
  <2>2. Seen(unread) \subseteq CronJobs
    BY DEF Seen
  <2>3. PausesFit'
    <3> SUFFICES ASSUME NEW j \in Seen(unread)
                 PROVE  Rec(j).paused =< IF StoreOf[j] \in stopped THEN StoreRecord(StoreOf[j]).since ELSE now
      BY <1>1, <2>1 DEF PausesFit
    <3>1. Rec(j).paused \in 0 .. now
      BY <2>2, ClockFits
    <3>2. CASE StoreOf[j] \notin stopped
      BY <3>1, <3>2
    <3>3. CASE StoreOf[j] \in stopped
      <4>1. Rec(j).paused = Known(j).paused
        BY <2>2, <3>3, JudgementIs, JudgementCases
      <4>2. Known(j).paused =< IF StoreOf[j] \in DOMAIN file.stores
                               THEN file.stores[StoreOf[j]].since ELSE now
        BY <2>2, ClockFits
      <4>3. QED
        BY <3>3, <4>1, <4>2, StoreRecordIs
    <3>4. QED
      BY <3>2, <3>3
  <2>4. RecordIsOlder'
    BY <1>1 DEF RecordIsOlder
  <2>5. NoClockNoCount'
    <3> SUFFICES ASSUME NEW j \in CronJobs, Known(j)'.lastOk = Never
                 PROVE  j \in odd' /\ ~Known(j)'.alerted
      BY DEF NoClockNoCount
    <3>1. CASE j \notin Seen(unread)
      <4>1. j \in odd'
        BY <3>1, EvaluateIs
      <4>2. Known(j)' = NewRecord
        BY <1>3, <3>1, AfterEvaluate
      <4>3. QED
        BY <4>1, <4>2, NewRecordIs
    <3>2. CASE j \in Seen(unread) /\ Off(j)
      BY <1>3, <3>2, EvaluateIs, AfterEvaluate, JudgementIs
    <3>3. CASE j \in Seen(unread) /\ ~Off(j) /\ StoreOf[j] \in stopped
      <4>1. Known(j)' = Known(j)
        BY <1>3, <3>3, AfterEvaluate, JudgementCases
      <4>2. j \in odd /\ ~Known(j).alerted
        BY <4>1 DEF WatchInv, NoClockNoCount
      <4>3. QED
        BY <4>1, <4>2, EvaluateIs
    <3>4. CASE j \in Seen(unread) /\ Watched(j)
      BY <1>3, <3>4, WatchedIsSeen
    <3>5. QED
      BY <3>1, <3>2, <3>3, <3>4 DEF Watched
  <2>6. SuccessIsCounted'
    <3> SUFFICES ASSUME NEW j \in CronJobs,
                        Unseen(j)', Known(j)'.lastOk # Never, StoreOf[j] \notin DOMAIN file'.stores
                 PROVE  FALSE
      BY DEF SuccessIsCounted, Unseen
    <3>1. j \in Seen(unread)
      <4>1. j \notin Seen(unread) => Known(j)' = NewRecord
        BY <1>3, AfterEvaluate
      <4>2. QED
        BY <4>1, NewRecordIs
    <3>2. ~Off(j)
      BY <1>3, <3>1, AfterEvaluate, JudgementIs
    <3>3. StoreOf[j] \notin stopped
      BY <2>1
    <3>4. QED
      BY <1>3, <3>1, <3>2, <3>3, WatchedIsSeen DEF Watched
  <2>7. QED
    BY <2>3, <2>4, <2>5, <2>6
<1>4. QED
  BY <1>2, <1>3

\* The clock is right after a run: a stop is banked as it ends, and not twice.
LEMMA EvaluateKeepsCharge ==
    ASSUME WatchInv, NEW unread, NEW saved \in BOOLEAN, Evaluate(unread, saved)
    PROVE  SilenceIsCharged'
<1> DEFINE stop(j) == IF StoreOf[j] \in DOMAIN file.stores THEN now - file.stores[StoreOf[j]].since ELSE 0
<1> SUFFICES ASSUME NEW j \in DOMAIN file'.jobs, j \notin odd', ~Unseen(j)'
             PROVE  now' - file'.jobs[j].lastOk - file'.jobs[j].paused - stop(j)' = charged'[j]
  BY DEF SilenceIsCharged, Unseen
<1>1. now' = now /\ cron' = cron /\ charged' = charged /\ stopped' = stopped
  BY EvaluateIs
<1>2. j \in CronJobs
  BY EvaluateKeepsTypes DEF WatchTypeOK
<1>3. saved /\ j \in Seen(unread) /\ ~Off(j) /\ ~(Unseen(j) /\ StopKnown(j))
  BY <1>2, EvaluateIs
<1>4. file'.jobs[j] = Rec(j)
  BY <1>3, EvaluateIs
<1>5. stop(j)' = IF StoreOf[j] \in stopped THEN now - StoreRecord(StoreOf[j]).since ELSE 0
  BY <1>1, <1>3, EvaluateIs
<1>6. j \notin odd => /\ Known(j).lastOk # Never
                      /\ ~Unseen(j) => now - Known(j).lastOk - Known(j).paused - Stop(j) = charged[j]
  <2> SUFFICES ASSUME j \notin odd
               PROVE  /\ Known(j).lastOk # Never
                      /\ ~Unseen(j) => now - Known(j).lastOk - Known(j).paused - Stop(j) = charged[j]
    OBVIOUS
  <2>1. Known(j).lastOk # Never
    BY <1>2 DEF WatchInv, NoClockNoCount
  <2>2. j \in DOMAIN file.jobs /\ file.jobs[j] = Known(j)
    BY <2>1 DEF Known, NewRecord
  <2>3. QED
    BY <2>1, <2>2 DEF WatchInv, SilenceIsCharged, Unseen, Stop
<1>7. j \notin odd \/ (Unseen(j) /\ ~StopKnown(j) /\ Known(j).lastOk # Never)
  BY <1>2, EvaluateIs
<1>8. now \in Nat /\ cron[j].ran \in Never .. now /\ charged[j] \in Int
      /\ Known(j).lastOk \in Never .. now /\ Known(j).paused \in 0 .. now /\ Stop(j) \in Int
  BY <1>2, KnownIsRecord, ClockedIs DEF WatchInv, WatchTypeOK, ShapesHold
<1> HIDE DEF stop
<1>9. CASE StoreOf[j] \in stopped
  <2>1. ~Unseen(j)
    BY <1>3, <1>9 DEF StopKnown
  <2>2. Rec(j) = Known(j)
    BY <1>3, <1>9, JudgementCases
  <2>3. stop(j)' = Stop(j)
    BY <1>5, <1>8, <1>9, StoreRecordIs DEF Stop
  <2>4. QED
    BY <1>1, <1>4, <1>6, <1>7, <2>1, <2>2, <2>3
<1>10. CASE StoreOf[j] \notin stopped /\ Unseen(j)
  <2>1. Watched(j) /\ ~StopKnown(j)
    BY <1>3, <1>10 DEF Watched
  <2>2. charged[j] = now - cron[j].ran
    <3>1. StoreOf[j] \notin DOMAIN file.stores /\ Known(j).lastOk # Never
      BY <1>6, <1>7, <2>1 DEF StopKnown
    <3>2. QED
      BY <1>2, <1>10, <3>1 DEF WatchInv, SuccessIsCounted, Unseen
  <2>3. Rec(j).lastOk = cron[j].ran /\ Rec(j).paused = 0
    BY <1>2, <1>10, <2>1, ClockFits, ClockedIs, JudgementIs DEF Unseen
  <2>4. stop(j)' = 0
    BY <1>5, <1>10
  <2>5. QED
    BY <1>1, <1>4, <1>8, <2>2, <2>3, <2>4
<1>11. CASE StoreOf[j] \notin stopped /\ ~Unseen(j)
  <2>1. Watched(j)
    BY <1>3, <1>11 DEF Watched
  <2>2. Known(j).lastOk # Never /\ now - Known(j).lastOk - Known(j).paused - Stop(j) = charged[j]
    BY <1>6, <1>7, <1>11
  <2>3. Rec(j).lastOk = Known(j).lastOk /\ Rec(j).paused = Known(j).paused + Stop(j)
    BY <1>2, <1>11, <2>1, <2>2, ClockedIs, JudgementIs DEF Unseen
  <2>4. stop(j)' = 0
    BY <1>5, <1>11
  <2>5. QED
    BY <1>1, <1>4, <1>8, <2>2, <2>3, <2>4
<1>12. QED
  BY <1>9, <1>10, <1>11

\* A page latches the job at its last success, and a latched job is left latched.
LEMMA EvaluateKeepsPages ==
    ASSUME WatchInv, NEW unread, NEW saved \in BOOLEAN, Evaluate(unread, saved)
    PROVE  PagedIsLatched'
<1>1. cron' = cron
  BY EvaluateIs
<1>2. CASE ~saved
  <2>1. paged' = paged /\ file' = file
    BY <1>2, EvaluateIs
  <2>2. QED
    BY <1>1, <2>1 DEF WatchInv, PagedIsLatched, Known, NewSuccess
<1>3. CASE saved
  <2> SUFFICES ASSUME NEW j \in paged'
               PROVE  Known(j)'.alerted /\ Known(j)'.alertedAtOk = Known(j)'.lastOk /\ ~Unseen(j)'
    BY DEF PagedIsLatched, Unseen
  <2>1. /\ j \in Seen(unread) /\ j \in CronJobs
        /\ (j \in paged /\ ~Off(j)) \/ Say(j) \cap Pages # {}
    <3>1. paged' = {i \in paged : i \in Seen(unread) /\ ~Off(i)}
                      \cup {i \in Seen(unread) : Say(i) \cap Pages # {}}
      BY <1>3, EvaluateIs
    <3>2. QED
      BY <3>1 DEF Seen
  <2>2. Known(j)' = Rec(j)
    BY <1>3, <2>1, AfterEvaluate
  <2>3. now \in Nat /\ Clocked(j) \in Records /\ Clocked(j).lastOk \in Never .. now
    BY <2>1, ClockedIs, ClockFits DEF WatchInv, WatchTypeOK
  <2>4. CASE Say(j) \cap Pages # {}
    <3>1. Judges(j)
      BY <2>4, JudgementCases
    <3>2. Rec(j) = Judged(j, Clocked(j)) /\ Say(j) = Alerts(j, Clocked(j))
      BY <3>1, JudgementCases
    <3>3. TurnsStale(j, Clocked(j))
      BY <2>4, <3>2, AlertsAre DEF Pages, TurnsFlapping
    <3>4. ~Recovers(j, Clocked(j))
      BY <3>3 DEF Recovers
    <3>5. Rec(j).alerted /\ Rec(j).alertedAtOk = Rec(j).lastOk
      BY <2>1, <2>3, <3>2, <3>3, <3>4, JudgedIs
    <3>6. ~Unseen(j)'
      BY <1>3, <2>1, <3>1, WatchedIsSeen DEF Judges, Watched
    <3>7. QED
      BY <2>2, <3>5, <3>6
  <2>5. CASE Say(j) \cap Pages = {}
    <3>1. j \in paged /\ ~Off(j)
      BY <2>1, <2>5
    <3>2. Known(j).alerted /\ Known(j).alertedAtOk = Known(j).lastOk /\ ~Unseen(j)
      BY <3>1 DEF WatchInv, PagedIsLatched, Unseen
    <3>3. Known(j).lastOk # Never
      BY <2>1, <3>2 DEF WatchInv, NoClockNoCount
    <3>4. CASE StoreOf[j] \in stopped
      <4>1. Rec(j) = Known(j)
        BY <3>1, <3>4, JudgementCases
      <4>2. Unseen(j)' <=> Unseen(j)
        BY <2>1, <2>2, <4>1, AfterEvaluate DEF Unseen, NewSuccess
      <4>3. QED
        BY <2>2, <3>2, <4>1, <4>2
    <3>5. CASE StoreOf[j] \notin stopped
      <4> DEFINE r == Clocked(j)
      <4>1. r.alerted /\ r.alertedAtOk = r.lastOk /\ r.lastOk = Known(j).lastOk
        BY <2>1, <3>2, ClockedIs DEF Unseen
      <4>2. ~TurnsStale(j, r) /\ ~Recovers(j, r)
        BY <2>3, <4>1 DEF TurnsStale, Recovers, Never
      <4>3. Rec(j) = r \/ Rec(j) = Judged(j, r)
        BY <3>1, <3>3, <3>5, <4>1, JudgementCases
      <4>4. /\ Judged(j, r).alerted /\ Judged(j, r).alertedAtOk = r.alertedAtOk
            /\ Judged(j, r).lastOk = r.lastOk
        BY <2>1, <2>3, <4>1, <4>2, JudgedIs
      <4>5. ~Unseen(j)'
        BY <1>3, <2>1, <3>1, <3>5, WatchedIsSeen DEF Watched
      <4> HIDE DEF r
      <4>6. QED
        BY <2>2, <4>1, <4>3, <4>4, <4>5
    <3>6. QED
      BY <3>4, <3>5
  <2>6. QED
    BY <2>4, <2>5
<1>4. QED
  BY <1>2, <1>3

\* What the last word on a job must agree with.
Agrees(word, r) ==
    /\ word = "stale" => r.alerted
    /\ word = "recovered" => ~r.alerted
    /\ r.muted => word = "flapping"

\* A run tells of every change of the latch, but of none of a job that is muted.
LEMMA EvaluateKeepsWord ==
    ASSUME WatchInv, NEW unread, NEW saved \in BOOLEAN, Evaluate(unread, saved)
    PROVE  WordHolds'
<1> SUFFICES ASSUME NEW j \in CronJobs, j \notin loose', NEW word \in LastWords(j)'
             PROVE  Agrees(word, Known(j)')
  BY DEF WordHolds, Agrees
<1>1. outbox = {} /\ heard' = heard
  BY EvaluateIs
<1>2. Words \subseteq Kinds
  BY DEF Words, Kinds
<1>3. {k \in Words : <<k, j>> \in outbox'} = IF j \in Seen(unread) THEN Say(j) \cap Words ELSE {}
  BY <1>2, EvaluateIs
<1>4. LastWords(j)' = IF j \in Seen(unread) /\ Tells(j) THEN Say(j) \cap Words ELSE {heard[j]}
  BY <1>1, <1>3 DEF LastWords, Tells
<1>5. j \notin loose => Agrees(heard[j], Known(j))
  BY <1>1 DEF WatchInv, WordHolds, LastWords, Agrees
<1>6. CASE ~saved
  <2>1. j \notin loose /\ ~(j \in Seen(unread) /\ Tells(j)) /\ Known(j)' = Known(j)
    BY <1>6, EvaluateIs, AfterEvaluate
  <2>2. QED
    BY <1>4, <1>5, <2>1
<1>7. CASE saved
  <2>1. j \in Seen(unread) /\ ~Off(j) /\ (Tells(j) \/ j \notin loose)
    BY <1>7, EvaluateIs
  <2>2. Known(j)' = Rec(j)
    BY <1>7, <2>1, AfterEvaluate
  <2> DEFINE r == Clocked(j)
  <2>3. r \in Records /\ r.alerted = Known(j).alerted /\ r.muted = Known(j).muted
    BY ClockedIs
  <2>4. Judges(j) => /\ Rec(j) = Judged(j, r) /\ Say(j) = Alerts(j, r)
                     /\ Rec(j).alerted <=> (r.alerted \/ TurnsStale(j, r)) /\ ~Recovers(j, r)
                     /\ Rec(j).muted <=> Muted(j, r) \/ TurnsFlapping(j, r)
    <3> SUFFICES ASSUME Judges(j)
                 PROVE  /\ Rec(j) = Judged(j, r) /\ Say(j) = Alerts(j, r)
                        /\ Judged(j, r).alerted <=> (r.alerted \/ TurnsStale(j, r)) /\ ~Recovers(j, r)
                        /\ Judged(j, r).muted <=> Muted(j, r) \/ TurnsFlapping(j, r)
      BY JudgementCases
    <3>1. Rec(j) = Judged(j, r) /\ Say(j) = Alerts(j, r)
      BY JudgementCases
    <3>2. Judged(j, r).alerted <=> (r.alerted \/ TurnsStale(j, r)) /\ ~Recovers(j, r)
      BY <2>3, JudgedIs
    <3>3. Judged(j, r).muted <=> Muted(j, r) \/ TurnsFlapping(j, r)
      BY <2>3, JudgedIs
    <3>4. QED
      BY <3>1, <3>2, <3>3
  <2>5. /\ TurnsFlapping(j, r) => TurnsStale(j, r)
        /\ Recovers(j, r) => ~TurnsStale(j, r)
        /\ Muted(j, r) => r.muted
    BY DEF TurnsFlapping, Recovers, Muted
  <2>6. CASE Tells(j)
    <3>1. Judges(j) /\ word \in Alerts(j, r) /\ word \in Words
      <4>1. Judges(j)
        BY <2>6, JudgementCases DEF Tells
      <4>2. QED
        BY <1>4, <2>1, <2>4, <2>6, <4>1
    <3>2. CASE word = "stale"
      BY <2>2, <2>4, <2>5, <3>1, <3>2, AlertsAre DEF Agrees
    <3>3. CASE word = "recovered"
      BY <2>2, <2>4, <2>5, <3>1, <3>3, AlertsAre DEF Agrees
    <3>4. CASE word = "flapping"
      BY <3>4 DEF Agrees
    <3>5. QED
      BY <3>1, <3>2, <3>3, <3>4 DEF Words, Pages
  <2>7. CASE ~Tells(j)
    <3>1. word = heard[j] /\ Agrees(word, Known(j))
      BY <1>4, <1>5, <2>1, <2>7
    <3>2. CASE StoreOf[j] \in stopped
      BY <2>1, <2>2, <3>1, <3>2, JudgementCases
    <3>3. CASE StoreOf[j] \notin stopped /\ r.lastOk = Never
      <4>1. ~Rec(j).alerted /\ Rec(j).muted = Known(j).muted
        BY <2>1, <3>3, JudgementIs DEF Watched
      <4>2. ~Unseen(j)
        BY <3>3, ClockFits
      <4>3. ~Known(j).alerted
        BY <3>3, <4>2, ClockedIs DEF Unseen, WatchInv, NoClockNoCount
      <4>4. QED
        BY <2>2, <3>1, <4>1, <4>3 DEF Agrees
    <3>4. CASE StoreOf[j] \notin stopped /\ r.lastOk # Never /\ ~Judges(j)
      <4>1. Rec(j) = r
        BY <2>1, <3>4, JudgementCases
      <4>2. QED
        BY <2>2, <2>3, <3>1, <4>1 DEF Agrees
    <3>5. CASE Judges(j)
      <4>1. "stale" \notin Alerts(j, r) /\ "flapping" \notin Alerts(j, r) /\ "recovered" \notin Alerts(j, r)
        BY <2>4, <2>7, <3>5 DEF Tells, Words, Pages
      <4>2. ~TurnsFlapping(j, r)
        BY <4>1, AlertsAre
      <4>3. CASE Muted(j, r)
        <5>1. word = "flapping"
          BY <2>3, <2>5, <3>1, <4>3 DEF Agrees
        <5>2. QED
          BY <5>1 DEF Agrees
      <4>4. CASE ~Muted(j, r)
        <5>1. ~TurnsStale(j, r)
          BY <4>1, <4>2, <4>4, AlertsAre
        <5>2. ~Recovers(j, r)
          BY <4>1, <4>4, AlertsAre
        <5>3. (Rec(j).alerted <=> Known(j).alerted) /\ ~Rec(j).muted
          BY <2>3, <2>4, <3>5, <4>2, <4>4, <5>1, <5>2
        <5>4. QED
          BY <2>2, <3>1, <5>3 DEF Agrees
      <4>5. QED
        BY <4>3, <4>4
    <3>6. QED
      BY <3>2, <3>3, <3>4, <3>5
  <2>8. QED
    BY <2>6, <2>7
<1>8. QED
  BY <1>6, <1>7

-----------------------------------------------------------------------------
(* The other steps *)

\* What is written of a job is what it was while the state file is.
LEMMA SameFile == ASSUME file' = file PROVE \A j : Known(j)' = Known(j)
  BY DEF Known

LEMMA SameClocks ==
    ASSUME WatchInv, UNCHANGED <<now, cron, ticked, file, charged, odd>>
    PROVE  /\ PausesFit' /\ RecordIsOlder' /\ NoClockNoCount' /\ SuccessIsCounted'
           /\ SilenceIsCharged'
<1>1. \A j : Known(j)' = Known(j)
  BY SameFile
<1>2. PausesFit' /\ RecordIsOlder' /\ NoClockNoCount'
  BY <1>1 DEF WatchInv, PausesFit, RecordIsOlder, NoClockNoCount
<1>3. SuccessIsCounted' /\ SilenceIsCharged'
  BY <1>1 DEF WatchInv, SuccessIsCounted, SilenceIsCharged, NewSuccess
<1>4. QED
  BY <1>2, <1>3

LEMMA SamePages ==
    ASSUME WatchInv, UNCHANGED <<cron, file, paged>>
    PROVE  PagedIsLatched'
  BY SameFile DEF WatchInv, PagedIsLatched, NewSuccess

LEMMA SameWords ==
    ASSUME WatchInv, UNCHANGED <<file, outbox, heard, loose>>
    PROVE  WordHolds'
  BY SameFile DEF WatchInv, WordHolds, LastWords

\* An alert that arrives is the word it was; one that is lost leaves the job loose.
LEMMA SendKeeps ==
    ASSUME WatchInv, NEW a \in outbox, NEW arrives \in BOOLEAN, Send(a, arrives)
    PROVE  WatchInv'
<1> DEFINE about == a[1] \in Words
<1>1. /\ outbox' = outbox \ {a} /\ Happens("send", ~arrives) /\ Moved(~arrives)
      /\ heard' = IF arrives /\ about THEN [heard EXCEPT ![a[2]] = a[1]] ELSE heard
      /\ loose' = IF ~arrives /\ about THEN loose \cup {a[2]} ELSE loose
      /\ UNCHANGED <<now, cron, stopped, ticked, file, paged, charged, odd>>
  BY DEF Send, Words
<1>2. about => a[2] \in CronJobs
  BY DEF WatchInv, WatchTypeOK, Words, Pages, Kinds
<1>3. heard \in [CronJobs -> Words]
  BY DEF WatchInv, ShapesHold
<1>4. moves' \in 0 .. MaxMoves
  BY <1>1, WatchAssumption DEF WatchInv, WatchTypeOK, Happens, Moved, WatchAssumption
<1>5. WatchTypeOK'
  <2>1. outbox' \subseteq outbox /\ loose' \subseteq CronJobs
    BY <1>1, <1>2 DEF WatchInv, WatchTypeOK
  <2>2. QED
    BY <1>1, <1>4, <2>1 DEF WatchInv, WatchTypeOK
<1>6. ShapesHold'
  <2>1. heard' \in [CronJobs -> Words]
    BY <1>1, <1>2, <1>3
  <2>2. QED
    BY <1>1, <2>1 DEF WatchInv, ShapesHold
<1>7. WordHolds'
  <2> SUFFICES ASSUME NEW j \in CronJobs, j \notin loose', NEW word \in LastWords(j)'
               PROVE  Agrees(word, Known(j))
    BY <1>1, SameFile DEF WordHolds, Agrees
  <2> DEFINE unsent == {k \in Words : <<k, j>> \in outbox}
  <2>1. j \notin loose /\ ~(about /\ ~arrives /\ a[2] = j)
    BY <1>1
  <2>2. \A w \in LastWords(j) : Agrees(w, Known(j))
    BY <2>1 DEF WatchInv, WordHolds, Agrees
  <2>3. unsent' \subseteq unsent
    BY <1>1
  <2>4. CASE unsent' # {}
    <3>1. word \in unsent' /\ unsent # {}
      BY <2>3, <2>4 DEF LastWords
    <3>2. QED
      BY <2>2, <2>3, <3>1 DEF LastWords
  <2>5. CASE unsent' = {} /\ about /\ a[2] = j
    <3>1. arrives /\ word = a[1]
      BY <1>1, <1>2, <1>3, <2>1, <2>5 DEF LastWords
    <3>2. a = <<a[1], j>>
      BY <2>5 DEF WatchInv, WatchTypeOK
    <3>3. a[1] \in unsent
      BY <2>5, <3>2
    <3>4. QED
      BY <2>2, <3>1, <3>3 DEF LastWords
  <2>6. CASE unsent' = {} /\ ~(about /\ a[2] = j)
    <3>1. \A k \in Words : <<k, j>> # a
      BY <2>6
    <3>2. unsent = {}
      BY <1>1, <2>6, <3>1
    <3>3. heard'[j] = heard[j]
      BY <1>1, <1>3, <2>6
    <3>4. word = heard[j]
      BY <2>6, <3>3 DEF LastWords
    <3>5. QED
      BY <2>2, <3>2, <3>4 DEF LastWords
  <2>7. QED
    BY <2>4, <2>5, <2>6
<1>8. QED
  BY <1>1, <1>5, <1>6, <1>7, SameClocks, SamePages DEF WatchInv

LEMMA KilledKeeps == ASSUME WatchInv, WatchKilled PROVE WatchInv'
<1>1. /\ outbox' = {} /\ Happens("kill", TRUE) /\ Moved(TRUE)
      /\ loose' = loose \cup {j \in CronJobs : \E k \in Words : <<k, j>> \in outbox}
      /\ UNCHANGED <<now, cron, stopped, ticked, file, heard, paged, charged, odd>>
  BY DEF WatchKilled, Words
<1>2. moves' \in 0 .. MaxMoves
  BY <1>1, WatchAssumption DEF WatchInv, WatchTypeOK, Happens, Moved, WatchAssumption
<1>3. WatchTypeOK' /\ ShapesHold'
  BY <1>1, <1>2 DEF WatchInv, WatchTypeOK, ShapesHold
<1>4. WordHolds'
  <2> SUFFICES ASSUME NEW j \in CronJobs, j \notin loose', NEW word \in LastWords(j)'
               PROVE  Agrees(word, Known(j))
    BY <1>1, SameFile DEF WordHolds, Agrees
  <2>1. j \notin loose /\ {k \in Words : <<k, j>> \in outbox} = {}
    BY <1>1
  <2>2. word \in LastWords(j)
    BY <1>1, <2>1 DEF LastWords
  <2>3. QED
    BY <2>1, <2>2 DEF WatchInv, WordHolds, Agrees
<1>5. QED
  BY <1>1, <1>3, <1>4, SameClocks, SamePages DEF WatchInv

\* The scheduler's record of a run, field by field.
Ended(r, ok, next) == [r EXCEPT !.ran = now, !.ok = ok, !.next = next]
LEMMA EndedIs ==
    ASSUME NEW r \in CronRecords, NEW ok \in BOOLEAN, NEW next \in Nat, now \in Int
    PROVE  /\ Ended(r, ok, next) \in CronRecords /\ Ended(r, ok, next).ran = now
           /\ Ended(r, ok, next).ok = ok
<1> DEFINE r1 == [r EXCEPT !.ran = now]
           r2 == [r1 EXCEPT !.ok = ok]
           r3 == [r2 EXCEPT !.next = next]
<1>1. r1 \in CronRecords /\ r1.ran = now
  BY DEF CronRecords
<1> HIDE DEF r1
<1>2. r2 \in CronRecords /\ r2.ran = now /\ r2.ok = ok
  BY <1>1 DEF CronRecords
<1> HIDE DEF r2
<1>3. r3 \in CronRecords /\ r3.ran = now /\ r3.ok = ok
  BY <1>2 DEF CronRecords
<1>4. QED
  BY <1>3 DEF r1, r2, Ended

\* A success starts a silence anew; a failure hides a success that no run has seen.
LEMMA JobEndsKeeps ==
    ASSUME WatchInv, NEW j \in CronJobs, NEW ok \in BOOLEAN, NEW gap \in Gaps, JobEnds(j, ok, gap)
    PROVE  WatchInv'
<1>1. /\ ~ticked
      /\ paged' = IF ok THEN paged \ {j} ELSE paged
      /\ charged' = IF ok THEN [charged EXCEPT ![j] = 0] ELSE charged
      /\ odd' = IF ~ok /\ Unseen(j) THEN odd \cup {j} ELSE odd
      /\ UNCHANGED <<now, stopped, ticked, moves, file, outbox, heard, loose>>
  BY DEF JobEnds, Unseen
<1>2. now \in Nat /\ cron \in [CronJobs -> CronRecords] /\ charged \in [CronJobs -> Int] /\ now + gap \in Nat
  BY WatchAssumption DEF WatchAssumption, WatchInv, WatchTypeOK, ShapesHold
<1>3. cron' = [cron EXCEPT ![j] = Ended(cron[j], ok, now + gap)]
  BY <1>2 DEF JobEnds, Ended, CronRecords
<1>4. Ended(cron[j], ok, now + gap) \in CronRecords
  BY <1>2, EndedIs
<1>5. /\ cron' \in [CronJobs -> CronRecords]
      /\ cron'[j].ran = now /\ cron'[j].ok = ok
      /\ \A i \in CronJobs : i # j => cron'[i] = cron[i] /\ charged'[i] = charged[i]
      /\ ok => charged'[j] = 0
  BY <1>1, <1>2, <1>3, <1>4, EndedIs
<1>6. WatchTypeOK' /\ ShapesHold'
  <2>1. \A i \in CronJobs : cron'[i].ran \in Never .. now /\ cron'[i].next \in Nat
    BY <1>2, <1>5 DEF WatchInv, WatchTypeOK, CronRecords, Never
  <2>2. charged' \in [CronJobs -> Int]
    BY <1>1, <1>2
  <2>3. WatchTypeOK'
    BY <1>1, <2>1 DEF WatchInv, WatchTypeOK
  <2>4. ShapesHold'
    BY <1>1, <1>5, <2>2 DEF WatchInv, ShapesHold
  <2>5. QED
    BY <2>3, <2>4
<1>7. \A i \in CronJobs : /\ Known(i)' = Known(i)
                          /\ i # j => (Unseen(i)' <=> Unseen(i))
                          /\ Unseen(j)' <=> ok /\ now > Known(j).lastOk
  BY <1>1, <1>5, SameFile DEF Unseen, NewSuccess
<1>8. PausesFit' /\ RecordIsOlder' /\ NoClockNoCount'
  BY <1>1, <1>7 DEF WatchInv, PausesFit, RecordIsOlder, NoClockNoCount
<1>9. SuccessIsCounted'
  <2> SUFFICES ASSUME NEW i \in CronJobs,
                      Unseen(i)', Known(i).lastOk # Never, StoreOf[i] \notin DOMAIN file.stores
               PROVE  charged'[i] = now - cron'[i].ran
    BY <1>1, <1>7 DEF SuccessIsCounted, Unseen
  <2>1. CASE i = j
    BY <1>2, <1>5, <1>7, <2>1
  <2>2. CASE i # j
    BY <1>5, <1>7, <2>2 DEF WatchInv, SuccessIsCounted, Unseen
  <2>3. QED
    BY <2>1, <2>2
<1>10. SilenceIsCharged'
  <2> DEFINE stop(i) == IF StoreOf[i] \in DOMAIN file.stores
                        THEN now - file.stores[StoreOf[i]].since ELSE 0
  <2> SUFFICES ASSUME NEW i \in DOMAIN file.jobs, i \notin odd', ~Unseen(i)'
               PROVE  now - file.jobs[i].lastOk - file.jobs[i].paused - stop(i) = charged'[i]
    BY <1>1 DEF SilenceIsCharged, Unseen
  <2>1. i \in CronJobs /\ i \notin odd
    BY <1>1 DEF WatchInv, WatchTypeOK
  <2>2. ~Unseen(i) /\ charged'[i] = charged[i]
    <3>1. CASE i = j
      <4>1. file.jobs[j].lastOk < now
        BY <1>1, <3>1 DEF WatchInv, RecordIsOlder
      <4>2. ~ok
        BY <1>7, <2>1, <3>1, <4>1 DEF Known
      <4>3. QED
        BY <1>1, <3>1, <4>2
    <3>2. CASE i # j
      BY <1>5, <1>7, <2>1, <3>2
    <3>3. QED
      BY <3>1, <3>2
  <2>3. QED
    BY <2>1, <2>2 DEF WatchInv, SilenceIsCharged, Unseen
<1>11. PagedIsLatched'
  <2> SUFFICES ASSUME NEW i \in paged'
               PROVE  Known(i).alerted /\ Known(i).alertedAtOk = Known(i).lastOk /\ ~Unseen(i)'
    BY <1>1, SameFile DEF PagedIsLatched, Unseen
  <2>1. i \in paged /\ i \in CronJobs /\ ~(ok /\ i = j)
    BY <1>1 DEF WatchInv, WatchTypeOK
  <2>2. QED
    BY <1>7, <2>1 DEF WatchInv, PagedIsLatched, Unseen
<1>12. WordHolds'
  BY <1>1, SameWords
<1>13. QED
  BY <1>6, <1>8, <1>9, <1>10, <1>11, <1>12 DEF WatchInv

LEMMA SwitchKeeps == ASSUME WatchInv, NEW j \in CronJobs, Switch(j) PROVE WatchInv'
<1>1. /\ moves < MaxMoves /\ Moved(TRUE)
      /\ cron' = [cron EXCEPT ![j].enabled = ~@]
      /\ UNCHANGED <<now, stopped, ticked, file, outbox, heard, loose, paged, charged, odd>>
  BY DEF Switch, histories
<1>2. cron \in [CronJobs -> CronRecords]
  BY DEF WatchInv, ShapesHold
<1>3. /\ cron' \in [CronJobs -> CronRecords]
      /\ \A i \in CronJobs : /\ cron'[i].ran = cron[i].ran /\ cron'[i].ok = cron[i].ok
                             /\ cron'[i].next = cron[i].next
  BY <1>1, <1>2 DEF CronRecords
<1>4. moves' \in 0 .. MaxMoves
  BY <1>1, WatchAssumption DEF WatchInv, WatchTypeOK, Moved, WatchAssumption
<1>5. WatchTypeOK' /\ ShapesHold'
  BY <1>1, <1>3, <1>4 DEF WatchInv, WatchTypeOK, ShapesHold
<1>6. \A i \in CronJobs : Known(i)' = Known(i) /\ (Unseen(i)' <=> Unseen(i))
  BY <1>1, <1>3, SameFile DEF Unseen, NewSuccess
<1>7. DOMAIN file.jobs \subseteq CronJobs /\ paged \subseteq CronJobs
  BY DEF WatchInv, WatchTypeOK
<1>8. PausesFit' /\ RecordIsOlder' /\ NoClockNoCount'
  BY <1>1, <1>6 DEF WatchInv, PausesFit, RecordIsOlder, NoClockNoCount
<1>9. SuccessIsCounted'
  BY <1>1, <1>3, <1>6 DEF WatchInv, SuccessIsCounted, Unseen
<1>10. SilenceIsCharged'
  BY <1>1, <1>6, <1>7 DEF WatchInv, SilenceIsCharged, Unseen
<1>11. PagedIsLatched'
  BY <1>1, <1>6, <1>7 DEF WatchInv, PagedIsLatched, Unseen
<1>12. QED
  BY <1>1, <1>5, <1>8, <1>9, <1>10, <1>11, SameWords DEF WatchInv

LEMMA StopKeeps == ASSUME WatchInv, NEW s \in Stores, StopOrOpen(s) PROVE WatchInv'
<1>1. /\ moves < MaxMoves /\ Moved(TRUE)
      /\ stopped' = (stopped \cup {s}) \ (stopped \cap {s})
      /\ UNCHANGED <<now, cron, ticked, file, outbox, heard, loose, paged, charged, odd>>
  BY DEF StopOrOpen, histories
<1>2. moves' \in 0 .. MaxMoves
  BY <1>1, WatchAssumption DEF WatchInv, WatchTypeOK, Moved, WatchAssumption
<1>3. WatchTypeOK' /\ ShapesHold'
  BY <1>1, <1>2 DEF WatchInv, WatchTypeOK, ShapesHold
<1>4. QED
  BY <1>1, <1>3, SameClocks, SamePages, SameWords DEF WatchInv

\* A unit of time is charged to a job unless its store is known to be stopped.
LEMMA PassKeeps == ASSUME WatchInv, Pass PROVE WatchInv'
<1>1. /\ now < LastMoment /\ now' = now + 1 /\ ticked' = FALSE
      /\ charged' = [j \in CronJobs |-> IF StoreOf[j] \in DOMAIN file.stores THEN charged[j] ELSE charged[j] + 1]
      /\ UNCHANGED <<cron, stopped, moves, file, outbox, heard, loose, paged, odd>>
  BY DEF Pass
<1>2. now \in Nat /\ now' \in 0 .. LastMoment /\ charged \in [CronJobs -> Int]
  BY <1>1, WatchAssumption DEF WatchInv, WatchTypeOK, ShapesHold, WatchAssumption
<1>3. \A j \in CronJobs :
         charged'[j] = IF StoreOf[j] \in DOMAIN file.stores THEN charged[j] ELSE charged[j] + 1
  BY <1>1
<1>4. WatchTypeOK'
  <2>1. \A t \in Int : t \in Never .. now => t \in Never .. now'
    BY <1>1, <1>2
  <2>2. \A t \in Int : t \in 0 .. now => t \in 0 .. now'
    BY <1>1, <1>2
  <2>3. /\ stopped \subseteq Stores /\ moves \in 0 .. MaxMoves
        /\ \A j \in CronJobs : cron[j].ran \in Never .. now' /\ cron[j].next \in Nat
        /\ DOMAIN file.jobs \subseteq CronJobs /\ DOMAIN file.stores \subseteq Stores
        /\ \A j \in DOMAIN file.jobs : /\ file.jobs[j].lastOk \in Never .. now'
                                       /\ file.jobs[j].paused \in 0 .. now'
        /\ outbox \subseteq (Kinds \X CronJobs) \cup ({"stopped"} \X Stores)
        /\ loose \cup paged \cup odd \subseteq CronJobs
    BY <2>1, <2>2 DEF WatchInv, WatchTypeOK, Never
  <2>4. QED
    BY <1>1, <1>2, <2>3 DEF WatchTypeOK
<1>5. ShapesHold'
  <2>1. \A s \in DOMAIN file.stores : file.stores[s] \in [since : 0 .. now', alerted : BOOLEAN]
    BY <1>1, <1>2 DEF WatchInv, ShapesHold
  <2>2. charged' \in [CronJobs -> Int]
    BY <1>1, <1>2
  <2>3. QED
    BY <1>1, <2>1, <2>2 DEF WatchInv, ShapesHold
<1>6. \A j : Known(j)' = Known(j) /\ (Unseen(j)' <=> Unseen(j))
  BY <1>1, SameFile DEF Unseen, NewSuccess
<1>7. /\ DOMAIN file.jobs \subseteq CronJobs
      /\ \A j \in DOMAIN file.jobs : /\ file.jobs[j].lastOk \in Never .. now
                                     /\ file.jobs[j].paused \in 0 .. now
      /\ \A s \in DOMAIN file.stores : file.stores[s].since \in 0 .. now
      /\ \A j \in CronJobs : cron[j].ran \in Never .. now
  BY DEF WatchInv, WatchTypeOK, ShapesHold
<1>8. PausesFit'
  BY <1>1, <1>2, <1>7 DEF WatchInv, PausesFit
<1>9. RecordIsOlder'
  BY <1>1, <1>2, <1>7 DEF RecordIsOlder, Never
<1>10. NoClockNoCount'
  BY <1>1, <1>6 DEF WatchInv, NoClockNoCount
<1>11. SuccessIsCounted'
  BY <1>1, <1>2, <1>3, <1>6, <1>7 DEF WatchInv, SuccessIsCounted, Unseen, Never
<1>12. SilenceIsCharged'
  BY <1>1, <1>2, <1>3, <1>6, <1>7 DEF WatchInv, SilenceIsCharged, Unseen, Never
<1>13. QED
  BY <1>1, <1>4, <1>5, <1>8, <1>9, <1>10, <1>11, <1>12, SamePages, SameWords DEF WatchInv

-----------------------------------------------------------------------------
(* The invariant *)

LEMMA InitHolds == ASSUME WatchInit PROVE WatchInv
<1>1. DOMAIN file.jobs = {} /\ DOMAIN file.stores = {}
  BY DEF WatchInit
<1>2. \A j : Known(j) = NewRecord
  BY <1>1 DEF Known
<1>3. WatchTypeOK
  <2>1. \A j \in CronJobs : cron[j].ran = Never /\ cron[j].next = 0
    BY DEF WatchInit
  <2>2. 0 \in 0 .. LastMoment /\ 0 \in 0 .. MaxMoves /\ Never \in Never .. 0
    BY WatchAssumption DEF WatchAssumption, Never
  <2>3. QED
    BY <1>1, <2>1, <2>2 DEF WatchInit, WatchTypeOK
<1>4. ShapesHold
  <2>1. [enabled |-> TRUE, ran |-> Never, ok |-> FALSE, next |-> 0] \in CronRecords
    BY DEF CronRecords, Never
  <2>2. cron \in [CronJobs -> CronRecords]
    BY <2>1 DEF WatchInit
  <2>3. heard \in [CronJobs -> Words] /\ charged \in [CronJobs -> Int]
    BY DEF WatchInit, Words
  <2>4. QED
    BY <1>1, <2>2, <2>3 DEF ShapesHold
<1>5. PausesFit /\ RecordIsOlder /\ SilenceIsCharged
  BY <1>1 DEF PausesFit, RecordIsOlder, SilenceIsCharged
<1>6. NoClockNoCount /\ SuccessIsCounted /\ PagedIsLatched
  BY <1>2 DEF WatchInit, NoClockNoCount, SuccessIsCounted, PagedIsLatched, NewRecord
<1>7. WordHolds
  BY <1>2 DEF WatchInit, WordHolds, LastWords, NewRecord
<1>8. QED
  BY <1>3, <1>4, <1>5, <1>6, <1>7 DEF WatchInv

LEMMA StepHolds == WatchInv /\ [WatchNext]_watchVars => WatchInv'
<1> SUFFICES ASSUME WatchInv, [WatchNext]_watchVars PROVE WatchInv'
  OBVIOUS
<1>1. ASSUME NEW unread \in SUBSET Stores, NEW saved \in BOOLEAN, Evaluate(unread, saved) PROVE WatchInv'
  BY <1>1, EvaluateKeepsTypes, EvaluateKeepsClocks, EvaluateKeepsCharge, EvaluateKeepsPages,
     EvaluateKeepsWord DEF WatchInv
<1>2. ASSUME NEW a \in outbox, NEW arrives \in BOOLEAN, Send(a, arrives) PROVE WatchInv'
  BY <1>2, SendKeeps
<1>3. CASE WatchKilled
  BY <1>3, KilledKeeps
<1>4. ASSUME NEW j \in CronJobs, NEW ok \in BOOLEAN, NEW gap \in Gaps, JobEnds(j, ok, gap) PROVE WatchInv'
  BY <1>4, JobEndsKeeps
<1>5. ASSUME NEW j \in CronJobs, Switch(j) PROVE WatchInv'
  BY <1>5, SwitchKeeps
<1>6. ASSUME NEW s \in Stores, StopOrOpen(s) PROVE WatchInv'
  BY <1>6, StopKeeps
<1>7. CASE Pass
  BY <1>7, PassKeeps
<1>8. CASE UNCHANGED watchVars
  <2>1. UNCHANGED <<now, cron, stopped, ticked, moves, file, outbox, heard, loose, paged, charged, odd>>
    BY <1>8 DEF watchVars, environment, histories
  <2>2. WatchTypeOK' /\ ShapesHold'
    BY <2>1 DEF WatchInv, WatchTypeOK, ShapesHold
  <2>3. QED
    BY <2>1, <2>2, SameClocks, SamePages, SameWords DEF WatchInv
<1>9. QED
  BY <1>1, <1>2, <1>3, <1>4, <1>5, <1>6, <1>7, <1>8 DEF WatchNext

\* What the clock, the latch and the words of a job have to do with one another, for any
\* jobs and thresholds and runs of any length (evaluate, save_state, ntfy).
THEOREM WatchInvariant == WatchSpec => []WatchInv
<1>1. WatchInit => WatchInv
  BY InitHolds
<1>2. QED
  BY <1>1, StepHolds, PTL DEF WatchSpec

\* The types, the silence that is charged, and the operator's last word, as the run checks
\* them on one job (evaluate: banked, paused, last_ok; ntfy).
THEOREM StateStaysTrue == WatchSpec => []StateIsTrue
<1>1. WatchInv => OperatorIsCurrent
  <2> SUFFICES ASSUME WatchInv, NEW j \in DOMAIN file.jobs \ loose, NEW word \in LastWords(j)
               PROVE  /\ word = "stale" => file.jobs[j].alerted
                      /\ word = "recovered" => ~file.jobs[j].alerted
    BY DEF OperatorIsCurrent, LastWords, Words
  <2>1. j \in CronJobs /\ Known(j) = file.jobs[j]
    BY DEF WatchInv, WatchTypeOK, Known
  <2>2. QED
    BY <2>1 DEF WatchInv, WordHolds
<1>2. WatchInv => StateIsTrue
  BY <1>1 DEF WatchInv, StateIsTrue
<1>3. QED
  BY <1>2, WatchInvariant, PTL

\* A page is the first of its silence and the silence is longer than the threshold; a
\* recovery is told after a success only (evaluate: newly stale, recovered_by_success).
LEMMA StepEarns ==
    ASSUME WatchInv, WatchInv', WatchNext, NEW j \in CronJobs
    PROVE  LET new == {k \in Pages : <<k, j>> \in outbox' \ outbox}
           IN  /\ new # {} => /\ j \notin paged
                              /\ \/ j \in odd \cup odd'
                                 \/ charged[j] > Threshold(CadenceUsed(j, Clocked(j)))
               /\ <<"recovered", j>> \in outbox' \ outbox => j \notin paged
<1> DEFINE r == Clocked(j)
<1>1. CASE \E unread \in SUBSET Stores, saved \in BOOLEAN : Evaluate(unread, saved)
  <2>1. PICK unread \in SUBSET Stores, saved \in BOOLEAN : Evaluate(unread, saved)
    BY <1>1
  <2>2. \A k \in Kinds : <<k, j>> \in outbox' => k \in Say(j) /\ j \in Seen(unread)
    BY <2>1, EvaluateIs
  <2>3. Say(j) # {} => Judges(j) /\ Say(j) = Alerts(j, r)
    BY JudgementCases
  <2>4. now \in Nat /\ Known(j) \in Records /\ r \in Records /\ charged[j] \in Int
        /\ r.lastOk \in Never .. now /\ r.paused \in 0 .. now
        /\ Known(j).lastOk \in Never .. now
    BY KnownIsRecord, ClockedIs, ClockFits DEF WatchInv, WatchTypeOK, ShapesHold
  <2>5. j \in paged => r.alerted /\ r.lastOk = r.alertedAtOk
    BY ClockedIs DEF WatchInv, PagedIsLatched, Unseen
  <2>6. ASSUME NEW k \in Pages, <<k, j>> \in outbox'
        PROVE  /\ j \notin paged
               /\ j \in odd \cup odd' \/ charged[j] > Threshold(CadenceUsed(j, r))
    <3>1. Judges(j) /\ TurnsStale(j, r)
      BY <2>2, <2>3, <2>6, AlertsAre DEF Kinds, Pages, TurnsFlapping
    <3>2. j \notin paged
      BY <2>5, <3>1 DEF TurnsStale
    <3>3. ASSUME j \notin odd, j \notin odd' PROVE charged[j] > Threshold(CadenceUsed(j, r))
      <4>1. now - r.lastOk - r.paused = charged[j]
        <5>1. saved /\ j \in Seen(unread) /\ ~(Unseen(j) /\ StopKnown(j)) /\ Watched(j)
          BY <2>1, <2>2, <2>6, <3>1, <3>3, EvaluateIs DEF Judges, Watched, Kinds
        <5>2. CASE Unseen(j)
          <6>1. StoreOf[j] \notin DOMAIN file.stores /\ Known(j).lastOk # Never
            BY <3>3, <5>1, <5>2 DEF StopKnown, WatchInv, NoClockNoCount
          <6>2. charged[j] = now - cron[j].ran
            BY <5>2, <6>1 DEF WatchInv, SuccessIsCounted, Unseen
          <6>3. r.lastOk = cron[j].ran /\ r.paused = 0
            BY <5>2, ClockedIs DEF Unseen
          <6>4. QED
            BY <2>4, <6>2, <6>3
        <5>3. CASE ~Unseen(j)
          <6>1. Known(j).lastOk # Never
            BY <3>3 DEF WatchInv, NoClockNoCount
          <6>2. j \in DOMAIN file.jobs /\ file.jobs[j] = Known(j)
            BY <6>1 DEF Known, NewRecord
          <6>3. now - Known(j).lastOk - Known(j).paused - Stop(j) = charged[j]
            BY <3>3, <5>3, <6>2 DEF WatchInv, SilenceIsCharged, Unseen, Stop
          <6>4. /\ r.lastOk = Known(j).lastOk /\ r.paused = Known(j).paused + Stop(j)
                /\ Stop(j) \in Int /\ Known(j).paused \in 0 .. now
            BY <5>3, ClockedIs, KnownIsRecord DEF Unseen
          <6>5. QED
            BY <2>4, <6>3, <6>4
        <5>4. QED
          BY <5>2, <5>3
      <4>2. Silent(r) > Threshold(CadenceUsed(j, r))
        BY <3>1 DEF TurnsStale, Overdue
      <4>3. Threshold(CadenceUsed(j, r)) \in Nat
        <5>1. CadenceUsed(j, r) \in Nat
          BY <2>4, CadenceIsNat DEF CadenceUsed, Records
        <5>2. QED
          BY <5>1, ThresholdIsNat
      <4>4. Silent(r) \in {charged[j], 0}
        <5> DEFINE d == now - r.lastOk - r.paused
                   zero == 0
        <5>1. d \in Int /\ zero \in Int /\ Silent(r) = Max({d, zero})
          BY <2>4 DEF Silent, Never
        <5> HIDE DEF d, zero
        <5>2. Silent(r) \in {d, zero}
          BY <5>1, MaxOfTwo, Zenon
        <5>3. QED
          BY <4>1, <5>2 DEF d, zero
      <4> HIDE DEF r
      <4>5. QED
        BY <2>4, <4>2, <4>3, <4>4
    <3>4. QED
      BY <3>2, <3>3
  <2>7. ASSUME <<"recovered", j>> \in outbox' PROVE j \notin paged
    <3>1. Recovers(j, r)
      BY <2>2, <2>3, <2>7, AlertsAre DEF Kinds
    <3>2. r.lastOk > r.alertedAtOk
      BY <3>1 DEF Recovers
    <3>3. QED
      BY <2>4, <2>5, <3>2 DEF Records, Never
  <2>8. QED
    BY <2>6, <2>7
<1>2. CASE outbox' \subseteq outbox
  BY <1>2
<1>3. QED
  BY <1>1, <1>2 DEF WatchNext, Send, WatchKilled, JobEnds, Switch, StopOrOpen, Pass

\* One page per silence and none before its time, in every behaviour and not only in the
\* small ones: the property the run checks.
THEOREM PagesStayEarned == WatchSpec => PagesAreEarned
<1> DEFINE earned(j) ==
      LET new == {k \in Pages : <<k, j>> \in outbox' \ outbox}
      IN  /\ new # {} => /\ j \notin paged
                         /\ j \in odd \cup odd' \/ charged[j] > Threshold(CadenceUsed(j, Clocked(j)))
          /\ <<"recovered", j>> \in outbox' \ outbox => j \notin paged
<1>1. WatchInv /\ WatchInv' /\ [WatchNext]_watchVars => [\A j \in CronJobs : earned(j)]_watchVars
  BY StepEarns
<1>2. QED
  BY <1>1, WatchInvariant, PTL DEF WatchSpec, PagesAreEarned

-----------------------------------------------------------------------------
(* The brain watchdog.                                                     *)

USE DEF files, flapVars, alertVars, Push, Tone, Tones, memory, Steps, Messages, ProbeStates, Streaks

LEMMA TypeInit == Init => TypeOK /\ VerdictHolds
BY WatchdogAssumption DEF Init, TypeOK, VerdictHolds

\* What the helpers return stays within its type.
LEMMA HelperTypes ==
    ASSUME TypeOK
    PROVE  /\ Raised \in Streaks
           /\ Lowered \in Streaks
           /\ Escalated(result) \in ProbeStates
           /\ Escalated(result) = "up" => result = "up"
           /\ Escalated(result) = "busy" => busy + 1 \in 0..(BusyGrace - 1)
           /\ OneMore \in 0..MaxFlaps
BY WatchdogAssumption DEF TypeOK, Raised, Lowered, Escalated, OneMore

\* Every step keeps the types, and the verdict that each later step acts on:
\* without the verdict an edge could leave any probe reading in the state file.
LEMMA TypeStep ==
    TypeOK /\ VerdictHolds /\ [Next]_vars => TypeOK' /\ VerdictHolds'
<1> SUFFICES ASSUME TypeOK, VerdictHolds, [Next]_vars
             PROVE  TypeOK' /\ VerdictHolds'
  OBVIOUS
<1> USE WatchdogAssumption DEF TypeOK, VerdictHolds
<1>1. CASE Start
  BY <1>1 DEF Start
<1>2. CASE JudgeUp
  BY <1>2, HelperTypes DEF JudgeUp
<1>3. CASE JudgeBusy
  BY <1>3, HelperTypes DEF JudgeBusy, AfterBusy
<1>4. CASE JudgeDown
  BY <1>4, HelperTypes DEF JudgeDown
<1>5. CASE Reconcile
  BY <1>5 DEF Reconcile
<1>6. CASE CronDone
  BY <1>6 DEF CronDone
<1>7. ASSUME NEW j \in Jobs, CronCall(j) PROVE TypeOK' /\ VerdictHolds'
  BY <1>7 DEF CronCall, Wanted
<1>8. CASE EdgePage
  BY <1>8 DEF EdgePage, NewState
<1>9. CASE OpenWindow
  BY <1>9 DEF OpenWindow, NewState
<1>10. CASE EdgeCoalesced
  BY <1>10, HelperTypes DEF EdgeCoalesced
<1>11. CASE Escalate
  BY <1>11 DEF Escalate, NewState
<1>12. CASE SaveState \/ SaveStreak \/ SaveBusy
  BY <1>12 DEF SaveState, SaveStreak, SaveBusy
<1>13. CASE Summary
  BY <1>13 DEF Summary, EpisodeCleared, Forgotten
<1>14. CASE Kill
  BY <1>14 DEF Kill, Forgotten
<1>15. CASE ReconcileBlind
  BY <1>15 DEF ReconcileBlind
<1>16. ASSUME NEW j \in Jobs, CronCallFails(j) PROVE TypeOK' /\ VerdictHolds'
  BY <1>16 DEF CronCallFails
<1>17. CASE Clock \/ BrainChanges
  BY <1>17 DEF Clock, CooldownElapses, EpisodeAges, RearmElapses, BrainChanges
<1>18. CASE UNCHANGED vars
  BY <1>18 DEF vars
<1> QED
  BY <1>1, <1>2, <1>3, <1>4, <1>5, <1>6, <1>7, <1>8, <1>9, <1>10, <1>11,
     <1>12, <1>13, <1>14, <1>15, <1>16, <1>17, <1>18
  DEF Next, Run, Judge, Fleet, Edge, Save, Fault

\* Every variable keeps its type, whatever fails and is killed.
THEOREM WatchdogType == Spec => []TypeOK
<1>1. TypeOK /\ VerdictHolds /\ [Next]_vars => (TypeOK /\ VerdictHolds)'
  BY TypeStep
<1> QED
  BY TypeInit, <1>1, PTL DEF Spec

-----------------------------------------------------------------------------
(* Runs that are not killed.                                               *)

NoKill == "kill" \notin MayFail
ResumesWork == "resume" \notin MayFail

\* What a run has in mind about the state file and the pages, whichever CLI calls fail.
MindHolds == TypeOK /\ VerdictHolds /\ StateHolds /\ PageHolds

LEMMA MindInit == Init => MindHolds
BY TypeInit DEF Init, MindHolds, StateHolds, PageHolds, Owned, Resting

\* One run, from its probe to its summary, keeps state and pages as they should be.
LEMMA MindStep == NoKill /\ MindHolds /\ [Next]_vars => MindHolds'
<1> SUFFICES ASSUME NoKill, MindHolds, [Next]_vars PROVE (StateHolds /\ PageHolds)'
  BY TypeStep DEF MindHolds
<1> USE WatchdogAssumption
    DEF MindHolds, TypeOK, VerdictHolds, StateHolds, PageHolds, Owned, Resting
<1>1. CASE Start
  BY <1>1 DEF Start
<1>2. CASE JudgeUp
  BY <1>2 DEF JudgeUp
<1>3. CASE JudgeBusy
  BY <1>3 DEF JudgeBusy, AfterBusy
<1>4. CASE JudgeDown
  BY <1>4 DEF JudgeDown
<1>5. CASE Fleet
  BY <1>5 DEF Fleet, Reconcile, CronDone, CronCall
<1>6. CASE EdgePage
  BY <1>6 DEF EdgePage, NewState, Coalesced
<1>7. CASE OpenWindow
  BY <1>7 DEF OpenWindow, NewState
<1>8. CASE EdgeCoalesced
  BY <1>8 DEF EdgeCoalesced
<1>9. CASE Escalate
  BY <1>9 DEF Escalate, NewState
<1>10. CASE SaveState \/ SaveStreak \/ SaveBusy
  BY <1>10 DEF SaveState, SaveStreak, SaveBusy
<1>11. CASE Summary
  BY <1>11 DEF Summary, EpisodeEnds, EpisodeCleared, Forgotten
<1>12. CASE Fault
  BY <1>12 DEF Fault, Kill, ReconcileBlind, CronCallFails, NoKill
<1>13. CASE Clock \/ BrainChanges
  BY <1>13 DEF Clock, CooldownElapses, EpisodeAges, RearmElapses, BrainChanges
<1>14. CASE UNCHANGED vars
  BY <1>14 DEF vars
<1> QED
  BY <1>1, <1>2, <1>3, <1>4, <1>5, <1>6, <1>7, <1>8, <1>9, <1>10, <1>11, <1>12, <1>13, <1>14
  DEF Next, Run, Judge, Edge, Save

\* And with it the fleet, when the calls that resume a job work: a pause that fails leaves
\* the job active, and a board that cannot be read leaves nothing paused that was not.
LEMMA FleetStep ==
    ASSUME NoKill, ResumesWork, MindHolds, FleetHolds, [Next]_vars PROVE FleetHolds'
<1> USE WatchdogAssumption
    DEF MindHolds, TypeOK, VerdictHolds, StateHolds, FleetHolds, Resting, AllActive
<1>1. CASE Start
  BY <1>1 DEF Start
<1>2. CASE JudgeUp
  BY <1>2 DEF JudgeUp
<1>3. CASE JudgeBusy
  BY <1>3 DEF JudgeBusy, AfterBusy
<1>4. CASE JudgeDown
  BY <1>4 DEF JudgeDown
<1>5. CASE Reconcile
  BY <1>5 DEF Reconcile, ToRepair
<1>6. CASE CronDone
  BY <1>6 DEF CronDone
<1>7. ASSUME NEW j \in Jobs, CronCall(j) PROVE FleetHolds'
  BY <1>7 DEF CronCall, Wanted
<1>8. CASE Edge
  BY <1>8 DEF Edge, EdgePage, OpenWindow, EdgeCoalesced, Escalate, NewState
<1>9. CASE Save
  BY <1>9 DEF Save, SaveState, SaveStreak, SaveBusy, Summary, Forgotten
<1>10. CASE Kill
  BY <1>10 DEF Kill, NoKill
<1>11. CASE ReconcileBlind
  BY <1>11 DEF ReconcileBlind
<1>12. ASSUME NEW j \in Jobs, CronCallFails(j) PROVE FleetHolds'
  BY <1>12 DEF CronCallFails, ResumesWork
<1>13. CASE Clock \/ BrainChanges
  BY <1>13 DEF Clock, CooldownElapses, EpisodeAges, RearmElapses, BrainChanges
<1>14. CASE UNCHANGED vars
  BY <1>14 DEF vars
<1> QED
  BY <1>1, <1>2, <1>3, <1>4, <1>5, <1>6, <1>7, <1>8, <1>9, <1>10, <1>11, <1>12, <1>13, <1>14
  DEF Next, Run, Judge, Fleet, Fault

\* What every run that is not killed keeps, whatever the CLI does.
THEOREM MindInvariant == ASSUME NoKill PROVE Spec => []MindHolds
BY MindInit, MindStep, PTL DEF Spec

\* The inductive invariant holds when nothing is killed and what resumes a job works.
THEOREM WatchdogInvariant == ASSUME NoKill, ResumesWork PROVE Spec => []IInv
<1>1. Init => IInv
  BY MindInit DEF Init, IInv, MindHolds, FleetHolds, Resting, AllActive
<1>2. IInv /\ [Next]_vars => IInv'
  BY MindStep, FleetStep DEF IInv, MindHolds
<1> QED
  BY <1>1, <1>2, PTL DEF Spec

\* While the watchdog rests on a healthy verdict, every job runs.
THEOREM UpTheorem == ASSUME NoKill, ResumesWork PROVE Spec => []UpMeansRunning
<1>1. IInv => UpMeansRunning
  BY DEF IInv, FleetHolds, UpMeansRunning
<1> QED
  BY WatchdogInvariant, <1>1, PTL

\* A recorded outage was the last thing pushed, or belongs to an open flap episode, whichever calls
\* to the board fail.
THEOREM OutageTheorem == ASSUME NoKill PROVE Spec => []OutageIsPagedOrOpen
<1>1. MindHolds => OutageIsPagedOrOpen
  BY DEF MindHolds, PageHolds, Owned, OutageIsPagedOrOpen
<1> QED
  BY MindInvariant, <1>1, PTL

-----------------------------------------------------------------------------
(* The probes behind a pause.                                              *)

\* A streak of bad probes, in memory or in its file, never counts more of them than there
\* were; between the probe and its verdict it is the count to come that must be owed.
Accounted(s) == -s <= badProbes
StreakIsEarned ==
    /\ badProbes \in 0 .. DownAfter
    /\ pc \in {"idle", "save_busy", "summary"} => Accounted(streakFile)
    /\ pc = "judge" /\ result = "busy" => Accounted(streak)
    /\ pc = "judge" /\ result = "down" => Accounted(Lowered)
    /\ pc \notin {"idle", "judge"} => Accounted(streak)
    /\ pc = "pause" => badProbes = DownAfter

\* The record moves with a probe, or with the verdict on a busy one, and with nothing else.
LEMMA RecordedIs ==
    ASSUME TypeOK, StreakIsEarned, HistoryNext
    PROVE  /\ Start /\ brain = "up" => badProbes' = 0
           /\ Start /\ brain = "busy" => badProbes' = badProbes
           /\ Start /\ brain = "down" => badProbes' = OneMoreBad
           /\ JudgeDown /\ result = "busy" => badProbes' = OneMoreBad
           /\ JudgeDown /\ result = "down" => badProbes' = badProbes
           /\ pc \notin {"idle", "judge"} => badProbes' = badProbes
           /\ JudgeUp \/ JudgeBusy \/ pc' = "idle" => badProbes' = badProbes
<1>1. Recorded
  BY DEF HistoryNext
<1>2. Start => pc = "idle" /\ pc' = "judge"
  BY DEF Start
<1>3. JudgeDown => pc = "judge" /\ pc' # "idle" /\ Escalated(result) = "down"
  BY DEF JudgeDown
<1>4. JudgeUp \/ JudgeBusy => pc = "judge" /\ Escalated(result) # "down"
  BY DEF JudgeUp, JudgeBusy
<1>5. QED
  BY <1>1, <1>2, <1>3, <1>4 DEF Recorded

LEMMA OneMoreBadIs ==
    ASSUME TypeOK, StreakIsEarned, NEW s \in Streaks, Accounted(s)
    PROVE  /\ OneMoreBad \in 0 .. DownAfter /\ OneMoreBad >= badProbes
           /\ -(IF s > 0 THEN -1 ELSE IF s = -DownAfter THEN s ELSE s - 1) <= OneMoreBad
BY WatchdogAssumption DEF StreakIsEarned, Accounted, OneMoreBad

LEMMA StreakStep ==
    ASSUME NoKill, TypeOK, VerdictHolds, TypeOK', StreakIsEarned, HistoryNext
    PROVE  StreakIsEarned'
<1> USE WatchdogAssumption DEF TypeOK, StreakIsEarned, Accounted
<1>1. CASE Start
  <2>1. /\ brain \in ProbeStates /\ pc = "idle" /\ pc' = "judge"
        /\ result' = brain /\ streak' = streakFile /\ Accounted(streakFile)
    BY <1>1 DEF Start
  <2>2. Lowered' = IF streakFile > 0 THEN -1
                   ELSE IF streakFile = -DownAfter THEN streakFile ELSE streakFile - 1
    BY <2>1 DEF Lowered
  <2>3. CASE brain = "down"
    BY <1>1, <2>1, <2>2, <2>3, RecordedIs, OneMoreBadIs
  <2>4. CASE brain # "down"
    BY <1>1, <2>1, <2>4, RecordedIs
  <2>5. QED
    BY <2>3, <2>4
<1>2. CASE JudgeUp
  BY <1>2, RecordedIs DEF JudgeUp, Raised
<1>3. CASE JudgeBusy
  BY <1>3, RecordedIs DEF JudgeBusy, AfterBusy, Escalated
<1>4. CASE JudgeDown
  <2>1. /\ pc = "judge" /\ streak' = Lowered /\ pc' \in {"pause", "save_state"}
        /\ pc' = "pause" => Lowered <= -DownAfter
        /\ result \in {"busy", "down"}
    BY <1>4 DEF JudgeDown, Escalated
  <2>2. badProbes' \in 0 .. DownAfter /\ -Lowered <= badProbes'
    BY <1>4, <2>1, RecordedIs, OneMoreBadIs DEF Lowered
  <2>3. Lowered \in Streaks
    BY HelperTypes
  <2>4. pc' = "pause" => badProbes' = DownAfter
    <3>1. Lowered \in Int /\ badProbes' \in Int /\ DownAfter \in Int
      BY <2>2, <2>3
    <3>2. QED
      BY <2>1, <2>2, <3>1
  <2>5. pc' \notin {"idle", "judge", "save_busy", "summary"} /\ Accounted(streak)'
    BY <2>1, <2>2
  <2>6. QED
    BY <2>2, <2>4, <2>5
<1>5. CASE Fleet
  BY <1>5, RecordedIs DEF Fleet, Reconcile, CronDone, CronCall
<1>6. CASE Edge
  BY <1>6, RecordedIs DEF Edge, EdgePage, OpenWindow, EdgeCoalesced, Escalate
<1>7. CASE Save
  BY <1>7, RecordedIs DEF Save, SaveState, SaveStreak, SaveBusy, Summary, Forgotten
<1>8. CASE Fault
  BY <1>8, RecordedIs DEF Fault, Kill, ReconcileBlind, CronCallFails, NoKill
<1>9. CASE Clock \/ BrainChanges
  <2>1. UNCHANGED <<streakFile, streak, result, pc>>
    BY <1>9 DEF Clock, CooldownElapses, EpisodeAges, RearmElapses, BrainChanges
  <2>2. badProbes' = badProbes
    BY <1>9, <2>1 DEF HistoryNext, Recorded, Start, JudgeDown
  <2>3. Lowered' = Lowered
    BY <2>1 DEF Lowered
  <2>4. QED
    BY <2>1, <2>2, <2>3
<1> QED
  BY <1>1, <1>2, <1>3, <1>4, <1>5, <1>6, <1>7, <1>8, <1>9
  DEF HistoryNext, Next, Run, Judge

\* What is recorded of the probes, in runs that are not killed.
THEOREM StreakInvariant ==
    ASSUME NoKill PROVE HistorySpec => [](TypeOK /\ VerdictHolds /\ StreakIsEarned)
<1> DEFINE Earned == TypeOK /\ VerdictHolds /\ StreakIsEarned
<1>1. HistoryInit => Earned
  BY TypeInit, WatchdogAssumption DEF HistoryInit, Init, StreakIsEarned, Accounted
<1>2. Earned /\ [HistoryNext]_historyVars => Earned'
  <2>1. ASSUME Earned, HistoryNext PROVE Earned'
    <3>1. TypeOK' /\ VerdictHolds'
      BY <2>1, TypeStep DEF HistoryNext
    <3>2. QED
      BY <2>1, <3>1, StreakStep
  <2>2. ASSUME Earned, UNCHANGED historyVars PROVE Earned'
    <3>1. TypeOK' /\ VerdictHolds'
      BY <2>2, TypeStep DEF historyVars
    <3>2. UNCHANGED <<streakFile, streak, result, pc, badProbes>>
      BY <2>2 DEF historyVars, vars
    <3>3. QED
      BY <2>2, <3>1, <3>2 DEF StreakIsEarned, Accounted, Lowered
  <2>3. QED
    BY <2>1, <2>2
<1> QED
  BY <1>1, <1>2, PTL DEF HistorySpec

\* A job is paused only after DOWN_AFTER bad probes without a good one between them: the
\* property the run checks, for every fleet, debounce and weather and whichever calls to
\* the board fail.
THEOREM PauseTheorem == ASSUME NoKill PROVE HistorySpec => PauseIsDebounced
<1> DEFINE pauses == \E j \in Jobs : fleet[j] = "active" /\ fleet'[j] = "paused"
<1>1. TypeOK /\ VerdictHolds /\ StreakIsEarned /\ [HistoryNext]_historyVars
        => [pauses => badProbes >= DownAfter]_historyVars
  <2> SUFFICES ASSUME TypeOK, StreakIsEarned, HistoryNext, NEW j \in Jobs,
                      fleet[j] = "active", fleet'[j] = "paused"
               PROVE  badProbes >= DownAfter
    OBVIOUS
  <2>1. PICK k \in Jobs : CronCall(k)
    BY DEF HistoryNext, Next, Run, Start, Judge, JudgeUp, JudgeBusy, JudgeDown, Fleet, Reconcile,
           CronDone, Edge, EdgePage, OpenWindow, EdgeCoalesced, Escalate, Save, SaveState,
           SaveStreak, SaveBusy, Summary, Fault, Kill, ReconcileBlind, CronCallFails, Clock,
           CooldownElapses, EpisodeAges, RearmElapses, BrainChanges
  <2>2. pc = "pause"
    BY <2>1 DEF CronCall, Wanted, TypeOK
  <2>3. QED
    BY <2>2, WatchdogAssumption DEF StreakIsEarned
<1>2. QED
  BY <1>1, StreakInvariant, PTL DEF HistorySpec, PauseIsDebounced

=============================================================================
