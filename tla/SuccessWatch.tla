---------------------------- MODULE SuccessWatch ----------------------------
(* roles/fabric_watchdog/templates/cron-success-watchdog.py.j2: in every run of the timer *)
(* each scheduled job is judged by the time since its last success, the new judgement is  *)
(* saved, and then the operator is told what changed. A time is a number of units since   *)
(* the start; the cron stores, their stop sentinels and the clock are the surroundings.   *)
EXTENDS Integers, FiniteSets, Functions, FiniteSetsExt

CONSTANTS
    CronJobs, StoreOf,          \* jobs of all profiles, and the profile each is kept in
    Minutes,                    \* a job's declared interval, 0 for a cron expression
    Gaps,                       \* what may lie between a run and the next slot
    MissedCycles, Floor, Ceiling,
    FlapAlerts, FlapWindow, FlapQuiet, PauseAlert,
    WatchMay,                   \* faults: "kill", "send", "save", "unreadable"
    LastMoment, MaxMoves        \* bounds: of the clock, and of faults, stops and switches

WatchAssumption ==
    /\ IsFiniteSet(CronJobs) /\ Minutes \in [CronJobs -> Nat] /\ Gaps \subseteq Nat \ {0}
    /\ {MissedCycles, Floor, Ceiling, FlapAlerts, FlapWindow, FlapQuiet, PauseAlert} \subseteq Nat
    /\ {LastMoment, MaxMoves} \subseteq Nat
ASSUME WatchAssumption

VARIABLES
    now,
    cron,       \* the scheduler's record of each job: enabled, ran, ok, next
    stopped,    \* stores with an ESTOP beside them
    file,       \* the state file: a record per known job and per stopped store
    outbox,     \* alerts of the present run that are still to be sent
    ticked,     \* the timer has fired in this unit of time
    moves,      \* faults, stops and switches so far
    heard,      \* what the operator was last told of each job
    loose,      \* jobs whose latest change the operator was not told
    paged,      \* jobs paged for the silence they are in
    charged,    \* units since a job's last success in which its store was not seen stopped
    odd         \* jobs whose clock the code sets otherwise, see Judgement

environment == <<now, cron, stopped, ticked, moves>>
histories == <<heard, loose, paged, charged, odd>>
watchVars == <<environment, file, outbox, histories>>

Never == -1
Stores == Range(StoreOf)
Pages == {"stale", "flapping"}
Kinds == Pages \cup {"recovered", "waited"}
NewRecord == [lastOk |-> Never, alerted |-> FALSE, alertedAtOk |-> Never, paused |-> 0, cadence |-> 0,
              waiting |-> FALSE, flaps |-> {}, lastOverdue |-> Never, muted |-> FALSE]

(* --- what is read of a job ---------------------------------------------------------- *)
\* The job's own interval, 0 when it cannot be told.
CadenceOf(j) ==
    IF Minutes[j] > 0 THEN Minutes[j]
    ELSE IF cron[j].ran # Never /\ cron[j].next > cron[j].ran THEN cron[j].next - cron[j].ran ELSE 0
Threshold(c) == Min({Max({c * MissedCycles, Floor}), Max({Ceiling, c + Floor})})
Known(j) == IF j \in DOMAIN file.jobs THEN file.jobs[j] ELSE NewRecord

\* The first run after a stop takes the time stopped off the silence, once per job.
NotBanked(j, r) == r
Banked(j, r) ==
    IF StoreOf[j] \in DOMAIN file.stores
    THEN [r EXCEPT !.paused = @ + (now - file.stores[StoreOf[j]].since)] ELSE r
NewSuccess(j, r) == cron[j].ok /\ cron[j].ran > r.lastOk
Observed(j, r) ==
    IF ~NewSuccess(j, r) THEN r
    ELSE [r EXCEPT !.lastOk = cron[j].ran, !.paused = 0,
                   !.cadence = IF CadenceOf(j) > 0 THEN CadenceOf(j) ELSE @]
Clocked(j) == Observed(j, Banked(j, Known(j)))

(* --- the judgement of one job ------------------------------------------------------- *)
CadenceUsed(j, r) == IF r.cadence > 0 THEN r.cadence ELSE CadenceOf(j)
Silent(r) == Max({now - r.lastOk - r.paused, 0})
Overdue(j, r) == Silent(r) > Threshold(CadenceUsed(j, r))
Pending(j) == cron[j].next < now /\ cron[j].ran <= cron[j].next
Waits(j, r) == Pending(j) /\ (r.waiting \/ now - cron[j].next > CadenceUsed(j, r))
Unmutes(j, r) == r.muted /\ ~Overdue(j, r) /\ r.lastOverdue # Never /\ now - r.lastOverdue > FlapQuiet
Muted(j, r) == r.muted /\ ~Unmutes(j, r)
Flaps(j, r) == IF Unmutes(j, r) THEN {} ELSE {t \in r.flaps : now - t < FlapWindow}

TurnsStaleAgain(j, r) == Overdue(j, r)
TurnsStale(j, r) == Overdue(j, r) /\ ~r.alerted
TurnsFlapping(j, r) == TurnsStale(j, r) /\ ~Muted(j, r) /\ Cardinality(Flaps(j, r) \cup {now}) >= FlapAlerts
\* Recovery is a new success, whatever has become of the threshold.
GapIsShort(j, r) == r.alerted /\ ~Overdue(j, r)
Recovers(j, r) == r.alerted /\ ~TurnsStale(j, r) /\ r.lastOk > r.alertedAtOk

Judged(j, r) ==
    [r EXCEPT !.waiting = Waits(j, r),
              !.flaps = IF TurnsStale(j, r) THEN Flaps(j, r) \cup {now} ELSE Flaps(j, r),
              !.lastOverdue = IF Overdue(j, r) THEN now ELSE @,
              !.muted = Muted(j, r) \/ TurnsFlapping(j, r),
              !.alerted = (@ \/ TurnsStale(j, r)) /\ ~Recovers(j, r),
              !.alertedAtOk = IF TurnsStale(j, r) THEN r.lastOk ELSE IF Recovers(j, r) THEN Never ELSE @]
Word(j, r) ==
    CASE TurnsFlapping(j, r) -> {"flapping"}
      [] TurnsStale(j, r) /\ ~TurnsFlapping(j, r) /\ ~Muted(j, r) -> {"stale"}
      [] Recovers(j, r) /\ ~Muted(j, r) -> {"recovered"}
      [] OTHER -> {}
Alerts(j, r) == Word(j, r) \cup (IF Waits(j, r) /\ ~r.waiting THEN {"waited"} ELSE {})

\* What a run makes of a job: its record and the alerts about it. A job that is off, or new
\* and not yet seen to succeed, has no clock, and one in a stopped store is left as it is.
Off(j) == ~cron[j].enabled
Judgement(j) ==
    LET r == Clocked(j)
        Quietly(rec) == [rec |-> rec, say |-> {}]
    IN  CASE Off(j) -> Quietly([Known(j) EXCEPT !.lastOk = Never, !.alerted = FALSE])
          [] ~Off(j) /\ StoreOf[j] \in stopped -> Quietly(Known(j))
          [] ~Off(j) /\ StoreOf[j] \notin stopped ->
               IF r.lastOk = Never THEN Quietly([r EXCEPT !.lastOk = now, !.alerted = FALSE])
               ELSE IF CadenceUsed(j, r) = 0 THEN Quietly(r)
               ELSE [rec |-> Judged(j, r), say |-> Alerts(j, r)]

\* A stop that lasts is itself told, once.
StoreRecord(s) ==
    LET r == IF s \in DOMAIN file.stores THEN file.stores[s] ELSE [since |-> now, alerted |-> FALSE]
    IN  [r EXCEPT !.alerted = @ \/ now - r.since > PauseAlert]
PausedLong(s) == StoreRecord(s).alerted /\ ~(s \in DOMAIN file.stores /\ file.stores[s].alerted)

(* --- a run: load, evaluate, save, then tell ------------------------------------------ *)
Happens(f, happens) == happens => f \in WatchMay /\ moves < MaxMoves
Moved(happens) == moves' = IF happens THEN moves + 1 ELSE moves

\* evaluate and save_state. A store that cannot be read has no jobs, and a job that is in no
\* store is forgotten; a state that cannot be saved is announced nonetheless.
Evaluate(unread, saved) ==
    LET seen == {j \in CronJobs : StoreOf[j] \notin unread}
        result == [j \in seen |-> Judgement(j)]
        news == {j \in seen : result[j].say \cap (Pages \cup {"recovered"}) # {}}
        pending == {j \in CronJobs : NewSuccess(j, Known(j))}
        stops == stopped \cup DOMAIN file.stores
        clear == {j \in pending : StoreOf[j] \notin stops /\ Known(j).lastOk # Never}
        other == {j \in CronJobs : Off(j) \/ j \notin seen \/ ~saved} \cup {j \in pending : StoreOf[j] \in stops}
    IN  /\ ~ticked /\ outbox = {}
        /\ Happens("unreadable", unread # {}) /\ Happens("save", ~saved) /\ Moved(unread # {} \/ ~saved)
        /\ outbox' = {a \in Kinds \X seen : a[1] \in result[a[2]].say}
                        \cup {<<"stopped", s>> : s \in {x \in stopped : PausedLong(x)}}
        /\ file' = IF saved THEN [jobs |-> [j \in seen |-> result[j].rec],
                                  stores |-> [s \in stopped |-> StoreRecord(s)]]
                   ELSE file
        /\ ticked' = TRUE
        /\ loose' = IF saved THEN (loose \ news) \cup {j \in CronJobs : j \notin seen \/ Off(j)} ELSE loose \cup news
        /\ paged' = IF saved THEN {j \in paged : j \in seen /\ ~Off(j)}
                                     \cup {j \in seen : result[j].say \cap Pages # {}}
                    ELSE paged
        /\ odd' = (odd \ clear) \cup other
        /\ UNCHANGED <<now, cron, stopped, heard, charged>>

\* ntfy: an alert that cannot be delivered is logged and let go.
Send(a, arrives) ==
    /\ a \in outbox /\ outbox' = outbox \ {a}
    /\ Happens("send", ~arrives) /\ Moved(~arrives)
    /\ LET word == a[1] \in Pages \cup {"recovered"}
       IN  /\ heard' = IF arrives /\ word THEN [heard EXCEPT ![a[2]] = a[1]] ELSE heard
           /\ loose' = IF ~arrives /\ word THEN loose \cup {a[2]} ELSE loose
    /\ UNCHANGED <<now, cron, stopped, ticked, file, paged, charged, odd>>

WatchKilled ==
    /\ outbox # {} /\ outbox' = {} /\ Happens("kill", TRUE) /\ Moved(TRUE)
    /\ loose' = loose \cup {j \in CronJobs : \E k \in Pages \cup {"recovered"} : <<k, j>> \in outbox}
    /\ UNCHANGED <<now, cron, stopped, ticked, file, heard, paged, charged, odd>>

(* --- the surroundings ----------------------------------------------------------------- *)
\* A run of a job ends, also one that was still running when its store was stopped.
JobEnds(j, ok, gap) ==
    /\ ~ticked /\ cron[j].enabled /\ cron[j].ran # now
    /\ cron' = [cron EXCEPT ![j].ran = now, ![j].ok = ok, ![j].next = now + gap]
    /\ paged' = IF ok THEN paged \ {j} ELSE paged
    /\ charged' = IF ok THEN [charged EXCEPT ![j] = 0] ELSE charged
    /\ odd' = IF ~ok /\ NewSuccess(j, Known(j)) THEN odd \cup {j} ELSE odd
    /\ UNCHANGED <<now, stopped, ticked, moves, file, outbox, heard, loose>>

Switch(j) ==
    /\ ~ticked /\ moves < MaxMoves /\ Moved(TRUE)
    /\ cron' = [cron EXCEPT ![j].enabled = ~@]
    /\ UNCHANGED <<now, stopped, ticked, file, outbox, histories>>

StopOrOpen(s) ==
    /\ ~ticked /\ moves < MaxMoves /\ Moved(TRUE)
    /\ stopped' = (stopped \cup {s}) \ (stopped \cap {s})
    /\ UNCHANGED <<now, cron, ticked, file, outbox, histories>>

\* Time passes, whether or not the timer has fired.
Pass ==
    /\ now < LastMoment /\ outbox = {}
    /\ now' = now + 1 /\ ticked' = FALSE
    /\ charged' = [j \in CronJobs |-> IF StoreOf[j] \in DOMAIN file.stores THEN charged[j] ELSE charged[j] + 1]
    /\ UNCHANGED <<cron, stopped, moves, file, outbox, heard, loose, paged, odd>>

WatchInit ==
    /\ now = 0 /\ stopped = {} /\ outbox = {} /\ ticked = FALSE /\ moves = 0
    /\ cron = [j \in CronJobs |-> [enabled |-> TRUE, ran |-> Never, ok |-> FALSE, next |-> 0]]
    /\ file = [jobs |-> <<>>, stores |-> <<>>]
    /\ heard = [j \in CronJobs |-> "recovered"] /\ loose = {} /\ paged = {}
    /\ charged = [j \in CronJobs |-> 0] /\ odd = CronJobs

WatchNext ==
    \/ \E unread \in SUBSET Stores, saved \in BOOLEAN : Evaluate(unread, saved)
    \/ \E a \in outbox, arrives \in BOOLEAN : Send(a, arrives)
    \/ WatchKilled
    \/ \E j \in CronJobs, ok \in BOOLEAN, gap \in Gaps : JobEnds(j, ok, gap)
    \/ \E j \in CronJobs : Switch(j)
    \/ \E s \in Stores : StopOrOpen(s)
    \/ Pass
WatchSpec == WatchInit /\ [][WatchNext]_watchVars

(* --- what must hold ------------------------------------------------------------------- *)
WatchTypeOK ==
    /\ now \in 0 .. LastMoment /\ stopped \subseteq Stores /\ ticked \in BOOLEAN /\ moves \in 0 .. MaxMoves
    /\ \A j \in CronJobs : cron[j].ran \in Never .. now /\ cron[j].next \in Nat
    /\ DOMAIN file.jobs \subseteq CronJobs /\ DOMAIN file.stores \subseteq Stores
    /\ \A j \in DOMAIN file.jobs : file.jobs[j].lastOk \in Never .. now /\ file.jobs[j].paused \in 0 .. now
    /\ outbox \subseteq (Kinds \X CronJobs) \cup ({"stopped"} \X Stores)
    /\ loose \cup paged \cup odd \subseteq CronJobs

\* The silence that a job is charged with is the time since its last success in which its
\* store was not seen stopped: a stop is taken off once, whatever runs and stops come
\* between (evaluate: banked, paused, last_ok).
SilenceIsCharged ==
    \A j \in DOMAIN file.jobs \ odd : ~NewSuccess(j, Known(j)) =>
        LET r == file.jobs[j]
            stop == IF StoreOf[j] \in DOMAIN file.stores THEN now - file.stores[StoreOf[j]].since ELSE 0
        IN  now - r.lastOk - r.paused - stop = charged[j]

\* The operator's last word on a job, with the alerts still to be sent, agrees with the latch
\* in the state file, unless a word of it got lost (evaluate, save_state, ntfy in this order).
OperatorIsCurrent ==
    \A j \in DOMAIN file.jobs \ loose :
        LET unsent == {k \in Pages \cup {"recovered"} : <<k, j>> \in outbox}
        IN  \A word \in (IF unsent = {} THEN {heard[j]} ELSE unsent) :
                /\ word = "stale" => file.jobs[j].alerted
                /\ word = "recovered" => ~file.jobs[j].alerted

\* Types; the state file and the operator tell the same, and the time behind it is right.
StateIsTrue == WatchTypeOK /\ SilenceIsCharged /\ OperatorIsCurrent

\* One page per silence, also across kills and lost alerts, and only for a silence longer
\* than the job's own threshold; a recovery is told only after a success (evaluate).
PagesAreEarned == [][
    \A j \in CronJobs :
        LET new == {k \in Pages : <<k, j>> \in outbox' \ outbox}
        IN  /\ new # {} => /\ j \notin paged
                           /\ j \in odd \cup odd' \/ charged[j] > Threshold(CadenceUsed(j, Clocked(j)))
            /\ <<"recovered", j>> \in outbox' \ outbox => j \notin paged]_watchVars
=============================================================================
