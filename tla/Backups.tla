------------------------------- MODULE Backups -------------------------------
(***************************************************************************)
(* Backups (skrib/backups/services.py): the archives of the data           *)
(* directory, the job that writes one, the retention that follows it, and  *)
(* the loop that starts one each day.                                      *)
(*                                                                         *)
(* The archive is written in place, under its final name: one that fails,  *)
(* or that the end of the process cuts off, stays there and counts for     *)
(* retention.  The job of the loop runs in a thread of its own beside the  *)
(* requests, that of an admin's request holds the event loop until it ends.*)
(*                                                                         *)
(* Time is a number of ticks.  The calendar is one of even days, weeks and *)
(* months; no two backups begin in the same tick (the name of an archive   *)
(* holds the second it was begun in).                                      *)
(***************************************************************************)
EXTENDS Integers, FiniteSets, FiniteSetsExt

CONSTANTS
    DayTicks, WeekDays, MonthDays,  \* the calendar
    Daily, Weekly, Monthly,         \* "keep" of the three tiers
    Hours,                          \* ticks of the day that schedules name
    Longest,                        \* ticks that a backup takes at most
    MaxTime,                        \* bound: ticks
    MaxManual,                      \* bound: backups that an admin asks for
    MaxFaults                       \* bound: failures, restarts, deletions, settings changed

VARIABLES
    now,
    archives,       \* when the archives of the directory were begun
    partial,        \* those among them that were never finished
    job,            \* the backup that runs, if one does
    enabled, hour,  \* backup:enabled, backup:schedule
    loop,           \* the scheduler: off, or what it waits for
    until,          \* and until when
    \* what happened
    taken,          \* every archive that was ever begun
    latest,         \* the last one that was finished
    deleted,        \* archives deleted by an admin
    attempts,       \* when the loop started a backup
    steady,         \* since when the loop runs with the settings it was started with
    manual, troubles

settings == <<enabled, hour>>
scheduler == <<loop, until>>
past == <<taken, latest, deleted, attempts>>
counts == <<manual, troubles>>
vars == <<now, archives, partial, job, settings, scheduler, past, steady, counts>>

Times == 0 .. MaxTime
Never == -1
Idle == [at |-> "idle", by |-> "nobody", begun |-> Never, doomed |-> {}, pruned |-> Never]

TypeOK ==
    /\ now \in Times
    /\ archives \subseteq Times /\ partial \subseteq archives
    /\ job \in [at : {"idle", "copying", "pruning"}, by : {"nobody", "scheduler", "admin"},
                begun : Times \cup {Never}, doomed : SUBSET Times, pruned : Times \cup {Never}]
    /\ enabled \in BOOLEAN /\ hour \in Hours
    /\ loop \in {"off", "asleep", "running", "resting"}
    /\ until \in 0 .. MaxTime + 2 * DayTicks
    /\ archives \subseteq taken /\ taken \subseteq Times /\ deleted \subseteq taken
    /\ latest \in Times \cup {Never} /\ attempts \subseteq Times
    /\ steady \in Times \cup {Never}
    /\ manual \in 0 .. MaxManual /\ troubles \in 0 .. MaxFaults

Day(t) == t \div DayTicks
Week(t) == Day(t) \div WeekDays
Month(t) == Day(t) \div MonthDays

-----------------------------------------------------------------------------
(* Retention.                                                              *)

\* The newest archive of each period.
NewestOf(Period(_), ts) == {t \in ts : \A u \in ts : Period(u) = Period(t) => u <= t}

(* The newest of the periods that a tier reaches, up to the number it      *)
(* keeps.  The number is looked at after an archive has been kept: a tier  *)
(* that keeps none keeps one.                                              *)
Tier(Period(_), keep, days, ts) ==
    LET reached == {t \in NewestOf(Period, ts) : now - t < days * DayTicks}
    IN  {t \in reached : Cardinality({u \in reached : u > t}) < IF keep = 0 THEN 1 ELSE keep}

\* Mutant of Kept: the archives are looked at from the oldest on.
OldestFirst(Period(_), keep, days, ts) ==
    LET reached == {t \in ts : /\ now - t < days * DayTicks
                               /\ \A u \in ts : Period(u) = Period(t)
                                                /\ now - u < days * DayTicks => u >= t}
    IN  {t \in reached : Cardinality({u \in reached : u < t}) < IF keep = 0 THEN 1 ELSE keep}
KeptOldestFirst(ts) == OldestFirst(Day, Daily, Daily + 1, ts)
       \cup OldestFirst(Week, Weekly, (Weekly + 1) * WeekDays, ts)
       \cup OldestFirst(Month, Monthly, (Monthly + 1) * MonthDays, ts)

Kept(ts) == Tier(Day, Daily, Daily + 1, ts)
       \cup Tier(Week, Weekly, (Weekly + 1) * WeekDays, ts)
       \cup Tier(Month, Monthly, (Monthly + 1) * MonthDays, ts)

-----------------------------------------------------------------------------
(* The loop.                                                               *)

\* Mutant of NextTarget: tomorrow's, even when today's is yet to come.
NextTargetTomorrow(h) == (Day(now) + 1) * DayTicks + h

(* The next time of the schedule that is yet to come, if backups are       *)
(* enabled; else the loop looks at the settings again in a minute.         *)
NextTarget(h) ==
    LET today == Day(now) * DayTicks + h
    IN  IF today <= now THEN today + DayTicks ELSE today

PlanFrom(on, h) ==
    IF on THEN loop' = "asleep" /\ until' = NextTarget(h)
    ELSE loop' = "resting" /\ until' = now + 1

Init ==
    /\ now = 0 /\ archives = {} /\ partial = {} /\ job = Idle
    /\ enabled \in BOOLEAN /\ hour \in Hours
    /\ loop = (IF enabled THEN "asleep" ELSE "off")
    /\ until = IF enabled THEN hour + (IF hour = 0 THEN DayTicks ELSE 0) ELSE 0
    /\ taken = {} /\ latest = Never /\ deleted = {} /\ attempts = {}
    /\ steady = IF enabled THEN 0 ELSE Never
    /\ manual = 0 /\ troubles = 0

(* The loop is late only while a request that makes a backup holds it up.  *)
Tick ==
    /\ now < MaxTime /\ now' = now + 1
    /\ job # Idle => now < job.begun + Longest
    /\ job.by # "admin" /\ loop \in {"asleep", "resting"} => now < until
    /\ UNCHANGED <<archives, partial, job, settings, scheduler, past, steady, counts>>

Wake ==
    /\ loop = "resting" /\ until <= now
    /\ PlanFrom(enabled, hour)
    /\ UNCHANGED <<now, archives, partial, job, settings, past, steady, counts>>

\* create_backup, as far as the name of the archive.
Begin(by) ==
    /\ job = Idle /\ now \notin taken
    /\ job' = [Idle EXCEPT !.at = "copying", !.by = by, !.begun = now]
    /\ archives' = archives \cup {now} /\ partial' = partial \cup {now}
    /\ taken' = taken \cup {now}

(* The lock is free unless the last scheduled backup still runs.  The      *)
(* settings are not read again.                                            *)
RunScheduled ==
    /\ loop = "asleep" /\ until <= now
    /\ Begin("scheduler")
    /\ loop' = "running" /\ attempts' = attempts \cup {now}
    /\ UNCHANGED <<now, settings, until, latest, deleted, steady, counts>>

\* POST /admin/backups.  A backup in progress answers 409.
RunManual ==
    /\ manual < MaxManual /\ manual' = manual + 1
    /\ Begin("admin")
    /\ UNCHANGED <<now, settings, scheduler, latest, deleted, attempts, steady, troubles>>

(* The end of a job: the loop plans the next one, after a rest if this one *)
(* failed.                                                                 *)
End(failed) ==
    /\ job' = Idle
    /\ IF job.by # "scheduler" THEN UNCHANGED scheduler
       ELSE IF failed THEN loop' = "resting" /\ until' = now
       ELSE PlanFrom(enabled, hour)

(* The archive is complete: retention looks at the directory.  If an admin *)
(* has deleted it meanwhile, asking for its size raises.                   *)
Finish ==
    /\ job.at = "copying"
    /\ IF job.begun \in archives
       THEN /\ partial' = partial \ {job.begun}
            /\ job' = [job EXCEPT !.at = "pruning", !.doomed = archives \ Kept(archives),
                                  !.pruned = now]
            /\ latest' = job.begun
            /\ UNCHANGED scheduler
       ELSE End(TRUE) /\ UNCHANGED <<partial, latest>>
    /\ UNCHANGED <<now, archives, settings, taken, deleted, attempts, steady, counts>>

\* Mutant of Fail: retention follows a failure too.
FailAndPrune ==
    /\ job.at = "copying" /\ troubles < MaxFaults /\ troubles' = troubles + 1
    /\ job' = [job EXCEPT !.at = "pruning", !.doomed = archives \ Kept(archives),
                          !.pruned = now]
    /\ UNCHANGED <<now, archives, partial, settings, scheduler, past, steady, manual>>

(* A file has vanished between the listing of the directory and its copy,  *)
(* or the disk is full: what was written stays.                            *)
Fail ==
    /\ job.at = "copying" /\ troubles < MaxFaults /\ troubles' = troubles + 1
    /\ End(TRUE)
    /\ UNCHANGED <<now, archives, partial, settings, past, steady, manual>>

(* Doomed archives go one by one, newest first; one that an admin has      *)
(* deleted meanwhile ends the job with an error, the rest stays.           *)
Prune ==
    /\ job.at = "pruning"
    /\ IF job.doomed = {} THEN End(FALSE) /\ UNCHANGED <<archives, partial>>
       ELSE LET t == Max(job.doomed) IN
              IF t \notin archives THEN End(TRUE) /\ UNCHANGED <<archives, partial>>
              ELSE /\ archives' = archives \ {t} /\ partial' = partial \ {t}
                   /\ job' = [job EXCEPT !.doomed = @ \ {t}]
                   /\ UNCHANGED scheduler
    /\ UNCHANGED <<now, settings, past, steady, counts>>

(* DELETE /admin/backups/{filename}, of an archive being written too.  No  *)
(* request is served while one of an admin makes a backup.                 *)
Served == job.by # "admin"

delete_backup(t) ==
    /\ Served /\ t \in archives /\ troubles < MaxFaults /\ troubles' = troubles + 1
    /\ archives' = archives \ {t} /\ partial' = partial \ {t}
    /\ deleted' = deleted \cup {t}
    /\ UNCHANGED <<now, job, settings, scheduler, taken, latest, attempts, steady, manual>>

(* PATCH /admin/backups/config: the loop is not told.                      *)
update_backup_config ==
    /\ Served /\ troubles < MaxFaults /\ troubles' = troubles + 1
    /\ \E on \in BOOLEAN, h \in Hours :
         <<on, h>> # settings /\ enabled' = on /\ hour' = h
    /\ steady' = Never
    /\ UNCHANGED <<now, archives, partial, job, scheduler, past, manual>>

(* The end of the process, and its start: start_backup_scheduler starts    *)
(* the loop if backups are enabled then.                                   *)
Restart ==
    /\ troubles < MaxFaults /\ troubles' = troubles + 1
    /\ job' = Idle
    /\ IF enabled THEN PlanFrom(TRUE, hour) /\ steady' = now
       ELSE loop' = "off" /\ until' = 0 /\ steady' = Never
    /\ UNCHANGED <<now, archives, partial, settings, past, manual>>

Next ==
    \/ Tick \/ Wake \/ RunScheduled \/ RunManual \/ Finish \/ Fail \/ Prune
    \/ \E t \in Times : delete_backup(t)
    \/ update_backup_config \/ Restart

Spec == Init /\ [][Next]_vars

-----------------------------------------------------------------------------
(* Retention works on what the earlier ones have left, and leaves what it  *)
(* would leave of every archive ever begun: no archive was deleted that a  *)
(* later day would have kept for a week or a month (services.py 194-258).  *)
(* An admin who deletes an archive does not get an older one of its day    *)
(* back.                                                                   *)
RetentionForgetsNothing ==
    job.at = "pruning" /\ job.pruned = now /\ deleted = {} =>
        archives \ job.doomed = Kept(taken)

(* The last backup that succeeded can be restored: no failure, restart or  *)
(* retention takes away the newest complete archive; an admin may.         *)
LatestIsThere ==
    latest # Never /\ latest \notin deleted => latest \in archives \ partial

(* While nobody changes the settings of a server that runs, the loop       *)
(* starts one backup from each time of the schedule to the next.  That     *)
(* holds while the backups that admins ask for, and one more, cannot fill  *)
(* a day: (MaxManual + 1) * Longest < DayTicks.  One after the other they  *)
(* hold the event loop, and the loop that starts the daily one with it.    *)
OneADay ==
    steady # Never =>
        \A d \in 0 .. Day(now) :
            LET due == d * DayTicks + hour
            IN  steady < due /\ due + DayTicks <= now =>
                  Cardinality({t \in attempts : due <= t /\ t < due + DayTicks}) = 1
=============================================================================
