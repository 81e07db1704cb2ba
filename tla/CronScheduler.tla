--------------------------- MODULE CronScheduler ---------------------------
(***************************************************************************)
(* The scheduler of apps/server/src/cron/index.ts: the jobs with their     *)
(* materialised next_run_at, the tick that fires what is due one job after *)
(* another, the overlap policy, the edits that arrive while a tick waits,  *)
(* and what a stop, a crash and the catch-up policy of the next boot make  *)
(* of all that.  A schedule is the set of instants at which it fires: what *)
(* nextRunAt computes from an expression is out of this model.             *)
(*                                                                         *)
(* The hazard of this code is that a tick reads its due jobs once and then *)
(* awaits each start in turn, seconds at a time, with the rows in hand.    *)
(***************************************************************************)
EXTENDS Naturals, Sequences, FiniteSets, FiniteSetsExt, SequencesExt

CONSTANTS CronJobs,     \* the jobs
          SkipJobs,     \* those with overlap policy "skip"; the others may overlap
          OnceJobs,     \* those deleted once they ran (continuations after a limit)
          Schedules,    \* the schedules a job may have: sets of instants
          Horizon,      \* the last instant
          Grace,        \* how late a run may still start after a boot
          Retention,    \* how long finished runs are kept
          CronScenarios \* [first : the jobs' schedules at first, {} for no job yet,
                        \*  creates, edits, manual, restarts : how much may happen]

Never == 0              \* next_run_at IS NULL

ASSUME CronAssumption ==
    /\ IsFiniteSet(CronJobs)
    /\ SkipJobs \subseteq CronJobs /\ OnceJobs \subseteq SkipJobs
    /\ Horizon \in Nat /\ Grace \in Nat /\ Retention \in Nat
    /\ \A s \in Schedules : s \subseteq 1 .. Horizon + 1
    /\ CronScenarios \subseteq [first : [CronJobs -> Schedules \cup {{}}],
                                creates : Nat, edits : Nat, manual : Nat, restarts : Nat]

VARIABLES
    now,        \* the clock
    cronJob,    \* the jobs' rows
    cronRuns,   \* the runs' rows, in the order they were inserted
    cronServer, \* "up", "stopping" (stop() ran, the process still lives), "down"
    line,       \* the due rows the tick holds, as it read them
    ticking,
    firing,     \* the run the tick awaits the start of, or 0
    cronLeft,   \* what is left of the scenario's budget
    touched,    \* history: jobs changed while the tick held their row
    cut         \* history: due instants whose start a crash or a stop cut short

cronVars == <<now, cronJob, cronRuns, cronServer, line, ticking, firing,
              cronLeft, touched, cut>>

----------------------------------------------------------------------------
(* The first instant of schedule s after t.                                *)
NextIn(s, t) ==
    LET later == {u \in s : u > t} IN IF later = {} THEN Never ELSE Min(later)

On(j)      == cronJob[j].state = "on"
Exists(j)  == cronJob[j].state \in {"on", "off"}
Due(j)     == On(j) /\ cronJob[j].next # Never /\ cronJob[j].next <= now
InHand(j)  == \E i \in DOMAIN line : line[i].job = j
RunIds     == DOMAIN cronRuns

(* A row counts as active while its run is starting or its session lives:  *)
(* what became of the session, not a clock, decides.                       *)
HasActiveRun(j) ==
    \E r \in RunIds : /\ cronRuns[r].job = j
                      /\ cronRuns[r].row = "open"
                      /\ cronRuns[r].work \in {"starting", "alive"}

(* Its session is gone and nobody closed its row.                          *)
Left(r) == cronRuns[r].row = "open" /\ cronRuns[r].work = "dead"

(* Finished long enough ago: it goes with the next pass, while its job is  *)
(* there to say how long that is.                                          *)
Expired(r) == /\ cronRuns[r].row \in {"closed", "skipped"}
              /\ Exists(cronRuns[r].job)
              /\ cronRuns[r].at + Retention < now

NewRun(j, due, row, work) ==
    [job |-> j, due |-> due, at |-> now, row |-> row, work |-> work]
Insert(run) == cronRuns' = Append(cronRuns, run)

(* writeNextRun: solve the schedule of the row in hand from now on; the    *)
(* UPDATE finds nothing when the job is gone.                              *)
WriteNext(j, sched) ==
    cronJob' = IF Exists(j) THEN [cronJob EXCEPT ![j].next = NextIn(sched, now)]
                            ELSE cronJob

CronSpend(what) ==
    /\ cronLeft[what] > 0
    /\ cronLeft' = [cronLeft EXCEPT ![what] = @ - 1]

CronInit ==
    /\ now = 0
    /\ \E scenario \in CronScenarios :
         /\ cronJob = [j \in CronJobs |->
              [state |-> IF scenario.first[j] = {} THEN "unborn" ELSE "on",
               sched |-> scenario.first[j], next |-> NextIn(scenario.first[j], 0)]]
         /\ cronLeft = [what \in {"creates", "edits", "manual", "restarts"} |-> scenario[what]]
    /\ cronRuns = <<>>
    /\ cronServer = "up" /\ line = <<>> /\ ticking = FALSE /\ firing = 0
    /\ touched = {} /\ cut = <<>>

----------------------------------------------------------------------------
(* The tick.                                                               *)

Advance == /\ now < Horizon
           /\ now' = now + 1
           /\ UNCHANGED <<cronJob, cronRuns, cronServer, line, ticking, firing,
                          cronLeft, touched, cut>>

(* A pass starts: rows whose session is gone are closed, then what is due  *)
(* is read, once, oldest first.                                            *)
Tick ==
    /\ cronServer = "up" /\ ~ticking
    /\ LET due == {j \in CronJobs : Due(j)} IN
       /\ \/ due # {}
          \/ \E r \in RunIds : Expired(r) \/ Left(r)
       /\ ticking' = TRUE
       /\ line' \in {l \in SetToSeqs({[job |-> j, due |-> cronJob[j].next,
                                       sched |-> cronJob[j].sched] : j \in due}) :
                       \A a, b \in DOMAIN l : a < b => l[a].due <= l[b].due}
       /\ touched' = touched \ due
    /\ cronRuns' = [r \in RunIds |->
                      IF Left(r) THEN [cronRuns[r] EXCEPT !.row = "closed"] ELSE cronRuns[r]]
    /\ UNCHANGED <<now, cronJob, cronServer, firing, cronLeft, cut>>

CanFire == ticking /\ line # <<>> /\ firing = 0

(* The job was deleted meanwhile: the run's row cannot refer to it, the    *)
(* insert throws, and the tick goes on with the next job.                  *)
FireGone ==
    /\ CanFire
    /\ ~Exists(Head(line).job)
    /\ WriteNext(Head(line).job, Head(line).sched)
    /\ line' = Tail(line)
    /\ UNCHANGED <<now, cronRuns, cronServer, ticking, firing, cronLeft, touched, cut>>

FireSkipped ==
    /\ CanFire
    /\ LET job == Head(line) IN
       /\ Exists(job.job)
       /\ job.job \in SkipJobs /\ HasActiveRun(job.job)
       /\ Insert(NewRun(job.job, job.due, "skipped", "none"))
       /\ WriteNext(job.job, job.sched)
    /\ line' = Tail(line)
    /\ UNCHANGED <<now, cronServer, ticking, firing, cronLeft, touched, cut>>

(* startRun records the run before it does anything, then awaits the       *)
(* executor: a folder, a worktree, a session, a prompt.                    *)
FireStart ==
    /\ CanFire
    /\ LET job == Head(line) IN
       /\ Exists(job.job)
       /\ ~(job.job \in SkipJobs /\ HasActiveRun(job.job))
       /\ Insert(NewRun(job.job, job.due, "open", "starting"))
    /\ firing' = Len(cronRuns) + 1
    /\ UNCHANGED <<now, cronJob, cronServer, line, ticking, cronLeft, touched, cut>>

(* The start is over, well or badly; only now is the schedule moved on,    *)
(* from the row that was read when the tick began.                         *)
FireDone ==
    /\ firing # 0
    /\ cronRuns[firing].work # "starting"
    /\ LET job == Head(line) IN
       IF job.job \in OnceJobs
       THEN cronJob' = [cronJob EXCEPT ![job.job].state = "removed"]
       ELSE WriteNext(job.job, job.sched)
    /\ line' = Tail(line)
    /\ firing' = 0
    /\ UNCHANGED <<now, cronRuns, cronServer, ticking, cronLeft, touched, cut>>

(* The end of a pass: finished runs past the retention are deleted.        *)
TickEnds ==
    /\ ticking /\ line = <<>>
    /\ ticking' = FALSE
    /\ cronRuns' = [r \in RunIds |-> IF Expired(r) THEN [cronRuns[r] EXCEPT !.row = "deleted"]
                                                  ELSE cronRuns[r]]
    /\ UNCHANGED <<now, cronJob, cronServer, line, firing, cronLeft, touched, cut>>

----------------------------------------------------------------------------
(* The runs, as RunExecutor reports them.                                  *)

Settle(r, work) == [cronRuns EXCEPT ![r].work = work,
                                    ![r].row = IF @ = "open" THEN "closed" ELSE @]

StartEnds(r) ==
    /\ cronServer # "down" /\ cronRuns[r].work = "starting"
    /\ cronRuns' \in {[cronRuns EXCEPT ![r].work = "alive"], Settle(r, "dead")}
    /\ UNCHANGED <<now, cronJob, cronServer, line, ticking, firing, cronLeft, touched, cut>>

RunEnds(r) ==
    /\ cronServer # "down" /\ cronRuns[r].work = "alive"
    /\ cronRuns' = Settle(r, "dead")
    /\ UNCHANGED <<now, cronJob, cronServer, line, ticking, firing, cronLeft, touched, cut>>

(* The session is gone before anybody told the run's row.                  *)
SessionLost(r) ==
    /\ cronServer # "down" /\ cronRuns[r].work = "alive"
    /\ cronRuns' = [cronRuns EXCEPT ![r].work = "dead"]
    /\ UNCHANGED <<now, cronJob, cronServer, line, ticking, firing, cronLeft, touched, cut>>

----------------------------------------------------------------------------
(* The routes.                                                             *)

TouchJob(j, what) ==
    /\ cronServer = "up"
    /\ CronSpend(what)
    /\ touched' = IF InHand(j) THEN touched \cup {j} ELSE touched \ {j}
    /\ UNCHANGED <<now, cronServer, line, ticking, firing, cut>>

(* jobChanged.                                                             *)
Scheduled(state, sched) ==
    [state |-> state, sched |-> sched,
     next |-> IF state = "on" THEN NextIn(sched, now) ELSE Never]

(* create and scheduleLimitContinuation.  The latter only for an instant   *)
(* still ahead.                                                            *)
CreateJob(j) ==
    /\ cronJob[j].state = "unborn"
    /\ TouchJob(j, "creates")
    /\ \E state \in {"on", "off"}, sched \in Schedules :
         /\ j \in OnceJobs => state = "on" /\ NextIn(sched, now) # Never
         /\ cronJob' = [cronJob EXCEPT ![j] = Scheduled(state, sched)]
    /\ UNCHANGED cronRuns

(* Mutant: the row is updated and jobChanged never called.                 *)
UpdateJobOnly(j) ==
    /\ Exists(j)
    /\ TouchJob(j, "edits")
    /\ \E state \in {"on", "off"}, sched \in Schedules :
         /\ <<state, sched>> # <<cronJob[j].state, cronJob[j].sched>>
         /\ cronJob' = [cronJob EXCEPT ![j].state = state, ![j].sched = sched]
    /\ UNCHANGED cronRuns

(* update, then jobChanged: a new schedule, a pause or a resumption.       *)
UpdateJob(j) ==
    /\ Exists(j)
    /\ TouchJob(j, "edits")
    /\ \E state \in {"on", "off"}, sched \in Schedules :
         /\ <<state, sched>> # <<cronJob[j].state, cronJob[j].sched>>
         /\ cronJob' = [cronJob EXCEPT ![j] = Scheduled(state, sched)]
    /\ UNCHANGED cronRuns

(* remove keeps the runs, which no longer name the job.                    *)
RemoveJob(j) ==
    /\ Exists(j)
    /\ TouchJob(j, "edits")
    /\ cronJob' = [cronJob EXCEPT ![j].state = "removed"]
    /\ UNCHANGED cronRuns

(* clearRuns deletes every row of the job, the open ones too.              *)
ClearRuns(j) ==
    /\ Exists(j)
    /\ \E r \in RunIds : cronRuns[r].job = j /\ cronRuns[r].row = "open"
    /\ cronServer = "up"
    /\ CronSpend("edits")
    /\ cronRuns' = [r \in RunIds |-> IF cronRuns[r].job = j
                                     THEN [cronRuns[r] EXCEPT !.row = "cleared"] ELSE cronRuns[r]]
    /\ UNCHANGED <<now, cronJob, cronServer, line, ticking, firing, touched, cut>>

(* runNow is refused while a run is open, and moves no schedule.           *)
RunNow(j) ==
    /\ Exists(j) /\ cronServer = "up"
    /\ ~(j \in SkipJobs /\ HasActiveRun(j))
    /\ CronSpend("manual")
    /\ Insert(NewRun(j, Never, "open", "starting"))
    /\ UNCHANGED <<now, cronJob, cronServer, line, ticking, firing, touched, cut>>

----------------------------------------------------------------------------
(* Stop, crash and boot.                                                   *)

(* stop() clears the timer and closes the runs in flight; a tick in        *)
(* progress goes on as long as the process lives.                          *)
CronStop ==
    /\ cronServer = "up"
    /\ CronSpend("restarts")
    /\ cronServer' = "stopping"
    /\ cronRuns' = [r \in RunIds |-> IF cronRuns[r].row = "open"
                                     THEN [cronRuns[r] EXCEPT !.row = "closed"] ELSE cronRuns[r]]
    /\ UNCHANGED <<now, cronJob, line, ticking, firing, touched, cut>>

CronGoesDown ==
    /\ cronServer' = "down"
    /\ line' = <<>> /\ ticking' = FALSE /\ firing' = 0
    /\ cut' = IF firing = 0 THEN cut ELSE Append(cut, <<Head(line).job, Head(line).due>>)
    /\ cronRuns' = [r \in RunIds |-> IF cronRuns[r].work = "none" THEN cronRuns[r]
                                     ELSE [cronRuns[r] EXCEPT !.work = "dead"]]
    /\ UNCHANGED <<now, cronJob, touched>>

CronCrash == cronServer = "up" /\ CronSpend("restarts") /\ CronGoesDown
CronExit  == cronServer = "stopping" /\ CronGoesDown /\ UNCHANGED cronLeft

(* init: rows left open are failed, then each enabled job is judged: never *)
(* scheduled, still ahead, late but within the grace, or too late - one    *)
(* skipped row stands for all that was missed.                             *)
TooLate(j) == Due(j) /\ now - cronJob[j].next > Grace

(* Mutant: what was missed is moved past and leaves no row.                *)
CronBootSilently ==
    /\ cronServer = "down"
    /\ cronServer' = "up"
    /\ cronRuns' = [r \in RunIds |-> IF cronRuns[r].row = "open"
                                     THEN [cronRuns[r] EXCEPT !.row = "closed"] ELSE cronRuns[r]]
    /\ cronJob' = [j \in CronJobs |->
                     IF On(j) /\ (cronJob[j].next = Never \/ TooLate(j))
                     THEN [cronJob[j] EXCEPT !.next = NextIn(cronJob[j].sched, now)]
                     ELSE cronJob[j]]
    /\ touched' = {j \in touched : ~TooLate(j) /\ cronJob[j].next # Never}
    /\ UNCHANGED <<now, line, ticking, firing, cronLeft, cut>>

CronBoot ==
    /\ cronServer = "down"
    /\ cronServer' = "up"
    /\ LET late == {j \in CronJobs : TooLate(j)}
           rows == {NewRun(j, cronJob[j].next, "skipped", "none") : j \in late}
           kept == [r \in RunIds |-> IF cronRuns[r].row = "open"
                                     THEN [cronRuns[r] EXCEPT !.row = "closed"] ELSE cronRuns[r]]
       IN \E skipped \in SetToSeqs(rows) : cronRuns' = kept \o skipped
    /\ cronJob' = [j \in CronJobs |->
                     IF On(j) /\ (cronJob[j].next = Never \/ TooLate(j))
                     THEN [cronJob[j] EXCEPT !.next = NextIn(cronJob[j].sched, now)]
                     ELSE cronJob[j]]
    /\ touched' = {j \in touched : ~TooLate(j) /\ cronJob[j].next # Never}
    /\ UNCHANGED <<now, line, ticking, firing, cronLeft, cut>>

CronJobStep(j) == CreateJob(j) \/ UpdateJob(j) \/ RemoveJob(j) \/ ClearRuns(j) \/ RunNow(j)
CronRunStep(r) == StartEnds(r) \/ RunEnds(r) \/ SessionLost(r)
CronTickStep   == Tick \/ FireGone \/ FireSkipped \/ FireStart \/ FireDone \/ TickEnds

CronNext == \/ Advance
            \/ CronTickStep
            \/ \E r \in RunIds : CronRunStep(r)
            \/ \E j \in CronJobs : CronJobStep(j)
            \/ CronStop \/ CronCrash \/ CronExit \/ CronBoot

CronSpec == CronInit /\ [][CronNext]_cronVars

----------------------------------------------------------------------------
(* Properties.                                                             *)

CronTypeOK ==
    /\ now \in 0 .. Horizon
    /\ cronJob \in [CronJobs -> [state : {"unborn", "on", "off", "removed"},
                                 sched : Schedules \cup {{}}, next : 0 .. Horizon + 1]]
    /\ \A r \in RunIds : cronRuns[r] \in
         [job : CronJobs, due : 0 .. Horizon + 1, at : 0 .. Horizon,
          row : {"open", "closed", "skipped", "cleared", "deleted"},
          work : {"none", "starting", "alive", "dead"}]
    /\ cronServer \in {"up", "stopping", "down"}
    /\ ticking \in BOOLEAN /\ firing \in 0 .. Len(cronRuns)
    /\ line # <<>> => ticking
    /\ firing # 0 => line # <<>>
    /\ touched \subseteq CronJobs

(* A job's next run is the next instant of its own schedule or one already *)
(* due, and a paused job has none - unless it was changed while a tick     *)
(* held its row, which then writes the old schedule's next run over the    *)
(* new one (writeNextRun on the row in hand).                              *)
NextFollowsSchedule ==
    \A j \in CronJobs \ touched :
        /\ On(j) /\ ~InHand(j) =>
             \/ cronJob[j].next # Never /\ cronJob[j].next <= now
             \/ cronJob[j].next = NextIn(cronJob[j].sched, now)
        /\ cronJob[j].state = "off" => cronJob[j].next = Never

(* A due instant is accounted for exactly once: when the schedule of a job *)
(* nobody edits moves on from it, one row of the run list stands for it -  *)
(* a run or a skip, never none and never two.  The exceptions are the      *)
(* code's: a job changed under the tick, and a start that the process did  *)
(* not survive, which the next boot makes again.                           *)
CutShort(j, t) == Cardinality({i \in DOMAIN cut : cut[i] = <<j, t>>})
RowsFor(j, t, runs) == {r \in DOMAIN runs : runs[r].job = j /\ runs[r].due = t}

AccountedOnce ==
    [][\A j \in CronJobs :
          LET t == cronJob[j].next IN
          (/\ Due(j) /\ cronJob'[j].next # t
           /\ cronJob'[j].state = "on" /\ cronJob'[j].sched = cronJob[j].sched
           /\ cronLeft' = cronLeft
           /\ j \notin touched)
          => Cardinality(RowsFor(j, t, cronRuns')) \in 1 .. 1 + CutShort(j, t)]_cronVars
=============================================================================
