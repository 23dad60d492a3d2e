------------------------------ MODULE ProfileSync ------------------------------
(***************************************************************************)
(* Keeping the profile on the VPN panel in step with a subscription.       *)
(*                                                                         *)
(* A change of the subscription commits together with a ProfileSyncJob.    *)
(* The queue hands the job to a worker, which leases the row, calls the    *)
(* panel outside any transaction, and closes the row if the lease is still *)
(* its own.  A cron brings back what was never queued, what failed for a   *)
(* passing reason and what a dead worker left behind.                      *)
(*                                                                         *)
(* One subscription is modelled.  What the panel is told (expiry, limits,  *)
(* squads) is one number, the term: every paid change is a new one.  The   *)
(* panel refuses a second profile of the same name, so there is one at     *)
(* most.  The versioned writes (projectionSync, off by default), traffic   *)
(* resets and the operator's edits at the panel are left out.              *)
(***************************************************************************)
EXTENDS Integers, FiniteSets

CONSTANTS
    SyncWorkers,
    MaxJobs,       \* bound on the jobs created
    MaxProfiles,   \* bound on the profiles the panel creates
    MaxTerm,       \* bound on the terms
    MaxTries,      \* PROFILE_SYNC_MAX_ATTEMPTS (5)
    MaxRounds,     \* writes of one UPDATE before it gives up (3)
    Scenarios      \* [start, renews, removals, disables, ends, events, faults, deaths]

ASSUME ProfileSyncAssumption ==
    /\ MaxTries \in Nat
    /\ {MaxJobs, MaxProfiles, MaxTerm, MaxRounds} \subseteq Nat \ {0}
    /\ \A s \in Scenarios : s.start \in {"new", "lost", "linked"}

VARIABLES
    scenario,      \* the bounds, chosen once
    row,           \* Subscription: [status, link, term]
    panel,         \* the profile of this name: [id, term], id 0 if there is none
    profiles,      \* profiles created so far
    job,           \* ProfileSyncJob rows, NoJob if not created
    queue,         \* the job with the row's jobId: [state, tries]
    at,            \* where each worker is
    forcing,       \* the job the cron has reset and not yet queued again, or 0
    over,          \* terms up to this one have ended
    scanned,       \* markExpiredSubscriptions has read the row as past its end
    cleaning,      \* what the cleanup has read of the row, Nothing if not at work
    events,        \* panel events under way
    decided,       \* history: someone deleted the subscription, or the cleanup one that had ended
    condemned,     \* history: a deletion was scheduled for a row not deleted
    orphaned,      \* history: who created the profile was lost before the link
    wedged,        \* history: jobs reset by the cron that the queue did not take
    overwritten,   \* history: an event or the cleanup wrote an older term
    adopted,       \* history: a profile was taken over with another term, and not written since
    renews, removals, disables, announced, faults, deaths

env == <<renews, removals, disables, announced, deaths>>
history == <<decided, condemned, orphaned, wedged, overwritten, adopted>>
crons == <<forcing, over, scanned, cleaning, events>>
syncVars == <<scenario, row, panel, profiles, job, queue, at, crons, history, env, faults>>

Jobs == 1..MaxJobs
Nobody == "nobody"
Nothing == [link |-> -1, term |-> -1]

Row == [status : {"ACTIVE", "DISABLED", "EXPIRED", "DELETED"}, link : 0..MaxProfiles, term : 0..MaxTerm]
Job == [action : {"CREATE", "UPDATE", "DELETE"},
        status : {"PENDING", "RUNNING", "COMPLETED", "FAILED"}, superseded : BOOLEAN,
        lease : SyncWorkers \cup {Nobody}, target : 0..MaxProfiles, transient : BOOLEAN]
NoJob == [action |-> "none"]
Idle == [pc |-> "idle"]
Work == [pc : {"claim", "reload", "create", "link", "patch", "detach", "recheck", "ensure",
               "delete", "retire", "complete", "fail"},
         job : Jobs, cur : Row, round : 1..MaxRounds, found : 0..MaxProfiles, passing : BOOLEAN]

SyncTypeOK ==
    /\ scenario \in Scenarios
    /\ row \in Row
    /\ panel \in [id : 0..MaxProfiles, term : 0..MaxTerm] /\ panel.id <= profiles
    /\ profiles \in 0..MaxProfiles
    /\ job \in [Jobs -> Job \cup {NoJob}]
    /\ queue \in [Jobs -> [state : {"none", "waiting", "active", "kept"}, tries : 0..MaxTries]]
    /\ at \in [SyncWorkers -> Work \cup {Idle}]
    /\ forcing \in 0..MaxJobs /\ over \in 0..MaxTerm /\ scanned \in BOOLEAN
    /\ cleaning \in [link : 0..MaxProfiles, term : 0..MaxTerm] \cup {Nothing}
    /\ events \subseteq [id : 0..MaxProfiles, term : 0..MaxTerm, ended : BOOLEAN]
    /\ \A f \in {decided, condemned, orphaned, overwritten, adopted} : f \in BOOLEAN
    /\ wedged \subseteq Jobs

\* A job has one worker at a time, and the queue says which jobs have one.
OneWorkerEach ==
    /\ \A j \in Jobs : queue[j].state = "active" <=> \E w \in SyncWorkers : at[w] # Idle /\ at[w].job = j
    /\ \A w, v \in SyncWorkers : at[w] # Idle /\ at[v] # Idle /\ at[w].job = at[v].job => w = v

Fault == faults < scenario.faults /\ faults' = faults + 1
NoFault == UNCHANGED faults
-----------------------------------------------------------------------------
(* Jobs and the queue                                                      *)

Created(j) == job[j] # NoJob
Free == {j \in Jobs : ~Created(j)}
FirstFree == CHOOSE j \in Free : \A k \in Free : j <= k

NewJob(action, target) ==
    [action |-> action, status |-> "PENDING", superseded |-> FALSE, lease |-> Nobody,
     target |-> target, transient |-> FALSE]

\* queue.add: a job whose id the queue still has, finished or not, is ignored.
Added(q) == IF q.state = "none" THEN [state |-> "waiting", tries |-> 0] ELSE q

MutantForcedPlain(q) == Added(q)

\* enqueue(force): what the queue kept is removed first; what is active cannot be.
Forced(q) == IF q.state = "active" THEN q ELSE [state |-> "waiting", tries |-> 0]

\* The row and the job commit together; adding it to the queue may fail.
Schedule(action, target, rows) ==
    /\ Free # {}
    /\ job' = [rows EXCEPT ![FirstFree] = NewJob(action, target)]
    /\ \/ queue' = [queue EXCEPT ![FirstFree] = Added(queue[FirstFree])] /\ NoFault
       \/ UNCHANGED queue /\ Fault

Open == {"PENDING", "RUNNING", "FAILED"}

\* The job a change of the subscription asks for.
SyncAction == IF row.link = 0 THEN "CREATE" ELSE "UPDATE"
-----------------------------------------------------------------------------
(* What happens to the subscription                                        *)

\* A paid renewal; a deleted subscription cannot be renewed.
Renew ==
    /\ renews < scenario.renews /\ renews' = renews + 1
    /\ row.status # "DELETED" /\ row.term < MaxTerm
    /\ row' = [row EXCEPT !.status = "ACTIVE", !.term = @ + 1]
    /\ Schedule(SyncAction, 0, job)
    /\ UNCHANGED <<scenario, panel, profiles, at, crons, history, removals, disables, announced, deaths>>

\* An operator switches the subscription off; without a link nothing is pushed.
Disable ==
    /\ disables < scenario.disables /\ disables' = disables + 1
    /\ row.status = "ACTIVE"
    /\ row' = [row EXCEPT !.status = "DISABLED"]
    /\ IF row.link = 0 THEN UNCHANGED <<job, queue, faults>> ELSE Schedule("UPDATE", 0, job)
    /\ UNCHANGED <<scenario, panel, profiles, at, crons, history, renews, removals, announced, deaths>>

\* deleteSubscription under the row's lock: what is not a deletion is
\* superseded, the profile is scheduled for removal, the row is deleted.
Retired ==
    [j \in Jobs |-> IF Created(j) /\ job[j].action # "DELETE" /\ job[j].status \in Open
                    THEN [job[j] EXCEPT !.superseded = TRUE] ELSE job[j]]

DeleteRow ==
    /\ row' = [row EXCEPT !.status = "DELETED"]
    /\ IF row.link # 0 THEN Schedule("DELETE", row.link, Retired)
       ELSE job' = Retired /\ UNCHANGED <<queue, faults>>

\* The user or an operator deletes it.
Remove ==
    /\ removals < scenario.removals /\ removals' = removals + 1
    /\ row.status # "DELETED"
    /\ DeleteRow /\ decided' = TRUE
    /\ UNCHANGED <<scenario, panel, profiles, at, crons, condemned, orphaned, wedged, overwritten, adopted,
                   renews, disables, announced, deaths>>

TermEnds ==
    /\ scenario.ends /\ over < row.term
    /\ over' = row.term
    /\ UNCHANGED <<scenario, row, panel, profiles, job, queue, at, forcing, scanned, cleaning, events,
                   history, env, faults>>

\* markExpiredSubscriptions reads, and later writes whatever is still ACTIVE.
ScanExpired ==
    /\ ~scanned /\ row.status = "ACTIVE" /\ row.term <= over
    /\ scanned' = TRUE
    /\ UNCHANGED <<scenario, row, panel, profiles, job, queue, at, forcing, over, cleaning, events,
                   history, env, faults>>

MarkExpired ==
    /\ scanned /\ scanned' = FALSE
    /\ row' = IF row.status = "ACTIVE" THEN [row EXCEPT !.status = "EXPIRED"] ELSE row
    /\ UNCHANGED <<scenario, panel, profiles, job, queue, at, forcing, over, cleaning, events,
                   history, env, faults>>

\* The cleanup takes what ended, unless a deletion is at work (a failed one is not).
PickExpired ==
    /\ cleaning = Nothing
    /\ row.status # "DELETED" /\ row.term <= over
    /\ row.link # 0 => \A j \in Jobs : Created(j) /\ job[j].action = "DELETE"
                                          => job[j].status \notin {"PENDING", "RUNNING"}
    /\ cleaning' = [link |-> row.link, term |-> row.term]
    /\ UNCHANGED <<scenario, row, panel, profiles, job, queue, at, forcing, over, scanned, events,
                   history, env, faults>>

MutantUnchanged(c) == TRUE

\* The expiry guard of deleteExpiredIfUnchanged.
Unchanged(c) == row.link = c.link /\ row.term = c.term

\* The panel is asked first: a profile that lasts longer corrects the row, an
\* answer that cannot be had defers, one that ended or is gone lets it go.
Cleanup ==
    LET c == cleaning
        lasts == c.link # 0 /\ panel.id = c.link /\ panel.term > over
    IN /\ c # Nothing /\ cleaning' = Nothing
       /\ \/ /\ ~lasts /\ row.status # "DELETED" /\ Unchanged(c)
             /\ DeleteRow /\ decided' = (decided \/ row.term <= over)
             /\ UNCHANGED overwritten
          \/ /\ lasts
             /\ row' = [row EXCEPT !.term = panel.term, !.status = "ACTIVE"]
             /\ overwritten' = (overwritten \/ panel.term < row.term \/ row.status = "DELETED")
             /\ UNCHANGED <<job, queue, decided, faults>>
          \/ UNCHANGED <<row, job, queue, decided, overwritten, faults>>
       /\ UNCHANGED <<scenario, panel, profiles, at, forcing, over, scanned, events, condemned,
                      orphaned, wedged, adopted, env>>

\* The panel announces the state of a profile; the news may be late.
PanelEvent ==
    /\ announced < scenario.events /\ announced' = announced + 1
    /\ panel.id # 0
    /\ events' = events \cup {[id |-> panel.id, term |-> panel.term, ended |-> panel.term <= over]}
    /\ UNCHANGED <<scenario, row, panel, profiles, job, queue, at, forcing, over, scanned, cleaning,
                   history, renews, removals, disables, deaths, faults>>

\* reconcileSubscriptionFromEvent writes what the panel said over the row.
HearEvent(e) ==
    /\ e \in events /\ events' = events \ {e}
    /\ IF row.link = e.id /\ row.status # "DELETED"
       THEN /\ row' = [row EXCEPT !.term = e.term, !.status = IF e.ended THEN "EXPIRED" ELSE "ACTIVE"]
            /\ overwritten' = (overwritten \/ e.term # row.term)
       ELSE UNCHANGED <<row, overwritten>>
    /\ UNCHANGED <<scenario, panel, profiles, job, queue, at, forcing, over, scanned, cleaning,
                   decided, condemned, orphaned, wedged, adopted, env, faults>>
-----------------------------------------------------------------------------
(* The worker                                                              *)

workerRest == <<scenario, crons, env, decided, overwritten, wedged>>

MoveTo(w, pc) == at' = [at EXCEPT ![w].pc = pc]
MoveToWith(w, pc, cur) == at' = [at EXCEPT ![w].pc = pc, ![w].cur = cur]

\* The queue keeps what it is done with, under the id of the row.
Done(w) ==
    /\ queue' = [queue EXCEPT ![at[w].job].state = "kept"]
    /\ at' = [at EXCEPT ![w] = Idle]

\* process(): the job is loaded with its subscription, and left if there is
\* nothing to do.
Pick(w, j) ==
    /\ at[w] = Idle /\ queue[j].state = "waiting"
    /\ IF job[j].status = "COMPLETED" \/ job[j].superseded
       THEN queue' = [queue EXCEPT ![j].state = "kept"] /\ UNCHANGED at
       ELSE /\ queue' = [queue EXCEPT ![j].state = "active"]
            /\ at' = [at EXCEPT ![w] = [pc |-> "claim", job |-> j, cur |-> row, round |-> 1,
                                        found |-> 0, passing |-> FALSE]]
    /\ UNCHANGED <<workerRest, row, panel, profiles, job, condemned, orphaned, adopted, faults>>

\* Which handler, from the row as it was loaded before the claim.
Handler(j, cur) ==
    CASE job[j].action = "DELETE" -> "delete"
      [] job[j].action = "CREATE" /\ cur.link = 0 -> "create"
      [] OTHER -> "reload"

Claim(w) ==
    LET j == at[w].job IN
    /\ at[w].pc = "claim"
    /\ IF job[j].status \in {"PENDING", "FAILED"} /\ ~job[j].superseded
       THEN /\ job' = [job EXCEPT ![j].status = "RUNNING", ![j].lease = w]
            /\ MoveTo(w, Handler(j, at[w].cur))
            /\ UNCHANGED queue
       ELSE Done(w) /\ UNCHANGED job
    /\ UNCHANGED <<workerRest, row, panel, profiles, condemned, orphaned, adopted, faults>>

\* The beginning of handleUpdate.
Reload(w) ==
    /\ at[w].pc = "reload"
    /\ at' = [at EXCEPT ![w].cur = row, ![w].round = 1,
                        ![w].pc = IF row.link = 0 THEN "create" ELSE "patch"]
    /\ UNCHANGED <<workerRest, row, panel, profiles, job, queue, condemned, orphaned, adopted, faults>>

Failing(w, passing) == at' = [at EXCEPT ![w].pc = "fail", ![w].passing = passing]

\* A profile of this name is taken for our own, as it is; otherwise one is
\* created.  A lookup that failed meets the panel's refusal; an answer that is
\* lost looks like a failure.
Create(w) ==
    /\ at[w].pc = "create"
    /\ \/ /\ panel.id # 0
          /\ at' = [at EXCEPT ![w].pc = "link", ![w].found = panel.id]
          /\ adopted' = (adopted \/ panel.term # row.term)
          /\ NoFault /\ UNCHANGED <<panel, profiles, orphaned>>
       \/ /\ panel.id = 0 /\ profiles < MaxProfiles
          /\ profiles' = profiles + 1
          /\ panel' = [id |-> profiles', term |-> at[w].cur.term]
          /\ UNCHANGED adopted
          /\ \/ at' = [at EXCEPT ![w].pc = "link", ![w].found = profiles']
                /\ NoFault /\ UNCHANGED orphaned
             \/ Failing(w, TRUE) /\ Fault /\ orphaned' = TRUE
       \/ /\ Failing(w, panel.id = 0) /\ Fault
          /\ UNCHANGED <<panel, profiles, orphaned, adopted>>
    /\ UNCHANGED <<workerRest, row, job, queue, condemned>>

\* createDeleteJobIfMissing: an open deletion of this profile will do.
Removing(id) ==
    \E j \in Jobs : Created(j) /\ job[j].action = "DELETE" /\ job[j].target = id
                        /\ job[j].status \in Open

\* The deletion is committed and then queued; when the queue refuses, the
\* worker fails with the deletion on record.
Compensate(w, id) ==
    /\ Free # {}
    /\ job' = [job EXCEPT ![FirstFree] = NewJob("DELETE", id)]
    /\ \/ queue' = [queue EXCEPT ![FirstFree] = Added(queue[FirstFree])] /\ MoveTo(w, "complete") /\ NoFault
       \/ UNCHANGED queue /\ Failing(w, FALSE) /\ Fault

MutantUnwanted(status) == FALSE

\* persistProfileLink: anything but ACTIVE has its profile removed.
Unwanted(status) == status # "ACTIVE"

Link(w) ==
    LET id == at[w].found IN
    /\ at[w].pc = "link"
    /\ row' = [row EXCEPT !.link = id]
    /\ IF Unwanted(row.status) /\ ~Removing(id)
       THEN Compensate(w, id)
       ELSE MoveTo(w, "complete") /\ UNCHANGED <<job, queue, faults>>
    /\ condemned' = (condemned \/ (row.status # "DELETED" /\ Unwanted(row.status)))
    /\ orphaned' = (orphaned /\ panel.id # id)
    /\ UNCHANGED <<workerRest, panel, profiles, adopted>>

\* One absolute write; a profile the panel does not know is a 404 of its own.
Patch(w) ==
    /\ at[w].pc = "patch"
    /\ \/ /\ panel.id = at[w].cur.link
          /\ panel' = [panel EXCEPT !.term = at[w].cur.term]
          /\ adopted' = FALSE
          /\ \/ MoveTo(w, "recheck") /\ NoFault
             \/ Failing(w, TRUE) /\ Fault
       \/ /\ panel.id # at[w].cur.link
          /\ MoveTo(w, "detach")
          /\ NoFault /\ UNCHANGED <<panel, adopted>>
       \/ /\ Failing(w, TRUE) /\ Fault
          /\ UNCHANGED <<panel, adopted>>
    /\ UNCHANGED <<workerRest, row, profiles, job, queue, condemned, orphaned>>

\* reprovisionMissingProfile, fenced on the old link; then CREATE.
Detach(w) ==
    LET r == IF row.link = at[w].cur.link THEN [row EXCEPT !.link = 0] ELSE row IN
    /\ at[w].pc = "detach"
    /\ row' = r
    /\ MoveToWith(w, IF r.link = 0 THEN "create" ELSE "reload", r)
    /\ UNCHANGED <<workerRest, panel, profiles, job, queue, condemned, orphaned, adopted, faults>>

MutantSameProfile(r, s) == r.link = s.link

\* profileUpdateFingerprint
SameProfile(r, s) == r.link = s.link /\ r.term = s.term

\* The row is read again after the write: what changed is written once more.
Recheck(w) ==
    /\ at[w].pc = "recheck"
    /\ \/ SameProfile(row, at[w].cur) /\ MoveTo(w, "ensure")
       \/ /\ ~SameProfile(row, at[w].cur)
          /\ IF at[w].round < MaxRounds
             THEN at' = [at EXCEPT ![w].cur = row, ![w].round = @ + 1,
                                   ![w].pc = IF row.link = 0 THEN "create" ELSE "patch"]
             ELSE Failing(w, TRUE)
    /\ UNCHANGED <<workerRest, row, panel, profiles, job, queue, condemned, orphaned, adopted, faults>>

\* ensureDeleteJobIfDeleted
Ensure(w) ==
    /\ at[w].pc = "ensure"
    /\ IF row.status = "DELETED" /\ ~Removing(at[w].cur.link)
       THEN Compensate(w, at[w].cur.link)
       ELSE MoveTo(w, "complete") /\ UNCHANGED <<job, queue, faults>>
    /\ UNCHANGED <<workerRest, row, panel, profiles, condemned, orphaned, adopted>>

\* A profile that is gone already counts as deleted.
Delete(w) ==
    LET id == job[at[w].job].target
        gone == IF panel.id = id THEN [id |-> 0, term |-> 0] ELSE panel
    IN /\ at[w].pc = "delete"
       /\ \/ panel' = gone /\ MoveTo(w, "retire") /\ NoFault
          \/ panel' \in {gone, panel} /\ Failing(w, TRUE) /\ Fault
       /\ UNCHANGED <<workerRest, row, profiles, job, queue, condemned, orphaned, adopted>>

\* The row loses its link and is deleted, whatever it is by now.
Retire(w) ==
    /\ at[w].pc = "retire"
    /\ row' = IF row.link = job[at[w].job].target
              THEN [row EXCEPT !.link = 0, !.status = "DELETED"] ELSE row
    /\ MoveTo(w, "complete")
    /\ UNCHANGED <<workerRest, panel, profiles, job, queue, condemned, orphaned, adopted, faults>>

\* The last write of a worker counts while the lease is its own.
Leased(w) ==
    LET j == job[at[w].job] IN j.status = "RUNNING" /\ ~j.superseded /\ j.lease = w

Complete(w) ==
    /\ at[w].pc = "complete"
    /\ job' = IF Leased(w) THEN [job EXCEPT ![at[w].job].status = "COMPLETED"] ELSE job
    /\ Done(w)
    /\ UNCHANGED <<workerRest, row, panel, profiles, condemned, orphaned, adopted, faults>>

\* recordFailure; the queue tries again until its attempts are used up.
Fail(w) ==
    LET j == at[w].job IN
    /\ at[w].pc = "fail"
    /\ job' = IF Leased(w) THEN [job EXCEPT ![j].status = "FAILED", ![j].transient = at[w].passing]
              ELSE job
    /\ queue' = [queue EXCEPT ![j] = IF @.tries + 1 < MaxTries
                                     THEN [state |-> "waiting", tries |-> @.tries + 1]
                                     ELSE [state |-> "kept", tries |-> @.tries]]
    /\ at' = [at EXCEPT ![w] = Idle]
    /\ UNCHANGED <<workerRest, row, panel, profiles, condemned, orphaned, adopted, faults>>
-----------------------------------------------------------------------------
(* The cron, and what dies                                                 *)

cronRest == <<scenario, row, panel, profiles, at, over, scanned, cleaning, events,
              decided, condemned, orphaned, overwritten, adopted, env>>

\* sweepPending
SweepPending(j) ==
    /\ Created(j) /\ job[j].status = "PENDING" /\ ~job[j].superseded
    /\ queue[j].state = "none"
    /\ queue' = [queue EXCEPT ![j] = Added(@)]
    /\ UNCHANGED <<cronRest, job, forcing, wedged, faults>>

\* A RUNNING row whose lease ran out: its worker is dead, or merely slow.
Abandoned(j) == ~\E w \in SyncWorkers : at[w] # Idle /\ at[w].job = j

\* What failed for a passing reason, or was left RUNNING, is PENDING again.
Recover(j) ==
    /\ forcing = 0
    /\ Created(j) /\ ~job[j].superseded
    /\ \/ job[j].status = "FAILED" /\ job[j].transient /\ NoFault
       \/ /\ job[j].status = "RUNNING"
          /\ IF Abandoned(j) THEN NoFault ELSE Fault
    /\ job' = [job EXCEPT ![j].status = "PENDING"]
    /\ forcing' = j
    /\ UNCHANGED <<cronRest, queue, wedged>>

\* The job that was reset is queued again.  An unreachable queue ends the run of
\* the cron.
Requeue ==
    /\ forcing # 0 /\ forcing' = 0
    /\ \/ /\ queue' = [queue EXCEPT ![forcing] = Forced(@)]
          /\ wedged' = IF queue[forcing].state = "active" THEN wedged \cup {forcing} ELSE wedged
          /\ NoFault
       \/ wedged' = wedged \cup {forcing} /\ UNCHANGED queue /\ Fault
    /\ UNCHANGED <<cronRest, job>>

\* The process dies; the queue notices the stalled jobs and hands them out again.
Die ==
    /\ deaths < scenario.deaths /\ deaths' = deaths + 1
    /\ at' = [w \in SyncWorkers |-> Idle]
    /\ queue' = [j \in Jobs |-> IF queue[j].state = "active"
                                THEN [queue[j] EXCEPT !.state = "waiting"] ELSE queue[j]]
    /\ orphaned' = (orphaned \/ \E w \in SyncWorkers : at[w].pc = "link")
    /\ wedged' = IF forcing = 0 THEN wedged ELSE wedged \cup {forcing}
    /\ forcing' = 0 /\ scanned' = FALSE /\ cleaning' = Nothing
    /\ UNCHANGED <<scenario, row, panel, profiles, job, over, events, decided, condemned,
                   overwritten, adopted, renews, removals, disables, announced, faults>>

\* A subscription that was paid for, with its first job; or one long linked; or
\* one to be written to a profile that the panel has lost.
SyncInit ==
    /\ scenario \in Scenarios
    /\ row = [status |-> "ACTIVE", link |-> IF scenario.start = "new" THEN 0 ELSE 1, term |-> 1]
    /\ panel = IF scenario.start = "linked" THEN [id |-> 1, term |-> 1] ELSE [id |-> 0, term |-> 0]
    /\ profiles = IF scenario.start = "new" THEN 0 ELSE 1
    /\ job = [j \in Jobs |-> IF j > 1 THEN NoJob ELSE CASE scenario.start = "new" -> NewJob("CREATE", 0)
                              [] scenario.start = "lost" -> NewJob("UPDATE", 0)
                              [] OTHER -> NoJob]
    /\ queue = [j \in Jobs |-> [state |-> IF j = 1 /\ scenario.start # "linked" THEN "waiting" ELSE "none",
                                tries |-> 0]]
    /\ at = [w \in SyncWorkers |-> Idle]
    /\ forcing = 0 /\ over = 0 /\ scanned = FALSE /\ cleaning = Nothing /\ events = {}
    /\ decided = FALSE /\ condemned = FALSE /\ orphaned = FALSE /\ wedged = {} /\ overwritten = FALSE
    /\ adopted = FALSE
    /\ renews = 0 /\ removals = 0 /\ disables = 0 /\ announced = 0 /\ faults = 0 /\ deaths = 0

SyncStep(w) ==
    \/ Claim(w) \/ Reload(w) \/ Create(w) \/ Link(w) \/ Patch(w) \/ Detach(w) \/ Recheck(w)
    \/ Ensure(w) \/ Delete(w) \/ Retire(w) \/ Complete(w) \/ Fail(w)

Cron == (\E j \in Jobs : SweepPending(j) \/ Recover(j)) \/ Requeue

SyncNext ==
    \/ Renew \/ Disable \/ Remove \/ TermEnds \/ ScanExpired \/ MarkExpired
    \/ PickExpired \/ Cleanup \/ PanelEvent \/ \E e \in events : HearEvent(e)
    \/ \E w \in SyncWorkers : SyncStep(w) \/ \E j \in Jobs : Pick(w, j)
    \/ Cron \/ Die

SyncSpec == SyncInit /\ [][SyncNext]_syncVars

\* The queue hands out what waits, workers go on, the cron fires every five
\* minutes.
SyncFairness ==
    /\ \A w \in SyncWorkers : WF_syncVars(SyncStep(w))
    /\ \A j \in Jobs : WF_syncVars(\E w \in SyncWorkers : Pick(w, j))
    /\ \A j \in Jobs : WF_syncVars(SweepPending(j)) /\ WF_syncVars(Recover(j))
    /\ WF_syncVars(Requeue)

FairSyncSpec == SyncSpec /\ SyncFairness
-----------------------------------------------------------------------------
(* Properties                                                              *)

Settled(j) == Created(j) => job[j].status = "COMPLETED" \/ job[j].superseded

Quiet == (\A w \in SyncWorkers : at[w] = Idle) /\ \A j \in Jobs : Settled(j)

\* When every job is done the panel has what the subscription says, whatever
\* order the writes arrived in, and a deleted subscription has no profile.
\* Exempt is what was overwritten by old news, a profile whose creator was
\* lost, and a subscription whose removal the synchronisation scheduled when it
\* linked the profile to a row that was switched off: renewed since, it loses
\* its profile, and a creator that read it before makes another of the old term.
Converged ==
    Quiet /\ ~overwritten /\ ~condemned =>
        /\ row.status = "ACTIVE" =>
              panel.id # 0 /\ row.link = panel.id /\ (panel.term = row.term \/ adopted)
        /\ row.status = "DELETED" => panel.id = 0 \/ orphaned

\* A subscription is deleted because someone deleted it or because the term it
\* has by then is over; a renewal the cleanup did not see saves it.  The
\* synchronisation deletes none of its own accord, unless it linked a profile
\* to a subscription that was not active.
DeletedByDecision == row.status = "DELETED" => decided \/ condemned

\* A deletion is never forgotten: as long as a deleted subscription has a live
\* profile it knows of, a job to remove that profile is open.
RemovalOnRecord ==
    row.status = "DELETED" /\ row.link # 0 /\ panel.id = row.link => Removing(row.link)

\* What is waiting is done in the end, or given up for a reason that is not
\* passing; except a job the cron reset and the queue did not take.
JobSettles ==
    \A j \in Jobs : (Created(j) /\ job[j].status = "PENDING") ~>
        (Settled(j) \/ j \in wedged \/ (job[j].status = "FAILED" /\ ~job[j].transient))

\* What holds of the row and its jobs in every state: their types, one worker
\* to a job, and that no deletion came of the synchronisation alone.
SyncConsistent == SyncTypeOK /\ OneWorkerEach /\ DeletedByDecision
=============================================================================
