---------------------------- MODULE WorkerService -----------------------------
(***************************************************************************)
(* The worker process around its runs: registration, heartbeat, the claim  *)
(* loop and its semaphore, the doorbell it waits on, the drain at SIGTERM, *)
(* and the directory each run works in.                                    *)
(*                                                                         *)
(* A process is three tasks on one event loop.  Only what they share is    *)
(* interesting: the heartbeat may replace the identity the claim loop      *)
(* claims with, and the claim loop's return ends the process under the     *)
(* task that drains it.  A run is one step here; WorkerRunner is what is   *)
(* inside it, and JobQueue what is inside a row.                           *)
(***************************************************************************)
EXTENDS Naturals, FiniteSets

CONSTANTS
    Workers,     \* processes, one per worker name
    Jobs,
    Slots,       \* max_concurrency
    MaxAttempts, \* job_max_attempts
    Routes,      \* Routes[j]: the runtime j's workflow is routed to
    Runtimes,    \* Runtimes[w]: what w can execute
    MaxWake,     \* _MAX_WAKE_DEPTH
    MaxRows,     \* bound: worker rows ever inserted
    MaxBoots     \* bound: times a process is started

ASSUME ServiceAssumption ==
    /\ Slots \in Nat \ {0} /\ MaxAttempts \in Nat \ {0}
    /\ MaxWake \in Nat \ {0} /\ MaxRows \in Nat \ {0} /\ MaxBoots \in Nat \ {0}
    /\ DOMAIN Routes = Jobs /\ DOMAIN Runtimes = Workers

VARIABLES
    job,   \* job[j]: the row, as far as a worker's lease on it goes
    wake,  \* length of the doorbell list
    node,  \* node[w]: the id of the row registered under w's name
    rows,  \* worker rows ever inserted: the last id given
    proc,  \* proc[w]: the process
    files  \* files[w][j]: the lease whose run the directory job-<j> was made for

serviceVars == <<job, wake, node, rows, proc, files>>

NoId == 0

Row  == [status : {"unborn", "queued", "leased", "done", "failed"},
         worker : 0..MaxRows, token : 0..MaxAttempts]  \* a token names the attempt
Run  == [job : Jobs, token : 1..MaxAttempts, as : 0..MaxRows]

Proc == [pc : {"down", "registering", "top", "acquiring", "calling", "heard", "waiting",
               "rejected", "left"},
         id       : 0..MaxRows,   \* self.worker_id
         runner   : 0..MaxRows,   \* runner.worker_id, the one the claim loop holds
         asked    : 0..MaxRows,   \* the identity of the claim under way
         claim    : SUBSET Run,   \* an answered claim, until its task exists
         free     : 0..Slots,     \* the semaphore
         active   : SUBSET Run,   \* the tasks in _active
         beat     : {"off", "asleep", "lost"},
         stopping : BOOLEAN,
         drain    : {"no", "waiting", "over"},
         awaited  : SUBSET Run,   \* what asyncio.wait was given
         cut      : BOOLEAN,      \* history: an awaited run was cancelled before its window closed
         boots    : 0..MaxBoots]

Down == [pc |-> "down", id |-> NoId, runner |-> NoId, asked |-> NoId, claim |-> {},
         free |-> Slots,
         active |-> {}, beat |-> "off", stopping |-> FALSE, drain |-> "no",
         awaited |-> {}, cut |-> FALSE, boots |-> 0]

\* What a killed process leaves on disk: a directory with no run.
Leftover == MaxAttempts + 1

ServiceInit ==
    /\ job   = [j \in Jobs |-> [status |-> "unborn", worker |-> NoId, token |-> 0]]
    /\ wake  = 0
    /\ node  = [w \in Workers |-> NoId]
    /\ rows  = 0
    /\ proc  = [w \in Workers |-> Down]
    /\ files = [w \in Workers |-> [j \in Jobs |-> 0]]

Goes(w, p) == proc' = [proc EXCEPT ![w] = p]

Holds(r) == /\ job[r.job].status = "leased"
            /\ job[r.job].worker = r.as
            /\ job[r.job].token = r.token

(***************************************************************************)
(* The queue and its doorbell.                                             *)
(***************************************************************************)
\* notify_job_available, wake_workers: the list is trimmed, and a push Redis
\* refuses is only logged.
Rings == wake' \in {wake, IF wake < MaxWake THEN wake + 1 ELSE wake}

Submit(j) ==
    /\ job[j].status = "unborn"
    /\ job' = [job EXCEPT ![j].status = "queued"]
    /\ Rings
    /\ UNCHANGED <<node, rows, proc, files>>

\* The lease expired and the reaper took the job back, whether or not a run of
\* it is still at work.
Reap(j) ==
    /\ job[j].status = "leased"
    /\ job' = [job EXCEPT ![j].status = IF job[j].token < MaxAttempts
                                        THEN "queued" ELSE "failed"]
    /\ Rings
    /\ UNCHANGED <<node, rows, proc, files>>

\* Wake-ups that went missing: another consumer, or a flushed Redis.
Unring ==
    /\ wake > 0
    /\ wake' = wake - 1
    /\ UNCHANGED <<job, node, rows, proc, files>>

(***************************************************************************)
(* The worker registry.                                                    *)
(***************************************************************************)
\* The row is gone: a reset database, a pruned row.  The foreign key clears
\* the jobs that name it (ON DELETE SET NULL).
Forget(w) ==
    /\ node[w] # NoId
    /\ rows < MaxRows
    /\ node' = [node EXCEPT ![w] = NoId]
    /\ job'  = [j \in Jobs |-> IF job[j].worker = node[w]
                               THEN [job[j] EXCEPT !.worker = NoId] ELSE job[j]]
    /\ UNCHANGED <<wake, rows, proc, files>>

\* WorkerRepository.register: upsert by name.
Registered(w) == IF node[w] = NoId THEN rows + 1 ELSE node[w]

Register(w) ==
    /\ rows' = IF node[w] = NoId THEN rows + 1 ELSE rows
    /\ node' = [node EXCEPT ![w] = Registered(w)]
    /\ UNCHANGED <<job, wake, files>>

-----------------------------------------------------------------------------
(***************************************************************************)
(* The process: start, registration, heartbeat.                            *)
(***************************************************************************)
Boot(w) ==
    /\ proc[w].pc = "down"
    /\ proc[w].boots < MaxBoots
    /\ Goes(w, [Down EXCEPT !.pc = "registering", !.boots = proc[w].boots + 1])
    /\ UNCHANGED <<job, wake, node, rows, files>>

\* run(): the heartbeat task is made once the first registration succeeded.
\* A request on its way when stopping is set is still answered.
FirstRegistration(w) ==
    /\ proc[w].pc = "registering"
    /\ Register(w)
    /\ Goes(w, [proc[w] EXCEPT !.pc = "top", !.id = Registered(w),
                               !.runner = Registered(w), !.beat = "asleep"])

\* register() returns without an id once stopping is set, and run() ends.
GivesUpRegistering(w) ==
    /\ proc[w].pc = "registering"
    /\ proc[w].stopping
    /\ Goes(w, [proc[w] EXCEPT !.pc = "left"])
    /\ UNCHANGED <<job, wake, node, rows, files>>

\* A heartbeat the API acknowledges changes only last_seen_at and a status
\* nobody decides by.
Heartbeat(w) ==
    /\ proc[w].beat = "asleep"
    /\ ~proc[w].stopping
    /\ node[w] # proc[w].id
    /\ Goes(w, [proc[w] EXCEPT !.beat = "lost"])
    /\ UNCHANGED <<job, wake, node, rows, files>>

\* worker_identity_lost: the claim loop's runner keeps the old identity.
HeartbeatRegisters(w) ==
    /\ proc[w].beat = "lost"
    /\ \/ /\ proc[w].stopping
          /\ Goes(w, [proc[w] EXCEPT !.beat = "asleep"])
          /\ UNCHANGED <<job, wake, node, rows, files>>
       \/ Register(w) /\ Goes(w, [proc[w] EXCEPT !.beat = "asleep", !.id = Registered(w)])

(***************************************************************************)
(* claim_loop.                                                             *)
(***************************************************************************)
Top(w) ==
    /\ proc[w].pc = "top"
    /\ Goes(w, [proc[w] EXCEPT !.pc = IF proc[w].stopping THEN "left" ELSE "acquiring"])
    /\ UNCHANGED <<job, wake, node, rows, files>>

\* A slot is free: call the API, or give the slot back and stop.
Acquire(w) ==
    /\ proc[w].pc = "acquiring"
    /\ proc[w].free > 0
    /\ Goes(w, IF proc[w].stopping THEN [proc[w] EXCEPT !.pc = "left"]
               ELSE [proc[w] EXCEPT !.pc = "calling", !.asked = proc[w].id, !.free = @ - 1])
    /\ UNCHANGED <<job, wake, node, rows, files>>

Servable(w, j) == Routes[j] \in Runtimes[w]

\* The API's side of a claim; which queued job is the oldest is left open.
Leases(w, j) ==
    job' = [job EXCEPT ![j] = [status |-> "leased", worker |-> proc[w].asked,
                               token |-> @.token + 1]]

ClaimAnswered(w) ==
    /\ proc[w].pc = "calling"
    /\ node[w] = proc[w].asked
    /\ \E j \in Jobs :
         /\ job[j].status = "queued" /\ Servable(w, j)
         /\ Leases(w, j)
         /\ Goes(w, [proc[w] EXCEPT !.pc = "heard",
              !.claim = {[job |-> j, token |-> job[j].token + 1, as |-> proc[w].runner]}])
    /\ UNCHANGED <<wake, node, rows, files>>

NoWork(w) ==
    /\ proc[w].pc = "calling"
    /\ node[w] = proc[w].asked
    /\ ~\E j \in Jobs : job[j].status = "queued" /\ Servable(w, j)
    /\ Goes(w, [proc[w] EXCEPT !.pc = "waiting", !.free = @ + 1])
    /\ UNCHANGED <<job, wake, node, rows, files>>

\* Mutation: the slot is not given back when the call fails.
ClaimFailedKeepingSlot(w) ==
    /\ proc[w].pc = "calling"
    /\ Goes(w, [proc[w] EXCEPT !.pc = "top"])
    /\ UNCHANGED <<job, wake, node, rows, files>>

\* ApiUnavailable: the claim may have been committed all the same.
ClaimFailed(w) ==
    /\ proc[w].pc = "calling"
    /\ Goes(w, [proc[w] EXCEPT !.pc = "top", !.free = @ + 1])
    /\ \/ UNCHANGED job
       \/ /\ node[w] = proc[w].asked
          /\ \E j \in Jobs : job[j].status = "queued" /\ Servable(w, j) /\ Leases(w, j)
    /\ UNCHANGED <<wake, node, rows, files>>

ClaimRejected(w) ==
    /\ proc[w].pc = "calling"
    /\ node[w] # proc[w].asked
    /\ Goes(w, [proc[w] EXCEPT !.pc = "rejected", !.free = @ + 1])
    /\ UNCHANGED <<job, wake, node, rows, files>>

\* Registered again, and a runner for the new identity.
ClaimRegisters(w) ==
    /\ proc[w].pc = "rejected"
    /\ \/ /\ proc[w].stopping
          /\ Goes(w, [proc[w] EXCEPT !.pc = "top"])
          /\ UNCHANGED <<job, wake, node, rows, files>>
       \/ /\ Register(w)
          /\ Goes(w, [proc[w] EXCEPT !.pc = "top", !.id = Registered(w),
                                       !.runner = Registered(w)])

\* Mutation: an idle worker waits for the bell and for nothing else.
WaitForBell(w) ==
    /\ proc[w].pc = "waiting"
    /\ wake > 0 /\ wake' = wake - 1
    /\ Goes(w, [proc[w] EXCEPT !.pc = "top"])
    /\ UNCHANGED <<job, node, rows, files>>

\* _wait_for_work: the bell, its timeout, or the poll that replaces it.
WaitForWork(w) ==
    /\ proc[w].pc = "waiting"
    /\ \/ wake > 0 /\ wake' = wake - 1
       \/ UNCHANGED wake
    /\ Goes(w, [proc[w] EXCEPT !.pc = "top"])
    /\ UNCHANGED <<job, node, rows, files>>

\* create_task: the run makes its directory, removing what is there.
Spawn(w) ==
    /\ proc[w].pc = "heard"
    /\ Goes(w, [proc[w] EXCEPT !.pc = "top", !.claim = {}, !.active = @ \cup proc[w].claim])
    /\ files' = [files EXCEPT ![w] = [j \in Jobs |->
                   IF \E r \in proc[w].claim : r.job = j
                   THEN (CHOOSE r \in proc[w].claim : r.job = j).token ELSE @[j]]]
    /\ UNCHANGED <<job, wake, node, rows>>

-----------------------------------------------------------------------------
(***************************************************************************)
(* The runs.                                                               *)
(***************************************************************************)
\* Mutation: a run that ends keeps its slot.
WithoutRelease(p, r) == [p EXCEPT !.active = @ \ {r}]

\* _run_and_release and job_workspace, on the way out.
Without(p, r) == [p EXCEPT !.active = @ \ {r}, !.free = @ + 1]

\* Mutation: the directory is removed after a success only.
CleansOnSuccess(w, j) ==
    files' = IF job'[j].status = "done" THEN [files EXCEPT ![w][j] = 0] ELSE files

Cleans(w, j) == files' = [files EXCEPT ![w][j] = 0]

\* The run's last report: accepted from the lease's holder only, and the
\* outcome of the row is WorkerRunner's and JobQueue's matter.
RunEnds(w, r) ==
    /\ r \in proc[w].active
    /\ job' = IF Holds(r)
              THEN [job EXCEPT ![r.job].status = "done"] ELSE job
    /\ Goes(w, Without(proc[w], r))
    /\ Cleans(w, r.job)
    /\ UNCHANGED <<wake, node, rows>>

\* An error the worker reports, a lost lease, or an orphaned run.
RunFails(w, r) ==
    /\ r \in proc[w].active
    /\ \/ UNCHANGED job
       \/ /\ Holds(r)
          /\ job' = [job EXCEPT ![r.job].status = IF job[r.job].token < MaxAttempts
                                                  THEN "queued" ELSE "failed"]
    /\ Goes(w, Without(proc[w], r))
    /\ Cleans(w, r.job)
    /\ UNCHANGED <<wake, node, rows>>

(***************************************************************************)
(* Shutdown.                                                               *)
(***************************************************************************)
\* The signal handler's task: shutdown() up to its wait.
Sigterm(w) ==
    /\ proc[w].pc # "down"
    /\ ~proc[w].stopping
    /\ Goes(w, [proc[w] EXCEPT !.stopping = TRUE, !.awaited = proc[w].active,
                               !.drain = IF proc[w].active = {} THEN "over" ELSE "waiting"])
    /\ UNCHANGED <<job, wake, node, rows, files>>

\* Every awaited run is over.
Drained(w) ==
    /\ proc[w].drain = "waiting"
    /\ proc[w].awaited \cap proc[w].active = {}
    /\ Goes(w, [proc[w] EXCEPT !.drain = "over"])
    /\ UNCHANGED <<job, wake, node, rows, files>>

\* Cancelled, a run reports nothing; its `finally` blocks still run.
Cancelled(w, runs) ==
    files' = [files EXCEPT ![w] = [j \in Jobs |->
                IF \E r \in runs : r.job = j THEN 0 ELSE @[j]]]

\* The drain window closes on what is still running.
DrainWindowCloses(w) ==
    /\ proc[w].drain = "waiting"
    /\ LET late == proc[w].awaited \cap proc[w].active
       IN  /\ late # {}
           /\ Goes(w, [proc[w] EXCEPT !.drain = "over", !.active = @ \ late,
                                      !.free = @ + Cardinality(late)])
           /\ Cancelled(w, late)
    /\ UNCHANGED <<job, wake, node, rows>>

\* claim_loop has returned.  run()'s own shutdown() finds stopping set and
\* returns at once, and asyncio.run cancels every task that is left.
ProcessEnds(w) ==
    /\ proc[w].pc = "left"
    /\ Goes(w, [Down EXCEPT !.boots = proc[w].boots,
                            !.cut = \/ proc[w].cut
                                    \/ /\ proc[w].drain = "waiting"
                                       /\ proc[w].awaited \cap proc[w].active # {}])
    /\ Cancelled(w, proc[w].active)
    /\ UNCHANGED <<job, wake, node, rows>>

\* Killed: the directories stay.
Kill(w) ==
    /\ proc[w].pc # "down"
    /\ Goes(w, [Down EXCEPT !.boots = proc[w].boots, !.cut = proc[w].cut])
    /\ files' = [files EXCEPT ![w] = [j \in Jobs |-> IF @[j] = 0 THEN 0 ELSE Leftover]]
    /\ UNCHANGED <<job, wake, node, rows>>

-----------------------------------------------------------------------------
ClaimLoop(w) ==
    \/ Top(w) \/ Acquire(w) \/ ClaimAnswered(w) \/ NoWork(w) \/ ClaimFailed(w)
    \/ ClaimRejected(w) \/ ClaimRegisters(w) \/ WaitForWork(w) \/ Spawn(w)

Registration(w) ==
    \/ Boot(w) \/ FirstRegistration(w) \/ GivesUpRegistering(w)
    \/ Heartbeat(w) \/ HeartbeatRegisters(w)

Shutdown(w) ==
    \/ Sigterm(w) \/ Drained(w) \/ DrainWindowCloses(w)
    \/ ProcessEnds(w) \/ Kill(w)

ServiceNext ==
    \/ \E j \in Jobs : Submit(j) \/ Reap(j)
    \/ Unring
    \/ \E w \in Workers :
         \/ Forget(w)
         \/ Registration(w) \/ ClaimLoop(w) \/ Shutdown(w)
         \/ \E r \in proc[w].active : RunEnds(w, r) \/ RunFails(w, r)

ServiceSpec == ServiceInit /\ [][ServiceNext]_serviceVars

\* What a process does by itself goes on; an API called again and again answers
\* some of the calls; a run is bounded by its timeout.  Nothing is assumed of
\* submissions, the reaper, Redis, signals, kills or reboots.
ServiceFairness ==
    \A w \in Workers :
        /\ WF_serviceVars(FirstRegistration(w)) /\ WF_serviceVars(GivesUpRegistering(w))
        /\ WF_serviceVars(HeartbeatRegisters(w))
        /\ WF_serviceVars(Top(w)) /\ WF_serviceVars(Acquire(w))
        /\ SF_serviceVars(ClaimAnswered(w)) /\ SF_serviceVars(ClaimRejected(w))
        /\ WF_serviceVars(NoWork(w) \/ ClaimFailed(w))
        /\ WF_serviceVars(ClaimRegisters(w)) /\ WF_serviceVars(WaitForWork(w))
        /\ WF_serviceVars(Spawn(w)) /\ WF_serviceVars(ProcessEnds(w))
        /\ WF_serviceVars(\E r \in proc[w].active : RunEnds(w, r) \/ RunFails(w, r))

ServiceFairSpec == ServiceSpec /\ ServiceFairness

-----------------------------------------------------------------------------
(***************************************************************************)
(* Properties.                                                             *)
(***************************************************************************)
\* Every slot is free, held by the claim under way, or held by one run:
\* whichever of the failed call, the rejection, the empty queue, the drain and
\* the end of a run gave it back, it was given back once (main.py:109, 148).
SlotsConserved ==
    \A w \in Workers :
        Slots = proc[w].free + Cardinality(proc[w].active)
                  + (IF proc[w].pc \in {"calling", "heard"} THEN 1 ELSE 0)

\* A directory on disk is a run's that is still on, or was left by a kill:
\* success, failure, a lost lease and the drain all remove it (workspace.py:53).
DirectoryHasRun ==
    \A w \in Workers : \A j \in Jobs :
        files[w][j] \in 1..MaxAttempts => \E r \in proc[w].active : r.job = j

\* A job some running worker can execute does not stay queued, although bells
\* get lost, calls fail and the worker's own row may be forgotten (main.py:154).
QueuedIsServed ==
    \A w \in Workers : \A j \in Jobs :
        Servable(w, j) /\ <>[](proc[w].pc # "down" /\ ~proc[w].stopping)
            => []<>(job[j].status # "queued")

\* A process that was told to stop ends: it never waits for a slot that does not
\* come back, nor for an API that does not answer (main.py:61, 117).
StopEnds == \A w \in Workers : proc[w].stopping ~> proc[w].pc = "down"

(***************************************************************************)
(* What the source says of itself and the code does not do.                *)
(***************************************************************************)
\* "Stops claiming, then lets in-flight jobs finish" (main.py:182): no run the
\* drain waits for is cancelled before the drain window closes.
DrainLetsRunsFinish == \A w \in Workers : ~proc[w].cut

=============================================================================
