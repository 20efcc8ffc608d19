------------------------------ MODULE JobQueue ------------------------------
(***************************************************************************)
(* The generation queue as PostgreSQL sees it: the rows of                 *)
(* generation_jobs and generation_events, and every transaction of the API *)
(* that writes them.  Workers lease a job, report against the lease and    *)
(* finish it; a user may cancel it at any moment; a reaper takes it back   *)
(* from a worker that fell silent.                                         *)
(*                                                                         *)
(* A worker is the environment here.  Once a lease has been handed out,    *)
(* any report that names it may reach the API at any later time, once,     *)
(* twice or never: a report delayed in the network, one the HTTP client    *)
(* sent again, one from a process everybody took for dead.  Reports the    *)
(* API refuses change nothing and are not actions.                         *)
(***************************************************************************)
EXTENDS JobStatus, FiniteSets

CONSTANTS
    Jobs,         \* job ids, numbered in the order of created_at
    Workers,      \* registered workers
    Requests,     \* cancel requests that can be in progress at once
    Serves,       \* the jobs whose workflow a worker can execute
    MaxAttempts,  \* GenerationJob.max_attempts
    ReapLimit,    \* rows one pass of the reaper may requeue
    Full,         \* the progress of a finished job, 100 in the code
    Reported,     \* the statuses a worker's progress reports carry
    MaxReports,   \* bound: no progress report is accepted past this seq
    Nobody        \* NULL, for a worker or for what a request has loaded

ASSUME QueueAssumption ==
    /\ Jobs \subseteq Nat
    /\ Serves \in [Workers -> SUBSET Jobs]
    /\ MaxAttempts \in Nat \ {0}
    /\ ReapLimit \in Nat \ {0}
    /\ Full \in Nat \ {0}
    /\ Reported \subseteq Working
    /\ MaxReports \in Nat
    /\ Nobody \notin Workers

VARIABLES
    job,      \* job[j]: the row of j
    events,   \* events[j]: its generation_events rows
    outputs,  \* outputs[j]: the lease tokens whose completion attached an output
    grants,   \* every lease a claim has committed
    issued,   \* issued[j]: how many lease tokens were drawn for j
    claiming, \* claiming[w]: the row w's open claim transaction read and locked
    cancel    \* cancel[r]: what request r keeps of a row it read without a lock

vars == <<job, events, outputs, grants, issued, claiming, cancel>>

(***************************************************************************)
(* Rows.  A lease token is the number of the draw that produced it, so two *)
(* draws never agree, as two uuid4 never do; 0 is NULL.  lease_expires_at  *)
(* is kept as what a reader learns from it: NULL, in the future, or past.  *)
(***************************************************************************)
NoToken == 0
Lease   == {"none", "live", "expired"}

Row == [status   : Status \cup {Absent},
        worker   : Workers \cup {Nobody},
        token    : Nat,
        lease    : Lease,
        attempts : Nat,
        progress : 0..Full,
        seq      : Nat]

Event == [seq : Nat, status : Status, progress : 0..Full]
Grant == [job : Jobs, worker : Workers, token : Nat]
Locked == [job : Jobs, attempts : Nat]
Loaded == [job : Jobs, leased : BOOLEAN, seq : Nat, progress : 0..Full]

NoRow == [status |-> Absent, worker |-> Nobody, token |-> NoToken,
          lease |-> "none", attempts |-> 0, progress |-> 0, seq |-> 0]

Live(j)  == job[j].status # Absent /\ ~IsTerminal(job[j].status)
Lockable(j) == \A w \in Workers : claiming[w] # Nobody => claiming[w].job # j

Init ==
    /\ job      = [j \in Jobs |-> NoRow]
    /\ events   = [j \in Jobs |-> {}]
    /\ outputs  = [j \in Jobs |-> {}]
    /\ grants   = {}
    /\ issued   = [j \in Jobs |-> 0]
    /\ claiming = [w \in Workers |-> Nobody]
    /\ cancel   = [r \in Requests |-> Nobody]

(***************************************************************************)
(* Writing a row.  append_event numbers the event from the row in hand and *)
(* records the row's new status and progress; the unique index             *)
(* uq_generation_events_job_seq refuses a number the log already has.      *)
(***************************************************************************)
Numbered(row) == [row EXCEPT !.seq = @ + 1]

EventOf(row) == [seq |-> row.seq, status |-> row.status, progress |-> row.progress]

\* Mutation: the index is gone.
SeqAlwaysFree(j, n) == TRUE

SeqFree(j, n) == \A e \in events[j] : e.seq # n

\* The row under lock becomes `row` with the next event's number, and that
\* event is inserted, all in one transaction.
WriteLogged(j, row) ==
    LET new == Numbered(row)
    IN  /\ SeqFree(j, new.seq)
        /\ job'    = [job EXCEPT ![j] = new]
        /\ events' = [events EXCEPT ![j] = @ \cup {EventOf(new)}]

\* What a retried, a reaped and a finished job have in common: no lease.
Unleased(row) == [row EXCEPT !.token = NoToken, !.lease = "none"]

\* Mutation: the lease columns survive the way back to the queue.
RequeuedWithLease(row) == [row EXCEPT !.status = "queued", !.progress = 0]

Requeued(row) ==
    [Unleased(row) EXCEPT !.status = "queued", !.worker = Nobody, !.progress = 0]

GivenUp(row) == [Unleased(row) EXCEPT !.status = "failed"]

\* Mutation: one attempt too many.
SpentTooLate(row) == row.attempts > MaxAttempts

\* fail's should_retry and the reaper's two filters agree on this.
Spent(row) == row.attempts >= MaxAttempts

(***************************************************************************)
(* Creation and claiming.                                                  *)
(***************************************************************************)
\* create: the row and its first event.
Submit(j) ==
    /\ job[j].status = Absent
    /\ WriteLogged(j, [NoRow EXCEPT !.status = "queued"])
    /\ UNCHANGED <<outputs, grants, issued, claiming, cancel>>

\* Mutation: SELECT without FOR UPDATE SKIP LOCKED.
ClaimableUnlocked(w, j) == job[j].status = "queued" /\ j \in Serves[w]

Claimable(w, j) == job[j].status = "queued" /\ j \in Serves[w] /\ Lockable(j)

\* claim_next, the SELECT ... FOR UPDATE SKIP LOCKED: the oldest eligible
\* queued row no other transaction holds is read and locked.
ClaimLock(w) ==
    /\ claiming[w] = Nobody
    /\ \E j \in Jobs :
         /\ Claimable(w, j)
         /\ \A k \in Jobs : Claimable(w, k) => j <= k
         /\ claiming' = [claiming EXCEPT ![w] = [job |-> j, attempts |-> job[j].attempts]]
    /\ UNCHANGED <<job, events, outputs, grants, issued, cancel>>

\* claim_next, the UPDATE, and the commit of claim_job: a fresh token, one
\* attempt more than the row that was read, and no event.
ClaimCommit(w) ==
    /\ claiming[w] # Nobody
    /\ LET j     == claiming[w].job
           token == issued[j] + 1
       IN  /\ issued' = [issued EXCEPT ![j] = token]
           /\ job'    = [job EXCEPT ![j] =
                            [@ EXCEPT !.status   = "assigned",
                                      !.worker   = w,
                                      !.token    = token,
                                      !.lease    = "live",
                                      !.attempts = claiming[w].attempts + 1]]
           /\ grants' = grants \cup {[job |-> j, worker |-> w, token |-> token]}
    /\ claiming' = [claiming EXCEPT ![w] = Nobody]
    /\ UNCHANGED <<events, outputs, cancel>>

\* The connection dies, or presigning raises, before the commit.
ClaimRollback(w) ==
    /\ claiming[w] # Nobody
    /\ claiming' = [claiming EXCEPT ![w] = Nobody]
    /\ UNCHANGED <<job, events, outputs, grants, issued, cancel>>

(***************************************************************************)
(* Worker reports, each one transaction under the row lock.                *)
(***************************************************************************)
\* Mutation: the worker is checked, the lease token is not.
AuthorizedByWorker(g) ==
    Lockable(g.job) /\ Live(g.job) /\ job[g.job].worker = g.worker

\* Mutation: the terminal check is left to the lease token.
AuthorizedByToken(g) ==
    /\ Lockable(g.job)
    /\ job[g.job].worker = g.worker
    /\ job[g.job].token = g.token

\* _lock_and_authorize.
Authorized(g) ==
    /\ Lockable(g.job)
    /\ Live(g.job)
    /\ job[g.job].worker = g.worker
    /\ job[g.job].token = g.token

\* Mutation: the last report wins.
AdvancedToLast(row, status, p) ==
    [row EXCEPT !.status = status, !.progress = p, !.lease = "live"]

\* What an accepted report makes of the row; extend_lease included.
Advanced(row, status, p) ==
    [row EXCEPT !.status   = status,
                !.progress = IF p > @ THEN p ELSE @,
                !.lease    = "live"]

\* report_progress.
Progress(g, status, p) ==
    /\ Authorized(g)
    /\ CanTransition(job[g.job].status, status)
    /\ job[g.job].seq < MaxReports
    /\ WriteLogged(g.job, Advanced(job[g.job], status, p))
    /\ UNCHANGED <<outputs, grants, issued, claiming, cancel>>

\* complete.
Complete(g) ==
    /\ Authorized(g)
    /\ WriteLogged(g.job, [Unleased(job[g.job]) EXCEPT
                              !.status = "completed", !.progress = Full])
    /\ outputs' = [outputs EXCEPT ![g.job] = @ \cup {g.token}]
    /\ UNCHANGED <<grants, issued, claiming, cancel>>

\* fail: back to the queue while attempts remain and the worker says a retry
\* may help, otherwise failed for good.
Fail(g, retriable) ==
    /\ Authorized(g)
    /\ WriteLogged(g.job,
          IF retriable /\ ~Spent(job[g.job])
          THEN Requeued(job[g.job])
          ELSE GivenUp(job[g.job]))
    /\ UNCHANGED <<outputs, grants, issued, claiming, cancel>>

(***************************************************************************)
(* Time and the reaper.                                                    *)
(***************************************************************************)
LeaseExpires(j) ==
    /\ job[j].lease = "live"
    /\ job' = [job EXCEPT ![j].lease = "expired"]
    /\ UNCHANGED <<events, outputs, grants, issued, claiming, cancel>>

\* expired_filter.
Expired == {j \in Jobs : Live(j) /\ job[j].lease = "expired"}

\* Mutation: the second UPDATE is missing.
ReapedNeverGivenUp(j, batch) ==
    IF j \in batch /\ ~Spent(job[j]) THEN Requeued(job[j]) ELSE job[j]

\* Mutation: the second UPDATE forgets to look at the attempts.
ReapedAlwaysGivenUp(j, batch) ==
    IF j \in Expired THEN GivenUp(job[j]) ELSE job[j]

Reaped(j, batch) ==
    IF j \in Expired /\ Spent(job[j]) THEN GivenUp(job[j])
    ELSE IF j \in batch THEN Requeued(job[j])
    ELSE job[j]

\* requeue_expired_leases: two UPDATEs of one transaction.  The first puts
\* back rows with attempts left, out of at most ReapLimit expired ones; the
\* second fails every expired row that has none.  Neither writes an event.
Reap ==
    /\ Expired # {}
    /\ \A j \in Expired : Lockable(j)
    /\ \E batch \in SUBSET Expired :
         /\ \/ Cardinality(batch) = ReapLimit
            \/ Cardinality(batch) < ReapLimit /\ batch = Expired
         /\ job' = [j \in Jobs |-> Reaped(j, batch)]
    /\ UNCHANGED <<events, outputs, grants, issued, claiming, cancel>>

(***************************************************************************)
(* Cancellation.  The route reads the row without a lock to find its       *)
(* owner; cancel then reads it again FOR UPDATE, in the same session.  The *)
(* session already maps that row to an object and keeps the object's       *)
(* attributes, so everything cancel tests and writes after the lock comes  *)
(* from the first read, and only attributes that changed are written.      *)
(***************************************************************************)
CancelLoad(r, j) ==
    /\ cancel[r] = Nobody
    /\ Live(j)
    /\ cancel' = [cancel EXCEPT ![r] =
           [job |-> j, leased |-> job[j].token # NoToken,
            seq |-> job[j].seq, progress |-> job[j].progress]]
    /\ UNCHANGED <<job, events, outputs, grants, issued, claiming>>

\* What the UPDATE makes of the row now in the table, given the row loaded.
Cancelled(current, loaded) ==
    [current EXCEPT
        !.status = "cancelled",
        !.token  = IF loaded.leased THEN NoToken ELSE @,
        !.lease  = IF loaded.leased THEN "none" ELSE @,
        !.seq    = loaded.seq + 1]

CancelCommit(r) ==
    /\ cancel[r] # Nobody
    /\ LET loaded == cancel[r]
           j      == loaded.job
       IN  /\ Lockable(j)
           /\ SeqFree(j, loaded.seq + 1)
           /\ job'    = [job EXCEPT ![j] = Cancelled(@, loaded)]
           /\ events' = [events EXCEPT ![j] = @ \cup
                {[seq |-> loaded.seq + 1, status |-> "cancelled",
                  progress |-> loaded.progress]}]
    /\ cancel' = [cancel EXCEPT ![r] = Nobody]
    /\ UNCHANGED <<outputs, grants, issued, claiming>>

\* The insert broke the unique index, or the request died: a rollback.
CancelRollback(r) ==
    /\ cancel[r] # Nobody
    /\ cancel' = [cancel EXCEPT ![r] = Nobody]
    /\ UNCHANGED <<job, events, outputs, grants, issued, claiming>>

-----------------------------------------------------------------------------
Next ==
    \/ \E j \in Jobs : Submit(j) \/ LeaseExpires(j)
    \/ \E w \in Workers : ClaimLock(w) \/ ClaimCommit(w) \/ ClaimRollback(w)
    \/ \E g \in grants :
         \/ \E status \in Reported, p \in 0..Full : Progress(g, status, p)
         \/ Complete(g)
         \/ \E retriable \in BOOLEAN : Fail(g, retriable)
    \/ Reap
    \/ \E r \in Requests :
         \/ \E j \in Jobs : CancelLoad(r, j)
         \/ CancelCommit(r)
         \/ CancelRollback(r)

Spec == Init /\ [][Next]_vars

\* What keeps a job moving: time passes, every API process runs the reaper on
\* a timer, and an idle worker polls.  A claim that rolls back is tried again,
\* so it commits if it is given a chance over and over.  Nothing is assumed of
\* users, nor of a worker that has a job: it may fall silent.
Fairness ==
    /\ \A j \in Jobs : WF_vars(LeaseExpires(j))
    /\ WF_vars(Reap)
    /\ \A w \in Workers : WF_vars(ClaimLock(w)) /\ SF_vars(ClaimCommit(w))

FairSpec == Spec /\ Fairness

(***************************************************************************)
(* Properties.                                                             *)
(***************************************************************************)
\* The rows, the log and what the open transactions hold have their types.
TypeOK ==
    /\ job \in [Jobs -> Row]
    /\ events \in [Jobs -> SUBSET Event]
    /\ outputs \in [Jobs -> SUBSET Nat]
    /\ grants \subseteq Grant
    /\ issued \in [Jobs -> Nat]
    /\ claiming \in [Workers -> Locked \cup {Nobody}]
    /\ cancel \in [Requests -> Loaded \cup {Nobody}]

\* Every lease ever handed out was charged as an attempt, and no job is handed
\* out more often than max_attempts: two workers that claim at the same moment,
\* a retry a worker asks for and one the reaper makes never share or escape the
\* count ("no infinite loop is possible", services/generation.py).
EveryGrantIsCharged ==
    \A j \in Jobs : job[j].attempts = issued[j] /\ issued[j] <= MaxAttempts

\* A queued job has no lease and an attempt left to spend; a job in a working
\* status has a lease the reaper can find if the worker dies, and that lease is
\* the last one handed out.  A working row without one would never move again.
LeaseFollowsStatus ==
    \A j \in Jobs :
       /\ job[j].status = "queued" =>
             /\ job[j].worker = Nobody /\ job[j].token = NoToken
             /\ job[j].lease = "none"  /\ job[j].attempts < MaxAttempts
       /\ job[j].status \in Working =>
             /\ job[j].lease # "none"
             /\ job[j].token = issued[j]
             /\ [job |-> j, worker |-> job[j].worker, token |-> job[j].token] \in grants

\* A job has an output exactly when it is completed, and the output is the work
\* of its last lease: what a superseded worker reports never lands.
OutputIsFromLastLease ==
    \A j \in Jobs :
       outputs[j] = IF job[j].status = "completed" THEN {issued[j]} ELSE {}

\* The event log of a job is numbered 1, 2, ..., last_event_seq, each number
\* once: a client that resumes after a cursor skips nothing and sees nothing
\* twice.
LogIsDense ==
    \A j \in Jobs :
       /\ {e.seq : e \in events[j]} = 1..job[j].seq
       /\ \A d, e \in events[j] : d.seq = e.seq => d = e

\* The last event of a finished job tells how it finished, except that a job
\* the reaper gave up on ends without an event, every attempt spent.
LastEventTellsOutcome ==
    \A j \in Jobs : IsTerminal(job[j].status) =>
       \/ \E e \in events[j] : e.seq = job[j].seq /\ e.status = job[j].status
       \/ /\ job[j].status = "failed"
          /\ job[j].attempts = MaxAttempts
          /\ \A e \in events[j] : ~IsTerminal(e.status)

\* An outcome the log has recorded is final, and so is its place at the end of
\* the log: a cancellation that read the row before the outcome was recorded
\* cannot overwrite it.
LoggedOutcomeIsFinal ==
    [][\A j \in Jobs : (\E e \in events[j] : IsTerminal(e.status)) =>
          job'[j].status = job[j].status /\ events'[j] = events[j]]_vars

\* While one lease lasts, neither the status nor the progress of the job moves
\* back, whatever the order its reports arrive in.
ForwardUnderOneLease ==
    [][\A j \in Jobs :
          job[j].token # NoToken /\ job'[j].token = job[j].token =>
             /\ job'[j].progress >= job[j].progress
             /\ job'[j].status \in Working => Rank(job'[j].status) >= Rank(job[j].status)
      ]_vars

\* Every job that was created is finished in the end, whichever workers die.
EveryJobSettles ==
    \A j \in Jobs : job[j].status = "queued" ~> IsTerminal(job[j].status)

\* Where LeaseContract sees a job.
Place(status) ==
    CASE status = Absent     -> "absent"
      [] status = "queued"   -> "waiting"
      [] status \in Working  -> "held"
      [] IsTerminal(status)  -> "over"

\* The queue keeps the contract: a job is held while it is in a working status,
\* over when its status is terminal, and delivered when an output is attached.
Contract == INSTANCE LeaseContract WITH
    MaxTries  <- MaxAttempts,
    state     <- [j \in Jobs |-> Place(job[j].status)],
    tries     <- [j \in Jobs |-> issued[j]],
    delivered <- [j \in Jobs |-> outputs[j] # {}]

KeepsContract == Contract!CSpec

(***************************************************************************)
(* The facts the properties above rest on: with TypeOK, the lease          *)
(* properties and the log properties they are inductive.                   *)
(***************************************************************************)
\* An open claim holds a queued row nobody else holds, as it stands.
ClaimsHoldTheirRows ==
    \A w \in Workers : claiming[w] # Nobody =>
       /\ job[claiming[w].job].status = "queued"
       /\ job[claiming[w].job].attempts = claiming[w].attempts
       /\ \A v \in Workers : v # w /\ claiming[v] # Nobody =>
             claiming[v].job # claiming[w].job

\* Tokens in use have been drawn.
TokensAreDrawn ==
    /\ \A g \in grants : g.token \in 1..issued[g.job]
    /\ \A j \in Jobs : job[j].token <= issued[j]

AbsentIsBlank ==
    \A j \in Jobs : job[j].status = Absent => job[j] = NoRow /\ events[j] = {}

\* A terminal event is the last of its log and agrees with the row.
TerminalEventIsLast ==
    \A j \in Jobs : \A e \in events[j] : IsTerminal(e.status) =>
       e.seq = job[j].seq /\ e.status = job[j].status

\* A cancel request read a row as it was before any terminal event.
CancelsReadThePast ==
    \A r \in Requests : cancel[r] # Nobody =>
       /\ job[cancel[r].job].status # Absent
       /\ cancel[r].seq <= job[cancel[r].job].seq
       /\ \A e \in events[cancel[r].job] : IsTerminal(e.status) => cancel[r].seq < e.seq

LeaseInv ==
    /\ EveryGrantIsCharged
    /\ LeaseFollowsStatus
    /\ ClaimsHoldTheirRows
    /\ TokensAreDrawn
    /\ AbsentIsBlank

LogInv ==
    /\ LogIsDense
    /\ TerminalEventIsLast
    /\ CancelsReadThePast
    /\ LastEventTellsOutcome

=============================================================================
