---------------------------- MODULE WorkerRunner ----------------------------
(***************************************************************************)
(* The worker process against the queue: JobRunner, its _LeaseKeeper and   *)
(* the HTTP client they report through.  JobQueue lets any report about a  *)
(* lease arrive at any time; here the reports are those a worker sends.    *)
(*                                                                         *)
(* A run reports "preparing", stages its inputs, renders while a second    *)
(* task repeats the last report to keep the lease, uploads the result and  *)
(* completes the job.  Both tasks talk to the API at the same time, over   *)
(* different connections, and a request the client has given up on may     *)
(* still be handled.  A slot of a worker runs one job at a time, so one    *)
(* slot per worker is modelled.                                            *)
(***************************************************************************)
EXTENDS JobQueue, Sequences

CONSTANTS
    Stages,  \* what one run can report, in order: the runner's own, then the adapter's
    Tries,   \* _TRANSPORT_ATTEMPTS
    MaxWire  \* bound: requests on their way at once

\* The runner reports "preparing" first, and no adapter reports a status behind
\* its last: StageReporter.report clamps it, the harness and the mock go in order.
ASSUME RunnerAssumption ==
    /\ Stages \in Seq([status : Reported, progress : 0..Full])
    /\ Len(Stages) > 0
    /\ \A i, k \in 1..Len(Stages) : i <= k => Rank(Stages[i].status) <= Rank(Stages[k].status)
    /\ Tries \in Nat \ {0}
    /\ MaxWire \in Nat \ {0}

VARIABLES
    run,    \* run[w]: what w is doing
    wire,   \* requests sent and not yet handled, abandoned ones included
    object  \* object[j]: the lease whose result is stored under j's output key

runnerVars == <<run, wire, object>>
systemVars == <<job, events, outputs, grants, issued, claiming, cancel, run, wire, object>>

(***************************************************************************)
(* A call is a request and the reply it has had; the foreground and the    *)
(* keepalive task have at most one each.  A fail report is "retry" or      *)
(* "giveup", as the error was retriable or not.                            *)
(***************************************************************************)
Lines == {"fore", "keep"}
Kinds == {"progress", "complete", "retry", "giveup"}

Message == [line : Lines, kind : Kinds, lease : Grant, at : 1..Len(Stages), try : 1..Tries]
Call    == [msg : Message, reply : {"none", "accepted", "refused"}]

Run == [phase : {"idle", "starting", "staging", "rendering", "uploading",
                 "completing", "failing"},
        lease : Grant \cup {Nobody},
        at    : 1..Len(Stages),  \* _LeaseKeeper._last, as an index of Stages
        lost  : BOOLEAN,         \* _LeaseKeeper._lost, and the cancelled event
        fore  : Call \cup {Nobody},
        keep  : Call \cup {Nobody}]

Idle == [phase |-> "idle", lease |-> Nobody, at |-> 1, lost |-> FALSE,
         fore |-> Nobody, keep |-> Nobody]

Holds(g) == Live(g.job) /\ job[g.job].worker = g.worker /\ job[g.job].token = g.token

RunnerInit ==
    /\ Init
    /\ run    = [w \in Workers |-> Idle]
    /\ wire   = {}
    /\ object = [j \in Jobs |-> NoToken]

\* Request `kind` about the lease of r, sent for the first time.
Request(r, line, kind) ==
    [line |-> line, kind |-> kind, lease |-> r.lease, at |-> r.at, try |-> 1]

\* w goes on as r with a call on one of its lines.
Calls(w, r, line, kind) ==
    LET m == Request(r, line, kind)
    IN  /\ run'  = [run EXCEPT ![w] = [r EXCEPT ![line] = [msg |-> m, reply |-> "none"]]]
        /\ wire' = wire \cup {m}
        /\ Cardinality(wire') <= MaxWire

Becomes(w, r) == run' = [run EXCEPT ![w] = r] /\ UNCHANGED wire

(***************************************************************************)
(* The queue's own steps, and claiming.  A claim is not retried, and its   *)
(* answer may be lost after the API has committed it.                      *)
(***************************************************************************)
QueueStep ==
    /\ \/ \E j \in Jobs : Submit(j) \/ LeaseExpires(j)
       \/ \E w \in Workers : run[w].phase = "idle" /\ ClaimLock(w)
       \/ \E w \in Workers : ClaimRollback(w)
       \/ Reap
       \/ \E r \in Requests :
            (\E j \in Jobs : CancelLoad(r, j)) \/ CancelCommit(r) \/ CancelRollback(r)
    /\ UNCHANGED runnerVars

Claimed(w) == [job |-> claiming[w].job, worker |-> w, token |-> issued[claiming[w].job] + 1]

Start(w) ==
    /\ run[w].phase = "idle"
    /\ ClaimCommit(w)
    /\ Calls(w, [Idle EXCEPT !.phase = "starting", !.lease = Claimed(w)], "fore", "progress")
    /\ UNCHANGED object

StartUnheard(w) == ClaimCommit(w) /\ UNCHANGED runnerVars

(***************************************************************************)
(* The API handles a request, for a caller that may be gone.               *)
(***************************************************************************)
Acceptable(m) ==
    /\ Holds(m.lease)
    /\ m.kind = "progress" => CanTransition(job[m.lease.job].status, Stages[m.at].status)

Accepts(m) ==
    \/ m.kind = "progress" /\ Progress(m.lease, Stages[m.at].status, Stages[m.at].progress)
    \/ m.kind = "complete" /\ Complete(m.lease)
    \/ m.kind \in {"retry", "giveup"} /\ Fail(m.lease, m.kind = "retry")

Replied(m, reply) ==
    LET r == run[m.lease.worker]
    IN  IF r[m.line] # Nobody /\ r[m.line].msg = m
        THEN [run EXCEPT ![m.lease.worker] = [r EXCEPT ![m.line] = [@ EXCEPT !.reply = reply]]]
        ELSE run

Handle(m) ==
    /\ \/ Accepts(m) /\ run' = Replied(m, "accepted")
       \/ /\ Lockable(m.lease.job)
          /\ ~Acceptable(m)
          /\ UNCHANGED vars
          /\ run' = Replied(m, "refused")
    /\ wire' = wire \ {m}
    /\ UNCHANGED object

\* A request that never reaches the API.
Lose(m) ==
    /\ wire' = wire \ {m}
    /\ UNCHANGED <<vars, run, object>>

(***************************************************************************)
(* The client.                                                             *)
(***************************************************************************)
\* _send: the connection broke, before or after the API saw the request.
Resend(w, line) ==
    /\ run[w][line] # Nobody
    /\ LET m == run[w][line].msg
           n == [m EXCEPT !.try = @ + 1]
       IN  /\ m.try < Tries
           /\ run'  = [run EXCEPT ![w] = [@ EXCEPT ![line] = [msg |-> n, reply |-> "none"]]]
           /\ wire' = wire \cup {n}
           /\ Cardinality(wire') <= MaxWire
    /\ UNCHANGED <<vars, object>>

\* What follows an answered call, and one that raised ApiUnavailable: a lost
\* progress report is only logged.
Proceeds(r) ==
    CASE r.phase = "starting"  -> [r EXCEPT !.phase = "staging", !.fore = Nobody]
      [] r.phase = "rendering" -> [r EXCEPT !.fore = Nobody]
      [] OTHER                 -> Idle

\* A refused report raises LeaseLost: the run is over.
ForeHeard(w) ==
    /\ run[w].fore # Nobody
    /\ run[w].fore.reply # "none"
    /\ Becomes(w, IF run[w].fore.reply = "refused" THEN Idle ELSE Proceeds(run[w]))
    /\ UNCHANGED <<vars, object>>

\* ApiUnavailable: a timeout, an HTTP 5xx, or the last try broken.
ForeUnheard(w) ==
    /\ run[w].fore # Nobody
    /\ Becomes(w, Proceeds(run[w]))
    /\ UNCHANGED <<vars, object>>

(***************************************************************************)
(* _LeaseKeeper._loop, while the adapter runs.                             *)
(***************************************************************************)
Tick(w) ==
    /\ run[w].phase = "rendering"
    /\ run[w].keep = Nobody
    /\ ~run[w].lost
    /\ Calls(w, run[w], "keep", "progress")
    /\ UNCHANGED <<vars, object>>

\* A refusal ends the loop and raises the cancelled flag.
KeepHeard(w) ==
    /\ run[w].keep # Nobody
    /\ run[w].keep.reply # "none"
    /\ Becomes(w, [run[w] EXCEPT !.keep = Nobody,
                                 !.lost = run[w].keep.reply = "refused"])
    /\ UNCHANGED <<vars, object>>

\* Mutation: an unreachable API ends the loop, the last call still in hand.
KeptUnheardOnce(r) == r

\* An unreachable API does not: the next tick sends the report again.
KeptUnheard(r) == [r EXCEPT !.keep = Nobody]

KeepUnheard(w) ==
    /\ run[w].keep # Nobody
    /\ run[w].keep.reply = "none"
    /\ Becomes(w, KeptUnheard(run[w]))
    /\ UNCHANGED <<vars, object>>

(***************************************************************************)
(* The foreground: _execute, and the adapter inside it.                    *)
(***************************************************************************)
Resting(w, phase) == run[w].phase = phase /\ run[w].fore = Nobody

Stage(w) ==
    /\ Resting(w, "staging")
    /\ Becomes(w, [run[w] EXCEPT !.phase = "rendering"])
    /\ UNCHANGED <<vars, object>>

\* Mutation: StageReporter.report without its clamp.
NextStagesAny(r) == 1..Len(Stages)

\* StageReporter.report: both axes only move forward.
NextStages(r) == r.at..Len(Stages)

Report(w) ==
    /\ Resting(w, "rendering")
    /\ \E at \in NextStages(run[w]) :
          Calls(w, [run[w] EXCEPT !.at = at], "fore", "progress")
    /\ UNCHANGED <<vars, object>>

\* raise_if_cancelled: JobCancelled ends the run, and nothing is reported.
Checkpoint(w) ==
    /\ Resting(w, "rendering")
    /\ run[w].lost
    /\ Becomes(w, Idle)
    /\ UNCHANGED <<vars, object>>

\* Mutation: the completion is reported before the upload.
FinishUnstored(w) ==
    /\ Resting(w, "rendering")
    /\ Calls(w, [run[w] EXCEPT !.phase = "completing", !.keep = Nobody], "fore", "complete")
    /\ UNCHANGED <<vars, object>>

\* The adapter returns; raise_if_lost comes after the keepalive has stopped.
Finish(w) ==
    /\ Resting(w, "rendering")
    /\ Becomes(w, IF run[w].lost THEN Idle
                  ELSE [run[w] EXCEPT !.phase = "uploading", !.keep = Nobody])
    /\ UNCHANGED <<vars, object>>

\* The output key is the job's, so every attempt writes the same object.
Upload(w) ==
    /\ Resting(w, "uploading")
    /\ object' = [object EXCEPT ![run[w].lease.job] = run[w].lease.token]
    /\ Calls(w, [run[w] EXCEPT !.phase = "completing"], "fore", "complete")
    /\ UNCHANGED vars

\* An AdapterError, an unexpected exception, or a failed transfer.
Break(w) ==
    /\ \E phase \in {"staging", "rendering", "uploading"} : Resting(w, phase)
    /\ \E kind \in {"retry", "giveup"} :
          Calls(w, [run[w] EXCEPT !.phase = "failing", !.keep = Nobody], "fore", kind)
    /\ UNCHANGED <<vars, object>>

\* The budget is spent: wait_for cancels the adapter, inside a report or not.
TimeOut(w) ==
    /\ run[w].phase = "rendering"
    /\ Calls(w, [run[w] EXCEPT !.phase = "failing", !.keep = Nobody], "fore", "retry")
    /\ UNCHANGED <<vars, object>>

\* The process is killed, or its drain window closes on a running job.
Crash(w) ==
    /\ run[w].phase # "idle"
    /\ Becomes(w, Idle)
    /\ UNCHANGED <<vars, object>>

-----------------------------------------------------------------------------
RunnerNext ==
    \/ QueueStep
    \/ \E m \in wire : Handle(m) \/ Lose(m)
    \/ \E w \in Workers :
         \/ Start(w) \/ StartUnheard(w)
         \/ ForeHeard(w) \/ ForeUnheard(w) \/ \E line \in Lines : Resend(w, line)
         \/ Tick(w) \/ KeepHeard(w) \/ KeepUnheard(w)
         \/ Stage(w) \/ Report(w) \/ Checkpoint(w) \/ Finish(w) \/ Upload(w)
         \/ Break(w) \/ TimeOut(w) \/ Crash(w)

RunnerSpec == RunnerInit /\ [][RunnerNext]_systemVars

\* The request on line of w's current call, if the API can still see it.
HandleCall(w, line) ==
    /\ run[w][line] # Nobody
    /\ run[w][line].msg \in wire
    /\ Handle(run[w][line].msg)

\* The keepalive timer fires, requests leave the wire, calls end
\* (request_timeout_seconds), adapters check the flag between units of work,
\* and the API answers a keepalive now and then.  The render itself may last
\* for ever: no budget is assumed.
RunnerFairness ==
    /\ WF_systemVars(\E m \in wire : Handle(m) \/ Lose(m))
    /\ \A w \in Workers :
         /\ SF_systemVars(Tick(w)) /\ WF_systemVars(ForeUnheard(w))
         /\ WF_systemVars(KeepUnheard(w)) /\ SF_systemVars(Checkpoint(w))
         /\ SF_systemVars(HandleCall(w, "keep")) /\ SF_systemVars(KeepHeard(w))

FairRunnerSpec == RunnerSpec /\ RunnerFairness

(***************************************************************************)
(* Properties.                                                             *)
(***************************************************************************)
\* Runs, requests and stored objects have their types, and a run has a lease.
RunnerTypeOK ==
    /\ run \in [Workers -> Run]
    /\ \A w \in Workers : run[w].phase # "idle" => run[w].lease \in Grant
    /\ wire \subseteq Message
    /\ object \in [Jobs -> Nat]

\* The foreground is refused only when the lease is gone: reports only move
\* forward, and one that was handled twice stays a legal move.
RefusedReportMeansLost ==
    \A w \in Workers :
       run[w].fore # Nobody /\ run[w].fore.reply = "refused" => ~Holds(run[w].lease)

\* A completed job has a file in storage.
CompletedHasObject ==
    \A j \in Jobs : job[j].status = "completed" => object[j] # NoToken

\* A worker whose lease is gone stops rendering, however long the render and
\* whatever calls fail on the way ("releasing a GPU in seconds", runner.py).
LostLeaseStopsWork ==
    \A w \in Workers :
       (run[w].phase = "rendering" /\ ~Holds(run[w].lease)) ~> run[w].phase # "rendering"

(***************************************************************************)
(* What the source says of itself and the code does not do.                *)
(***************************************************************************)
\* models/asset.py: "the constraint makes an accidental overwrite a database
\* error rather than silent data loss": the file of a completed job is the one
\* its last lease produced.
CompletedKeepsItsObject ==
    \A j \in Jobs : job[j].status = "completed" => object[j] = issued[j]

(***************************************************************************)
(* The facts RefusedReportMeansLost and CompletedHasObject rest on: with   *)
(* the types and the lease properties of the queue they are inductive.     *)
(***************************************************************************)
Drawn(g) == g.token \in 1..issued[g.job]

\* A request is about a lease that was handed out, and a completion was sent
\* after the upload.
SoundRequest(m) ==
    /\ Drawn(m.lease)
    /\ m.kind = "complete" => object[m.lease.job] # NoToken

\* The call on a line of r, if there is one, is about r's lease, says no more
\* than r has reached, and is the last report if it is the foreground's.
SoundCall(r, line) ==
    r[line] # Nobody =>
       /\ r[line].msg.line = line
       /\ r[line].msg.lease = r.lease
       /\ r[line].msg.at <= r.at
       /\ line = "fore" => r[line].msg.at = r.at
       /\ SoundRequest(r[line].msg)

\* The job of a held lease and the requests that carry it are not ahead of the
\* run, so the run's next report is a legal move whenever it is handled.
NothingIsAhead(r) ==
    /\ Holds(r.lease) => Rank(job[r.lease.job].status) <= Rank(Stages[r.at].status)
    /\ \A m \in wire : m.lease = r.lease => m.at <= r.at

SoundRun(w, r) ==
    \/ r = Idle
    \/ /\ r.phase # "idle"
       /\ r.lease.worker = w
       /\ Drawn(r.lease)
       /\ NothingIsAhead(r)
       /\ \A line \in Lines : SoundCall(r, line)
       /\ r.fore # Nobody /\ r.fore.reply = "refused" => ~Holds(r.lease)

RunnerInv ==
    /\ \A w \in Workers : SoundRun(w, run[w])
    /\ \A m \in wire : SoundRequest(m)
    /\ CompletedHasObject
=============================================================================
